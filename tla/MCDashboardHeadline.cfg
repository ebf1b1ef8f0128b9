SPECIFICATION Spec
CONSTANTS
  Dashboards = {d1}
  Tasks = 2
  MaxEvents = 3
INVARIANT HeadlineIsSession
