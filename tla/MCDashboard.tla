------------------------------ MODULE MCDashboard ------------------------------
(* Dashboard with one page, two tasks and two events of any of them (three  *)
(* in the run about the headline).                                          *)
EXTENDS Dashboard
================================================================================
