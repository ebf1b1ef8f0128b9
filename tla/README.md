# Verification of ai-usage-scoring

The program is a single-process asyncio web application (FastAPI). A candidate solves
Python tasks in a browser with a chat assistant beside the editor; everything the
candidate does is logged as an event; the log is scored live by heuristics and, when
the session ends, by an LLM judge. All paths below are relative to `src/`.

This directory models the parts of it whose correctness depends on the order of steps:
how a session is admitted, the event log, the event bus, the life of a session, its
budgets, the judge calls, the dashboard; and the scoring itself, where it must not depend
on that order: the live scores against those computed from the whole log.
TLC checks the models on small instances, TLAPS proves the most important properties
for every instance. `PROJECT.json` lists the components, the runs, the faults each
property was seen to catch, the source lines each definition stands for, and the theorems.

    tlasany M.tla                               parse
    tlc -workers 2 -config MCx.cfg MCx          check
    tlapm MProofs.tla                           prove

## Inventory

| Component | State | Operations | Talks to |
|---|---|---|---|
| Event store: `app/storage/db.py`, `events.py` | the `events` table; one write connection and its transaction; one `asyncio.Lock`; a read pool | `EventLogger.write`, `Database.write/read`, start-up sweep | every writer of any table shares the connection and the lock |
| Row stores: `sessions.py`, `scores.py`, `llm_calls.py`, `tasks.py` | one table each | one statement and a commit each; counting queries | same lock |
| Event bus: `app/bus.py` | per session: channel (deque, closed, dropped), consumer task, subscribers | `publish`, `subscribe`, `close_session`, `_consume` | publishers: candidate handlers, session creation; handlers: live scorer, dashboard |
| Candidate session: `app/ws/candidate.py` | per socket: current task, chat history; the session row | `hello`, `editor.*`, `chat.send`, `code.run`, `task.submit`, `session.end` | store, bus, chat client, sandbox, post-hoc scorer |
| Post-hoc scorer: `app/scoring/posthoc.py` | locals of a run; the final rows in `scores` | `score_session` and below | store, judge client, bus, dashboard |
| Judge client: `app/llm/judge_client.py`, `app/scoring/judges.py` | attempts, usage and status of a call | `judge` | Anthropic API, `llm_calls` |
| Chat client: `app/llm/chat_client.py` | none | `stream_chat` | OpenAI API |
| Live scorer: `app/scoring/live.py` | live rows in `scores` | `handle_event` | bus, store, dashboard |
| Dashboard: `app/ws/dashboard.py`, `app/ws/manager.py`, `static/dashboard.js` | registered sockets; the page's event list and profile | register, replay, broadcast | store, bus, scorers |
| Rate limiter: `app/ratelimit.py` | per key: times of admitted calls | `allow` | HTTP routes |
| HTTP application: `app/main.py` | wiring, the daily caps | routes, start-up, shut-down | all |
| Heuristics, aggregation: `app/scoring/heuristics.py`, `aggregation.py` | none | pure functions | both scorers |
| Sandbox: `app/sandbox/runner.py` | none | one HTTP call | Judge0 |
| Candidate page: `static/candidate.js` | browser state | | sends messages |

Everything runs on one event loop, so a step is indivisible only from one `await` to the
next. What is hard about it:

* Several sockets may be open on a session (a second tab; a reload while the old handler
  still scores). Handlers of different sockets interleave at every `await`: check, then
  act; read, increment, write.
* One connection and one lock for all writers: a failing or cancelled statement of one
  writer leaves something behind for the next.
* Scoring runs under `asyncio.wait_for(..., 120)`, which cancels it, and whatever task
  it awaits, at any suspension point.
* The process may be killed (deploy, memory limit) between any two database writes.
* Services fail, are slow, answer wrongly; `database is locked` is retried with back-off.
* Channels, budgets, histories are bounded, and their boundary is where events are lost.

Properties that make each component correct, in brief: the store numbers events without
gaps and hands them on in order; the bus never loses a scoring event and hands events on
in order; a session only moves forward and is scored from everything it logged; budgets
are kept, or overshot by a known amount; a judge call costs one row that says what it
was; a dashboard shows every event and ends with the final scores; live scores end where
post-hoc scoring starts; an id handed out has its handlers until its session ends; a rate
limit counts the calls of a whole window and no others.

## Modules

    AppendLog <-------- EventStore ---- EventStoreProofs         (implements)
                        EventBus ---- EventBusProofs
                        CandidateSession ---- CandidateSessionProofs
    CappedMeter <------ SessionBudget ---- SessionBudgetProofs   (implements, twice)
                        JudgeCalls ---- JudgeCallsProofs
                        Dashboard ---- DashboardProofs
    Heuristics, Sandbox --- LiveScorer ---- LiveScorerProofs     (extended)
    WindowQuota <------ SlidingWindow --- Admission ---- AdmissionProofs
                        (implements)      (extends)

`MC*` modules instantiate each for TLC. Operators named with a "Fault:" comment are
variants of the definition that follows them with one plausible bug; no specification
uses them, they show that a property notices the bug. The modules meet at what
they assume of each other: `EventBus` publishes events in seq order, which is
`FeedFollowsLog` of `EventStore`; `CandidateSession` takes an emit as one step, which is
`ImplementsLog`; `CandidateSession` reduces judging to one step of a scoring run, which
`JudgeCalls` spells out and shows to end; `Dashboard` puts a channel that loses nothing, one
scoring run and the page together; `LiveScorer` is called with what `EventBus` hands on;
sockets of `CandidateSession` and `SessionBudget` use the ids of `Admission`.

### AppendLog, EventStore

`EventStore` models `EventLogger.write` (read the clock, wait for the lock, BEGIN
IMMEDIATE, SELECT the largest seq and ts, INSERT, COMMIT, release, publish), its retries,
its rollback (after which a "database is locked" of any statement backs off, and every
other error raises), and the writers of other tables on the same connection, which execute one
statement and commit, and have no rollback. `table` is what is committed, `open` and
`pending` the transaction of the connection, `lock` the `asyncio.Lock`, `writer[w]` the
locals of a call, `feed[s]` what the bus was given since the process started. A statement
takes effect in the connection's thread even if the coroutine that awaits it is cancelled:
`CancelRow` therefore leaves the transaction open.

`AppendLog` is what the rest of the program relies on: an append-only log per session
with increasing stamps, and a cursor that offers every entry once and in order.
`ImplementsLog` says that the table, read by seq, with the feed as the cursor, is that.

* `SeqDense`, `TsFollowsSeq`, `FeedFollowsLog`: see the comments; all scoring depends on
  the order by seq.
* `WriteSettles`: every write returns or raises, also behind failing writers.
* `LockGuardsTransaction` (violated): see Findings.

### EventBus

`_SessionChannel.put` with its eviction (`AfterPut`, `Drops`, `Victim`), `publish`, the
consumer task (`Take`, one `Hand` per handler, `Finish`) and `close_session`. Channels are
numbered because publishing after a close creates a new one while the old consumer may
still run. `CloseCancelled` is the 120 s limit: `close_session` is cancelled while it
awaits the consumer, which cancels the consumer too, and its entries are not popped; a
later `close_session` raises (`CloseRaises`). Initially the handlers may be missing: they
are subscribed by session creation only, so after a restart a session has none.

* `KeptNeverDropped`, `PasteOutlivesQueuedSnapshot`: the policy of a full channel.
  `OverflowOnlyKept` and `DropsCounted` complete it; they are proved and in no run.
* `HandedInOrder`, `KeptIsHanded`: order and delivery at each handler, through evictions,
  a close and a second channel.
* `CloseTerminates`: no `close_session` hangs.

### CandidateSession

Row (`status`, `idx`), number of events per task (`weight`), submits and ends, final rows
and aggregate rows, and the handler of every socket. `Submit`, `ReadIdx`, `StoreIdx` are
the three steps of `task.submit`, after which `Present` shows the next task or, when the
store does not know it, keeps the old one; `EmitEnded`, `MarkEnded`, `Snapshot`, `ScoreTask`,
`Aggregate`, `MarkScored` are `_end_session` and the skeleton of scoring. `HandlerDies` is
a raising write or send, `ScoringStops` the limit or an exception inside scoring,
`Restart` the death of the process with the start-up sweep (`_abandon_stale_sessions`).

* `ScoredIsComplete`: a session marked scored has, for each task, a final row computed from
  at least all events logged before it ended, though several runs with snapshots of
  different age may write the same rows and any of them may be stopped half-way.
* `RowFollowsLog`, `StatusForward`: the row never says more than the log has, neither of
  the end (`EndIsLogged`) nor of the task index (`IdxBackedBySubmits`).
* `ScoredOnce` (violated): see Findings.

### CappedMeter, SessionBudget

`CappedMeter` is the shape of every budget check in the program: a use is admitted while
the recorded total is below the cap and recorded after it. What remains of the cap is that
the total passes it by less than one charge per concurrent user.

`SessionBudget` models `_on_run` and `_on_chat`: the checks, the events, the stream, the
cost row, the reply or the error path, and the chat history with its trimming. The
refinements `RunsMetered` and `ChatsMetered` map executions and prompt tokens to a meter
each; a use that ends without a record (the handler dies) is `Forget`.

* `RunsMetered`, `ChatsMetered`: the refinements. `RunOvershoot` and `TokenOvershoot`, how
  far N sockets can pass the caps, follow from them by proof and are in no run.
* `HistoryIsDialogue`: prompts and replies alternate, only the prompt being answered is
  open, and the history is bounded. The error path pops the last entry; this is why that
  is always the unanswered prompt.
* `LogAndBillAgree`: no reply without its cost row, no error row without its event,
  with crashes in between.

### JudgeCalls

`_run_judges` for every task of a scoring run (count the session's rows, count the day's
rows, schedule, gather) and `AnthropicJudgeClient.judge` for every call (attempts, one
status and one usage across them, one cost row that may fail). A question is only its
position; an answer costs one unit of usage; all is one day.

* `WithinBudgets`: a run on its own passes neither cap, over all its tasks
  (`RunWithinCaps`), and the day's rows pass the global cap by no more than the questions of
  one task of every other run (`DayOvershoot`). The second is what is left of the ceiling
  that `GlobalCeiling` refutes: each other run may have one task scheduled, and no more,
  when the last one counts.
* `UsageAccounted`: usage not on the bill is that of calls still under way.
* `ReportedAsHappened`: `cost_capped` of the aggregate is set exactly when chat was over
  its cap or any question of any task was skipped; a row with status ok had a verdict and
  one with status error had none, for every order of failing attempts (`rate_limited` may
  be either).
* `RunSettles`: every run ends even without the 120 s limit.
* `GlobalCeiling` (violated): see Findings.

### Dashboard

A page (`page[d]`), the socket handler that replays to it, the handlers of the bus that
push live scores and forward events (`fan`), and the scoring run that pushes final rows
(`scorer`). The socket is registered for broadcasts when it is accepted, before the page
says hello; the handler then reads and sends the events, the live rows and the final rows,
while broadcasts go to the same socket. A row of scores is represented by the largest seq
it was computed from. The page keeps one score per dimension, the last it was sent.

* `NoEventMissed`, `FinalReaches`: nothing falls between the replay and the broadcasts.
* `CitedIsShown`: scores may overtake the events they cite, which follow.
* `HeadlineIsSession` (violated): see Findings.

An event may come twice (in the replay and live); the page keeps both, and the model, whose
page holds a set of events, does not tell. A live row read for the replay may also
reach the page after a newer live score of the same task; no property forbids it.

### Heuristics, Sandbox, LiveScorer

`Heuristics` has the scores of a task as functions of its log: the three heuristics, the
coverage, the mean over the prompts and the questions to the judge as `PostHocScorer`
selects them, and the blend of `aggregate`. Scores are exact fractions, numerator over
denominator. A prompt is what the formulas look at: its tokens, the number of its words,
whether it attaches code, has a block, asks a question, and which error texts it and its
attached output quote. `Sandbox` is `run_python` from the answer or the failure of Judge0 to
the exit code and the error text a CODE_EXECUTED event carries.

`LiveScorer` calls `handle_event` with the events of one task: `HandlePrompt` scores the
prompt against the remembered error and prompt and writes at once; `HandleTrigger`
remembers a failed run and writes verification and iteration unless the debounce skips
them (the 500 ms are a choice: any write but the first and those of a submission may be
skipped); each upsert may raise, which ends the call between the two; `Lose` is what the
bus drops. `known` says whether the store has the task: of an unknown one verification is
scored live and iteration is not, and post-hoc scoring takes 70 for it. The log holds the
events the bus is done with. `task.presented` and `chat.error` do what a snapshot does and
are not lost, and are left out.

* `LivePromptIsFinal`: the folded state (last error and its time, last prompt) gives every
  prompt the score that post-hoc scoring finds by searching the log. It would not if the
  bus dropped runs or prompts, or if the two windows differed.
* `SubmitSettlesLive`: a submission makes up for every debounced write before it. The one
  exception is stated: a dropped paste from the chat, which only verification looks at.
* `RunNeverCosts`: running code never lowers the verification score, at whatever delay after
  a paste and with whatever prompt in between.
* `QuestionsStand`: the questions of a log are still questions of every longer log, so two
  scoring runs with snapshots of different age do not contradict each other.
* `BlendIsBetween`: the blend lies between heuristic and judge, and UNCLEAR answers lower
  the confidence only.

Live and final rows differ where the program intends it: the judge's answers, and the
writes that failed (`stale`).

### WindowQuota, SlidingWindow, Admission

`WindowQuota` is a limit on all the calls ever admitted; `SlidingWindow` keeps only the
deque that `SlidingWindowLimiter` keeps and is shown to implement it (`ImplementsQuota`):
that evicting forgets nothing that still counts, that a call a whole window old does not
count, and that a refused one never does.

`Admission` composes it with `POST /api/session`, step by step from the clock reading of the
count to the answer (`Begin`, `Count`, `Stamp`, `Insert`, `Wire`, `WriteStarted`, `HandOut`),
with requests that interleave, fail at any statement, or die with the process, and with
messages of candidates who use the ids, and the ends of their sessions. `End` is
`_end_session` up to the scoring, `Close` the `close_session` behind every scoring run,
which pops the handlers, `CloseFails` a handler that dies before it or a `close_session`
that is cancelled; a session may be ended and closed more than once and used in between.
`unheard` records the events that are published to no handler. One clock stands for
`time.time` and `time.monotonic`. What follows a message is in the other modules; here it is
one event, and a scoring run is a count of those under way.

* `DailyOvershoot`: the daily cap is passed by fewer sessions than there are requests at a
  time, also across midnight, when a request counts one day and is stamped in the next.
* `HeardUntilEnded`: an id that this process handed out has both handlers until its
  `session.ended` is in the log, and every event before that one was published to them; its
  log starts with `session.started`, once. An id of an earlier process has no handler, which
  is the limitation of `app/main.py:195`. It fails as soon as a session can be closed
  before its end is logged. What is published after the end may go to no handler.

## Runs and bounds

| Run | Instance | Distinct states |
|---|---|---|
| EventStore | 2 sessions, 2 event writers, 1 row writer, clock {0, 3}, 1 retry, `MaxEvents` 2 | 155 995 |
| EventBus | `QueueMax` 2, 2 handlers, 2 closers, `MaxEvents` 4, `MaxChannels` 3 | 103 899 |
| CandidateSession | 2 sockets, 2 tasks, `MaxSubmits` 2, `MaxEnds` 2, `MaxWeight` 2 | 736 301 |
| SessionBudget | 2 sockets, caps 2, `MaxPrompt` 2, `MaxHistory` 2, `MaxPrompts` 4 | 441 544 |
| JudgeCalls | 2 runs, 2 sessions, 2 tasks, caps 2 and 3, 2 attempts, `MaxWanted` 2 | 101 965 |
| Dashboard | 1 page, 2 tasks, `MaxEvents` 2 | 169 196 |
| LiveScorer | logs of `MaxEvents` 4 over 9 events, 2 time steps, `MaxMissed` 1 | 268 810 |
| Admission | 1 address, limit 1 in a window of 2, 2 requests, cap 1, days of 2 ticks, `MaxSessions` 3, `MaxTime` 3, `MaxMessages` 2, 1 restart | 3 016 366 |

Why they suffice:

* `MaxEvents` (EventStore): a write starts only below it; two writers that started may
  both finish, so seqs pass the bound. Two readings of the clock, one in the future of
  the other by more than the number of events, give a clock that stands still, jumps on
  and goes back. One retry reaches both the back-off and the last attempt.
* `MaxEvents`, `MaxChannels` (EventBus): four events fill a channel of two places and
  exceed it by two; three channels allow a second channel after each of two closes.
* `MaxSubmits`, `MaxEnds`, `MaxWeight` (CandidateSession): both sockets submit and end,
  which makes every lost update and every pair of concurrent scoring runs; weights up to 2
  tell an older snapshot from a newer one. A handler starts only below `MaxWeight`.
* `MaxPrompts` (SessionBudget): four prompts are enough to trim a history of two and
  to overshoot a cap of two on both sockets.
* `MaxWanted` (JudgeCalls): two questions per task of two tasks exceed the session cap of
  two within a run and the day's cap of three across runs. `Attempts` is 2 (4 in the code),
  which has a first, a last, and an order of two failures; `Concurrency` is 1 (4 in the
  code), so that the semaphore makes a call wait; the two violation runs have 2.

* `MaxEvents` (Dashboard): two events give two tasks with rows of their own and a session
  row, an event in the replay and one behind it. Pages do not interact, so one is enough;
  the safety properties also hold with three events (2.3 million states).

* `MaxEvents` (LiveScorer): four events hold a failed run, two prompts and a submission, or
  a prompt, a response, a run and a submission, the longest patterns a formula looks for.
  The constants (windows, delays, number of prior events) are scaled down to 2 to 4 so that
  every threshold lies inside such a log; time steps of 1 and 3 fall on both sides of each.
  `MaxMissed` 1 lets a write fail and the next ones make up for it. One prompt has the
  tokens of the other and one more, so they are similar at one threshold (70 %) and not at
  the other (85 %).
* `MaxTime`, `MaxMessages` (Admission): three ticks cross midnight and empty a window of two.
  `MaxMessages` 2 allows two calls of the limiter between restarts (one admitted and the next
  refused, or admitted again when the window has passed), or a message before or after an
  end, or two ends with two scoring runs. Cap 1 with two requests is where
  the overshoot happens; three rows allow it on one day and more on the next. Requests are
  interchangeable and share no order, so symmetry over them is sound; no liveness is checked.

The runs allow every stop the code has (a restart, a dead handler, a bounded number of
events), so a state without successors is an error except in EventBus, JudgeCalls,
LiveScorer and Admission, where the bounds end the behaviour once everything is published,
closed, scored or served.

Four more runs show a violation each; see Findings.

## Fairness

Only EventBus, EventStore, JudgeCalls and Dashboard have liveness properties.

* The event loop runs every task that is ready: weak fairness of the consumer task, of a
  `close_session` whose awaited task ended, of the row writers, of a scoring run.
* `asyncio.Lock` wakes its waiters in order of arrival, so a writer is not overtaken for
  ever although the lock is taken in between: strong fairness of a writer's steps.
* A service call returns or times out (both SDK clients have timeouts), a handler of the
  bus writes a row and sends to sockets, where a send to a gone client fails.
* No fairness makes a client act, a write start, a process restart, a call of
  `close_session` begin, or a limit expire. CandidateSession, SessionBudget, LiveScorer and Admission have no
  fairness: nothing obliges a session to end, and one that was stopped while it was
  scored stays `ended` (FINDINGS.md:285-292 knows of orphaned scoring).

## Proofs

Proved for every value of the constants that satisfies the named assumption of the module:

* `EventStoreProofs`: `StoreTyped`, `StoreSeqDense`, `StoreTsFollowsSeq`,
  `StoreFeedFollowsLog`, `StoreImplementsLog` from the inductive `IInv`. SeqDense is not inductive: a writer's
  chosen seq is right only while no other row is added between its SELECT and its COMMIT.
  `IInv` therefore says which writer may be where: one that is past BEGIN holds the lock,
  the transaction is open, `pending` holds its row and no other, and its locals agree with
  the table. From it, a commit adds exactly the next row (`AddNextRow`). The refinement
  reads the table by seq (`LogReadsRows`): a commit is `Append1`, a return is `Offer`, a
  restart `Reboot`, everything else stutters.
* `EventBusProofs`: `Typed`, `KeptSafe`, `OverflowKept`, `DropsAddUp`, `HandedOrder`,
  `PasteOutlives`. The
  first part is about one channel, whatever the tasks do: a `Good` channel has in it and
  behind it only what was put (`Members`), in order (`Ordered`), with every drop counted
  (`Accounted`), no scoring event missing (`Spared`) and nothing to evict when it is too long
  (`Yielding`); a put and a take keep that, by lemmas on what evicting does to a sequence.
  The second part is about the handlers (`HandInv`): as long as the session has handlers
  nothing was popped, so the first channel is the only one and the event in its hand is
  later than all the handlers still to be called have seen. `PasteOutlives` is about
  steps: with a snapshot queued, put keeps the pastes and the event it is given.
* `CandidateSessionProofs`: `SessionTyped`, `SessionIdxBacked`, `SessionEndIsLogged`,
  `SessionRowFollowsLog`, `SessionScoredIsComplete`, `SessionStatusForward`. `BackedInv` counts the submits that
  are on their way to the index (the set of advancing sockets, whence finiteness of
  `Sockets` is assumed); `EndedInv` says that a handler past the emit has its
  event in the log; `CompleteInv` says that every snapshot was taken after the first
  end and every final row written by a scoring run covers it.
* `SessionBudgetProofs`: `BudgetTyped`; `SessionRunsMetered` and `SessionChatsMetered`
  (every step maps to a step of the meter or a stutter); `SessionRunOvershoot` and
  `SessionTokenOvershoot` from lemmas on steps of the meter, whose invariant adds to the
  total what the busy users may still charge: total + MaxCharge * |busy| stays below the
  bound when anyone is admitted; `SessionHistoryIsDialogue`, which is
  inductive with the type invariant, from three lemmas on alternating sequences;
  `SessionLogAndBill`, from `Billed`, which adds to each side the handlers that are between
  the bill and the log.
* `DashboardProofs`: `Typed`, `NothingMissed`, `FinalsReach`. `EventsInv` says that what the
  bus has forwarded is on the page, or among the events the handler has read for it and
  not yet sent (`Covered`); `FinalsInv` says the same of final rows (`Served`).
* `JudgeCallsProofs`: `JudgeInvariant`, `JudgeTyped`, `JudgeBudgets`, `JudgeBill`,
  `JudgeReports`. The day's count and the bill are `SumFunction`, which the library defines by
  recursion over the size of the domain. The first part of the module shows that this
  function exists and what it comes to when one entry changes, is added or is dropped
  (`SumStep`, `SumDrop`, `SumBounded`); the induction is over the set of the numbers for
  which the claim holds (`AllNumbers`), which needs no theorem with an operator as parameter.
  The second part is three invariants. `RunsInv` relates the locals of a run, its calls and
  its rows: what it wrote and may still write is within both caps, because the rows it counts
  include its own. `UsageAccounted` is inductive once the sum over the runs (`Bill`) is known
  to change by what one call adds. `DayInv` is what makes `DayOvershoot` inductive: not the
  day's rows alone, but they and all the calls that are scheduled (`Load`), pass the cap by at
  most one task of every run but one. `Changes` states once what a step does to these sums,
  and there is a lemma for each kind of action.
* `LiveScorerProofs`: `LiveAgrees`, `Typed`, `Settles`, `Standing`, `Ranges`, `RunsPay`, `Blends`,
  and `FailureHasText` of `Sandbox`.
  - `LiveAgrees`: the invariant says what the folded state is in terms of the log (the last
    failed run, the last prompt), with a lemma that a later event changes the score of no
    prompt before it.
  - `Settles`: `SettleInv` says that the scorer has seen every event of the log that is no
    snapshot or paste, and that after a submission the rows that are not stale are those of
    what it has seen. The formulas do not look at snapshots, and only verification looks at
    pastes (`SameScores`).
  - `Standing`: an event that is found first after another is still the first in a longer log
    (`FirstKept`), so each of the nine selections only grows.
  - `Ranges`: verification and iteration lie in 0..100 for every log, with no denominator 0: the
    credited responses are some of the responses with code, the redundant prompts fewer than
    the prompts (for the prompts `Typed` says as much). The code clamps verification and iteration once more at the end; the model
    leaves that clamp out and `Ranges` shows that it never bites.
  - `RunsPay`: a run credits only more responses, gives a paste whose first run it is three or
    five points or none instead of minus five, and changes no other paste.
  - `Blends`: a weighted mean lies between its parts, over products of denominators
    (`Times`, `Between`).

  Two assumptions are needed beyond the types: the tokens of a prompt are finitely many, and
  the log is shorter than the seq that stands for "no event" (`BoundAssumption`;
  `heuristics.py:130` uses 1 000 000 000 for it).
* `AdmissionProofs`: `Typed`, `CapHolds`, `HandedOutHeard`, `LimiterIsQuota`. `CapInv` counts
  for each day its rows and the requests that have counted them: a request that was let
  through saw fewer than the cap, beside at most the other requests. `HeardInv`
  says where in a request an id has what (`HeldApart`, `HeldReady`), and that whatever is being
  scored has its end in the log (`ScoredIsEnded`), so that a close takes the handlers out of
  an ended session only (`OursHeard`). `WindowInv` says that the deque is the end of the
  history and that what is before it is older than the window.

Every invariant and action property of the passing runs is the statement of one of these
theorems. Model-checked only is liveness (`WriteSettles`, `CloseTerminates`, `KeptIsHanded`,
`RunSettles`, `CitedIsShown`), which is out of the prover's reach, and, being false, the
properties of the four runs that expect a violation.

## Findings

* **A failing row write leaves its transaction open** (`app/storage/db.py:78`, run
  EventStoreLeak). The next event write runs BEGIN inside it, which is an error that is not
  retried, until some other row writer commits.
* **A session can be scored twice** (`app/ws/candidate.py:155`, run CandidateSessionTwice):
  `_end_session` does not ask whether the session has ended before, so a `session.end` of each
  of two sockets, or one behind the last submit, scores and inserts the session-level rows
  each time. FINDINGS.md:91-92 has it that "sessions score once in v0".
* **The daily ceiling on judge calls is not hard** (`app/scoring/posthoc.py:200`, run
  JudgeCallsCeiling): concurrent runs schedule from the same count.
* **A dashboard opened later shows a task's score as the session's** (`app/ws/dashboard.py:69`,
  run DashboardHeadline): final rows are replayed in primary-key order, the session's row
  (task_id NULL) first, and the page shows the last one per dimension. FINDINGS.md:86-88 lists
  it as deferred work and calls the outcome arbitrary; in the order of this index it is a task's.

Two observations that the models show and no run states: an event published between the
end of the consumer and the pop of `close_session` stays in a channel nobody reads
(`app/bus.py:124`), which can only be one after `session.ended`; an invalid judge answer is retried up to three times
(`app/llm/judge_client.py:119`), where the docstring says once.

## Not modelled, and why

* The read pool and the read-only routes: each query sees a committed state, which the
  models read directly.
* Texts: the wording of prompts and questions, the evidence, the regular expressions that
  cut a text into words and match errors, prices. A model has what they yield. Rounding of
  scores: fractions are exact.
* The chat client and the services are seen through their outcomes; so is the HTTP limiter
  (slowapi, external), and how an address is read from the headers.
* Start-up and settings, the health probes.
* A judge row that is cancelled while it is written counts as lost, although another writer
  may commit it later (`EventStore`, `CancelRow`).
* Midnight in `JudgeCalls`: its daily counts are those of one day (`Admission` has days).
* The live scorer after a restart: it is not subscribed (`HeardUntilEnded`), so there is
  nothing to model; a task that was begun by an earlier process has no live scores.
* The page's duplicates of an event, its scrubber and the session list.
* The candidate page: the models let a client send any message at any time.
* Scripts and deployment files.

## Plan

Done: AppendLog, EventStore, EventBus, CandidateSession, CappedMeter, SessionBudget,
JudgeCalls, Dashboard, Heuristics, Sandbox, LiveScorer, WindowQuota, SlidingWindow,
Admission, with the proofs above. Worth doing next, in this order:

1. Model: days in JudgeCalls (a run that schedules before midnight and records after it), and
   the replay of the history to a reconnecting candidate socket.
2. Proofs: that the overshoots are reached, as a behaviour for every N rather than a run for
   two; the safety part of the liveness properties (what a bus or a dashboard may still owe).
