----------------------------- MODULE StressJob -----------------------------
(***************************************************************************)
(* The load tester of src/stress.c.  HTTP workers (Handlers) run           *)
(* stress_start, stress_status and stress_stop; a run has one manager      *)
(* thread that creates the virtual users, joins them and clears `running`; *)
(* the virtual users send the requests of the flow and count the answers.  *)
(* They share g_job: atomics, the flow (plain memory), last_error (under   *)
(* g_job.lock).                                                            *)
(*                                                                         *)
(* Time is left out (think_wait, back-off, durations), and so are the      *)
(* texts of the requests; what is kept of last_error is whether it is set. *)
(***************************************************************************)
EXTENDS Naturals, FiniteSetsExt

CONSTANTS
  Handlers,     \* HTTP workers that serve /stress/ requests
  MaxVUs,       \* STRESS_MAX_VUS
  Flows,        \* valid flows clients post: records [vus, reqs, steps]
  BadFlow,      \* what g_job.flow holds after a flow parse_flow refused
  NoOne,        \* nobody
  Outcomes,     \* outcomes of a request that are considered
  FailFastMin,  \* STRESS_FAIL_FAST_MIN
  MaxRuns       \* bound of the model: runs started

VUs == 1..MaxVUs
Classes == {"ok", "client", "server", "conn"}

ASSUME FlowAssumption ==
  /\ MaxVUs \in Nat \ {0}
  /\ Flows \subseteq [vus : VUs, reqs : Nat \ {0}, steps : Nat \ {0}]
  /\ BadFlow \notin Flows
ASSUME RunAssumption ==
  /\ FailFastMin \in Nat \ {0}
  /\ MaxRuns \in Nat
  /\ NoOne \notin Handlers
ASSUME OutcomeAssumption ==
  Outcomes \subseteq {"ok", "client", "server", "failed", "informational"}

VARIABLES
  job,      \* g_job: the atomics, the flow, the owner of the lock;
            \* endSet is end_ms # 0, lastError is last_error # ""
  hpc,      \* where each handler is
  report,   \* what stress_status has read so far, per handler
  mpc,      \* where the manager is; "none" when there is none
  created,  \* virtual users the manager created
  vu,       \* virtual users: pc and locals of vu_main
  hist      \* history, read by properties only: runs started, a stop served in
            \* this run, requests the run owes, requests sent after cancel

vars == <<job, hpc, report, mpc, created, vu, hist>>

\* Sum of the values of a function into Nat.
Total(f) == MapThenSumSet(LAMBDA x : f[x], DOMAIN f)

NoCounts == [c \in Classes |-> 0]
NoSuccess == [v \in VUs |-> 0]

NoReport == [running |-> TRUE, fresh |-> FALSE, completed |-> 0, counter |-> NoCounts,
             end |-> FALSE, error |-> FALSE, ok |-> 0]

NoUser == [pc |-> "off", sent |-> 0, step |-> 1, result |-> "none", comp |-> 0]

Init ==
  /\ job = [running |-> FALSE, cancel |-> FALSE, vus |-> 0, endSet |-> FALSE,
            lastError |-> FALSE, flow |-> BadFlow, lock |-> NoOne,
            completed |-> 0, counter |-> NoCounts, vuOk |-> NoSuccess]
  /\ hpc = [h \in Handlers |-> "idle"]
  /\ report = [h \in Handlers |-> NoReport]
  /\ mpc = "none"
  /\ created = {}
  /\ vu = [v \in VUs |-> NoUser]
  /\ hist = [runs |-> 0, stopped |-> FALSE, due |-> 0, late |-> [v \in VUs |-> 0]]

-----------------------------------------------------------------------------
(* stress_start                                                            *)

\* Where stress_start is between its decision to run and the end of its stores.
Starting == {"startReset", "startClear", "startRunning", "startSpawn"}

\* Handler h goes from label k to label l.
HStep(h, k, l) == hpc[h] = k /\ hpc' = [hpc EXCEPT ![h] = l]

StartLock(h) ==
  /\ HStep(h, "idle", "startTest")
  /\ job.lock = NoOne
  /\ job' = [job EXCEPT !.lock = h]
  /\ UNCHANGED <<report, mpc, created, vu, hist>>

\* 409 while a run is in progress.
StartBusy(h) ==
  /\ HStep(h, "startTest", "startUnlock")
  /\ job.running
  /\ UNCHANGED <<job, report, mpc, created, vu, hist>>

\* mutant: the flow is parsed before `running` is tested.
StartInvalid_WhileRunning(h) ==
  /\ HStep(h, "startTest", "startUnlock")
  /\ job' \in {job, [job EXCEPT !.flow = BadFlow]}
  /\ UNCHANGED <<report, mpc, created, vu, hist>>

\* 400 for a flow parse_flow refuses, which may have overwritten g_job.flow.
StartInvalid(h) ==
  /\ HStep(h, "startTest", "startUnlock")
  /\ ~job.running
  /\ job' \in {job, [job EXCEPT !.flow = BadFlow]}
  /\ UNCHANGED <<report, mpc, created, vu, hist>>

StartValid(h, f) ==
  /\ HStep(h, "startTest", "startReset")
  /\ ~job.running
  /\ hist.runs < MaxRuns
  /\ job' = [job EXCEPT !.flow = f]
  /\ UNCHANGED <<report, mpc, created, vu, hist>>

\* The counters are stored one after the other; only a stress_status that
\* overlaps this start can tell, and its report is then no longer fresh.
StartReset(h) ==
  /\ HStep(h, "startReset", "startClear")
  /\ job' = [job EXCEPT !.completed = 0, !.counter = NoCounts, !.vuOk = NoSuccess]
  /\ report' = [g \in Handlers |-> [report[g] EXCEPT !.fresh = FALSE]]
  /\ UNCHANGED <<mpc, created, vu, hist>>

\* cancel, last_error, vus and the times.
StartClear(h) ==
  /\ HStep(h, "startClear", "startRunning")
  /\ job' = [job EXCEPT !.cancel = FALSE, !.lastError = FALSE,
                        !.vus = job.flow.vus, !.endSet = FALSE]
  /\ hist' = [runs |-> hist.runs + 1, stopped |-> FALSE, due |-> 0,
              late |-> [v \in VUs |-> 0]]
  /\ UNCHANGED <<report, mpc, created, vu>>

StartRunning(h) ==
  /\ HStep(h, "startRunning", "startSpawn")
  /\ job' = [job EXCEPT !.running = TRUE]
  /\ UNCHANGED <<report, mpc, created, vu, hist>>

StartSpawn(h) ==
  /\ HStep(h, "startSpawn", "startUnlock")
  /\ mpc' = "create"
  /\ UNCHANGED <<job, report, created, vu, hist>>

\* 500 when the manager thread cannot be created.
StartSpawnFails(h) ==
  /\ HStep(h, "startSpawn", "startUnlock")
  /\ job' = [job EXCEPT !.running = FALSE]
  /\ UNCHANGED <<report, mpc, created, vu, hist>>

StartUnlock(h) ==
  /\ HStep(h, "startUnlock", "idle")
  /\ job' = [job EXCEPT !.lock = NoOne]
  /\ UNCHANGED <<report, mpc, created, vu, hist>>

\* What stress_start does once it has the lock.
StartHolding(h) ==
  \/ StartBusy(h) \/ StartInvalid(h) \/ (\E f \in Flows : StartValid(h, f))
  \/ StartReset(h) \/ StartClear(h) \/ StartRunning(h)
  \/ StartSpawn(h) \/ StartSpawnFails(h) \/ StartUnlock(h)

-----------------------------------------------------------------------------
(* stress_stop and stress_status                                           *)

Stop(h) ==
  /\ hpc[h] = "idle"
  /\ job' = [job EXCEPT !.cancel = TRUE]
  /\ hist' = [hist EXCEPT !.stopped = TRUE]
  /\ UNCHANGED <<hpc, report, mpc, created, vu>>

\* A report is fresh until a start begins to overwrite what it reads.
StatusRunning(h) ==
  /\ HStep(h, "idle", "statusCompleted")
  /\ report' = [report EXCEPT
       ![h].running = job.running,
       ![h].fresh = \A g \in Handlers : hpc[g] \notin Starting]
  /\ UNCHANGED <<job, mpc, created, vu, hist>>

StatusCompleted(h) ==
  /\ HStep(h, "statusCompleted", "statusClasses")
  /\ report' = [report EXCEPT ![h].completed = job.completed]
  /\ UNCHANGED <<job, mpc, created, vu, hist>>

StatusClasses(h) ==
  /\ HStep(h, "statusClasses", "statusError")
  /\ report' = [report EXCEPT ![h].counter = job.counter, ![h].end = job.endSet]
  /\ UNCHANGED <<job, mpc, created, vu, hist>>

\* last_error is copied under the lock.
StatusError(h) ==
  /\ HStep(h, "statusError", "statusUsers")
  /\ job.lock = NoOne
  /\ report' = [report EXCEPT ![h].error = job.lastError]
  /\ UNCHANGED <<job, mpc, created, vu, hist>>

StatusUsers(h) ==
  /\ HStep(h, "statusUsers", "statusSend")
  /\ report' = [report EXCEPT ![h].ok = Total([v \in 1..job.vus |-> job.vuOk[v]])]
  /\ UNCHANGED <<job, mpc, created, vu, hist>>

StatusSend(h) ==
  /\ HStep(h, "statusSend", "idle")
  /\ report' = [report EXCEPT ![h] = NoReport]
  /\ UNCHANGED <<job, mpc, created, vu, hist>>

Handler(h) ==
  \/ StartLock(h) \/ StartHolding(h) \/ Stop(h)
  \/ StatusRunning(h) \/ StatusCompleted(h) \/ StatusClasses(h)
  \/ StatusError(h) \/ StatusUsers(h) \/ StatusSend(h)

-----------------------------------------------------------------------------
(* manager_main                                                            *)

MStep(k, l) == mpc = k /\ mpc' = l

\* calloc failed: no user is created.
ManagerNoMemory ==
  /\ MStep("create", "end")
  /\ created = {}
  /\ UNCHANGED <<job, hpc, report, created, vu, hist>>

MoreUsers == Cardinality(created) < job.flow.vus

\* pthread_create of the next user; curl_easy_init may have returned NULL, and
\* then the user ends at once.
CreateVU(hasCurl) ==
  LET v == Cardinality(created) + 1 IN
  /\ mpc = "create" /\ MoreUsers
  /\ created' = created \cup {v}
  /\ vu' = [vu EXCEPT ![v].pc = IF hasCurl THEN "loop" ELSE "done"]
  /\ hist' = [hist EXCEPT !.due = IF hasCurl THEN @ + job.flow.reqs ELSE @]
  /\ UNCHANGED <<job, hpc, report, mpc>>

\* All users are created, or pthread_create failed and the run goes on with the
\* users there are.
CreateStops ==
  /\ MStep("create", "join")
  /\ UNCHANGED <<job, hpc, report, created, vu, hist>>

\* mutant: the manager does not wait for its users.
Join_NoWait ==
  /\ MStep("join", "end")
  /\ UNCHANGED <<job, hpc, report, created, vu, hist>>

\* mutant: `running` is cleared before the end of the run is stamped.
Join_RunningFirst ==
  /\ MStep("join", "end")
  /\ \A v \in created : vu[v].pc = "done"
  /\ created' = {}
  /\ vu' = [v \in VUs |-> NoUser]
  /\ job' = [job EXCEPT !.running = FALSE]
  /\ UNCHANGED <<hpc, report, hist>>

\* mutant: the users that were asked for are joined, not those there are.
Join_Planned ==
  /\ MStep("join", "end")
  /\ \A v \in 1..job.flow.vus : vu[v].pc = "done"
  /\ created' = {}
  /\ vu' = [v \in VUs |-> NoUser]
  /\ UNCHANGED <<job, hpc, report, hist>>

\* All users joined; their contexts, curl handles and buffers are freed.
Join ==
  /\ MStep("join", "end")
  /\ \A v \in created : vu[v].pc = "done"
  /\ created' = {}
  /\ vu' = [v \in VUs |-> NoUser]
  /\ UNCHANGED <<job, hpc, report, hist>>

RunEnd ==
  /\ MStep("end", "clear")
  /\ job' = [job EXCEPT !.endSet = TRUE]
  /\ UNCHANGED <<hpc, report, created, vu, hist>>

RunClear ==
  /\ MStep("clear", "none")
  /\ job' = [job EXCEPT !.running = FALSE]
  /\ UNCHANGED <<hpc, report, created, vu, hist>>

Manager ==
  \/ ManagerNoMemory \/ (\E b \in BOOLEAN : CreateVU(b)) \/ CreateStops
  \/ Join \/ RunEnd \/ RunClear

-----------------------------------------------------------------------------
(* vu_main, run_step, record                                               *)

\* User v goes from label k to label l.
VStep(v, k, l) == vu[v].pc = k /\ vu' = [vu EXCEPT ![v].pc = l]

\* The outer loop: one pass over the flow's steps, with fresh variables.
VuPass(v) ==
  /\ vu[v].pc = "loop"
  /\ vu' = IF vu[v].sent < job.flow.reqs /\ ~job.cancel
           THEN [vu EXCEPT ![v].pc = "step", ![v].step = 1]
           ELSE [vu EXCEPT ![v].pc = "done"]
  /\ UNCHANGED <<job, hpc, report, mpc, created, hist>>

\* mutant: cancel is tested once per pass only.
GoesOn_IgnoresCancel(v) == vu[v].step <= job.flow.steps /\ vu[v].sent < job.flow.reqs

\* The inner loop tests its bounds and then cancel before every request.
GoesOn(v) ==
  vu[v].step <= job.flow.steps /\ vu[v].sent < job.flow.reqs /\ ~job.cancel

VuStep(v) ==
  /\ VStep(v, "step", IF GoesOn(v) THEN "perform" ELSE "loop")
  /\ UNCHANGED <<job, hpc, report, mpc, created, hist>>

\* curl_easy_perform returns; record counts the request, then its class.
VuPerform(v, r) ==
  /\ vu[v].pc = "perform"
  /\ vu' = [vu EXCEPT ![v].pc = "classify", ![v].result = r]
  /\ job' = [job EXCEPT !.completed = @ + 1]
  /\ hist' = [hist EXCEPT !.late[v] = IF job.cancel THEN @ + 1 ELSE @]
  /\ UNCHANGED <<hpc, report, mpc, created>>

\* A response code below 200 counts as a connection error, like no response.
ClassOf(r) == IF r \in {"failed", "informational"} THEN "conn" ELSE r

\* The class counter; then an error text, or the user's own success counter.
VuClassify(v) ==
  /\ VStep(v, "classify", CASE vu[v].result = "ok" -> "count"
                            [] vu[v].result = "informational" -> "next"
                            [] OTHER -> "error")
  /\ job' = [job EXCEPT !.counter[ClassOf(vu[v].result)] = @ + 1]
  /\ UNCHANGED <<hpc, report, mpc, created, hist>>

VuError(v) ==
  /\ VStep(v, "error", "next")
  /\ job.lock = NoOne
  /\ job' = [job EXCEPT !.lastError = TRUE]
  /\ UNCHANGED <<hpc, report, mpc, created, hist>>

VuCount(v) ==
  /\ VStep(v, "count", "next")
  /\ job' = [job EXCEPT !.vuOk[v] = @ + 1]
  /\ UNCHANGED <<hpc, report, mpc, created, hist>>

\* mutant: a request without a response is not charged to the budget.
Spent_FailedFree(v) == IF vu[v].result = "failed" THEN 0 ELSE 1

\* What a request costs of the user's budget, whatever its outcome.
Spent(v) == 1

\* run_step returned: no response leads to the fail-fast test and out of this
\* pass, anything else to the next step.
VuNext(v) ==
  /\ vu[v].pc = "next"
  /\ vu' = [vu EXCEPT ![v].sent = @ + Spent(v), ![v].step = @ + 1,
              ![v].pc = IF vu[v].result = "failed" THEN "failRead" ELSE "step"]
  /\ UNCHANGED <<job, hpc, report, mpc, created, hist>>

\* mutant: no minimum number of requests before failing fast.
EnoughToJudge_Always == job.completed >= 1

EnoughToJudge == job.completed >= FailFastMin

\* Fail fast: `completed` and `err_conn` are read one after the other.
VuFailRead(v) ==
  /\ vu[v].pc = "failRead"
  /\ vu' = [vu EXCEPT ![v].comp = job.completed,
                      ![v].pc = IF EnoughToJudge THEN "failTest" ELSE "loop"]
  /\ UNCHANGED <<job, hpc, report, mpc, created, hist>>

\* mutant: the outcome of the test is stored in cancel, whatever it is.
VuFailTest_Overwrites(v) ==
  /\ VStep(v, "failTest", "loop")
  /\ job' = [job EXCEPT !.cancel = job.counter["conn"] = vu[v].comp]
  /\ UNCHANGED <<hpc, report, mpc, created, hist>>

VuFailTest(v) ==
  /\ VStep(v, "failTest", "loop")
  /\ job' = [job EXCEPT !.cancel = @ \/ job.counter["conn"] = vu[v].comp]
  /\ UNCHANGED <<hpc, report, mpc, created, hist>>

User(v) ==
  \/ VuPass(v) \/ VuStep(v) \/ (\E r \in Outcomes : VuPerform(v, r))
  \/ VuClassify(v) \/ VuError(v) \/ VuCount(v) \/ VuNext(v)
  \/ VuFailRead(v) \/ VuFailTest(v)

-----------------------------------------------------------------------------
Next ==
  \/ \E h \in Handlers : Handler(h)
  \/ Manager
  \/ \E v \in VUs : User(v)

Spec == Init /\ [][Next]_vars

(***************************************************************************)
(* Threads that can run do run.  Every request has a timeout               *)
(* (CURLOPT_TIMEOUT_MS), so curl_easy_perform returns.  g_job.lock is held *)
(* only over a few stores or a parse, so a user that asks for it again and *)
(* again gets it.  No client need ever start, stop or ask.                 *)
(***************************************************************************)
Fairness ==
  /\ \A h \in Handlers : WF_vars(StartHolding(h))
  /\ WF_vars(Manager)
  /\ \A v \in VUs : WF_vars(User(v)) /\ SF_vars(VuError(v))

FairSpec == Spec /\ Fairness

-----------------------------------------------------------------------------
(* Properties.                                                             *)

Active(v) == vu[v].pc \notin {"off", "done"}

\* No stress_start is between its test of `running` and the end of its stores.
NoStart == \A h \in Handlers : hpc[h] \notin Starting

\* One run at a time: while stress_start prepares a run no manager and no virtual
\* user of an earlier run is left, and while there is a manager `running` is set,
\* so that every other start is answered 409.
OneRunAtATime ==
  /\ mpc # "none" => job.running /\ NoStart
  /\ mpc = "none" => \A v \in VUs : ~Active(v)
  /\ job.running => mpc # "none" \/ \E h \in Handlers : hpc[h] = "startSpawn"
  /\ \A g, h \in Handlers : hpc[g] \in Starting /\ hpc[h] \in Starting => g = h

\* g_job.flow, plain memory that all threads of a run read without a lock, is
\* never written while a run can read it, although a refused flow overwrites it.
FlowStable ==
  [][job'.flow # job.flow => mpc = "none" /\ \A v \in VUs : ~Active(v)]_vars

\* The final report of a run adds up: a stress_status that reads running = 0, and
\* that no start overlapped, has every request in one class, the successes of
\* the users equal to `ok`, the end of the run stamped (unless the run could not
\* be started), and an error text when, and only when, something went wrong.
FinalReportExact ==
  \A h \in Handlers : LET rep == report[h] IN
    hpc[h] = "statusSend" /\ ~rep.running /\ rep.fresh =>
      /\ rep.completed = Total(rep.counter)
      /\ rep.ok = rep.counter["ok"]
      /\ rep.end \/ rep.completed = 0
      /\ rep.counter["client"] + rep.counter["server"] > 0 => rep.error
      /\ rep.error => rep.completed > rep.counter["ok"]

\* After a stop (or a fail-fast) no user sends more than the one request it was
\* about to send: vu_main tests cancel before every request of a pass.
StopBounded == \A v \in VUs : hist.late[v] <= 1

\* Only the start of a new run withdraws a stop, so a stop is never lost while
\* the run it was meant for goes on.
StopSticks == [][job.cancel /\ ~job'.cancel => ~job.running /\ mpc = "none"]_vars

\* A run that nobody stopped and that did not fail fast sent exactly its budget:
\* reqs requests for every user that came to life.
FullBudget ==
  ~job.running /\ ~job.cancel /\ NoStart => job.completed = hist.due

\* A run that ends itself early had at least FailFastMin connection errors.
\* (Not: nothing but connection errors.  The two counters are not read together.)
FailFastJustified ==
  job.running /\ job.cancel /\ ~hist.stopped => job.counter["conn"] >= FailFastMin

\* Every run ends, stopped or not.
RunEnds == job.running ~> ~job.running
=============================================================================
