--------------------------- MODULE StressJob_proofs ---------------------------
(***************************************************************************)
(* Proofs about StressJob, for any number of handlers, users, flows and    *)
(* runs.                                                                   *)
(***************************************************************************)
EXTENDS StressJob, FiniteSetTheorems, WellFoundedInduction, TLAPS

-----------------------------------------------------------------------------
(* Sums over a finite set.  The sum of the values of f is the size of the  *)
(* set with f[x] units for each x, so that facts about cardinalities are   *)
(* facts about sums.                                                       *)

\* f[x] units for each x of s, and how many they are.
Units(f, s) == {p \in s \X (Nat \ {0}) : p[2] <= f[p[1]]}
Size(f, s) == Cardinality(Units(f, s))

\* One element more adds its value.
LEMMA OneMore ==
  ASSUME NEW S, NEW f \in [S -> Nat], NEW s \in SUBSET S, NEW x \in s,
         IsFiniteSet(Units(f, s \ {x}))
  PROVE  IsFiniteSet(Units(f, s)) /\ Size(f, s) = f[x] + Size(f, s \ {x})
<1> DEFINE col == {x} \X (1..f[x])
           rest == Units(f, s \ {x})
<1>1. IsFiniteSet(col) /\ Cardinality(col) = f[x]
  <2>1. IsFiniteSet({x}) /\ Cardinality({x}) = 1
    BY FS_Singleton
  <2>2. f[x] \in Nat
    OBVIOUS
  <2>3. IsFiniteSet(1..f[x]) /\ Cardinality(1..f[x]) = f[x]
    BY <2>2, FS_Interval
  <2>4. IsFiniteSet(col) /\ Cardinality(col) = 1 * f[x]
    BY <2>1, <2>3, FS_Product
  <2>. QED
    BY <2>2, <2>4
<1>2. Units(f, s) = col \cup rest
  BY DEF Units
<1>3. col \cap rest = {}
  BY DEF Units
<1>4. Cardinality(col \cap rest) = 0
  BY <1>3, FS_EmptySet
<1>5. Cardinality(rest) \in Nat
  BY FS_CardinalityType
<1>6. IsFiniteSet(rest)
  OBVIOUS
<1>. HIDE DEF col, rest
<1>7. /\ IsFiniteSet(col \cup rest)
      /\ Cardinality(col \cup rest) = Cardinality(col) + Cardinality(rest) - Cardinality(col \cap rest)
  BY <1>1, <1>6, FS_Union
<1>8. Size(f, s) = f[x] + Cardinality(rest)
  BY <1>1, <1>2, <1>4, <1>5, <1>7 DEF Size
<1>. QED
  BY <1>2, <1>7, <1>8 DEF Size, rest

\* Nothing adds up to nothing.
LEMMA NoUnits ==
  ASSUME NEW f
  PROVE  IsFiniteSet(Units(f, {})) /\ Size(f, {}) = 0
  BY FS_EmptySet DEF Units, Size

\* Induction over the finite set S, as: there is no smallest subset it fails for.
LEMMA UnitsFinite ==
  ASSUME NEW S, IsFiniteSet(S), NEW f \in [S -> Nat]
  PROVE  \A s \in SUBSET S : IsFiniteSet(Units(f, s)) /\ Size(f, s) \in Nat
<1> DEFINE bad == {s \in SUBSET S : ~IsFiniteSet(Units(f, s))}
<1>1. SUFFICES bad = {}
  BY FS_CardinalityType DEF Size
<1>2. SUFFICES ASSUME bad # {} PROVE FALSE
  OBVIOUS
<1>3. IsWellFoundedOn(StrictSubsetOrdering(S), SUBSET S)
  BY FS_StrictSubsetOrderingWellFounded, FS_FiniteSubsetsOfFinite
<1>4. PICK s \in bad : \A u \in bad : <<u, s>> \notin StrictSubsetOrdering(S)
  <2>. HIDE DEF bad
  <2>1. bad \subseteq SUBSET S
    BY DEF bad
  <2>. QED
    BY <1>2, <1>3, <2>1, WFMin
<1>5. s # {}
  BY NoUnits
<1>6. PICK x \in s : TRUE
  BY <1>5
<1>7. s \ {x} \notin bad
  BY <1>4, <1>6 DEF StrictSubsetOrdering
<1>8. IsFiniteSet(Units(f, s \ {x}))
  BY <1>7
<1>. QED
  BY <1>6, <1>8, OneMore

\* The fold of MapThenSumSet is defined, and adds up what Units counts.
LEMMA TotalIsSize ==
  ASSUME NEW S, IsFiniteSet(S), NEW f \in [S -> Nat]
  PROVE  Total(f) = Size(f, S)
<1> DEFINE pick(s) == CHOOSE x \in s : TRUE
           Body(g) == [s \in SUBSET S |-> IF s = {} THEN 0 ELSE f[pick(s)] + g[s \ {pick(s)}]]
           iter == CHOOSE g : g = Body(g)
           size == [s \in SUBSET S |-> Size(f, s)]
<1>1. Total(f) = iter[S]
  BY DEF Total, MapThenSumSet, MapThenFoldSet
<1>2. \A s \in SUBSET S : s # {} => pick(s) \in s
  OBVIOUS
<1>3. \A s \in SUBSET S : s # {} => size[s] = f[pick(s)] + size[s \ {pick(s)}]
  <2>. SUFFICES ASSUME NEW s \in SUBSET S, s # {}
                PROVE  Size(f, s) = f[pick(s)] + Size(f, s \ {pick(s)})
    OBVIOUS
  <2>1. pick(s) \in s /\ IsFiniteSet(Units(f, s \ {pick(s)}))
    BY <1>2, UnitsFinite
  <2>. HIDE DEF pick
  <2>. QED
    BY <2>1, OneMore
<1>4. size = Body(size)
  BY <1>3, NoUnits
<1>5. iter = Body(iter)
  <2>. HIDE DEF Body
  <2>. QED
    BY <1>4
<1> DEFINE bad == {s \in SUBSET S : iter[s] # size[s]}
<1>6. bad = {}
  <2>. SUFFICES ASSUME bad # {} PROVE FALSE
    OBVIOUS
  <2>1. IsWellFoundedOn(StrictSubsetOrdering(S), SUBSET S)
    BY FS_StrictSubsetOrderingWellFounded, FS_FiniteSubsetsOfFinite
  <2>2. PICK s \in bad : \A u \in bad : <<u, s>> \notin StrictSubsetOrdering(S)
    <3>. HIDE DEF bad
    <3>1. bad \subseteq SUBSET S
      BY DEF bad
    <3>. QED
      BY <2>1, <3>1, WFMin
  <2>. HIDE DEF iter, size
  <2>3. s # {}
    <3>1. iter[{}] = Body(iter)[{}] /\ size[{}] = Body(size)[{}]
      BY <1>4, <1>5
    <3>2. Body(iter)[{}] = 0 /\ Body(size)[{}] = 0
      OBVIOUS
    <3>. QED
      BY <2>2, <3>1, <3>2
  <2>4. pick(s) \in s
    BY <1>2, <2>3
  <2>5. s \ {pick(s)} \notin bad
    <3>. HIDE DEF pick, bad
    <3>1. s \in SUBSET S
      BY <2>2 DEF bad
    <3>2. <<s \ {pick(s)}, s>> \in StrictSubsetOrdering(S)
      BY <2>4, <3>1 DEF StrictSubsetOrdering
    <3>. QED
      BY <2>2, <3>2
  <2>6. iter[s] = f[pick(s)] + iter[s \ {pick(s)}] /\ size[s] = f[pick(s)] + size[s \ {pick(s)}]
    <3>1. iter[s] = Body(iter)[s] /\ size[s] = Body(size)[s]
      BY <1>4, <1>5
    <3>. QED
      BY <3>1, <2>3
  <2>. QED
    BY <2>2, <2>5, <2>6
<1>. QED
  BY <1>1, <1>6

\* A sum is a number.
LEMMA TotalNat ==
  ASSUME NEW S, IsFiniteSet(S), NEW f \in [S -> Nat]
  PROVE  Total(f) \in Nat
  BY TotalIsSize, UnitsFinite

\* Functions that differ at x only have sums that differ by as much.
LEMMA PointSum ==
  ASSUME NEW S, IsFiniteSet(S), NEW f \in [S -> Nat], NEW g \in [S -> Nat], NEW x \in S,
         \A y \in S \ {x} : g[y] = f[y]
  PROVE  Total(g) \in Nat /\ Total(f) \in Nat /\ Total(g) = Total(f) - f[x] + g[x]
<1>1. Units(f, S \ {x}) = Units(g, S \ {x})
  BY DEF Units
<1>2. IsFiniteSet(Units(f, S \ {x})) /\ Size(f, S \ {x}) \in Nat
  BY UnitsFinite
<1>3. Size(f, S) = f[x] + Size(f, S \ {x})
  BY <1>2, OneMore
<1>4. Size(g, S) = g[x] + Size(f, S \ {x})
  <2>1. Size(g, S) = g[x] + Size(g, S \ {x})
    BY <1>1, <1>2, OneMore
  <2>. QED
    BY <1>1, <2>1 DEF Size
<1>5. Total(f) = Size(f, S) /\ Total(g) = Size(g, S)
  BY TotalIsSize
<1>. QED
  BY <1>2, <1>3, <1>4, <1>5

\* Nothing but zeros adds up to zero.
LEMMA ZeroSum ==
  ASSUME NEW S, IsFiniteSet(S), NEW f \in [S -> Nat], \A x \in S : f[x] = 0
  PROVE  Total(f) = 0
<1>1. Units(f, S) = {}
  BY DEF Units
<1>. QED
  BY <1>1, TotalIsSize, FS_EmptySet DEF Size

\* Zeros may be left out.
LEMMA PartSum ==
  ASSUME NEW S, IsFiniteSet(S), NEW f \in [S -> Nat], NEW s \in SUBSET S, NEW g \in [s -> Nat],
         \A x \in S : IF x \in s THEN g[x] = f[x] ELSE f[x] = 0
  PROVE  Total(g) = Total(f)
<1>1. Units(f, S) = Units(g, s)
  BY DEF Units
<1>2. IsFiniteSet(s)
  BY FS_Subset
<1>3. Total(f) = Size(f, S) /\ Total(g) = Size(g, s)
  BY <1>2, TotalIsSize
<1>. QED
  BY <1>1, <1>3 DEF Size

\* The sum over the classes, written out.
LEMMA ClassSum ==
  ASSUME NEW c \in [Classes -> Nat]
  PROVE  Total(c) = c["ok"] + c["client"] + c["server"] + c["conn"]
<1>1. IsFiniteSet(Classes)
  <2>1. IsFiniteSet({}) /\ IsFiniteSet({"ok"})
    BY FS_EmptySet, FS_Singleton
  <2>2. IsFiniteSet({"ok"} \cup {"client"}) /\ IsFiniteSet({"server"} \cup {"conn"})
    BY FS_Singleton, FS_Union
  <2>3. Classes = ({"ok"} \cup {"client"}) \cup ({"server"} \cup {"conn"})
    BY DEF Classes
  <2>. QED
    BY <2>2, <2>3, FS_Union
<1>2. \A s \in SUBSET Classes : IsFiniteSet(Units(c, s)) /\ Size(c, s) \in Nat
  BY <1>1, UnitsFinite
<1> DEFINE s1 == {"client", "server", "conn"}
           s2 == {"server", "conn"}
           s3 == {"conn"}
<1>3. /\ s1 = Classes \ {"ok"} /\ s2 = s1 \ {"client"} /\ s3 = s2 \ {"server"} /\ {} = s3 \ {"conn"}
      /\ s1 \subseteq Classes /\ s2 \subseteq Classes /\ s3 \subseteq Classes
      /\ "ok" \in Classes /\ "client" \in s1 /\ "server" \in s2 /\ "conn" \in s3
  BY DEF Classes
<1>. HIDE DEF s1, s2, s3
<1>4. Size(c, Classes) = c["ok"] + Size(c, s1)
  BY <1>2, <1>3, OneMore
<1>5. Size(c, s1) = c["client"] + Size(c, s2)
  BY <1>2, <1>3, OneMore
<1>6. Size(c, s2) = c["server"] + Size(c, s3)
  BY <1>2, <1>3, OneMore
<1>7. Size(c, s3) = c["conn"] + Size(c, {})
  BY <1>2, <1>3, OneMore
<1>8. Size(c, {}) = 0
  BY NoUnits
<1>9. Total(c) = Size(c, Classes)
  BY <1>1, TotalIsSize
<1>10. c["ok"] \in Nat /\ c["client"] \in Nat /\ c["server"] \in Nat /\ c["conn"] \in Nat
  BY DEF Classes
<1>. QED
  BY <1>4, <1>5, <1>6, <1>7, <1>8, <1>9, <1>10

-----------------------------------------------------------------------------
(* The inductive invariant.                                                *)

HandlerPC == {"idle", "startTest", "startReset", "startClear", "startRunning", "startSpawn",
              "startUnlock", "statusCompleted", "statusClasses", "statusError",
              "statusUsers", "statusSend"}
UserPC == {"off", "loop", "step", "perform", "classify", "error", "count", "next",
           "failRead", "failTest", "done"}
Results == {"ok", "client", "server", "failed", "informational"}
Counts == [Classes -> Nat]

JobType ==
  [running : BOOLEAN, cancel : BOOLEAN, vus : 0..MaxVUs, endSet : BOOLEAN,
   lastError : BOOLEAN, flow : Flows \cup {BadFlow}, lock : Handlers \cup {NoOne},
   completed : Nat, counter : Counts, vuOk : [VUs -> Nat]]
ReportType ==
  [running : BOOLEAN, fresh : BOOLEAN, completed : Nat, counter : Counts, end : BOOLEAN,
   error : BOOLEAN, ok : Nat]
UserType ==
  [pc : UserPC, sent : Nat, step : Nat, result : Results \cup {"none"}, comp : Nat]
HistType == [runs : Nat, stopped : BOOLEAN, due : Nat, late : [VUs -> Nat]]

TypeOK ==
  /\ job \in JobType
  /\ hpc \in [Handlers -> HandlerPC]
  /\ report \in [Handlers -> ReportType]
  /\ mpc \in {"none", "create", "join", "end", "clear"}
  /\ created \in SUBSET VUs
  /\ vu \in [VUs -> UserType]
  /\ hist \in HistType

\* A thread between the two ends of stress_start holds the lock.
Holding == Starting \cup {"startTest", "startUnlock"}
Locked == \A h \in Handlers : hpc[h] \in Holding => job.lock = h

\* A start has the job for itself until there is a manager, and a manager has it until
\* it clears `running`; the flow is valid meanwhile.
Alone ==
  /\ \A h \in Handlers :
       /\ hpc[h] \in Starting => mpc = "none" /\ job.flow \in Flows
       /\ hpc[h] \in {"startReset", "startClear", "startRunning"} => ~job.running
       /\ hpc[h] = "startSpawn" => job.running
       /\ hpc[h] \in {"startRunning", "startSpawn"} => job.vus = job.flow.vus
  /\ mpc # "none" => job.running /\ job.flow \in Flows /\ job.vus = job.flow.vus
  /\ job.running => mpc # "none" \/ \E h \in Handlers : hpc[h] = "startSpawn"

\* The users there are: 1 to n, no more than were asked for, and none once they are joined.
Users ==
  /\ \E n \in 0..MaxVUs : created = 1..n /\ (mpc \in {"create", "join"} => n <= job.flow.vus)
  /\ mpc \notin {"create", "join"} => created = {}
  /\ \A v \in VUs : v \notin created => vu[v] = NoUser
  /\ \A v \in VUs : vu[v].pc \in {"classify", "error", "count", "next", "failRead", "failTest"}
                      => vu[v].result # "none"

\* The requests in a class and those of users about to classify one, and the successes of
\* each user, counted and about to be.
Classified ==
  job.counter["ok"] + job.counter["client"] + job.counter["server"] + job.counter["conn"]
At(v, l) == IF vu[v].pc = l THEN 1 ELSE 0
Classifying == [v \in VUs |-> At(v, "classify")]
Successes == [v \in VUs |-> job.vuOk[v] + At(v, "count")]

\* Every request is in one class, but for those a user is about to classify, and every
\* success is somebody's, but for those a user is about to count.
Counted ==
  /\ job.completed = Classified + Total(Classifying)
  /\ job.counter["ok"] = Total(Successes)
  /\ \A v \in VUs : job.vuOk[v] # 0 => v <= job.vus

\* No start is between zeroing the counters and clearing the rest.
NotCleared == \A h \in Handlers : hpc[h] # "startClear"

\* Between the stores of a start and its manager all counters are zero.
Zeroed ==
  \A h \in Handlers : hpc[h] \in {"startClear", "startRunning", "startSpawn"} =>
    job.completed = 0 /\ job.counter = NoCounts /\ job.vuOk = NoSuccess

\* An error text is there when something went wrong, or on its way.
Told ==
  /\ job.counter["client"] + job.counter["server"] > 0 =>
       job.lastError \/ \E v \in VUs : vu[v].pc = "error"
  /\ (job.lastError /\ NotCleared) \/ (\E v \in VUs : vu[v].pc = "error") =>
       job.counter["client"] + job.counter["server"] + job.counter["conn"] > 0

\* A run that is over has its end.
Stamped ==
  /\ mpc = "clear" => job.endSet
  /\ ~job.running => job.endSet \/ job.completed = 0

\* What a user still has to send, and the budget that is left.
InRequest == {"classify", "error", "count", "next"}
Left(v) ==
  IF vu[v].pc \in {"off", "done"} THEN 0
  ELSE job.flow.reqs - vu[v].sent - (IF vu[v].pc \in InRequest THEN 1 ELSE 0)

Remaining == [v \in VUs |-> Left(v)]

Budget ==
  /\ \A v \in VUs : Active(v) =>
       /\ vu[v].sent <= job.flow.reqs
       /\ vu[v].pc \in InRequest \cup {"perform"} => vu[v].sent < job.flow.reqs
  /\ ~job.cancel /\ NotCleared => job.completed + Total(Remaining) = hist.due

\* Who has sent a request after the stop sends no other.
Late ==
  \A v \in VUs : /\ hist.late[v] <= 1
                 /\ hist.late[v] = 1 => job.cancel /\ vu[v].pc # "perform"

\* Nobody cancels a run but a stop, or a user who has seen enough errors.
Judged ==
  /\ \A v \in VUs : vu[v].pc = "failTest" => vu[v].comp >= FailFastMin
  /\ \A h \in Handlers : hpc[h] = "startRunning" /\ job.cancel => hist.stopped
  /\ FailFastJustified

\* What a fresh report of a run that is over has read is as it was.
Reported ==
  \A h \in Handlers : report[h].fresh /\ ~report[h].running =>
    /\ ~job.running
    /\ \A g \in Handlers : hpc[g] \notin {"startClear", "startRunning", "startSpawn"}
    /\ hpc[h] \in {"statusClasses", "statusError", "statusUsers", "statusSend"} =>
         report[h].completed = job.completed
    /\ hpc[h] \in {"statusError", "statusUsers", "statusSend"} =>
         report[h].counter = job.counter /\ report[h].end = job.endSet
    /\ hpc[h] \in {"statusUsers", "statusSend"} => report[h].error = job.lastError
    /\ hpc[h] = "statusSend" => report[h].ok = Total([v \in 1..job.vus |-> job.vuOk[v]])

IInv == /\ TypeOK /\ Locked /\ Alone /\ Users /\ Counted /\ Zeroed /\ Told /\ Stamped
        /\ Budget /\ Late /\ Judged /\ Reported

-----------------------------------------------------------------------------
(* What several steps have in common.                                      *)

\* There are finitely many users, so their numbers can be summed.
LEMMA Finite == IsFiniteSet(VUs)
  BY FlowAssumption, FS_Interval DEF VUs

\* The functions that are summed have numbers for values.
LEMMA SumTypes ==
  ASSUME IInv
  PROVE  /\ Classifying \in [VUs -> Nat] /\ Successes \in [VUs -> Nat] /\ Remaining \in [VUs -> Nat]
         /\ Total(Classifying) \in Nat /\ Total(Successes) \in Nat /\ Total(Remaining) \in Nat
<1>t. TypeOK /\ Alone /\ Users /\ Budget
  BY DEF IInv
<1>1. Classifying \in [VUs -> Nat]
  BY DEF Classifying, At
<1>2. Successes \in [VUs -> Nat]
  BY <1>t DEF Successes, At, TypeOK, JobType
<1>3. Remaining \in [VUs -> Nat]
  <2>. SUFFICES ASSUME NEW v \in VUs PROVE Left(v) \in Nat
    BY DEF Remaining
  <2>1. CASE ~Active(v)
    BY <2>1 DEF Left, Active
  <2>2. CASE Active(v)
    <3>1. v \in created /\ mpc # "none"
      BY <1>t, <2>2 DEF Users, Active, NoUser
    <3>2. job.flow.reqs \in Nat
      BY <1>t, <3>1, FlowAssumption DEF Alone
    <3>3. vu[v].sent \in Nat
      BY <1>t DEF TypeOK, UserType
    <3>. QED
      BY <1>t, <2>2, <3>2, <3>3 DEF Left, Active, Budget
  <2>. QED
    BY <2>1, <2>2
<1>. QED
  BY <1>1, <1>2, <1>3, Finite, TotalNat

\* Nobody is active without a manager.
LEMMA AllOff ==
  ASSUME IInv, created = {}
  PROVE  /\ \A v \in VUs : vu[v] = NoUser /\ ~Active(v)
         /\ Total(Classifying) = 0 /\ Total(Remaining) = 0
<1>1. \A v \in VUs : vu[v] = NoUser
  BY DEF IInv, Users
<1>2. \A v \in VUs : Classifying[v] = 0 /\ Remaining[v] = 0
  BY <1>1 DEF Classifying, Remaining, At, Left, NoUser
<1>. QED
  BY <1>1, <1>2, SumTypes, Finite, ZeroSum DEF NoUser, Active

-----------------------------------------------------------------------------
(* Initial states.                                                         *)

\* The invariant holds before the first request.
LEMMA InitOK == Init => IInv
<1>. SUFFICES ASSUME Init PROVE IInv
  OBVIOUS
<1>u. \A v \in VUs : vu[v] = NoUser
  BY DEF Init
<1>1. TypeOK
  <2>1. job \in JobType
    BY FlowAssumption DEF Init, JobType, Counts, NoCounts, NoSuccess
  <2>2. report \in [Handlers -> ReportType]
    BY DEF Init, NoReport, NoCounts, ReportType, Counts
  <2>3. vu \in [VUs -> UserType]
    BY DEF Init, NoUser, UserType, UserPC
  <2>4. hist \in HistType
    BY DEF Init, HistType
  <2>. QED
    BY <2>1, <2>2, <2>3, <2>4 DEF Init, TypeOK, HandlerPC
<1>2. Locked /\ Alone
  BY DEF Init, Locked, Alone, Holding, Starting
<1>3. Users
  <2>1. created = 1..0 /\ 0 \in 0..MaxVUs
    BY FlowAssumption DEF Init
  <2>. QED
    BY <2>1, <1>u DEF Init, Users, NoUser
<1>4. Counted
  <2>1. \A v \in VUs : Classifying[v] = 0 /\ Successes[v] = 0
    BY <1>u DEF Init, Classifying, Successes, At, NoUser, NoSuccess
  <2>2. Classifying \in [VUs -> Nat] /\ Successes \in [VUs -> Nat]
    BY <1>u DEF Init, Classifying, Successes, At, NoUser, NoSuccess
  <2>3. Total(Classifying) = 0 /\ Total(Successes) = 0
    BY <2>1, <2>2, Finite, ZeroSum
  <2>. QED
    BY <2>3 DEF Init, Counted, Classified, NoCounts, NoSuccess, Classes
<1>5. Zeroed /\ Stamped /\ Reported
  BY DEF Init, Zeroed, Stamped, Reported, NoReport
<1>6. Told
  BY <1>u DEF Init, Told, NoCounts, Classes, NoUser
<1>7. Budget
  <2>1. \A v \in VUs : Remaining[v] = 0
    BY <1>u DEF Remaining, Left, NoUser
  <2>2. Remaining \in [VUs -> Nat]
    BY <1>u DEF Remaining, Left, NoUser
  <2>3. Total(Remaining) = 0
    BY <2>1, <2>2, Finite, ZeroSum
  <2>. QED
    BY <1>u, <2>3 DEF Init, Budget, Active, NoUser
<1>8. Late /\ Judged
  BY <1>u DEF Init, Late, Judged, FailFastJustified, NoUser
<1>. QED
  BY <1>1, <1>2, <1>3, <1>4, <1>5, <1>6, <1>7, <1>8 DEF IInv

-----------------------------------------------------------------------------
(* Handlers outside of the stores of a start, and stops.                   *)

\* All of the invariant but what is about the lock and the reports.
Core == Alone /\ Users /\ Counted /\ Zeroed /\ Told /\ Stamped /\ Budget /\ Late /\ Judged

\* The fields of g_job that count.
SameCounts ==
  /\ job'.completed = job.completed /\ job'.counter = job.counter /\ job'.vuOk = job.vuOk
  /\ job'.vus = job.vus

\* What a handler does that changes nothing but the lock.
LEMMA SameRun ==
  ASSUME IInv, TypeOK',
         \A g \in Handlers : hpc[g] \in Starting \/ hpc'[g] \in Starting => hpc'[g] = hpc[g],
         mpc' = mpc, created' = created, vu' = vu, hist' = hist,
         SameCounts, job'.flow = job.flow, job'.running = job.running,
         job'.cancel = job.cancel, job'.endSet = job.endSet, job'.lastError = job.lastError
  PROVE  Core'
<1>t. TypeOK /\ Core
  BY DEF IInv, Core
<1>1. Alone'
  BY <1>t DEF Core, Alone, Starting, SameCounts
<1>2. Users'
  BY <1>t DEF Core, Users
<1>3. Classifying' = Classifying /\ Successes' = Successes /\ Remaining' = Remaining
  BY DEF Classifying, Successes, Remaining, At, Left, SameCounts
<1>4. Counted'
  BY <1>t, <1>3 DEF Core, Counted, Classified, SameCounts
<1>5. Zeroed'
  BY <1>t DEF Core, Zeroed, Starting, SameCounts
<1>6. Told'
  BY <1>t DEF Core, Told, NotCleared, Starting, SameCounts
<1>7. Stamped'
  BY <1>t DEF Core, Stamped, SameCounts
<1>8. Budget'
  BY <1>t, <1>3 DEF Core, Budget, NotCleared, Starting, Active, SameCounts
<1>9. Late'
  BY <1>t DEF Core, Late
<1>10. Judged'
  BY <1>t DEF Core, Judged, FailFastJustified, Starting, SameCounts
<1>. QED
  BY <1>1, <1>2, <1>4, <1>5, <1>6, <1>7, <1>8, <1>9, <1>10 DEF Core

\* What a status request does to its report.
StatusStep(h) == StatusRunning(h) \/ StatusCompleted(h) \/ StatusClasses(h)
                   \/ StatusError(h) \/ StatusUsers(h) \/ StatusSend(h)

\* A status request reads, one counter after the other, and the invariant holds after each.
LEMMA StatusKeeps ==
  ASSUME IInv, NEW h \in Handlers, StatusStep(h)
  PROVE  IInv'
<1>t. TypeOK /\ Locked /\ Reported
  BY DEF IInv
<1>f. UNCHANGED <<job, mpc, created, vu, hist>>
  BY DEF StatusStep, StatusRunning, StatusCompleted, StatusClasses, StatusError, StatusUsers,
         StatusSend
<1>h. /\ hpc' \in [Handlers -> HandlerPC]
      /\ \A g \in Handlers : hpc[g] \in Holding \/ hpc'[g] \in Holding => hpc'[g] = hpc[g]
  BY <1>t DEF StatusStep, StatusRunning, StatusCompleted, StatusClasses, StatusError,
              StatusUsers, StatusSend, HStep, TypeOK, HandlerPC, Holding, Starting
<1>s. Total([v \in 1..job.vus |-> job.vuOk[v]]) \in Nat
  <2>1. job.vus \in 0..MaxVUs /\ job.vuOk \in [VUs -> Nat]
    BY <1>t DEF TypeOK, JobType
  <2>2. IsFiniteSet(1..job.vus) /\ 1..job.vus \subseteq VUs
    <3>1. 1 \in Int /\ job.vus \in Int /\ 1..job.vus \subseteq VUs
      BY <2>1, FlowAssumption DEF VUs
    <3>. QED
      BY <3>1, FS_Interval
  <2>3. [v \in 1..job.vus |-> job.vuOk[v]] \in [1..job.vus -> Nat]
    BY <2>1, <2>2
  <2>. QED
    BY <2>2, <2>3, TotalNat
<1>1. report' \in [Handlers -> ReportType]
  <2>1. NoReport \in ReportType
    BY DEF NoReport, NoCounts, ReportType, Counts
  <2>2. /\ job.running \in BOOLEAN /\ job.completed \in Nat /\ job.counter \in Counts
        /\ job.endSet \in BOOLEAN /\ job.lastError \in BOOLEAN
    BY <1>t DEF TypeOK, JobType
  <2>3. CASE StatusRunning(h)
    <3>1. (\A g \in Handlers : hpc[g] \notin Starting) \in BOOLEAN
      OBVIOUS
    <3>. QED
      BY <1>t, <2>2, <2>3, <3>1 DEF StatusRunning, TypeOK, ReportType
  <2>4. CASE StatusCompleted(h)
    BY <1>t, <2>2, <2>4 DEF StatusCompleted, TypeOK, ReportType
  <2>5. CASE StatusClasses(h)
    BY <1>t, <2>2, <2>5 DEF StatusClasses, TypeOK, ReportType
  <2>6. CASE StatusError(h)
    BY <1>t, <2>2, <2>6 DEF StatusError, TypeOK, ReportType
  <2>7. CASE StatusUsers(h)
    BY <1>t, <1>s, <2>7 DEF StatusUsers, TypeOK, ReportType
  <2>8. CASE StatusSend(h)
    BY <1>t, <2>1, <2>8 DEF StatusSend, TypeOK
  <2>. QED
    BY <2>3, <2>4, <2>5, <2>6, <2>7, <2>8 DEF StatusStep
<1>2. TypeOK'
  BY <1>t, <1>f, <1>h, <1>1 DEF TypeOK
<1>3. Core'
  BY <1>f, <1>h, <1>2, SameRun DEF Holding, SameCounts
<1>4. Locked'
  BY <1>t, <1>f, <1>h DEF Locked
<1>5. Reported'
  <2>1. \A g \in Handlers \ {h} : report'[g] = report[g] /\ hpc'[g] = hpc[g]
    BY <1>t DEF StatusStep, StatusRunning, StatusCompleted, StatusClasses, StatusError,
                StatusUsers, StatusSend, HStep, TypeOK
  <2>2. \A g \in Handlers \ {h} : report[g].fresh /\ ~report[g].running =>
          \A i \in Handlers : hpc'[i] \notin {"startClear", "startRunning", "startSpawn"}
    BY <1>t, <1>h DEF Reported, Holding, Starting
  <2>. DEFINE Fine(g) ==
         report[g].fresh /\ ~report[g].running =>
          /\ ~job.running
          /\ \A i \in Handlers : hpc[i] \notin {"startClear", "startRunning", "startSpawn"}
          /\ hpc[g] \in {"statusClasses", "statusError", "statusUsers", "statusSend"} =>
               report[g].completed = job.completed
          /\ hpc[g] \in {"statusError", "statusUsers", "statusSend"} =>
               report[g].counter = job.counter /\ report[g].end = job.endSet
          /\ hpc[g] \in {"statusUsers", "statusSend"} => report[g].error = job.lastError
          /\ hpc[g] = "statusSend" => report[g].ok = Total([v \in 1..job.vus |-> job.vuOk[v]])
  <2>3. SUFFICES ASSUME NEW g \in Handlers PROVE Fine(g)'
    BY DEF Reported
  <2>4. Fine(g)
    BY <1>t DEF Reported
  <2>5. CASE g # h
    BY <1>f, <2>1, <2>2, <2>4, <2>5
  <2>6. CASE g = h
    <3>. HIDE <2>3
    <3>1. CASE StatusRunning(h)
      <4>1. hpc'[h] = "statusCompleted" /\ hpc[h] = "idle" /\ report'[h].running = job.running
            /\ report'[h].fresh = (\A i \in Handlers : hpc[i] \notin Starting)
        BY <1>t, <3>1 DEF StatusRunning, HStep, TypeOK, ReportType
      <4>2. report'[h].fresh => \A i \in Handlers : hpc'[i] \notin Starting
        BY <1>h, <4>1 DEF Holding, Starting
      <4>. QED
        BY <1>f, <2>6, <4>1, <4>2 DEF Starting
    <3>2. CASE StatusCompleted(h)
      BY <1>t, <1>f, <1>h, <2>4, <2>6, <3>2 DEF StatusCompleted, HStep, TypeOK, ReportType, Holding, Starting
    <3>3. CASE StatusClasses(h)
      BY <1>t, <1>f, <1>h, <2>4, <2>6, <3>3 DEF StatusClasses, HStep, TypeOK, ReportType, Holding, Starting
    <3>4. CASE StatusError(h)
      BY <1>t, <1>f, <1>h, <2>4, <2>6, <3>4 DEF StatusError, HStep, TypeOK, ReportType, Holding, Starting
    <3>5. CASE StatusUsers(h)
      BY <1>t, <1>f, <1>h, <2>4, <2>6, <3>5 DEF StatusUsers, HStep, TypeOK, ReportType, Holding, Starting
    <3>6. CASE StatusSend(h)
      BY <1>t, <1>f, <1>h, <2>6, <3>6 DEF StatusSend, HStep, TypeOK, NoReport
    <3>. QED
      BY <3>1, <3>2, <3>3, <3>4, <3>5, <3>6 DEF StatusStep
  <2>. QED
    BY <2>5, <2>6
<1>. QED
  BY <1>2, <1>3, <1>4, <1>5 DEF IInv, Core

-----------------------------------------------------------------------------
(* stress_start and stress_stop.                                           *)

\* Who holds the lock is alone with it, and with the job when no run is in progress.
LEMMA Holder ==
  ASSUME IInv, NEW h \in Handlers, hpc[h] \in Holding
  PROVE  /\ job.lock = h /\ \A g \in Handlers \ {h} : hpc[g] \notin Holding
         /\ ~job.running => mpc = "none"
         /\ mpc = "none" => created = {} /\ \A v \in VUs : vu[v] = NoUser
<1>1. job.lock = h /\ \A g \in Handlers \ {h} : hpc[g] \notin Holding
  BY DEF IInv, Locked
<1>2. ~job.running => mpc = "none"
  BY DEF IInv, Alone
<1>3. mpc = "none" => created = {}
  BY DEF IInv, Users
<1>4. mpc = "none" => \A v \in VUs : vu[v] = NoUser
  BY <1>3, AllOff
<1>. QED
  BY <1>1, <1>2, <1>3, <1>4

\* The lock goes from nobody to h, stays, or is given back by h.
LEMMA LockMoves ==
  ASSUME IInv, NEW h \in Handlers, \A g \in Handlers \ {h} : hpc'[g] = hpc[g],
         \/ job.lock = NoOne /\ job'.lock = h
         \/ hpc[h] \in Holding /\ job'.lock = job.lock
         \/ hpc[h] \in Holding /\ hpc'[h] \notin Holding
  PROVE  Locked'
<1>1. Locked
  BY DEF IInv
<1>2. CASE job.lock = NoOne /\ job'.lock = h
  BY <1>1, <1>2, RunAssumption DEF Locked
<1>3. CASE hpc[h] \in Holding
  BY <1>1, <1>3, Holder DEF Locked
<1>. QED
  BY <1>2, <1>3

\* Steps that no report can tell from none.
LEMMA ReportsStay ==
  ASSUME IInv, report' = report, SameCounts, job'.endSet = job.endSet,
         job'.lastError = job.lastError, ~job.running => ~job'.running,
         \A g \in Handlers : hpc'[g] = hpc[g]
                               \/ hpc'[g] \in {"idle", "startTest", "startReset", "startUnlock"}
  PROVE  Reported'
<1>1. Reported
  BY DEF IInv
<1>. QED
  BY <1>1 DEF Reported, SameCounts

\* While a start is past its first store, no report of a run that is over is fresh.
LEMMA NoReports ==
  ASSUME IInv, report' = report,
         NEW h \in Handlers, hpc[h] \in {"startClear", "startRunning", "startSpawn"}
  PROVE  Reported'
<1>1. Reported
  BY DEF IInv
<1>. QED
  BY <1>1 DEF Reported

\* A stop may come at any moment, even while a start is clearing the last one.
LEMMA StopKeeps ==
  ASSUME IInv, NEW h \in Handlers, Stop(h)
  PROVE  IInv'
<1>t. TypeOK /\ Locked /\ Core
  BY DEF IInv, Core
<1>f. /\ UNCHANGED <<hpc, report, mpc, created, vu>>
      /\ job' = [job EXCEPT !.cancel = TRUE] /\ hist' = [hist EXCEPT !.stopped = TRUE]
  BY DEF Stop
<1>j. /\ job' \in JobType /\ SameCounts /\ job'.cancel /\ job'.flow = job.flow
      /\ job'.running = job.running /\ job'.endSet = job.endSet /\ job'.lastError = job.lastError
      /\ job'.lock = job.lock
  BY <1>t, <1>f DEF TypeOK, JobType, SameCounts
<1>h. hist' \in HistType /\ hist'.stopped /\ hist'.late = hist.late /\ hist'.due = hist.due
  BY <1>t, <1>f DEF TypeOK, HistType
<1>1. TypeOK' /\ Locked'
  BY <1>t, <1>f, <1>j, <1>h DEF TypeOK, Locked
<1>2. Alone' /\ Users' /\ Zeroed' /\ Told' /\ Stamped'
  BY <1>t, <1>f, <1>j DEF Core, Alone, Users, Zeroed, Told, Stamped, NotCleared, SameCounts
<1>3. Counted'
  <2>1. Classifying' = Classifying /\ Successes' = Successes
    BY <1>f, <1>j DEF Classifying, Successes, At, SameCounts
  <2>. QED
    BY <1>t, <1>j, <2>1 DEF Core, Counted, Classified, SameCounts
<1>4. Budget' /\ Late' /\ Judged'
  BY <1>t, <1>f, <1>j, <1>h DEF Core, Budget, Late, Judged, FailFastJustified, Active
<1>5. Reported'
  BY <1>f, <1>j, ReportsStay
<1>. QED
  BY <1>1, <1>2, <1>3, <1>4, <1>5 DEF IInv

\* The answers 409, and the two ends of the lock.
LEMMA StartEndsKeep ==
  ASSUME IInv, NEW h \in Handlers, StartLock(h) \/ StartBusy(h) \/ StartUnlock(h)
  PROVE  IInv'
<1>t. TypeOK
  BY DEF IInv
<1>f. UNCHANGED <<report, mpc, created, vu, hist>>
  BY DEF StartLock, StartBusy, StartUnlock
<1>h. /\ hpc' \in [Handlers -> HandlerPC] /\ \A g \in Handlers \ {h} : hpc'[g] = hpc[g]
      /\ hpc[h] \notin Starting /\ hpc'[h] \in {"startTest", "startUnlock", "idle"}
      /\ hpc'[h] \notin Starting
  BY <1>t DEF StartLock, StartBusy, StartUnlock, HStep, TypeOK, HandlerPC, Starting
<1>j. /\ job' \in JobType /\ SameCounts /\ job'.cancel = job.cancel /\ job'.flow = job.flow
      /\ job'.running = job.running /\ job'.endSet = job.endSet /\ job'.lastError = job.lastError
  BY <1>t DEF StartLock, StartBusy, StartUnlock, TypeOK, JobType, SameCounts
<1>1. TypeOK'
  BY <1>t, <1>f, <1>h, <1>j DEF TypeOK
<1>2. Core'
  BY <1>f, <1>h, <1>j, <1>1, SameRun
<1>3. Locked'
  <2>1. \/ job.lock = NoOne /\ job'.lock = h
        \/ hpc[h] \in Holding /\ job'.lock = job.lock
        \/ hpc[h] \in Holding /\ hpc'[h] \notin Holding
    BY <1>t DEF StartLock, StartBusy, StartUnlock, HStep, TypeOK, JobType, Holding, Starting
  <2>. QED
    BY <1>h, <2>1, LockMoves
<1>4. Reported'
  BY <1>f, <1>h, <1>j, ReportsStay
<1>. QED
  BY <1>1, <1>2, <1>3, <1>4 DEF IInv, Core

\* A start that reads a flow: refused, or taken.
LEMMA ParseKeeps ==
  ASSUME IInv, NEW h \in Handlers, StartInvalid(h) \/ \E f \in Flows : StartValid(h, f)
  PROVE  IInv'
<1>t. TypeOK /\ Core
  BY DEF IInv, Core
<1>f. UNCHANGED <<report, mpc, created, vu, hist>>
  BY DEF StartInvalid, StartValid
<1>h. /\ hpc' \in [Handlers -> HandlerPC] /\ \A g \in Handlers \ {h} : hpc'[g] = hpc[g]
      /\ hpc[h] = "startTest" /\ hpc'[h] \in {"startUnlock", "startReset"}
  BY <1>t DEF StartInvalid, StartValid, HStep, TypeOK, HandlerPC
<1>j. /\ job' \in JobType /\ SameCounts /\ job'.cancel = job.cancel /\ ~job.running
      /\ ~job'.running /\ job'.endSet = job.endSet /\ job'.lastError = job.lastError
      /\ job'.lock = job.lock
      /\ hpc'[h] = "startReset" => job'.flow \in Flows
  BY <1>t DEF StartInvalid, StartValid, HStep, TypeOK, JobType, SameCounts
<1>a. /\ \A g \in Handlers \ {h} : hpc[g] \notin Holding
      /\ mpc = "none" /\ created = {} /\ \A v \in VUs : vu[v] = NoUser
  BY <1>h, <1>j, Holder DEF Holding
<1>1. TypeOK'
  BY <1>t, <1>f, <1>h, <1>j DEF TypeOK
<1>2. Alone'
  BY <1>t, <1>f, <1>h, <1>j, <1>a DEF Core, Alone, Holding, Starting
<1>3. Users'
  BY <1>t, <1>f, <1>a DEF Core, Users
<1>4. Classifying' = Classifying /\ Successes' = Successes /\ Remaining' = Remaining
  BY <1>f, <1>j, <1>a DEF Classifying, Successes, Remaining, At, Left, NoUser, SameCounts
<1>5. Counted'
  BY <1>t, <1>j, <1>4 DEF Core, Counted, Classified, SameCounts
<1>6. Zeroed' /\ Told' /\ Stamped'
  BY <1>t, <1>f, <1>h, <1>j, <1>a
     DEF Core, Zeroed, Told, Stamped, NotCleared, SameCounts, Holding, Starting
<1>7. Budget'
  BY <1>t, <1>f, <1>h, <1>j, <1>a, <1>4 DEF Core, Budget, NotCleared, Active, NoUser, SameCounts
<1>8. Late' /\ Judged'
  BY <1>t, <1>f, <1>h, <1>j, <1>a DEF Core, Late, Judged, FailFastJustified, NoUser
<1>9. Locked'
  BY <1>h, <1>j, LockMoves DEF Holding
<1>10. Reported'
  BY <1>f, <1>h, <1>j, ReportsStay
<1>. QED
  BY <1>1, <1>2, <1>3, <1>5, <1>6, <1>7, <1>8, <1>9, <1>10 DEF IInv

\* Nobody but h holds the lock, no user is there, and the counters stay zero or become it.
LEMMA ResetKeeps ==
  ASSUME IInv, NEW h \in Handlers, StartReset(h)
  PROVE  IInv'
<1>t. TypeOK /\ Core
  BY DEF IInv, Core
<1>f. UNCHANGED <<mpc, created, vu, hist>>
  BY DEF StartReset
<1>h. /\ hpc' \in [Handlers -> HandlerPC] /\ \A g \in Handlers \ {h} : hpc'[g] = hpc[g]
      /\ hpc[h] = "startReset" /\ hpc'[h] = "startClear"
  BY <1>t DEF StartReset, HStep, TypeOK, HandlerPC
<1>j. /\ job' \in JobType /\ job'.cancel = job.cancel /\ job'.flow = job.flow
      /\ job'.running = job.running /\ job'.endSet = job.endSet /\ job'.lastError = job.lastError
      /\ job'.lock = job.lock /\ job'.vus = job.vus
      /\ job'.completed = 0 /\ job'.counter = NoCounts /\ job'.vuOk = NoSuccess
  BY <1>t DEF StartReset, TypeOK, JobType, Counts, NoCounts, NoSuccess
<1>a. /\ \A g \in Handlers \ {h} : hpc[g] \notin Holding
      /\ ~job.running /\ mpc = "none" /\ created = {} /\ \A v \in VUs : vu[v] = NoUser
  <2>1. ~job.running
    BY <1>t, <1>h DEF Core, Alone
  <2>. QED
    BY <1>h, <2>1, Holder DEF Holding, Starting
<1>r. report' \in [Handlers -> ReportType] /\ \A g \in Handlers : ~report'[g].fresh
  BY <1>t DEF StartReset, TypeOK, ReportType
<1>1. TypeOK'
  BY <1>t, <1>f, <1>h, <1>j, <1>r DEF TypeOK
<1>2. Alone'
  BY <1>t, <1>f, <1>h, <1>j, <1>a DEF Core, Alone, Holding, Starting
<1>3. Users'
  BY <1>t, <1>f, <1>a DEF Core, Users
<1>4. Counted'
  <2>1. Classifying' = Classifying
    BY <1>f DEF Classifying, At
  <2>2. Successes' \in [VUs -> Nat] /\ \A v \in VUs : Successes'[v] = 0
    BY <1>f, <1>j, <1>a DEF Successes, At, NoUser, NoSuccess
  <2>3. Total(Successes') = 0
    BY <2>2, Finite, ZeroSum
  <2>4. Total(Classifying') = 0
    BY <1>a, <2>1, AllOff
  <2>. QED
    BY <1>j, <2>3, <2>4 DEF Counted, Classified, NoCounts, NoSuccess, Classes
<1>5. Zeroed' /\ Stamped'
  BY <1>t, <1>f, <1>h, <1>j, <1>a DEF Core, Zeroed, Stamped, Holding, Starting
<1>6. Told'
  BY <1>f, <1>h, <1>j, <1>a DEF Told, NotCleared, NoCounts, Classes, NoUser
<1>7. Budget'
  BY <1>t, <1>f, <1>h, <1>a DEF Core, Budget, NotCleared, Active, NoUser
<1>8. Late' /\ Judged'
  BY <1>t, <1>f, <1>h, <1>j, <1>a DEF Core, Late, Judged, FailFastJustified, NoUser
<1>9. Locked'
  BY <1>h, <1>j, LockMoves DEF Holding, Starting
<1>10. Reported'
  BY <1>r DEF Reported
<1>. QED
  BY <1>1, <1>2, <1>3, <1>4, <1>5, <1>6, <1>7, <1>8, <1>9, <1>10 DEF IInv

\* A new run begins: no request is due yet, and none was late.
LEMMA ClearKeeps ==
  ASSUME IInv, NEW h \in Handlers, StartClear(h)
  PROVE  IInv'
<1>t. TypeOK /\ Core
  BY DEF IInv, Core
<1>f. UNCHANGED <<report, mpc, created, vu>>
  BY DEF StartClear
<1>h. /\ hpc' \in [Handlers -> HandlerPC] /\ \A g \in Handlers \ {h} : hpc'[g] = hpc[g]
      /\ hpc[h] = "startClear" /\ hpc'[h] = "startRunning"
  BY <1>t DEF StartClear, HStep, TypeOK, HandlerPC
<1>a. /\ \A g \in Handlers \ {h} : hpc[g] \notin Holding
      /\ ~job.running /\ mpc = "none" /\ created = {} /\ \A v \in VUs : vu[v] = NoUser
      /\ job.flow \in Flows
  <2>1. ~job.running /\ job.flow \in Flows
    BY <1>t, <1>h DEF Core, Alone, Starting
  <2>. QED
    BY <1>h, <2>1, Holder DEF Holding, Starting
<1>z. job.completed = 0 /\ job.counter = NoCounts /\ job.vuOk = NoSuccess
  BY <1>t, <1>h DEF Core, Zeroed
<1>v. job.flow.vus \in 0..MaxVUs
  BY <1>a, FlowAssumption DEF VUs
<1>j. /\ job' \in JobType /\ ~job'.cancel /\ job'.flow = job.flow
      /\ job'.running = job.running /\ ~job'.lastError
      /\ job'.lock = job.lock /\ job'.vus = job'.flow.vus
      /\ job'.completed = 0 /\ job'.counter = NoCounts /\ job'.vuOk = NoSuccess
  BY <1>t, <1>v, <1>z DEF StartClear, TypeOK, JobType
<1>i. hist' \in HistType /\ hist'.due = 0 /\ \A v \in VUs : hist'.late[v] = 0
  BY <1>t DEF StartClear, TypeOK, HistType
<1>1. TypeOK'
  BY <1>t, <1>f, <1>h, <1>j, <1>i DEF TypeOK
<1>2. Alone'
  BY <1>t, <1>f, <1>h, <1>j, <1>a DEF Core, Alone, Holding, Starting
<1>3. Users'
  BY <1>t, <1>f, <1>a DEF Core, Users
<1>4. Classifying' = Classifying /\ Remaining' = Remaining /\ Successes' = Successes
  BY <1>f, <1>j, <1>z DEF Classifying, Remaining, Successes, At, Left
<1>5. Total(Classifying) = 0 /\ Total(Remaining) = 0
  BY <1>a, AllOff
<1>6. Counted'
  BY <1>t, <1>j, <1>z, <1>4 DEF Core, Counted, Classified, NoSuccess
<1>7. Zeroed' /\ Stamped'
  BY <1>f, <1>j, <1>a DEF Zeroed, Stamped
<1>8. Told'
  BY <1>f, <1>j, <1>a DEF Told, NoCounts, Classes, NoUser
<1>9. Budget'
  BY <1>f, <1>a, <1>j, <1>i, <1>4, <1>5 DEF Budget, Active, NoUser
<1>10. Late'
  BY <1>i DEF Late
<1>11. Judged'
  BY <1>f, <1>j, <1>a DEF Judged, FailFastJustified, NoUser
<1>12. Locked'
  BY <1>h, <1>j, LockMoves DEF Holding, Starting
<1>13. Reported'
  BY <1>f, <1>h, NoReports
<1>. QED
  BY <1>1, <1>2, <1>3, <1>6, <1>7, <1>8, <1>9, <1>10, <1>11, <1>12, <1>13 DEF IInv

\* `running` is set; then there is a manager, or `running` is taken back.
LEMMA RunKeeps ==
  ASSUME IInv, NEW h \in Handlers, StartRunning(h) \/ StartSpawn(h) \/ StartSpawnFails(h)
  PROVE  IInv'
<1>t. TypeOK /\ Core
  BY DEF IInv, Core
<1>f. UNCHANGED <<report, created, vu, hist>>
  BY DEF StartRunning, StartSpawn, StartSpawnFails
<1>h. /\ hpc' \in [Handlers -> HandlerPC] /\ \A g \in Handlers \ {h} : hpc'[g] = hpc[g]
      /\ \/ hpc[h] = "startRunning" /\ hpc'[h] = "startSpawn" /\ job'.running /\ mpc' = mpc
         \/ hpc[h] = "startSpawn" /\ hpc'[h] = "startUnlock" /\ job' = job /\ mpc' = "create"
         \/ hpc[h] = "startSpawn" /\ hpc'[h] = "startUnlock" /\ ~job'.running /\ mpc' = mpc
  BY <1>t DEF StartRunning, StartSpawn, StartSpawnFails, HStep, TypeOK, JobType, HandlerPC
<1>a. /\ \A g \in Handlers \ {h} : hpc[g] \notin Holding
      /\ mpc = "none" /\ created = {} /\ \A v \in VUs : vu[v] = NoUser
      /\ job.flow \in Flows /\ job.vus = job.flow.vus
      /\ hpc[h] = "startSpawn" => job.running
  <2>1. mpc = "none" /\ job.flow \in Flows /\ job.vus = job.flow.vus
        /\ (hpc[h] = "startSpawn" => job.running)
    BY <1>t, <1>h DEF Core, Alone, Starting
  <2>. QED
    BY <1>h, <2>1, Holder DEF Holding, Starting
<1>j. /\ job' \in JobType /\ SameCounts /\ job'.cancel = job.cancel /\ job'.flow = job.flow
      /\ job'.endSet = job.endSet /\ job'.lastError = job.lastError /\ job'.lock = job.lock
  BY <1>t DEF StartRunning, StartSpawn, StartSpawnFails, TypeOK, JobType, SameCounts
<1>z. job.completed = 0 /\ job.counter = NoCounts /\ job.vuOk = NoSuccess
  BY <1>t, <1>h DEF Core, Zeroed
<1>1. TypeOK'
  BY <1>t, <1>f, <1>h, <1>j DEF TypeOK
<1>2. Alone'
  BY <1>t, <1>h, <1>j, <1>a DEF Core, Alone, SameCounts, Holding, Starting
<1>3. Users'
  <2>1. created' = 1..0 /\ 0 \in 0..MaxVUs /\ 0 <= job.flow.vus
    BY <1>f, <1>a, FlowAssumption DEF VUs
  <2>. QED
    BY <1>f, <1>a, <1>j, <2>1 DEF Users, NoUser
<1>4. Classifying' = Classifying /\ Successes' = Successes /\ Remaining' = Remaining
  BY <1>f, <1>j DEF Classifying, Successes, Remaining, At, Left, SameCounts
<1>5. Counted'
  BY <1>t, <1>j, <1>4 DEF Core, Counted, Classified, SameCounts
<1>6. Zeroed' /\ Stamped'
  BY <1>h, <1>j, <1>a, <1>z DEF Zeroed, Stamped, SameCounts, Holding, Starting
<1>7. Told'
  BY <1>t, <1>f, <1>h, <1>j, <1>a DEF Core, Told, NotCleared, SameCounts, NoUser, Holding, Starting
<1>8. Budget'
  BY <1>t, <1>f, <1>h, <1>j, <1>a, <1>4
     DEF Core, Budget, NotCleared, Active, NoUser, SameCounts, Holding, Starting
<1>9. Late'
  BY <1>t, <1>f, <1>j DEF Core, Late
<1>10. Judged'
  BY <1>t, <1>f, <1>h, <1>j, <1>a
     DEF Core, Judged, FailFastJustified, NoUser, SameCounts, Holding, Starting
<1>11. Locked'
  BY <1>h, <1>j, LockMoves DEF Holding, Starting
<1>12. Reported'
  BY <1>f, <1>h, NoReports
<1>. QED
  BY <1>1, <1>2, <1>3, <1>5, <1>6, <1>7, <1>8, <1>9, <1>10, <1>11, <1>12 DEF IInv

\* All that a handler does keeps the invariant.
LEMMA HandlerKeeps ==
  ASSUME IInv, NEW h \in Handlers, Handler(h)
  PROVE  IInv'
<1>1. CASE StartLock(h) \/ StartBusy(h) \/ StartUnlock(h)
  BY <1>1, StartEndsKeep
<1>2. CASE StartInvalid(h) \/ \E f \in Flows : StartValid(h, f)
  BY <1>2, ParseKeeps
<1>3. CASE StartReset(h)
  BY <1>3, ResetKeeps
<1>4. CASE StartClear(h)
  BY <1>4, ClearKeeps
<1>5. CASE StartRunning(h) \/ StartSpawn(h) \/ StartSpawnFails(h)
  BY <1>5, RunKeeps
<1>6. CASE Stop(h)
  BY <1>6, StopKeeps
<1>7. CASE StatusStep(h)
  BY <1>7, StatusKeeps
<1>. QED
  BY <1>1, <1>2, <1>3, <1>4, <1>5, <1>6, <1>7 DEF Handler, StartHolding, StatusStep

-----------------------------------------------------------------------------
(* manager_main.                                                           *)

\* A manager is alone with the job.
LEMMA Manages ==
  ASSUME IInv, mpc # "none"
  PROVE  /\ NoStart /\ job.running /\ job.flow \in Flows /\ job.vus = job.flow.vus
         /\ job.flow.vus \in VUs /\ job.flow.reqs \in Nat \ {0} /\ job.flow.steps \in Nat
         /\ \A h \in Handlers : ~(report[h].fresh /\ ~report[h].running)
<1>1. NoStart /\ job.running /\ job.flow \in Flows /\ job.vus = job.flow.vus
  BY DEF IInv, Alone, NoStart
<1>2. job.flow.vus \in VUs /\ job.flow.reqs \in Nat \ {0} /\ job.flow.steps \in Nat
  BY <1>1, FlowAssumption
<1>3. \A h \in Handlers : ~(report[h].fresh /\ ~report[h].running)
  BY <1>1 DEF IInv, Reported
<1>. QED
  BY <1>1, <1>2, <1>3

\* A new user has its whole budget to send, or none when it has no curl handle.
LEMMA CreateKeeps ==
  ASSUME IInv, NEW b \in BOOLEAN, CreateVU(b)
  PROVE  IInv'
<1>t. TypeOK /\ Core /\ Locked
  BY DEF IInv, Core
<1>m. /\ NoStart /\ job.running /\ job.vus = job.flow.vus /\ job.flow.vus \in VUs
      /\ job.flow.reqs \in Nat \ {0} /\ mpc = "create"
      /\ \A h \in Handlers : ~(report[h].fresh /\ ~report[h].running)
  <2>1. mpc = "create"
    BY DEF CreateVU
  <2>. QED
    BY <2>1, Manages
<1>f. UNCHANGED <<job, hpc, report, mpc>>
  BY DEF CreateVU
<1>n. PICK n \in 0..MaxVUs : created = 1..n /\ n <= job.flow.vus
  BY <1>t, <1>m DEF Core, Users
<1>c. Cardinality(created) = n
  BY <1>n, FS_Interval
<1> DEFINE v == n + 1
<1>v. /\ v \in VUs /\ v \notin created /\ v <= job.flow.vus /\ created' = 1..v
      /\ vu' = [vu EXCEPT ![v].pc = IF b THEN "loop" ELSE "done"]
      /\ hist' = [hist EXCEPT !.due = IF b THEN @ + job.flow.reqs ELSE @]
  <2>1. n < job.flow.vus
    BY <1>c DEF CreateVU, MoreUsers
  <2>2. v \in VUs /\ v <= job.flow.vus /\ v \notin created /\ created \cup {v} = 1..v
    BY <1>m, <1>n, <2>1, FlowAssumption DEF VUs
  <2>. QED
    BY <1>c, <2>2 DEF CreateVU
<1>. HIDE DEF v
<1>o. vu[v] = NoUser
  BY <1>t, <1>v DEF Core, Users
<1>u. /\ vu' \in [VUs -> UserType] /\ \A u \in VUs \ {v} : vu'[u] = vu[u]
      /\ vu'[v].pc = (IF b THEN "loop" ELSE "done") /\ vu'[v].sent = 0
  BY <1>t, <1>v, <1>o DEF TypeOK, UserType, UserPC, NoUser
<1>i. /\ hist' \in HistType /\ hist'.late = hist.late /\ hist'.stopped = hist.stopped
      /\ hist'.due = (IF b THEN hist.due + job.flow.reqs ELSE hist.due)
  <2>1. hist \in HistType /\ hist.due \in Nat
    BY <1>t DEF TypeOK, HistType
  <2>2. CASE b
    BY <1>v, <1>m, <2>1, <2>2 DEF HistType
  <2>3. CASE ~b
    BY <1>v, <2>1, <2>3 DEF HistType
  <2>. QED
    BY <2>2, <2>3
<1>1. TypeOK'
  <2>1. 1..v \subseteq VUs
    BY <1>v, FlowAssumption DEF VUs
  <2>. QED
    BY <1>t, <1>f, <1>v, <1>u, <1>i, <2>1 DEF TypeOK
<1>2. Alone' /\ Locked'
  BY <1>t, <1>f DEF Core, Alone, Locked
<1>3. Users'
  <2>1. v \in 0..MaxVUs
    BY <1>v, FlowAssumption DEF VUs
  <2>2. \A u \in VUs : u \notin created' => u # v /\ u \notin created
    BY <1>n, <1>v, FlowAssumption DEF VUs
  <2>. QED
    BY <1>t, <1>f, <1>m, <1>v, <1>u, <2>1, <2>2 DEF Core, Users
<1>4. Classifying' = Classifying /\ Successes' = Successes
  BY <1>f, <1>u, <1>o DEF Classifying, Successes, At, NoUser
<1>5. Counted'
  BY <1>t, <1>f, <1>4 DEF Core, Counted, Classified
<1>6. Zeroed' /\ Stamped'
  BY <1>t, <1>f DEF Core, Zeroed, Stamped
<1>7. Told'
  BY <1>t, <1>f, <1>u, <1>o DEF Core, Told, NotCleared, NoUser
<1>8. Budget'
  <2>1. Remaining' \in [VUs -> Nat]
    <3>1. Remaining \in [VUs -> Nat]
      BY SumTypes
    <3>. QED
      BY <3>1, <1>f, <1>u, <1>m DEF Remaining, Left, InRequest
  <2>2. /\ \A u \in VUs \ {v} : Remaining'[u] = Remaining[u]
        /\ Remaining[v] = 0 /\ Remaining'[v] = IF b THEN job.flow.reqs ELSE 0
    BY <1>f, <1>v, <1>u, <1>o, <1>m DEF Remaining, Left, NoUser, InRequest
  <2>3. Total(Remaining') = Total(Remaining) + (IF b THEN job.flow.reqs ELSE 0)
        /\ Total(Remaining) \in Nat
    <3>1. Total(Remaining') = Total(Remaining) - Remaining[v] + Remaining'[v]
      <4>1. Remaining \in [VUs -> Nat] /\ IsFiniteSet(VUs) /\ v \in VUs
        BY <1>v, SumTypes, Finite
      <4>2. \A u \in VUs \ {v} : Remaining'[u] = Remaining[u]
        BY <2>2
      <4>. QED
        BY <2>1, <4>1, <4>2, PointSum
    <3>2. Total(Remaining) \in Nat
      BY SumTypes
    <3>. QED
      BY <1>m, <2>2, <3>1, <3>2
  <2>4. job.completed \in Nat /\ hist.due \in Nat
    BY <1>t DEF TypeOK, JobType, HistType
  <2>5. ~job.cancel /\ NotCleared => job.completed + Total(Remaining) = hist.due
    BY <1>t DEF Core, Budget
  <2>6. (~job.cancel /\ NotCleared => job.completed + Total(Remaining) = hist.due)'
    BY <1>f, <1>i, <1>m, <2>3, <2>4, <2>5 DEF NotCleared
  <2>7. \A u \in VUs : Active(u)' =>
          /\ vu'[u].sent <= job.flow.reqs
          /\ vu'[u].pc \in InRequest \cup {"perform"} => vu'[u].sent < job.flow.reqs
    BY <1>t, <1>u, <1>m DEF Core, Budget, Active, InRequest
  <2>. QED
    BY <1>f, <2>6, <2>7 DEF Budget
<1>9. Late'
  BY <1>t, <1>f, <1>u, <1>i DEF Core, Late
<1>10. Judged'
  BY <1>t, <1>f, <1>u, <1>i DEF Core, Judged, FailFastJustified
<1>11. Reported'
  BY <1>f, <1>m DEF Reported
<1>. QED
  BY <1>1, <1>2, <1>3, <1>5, <1>6, <1>7, <1>8, <1>9, <1>10, <1>11 DEF IInv

\* The users that are joined have nothing left to do.
LEMMA JoinKeeps ==
  ASSUME IInv, ManagerNoMemory \/ CreateStops \/ Join
  PROVE  IInv'
<1>t. TypeOK /\ Core /\ Locked
  BY DEF IInv, Core
<1>f. UNCHANGED <<job, hpc, report, hist>>
  BY DEF ManagerNoMemory, CreateStops, Join
<1>m. /\ mpc \in {"create", "join"} /\ NoStart /\ job.running
      /\ \A h \in Handlers : ~(report[h].fresh /\ ~report[h].running)
  <2>1. mpc \in {"create", "join"}
    BY DEF ManagerNoMemory, CreateStops, Join, MStep
  <2>. QED
    BY <2>1, Manages
<1>u. \/ mpc' = "join" /\ created' = created /\ vu' = vu
      \/ mpc' = "end" /\ created' = {} /\ vu' = [v \in VUs |-> NoUser]
  <2>1. CASE ManagerNoMemory
    <3>1. \A v \in VUs : vu[v] = NoUser
      BY <2>1, AllOff DEF ManagerNoMemory
    <3>2. vu = [v \in VUs |-> NoUser]
      BY <1>t, <3>1 DEF TypeOK
    <3>. QED
      BY <2>1, <3>2 DEF ManagerNoMemory, MStep
  <2>2. CASE CreateStops \/ Join
    BY <2>2 DEF CreateStops, Join, MStep
  <2>. QED
    BY <2>1, <2>2
<1>d. vu' = vu \/ \A v \in VUs : vu[v].pc \in {"off", "done"}
  <2>1. CASE Join
    BY <1>t, <2>1 DEF Core, Users, Join, NoUser
  <2>2. CASE ManagerNoMemory \/ CreateStops
    BY <2>2 DEF ManagerNoMemory, CreateStops
  <2>. QED
    BY <2>1, <2>2
<1>1. TypeOK'
  <2>1. NoUser \in UserType
    BY DEF NoUser, UserType, UserPC
  <2>. QED
    BY <1>t, <1>f, <1>u, <2>1 DEF TypeOK
<1>2. Alone' /\ Locked'
  BY <1>t, <1>f, <1>m, <1>u DEF Core, Alone, Locked, NoStart
<1>3. Users'
  <2>1. CASE created' = created /\ vu' = vu /\ mpc' = "join"
    BY <1>t, <1>f, <1>m, <2>1 DEF Core, Users
  <2>2. CASE mpc' = "end" /\ created' = {} /\ vu' = [v \in VUs |-> NoUser]
    <3>1. created' = 1..0 /\ 0 \in 0..MaxVUs
      BY <2>2, FlowAssumption
    <3>. QED
      BY <2>2, <3>1 DEF Users, NoUser
  <2>. QED
    BY <1>u, <2>1, <2>2
<1>4. Classifying' = Classifying /\ Successes' = Successes /\ Remaining' = Remaining
  BY <1>f, <1>u, <1>d DEF Classifying, Successes, Remaining, At, Left, NoUser
<1>5. Counted'
  BY <1>t, <1>f, <1>4 DEF Core, Counted, Classified
<1>6. Zeroed' /\ Stamped'
  BY <1>t, <1>f, <1>m, <1>u DEF Core, Zeroed, Stamped
<1>7. Told'
  BY <1>t, <1>f, <1>u, <1>d DEF Core, Told, NotCleared, NoUser
<1>8. Budget'
  BY <1>t, <1>f, <1>u, <1>4 DEF Core, Budget, NotCleared, Active, NoUser
<1>9. Late'
  BY <1>t, <1>f, <1>u DEF Core, Late, NoUser
<1>10. Judged'
  BY <1>t, <1>f, <1>u DEF Core, Judged, FailFastJustified, NoUser
<1>11. Reported'
  BY <1>f, <1>m DEF Reported
<1>. QED
  BY <1>1, <1>2, <1>3, <1>5, <1>6, <1>7, <1>8, <1>9, <1>10, <1>11 DEF IInv

\* The end is stamped, and then `running` is cleared.
LEMMA EndKeeps ==
  ASSUME IInv, RunEnd \/ RunClear
  PROVE  IInv'
<1>t. TypeOK /\ Core /\ Locked
  BY DEF IInv, Core
<1>f. UNCHANGED <<hpc, report, created, vu, hist>>
  BY DEF RunEnd, RunClear
<1>m. /\ NoStart /\ created = {} /\ \A v \in VUs : vu[v] = NoUser
      /\ \A h \in Handlers : ~(report[h].fresh /\ ~report[h].running)
  <2>1. mpc \in {"end", "clear"}
    BY DEF RunEnd, RunClear, MStep
  <2>2. created = {}
    BY <1>t, <2>1 DEF Core, Users
  <2>. QED
    BY <2>1, <2>2, Manages, AllOff
<1>j. /\ job' \in JobType /\ SameCounts /\ job'.cancel = job.cancel /\ job'.flow = job.flow
      /\ job'.lastError = job.lastError /\ job'.lock = job.lock
      /\ \/ mpc = "end" /\ mpc' = "clear" /\ job'.endSet /\ job'.running = job.running
         \/ mpc = "clear" /\ mpc' = "none" /\ job'.endSet = job.endSet /\ ~job'.running
  BY <1>t DEF RunEnd, RunClear, MStep, TypeOK, JobType, SameCounts
<1>1. TypeOK'
  BY <1>t, <1>f, <1>j DEF TypeOK
<1>2. Alone' /\ Locked'
  BY <1>t, <1>f, <1>j, <1>m DEF Core, Alone, Locked, NoStart, SameCounts, Starting
<1>3. Users'
  BY <1>t, <1>f, <1>j DEF Core, Users
<1>4. Classifying' = Classifying /\ Successes' = Successes /\ Remaining' = Remaining
  BY <1>f, <1>j DEF Classifying, Successes, Remaining, At, Left, SameCounts
<1>5. Counted'
  BY <1>t, <1>j, <1>4 DEF Core, Counted, Classified, SameCounts
<1>6. Zeroed' /\ Stamped'
  BY <1>t, <1>f, <1>j DEF Core, Zeroed, Stamped, SameCounts
<1>7. Told'
  BY <1>t, <1>f, <1>j DEF Core, Told, NotCleared, SameCounts
<1>8. Budget'
  BY <1>t, <1>f, <1>j, <1>m, <1>4 DEF Core, Budget, NotCleared, Active, NoUser, SameCounts
<1>9. Late'
  BY <1>t, <1>f, <1>j DEF Core, Late
<1>10. Judged'
  BY <1>t, <1>f, <1>j DEF Core, Judged, FailFastJustified, SameCounts
<1>11. Reported'
  BY <1>f, <1>m DEF Reported
<1>. QED
  BY <1>1, <1>2, <1>3, <1>5, <1>6, <1>7, <1>8, <1>9, <1>10, <1>11 DEF IInv

-----------------------------------------------------------------------------
(* vu_main, run_step, record.                                              *)

\* A step of user v, as far as the others see it.
Only(v) ==
  /\ Active(v) /\ \A u \in VUs \ {v} : vu'[u] = vu[u]
  /\ UNCHANGED <<hpc, report, mpc, created>>
  /\ job'.running = job.running /\ job'.vus = job.vus /\ job'.endSet = job.endSet
  /\ job'.flow = job.flow /\ job'.lock = job.lock
  /\ vu'[v].pc \in {"classify", "error", "count", "next", "failRead", "failTest"}
       => vu'[v].result # "none"

\* An active user was created by a manager that is still there.
LEMMA Created ==
  ASSUME IInv, NEW v \in VUs, Active(v)
  PROVE  /\ v \in created /\ v <= job.vus /\ mpc \in {"create", "join"}
         /\ NoStart /\ job.running /\ job.flow.reqs \in Nat \ {0} /\ job.flow.steps \in Nat
         /\ \A h \in Handlers : ~(report[h].fresh /\ ~report[h].running)
<1>1. v \in created /\ mpc \in {"create", "join"}
  BY DEF IInv, Users, Active, NoUser
<1>2. /\ NoStart /\ job.running /\ job.vus = job.flow.vus /\ job.flow.reqs \in Nat \ {0}
      /\ job.flow.steps \in Nat
      /\ \A h \in Handlers : ~(report[h].fresh /\ ~report[h].running)
  BY <1>1, Manages
<1>3. v <= job.vus
  <2>1. PICK n \in 0..MaxVUs : created = 1..n /\ n <= job.flow.vus
    BY <1>1 DEF IInv, Users
  <2>2. job.flow.vus \in VUs
    BY <1>1, Manages
  <2>. QED
    BY <1>1, <1>2, <2>1, <2>2, FlowAssumption DEF VUs
<1>. QED
  BY <1>1, <1>2, <1>3

\* What a user does alters none of these, whatever it does to its own state.
LEMMA UserFrame ==
  ASSUME IInv, NEW v \in VUs, Only(v), job' \in JobType, hist' \in HistType,
         vu' \in [VUs -> UserType]
  PROVE  TypeOK' /\ Locked' /\ Alone' /\ Users' /\ Zeroed' /\ Stamped' /\ Reported'
<1>t. TypeOK /\ Core /\ Locked
  BY DEF IInv, Core
<1>c. /\ v \in created /\ NoStart /\ job.running
      /\ \A h \in Handlers : ~(report[h].fresh /\ ~report[h].running)
  BY Created DEF Only
<1>1. TypeOK'
  BY <1>t DEF TypeOK, Only
<1>2. Locked' /\ Alone'
  BY <1>t DEF Core, Locked, Alone, Only
<1>3. Users'
  BY <1>t, <1>c DEF Core, Users, Only
<1>4. Zeroed' /\ Stamped' /\ Reported'
  <2>1. Zeroed'
    BY <1>c DEF Zeroed, Only, NoStart, Starting
  <2>2. Stamped'
    BY <1>t, <1>c DEF Core, Stamped, Only
  <2>3. Reported'
    BY <1>c DEF Reported, Only
  <2>. QED
    BY <2>1, <2>2, <2>3
<1>. QED
  BY <1>1, <1>2, <1>3, <1>4

\* A request is counted, classified and told as a success one after the other.
LEMMA CountsKeep ==
  ASSUME IInv, NEW v \in VUs, Only(v), job' \in JobType,
         \A u \in VUs \ {v} : job'.vuOk[u] = job.vuOk[u],
         job'.completed + Classified + At(v, "classify")
           = job.completed + Classified' + At(v, "classify")',
         job'.counter["ok"] + job.vuOk[v] + At(v, "count")
           = job.counter["ok"] + job'.vuOk[v] + At(v, "count")'
  PROVE  Counted'
<1>t. TypeOK /\ Counted
  BY DEF IInv
<1>1. /\ job.completed \in Nat /\ job.counter \in Counts /\ job.vuOk \in [VUs -> Nat]
      /\ job'.completed \in Nat /\ job'.counter \in Counts /\ job'.vuOk \in [VUs -> Nat]
  BY <1>t DEF TypeOK, JobType
<1>2. Classified \in Nat /\ Classified' \in Nat
  BY <1>1 DEF Classified, Counts, Classes
<1>3. Classifying' \in [VUs -> Nat] /\ Successes' \in [VUs -> Nat]
  BY <1>1 DEF Classifying, Successes, At
<1>4. /\ Classifying \in [VUs -> Nat] /\ Successes \in [VUs -> Nat] /\ IsFiniteSet(VUs)
  BY SumTypes, Finite
<1>5. \A u \in VUs \ {v} : Classifying'[u] = Classifying[u] /\ Successes'[u] = Successes[u]
  BY DEF Only, Classifying, Successes, At
<1>6. /\ Classifying[v] = At(v, "classify") /\ Classifying'[v] = At(v, "classify")'
      /\ Successes[v] = job.vuOk[v] + At(v, "count")
      /\ Successes'[v] = job'.vuOk[v] + At(v, "count")'
  BY DEF Classifying, Successes
<1>7. Total(Classifying') \in Nat /\ Total(Classifying) \in Nat
      /\ Total(Classifying') = Total(Classifying) - Classifying[v] + Classifying'[v]
  BY <1>3, <1>4, <1>5, PointSum
<1>8. Total(Successes') \in Nat /\ Total(Successes) \in Nat
      /\ Total(Successes') = Total(Successes) - Successes[v] + Successes'[v]
  <2>1. Successes \in [VUs -> Nat] /\ Successes' \in [VUs -> Nat] /\ IsFiniteSet(VUs)
    BY <1>3, <1>4
  <2>2. \A u \in VUs \ {v} : Successes'[u] = Successes[u]
    BY <1>5
  <2>. QED
    BY <2>1, <2>2, PointSum
<1>9. At(v, "classify") \in Nat /\ At(v, "classify")' \in Nat /\ At(v, "count") \in Nat
      /\ At(v, "count")' \in Nat
  BY DEF At
<1>10. job'.completed = Classified' + Total(Classifying')
  BY <1>t, <1>1, <1>2, <1>6, <1>7, <1>9 DEF Counted
<1>11. job'.counter["ok"] = Total(Successes')
  <2>1. job.counter["ok"] \in Nat /\ job'.counter["ok"] \in Nat /\ job.vuOk[v] \in Nat
        /\ job'.vuOk[v] \in Nat
    BY <1>1 DEF Counts, Classes
  <2>2. job.counter["ok"] = Total(Successes)
    BY <1>t DEF Counted
  <2>3. Total(Successes') = Total(Successes) - (job.vuOk[v] + At(v, "count"))
                              + (job'.vuOk[v] + At(v, "count")')
    BY <1>6, <1>8
  <2>. QED
    BY <1>8, <1>9, <2>1, <2>2, <2>3
<1>12. \A u \in VUs : job'.vuOk[u] # 0 => u <= job'.vus
  BY <1>t, Created DEF Counted, Only
<1>. QED
  BY <1>10, <1>11, <1>12 DEF Counted

\* Unless the run is cancelled, a request that is counted is one less to send.
LEMMA BudgetKeeps ==
  ASSUME IInv, NEW v \in VUs, Only(v), job' \in JobType, vu' \in [VUs -> UserType],
         hist'.due = hist.due, job.cancel => job'.cancel,
         vu'[v].sent <= job.flow.reqs,
         vu'[v].pc \in InRequest \cup {"perform"} => vu'[v].sent < job.flow.reqs,
         ~job'.cancel => job'.completed + Left(v)' = job.completed + Left(v)
  PROVE  Budget'
<1>t. TypeOK /\ Budget
  BY DEF IInv
<1>c. job.flow.reqs \in Nat /\ NoStart /\ job'.flow = job.flow
  BY Created DEF Only
<1>1. \A u \in VUs : Active(u)' =>
        /\ vu'[u].sent <= job'.flow.reqs
        /\ vu'[u].pc \in InRequest \cup {"perform"} => vu'[u].sent < job'.flow.reqs
  BY <1>t, <1>c DEF Budget, Only, Active
<1>2. SUFFICES ASSUME ~job'.cancel PROVE job'.completed + Total(Remaining') = hist'.due
  BY <1>1 DEF Budget
<1>3. job.completed + Total(Remaining) = hist.due
  BY <1>t, <1>c, <1>2 DEF Budget, NoStart, NotCleared, Starting
<1>4. Left(v)' \in Nat
  <2>1. vu'[v].sent \in Nat
    BY DEF UserType
  <2>. QED
    BY <1>c, <2>1 DEF Left, InRequest
<1>5. Remaining \in [VUs -> Nat] /\ IsFiniteSet(VUs)
  BY SumTypes, Finite
<1>6. \A u \in VUs \ {v} : Remaining'[u] = Remaining[u]
  BY <1>c DEF Only, Remaining, Left
<1>7. Remaining[v] = Left(v) /\ Remaining'[v] = Left(v)'
  BY DEF Remaining
<1>8. Remaining' \in [VUs -> Nat]
  <2>1. \A u \in VUs : Remaining'[u] \in Nat
    BY <1>4, <1>5, <1>6, <1>7
  <2>2. Remaining' = [u \in VUs |-> Remaining'[u]]
    BY DEF Remaining
  <2>. QED
    BY <2>1, <2>2
<1>9. Total(Remaining') \in Nat /\ Total(Remaining) \in Nat
      /\ Total(Remaining') = Total(Remaining) - Remaining[v] + Remaining'[v]
  BY <1>5, <1>6, <1>8, PointSum
<1>10. job.completed \in Nat /\ job'.completed \in Nat
  BY <1>t DEF TypeOK, JobType
<1>11. Left(v) \in Nat
  BY <1>5, <1>7
<1>. QED
  BY <1>2, <1>3, <1>4, <1>7, <1>9, <1>10, <1>11

\* The steps between requests change nothing but where the user is.
LEMMA MovesKeep ==
  ASSUME IInv, NEW v \in VUs, VuPass(v) \/ VuStep(v) \/ VuNext(v) \/ VuFailRead(v)
  PROVE  IInv'
<1>t. TypeOK /\ Core
  BY DEF IInv, Core
<1>f. UNCHANGED <<job, hpc, report, mpc, created, hist>>
  BY DEF VuPass, VuStep, VuNext, VuFailRead
<1>o. vu[v] \in UserType /\ Active(v)
  BY <1>t DEF TypeOK, VuPass, VuStep, VStep, VuNext, VuFailRead, Active
<1>c. job.flow.reqs \in Nat /\ job.completed \in Nat
  BY <1>t, <1>o, Created DEF TypeOK, JobType
<1>u. /\ vu' \in [VUs -> UserType] /\ \A u \in VUs \ {v} : vu'[u] = vu[u]
      /\ vu[v].pc \notin {"classify", "error", "count"}
      /\ vu'[v].pc \in {"loop", "step", "perform", "done", "failRead", "failTest"}
      /\ vu'[v].pc = "failRead" => vu[v].pc = "next"
      /\ vu'[v].pc = "failTest" => vu[v].pc = "failRead" /\ vu'[v].comp >= FailFastMin
      /\ vu'[v].pc = "perform" => vu[v].pc = "step" /\ vu[v].sent < job.flow.reqs /\ ~job.cancel
      /\ vu'[v].pc = "done" => ~(vu[v].sent < job.flow.reqs /\ ~job.cancel)
      /\ vu'[v].result = vu[v].result
      /\ vu'[v].sent = IF vu[v].pc = "next" THEN vu[v].sent + 1 ELSE vu[v].sent
  <2>1. CASE VuPass(v)
    BY <1>t, <1>o, <2>1 DEF VuPass, TypeOK, UserType, UserPC
  <2>2. CASE VuStep(v)
    BY <1>t, <1>o, <2>2 DEF VuStep, VStep, GoesOn, TypeOK, UserType, UserPC
  <2>3. CASE VuNext(v)
    BY <1>t, <1>o, <2>3 DEF VuNext, Spent, TypeOK, UserType, UserPC
  <2>4. CASE VuFailRead(v)
    BY <1>t, <1>o, <1>c, <2>4 DEF VuFailRead, EnoughToJudge, TypeOK, UserType, UserPC
  <2>. QED
    BY <2>1, <2>2, <2>3, <2>4
<1>1. Only(v) /\ job' \in JobType /\ hist' \in HistType
  BY <1>t, <1>f, <1>o, <1>u DEF Only, Core, Users, TypeOK
<1>2. TypeOK' /\ Locked' /\ Alone' /\ Users' /\ Zeroed' /\ Stamped' /\ Reported'
  BY <1>1, <1>u, UserFrame
<1>3. Counted'
  <2>1. At(v, "classify") = At(v, "classify")' /\ At(v, "count") = At(v, "count")'
    BY <1>u DEF At
  <2>2. Classified' = Classified
    BY <1>f DEF Classified
  <2>. QED
    BY <1>1, <1>f, <2>1, <2>2, CountsKeep
<1>4. Told'
  <2>1. (\E u \in VUs : vu'[u].pc = "error") <=> \E u \in VUs : vu[u].pc = "error"
    BY <1>u
  <2>. QED
    BY <1>t, <1>f, <2>1 DEF Core, Told, NotCleared
<1>5. Budget'
  <2>1. /\ vu[v].sent \in Nat /\ vu[v].sent <= job.flow.reqs
        /\ vu[v].pc = "next" => vu[v].sent < job.flow.reqs
    BY <1>t, <1>o DEF Core, Budget, UserType, InRequest
  <2>2. vu'[v].sent <= job.flow.reqs
    BY <1>c, <1>u, <2>1
  <2>3. vu'[v].pc \in InRequest \cup {"perform"} => vu'[v].sent < job.flow.reqs
    BY <1>u DEF InRequest
  <2>4. ~job.cancel => Left(v)' = Left(v)
    BY <1>c, <1>f, <1>o, <1>u, <2>1 DEF Left, InRequest, Active
  <2>. QED
    BY <1>1, <1>f, <1>u, <2>2, <2>3, <2>4, BudgetKeeps
<1>6. Late' /\ Judged'
  BY <1>t, <1>f, <1>u DEF Core, Late, Judged, FailFastJustified
<1>. QED
  BY <1>2, <1>3, <1>4, <1>5, <1>6 DEF IInv

\* A request that was answered is completed before it is in a class.
LEMMA PerformKeeps ==
  ASSUME IInv, NEW v \in VUs, NEW r \in Outcomes, VuPerform(v, r)
  PROVE  IInv'
<1>t. TypeOK /\ Core
  BY DEF IInv, Core
<1>f. UNCHANGED <<hpc, report, mpc, created>>
  BY DEF VuPerform
<1>o. vu[v] \in UserType /\ Active(v) /\ vu[v].pc = "perform"
  BY <1>t DEF TypeOK, VuPerform, Active
<1>u. /\ vu' \in [VUs -> UserType] /\ \A u \in VUs \ {v} : vu'[u] = vu[u]
      /\ vu'[v].pc = "classify" /\ vu'[v].sent = vu[v].sent /\ vu'[v].result # "none"
  <2>1. r \in Results /\ r # "none"
    BY OutcomeAssumption DEF Results
  <2>. QED
    BY <1>t, <2>1 DEF VuPerform, TypeOK, UserType, UserPC
<1>j. /\ job' \in JobType /\ job'.completed = job.completed + 1 /\ job'.counter = job.counter
      /\ job'.vuOk = job.vuOk /\ job'.vus = job.vus /\ job'.cancel = job.cancel
      /\ job'.flow = job.flow /\ job'.running = job.running /\ job'.endSet = job.endSet
      /\ job'.lastError = job.lastError /\ job'.lock = job.lock /\ job.completed \in Nat
  BY <1>t DEF VuPerform, TypeOK, JobType
<1>i. /\ hist' \in HistType /\ hist'.due = hist.due /\ hist'.stopped = hist.stopped
      /\ \A u \in VUs \ {v} : hist'.late[u] = hist.late[u]
      /\ hist'.late[v] = IF job.cancel THEN hist.late[v] + 1 ELSE hist.late[v]
  <2>1. hist \in HistType /\ hist.late \in [VUs -> Nat]
    BY <1>t DEF TypeOK, HistType
  <2>2. CASE job.cancel
    BY <2>1, <2>2 DEF VuPerform, HistType
  <2>3. CASE ~job.cancel
    BY <2>1, <2>3 DEF VuPerform, HistType
  <2>. QED
    BY <2>2, <2>3
<1>1. Only(v)
  BY <1>f, <1>o, <1>u, <1>j DEF Only
<1>2. TypeOK' /\ Locked' /\ Alone' /\ Users' /\ Zeroed' /\ Stamped' /\ Reported'
  BY <1>1, <1>u, <1>j, <1>i, UserFrame
<1>3. Counted'
  <2>1. At(v, "classify") = 0 /\ At(v, "classify")' = 1 /\ At(v, "count") = At(v, "count")'
    BY <1>o, <1>u DEF At
  <2>2. Classified' = Classified /\ Classified \in Nat
    BY <1>t, <1>j DEF Classified, TypeOK, JobType, Counts, Classes
  <2>. QED
    BY <1>1, <1>j, <2>1, <2>2, CountsKeep
<1>4. Told'
  <2>1. (\E u \in VUs : vu'[u].pc = "error") <=> \E u \in VUs : vu[u].pc = "error"
    BY <1>o, <1>u
  <2>. QED
    BY <1>t, <1>f, <1>j, <2>1 DEF Core, Told, NotCleared
<1>5. Budget'
  <2>1. /\ vu[v].sent \in Nat /\ vu[v].sent < job.flow.reqs /\ job.flow.reqs \in Nat
    BY <1>t, <1>o, Created DEF Core, Budget, UserType, InRequest
  <2>2. Left(v)' + 1 = Left(v)
    BY <1>o, <1>u, <1>j, <2>1 DEF Left, InRequest
  <2>3. Left(v)' \in Nat /\ Left(v) \in Nat
    BY <1>o, <1>u, <1>j, <2>1 DEF Left, InRequest
  <2>4. job'.completed + Left(v)' = job.completed + Left(v)
    BY <1>j, <2>2, <2>3
  <2>. QED
    BY <1>1, <1>j, <1>i, <1>u, <2>1, <2>4, BudgetKeeps
<1>6. Late'
  <2>1. hist.late[v] \in Nat /\ hist.late[v] <= 1 /\ hist.late[v] # 1
    BY <1>t, <1>o DEF Core, Late, TypeOK, HistType
  <2>. QED
    BY <1>t, <1>u, <1>j, <1>i, <2>1 DEF Core, Late
<1>7. Judged'
  BY <1>t, <1>f, <1>u, <1>j, <1>i DEF Core, Judged, FailFastJustified
<1>. QED
  BY <1>2, <1>3, <1>4, <1>5, <1>6, <1>7 DEF IInv

\* The request goes into one class; what is no success leads to an error text, unless it
\* has a response code below 200.
LEMMA ClassifyKeeps ==
  ASSUME IInv, NEW v \in VUs, VuClassify(v)
  PROVE  IInv'
<1>t. TypeOK /\ Core
  BY DEF IInv, Core
<1>f. UNCHANGED <<hpc, report, mpc, created, hist>>
  BY DEF VuClassify
<1>o. vu[v] \in UserType /\ Active(v) /\ vu[v].pc = "classify" /\ vu[v].result \in Results
  BY <1>t DEF TypeOK, VuClassify, VStep, Active, Core, Users, UserType
<1>u. /\ vu' \in [VUs -> UserType] /\ \A u \in VUs \ {v} : vu'[u] = vu[u]
      /\ vu'[v].sent = vu[v].sent /\ vu'[v].result = vu[v].result
      /\ vu'[v].pc = CASE vu[v].result = "ok" -> "count"
                       [] vu[v].result = "informational" -> "next"
                       [] OTHER -> "error"
  BY <1>t, <1>o DEF VuClassify, VStep, TypeOK, UserType, UserPC, Results
<1> DEFINE k == ClassOf(vu[v].result)
<1>k. /\ k \in Classes /\ (k = "ok" <=> vu'[v].pc = "count")
      /\ k \in {"client", "server"} => vu'[v].pc = "error"
      /\ vu'[v].pc \in {"count", "next", "error"}
  BY <1>o, <1>u DEF ClassOf, Classes, Results
<1>j. /\ job' \in JobType /\ job'.completed = job.completed
      /\ \A c \in Classes : job'.counter[c] = IF c = k THEN job.counter[c] + 1 ELSE job.counter[c]
      /\ job'.vuOk = job.vuOk /\ job'.vus = job.vus /\ job'.cancel = job.cancel
      /\ job'.flow = job.flow /\ job'.running = job.running /\ job'.endSet = job.endSet
      /\ job'.lastError = job.lastError /\ job'.lock = job.lock
  BY <1>t, <1>k DEF VuClassify, TypeOK, JobType, Counts
<1>. HIDE DEF k
<1>n. /\ job.completed \in Nat /\ job.vuOk[v] \in Nat
      /\ \A c \in Classes : job.counter[c] \in Nat /\ job'.counter[c] \in Nat
  BY <1>t, <1>j DEF TypeOK, JobType, Counts
<1>1. Only(v)
  BY <1>f, <1>o, <1>u, <1>j DEF Only, Results
<1>2. TypeOK' /\ Locked' /\ Alone' /\ Users' /\ Zeroed' /\ Stamped' /\ Reported'
  <2>1. hist' \in HistType
    BY <1>t, <1>f DEF TypeOK
  <2>. QED
    BY <1>1, <1>u, <1>j, <2>1, UserFrame
<1>3. Counted'
  <2>1. At(v, "classify") = 1 /\ At(v, "classify")' = 0 /\ At(v, "count") = 0
        /\ At(v, "count")' = IF k = "ok" THEN 1 ELSE 0
    BY <1>o, <1>k DEF At
  <2>2. Classified' = Classified + 1 /\ Classified \in Nat
    BY <1>j, <1>k, <1>n DEF Classified, Classes
  <2>3. job'.counter["ok"] = job.counter["ok"] + (IF k = "ok" THEN 1 ELSE 0)
    BY <1>j, <1>n DEF Classes
  <2>4. job.counter["ok"] \in Nat
    BY <1>n DEF Classes
  <2>5. job'.counter["ok"] + job.vuOk[v] + At(v, "count")
          = job.counter["ok"] + job'.vuOk[v] + At(v, "count")'
    BY <1>j, <1>n, <2>1, <2>3, <2>4
  <2>6. job'.completed + Classified + At(v, "classify")
          = job.completed + Classified' + At(v, "classify")'
    BY <1>j, <1>n, <2>1, <2>2
  <2>. QED
    BY <1>1, <1>j, <2>5, <2>6, CountsKeep
<1>4. Told'
  <2>1. /\ job.counter["client"] \in Nat /\ job.counter["server"] \in Nat
        /\ job.counter["conn"] \in Nat /\ job'.counter["client"] \in Nat
        /\ job'.counter["server"] \in Nat /\ job'.counter["conn"] \in Nat
        /\ job'.counter["client"] >= job.counter["client"]
        /\ job'.counter["server"] >= job.counter["server"]
        /\ job'.counter["conn"] >= job.counter["conn"]
    BY <1>j, <1>n DEF Classes
  <2>2. \A u \in VUs : u # v => vu'[u].pc = vu[u].pc
    BY <1>u
  <2>3. CASE vu'[v].pc = "error"
    <3>1. k # "ok"
      BY <1>k, <2>3
    <3>2. job'.counter["client"] + job'.counter["server"] + job'.counter["conn"] > 0
      BY <1>j, <1>k, <2>1, <3>1 DEF Classes
    <3>. QED
      BY <2>3, <3>2 DEF Told
  <2>4. CASE vu'[v].pc # "error"
    <3>1. job'.counter["client"] = job.counter["client"]
          /\ job'.counter["server"] = job.counter["server"]
      BY <1>j, <1>k, <2>4 DEF Classes
    <3>2. (\E u \in VUs : vu'[u].pc = "error") <=> \E u \in VUs : vu[u].pc = "error"
      BY <1>o, <2>2, <2>4
    <3>. QED
      BY <1>t, <1>f, <1>j, <2>1, <3>1, <3>2 DEF Core, Told, NotCleared
  <2>. QED
    BY <2>3, <2>4
<1>5. Budget'
  <2>1. /\ vu[v].sent \in Nat /\ vu[v].sent < job.flow.reqs /\ job.flow.reqs \in Nat
    BY <1>t, <1>o, Created DEF Core, Budget, UserType, InRequest
  <2>2. Left(v)' = Left(v)
    BY <1>o, <1>u, <1>k, <1>j DEF Left, InRequest
  <2>. QED
    BY <1>1, <1>j, <1>f, <1>u, <2>1, <2>2, BudgetKeeps
<1>6. Late'
  BY <1>t, <1>f, <1>u, <1>k, <1>j DEF Core, Late
<1>7. Judged'
  <2>1. job'.counter["conn"] >= job.counter["conn"] /\ job.counter["conn"] \in Nat
        /\ job'.counter["conn"] \in Nat
    BY <1>j, <1>n DEF Classes
  <2>. QED
    BY <1>t, <1>f, <1>u, <1>k, <1>j, <2>1, RunAssumption DEF Core, Judged, FailFastJustified
<1>. QED
  BY <1>2, <1>3, <1>4, <1>5, <1>6, <1>7 DEF IInv

\* The text of the last error, and a user's own success.
LEMMA TellsKeep ==
  ASSUME IInv, NEW v \in VUs, VuError(v) \/ VuCount(v)
  PROVE  IInv'
<1>t. TypeOK /\ Core
  BY DEF IInv, Core
<1>f. UNCHANGED <<hpc, report, mpc, created, hist>>
  BY DEF VuError, VuCount
<1>o. /\ vu[v] \in UserType /\ Active(v) /\ vu[v].pc \in {"error", "count"}
      /\ vu[v].result # "none"
  BY <1>t DEF TypeOK, VuError, VuCount, VStep, Active, Core, Users
<1>u. /\ vu' \in [VUs -> UserType] /\ \A u \in VUs \ {v} : vu'[u] = vu[u]
      /\ vu'[v].pc = "next" /\ vu'[v].sent = vu[v].sent /\ vu'[v].result = vu[v].result
  BY <1>t DEF VuError, VuCount, VStep, TypeOK, UserType, UserPC
<1>j. /\ job' \in JobType /\ job'.completed = job.completed /\ job'.counter = job.counter
      /\ job'.vus = job.vus /\ job'.cancel = job.cancel
      /\ job'.flow = job.flow /\ job'.running = job.running /\ job'.endSet = job.endSet
      /\ job'.lock = job.lock /\ \A u \in VUs \ {v} : job'.vuOk[u] = job.vuOk[u]
      /\ \/ vu[v].pc = "error" /\ job'.lastError /\ job'.vuOk[v] = job.vuOk[v]
         \/ vu[v].pc = "count" /\ job'.lastError = job.lastError /\ job'.vuOk[v] = job.vuOk[v] + 1
  <2>1. CASE VuError(v)
    BY <1>t, <2>1 DEF VuError, VStep, TypeOK, JobType
  <2>2. CASE VuCount(v)
    BY <1>t, <2>2 DEF VuCount, VStep, TypeOK, JobType
  <2>. QED
    BY <2>1, <2>2
<1>n. /\ job.completed \in Nat /\ job.vuOk[v] \in Nat /\ job.counter["ok"] \in Nat
      /\ Classified' = Classified /\ Classified \in Nat
  BY <1>t, <1>j DEF TypeOK, JobType, Counts, Classes, Classified
<1>1. Only(v)
  BY <1>f, <1>o, <1>u, <1>j DEF Only
<1>2. TypeOK' /\ Locked' /\ Alone' /\ Users' /\ Zeroed' /\ Stamped' /\ Reported'
  <2>1. hist' \in HistType
    BY <1>t, <1>f DEF TypeOK
  <2>. QED
    BY <1>1, <1>u, <1>j, <2>1, UserFrame
<1>3. Counted'
  <2>1. At(v, "classify") = 0 /\ At(v, "classify")' = 0
        /\ At(v, "count") = (IF vu[v].pc = "count" THEN 1 ELSE 0) /\ At(v, "count")' = 0
    BY <1>o, <1>u DEF At
  <2>2. job'.counter["ok"] + job.vuOk[v] + At(v, "count")
          = job.counter["ok"] + job'.vuOk[v] + At(v, "count")'
    BY <1>j, <1>n, <2>1
  <2>. QED
    BY <1>1, <1>j, <1>n, <2>1, <2>2, CountsKeep
<1>4. Told'
  <2>1. (\E u \in VUs : vu'[u].pc = "error") => \E u \in VUs : vu[u].pc = "error"
    BY <1>o, <1>u
  <2>2. CASE vu[v].pc = "error"
    BY <1>t, <1>j, <2>2 DEF Core, Told
  <2>3. CASE vu[v].pc = "count"
    <3>1. (\E u \in VUs : vu[u].pc = "error") => \E u \in VUs : vu'[u].pc = "error"
      BY <1>u, <2>3
    <3>. QED
      BY <1>t, <1>f, <1>j, <2>1, <2>3, <3>1 DEF Core, Told, NotCleared
  <2>. QED
    BY <1>o, <2>2, <2>3
<1>5. Budget'
  <2>1. /\ vu[v].sent \in Nat /\ vu[v].sent < job.flow.reqs /\ job.flow.reqs \in Nat
    BY <1>t, <1>o, Created DEF Core, Budget, UserType, InRequest
  <2>2. Left(v)' = Left(v)
    BY <1>o, <1>u, <1>j DEF Left, InRequest
  <2>. QED
    BY <1>1, <1>j, <1>f, <1>u, <2>1, <2>2, BudgetKeeps
<1>6. Late' /\ Judged'
  BY <1>t, <1>f, <1>u, <1>j DEF Core, Late, Judged, FailFastJustified
<1>. QED
  BY <1>2, <1>3, <1>4, <1>5, <1>6 DEF IInv

\* The run is cancelled when there are as many connection errors as there were requests a
\* moment ago, which were enough.
LEMMA FailTestKeeps ==
  ASSUME IInv, NEW v \in VUs, VuFailTest(v)
  PROVE  IInv'
<1>t. TypeOK /\ Core
  BY DEF IInv, Core
<1>f. UNCHANGED <<hpc, report, mpc, created, hist>>
  BY DEF VuFailTest
<1>o. vu[v] \in UserType /\ Active(v) /\ vu[v].pc = "failTest"
  BY <1>t DEF TypeOK, VuFailTest, VStep, Active
<1>u. /\ vu' \in [VUs -> UserType] /\ \A u \in VUs \ {v} : vu'[u] = vu[u]
      /\ vu'[v].pc = "loop" /\ vu'[v].sent = vu[v].sent
  BY <1>t DEF VuFailTest, VStep, TypeOK, UserType, UserPC
<1>j. /\ job' \in JobType /\ job'.completed = job.completed /\ job'.counter = job.counter
      /\ job'.vuOk = job.vuOk /\ job'.vus = job.vus
      /\ job'.flow = job.flow /\ job'.running = job.running /\ job'.endSet = job.endSet
      /\ job'.lastError = job.lastError /\ job'.lock = job.lock
      /\ job'.cancel = (job.cancel \/ job.counter["conn"] = vu[v].comp)
  <2>1. job \in JobType /\ (job.cancel \/ job.counter["conn"] = vu[v].comp) \in BOOLEAN
    BY <1>t DEF TypeOK
  <2>. DEFINE c == job.cancel \/ job.counter["conn"] = vu[v].comp
  <2>2. job' = [job EXCEPT !.cancel = c]
    BY DEF VuFailTest
  <2>. HIDE DEF c
  <2>3. c \in BOOLEAN
    BY <2>1 DEF c
  <2>4. job' \in JobType /\ job'.cancel = c
    BY <2>1, <2>2, <2>3 DEF JobType
  <2>. QED
    BY <2>1, <2>2, <2>4 DEF JobType, c
<1>c. /\ job.cancel => job'.cancel
      /\ job'.cancel => job.cancel \/ job.counter["conn"] = vu[v].comp
  BY <1>j, Zenon
<1>1. Only(v)
  BY <1>f, <1>o, <1>u, <1>j DEF Only
<1>2. TypeOK' /\ Locked' /\ Alone' /\ Users' /\ Zeroed' /\ Stamped' /\ Reported'
  <2>1. hist' \in HistType
    BY <1>t, <1>f DEF TypeOK
  <2>. QED
    BY <1>1, <1>u, <1>j, <2>1, UserFrame
<1>3. Counted'
  <2>1. At(v, "classify") = At(v, "classify")' /\ At(v, "count") = At(v, "count")'
    BY <1>o, <1>u DEF At
  <2>2. Classified' = Classified
    BY <1>j DEF Classified
  <2>. QED
    BY <1>1, <1>j, <2>1, <2>2, CountsKeep
<1>4. Told'
  <2>1. (\E u \in VUs : vu'[u].pc = "error") <=> \E u \in VUs : vu[u].pc = "error"
    BY <1>o, <1>u
  <2>. QED
    BY <1>t, <1>f, <1>j, <2>1 DEF Core, Told, NotCleared
<1>5. Budget'
  <2>1. vu[v].sent <= job.flow.reqs
    BY <1>t, <1>o DEF Core, Budget
  <2>2. Left(v)' = Left(v)
    BY <1>o, <1>u, <1>j DEF Left, InRequest
  <2>3. vu'[v].pc \notin InRequest \cup {"perform"} /\ vu'[v].sent <= job.flow.reqs
    BY <1>u, <2>1 DEF InRequest
  <2>. QED
    BY <1>1, <1>j, <1>c, <1>f, <1>u, <2>2, <2>3, BudgetKeeps
<1>6. Late'
  BY <1>t, <1>f, <1>u, <1>c DEF Core, Late
<1>7. Judged'
  <2>1. vu[v].comp >= FailFastMin
    BY <1>t, <1>o DEF Core, Judged
  <2>2. \A h \in Handlers : hpc'[h] # "startRunning"
    BY <1>f, <1>o, Created DEF NoStart, Starting
  <2>3. FailFastJustified'
    BY <1>t, <1>f, <1>j, <1>c, <2>1 DEF Core, Judged, FailFastJustified
  <2>4. \A u \in VUs : vu'[u].pc = "failTest" => vu'[u].comp >= FailFastMin
    BY <1>t, <1>u DEF Core, Judged
  <2>. QED
    BY <2>2, <2>3, <2>4 DEF Judged
<1>. QED
  BY <1>2, <1>3, <1>4, <1>5, <1>6, <1>7 DEF IInv

-----------------------------------------------------------------------------
\* Every step keeps the invariant.
LEMMA StepKeeps == IInv /\ [Next]_vars => IInv'
<1>. SUFFICES ASSUME IInv, [Next]_vars PROVE IInv'
  OBVIOUS
<1>1. CASE UNCHANGED vars
  <2>1. /\ Core' = Core /\ TypeOK' = TypeOK /\ Locked' = Locked /\ Reported' = Reported
    BY <1>1 DEF vars, Core, TypeOK, Locked, Reported, Alone, Users, Counted, Classified,
                Classifying, Successes, At, Zeroed, Told, NotCleared, Stamped, Budget, Remaining,
                Left, Active, Late, Judged, FailFastJustified
  <2>. QED
    BY <2>1 DEF IInv, Core
<1>2. CASE \E h \in Handlers : Handler(h)
  BY <1>2, HandlerKeeps
<1>3. CASE Manager
  <2>1. CASE \E b \in BOOLEAN : CreateVU(b)
    BY <2>1, CreateKeeps
  <2>2. CASE ManagerNoMemory \/ CreateStops \/ Join
    BY <2>2, JoinKeeps
  <2>3. CASE RunEnd \/ RunClear
    BY <2>3, EndKeeps
  <2>. QED
    BY <1>3, <2>1, <2>2, <2>3 DEF Manager
<1>4. ASSUME NEW v \in VUs, User(v) PROVE IInv'
  <2>1. CASE VuPass(v) \/ VuStep(v) \/ VuNext(v) \/ VuFailRead(v)
    BY <2>1, MovesKeep
  <2>2. CASE \E r \in Outcomes : VuPerform(v, r)
    BY <2>2, PerformKeeps
  <2>3. CASE VuClassify(v)
    BY <2>3, ClassifyKeeps
  <2>4. CASE VuError(v) \/ VuCount(v)
    BY <2>4, TellsKeep
  <2>5. CASE VuFailTest(v)
    BY <2>5, FailTestKeeps
  <2>. QED
    BY <1>4, <2>1, <2>2, <2>3, <2>4, <2>5 DEF User
<1>. QED
  BY <1>1, <1>2, <1>3, <1>4 DEF Next

\* The invariant holds in every state a run of the program reaches.
LEMMA Invariance == Spec => []IInv
<1>. QED
  BY InitOK, StepKeeps, PTL DEF Spec

-----------------------------------------------------------------------------
\* One run at a time, for any number of handlers and users: whoever starts a run has the
\* lock to himself, and finds no manager and no user left (stress_start, manager_main;
\* stress.c:577-671).
THEOREM OneRun == Spec => []OneRunAtATime
<1>1. IInv => OneRunAtATime
  <2>. SUFFICES ASSUME IInv PROVE OneRunAtATime
    OBVIOUS
  <2>1. mpc # "none" => job.running /\ NoStart
    BY Manages
  <2>2. mpc = "none" => \A v \in VUs : ~Active(v)
    BY AllOff DEF IInv, Users
  <2>3. job.running => mpc # "none" \/ \E h \in Handlers : hpc[h] = "startSpawn"
    BY DEF IInv, Alone
  <2>4. \A g, h \in Handlers : hpc[g] \in Starting /\ hpc[h] \in Starting => g = h
    BY DEF IInv, Locked, Holding
  <2>. QED
    BY <2>1, <2>2, <2>3, <2>4 DEF OneRunAtATime
<1>. QED
  BY <1>1, Invariance, PTL

\* The final report of any run adds up, whatever polls and starts go on beside it
\* (stress_status, record; stress.c:345-396, 672-732).
THEOREM ReportsAddUp == Spec => []FinalReportExact
<1>1. IInv => FinalReportExact
  <2>. SUFFICES ASSUME IInv, NEW h \in Handlers,
                       hpc[h] = "statusSend", ~report[h].running, report[h].fresh
                PROVE  /\ report[h].completed = Total(report[h].counter)
                       /\ report[h].ok = report[h].counter["ok"]
                       /\ report[h].end \/ report[h].completed = 0
                       /\ report[h].counter["client"] + report[h].counter["server"] > 0
                            => report[h].error
                       /\ report[h].error => report[h].completed > report[h].counter["ok"]
    BY DEF FinalReportExact
  <2>t. TypeOK /\ Counted /\ Told /\ Stamped
    BY DEF IInv
  <2>1. /\ report[h].completed = job.completed /\ report[h].counter = job.counter
        /\ report[h].end = job.endSet /\ report[h].error = job.lastError
        /\ report[h].ok = Total([v \in 1..job.vus |-> job.vuOk[v]])
        /\ ~job.running /\ NotCleared
    BY DEF IInv, Reported, NotCleared
  <2>2. mpc = "none" /\ created = {}
    BY <2>1 DEF IInv, Alone, Users
  <2>3. /\ \A v \in VUs : vu[v] = NoUser
        /\ Total(Classifying) = 0
    BY <2>2, AllOff
  <2>4. /\ job.completed \in Nat /\ job.counter \in [Classes -> Nat]
        /\ job.vuOk \in [VUs -> Nat] /\ job.vus \in 0..MaxVUs
        /\ job.counter["ok"] \in Nat /\ job.counter["client"] \in Nat
        /\ job.counter["server"] \in Nat /\ job.counter["conn"] \in Nat
    BY <2>t DEF TypeOK, JobType, Counts, Classes
  <2>5. job.completed = Total(job.counter) /\ job.completed = Classified
    BY <2>t, <2>3, <2>4, ClassSum DEF Counted, Classified
  <2>6. Total([v \in 1..job.vus |-> job.vuOk[v]]) = job.counter["ok"]
    <3>. DEFINE s == 1..job.vus
                ok == [v \in s |-> job.vuOk[v]]
    <3>1. s \in SUBSET VUs
      BY <2>4, FlowAssumption DEF VUs
    <3>2. ok \in [s -> Nat]
      BY <2>4, <3>1
    <3>3. Successes \in [VUs -> Nat] /\ IsFiniteSet(VUs)
      BY SumTypes, Finite
    <3>4. \A v \in VUs : IF v \in s THEN ok[v] = Successes[v] ELSE Successes[v] = 0
      <4>. SUFFICES ASSUME NEW v \in VUs
                    PROVE  IF v \in s THEN job.vuOk[v] = Successes[v] ELSE Successes[v] = 0
        OBVIOUS
      <4>1. Successes[v] = job.vuOk[v]
        BY <2>3, <2>4 DEF Successes, At, NoUser
      <4>2. v \notin s => job.vuOk[v] = 0
        BY <2>t, <2>4, FlowAssumption DEF Counted, VUs
      <4>. QED
        BY <4>1, <4>2
    <3>. HIDE DEF ok, s
    <3>5. Total(ok) = Total(Successes)
      BY <3>1, <3>2, <3>3, <3>4, PartSum
    <3>6. job.counter["ok"] = Total(Successes)
      BY <2>t DEF Counted
    <3>. QED
      BY <3>5, <3>6 DEF ok, s
  <2>7. job.endSet \/ job.completed = 0
    BY <2>t, <2>1 DEF Stamped
  <2>8. job.counter["client"] + job.counter["server"] > 0 => job.lastError
    BY <2>t, <2>3 DEF Told, NoUser
  <2>9. job.lastError => job.completed > job.counter["ok"]
    <3>1. job.lastError =>
            job.counter["client"] + job.counter["server"] + job.counter["conn"] > 0
      BY <2>t, <2>1 DEF Told
    <3>. QED
      BY <3>1, <2>4, <2>5 DEF Classified
  <2>. QED
    BY <2>1, <2>5, <2>6, <2>7, <2>8, <2>9
<1>. QED
  BY <1>1, Invariance, PTL

\* After a stop no user of any run sends more than one request (vu_main; stress.c:528-575).
THEOREM StopsSoon == Spec => []StopBounded
<1>1. IInv => StopBounded
  BY DEF IInv, Late, StopBounded
<1>. QED
  BY <1>1, Invariance, PTL

\* A run that nobody stopped sent all of its budget, for any flow (vu_main, manager_main;
\* stress.c:528-618).
THEOREM WholeBudget == Spec => []FullBudget
<1>1. IInv => FullBudget
  <2>. SUFFICES ASSUME IInv, ~job.running, ~job.cancel, NoStart
                PROVE  job.completed = hist.due
    BY DEF FullBudget
  <2>1. created = {}
    BY DEF IInv, Alone, Users
  <2>2. Total(Remaining) = 0
    BY <2>1, AllOff
  <2>3. job.completed + Total(Remaining) = hist.due
    BY DEF IInv, Budget, NotCleared, NoStart, Starting
  <2>. QED
    BY <2>2, <2>3 DEF IInv, TypeOK, JobType
<1>. QED
  BY <1>1, Invariance, PTL

\* A run that ends itself early had its reasons, for any threshold (vu_main;
\* stress.c:552-565).
THEOREM FailsFastWithReason == Spec => []FailFastJustified
<1>1. IInv => FailFastJustified
  BY DEF IInv, Judged
<1>. QED
  BY <1>1, Invariance, PTL

\* The flow is never written while a thread of a run can read it, although nobody locks it
\* for reading (parse_flow, stress_start; stress.c:84-249, 620-640).
THEOREM FlowKept == Spec => FlowStable
<1>1. ASSUME IInv, [Next]_vars, job'.flow # job.flow
      PROVE  mpc = "none" /\ \A v \in VUs : ~Active(v)
  <2>t. job \in JobType
    BY <1>1 DEF IInv, TypeOK
  <2>1. ~UNCHANGED job
    BY <1>1
  <2>2. ASSUME NEW h \in Handlers, Handler(h)
        PROVE  hpc[h] = "startTest" /\ ~job.running
    BY <1>1, <2>t, <2>1, <2>2
       DEF JobType, Handler, StartHolding, StartLock, StartBusy, StartInvalid, StartValid, StartReset,
           StartClear, StartRunning, StartSpawn, StartSpawnFails, StartUnlock, Stop, HStep,
           StatusRunning, StatusCompleted, StatusClasses, StatusError, StatusUsers, StatusSend
  <2>3. ~Manager
    BY <1>1, <2>t, <2>1
       DEF JobType, Manager, ManagerNoMemory, CreateVU, CreateStops, Join, RunEnd, RunClear
  <2>4. \A v \in VUs : ~User(v)
    BY <1>1, <2>t, <2>1
       DEF JobType, User, VuPass, VuStep, VuPerform, VuClassify, VuError, VuCount, VuNext,
           VuFailRead, VuFailTest
  <2>5. PICK h \in Handlers : hpc[h] = "startTest" /\ ~job.running
    BY <1>1, <2>1, <2>2, <2>3, <2>4 DEF Next, vars
  <2>6. mpc = "none" /\ created = {}
    BY <1>1, <2>5, Holder DEF Holding
  <2>. QED
    BY <1>1, <2>6, AllOff
<1>2. IInv /\ [Next]_vars => [job'.flow # job.flow => mpc = "none" /\ \A v \in VUs : ~Active(v)]_vars
  BY <1>1
<1>. QED
  BY <1>2, Invariance, PTL DEF Spec, FlowStable

\* Only the start of another run withdraws a stop (stress_start, vu_main; stress.c:560, 652).
THEOREM StopKept == Spec => StopSticks
<1>1. ASSUME IInv, [Next]_vars, job.cancel, ~job'.cancel
      PROVE  ~job.running /\ mpc = "none"
  <2>t. job \in JobType
    BY <1>1 DEF IInv, TypeOK
  <2>1. ~UNCHANGED job
    BY <1>1
  <2>2. ASSUME NEW h \in Handlers, Handler(h)
        PROVE  hpc[h] = "startClear"
    BY <1>1, <2>t, <2>1, <2>2
       DEF JobType, Handler, StartHolding, StartLock, StartBusy, StartInvalid, StartValid, StartReset,
           StartClear, StartRunning, StartSpawn, StartSpawnFails, StartUnlock, Stop, HStep,
           StatusRunning, StatusCompleted, StatusClasses, StatusError, StatusUsers, StatusSend
  <2>3. ~Manager
    BY <1>1, <2>t, <2>1
       DEF JobType, Manager, ManagerNoMemory, CreateVU, CreateStops, Join, RunEnd, RunClear
  <2>4. \A v \in VUs : ~User(v)
    BY <1>1, <2>t, <2>1
       DEF JobType, User, VuPass, VuStep, VuPerform, VuClassify, VuError, VuCount, VuNext,
           VuFailRead, VuFailTest
  <2>5. PICK h \in Handlers : hpc[h] = "startClear"
    BY <1>1, <2>1, <2>2, <2>3, <2>4 DEF Next, vars
  <2>. QED
    BY <1>1, <2>5 DEF IInv, Alone, Starting
<1>2. IInv /\ [Next]_vars => [job.cancel /\ ~job'.cancel => ~job.running /\ mpc = "none"]_vars
  BY <1>1
<1>. QED
  BY <1>2, Invariance, PTL DEF Spec, StopSticks
=============================================================================
