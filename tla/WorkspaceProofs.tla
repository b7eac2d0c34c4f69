-------------------------- MODULE WorkspaceProofs --------------------------
(***************************************************************************)
(* "Refresh completed" means that both listings are current, and each      *)
(* scanner behind the Lua API keeps IndexService's promise, whatever       *)
(* commands, callbacks, scans and edits come between.                      *)
(***************************************************************************)
EXTENDS Workspace, TLAPS

\* A scanner that has a workspace and is not listing it has a listing, as of when it was
\* asked or later.
Valid == \A s \in Scanners :
  scan_path[s] # None /\ scan[s] # "listing" => view[s] # None /\ view[s] >= asked[s]

\* What a query has found idle stays idle: nothing is asked of a scanner meanwhile.
QueryInv ==
  /\ call = "query" /\ ~res => \A s \in Scanners : s < at => scan[s] = "idle"
  /\ call = "report" /\ ~res => \A s \in Scanners : scan[s] = "idle"

\* Both scanners have the workspace, but for those that its setup has not come to.
PathInv ==
  /\ setups > 0 => workspace \in Paths
  /\ setups > 0 => \A s \in Scanners :
       (call \notin {"free", "begin"} \/ s < at) => scan_path[s] = workspace

\* Refreshes and their timer come after a setup.
SetupFirst ==
  /\ call # "idle" \/ timer = "running" \/ queued > 0 => setups > 0
  /\ call = "begin" => scan_path[at] = None

\* Each version is no later than the next one here: listed when asked, asked when it was.
Order == \A s \in Scanners :
  /\ asked[s] <= disk
  /\ view[s] # None => view[s] <= disk
  /\ view[s] # None /\ scan[s] = "listing" => view[s] <= asked[s]
  /\ scan_path[s] = None => view[s] = None /\ scan[s] = "idle"

IInv == TypeOK /\ Valid /\ QueryInv /\ PathInv /\ SetupFirst /\ Order

LEMMA Small == Scanners = {SCANNER_GIT, SCANNER_FILES} /\ Scanners \subseteq Nat
  BY DEF Scanners, SCANNER_COUNT, SCANNER_GIT, SCANNER_FILES

LEMMA InitIInv == Init => IInv
<1> SUFFICES ASSUME Init PROVE IInv
  OBVIOUS
<1>1. queued \in 0 .. MaxQueued /\ setups \in 0 .. MaxSetups /\ refreshes \in 0 .. MaxRefreshes
  BY BoundsAssumption DEF Init
<1>2. /\ scan_path \in [Scanners -> Paths \cup {None}]
      /\ view \in [Scanners -> Nat \cup {None}]
      /\ scan \in [Scanners -> {"idle", "listing", "published"}]
      /\ asked \in [Scanners -> Nat]
  BY DEF Init
<1>3. TypeOK
  BY <1>1, <1>2, Small DEF Init, TypeOK, SCANNER_GIT, SCANNER_FILES
<1> QED
  BY <1>3 DEF Init, IInv, Valid, QueryInv, PathInv, SetupFirst, Order

\* A loop goes from the first scanner to the second, or on to what follows it.
LEMMA LoopStep ==
  ASSUME TypeOK, NEW c, NEW then, Loops(c, then)
  PROVE  /\ call = c
         /\ \/ at = 0 /\ at' = 1 /\ call' = c
            \/ at = 1 /\ at' = 0 /\ call' = then
  BY Small DEF TypeOK, Loops, SCANNER_COUNT, SCANNER_GIT, SCANNER_FILES

LEMMA Both == /\ 0 \in Scanners /\ 1 \in Scanners
              /\ \A s \in Scanners : s = 0 \/ s = 1
  BY Small DEF SCANNER_GIT, SCANNER_FILES

LEMMA SetupKeeps ==
  ASSUME IInv, NEW p \in Paths, Setup(p)
  PROVE  IInv'
<1> USE DEF IInv, Setup, Starts, scanners, timing
<1> USE Both
<1>1. TypeOK'
  BY BoundsAssumption DEF TypeOK
<1>2. Valid'
  BY DEF TypeOK, Valid
<1>3. QueryInv'
  BY DEF TypeOK, QueryInv
<1>4. PathInv'
  BY DEF TypeOK, PathInv, SetupFirst
<1>5. SetupFirst'
  BY DEF TypeOK, SetupFirst, PathInv
<1>6. Order'
  BY DEF TypeOK, Order, SetupFirst, Valid
<1> QED
  BY <1>1, <1>2, <1>3, <1>4, <1>5, <1>6 DEF IInv

LEMMA SetupFreeKeeps ==
  ASSUME IInv, SetupFree
  PROVE  IInv'
<1> USE DEF IInv, SetupFree, timing, bounds
<1>1. TypeOK'
  BY BoundsAssumption DEF TypeOK
<1>2. Valid'
  BY DEF TypeOK, Valid
<1>3. QueryInv'
  BY DEF TypeOK, QueryInv
<1>4. PathInv'
  <2>1. at \in Int /\ \A s \in Scanners : s \in Int
    BY Small DEF TypeOK
  <2>2. setups > 0 /\ workspace' = workspace /\ setups' = setups /\ call' = "begin"
    BY DEF SetupFirst
  <2>3. \A s \in Scanners : s < at => scan_path'[s] = workspace
    BY <2>1, <2>2 DEF TypeOK, PathInv
  <2> QED
    BY <2>2, <2>3 DEF PathInv
<1>5. SetupFirst'
  BY DEF TypeOK, SetupFirst, PathInv
<1>6. Order'
  BY DEF TypeOK, Order, SetupFirst, Valid
<1> QED
  BY <1>1, <1>2, <1>3, <1>4, <1>5, <1>6 DEF IInv

LEMMA SetupBeginKeeps ==
  ASSUME IInv, SetupBegin
  PROVE  IInv'
<1> USE DEF IInv, SetupBegin, timing, bounds, SCANNER_COUNT
<1> USE Both
<1>1. TypeOK'
  BY BoundsAssumption DEF TypeOK
<1>2. Valid'
  BY DEF TypeOK, Valid
<1>3. QueryInv'
  BY DEF TypeOK, QueryInv
<1>4. PathInv'
  BY DEF TypeOK, PathInv, SetupFirst
<1>5. SetupFirst'
  BY DEF TypeOK, SetupFirst, PathInv
<1>6. Order'
  <2> SUFFICES ASSUME NEW s \in Scanners
               PROVE  /\ asked'[s] <= disk'
                      /\ view'[s] # None => view'[s] <= disk'
                      /\ view'[s] # None /\ scan'[s] = "listing" => view'[s] <= asked'[s]
                      /\ scan_path'[s] = None => view'[s] = None /\ scan'[s] = "idle"
    BY DEF Order
  <2>1. CASE s = at
    BY <2>1, PathsAssumption DEF TypeOK, Order, SetupFirst, PathInv
  <2>2. CASE s # at
    BY <2>2 DEF TypeOK, Order
  <2> QED
    BY <2>1, <2>2
<1> QED
  BY <1>1, <1>2, <1>3, <1>4, <1>5, <1>6 DEF IInv

LEMMA RefreshKeeps ==
  ASSUME IInv, Refresh
  PROVE  IInv'
<1> USE DEF IInv, Refresh, Starts, scanners, timing
<1> USE Both
<1>1. TypeOK'
  BY BoundsAssumption DEF TypeOK
<1>2. Valid'
  BY DEF TypeOK, Valid
<1>3. QueryInv'
  BY DEF TypeOK, QueryInv
<1>4. PathInv'
  BY DEF TypeOK, PathInv, SetupFirst
<1>5. SetupFirst'
  BY DEF TypeOK, SetupFirst, PathInv
<1>6. Order'
  BY DEF TypeOK, Order, SetupFirst, Valid
<1> QED
  BY <1>1, <1>2, <1>3, <1>4, <1>5, <1>6 DEF IInv

LEMMA RefreshScannerKeeps ==
  ASSUME IInv, RefreshScanner
  PROVE  IInv'
<1> USE DEF IInv, RefreshScanner, scan_in_progress, timing, bounds
<1>0. /\ call = "refresh"
      /\ \/ at = 0 /\ at' = 1 /\ call' = "refresh"
         \/ at = 1 /\ at' = 0 /\ call' = "refreshing"
  BY LoopStep
<1> USE <1>0, Both
<1>1. TypeOK'
  BY BoundsAssumption DEF TypeOK
<1>2. Valid'
  BY DEF TypeOK, Valid
<1>3. QueryInv'
  BY DEF TypeOK, QueryInv
<1>4. PathInv'
  BY DEF TypeOK, PathInv, SetupFirst
<1>5. SetupFirst'
  BY DEF TypeOK, SetupFirst, PathInv
<1>6. Order'
  <2> SUFFICES ASSUME NEW s \in Scanners
               PROVE  /\ asked'[s] <= disk'
                      /\ view'[s] # None => view'[s] <= disk'
                      /\ view'[s] # None /\ scan'[s] = "listing" => view'[s] <= asked'[s]
                      /\ scan_path'[s] = None => view'[s] = None /\ scan'[s] = "idle"
    BY DEF Order
  <2>1. CASE s = at
    BY <2>1, PathsAssumption DEF TypeOK, Order, SetupFirst, PathInv
  <2>2. CASE s # at
    BY <2>2 DEF TypeOK, Order
  <2> QED
    BY <2>1, <2>2
<1> QED
  BY <1>1, <1>2, <1>3, <1>4, <1>5, <1>6 DEF IInv

LEMMA StartRefreshTimerKeeps ==
  ASSUME IInv, StartRefreshTimer
  PROVE  IInv'
<1> USE DEF IInv, StartRefreshTimer, scanners, bounds
<1>1. TypeOK'
  BY BoundsAssumption DEF TypeOK
<1>2. Valid'
  BY DEF TypeOK, Valid
<1>3. QueryInv'
  BY DEF TypeOK, QueryInv
<1>4. PathInv'
  BY DEF TypeOK, PathInv, SetupFirst
<1>5. SetupFirst'
  BY DEF TypeOK, SetupFirst, PathInv
<1>6. Order'
  BY DEF TypeOK, Order, SetupFirst, Valid
<1> QED
  BY <1>1, <1>2, <1>3, <1>4, <1>5, <1>6 DEF IInv

LEMMA TimerFiresKeeps ==
  ASSUME IInv, TimerFires
  PROVE  IInv'
<1> USE DEF IInv, TimerFires, loop, scanners, bounds
<1>1. TypeOK'
  BY BoundsAssumption DEF TypeOK
<1>2. Valid'
  BY DEF TypeOK, Valid
<1>3. QueryInv'
  BY DEF TypeOK, QueryInv
<1>4. PathInv'
  BY DEF TypeOK, PathInv, SetupFirst
<1>5. SetupFirst'
  BY DEF TypeOK, SetupFirst, PathInv
<1>6. Order'
  BY DEF TypeOK, Order, SetupFirst, Valid
<1> QED
  BY <1>1, <1>2, <1>3, <1>4, <1>5, <1>6 DEF IInv

LEMMA CallbackKeeps ==
  ASSUME IInv, Callback
  PROVE  IInv'
<1> USE DEF IInv, Callback, Starts, scanners, bounds
<1> USE Both
<1>1. TypeOK'
  <2>1. queued' \in 0 .. MaxQueued
    BY BoundsAssumption DEF TypeOK
  <2>2. at' \in Scanners /\ call' = "query"
    OBVIOUS
  <2> QED
    BY <2>1, <2>2 DEF TypeOK
<1>2. Valid'
  BY DEF TypeOK, Valid
<1>3. QueryInv'
  BY DEF TypeOK, QueryInv
<1>4. PathInv'
  BY DEF TypeOK, PathInv, SetupFirst
<1>5. SetupFirst'
  BY DEF TypeOK, SetupFirst, PathInv
<1>6. Order'
  BY DEF TypeOK, Order, SetupFirst, Valid
<1> QED
  BY <1>1, <1>2, <1>3, <1>4, <1>5, <1>6 DEF IInv

LEMMA QueryScannerKeeps ==
  ASSUME IInv, QueryScanner
  PROVE  IInv'
<1> USE DEF IInv, QueryScanner, scan_in_progress, scanners, timing, bounds
<1>0. /\ call = "query"
      /\ \/ at = 0 /\ at' = 1 /\ call' = "query"
         \/ at = 1 /\ at' = 0 /\ call' = "report"
  BY LoopStep
<1> USE <1>0, Both
<1>1. TypeOK'
  BY BoundsAssumption DEF TypeOK
<1>2. Valid'
  BY DEF TypeOK, Valid
<1>3. QueryInv'
  <2>1. CASE res \/ scan[at] # "idle"
    <3>1. res'
      BY <2>1
    <3> QED
      BY <3>1 DEF QueryInv
  <2>2. CASE ~res /\ scan[at] = "idle"
    <3>1. \A s \in Scanners : s < at \/ s = at => scan'[s] = "idle"
      BY <2>2 DEF QueryInv
    <3> QED
      BY <3>1 DEF QueryInv
  <2> QED
    BY <2>1, <2>2
<1>4. PathInv'
  BY DEF TypeOK, PathInv, SetupFirst
<1>5. SetupFirst'
  BY DEF TypeOK, SetupFirst, PathInv
<1>6. Order'
  BY DEF TypeOK, Order, SetupFirst, Valid
<1> QED
  BY <1>1, <1>2, <1>3, <1>4, <1>5, <1>6 DEF IInv

LEMMA ReportKeeps ==
  ASSUME IInv, Report
  PROVE  IInv'
<1> USE DEF IInv, Report, StopRefreshTimer, scanners, bounds
<1>1. TypeOK'
  BY BoundsAssumption DEF TypeOK
<1>2. Valid'
  BY DEF TypeOK, Valid
<1>3. QueryInv'
  BY DEF TypeOK, QueryInv
<1>4. PathInv'
  BY DEF TypeOK, PathInv, SetupFirst
<1>5. SetupFirst'
  BY DEF TypeOK, SetupFirst, PathInv
<1>6. Order'
  BY DEF TypeOK, Order, SetupFirst, Valid
<1> QED
  BY <1>1, <1>2, <1>3, <1>4, <1>5, <1>6 DEF IInv

LEMMA PublishKeeps ==
  ASSUME IInv, NEW s \in Scanners, Publish(s)
  PROVE  IInv'
<1> USE DEF IInv, Publish, loop, timing, bounds
<1>1. TypeOK'
  BY BoundsAssumption DEF TypeOK
<1>2. Valid'
  <2>1. PICK v \in asked[s] .. disk : view' = [view EXCEPT ![s] = v]
    OBVIOUS
  <2>2. v \in Int /\ v >= asked[s] /\ v # None
    BY <2>1, PathsAssumption DEF TypeOK
  <2> QED
    BY <2>1, <2>2 DEF TypeOK, Valid
<1>3. QueryInv'
  BY DEF TypeOK, QueryInv
<1>4. PathInv'
  BY DEF TypeOK, PathInv, SetupFirst
<1>5. SetupFirst'
  BY DEF TypeOK, SetupFirst, PathInv
<1>6. Order'
  BY DEF TypeOK, Order, SetupFirst, Valid
<1> QED
  BY <1>1, <1>2, <1>3, <1>4, <1>5, <1>6 DEF IInv

LEMMA FinishKeeps ==
  ASSUME IInv, NEW s \in Scanners, Finish(s)
  PROVE  IInv'
<1> USE DEF IInv, Finish, loop, timing, bounds
<1>1. TypeOK'
  BY BoundsAssumption DEF TypeOK
<1>2. Valid'
  BY DEF TypeOK, Valid
<1>3. QueryInv'
  BY DEF TypeOK, QueryInv
<1>4. PathInv'
  BY DEF TypeOK, PathInv, SetupFirst
<1>5. SetupFirst'
  BY DEF TypeOK, SetupFirst, PathInv
<1>6. Order'
  BY DEF TypeOK, Order, SetupFirst, Valid
<1> QED
  BY <1>1, <1>2, <1>3, <1>4, <1>5, <1>6 DEF IInv

LEMMA EditKeeps ==
  ASSUME IInv, Edit
  PROVE  IInv'
<1> USE DEF IInv, Edit, loop, scanners, timing, bounds
<1>1. TypeOK'
  BY BoundsAssumption DEF TypeOK
<1>2. Valid'
  BY DEF TypeOK, Valid
<1>3. QueryInv'
  BY DEF TypeOK, QueryInv
<1>4. PathInv'
  BY DEF TypeOK, PathInv, SetupFirst
<1>5. SetupFirst'
  BY DEF TypeOK, SetupFirst, PathInv
<1>6. Order'
  BY DEF TypeOK, Order, SetupFirst, Valid
<1> QED
  BY <1>1, <1>2, <1>3, <1>4, <1>5, <1>6 DEF IInv

\* Every step keeps the invariant.
LEMMA StepIInv == IInv /\ [Next]_vars => IInv'
<1> SUFFICES ASSUME IInv, [Next]_vars PROVE IInv'
  OBVIOUS
<1>1. CASE UNCHANGED vars
  BY <1>1 DEF vars, IInv, TypeOK, Valid, QueryInv, PathInv, SetupFirst, Order,
              loop, scanners, timing, bounds
<1>2. CASE Command
  BY <1>2, SetupKeeps, RefreshKeeps DEF Command
<1>3. CASE CallStep
  BY <1>3, SetupFreeKeeps, SetupBeginKeeps, RefreshScannerKeeps, StartRefreshTimerKeeps,
     QueryScannerKeeps, ReportKeeps DEF CallStep
<1>4. CASE TimerFires \/ Callback \/ Edit
  BY <1>4, TimerFiresKeeps, CallbackKeeps, EditKeeps
<1>5. CASE \E s \in Scanners : Publish(s) \/ Finish(s)
  BY <1>5, PublishKeeps, FinishKeeps
<1> QED
  BY <1>1, <1>2, <1>3, <1>4, <1>5 DEF Next

-----------------------------------------------------------------------------
\* What the query has found of each scanner is still so when it reports.
THEOREM Invariance == SafetySpec => []IInv
  BY InitIInv, StepIInv, PTL DEF SafetySpec

\* No timer handle is left behind, and the loops stay within the scanners.
THEOREM TypeCorrect == Spec => []TypeOK
<1>1. IInv => TypeOK
  BY DEF IInv
<1> QED
  BY Invariance, <1>1, PTL DEF Spec

\* "Refresh completed" is said with both listings current (init.lua:113, main.c:1944).
THEOREM CompletedIsCurrent == Spec => []CompletedMeansCurrent
<1>1. IInv => CompletedMeansCurrent
  <2> SUFFICES ASSUME IInv, call = "report", ~res, NEW s \in Scanners
               PROVE  /\ scan[s] = "idle" /\ scan_path[s] = workspace
                      /\ view[s] # None /\ view[s] >= asked[s]
    BY DEF CompletedMeansCurrent
  <2>1. scan[s] = "idle"
    BY DEF IInv, QueryInv
  <2>2. scan_path[s] = workspace /\ workspace # None
    BY PathsAssumption DEF IInv, PathInv, SetupFirst
  <2> QED
    BY <2>1, <2>2 DEF IInv, Valid
<1> QED
  BY Invariance, <1>1, PTL DEF Spec
-----------------------------------------------------------------------------
\* What a step is to one scanner: nothing, or a step of the service.
SameFor(s) == UNCHANGED <<scan_path[s], view[s], disk>>

Serves(s) ==
  \/ SameFor(s) /\ asked'[s] = asked[s]
  \/ /\ scan_path[s] = None /\ view[s] = None
     /\ scan_path'[s] \in Paths /\ asked'[s] = disk
     /\ UNCHANGED <<view[s], disk>>
  \/ scan_path[s] # None /\ asked'[s] = disk /\ SameFor(s)
  \/ /\ scan_path[s] # None
     /\ \E v \in asked[s] .. disk :
          (view[s] # None => view[s] <= v) /\ v # None /\ view'[s] = v
     /\ UNCHANGED <<scan_path[s], asked[s], disk>>
  \/ /\ scan_path[s] # None /\ scan_path'[s] = None /\ view'[s] = None
     /\ UNCHANGED <<asked[s], disk>>
  \/ disk' = disk + 1 /\ UNCHANGED <<scan_path[s], view[s], asked[s]>>

LEMMA StepServes ==
  ASSUME IInv, [Next]_vars, NEW s \in Scanners
  PROVE  Serves(s)
<1>0. TypeOK
  BY DEF IInv
<1>1. CASE UNCHANGED <<scanners, disk>>
  BY <1>1 DEF Serves, SameFor, scanners
<1>2. CASE SetupFree
  <2>1. CASE s # at \/ scan_path[s] = None
    BY <1>0, <1>2, <2>1 DEF SetupFree, Serves, SameFor, IInv, Order, TypeOK
  <2>2. CASE s = at /\ scan_path[s] # None
    BY <1>0, <1>2, <2>2 DEF SetupFree, Serves, TypeOK
  <2> QED
    BY <2>1, <2>2
<1>3. CASE SetupBegin
  <2>1. CASE s # at
    BY <1>0, <1>3, <2>1 DEF SetupBegin, Serves, SameFor, TypeOK
  <2>2. CASE s = at
    <3>1. scan_path[s] = None /\ view[s] = None /\ workspace \in Paths
      BY <1>3, <2>2 DEF SetupBegin, IInv, SetupFirst, Order, PathInv
    <3> QED
      BY <1>0, <1>3, <2>2, <3>1 DEF SetupBegin, Serves, TypeOK
  <2> QED
    BY <2>1, <2>2
<1>4. CASE RefreshScanner
  <2>1. CASE s # at \/ scan_in_progress(at)
    BY <1>0, <1>4, <2>1 DEF RefreshScanner, Serves, SameFor, TypeOK
  <2>2. CASE s = at /\ ~scan_in_progress(at)
    <3>1. call = "refresh"
      BY <1>0, <1>4, LoopStep DEF RefreshScanner
    <3>2. scan_path[s] # None
      BY <3>1, PathsAssumption DEF IInv, SetupFirst, PathInv
    <3> QED
      BY <1>0, <1>4, <2>2, <3>2 DEF RefreshScanner, Serves, SameFor, TypeOK
  <2> QED
    BY <2>1, <2>2
<1>5. ASSUME NEW t \in Scanners, Publish(t) PROVE Serves(s)
  <2>1. CASE s # t
    BY <1>0, <1>5, <2>1 DEF Publish, Serves, SameFor, TypeOK
  <2>2. CASE s = t
    <3>1. PICK v \in asked[s] .. disk : view' = [view EXCEPT ![s] = v]
      BY <1>5, <2>2 DEF Publish
    <3>2. v # None /\ asked[s] \in Nat /\ asked[s] <= v
      BY <1>0, <3>1, PathsAssumption DEF TypeOK
    <3>3. view[s] # None => view[s] \in Nat /\ view[s] <= asked[s]
      BY <1>0, <1>5, <2>2 DEF Publish, IInv, Order, TypeOK
    <3>4. view[s] # None => view[s] <= v
      BY <3>2, <3>3, <1>0 DEF TypeOK
    <3>5. scan_path[s] # None
      BY <1>5, <2>2 DEF Publish, IInv, Order
    <3>6. view'[s] = v
      BY <1>0, <3>1 DEF TypeOK
    <3> QED
      BY <1>5, <3>1, <3>2, <3>4, <3>5, <3>6 DEF Publish, Serves
  <2> QED
    BY <2>1, <2>2
<1>6. ASSUME NEW t \in Scanners, Finish(t) PROVE Serves(s)
  BY <1>6 DEF Finish, Serves, SameFor
<1>7. CASE Edit
  BY <1>7 DEF Edit, Serves, scanners
<1>8. CASE \/ Command \/ StartRefreshTimer \/ QueryScanner \/ Report \/ TimerFires \/ Callback
           \/ UNCHANGED vars
  BY <1>1, <1>8 DEF Command, Setup, Refresh, StartRefreshTimer, QueryScanner, Report,
                    TimerFires, Callback, vars
<1> QED
  BY <1>2, <1>3, <1>4, <1>5, <1>6, <1>7, <1>8 DEF Next, CallStep

LEMMA GitStep == IInv /\ [Next]_vars => [Git!Next]_(Git!vars)
<1> SUFFICES ASSUME IInv, [Next]_vars PROVE [Git!Next]_(Git!vars)
  OBVIOUS
<1> DEFINE s == SCANNER_GIT
<1>1. s \in Scanners /\ Serves(s)
  BY Small, StepServes
<1>2. CASE SameFor(s) /\ asked'[s] = asked[s]
  BY <1>2 DEF SameFor, Listed, Git!vars
<1>3. CASE /\ scan_path[s] = None /\ view[s] = None
           /\ scan_path'[s] \in Paths /\ asked'[s] = disk
           /\ UNCHANGED <<view[s], disk>>
  BY <1>3 DEF Listed, Git!Next, Git!Enter
<1>4. CASE scan_path[s] # None /\ asked'[s] = disk /\ SameFor(s)
  BY <1>4 DEF SameFor, Listed, Git!Next, Git!Request
<1>5. CASE /\ scan_path[s] # None
           /\ \E v \in asked[s] .. disk :
                (view[s] # None => view[s] <= v) /\ v # None /\ view'[s] = v
           /\ UNCHANGED <<scan_path[s], asked[s], disk>>
  <2>1. PICK v \in asked[s] .. disk :
          (view[s] # None => view[s] <= v) /\ v # None /\ view'[s] = v
    BY <1>5
  <2>2. Listed(s) # None => Listed(s).ver <= v
    BY <2>1 DEF Listed
  <2>3. Listed(s)' = [path |-> scan_path[s], ver |-> v, whole |-> TRUE]
    BY <1>5, <2>1 DEF Listed
  <2>4. Git!Publish(v)
    BY <1>5, <2>1, <2>2, <2>3 DEF Git!Publish, Git!Listing
  <2> QED
    BY <2>1, <2>4 DEF Git!Next
<1>6. CASE /\ scan_path[s] # None /\ scan_path'[s] = None /\ view'[s] = None
           /\ UNCHANGED <<asked[s], disk>>
  BY <1>6 DEF Listed, Git!Next, Git!Leave
<1>7. CASE disk' = disk + 1 /\ UNCHANGED <<scan_path[s], view[s], asked[s]>>
  BY <1>7 DEF Listed, Git!Next, Git!Tick
<1> QED
  BY <1>1, <1>2, <1>3, <1>4, <1>5, <1>6, <1>7 DEF Serves

LEMMA FilesStep == IInv /\ [Next]_vars => [Files!Next]_(Files!vars)
<1> SUFFICES ASSUME IInv, [Next]_vars PROVE [Files!Next]_(Files!vars)
  OBVIOUS
<1> DEFINE s == SCANNER_FILES
<1>1. s \in Scanners /\ Serves(s)
  BY Small, StepServes
<1>2. CASE SameFor(s) /\ asked'[s] = asked[s]
  BY <1>2 DEF SameFor, Listed, Files!vars
<1>3. CASE /\ scan_path[s] = None /\ view[s] = None
           /\ scan_path'[s] \in Paths /\ asked'[s] = disk
           /\ UNCHANGED <<view[s], disk>>
  BY <1>3 DEF Listed, Files!Next, Files!Enter
<1>4. CASE scan_path[s] # None /\ asked'[s] = disk /\ SameFor(s)
  BY <1>4 DEF SameFor, Listed, Files!Next, Files!Request
<1>5. CASE /\ scan_path[s] # None
           /\ \E v \in asked[s] .. disk :
                (view[s] # None => view[s] <= v) /\ v # None /\ view'[s] = v
           /\ UNCHANGED <<scan_path[s], asked[s], disk>>
  <2>1. PICK v \in asked[s] .. disk :
          (view[s] # None => view[s] <= v) /\ v # None /\ view'[s] = v
    BY <1>5
  <2>2. Listed(s) # None => Listed(s).ver <= v
    BY <2>1 DEF Listed
  <2>3. Listed(s)' = [path |-> scan_path[s], ver |-> v, whole |-> TRUE]
    BY <1>5, <2>1 DEF Listed
  <2>4. Files!Publish(v)
    BY <1>5, <2>1, <2>2, <2>3 DEF Files!Publish, Files!Listing
  <2> QED
    BY <2>1, <2>4 DEF Files!Next
<1>6. CASE /\ scan_path[s] # None /\ scan_path'[s] = None /\ view'[s] = None
           /\ UNCHANGED <<asked[s], disk>>
  BY <1>6 DEF Listed, Files!Next, Files!Leave
<1>7. CASE disk' = disk + 1 /\ UNCHANGED <<scan_path[s], view[s], asked[s]>>
  BY <1>7 DEF Listed, Files!Next, Files!Tick
<1> QED
  BY <1>1, <1>2, <1>3, <1>4, <1>5, <1>6, <1>7 DEF Serves

\* Behind the API each scanner does what IndexService promises, but for its liveness.
THEOREM RefinesServices == SafetySpec => Git!SafetySpec /\ Files!SafetySpec
<1>1. Init => Git!Init /\ Files!Init
  BY Small DEF Init, Listed, Git!Init, Files!Init
<1> QED
  BY <1>1, Invariance, GitStep, FilesStep, PTL DEF SafetySpec, Git!SafetySpec, Files!SafetySpec
=============================================================================
