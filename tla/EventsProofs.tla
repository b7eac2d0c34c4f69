---------------------------- MODULE EventsProofs ----------------------------
(***************************************************************************)
(* The two events of main.c, for any number of threads: the mutex excludes,*)
(* no wakeup is lost, and the calls take effect atomically, as Event says. *)
(***************************************************************************)
EXTENDS Events, TLAPS

IInv == TypeOK /\ NoLostWakeup

\* The event is created unlocked, with nobody in a call.
LEMMA InitIInv == Init => IInv
  BY ThreadsAssumption
     DEF Init, IInv, TypeOK, NoLostWakeup, Critical, SetterPcs, WaiterPcs, Threads, Asleep

\* The mutex excludes, and every thread stays in the code it runs.
LEMMA StepType == TypeOK /\ [Next]_vars => TypeOK'
<1> SUFFICES ASSUME TypeOK, [Next]_vars PROVE TypeOK'
  OBVIOUS
<1> USE ThreadsAssumption DEF SetterPcs, WaiterPcs
<1>1. CASE UNCHANGED vars
  BY <1>1 DEF vars, TypeOK, Critical
<1>2. ASSUME NEW t \in Threads, Call(t) PROVE TypeOK'
  BY <1>2 DEF TypeOK, Critical, Call, SetCall, ResetCall, WaitCall, Goes, Threads
<1>3. ASSUME NEW t \in Threads, Locks(t) PROVE TypeOK'
  BY <1>3 DEF TypeOK, Critical, Locks, WaitLock, Relock, SetLock, ResetLock, Goes, Lock, Threads
<1>4. ASSUME NEW t \in Threads, Moves(t) PROVE TypeOK'
  <2>1. CASE WaitPass(t)
    BY <2>1 DEF TypeOK, Critical, WaitPass, Goes, Threads
  <2>2. CASE Sleep(t)
    BY <2>2 DEF TypeOK, Critical, Sleep, Goes, Unlock, Threads
  <2>3. CASE WaitUnlock(t)
    BY <2>3 DEF TypeOK, Critical, WaitUnlock, Goes, Unlock, Threads
  <2>4. CASE Set(t)
    BY <2>4 DEF TypeOK, Critical, Set, Goes, Threads
  <2>5. CASE SetUnlock(t)
    BY <2>5 DEF TypeOK, Critical, SetUnlock, Goes, Unlock, Threads
  <2>6. CASE Signal(t)
    <3>1. auto_reset /\ \E W \in SUBSET Asleep : Wakes(t, W)
      BY <2>6 DEF Signal
    <3>2. PICK W \in SUBSET Asleep : Wakes(t, W)
      BY <3>1
    <3> QED
      BY <3>1, <3>2 DEF TypeOK, Critical, Wakes, Asleep, Threads
  <2>7. CASE Broadcast(t)
    BY <2>7 DEF TypeOK, Critical, Broadcast, Wakes, Asleep, Threads
  <2>8. CASE Reset(t)
    BY <2>8 DEF TypeOK, Critical, Reset, Goes, Threads
  <2>9. CASE ResetUnlock(t)
    BY <2>9 DEF TypeOK, Critical, ResetUnlock, Goes, Unlock, Threads
  <2> QED
    BY <1>4, <2>1, <2>2, <2>3, <2>4, <2>5, <2>6, <2>7, <2>8, <2>9 DEF Moves
<1>5. ASSUME NEW t \in Threads, SpuriousWakeup(t) PROVE TypeOK'
  BY <1>5 DEF TypeOK, Critical, SpuriousWakeup, Goes, Threads
<1> QED
  BY <1>1, <1>2, <1>3, <1>4, <1>5 DEF Next

\* A signal that finds sleepers has somebody to see to them.
Helps(t) == pc[t] = "notify" \/ (auto_reset /\ pc[t] \in {"set_unlock", "relock", "test"})

LEMMA StepWakeup == IInv /\ [Next]_vars => NoLostWakeup'
<1> SUFFICES ASSUME IInv, [Next]_vars, signaled', Asleep' # {}
             PROVE  \E u \in Threads : Helps(u)'
  BY DEF NoLostWakeup, Helps
<1> USE ThreadsAssumption
<1>a. TypeOK /\ (signaled /\ Asleep # {} => \E u \in Threads : Helps(u))
  BY DEF IInv, NoLostWakeup, Helps
<1>1. CASE UNCHANGED vars
  BY <1>a, <1>1 DEF vars, Asleep, Helps
<1>2. ASSUME NEW t \in Threads, Call(t) PROVE \E u \in Threads : Helps(u)'
  BY <1>a, <1>2 DEF TypeOK, Call, SetCall, ResetCall, WaitCall, Goes, Asleep, Helps
<1>3. ASSUME NEW t \in Threads, Locks(t) PROVE \E u \in Threads : Helps(u)'
  BY <1>a, <1>3 DEF TypeOK, Locks, WaitLock, Relock, SetLock, ResetLock, Goes, Asleep, Helps
<1>4. ASSUME NEW t \in Threads, Moves(t) PROVE \E u \in Threads : Helps(u)'
  <2>1. CASE WaitPass(t) \/ Sleep(t) \/ WaitUnlock(t)
    BY <1>a, <2>1 DEF TypeOK, WaitPass, Sleep, WaitUnlock, Goes, Asleep, Helps
  <2>2. CASE Set(t) \/ SetUnlock(t)
    BY <1>a, <2>2 DEF TypeOK, Set, SetUnlock, Goes, Asleep, Helps
  <2>3. CASE Signal(t)
    BY <1>a, <2>3 DEF TypeOK, Signal, Wakes, Asleep, Helps
  <2>4. CASE Broadcast(t)
    BY <1>a, <2>4 DEF TypeOK, Broadcast, Wakes, Asleep, Helps
  <2>5. CASE Reset(t) \/ ResetUnlock(t)
    BY <1>a, <2>5 DEF TypeOK, Reset, ResetUnlock, Goes, Asleep, Helps
  <2> QED
    BY <1>4, <2>1, <2>2, <2>3, <2>4, <2>5 DEF Moves
<1>5. ASSUME NEW t \in Threads, SpuriousWakeup(t) PROVE \E u \in Threads : Helps(u)'
  BY <1>a, <1>5 DEF TypeOK, SpuriousWakeup, Goes, Asleep, Helps
<1> QED
  BY <1>1, <1>2, <1>3, <1>4, <1>5 DEF Next

\* The invariant holds in every reachable state.
THEOREM Invariance == SafetySpec => []IInv
<1>1. IInv /\ [Next]_vars => IInv'
  BY StepType, StepWakeup DEF IInv
<1> QED
  BY InitIInv, <1>1, PTL DEF SafetySpec

\* The mutex of an event excludes, whatever the number of threads.
THEOREM TypeCorrect == SafetySpec => []TypeOK
  BY Invariance, PTL DEF IInv

\* No thread sleeps on while the event is signaled and nobody is about to wake it.
THEOREM WakeupsArrive == SafetySpec => []NoLostWakeup
  BY Invariance, PTL DEF IInv
-----------------------------------------------------------------------------
(***************************************************************************)
(* Refinement.                                                             *)
(***************************************************************************)

\* When a thread moves, callBar changes for it and for nobody else.
LEMMA CallMoves ==
  ASSUME NEW t \in Threads, NEW from, NEW to, TypeOK, Goes(t, from, to)
  PROVE  callBar' = [callBar EXCEPT ![t] = callBar'[t]]
<1> pc' = [pc EXCEPT ![t] = to] /\ DOMAIN pc = Threads
  BY DEF Goes, TypeOK
<1>1. \A u \in Threads \ {t} : pc'[u] = pc[u]
  OBVIOUS
<1>2. \A u \in Threads \ {t} : callBar'[u] = callBar[u]
  BY <1>1 DEF callBar
<1>3. callBar' = [u \in Threads |-> callBar'[u]] /\ callBar = [u \in Threads |-> callBar[u]]
  BY DEF callBar
<1> QED
  BY <1>2, <1>3

\* A created event is an event.
LEMMA EventInit == Init => Abstract!Init
  BY DEF Init, Abstract!Init, callBar

\* Every step is a step of Event or changes nothing that Event knows.
LEMMA EventStep == TypeOK /\ [Next]_vars => [Abstract!Next]_(Abstract!vars)
<1> SUFFICES ASSUME TypeOK, [Next]_vars PROVE Abstract!Next \/ UNCHANGED <<auto_reset, signaled, callBar>>
  BY DEF Abstract!vars
<1> USE ThreadsAssumption DEF SetterPcs, WaiterPcs
<1>1. CASE UNCHANGED vars
  BY <1>1 DEF vars, callBar
<1>2. ASSUME NEW t \in Threads, Call(t) PROVE Abstract!Next
  <2>1. PICK to \in {"set_lock", "reset_lock", "wait_lock"} :
          Goes(t, "idle", to) /\ UNCHANGED signaled
    BY <1>2 DEF Call, SetCall, ResetCall, WaitCall
  <2>2. callBar' = [callBar EXCEPT ![t] = callBar'[t]]
    BY <2>1, CallMoves
  <2>3. callBar[t] = "none" /\ callBar'[t] \in {"wait", "set", "reset"}
    BY <2>1 DEF callBar, Goes, TypeOK
  <2> QED
    BY <2>1, <2>2, <2>3 DEF Goes, Abstract!Next, Abstract!Start, Abstract!Moves
<1>3. ASSUME NEW t \in Threads, Locks(t) PROVE UNCHANGED <<auto_reset, signaled, callBar>>
  BY <1>3 DEF Locks, WaitLock, Relock, SetLock, ResetLock, Goes, TypeOK, callBar
<1>4. ASSUME NEW t \in Threads, Moves(t) PROVE Abstract!Next \/ UNCHANGED <<auto_reset, signaled, callBar>>
  <2>1. CASE WaitPass(t)
    <3>1. callBar' = [callBar EXCEPT ![t] = callBar'[t]]
      BY <2>1, CallMoves DEF WaitPass
    <3>2. callBar[t] = "wait" /\ callBar'[t] = "done"
      BY <2>1 DEF WaitPass, callBar, Goes, TypeOK
    <3> QED
      BY <2>1, <3>1, <3>2 DEF WaitPass, Goes, Abstract!Next, Abstract!Wait, Abstract!Moves
  <2>2. CASE Sleep(t)
    BY <2>2 DEF Sleep, Goes, TypeOK, callBar
  <2>3. CASE WaitUnlock(t) \/ ResetUnlock(t)
    <3>1. callBar' = [callBar EXCEPT ![t] = callBar'[t]]
      BY <2>3, CallMoves DEF WaitUnlock, ResetUnlock
    <3>2. callBar[t] = "done" /\ callBar'[t] = "none"
      BY <2>3 DEF WaitUnlock, ResetUnlock, callBar, Goes, TypeOK
    <3> QED
      BY <2>3, <3>1, <3>2
         DEF WaitUnlock, ResetUnlock, Goes, Abstract!Next, Abstract!Return, Abstract!Moves
  <2>4. CASE Set(t)
    <3>1. callBar' = [callBar EXCEPT ![t] = callBar'[t]]
      BY <2>4, CallMoves DEF Set
    <3>2. callBar[t] = "set" /\ callBar'[t] = "done"
      BY <2>4 DEF Set, callBar, Goes, TypeOK
    <3> QED
      BY <2>4, <3>1, <3>2 DEF Set, Goes, Abstract!Next, Abstract!Set, Abstract!Moves
  <2>5. CASE SetUnlock(t)
    <3>1. callBar' = [callBar EXCEPT ![t] = callBar'[t]]
      BY <2>5, CallMoves DEF SetUnlock
    <3>2. callBar[t] = "done" /\ callBar'[t] = (IF auto_reset THEN "done" ELSE "none")
      BY <2>5 DEF SetUnlock, callBar, Goes, TypeOK
    <3>3. CASE auto_reset
      BY <2>5, <3>1, <3>2, <3>3 DEF SetUnlock, Goes, callBar
    <3>4. CASE ~auto_reset
      BY <2>5, <3>1, <3>2, <3>4 DEF SetUnlock, Goes, Abstract!Next, Abstract!Return, Abstract!Moves
    <3> QED
      BY <3>3, <3>4
  <2>6. CASE Signal(t) \/ Broadcast(t)
    <3>1. PICK W \in SUBSET Asleep : Wakes(t, W)
      BY <2>6 DEF Signal, Broadcast
    <3>2. \A u \in Threads \ {t} : callBar'[u] = callBar[u]
      BY <3>1 DEF Wakes, Asleep, callBar
    <3>3. callBar[t] = "done" /\ callBar'[t] = (IF auto_reset THEN "none" ELSE "done")
      BY <3>1 DEF Wakes, callBar
    <3>4. callBar' = [callBar EXCEPT ![t] = callBar'[t]]
      <4>1. callBar' = [u \in Threads |-> callBar'[u]] /\ callBar = [u \in Threads |-> callBar[u]]
        BY DEF callBar
      <4> QED
        BY <3>2, <4>1
    <3>5. CASE auto_reset
      BY <3>1, <3>3, <3>4, <3>5 DEF Wakes, Abstract!Next, Abstract!Return, Abstract!Moves
    <3>6. CASE ~auto_reset
      BY <3>1, <3>3, <3>4, <3>6 DEF Wakes, callBar
    <3> QED
      BY <3>5, <3>6
  <2>7. CASE Reset(t)
    <3>0. ~auto_reset
      BY <2>7 DEF Reset, Goes, TypeOK, Threads
    <3>1. callBar' = [callBar EXCEPT ![t] = callBar'[t]]
      BY <2>7, CallMoves DEF Reset
    <3>2. callBar[t] = "reset" /\ callBar'[t] = "done"
      BY <2>7 DEF Reset, callBar, Goes, TypeOK
    <3> QED
      BY <2>7, <3>0, <3>1, <3>2 DEF Reset, Goes, Abstract!Next, Abstract!Reset, Abstract!Moves
  <2> QED
    BY <1>4, <2>1, <2>2, <2>3, <2>4, <2>5, <2>6, <2>7 DEF Moves
<1>5. ASSUME NEW t \in Threads, SpuriousWakeup(t) PROVE UNCHANGED <<auto_reset, signaled, callBar>>
  BY <1>5 DEF SpuriousWakeup, Goes, TypeOK, callBar
<1> QED
  BY <1>1, <1>2, <1>3, <1>4, <1>5 DEF Next

\* Built from a mutex and a condition variable, the calls are the atomic ones that the
\* scanner's model uses.
THEOREM RefinesEvent == SafetySpec => Abstract!SafetySpec
<1>1. IInv /\ [Next]_vars => [Abstract!Next]_(Abstract!vars)
  BY EventStep DEF IInv
<1> QED
  BY EventInit, Invariance, <1>1, PTL DEF SafetySpec, Abstract!SafetySpec
=============================================================================
