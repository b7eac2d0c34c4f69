------------------------------- MODULE Events -------------------------------
(***************************************************************************)
(* The auto-reset and the manual-reset event that main.c builds, where     *)
(* there is no Windows, from a pthread mutex, a condition variable and a   *)
(* flag.  An auto-reset event signals the condition after it has released  *)
(* the mutex, a manual-reset event broadcasts while it holds it.           *)
(*                                                                         *)
(* pthread_cond_wait releases the mutex and goes to sleep in one step; a   *)
(* sleeping thread may wake up without cause (POSIX allows it) and has to  *)
(* get the mutex back before pthread_cond_wait returns.                    *)
(***************************************************************************)
CONSTANTS
  Setters, Waiters,  \* the threads that set (and reset) the event, and wait for it
  Free               \* nobody, as the mutex's owner

Threads == Setters \cup Waiters

ASSUME ThreadsAssumption == Setters \cap Waiters = {} /\ Free \notin Threads

VARIABLES
  auto_reset,  \* SwimdAutoResetEvent or SwimdManualResetEvent
  pc,
  mutex,     \* who holds it
  signaled

vars == <<auto_reset, pc, mutex, signaled>>

SetterPcs == {"idle", "set_lock", "set", "notify", "set_unlock"}
               \cup (IF auto_reset THEN {} ELSE {"reset_lock", "reset", "reset_unlock"})
WaiterPcs == {"idle", "wait_lock", "test", "asleep", "relock", "wait_unlock"}

Goes(t, from, to) ==
  pc[t] = from /\ pc' = [pc EXCEPT ![t] = to] /\ UNCHANGED auto_reset

Lock(t)   == mutex = Free /\ mutex' = t
Unlock(t) == mutex = t /\ mutex' = Free

Asleep == {t \in Threads : pc[t] = "asleep"}

-----------------------------------------------------------------------------
\* (A definition whose name ends in X is the one after it with a plausible bug: the runs
\* use it to show that a property would catch that bug.  No action refers to it.)

\* swimd_are_wait, swimd_mre_wait
WaitCall(t) == Goes(t, "idle", "wait_lock") /\ UNCHANGED <<mutex, signaled>>
WaitLock(t) == Goes(t, "wait_lock", "test") /\ Lock(t) /\ UNCHANGED signaled

\* The loop ends, and an auto-reset event is reset.
WaitPass(t) ==
  /\ Goes(t, "test", "wait_unlock")
  /\ signaled
  /\ signaled' = ~auto_reset
  /\ UNCHANGED mutex

\* pthread_cond_wait
SleepX(t) ==  \* keeps the mutex
  /\ Goes(t, "test", "asleep")
  /\ ~signaled
  /\ UNCHANGED <<mutex, signaled>>

Sleep(t) ==
  /\ Goes(t, "test", "asleep")
  /\ ~signaled
  /\ Unlock(t)
  /\ UNCHANGED signaled

SpuriousWakeup(t) == Goes(t, "asleep", "relock") /\ UNCHANGED <<mutex, signaled>>

RelockX(t) ==  \* tests the event once, not in a loop
  /\ Goes(t, "relock", "wait_unlock")
  /\ Lock(t)
  /\ signaled' = (signaled /\ ~auto_reset)

Relock(t)     == Goes(t, "relock", "test") /\ Lock(t) /\ UNCHANGED signaled
WaitUnlock(t) == Goes(t, "wait_unlock", "idle") /\ Unlock(t) /\ UNCHANGED signaled

\* swimd_are_set, swimd_mre_set
SetCall(t) == Goes(t, "idle", "set_lock") /\ UNCHANGED <<mutex, signaled>>
SetLock(t) == Goes(t, "set_lock", "set") /\ Lock(t) /\ UNCHANGED signaled

Set(t) ==
  /\ Goes(t, "set", IF auto_reset THEN "set_unlock" ELSE "notify")
  /\ signaled' = TRUE
  /\ UNCHANGED mutex

SetUnlock(t) ==
  /\ Goes(t, "set_unlock", IF auto_reset THEN "notify" ELSE "idle")
  /\ Unlock(t)
  /\ UNCHANGED signaled

\* Setter t, done with its notification, leaves; the threads in W wake up.
Wakes(t, W) ==
  /\ pc[t] = "notify"
  /\ pc' = [u \in Threads |-> IF u = t THEN (IF auto_reset THEN "idle" ELSE "set_unlock")
                              ELSE IF u \in W THEN "relock"
                              ELSE pc[u]]
  /\ UNCHANGED <<auto_reset, mutex, signaled>>

\* pthread_cond_signal wakes one of the threads that sleep.
SignalX(t) == auto_reset /\ Wakes(t, {})   \* wakes nobody
Signal(t) ==
  /\ auto_reset
  /\ IF Asleep = {} THEN Wakes(t, {}) ELSE \E u \in Asleep : Wakes(t, {u})

Broadcast(t) == ~auto_reset /\ Wakes(t, Asleep)

\* swimd_mre_reset
ResetCall(t)   == ~auto_reset /\ Goes(t, "idle", "reset_lock") /\ UNCHANGED <<mutex, signaled>>
ResetLock(t)   == Goes(t, "reset_lock", "reset") /\ Lock(t) /\ UNCHANGED signaled
Reset(t)       == Goes(t, "reset", "reset_unlock") /\ signaled' = FALSE /\ UNCHANGED mutex
ResetUnlock(t) == Goes(t, "reset_unlock", "idle") /\ Unlock(t) /\ UNCHANGED signaled

-----------------------------------------------------------------------------
Init ==
  /\ auto_reset \in BOOLEAN
  /\ pc = [t \in Threads |-> "idle"]
  /\ mutex = Free
  /\ signaled = ~auto_reset

Call(t) == IF t \in Setters THEN SetCall(t) \/ ResetCall(t) ELSE WaitCall(t)
Locks(t) == WaitLock(t) \/ Relock(t) \/ SetLock(t) \/ ResetLock(t)
Moves(t) ==
  \/ WaitPass(t) \/ Sleep(t) \/ WaitUnlock(t)
  \/ Set(t) \/ SetUnlock(t) \/ Signal(t) \/ Broadcast(t)
  \/ Reset(t) \/ ResetUnlock(t)

Next == \E t \in Threads : Call(t) \/ Locks(t) \/ Moves(t) \/ SpuriousWakeup(t)

\* Every thread is scheduled, and gets a mutex that is released again and again.  Nobody
\* has to call, and nothing relies on spurious wakeups.
Fairness == \A t \in Threads : WF_vars(Moves(t)) /\ SF_vars(Locks(t))

SafetySpec == Init /\ [][Next]_vars
Spec       == SafetySpec /\ Fairness

-----------------------------------------------------------------------------
\* Every variable has its type, and the mutex is held by the one thread that is between
\* taking and releasing it, and by nobody if there is none.
Critical(t) ==
  pc[t] \in {"test", "wait_unlock", "set", "set_unlock", "reset", "reset_unlock"}
    \/ (pc[t] = "notify" /\ ~auto_reset)

TypeOK ==
  /\ auto_reset \in BOOLEAN
  /\ pc \in [Threads -> SetterPcs \cup WaiterPcs]
  /\ \A t \in Setters : pc[t] \in SetterPcs
  /\ \A t \in Waiters : pc[t] \in WaiterPcs
  /\ signaled \in BOOLEAN
  /\ mutex \in Threads \cup {Free}
  /\ \A t \in Threads : Critical(t) <=> mutex = t

\* No wakeup is lost: if the event is signaled while threads sleep, then somebody is
\* about to notify them or, for an auto-reset event, is on the way to the signal.
NoLostWakeup ==
  signaled /\ Asleep # {} =>
    \E t \in Threads :
      \/ pc[t] = "notify"
      \/ auto_reset /\ pc[t] \in {"set_unlock", "relock", "test"}

\* The calls of each thread, as Event knows them.
callBar ==
  [t \in Threads |->
     IF pc[t] = "idle" THEN "none"
     ELSE IF pc[t] \in {"wait_lock", "test", "asleep", "relock"} THEN "wait"
     ELSE IF pc[t] \in {"set_lock", "set"} THEN "set"
     ELSE IF pc[t] \in {"reset_lock", "reset"} THEN "reset"
     ELSE "done"]

Abstract == INSTANCE Event WITH call <- callBar

\* Whatever the interleaving, the calls behave as if each took effect at one instant,
\* and nobody sleeps on past a signal that stays.
ImplementsEvent == Abstract!Spec
=============================================================================
