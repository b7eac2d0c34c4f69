------------------------------- MODULE Event -------------------------------
(***************************************************************************)
(* What an event promises to the threads that share it: a call takes       *)
(* effect at one instant between its start and its return.  A wait takes   *)
(* effect while the event is signaled, and consumes the signal of an       *)
(* auto-reset event.  Scanner uses its events as if they were this.        *)
(***************************************************************************)
CONSTANT Threads

VARIABLES
  auto_reset,  \* which of the two kinds it is, for good
  signaled,
  call       \* what each thread has called, "done" once it has taken effect

vars == <<auto_reset, signaled, call>>

Init == auto_reset \in BOOLEAN /\ signaled \in BOOLEAN /\ call = [t \in Threads |-> "none"]

Moves(t, from, to) ==
  call[t] = from /\ call' = [call EXCEPT ![t] = to] /\ UNCHANGED auto_reset

Start(t)  == (\E c \in {"wait", "set", "reset"} : Moves(t, "none", c)) /\ UNCHANGED signaled
Set(t)    == Moves(t, "set", "done") /\ signaled' = TRUE
Reset(t)  == ~auto_reset /\ Moves(t, "reset", "done") /\ signaled' = FALSE
Wait(t)   == signaled /\ Moves(t, "wait", "done") /\ signaled' = ~auto_reset
Return(t) == Moves(t, "done", "none") /\ UNCHANGED signaled

Next == \E t \in Threads : Start(t) \/ Set(t) \/ Reset(t) \/ Wait(t) \/ Return(t)

\* A set or a reset takes effect and every call that has taken effect returns.  As long
\* as a manual-reset event stays signaled every waiter gets through; of those that wait
\* for an auto-reset event, one.
Fairness ==
  /\ \A t \in Threads : WF_vars(Set(t)) /\ WF_vars(Reset(t)) /\ WF_vars(Return(t))
  /\ WF_vars(auto_reset /\ \E t \in Threads : Wait(t))
  /\ \A t \in Threads : WF_vars(~auto_reset /\ Wait(t))

SafetySpec == Init /\ [][Next]_vars
Spec       == SafetySpec /\ Fairness
=============================================================================
