---------------------------- MODULE IndexService ----------------------------
(***************************************************************************)
(* What a scanner promises to the picker, without threads: it has either   *)
(* no workspace, or one whose listing is still to come, or one with a      *)
(* listing.  A listing is whole, is of the workspace set up last, and was  *)
(* taken no earlier than the last request (setup or refresh) that was      *)
(* accepted before it and no earlier than the listing it replaces; and     *)
(* every accepted request is answered unless the workspace is left first.  *)
(***************************************************************************)
EXTENDS Integers

CONSTANTS Paths, None

VARIABLES
  ws,     \* the workspace, or None
  view,   \* the listing a search would use, or None
  clock,  \* the file system's version
  asked   \* the version when the last request was accepted

vars == <<ws, view, clock, asked>>

Listing(p, v) == [path |-> p, ver |-> v, whole |-> TRUE]

Init == ws = None /\ view = None /\ clock = 0 /\ asked = 0

Enter(p) ==
  /\ ws = None
  /\ ws' = p
  /\ asked' = clock
  /\ UNCHANGED <<view, clock>>

Request ==
  /\ ws # None
  /\ asked' = clock
  /\ UNCHANGED <<ws, view, clock>>

Publish(v) ==
  /\ ws # None
  /\ v \in asked .. clock
  /\ view # None => view.ver <= v
  /\ view' = Listing(ws, v)
  /\ UNCHANGED <<ws, clock, asked>>

Leave ==
  /\ ws # None
  /\ ws' = None
  /\ view' = None
  /\ UNCHANGED <<clock, asked>>

Tick == clock' = clock + 1 /\ UNCHANGED <<ws, view, asked>>

Next ==
  \/ \E p \in Paths : Enter(p)
  \/ \E v \in asked .. clock : Publish(v)
  \/ Request \/ Leave \/ Tick

Unanswered == ws # None /\ (view = None \/ view.ver < asked)
Answer     == Unanswered /\ \E v \in asked .. clock : Publish(v)

SafetySpec == Init /\ [][Next]_vars
Spec       == SafetySpec /\ WF_vars(Answer)
=============================================================================
