-------------------------- MODULE MutationOutcome --------------------------
(***************************************************************************)
(* What Save and Restore promise their callers, with nothing of how.        *)
(*                                                                          *)
(* An operation takes effect at most once: the revision it published is     *)
(* fixed from then on.  A call is answered once; a successful answer names  *)
(* the published revision of the operation the call carried, whichever      *)
(* delivery, worker or process published it.                                *)
(***************************************************************************)
EXTENDS Naturals

CONSTANTS Requests, OpIds

VARIABLES
    effect,     \* revision published by each operation, 0 while there is none
    answer      \* what each call's client was told

vars == <<effect, answer>>

\* An answer tells the revision of one operation; 0 while nothing, or an
\* error, was told.

Nothing == [o \in OpIds |-> 0]
Silent == [said |-> "silent", ver |-> Nothing]
Refused == [said |-> "refused", ver |-> Nothing]
Done(o, v) == [said |-> "done", ver |-> [Nothing EXCEPT ![o] = v]]

Init ==
    /\ effect = [o \in OpIds |-> 0]
    /\ answer = [r \in Requests |-> Silent]

TakeEffect(o) ==
    /\ effect[o] = 0
    /\ effect' \in [OpIds -> Nat]
    /\ effect'[o] # 0
    /\ \A p \in OpIds \ {o} : effect'[p] = effect[p]
    /\ UNCHANGED answer

Confirm(r, o) ==
    /\ answer[r] = Silent
    /\ effect[o] # 0
    /\ answer' = [answer EXCEPT ![r] = Done(o, effect[o])]
    /\ UNCHANGED effect

Refuse(r) ==
    /\ answer[r] = Silent
    /\ answer' = [answer EXCEPT ![r] = Refused]
    /\ UNCHANGED effect

Next ==
    \/ \E o \in OpIds : TakeEffect(o)
    \/ \E r \in Requests : Refuse(r) \/ \E o \in OpIds : Confirm(r, o)

Spec == Init /\ [][Next]_vars
=============================================================================
