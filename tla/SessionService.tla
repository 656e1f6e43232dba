-------------------------- MODULE SessionService --------------------------
(***************************************************************************)
(* What a handle to a camera session promises its holder, whatever layer   *)
(* issued it (docs/architecture.md, "Identity across the boundary"; the    *)
(* ownership rules at the head of native/src/bridge.cpp): it reaches the   *)
(* session it was issued for until that session is closed, and nothing at  *)
(* all from then on.                                                       *)
(***************************************************************************)
CONSTANTS
  Token,   \* one per successful open: the handle as its holder knows it
  Nothing  \* what a call on a token reaches when its session is gone

VARIABLES
  issued,  \* tokens handed out so far
  reach    \* what a call on each token reaches: a token's session, or Nothing

vars == <<issued, reach>>

Init ==
  /\ issued = {}
  /\ reach = [t \in Token |-> Nothing]

\* A camera is opened: the caller gets a token that was never in use.
OpenOne(t) ==
  /\ t \notin issued
  /\ issued' = issued \cup {t}
  /\ reach' = [reach EXCEPT ![t] = t]

\* Sessions end: one by its holder, or all of them with the backend.
CloseSome(T) ==
  /\ reach' = [t \in Token |-> IF t \in T THEN Nothing ELSE reach[t]]
  /\ UNCHANGED issued

Next ==
  \/ \E t \in Token : OpenOne(t)
  \/ \E T \in SUBSET issued : CloseSome(T)

Spec == Init /\ [][Next]_vars

=============================================================================
