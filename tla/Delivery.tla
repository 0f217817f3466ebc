------------------------------- MODULE Delivery -------------------------------
(***************************************************************************)
(* What a mailbox with one or more workers promises: every message that is *)
(* sent is handled at least once, the first time after all earlier ones,   *)
(* and it may be forgotten only when it was handled.                       *)
(***************************************************************************)
EXTENDS Naturals

CONSTANT MaxSent \* bound on the messages

VARIABLES
  sent,     \* messages 1..sent were sent
  handled,  \* the messages that were handled
  forgotten \* messages 1..forgotten are gone from the mailbox

vars == <<sent, handled, forgotten>>

Init == sent = 0 /\ handled = {} /\ forgotten = 0

Send ==
  /\ sent < MaxSent
  /\ sent' = sent + 1
  /\ UNCHANGED <<handled, forgotten>>

\* The oldest message nobody has handled.
Handle ==
  \E u \in (1..sent) \ handled :
    /\ 1..(u - 1) \subseteq handled
    /\ handled' = handled \cup {u}
    /\ UNCHANGED <<sent, forgotten>>

Forget ==
  \E n \in 1..sent :
    /\ n > forgotten
    /\ 1..n \subseteq handled
    /\ forgotten' = n
    /\ UNCHANGED <<sent, handled>>

Next == Send \/ Handle \/ Forget

SafeSpec == Init /\ [][Next]_vars

Spec == SafeSpec /\ WF_vars(Handle)
=============================================================================
