------------------------------ MODULE Mailboxes ------------------------------
(***************************************************************************)
(* What the actors of a thread may rely on, whatever runs them: an event   *)
(* that is sent to an actor is handled, once, though not at once.          *)
(***************************************************************************)
EXTENDS Naturals

CONSTANT Task     \* the actors of the thread

VARIABLES
  sent,           \* how many events each was sent
  handled         \* how many of them each has handled

mailboxes == <<sent, handled>>

Init == sent = [s \in Task |-> 0] /\ handled = [s \in Task |-> 0]

Send(s) == sent' = [sent EXCEPT ![s] = @ + 1] /\ UNCHANGED handled

Handle(s) ==
  /\ handled[s] < sent[s]
  /\ handled' = [handled EXCEPT ![s] = @ + 1] /\ UNCHANGED sent

Next == \E s \in Task : Send(s) \/ Handle(s)

Safe == Init /\ [][Next]_mailboxes

Spec == Safe /\ \A s \in Task : WF_mailboxes(Handle(s))
=============================================================================
