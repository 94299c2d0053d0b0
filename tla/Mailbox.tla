------------------------------ MODULE Mailbox ------------------------------
(***************************************************************************)
(* What the agent loop promises whoever sends it messages: they are taken  *)
(* one at a time and in order while the mailbox is open, and each one that *)
(* is taken is given one verdict, or a second one that says it came too    *)
(* late, before the next is taken.  AgentLoop implements it.               *)
(***************************************************************************)
EXTENDS Sequences

CONSTANTS
  Messages, NoMessage,
  Verdicts,  \* how a message can end
  Late       \* the verdict of the deadline

VARIABLES
  sent,      \* messages put in the mailbox so far
  box,       \* those nobody has taken
  hand,      \* the one that is being worked on
  verdicts,  \* what has been said of each message
  open       \* not stopped

vars == <<sent, box, hand, verdicts, open>>

Init ==
  /\ sent = {} /\ box = <<>> /\ hand = NoMessage
  /\ verdicts = [m \in Messages |-> {}]
  /\ open = TRUE

Put(m) ==
  /\ m \notin sent
  /\ sent' = sent \cup {m} /\ box' = Append(box, m)
  /\ UNCHANGED <<hand, verdicts, open>>

Take ==
  /\ open /\ hand = NoMessage /\ box # <<>>
  /\ hand' = Head(box) /\ box' = Tail(box)
  /\ UNCHANGED <<sent, verdicts, open>>

Say(verdict) ==
  /\ hand # NoMessage /\ verdicts[hand] = {}
  /\ verdicts' = [verdicts EXCEPT ![hand] = {verdict}]
  /\ hand' \in {hand, NoMessage}
  /\ UNCHANGED <<sent, box, open>>

SayLate ==
  /\ hand # NoMessage
  /\ verdicts' = [verdicts EXCEPT ![hand] = @ \cup {Late}]
  /\ hand' = NoMessage
  /\ UNCHANGED <<sent, box, open>>

PutAway ==
  /\ hand # NoMessage /\ verdicts[hand] # {}
  /\ hand' = NoMessage
  /\ UNCHANGED <<sent, box, verdicts, open>>

Close ==
  /\ open
  /\ open' = FALSE
  /\ UNCHANGED <<sent, box, hand, verdicts>>

Work == SayLate \/ PutAway \/ \E verdict \in Verdicts : Say(verdict)

Next == Take \/ Work \/ Close \/ \E m \in Messages : Put(m)

\* What a mailbox never does ...
Safety == Init /\ [][Next]_vars

\* ... and what it does: what can be taken is, what was taken is settled and
\* put away.
Spec == Safety /\ WF_vars(Take) /\ WF_vars(Work)
=============================================================================
