------------------------------ MODULE Dialogue ------------------------------
(***************************************************************************)
(* What a conversation with the assistant promises its user: questions are *)
(* asked one after another, each is settled once, with an acceptable       *)
(* answer or with an error, and the conversation shows the answers given   *)
(* and nothing else, for good.                                             *)
(***************************************************************************)
EXTENDS Naturals

CONSTANTS
  MaxTurns,
  Acceptable,  \* per question: the answers the user may be given
  None, Failed

VARIABLES
  asked,    \* the questions asked so far
  settled,  \* per question: None, its answer, or Failed
  shown     \* the answers the conversation shows

Init ==
  /\ asked = 0
  /\ settled = [t \in 1..MaxTurns |-> None]
  /\ shown = {}

Open == asked > 0 /\ settled[asked] = None

Question ==
  /\ ~Open
  /\ asked < MaxTurns
  /\ asked' = asked + 1
  /\ UNCHANGED <<settled, shown>>

Settle(outcome) ==
  /\ settled' = [settled EXCEPT ![asked] = outcome]
  /\ UNCHANGED asked

Answer(m) == Settle(m) /\ shown' = shown \cup {m}

Fail == Open /\ Settle(Failed) /\ UNCHANGED shown

Next ==
  \/ Question
  \/ Fail
  \/ Open /\ \E m \in Acceptable[asked] : Answer(m)

Spec == Init /\ [][Next]_<<asked, settled, shown>>
=============================================================================
