---------------------------- MODULE Coordination ----------------------------
(***************************************************************************)
(* Admission of questions by nora.coordination: take_slot, the requests it *)
(* lets run (ask_operation and the event stream of /agent), and the daily  *)
(* counter of nora.budget.                                                 *)
(*                                                                         *)
(* A question takes a slot of an asyncio.Semaphore, then is counted by a   *)
(* SQLite transaction in a worker thread, then runs the graph.  An ask     *)
(* gives its slot back when its handler ends.  A stream gives it back when *)
(* its producer task ends, and that task exists only once the server has   *)
(* started to read the response.                                           *)
(*                                                                         *)
(* External (asyncio): Semaphore hands a released slot to its first waiter,*)
(* which runs later; a newcomer takes a slot only if nobody is waiting; a  *)
(* waiter that is cancelled after it was handed the slot gives it back.    *)
(***************************************************************************)
EXTENDS Naturals, Sequences, FiniteSets

CONSTANTS
  Asks, Streams,  \* questions by /ask or ask_nis, and by /agent
  Concurrency,    \* NORA_CONCURRENCY
  DailyLimit,     \* NORA_DAILY_LIMIT
  LastDay         \* bound on the days, numbered from 0

ASSUME CoordinationAssumption ==
  /\ IsFiniteSet(Asks) /\ IsFiniteSet(Streams) /\ Asks \cap Streams = {}
  /\ Concurrency \in Nat \ {0}
  /\ DailyLimit \in Nat \ {0}
  /\ LastDay \in Nat

Questions == Asks \cup Streams
Days == 0..LastDay

VARIABLES
  free,      \* semaphore._value
  line,      \* semaphore._waiters that were not handed a slot, in order
  pc,        \* per question: how far its handler is
  today,     \* the UTC date
  stamp,     \* per question: the date its budget.take has read, else 0
  rows,      \* the requests table: per day its count, 0 for no row
  admitted   \* per day: questions counted against it since it began

vars == <<free, line, pc, today, stamp, rows, admitted>>

Steps == {"away", "waiting", "granted", "slot", "counting",
          "headers", "running", "abandoned"}

Init ==
  /\ free = Concurrency
  /\ line = <<>>
  /\ pc = [q \in Questions |-> "away"]
  /\ today = 0
  /\ stamp = [q \in Questions |-> 0]
  /\ rows = [d \in Days |-> 0]
  /\ admitted = [d \in Days |-> 0]

----------------------------------------------------------------------------
At(step) == {q \in Questions : pc[q] = step}

Lesser(m, n) == IF m < n THEN m ELSE n

(* External: q goes to a step, and the first waiters of s, at most n and   *)
(* no more than there are slots among f, are handed one.                   *)
MoveAndWake(q, step, n, f, s) ==
  LET k == Lesser(n, Lesser(f, Len(s)))
      woken == {s[i] : i \in 1..k}
  IN /\ free' = f - k
     /\ line' = SubSeq(s, k + 1, Len(s))
     /\ pc' = [p \in Questions |-> IF p = q THEN step
                                   ELSE IF p \in woken THEN "granted"
                                   ELSE pc[p]]

\* Mutant: a released slot wakes nobody.
LeaveSilently(q, step) == MoveAndWake(q, step, 0, free + 1, line)

(* semaphore.release() as q goes to a step. *)
Leave(q, step) == MoveAndWake(q, step, 1, free + 1, line)

(* semaphore.acquire(): at once, or in line. *)
Arrive(q) ==
  /\ pc[q] = "away"
  /\ \/ /\ free > 0 /\ line = <<>> /\ At("granted") = {}
        /\ free' = free - 1
        /\ pc' = [pc EXCEPT ![q] = "slot"]
        /\ UNCHANGED line
     \/ /\ free = 0 \/ line # <<>> \/ At("granted") # {}
        /\ line' = Append(line, q)
        /\ pc' = [pc EXCEPT ![q] = "waiting"]
        /\ UNCHANGED free
  /\ UNCHANGED <<today, stamp, rows, admitted>>

(* A waiter that was handed a slot runs. *)
Resume(q) ==
  /\ pc[q] = "granted"
  /\ MoveAndWake(q, "slot", Len(line), free, line)
  /\ UNCHANGED <<today, stamp, rows, admitted>>

\* s without its i-th element.
DropAt(s, i) == SubSeq(s, 1, i - 1) \o SubSeq(s, i + 1, Len(s))

(* "Nora is busy": wait_for gives up before a slot is handed over. *)
GiveUpWaiting(q) ==
  /\ pc[q] = "waiting"
  /\ \E i \in DOMAIN line :
       /\ line[i] = q
       /\ LET s == DropAt(line, i) IN MoveAndWake(q, "away", Len(s), free, s)
  /\ UNCHANGED <<today, stamp, rows, admitted>>

\* Mutant: the slot handed over is not returned.
GiveUpGrantedKeeping(q) ==
  /\ pc[q] = "granted"
  /\ MoveAndWake(q, "away", Len(line), free, line)
  /\ UNCHANGED <<today, stamp, rows, admitted>>

\* Mutant: the slot handed over is returned, and nobody is woken for it.
GiveUpGrantedSilently(q) ==
  /\ pc[q] = "granted"
  /\ MoveAndWake(q, "away", 0, free + 1, line)
  /\ UNCHANGED <<today, stamp, rows, admitted>>

(* "Nora is busy": wait_for gives up just after the slot was handed over. *)
GiveUpGranted(q) ==
  /\ pc[q] = "granted"
  /\ MoveAndWake(q, "away", Len(line), free + 1, line)
  /\ UNCHANGED <<today, stamp, rows, admitted>>

(* budget.take, in a worker thread: the date is read first. *)
ReadDate(q) ==
  /\ pc[q] = "slot"
  /\ pc' = [pc EXCEPT ![q] = "counting"]
  /\ stamp' = [stamp EXCEPT ![q] = today]
  /\ UNCHANGED <<free, line, today, rows, admitted>>

Exhausted(d) == rows[d] >= DailyLimit

\* Mutant: the rows of all other days are deleted.
CountedAlone(d) == [e \in Days |-> IF e = d THEN rows[d] + 1 ELSE 0]

\* The table after a question is counted on d: earlier days are deleted.
Counted(d) ==
  [e \in Days |-> IF e = d THEN rows[d] + 1 ELSE IF e < d THEN 0 ELSE rows[e]]

(* budget.take: the transaction, when the limit is not reached. *)
TakeBudget(q) ==
  /\ pc[q] = "counting"
  /\ ~Exhausted(stamp[q])
  /\ rows' = Counted(stamp[q])
  /\ admitted' = [admitted EXCEPT ![stamp[q]] = @ + 1]
  /\ pc' = [pc EXCEPT ![q] = IF q \in Streams THEN "headers" ELSE "running"]
  /\ stamp' = [stamp EXCEPT ![q] = 0]
  /\ UNCHANGED <<free, line, today>>

(* BudgetExceeded, or the database fails: the slot is given back. *)
RefuseBudget(q) ==
  /\ pc[q] = "counting"
  /\ Leave(q, "away")
  /\ stamp' = [stamp EXCEPT ![q] = 0]
  /\ UNCHANGED <<today, rows, admitted>>

(* The server reads the response: events() starts its producer task. *)
StartStream(q) ==
  /\ pc[q] = "headers"
  /\ pc' = [pc EXCEPT ![q] = "running"]
  /\ UNCHANGED <<free, line, today, stamp, rows, admitted>>

(* External: the client is gone before the response is read, and the       *)
(* server never starts events().  The slot is not given back.              *)
DropResponse(q) ==
  /\ pc[q] = "headers"
  /\ pc' = [pc EXCEPT ![q] = "abandoned"]
  /\ UNCHANGED <<free, line, today, stamp, rows, admitted>>

(* An ask ends: an answer, an error or the request timeout. *)
FinishAsk(q) ==
  /\ q \in Asks
  /\ pc[q] = "running"
  /\ Leave(q, "away")
  /\ UNCHANGED <<today, stamp, rows, admitted>>

(* The producer task of a stream ends, in the same ways.  A client that    *)
(* leaves during the run does not end it.                                  *)
FinishStream(q) ==
  /\ q \in Streams
  /\ pc[q] = "running"
  /\ Leave(q, "away")
  /\ UNCHANGED <<today, stamp, rows, admitted>>

Midnight ==
  /\ today < LastDay
  /\ today' = today + 1
  /\ UNCHANGED <<free, line, pc, stamp, rows, admitted>>

Proceed(q) ==
  \/ Resume(q)
  \/ ReadDate(q)
  \/ TakeBudget(q) \/ RefuseBudget(q)
  \/ StartStream(q) \/ DropResponse(q)
  \/ FinishAsk(q) \/ FinishStream(q)

Next ==
  \/ Midnight
  \/ \E q \in Questions :
       Arrive(q) \/ GiveUpWaiting(q) \/ GiveUpGranted(q) \/ Proceed(q)

Spec == Init /\ [][Next]_vars

----------------------------------------------------------------------------
\* Questions that have a slot.
Holders == {q \in Questions : pc[q] \notin {"away", "waiting"}}

(* Every variable has its type. *)
TypeOK ==
  /\ free \in 0..Concurrency
  /\ line \in Seq(Questions)
  /\ pc \in [Questions -> Steps]
  /\ today \in Days
  /\ stamp \in [Questions -> Days]
  /\ rows \in [Days -> Nat]
  /\ admitted \in [Days -> Nat]

(* No slot is lost or made twice, whatever times out, is refused, fails or *)
(* is abandoned on the way; the only slots that do not come back are those *)
(* of the streams the server never started.                                *)
SlotsAddUp == free + Cardinality(Holders) = Concurrency

(* While a slot is free nobody waits for one in vain: another question has *)
(* been handed a slot and wakes the next when it runs or gives up.  A slot *)
(* that came back without waking anybody would be left to newcomers, who   *)
(* wait in turn because the line is not empty.                             *)
NoWaiterForgotten ==
  At("waiting") # {} /\ free > 0 => At("granted") # {}

(* The daily limit holds, but for the questions that read the date before  *)
(* midnight and are counted after another was counted on the new day: they *)
(* find the old day's row deleted.  There is one slot less than they need. *)
DailyLimitHolds ==
  \A d \in Days : admitted[d] <= DailyLimit + (Concurrency - 1)

(* Slots are handed over in order: a question that keeps waiting gets one, *)
(* however many newcomers compete, unless every slot has been abandoned.   *)
WaitersAreServed ==
  \A q \in Questions :
    pc[q] = "waiting" ~>
      (pc[q] # "waiting" \/ Cardinality(At("abandoned")) = Concurrency)
=============================================================================
