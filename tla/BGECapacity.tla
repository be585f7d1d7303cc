---------------------------- MODULE BGECapacity ----------------------------
(***************************************************************************)
(* Admission control of the shared BGE service, nora.bge_server: class     *)
(* Capacity and the handler of /encode.                                    *)
(*                                                                         *)
(* A request takes a slot of its mode's Capacity (query or batch), then    *)
(* one of the total Capacity, encodes, and gives both back.  A Capacity is *)
(* two counters and an asyncio.Condition.  Its lock is never held across   *)
(* an await other than Condition.wait, so what a handler does between two  *)
(* suspensions is one step: acquiring runs without interruption from its   *)
(* first line to a slot, a refusal or the wait, and taking the mode's slot *)
(* runs on into asking for the total one.  A release is a task of its own, *)
(* and both releases of a request run one right after the other.           *)
(*                                                                         *)
(* External (asyncio): a notified waiter is only made runnable.  Whatever  *)
(* is runnable before it runs first, and its timeout may still fire.       *)
(***************************************************************************)
EXTENDS Naturals, Sequences, FiniteSets

CONSTANTS
  Queries, Batches,  \* requests in query and in document mode
  QueryMax,          \* NORA_BGE_QUERY_CONCURRENCY
  BatchMax,          \* NORA_BGE_BATCH_CONCURRENCY
  TotalMax,          \* NORA_BGE_TOTAL_CONCURRENCY
  MaxQueue           \* NORA_BGE_MAX_QUEUE

ASSUME CapacityAssumption ==
  /\ IsFiniteSet(Queries) /\ IsFiniteSet(Batches)
  /\ Queries \cap Batches = {}
  /\ {QueryMax, BatchMax, TotalMax} \subseteq Nat \ {0}
  /\ MaxQueue \in Nat

Requests == Queries \cup Batches

Modes == {"query", "batch"}
Caps == Modes \cup {"total"}

VARIABLES
  inflight,  \* per Capacity: _inflight
  queued,    \* per Capacity: _queued
  line,      \* per Capacity: the waiters of _cond not notified yet, in order
  at,        \* per request: where its handler is
  reply      \* per request: the answer it got last

vars == <<inflight, queued, line, at, reply>>

Places == {"away", "modeWait", "modeWoken", "totalWait", "totalWoken",
           "encode", "leaving", "backing"}
Replies == {"none", "ok", "full", "timeout", "unavailable"}

\* cap = query_cap if request.query else batch_cap
Mode(r) == IF r \in Queries THEN "query" ELSE "batch"

\* Mutant: batches may use every slot of the model.
MaxInflightUnreserved(c) == IF c = "query" THEN QueryMax ELSE TotalMax

MaxInflight(c) ==
  CASE c = "query" -> QueryMax [] c = "batch" -> BatchMax [] OTHER -> TotalMax

MaxQueued(c) == IF c = "total" THEN 2 * MaxQueue ELSE MaxQueue

Init ==
  /\ inflight = [c \in Caps |-> 0]
  /\ queued = [c \in Caps |-> 0]
  /\ line = [c \in Caps |-> <<>>]
  /\ at = [r \in Requests |-> "away"]
  /\ reply = [r \in Requests |-> "none"]

----------------------------------------------------------------------------
Full(c) == queued[c] >= MaxQueued(c)
Busy(c) == inflight[c] >= MaxInflight(c)

\* A handler's place and reply change together.
Moves(r, place, answer) ==
  /\ at' = [at EXCEPT ![r] = place]
  /\ reply' = [reply EXCEPT ![r] = answer]

(* total_cap.__aenter__, entered with inf and que as the counters: refused *)
(* by a full queue, made to wait, or admitted.                             *)
EnterTotal(r, inf, que) ==
  \/ /\ Full("total")
     /\ Moves(r, "backing", "full")
     /\ inflight' = inf
     /\ queued' = que
     /\ UNCHANGED line
  \/ /\ ~Full("total") /\ Busy("total")
     /\ Moves(r, "totalWait", "none")
     /\ inflight' = inf
     /\ queued' = [que EXCEPT !["total"] = @ + 1]
     /\ line' = [line EXCEPT !["total"] = Append(@, r)]
  \/ /\ ~Full("total") /\ ~Busy("total")
     /\ Moves(r, "encode", "none")
     /\ inflight' = [inf EXCEPT !["total"] = @ + 1]
     /\ queued' = que
     /\ UNCHANGED line

(* A request arrives: cap.__aenter__, and on to the total. *)
Arrive(r) ==
  /\ at[r] = "away"
  /\ LET c == Mode(r) IN
     \/ /\ Full(c)
        /\ Moves(r, "away", "full")
        /\ UNCHANGED <<inflight, queued, line>>
     \/ /\ ~Full(c) /\ Busy(c)
        /\ Moves(r, "modeWait", "none")
        /\ queued' = [queued EXCEPT ![c] = @ + 1]
        /\ line' = [line EXCEPT ![c] = Append(@, r)]
        /\ UNCHANGED inflight
     \/ /\ ~Full(c) /\ ~Busy(c)
        /\ EnterTotal(r, [inflight EXCEPT ![c] = @ + 1], queued)

(* A notified waiter of the mode's Capacity runs: the slot may be gone. *)
ResumeMode(r) ==
  /\ at[r] = "modeWoken"
  /\ LET c   == Mode(r)
         que == [queued EXCEPT ![c] = @ - 1]
     IN \/ /\ Busy(c)
           /\ Moves(r, "away", "unavailable")
           /\ queued' = que
           /\ UNCHANGED <<inflight, line>>
        \/ /\ ~Busy(c)
           /\ EnterTotal(r, [inflight EXCEPT ![c] = @ + 1], que)

\* Mutant: the slot is taken without looking again.
ResumeTotalUnchecked(r) ==
  /\ at[r] = "totalWoken"
  /\ queued' = [queued EXCEPT !["total"] = @ - 1]
  /\ Moves(r, "encode", "none")
  /\ inflight' = [inflight EXCEPT !["total"] = @ + 1]
  /\ UNCHANGED line

(* A notified waiter of the total runs. *)
ResumeTotal(r) ==
  /\ at[r] = "totalWoken"
  /\ queued' = [queued EXCEPT !["total"] = @ - 1]
  /\ \/ /\ Busy("total")
        /\ Moves(r, "backing", "unavailable")
        /\ UNCHANGED inflight
     \/ /\ ~Busy("total")
        /\ Moves(r, "encode", "none")
        /\ inflight' = [inflight EXCEPT !["total"] = @ + 1]
  /\ UNCHANGED line

\* s without its i-th element.
DropAt(s, i) == [j \in 1..(Len(s) - 1) |-> IF j < i THEN s[j] ELSE s[j + 1]]

Waiting(c) == IF c = "total" THEN "totalWait" ELSE "modeWait"
Woken(c) == IF c = "total" THEN "totalWoken" ELSE "modeWoken"

\* Where a request is after the Capacity c turned it away: it still holds its
\* mode's slot if c is the total.
Refused(c) == IF c = "total" THEN "backing" ELSE "away"

(* wait_for gives up on a waiter that was not notified. *)
TimeoutWaiting(r, c) ==
  /\ at[r] = Waiting(c)
  /\ c \in {Mode(r), "total"}
  /\ \E i \in DOMAIN line[c] :
       line[c][i] = r /\ line' = [line EXCEPT ![c] = DropAt(@, i)]
  /\ queued' = [queued EXCEPT ![c] = @ - 1]
  /\ Moves(r, Refused(c), "timeout")
  /\ UNCHANGED inflight

\* The waiter a notification of c makes runnable, if any.
Notified(c) == IF line[c] = <<>> THEN {} ELSE {Head(line[c])}
Rest(c) == IF line[c] = <<>> THEN <<>> ELSE Tail(line[c])

(* wait_for gives up on a waiter that was notified but did not run yet.    *)
(* External: Python 3.12 loses the notification, later versions pass it on.*)
TimeoutWoken(r, c) ==
  /\ at[r] = Woken(c)
  /\ c \in {Mode(r), "total"}
  /\ queued' = [queued EXCEPT ![c] = @ - 1]
  /\ reply' = [reply EXCEPT ![r] = "timeout"]
  /\ \/ /\ at' = [at EXCEPT ![r] = Refused(c)]
        /\ UNCHANGED line
     \/ /\ at' = [q \in Requests |-> IF q = r THEN Refused(c)
                                       ELSE IF q \in Notified(c) THEN Woken(c)
                                       ELSE at[q]]
        /\ line' = [line EXCEPT ![c] = Rest(c)]
  /\ UNCHANGED inflight

(* The encoder returns or raises; both releases are scheduled. *)
FinishEncoding(r) ==
  /\ at[r] = "encode"
  /\ Moves(r, "leaving", "ok")
  /\ UNCHANGED <<inflight, queued, line>>

(* The tasks _release of the total, then of the mode. *)
ReleaseBoth(r) ==
  /\ at[r] = "leaving"
  /\ LET c == Mode(r) IN
     /\ inflight' = [inflight EXCEPT !["total"] = @ - 1, ![c] = @ - 1]
     /\ line' = [line EXCEPT !["total"] = Rest("total"), ![c] = Rest(c)]
     /\ at' = [q \in Requests |-> IF q = r THEN "away"
                                    ELSE IF q \in Notified("total") THEN "totalWoken"
                                    ELSE IF q \in Notified(c) THEN "modeWoken"
                                    ELSE at[q]]
  /\ UNCHANGED <<queued, reply>>

\* Mutant: a request the total turned away keeps its mode's slot.
ReleaseNothing(r) ==
  /\ at[r] = "backing"
  /\ at' = [at EXCEPT ![r] = "away"]
  /\ UNCHANGED <<inflight, queued, line, reply>>

(* The task _release of the mode, after the total turned the request away. *)
ReleaseMode(r) ==
  /\ at[r] = "backing"
  /\ LET c == Mode(r) IN
     /\ inflight' = [inflight EXCEPT ![c] = @ - 1]
     /\ line' = [line EXCEPT ![c] = Rest(c)]
     /\ at' = [q \in Requests |-> IF q = r THEN "away"
                                    ELSE IF q \in Notified(c) THEN "modeWoken"
                                    ELSE at[q]]
  /\ UNCHANGED <<queued, reply>>

Step(r) ==
  \/ Arrive(r)
  \/ ResumeMode(r)
  \/ ResumeTotal(r)
  \/ \E c \in Caps : TimeoutWaiting(r, c) \/ TimeoutWoken(r, c)
  \/ FinishEncoding(r)
  \/ ReleaseBoth(r)
  \/ ReleaseMode(r)

Next == \E r \in Requests : Step(r)

Spec == Init /\ [][Next]_vars

----------------------------------------------------------------------------
\* The requests that hold a slot of c, and those counted in its queue.
Holders(c) ==
  IF c = "total"
  THEN {r \in Requests : at[r] \in {"encode", "leaving"}}
  ELSE {r \in Requests :
          /\ Mode(r) = c
          /\ at[r] \in {"totalWait", "totalWoken", "encode", "leaving", "backing"}}

InQueue(c) ==
  {r \in Requests : /\ at[r] \in {Waiting(c), Woken(c)}
                    /\ c \in {Mode(r), "total"}}

(* Every variable has its type. *)
TypeOK ==
  /\ inflight \in [Caps -> Nat]
  /\ queued \in [Caps -> Nat]
  /\ line \in [Caps -> Seq(Requests)]
  /\ at \in [Requests -> Places]
  /\ reply \in [Requests -> Replies]

(* The counters tell the truth: every slot taken is held by a request and  *)
(* every place in a queue is taken by one, whatever is refused, times out  *)
(* or is turned away on the way.  (So the clamps max(0, ...) never act.)   *)
CountersExact ==
  \A c \in Caps :
    /\ inflight[c] = Cardinality(Holders(c))
    /\ queued[c] = Cardinality(InQueue(c))

(* Bounded admission: no Capacity has more holders or waiters than its     *)
(* limits, though a notified waiter and a newcomer may compete for a slot. *)
AdmissionBounded ==
  \A c \in Caps :
    /\ Cardinality(Holders(c)) <= MaxInflight(c)
    /\ Cardinality(InQueue(c)) <= MaxQueued(c)

(* "Query capacity preserved": the model makes a query wait, or turns it   *)
(* away as busy, only while queries hold the slots batches can never take. *)
QueryCapacityPreserved ==
  [][\A r \in Queries :
       at'[r] \in {"totalWait", "backing"} /\ at'[r] # at[r]
         /\ reply'[r] \in {"none", "unavailable"}
       => Cardinality(Holders("total") \cap Queries) >= TotalMax - BatchMax]_vars
=============================================================================
