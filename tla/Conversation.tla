---------------------------- MODULE Conversation ----------------------------
(***************************************************************************)
(* The conversations behind the questions that Coordination admits: the    *)
(* ownership claims of nora.ownership, the runs of the graph on the saved  *)
(* state of a thread, and restarts of the coordination service.            *)
(*                                                                         *)
(* A run loads the newest checkpoint of its thread, works on that copy,    *)
(* and writes checkpoints of the whole state; the newest one is what       *)
(* /history shows and what the next run loads.  Nothing orders the runs of *)
(* one thread: with more than one slot they may overlap, as they do when a *)
(* client leaves a stream, which goes on, and asks again.                  *)
(*                                                                         *)
(* A saved state is told apart by the questions it holds with an answer.   *)
(***************************************************************************)
EXTENDS Coordination

CONSTANTS
  Threads,
  ThreadOf   \* the thread each question belongs to

ASSUME ConversationAssumption == ThreadOf \in [Questions -> Threads]

VARIABLES
  owner,      \* per thread: the role in nora_thread_ownership
  saved,      \* per thread: the questions answered in its newest checkpoint
  loaded,     \* questions whose run has loaded its thread
  base,       \* per loaded question: the state its run works on
  \* history variables, read by the properties only
  finished,   \* questions a run of which has saved an answer and ended
  overlapped  \* threads on which two runs were loaded at a time

talk == <<saved, loaded, base, finished, overlapped>>
cvars == <<free, line, pc, today, stamp, rows, admitted,
           owner, saved, loaded, base, finished, overlapped>>

\* "historical" stands for any role but that of the assistant.
Owners == {"none", "assistant", "historical"}

CInit ==
  /\ Init
  /\ owner \in [Threads -> {"none", "historical"}]
  /\ saved = [t \in Threads |-> {}]
  /\ loaded = {}
  /\ base = [q \in Questions |-> {}]
  /\ finished = {}
  /\ overlapped = {}

----------------------------------------------------------------------------
\* Mutant: ON CONFLICT takes the new role.
ClaimedAnyway(t) == [owner EXCEPT ![t] = "assistant"]

\* PostgresOwnershipStore.claim: a role once stored stays.
Claimed(t) == [owner EXCEPT ![t] = IF @ = "none" THEN "assistant" ELSE @]

\* _require_owner, when it does not raise.
RequireOwner(t) ==
  /\ owner' = Claimed(t)
  /\ owner'[t] = "assistant"

(* ask_operation and agent: the claim must be accepted before the question *)
(* competes for a slot; the 403 of one that is not changes nothing.  What  *)
(* happens between the two awaits commutes with the claim.                 *)
Ask(q) ==
  /\ RequireOwner(ThreadOf[q])
  /\ Arrive(q)
  /\ UNCHANGED talk

(* /history claims the thread as well; so does a question that is refused  *)
(* as too long.                                                            *)
ReadHistory(t) ==
  /\ owner' = Claimed(t)
  /\ UNCHANGED <<vars, talk>>

\* Mutant: a run starts from an empty thread.
LoadNothing(q) ==
  /\ pc[q] = "running" /\ q \notin loaded
  /\ loaded' = loaded \cup {q}
  /\ base' = [base EXCEPT ![q] = {}]
  /\ overlapped' = overlapped \cup
       {t \in Threads : \E p \in loaded : t = ThreadOf[p] /\ t = ThreadOf[q]}
  /\ UNCHANGED <<vars, owner, saved, finished>>

(* External: ainvoke or adapter.run loads assistant_thread_id(thread). *)
Load(q) ==
  /\ pc[q] = "running" /\ q \notin loaded
  /\ loaded' = loaded \cup {q}
  /\ base' = [base EXCEPT ![q] = saved[ThreadOf[q]]]
  /\ overlapped' = overlapped \cup
       {t \in Threads : \E p \in loaded : t = ThreadOf[p] /\ t = ThreadOf[q]}
  /\ UNCHANGED <<vars, owner, saved, finished>>

(* External: the run writes a checkpoint, of its question or of a tool's   *)
(* result, on top of what it loaded.                                       *)
Checkpoint(q) ==
  /\ q \in loaded
  /\ saved' = [saved EXCEPT ![ThreadOf[q]] = base[q]]
  /\ UNCHANGED <<vars, owner, loaded, base, finished, overlapped>>

(* External: the checkpoint that holds the answer. *)
SaveAnswer(q) ==
  /\ q \in loaded
  /\ base' = [base EXCEPT ![q] = @ \cup {q}]
  /\ saved' = [saved EXCEPT ![ThreadOf[q]] = base'[q]]
  /\ UNCHANGED <<vars, owner, loaded, finished, overlapped>>

\* The run of q is over, with an answer or without.
RunEnds(q) ==
  /\ finished' = IF q \in base[q] THEN finished \cup {q} ELSE finished
  /\ loaded' = loaded \ {q}
  /\ base' = [base EXCEPT ![q] = {}]
  /\ UNCHANGED <<owner, saved, overlapped>>

(* The answer is returned, or the timeout or an error ends the run; a      *)
(* stream's run ends so whether or not its client still listens.           *)
Finish(q) == (FinishAsk(q) \/ FinishStream(q)) /\ RunEnds(q)

(* The service stops and is started again: its requests are gone, with     *)
(* their slots; the database and the budget's table stay.                  *)
Restart ==
  /\ free' = Concurrency
  /\ line' = <<>>
  /\ pc' = [q \in Questions |-> "away"]
  /\ stamp' = [q \in Questions |-> 0]
  /\ loaded' = {}
  /\ base' = [q \in Questions |-> {}]
  /\ UNCHANGED <<today, rows, admitted, owner, saved, finished, overlapped>>

CProceed(q) ==
  \/ Finish(q)
  \/ /\ \/ Resume(q) \/ ReadDate(q) \/ TakeBudget(q) \/ RefuseBudget(q)
        \/ StartStream(q) \/ DropResponse(q)
     /\ UNCHANGED <<owner, talk>>

CNext ==
  \/ Midnight /\ UNCHANGED <<owner, talk>>
  \/ Restart
  \/ \E t \in Threads : ReadHistory(t)
  \/ \E q \in Questions :
       \/ Ask(q)
       \/ (GiveUpWaiting(q) \/ GiveUpGranted(q)) /\ UNCHANGED <<owner, talk>>
       \/ Load(q) \/ Checkpoint(q) \/ SaveAnswer(q)
       \/ CProceed(q)

CSpec == CInit /\ [][CNext]_cvars

(* The event loop runs what is runnable, the counting thread ends, and the *)
(* request timeout bounds every run, whatever it has saved.  Nothing is    *)
(* assumed of the clients, nor of the timeouts of those that wait.         *)
CFairSpec == CSpec /\ \A q \in Questions : WF_cvars(CProceed(q))

----------------------------------------------------------------------------
(* An answer stays in its conversation through every later run, timeout,   *)
(* disconnection and restart, on each thread whose runs never overlapped.  *)
(* Of runs that overlap, the one that writes last hides what the other has *)
(* saved.                                                                  *)
AnswersStay ==
  \A q \in finished :
    ThreadOf[q] \notin overlapped => q \in saved[ThreadOf[q]]

(* A thread of a historical owner keeps it, gets no run and no checkpoint, *)
(* and none of its questions waits for a slot, whoever asks on it or reads *)
(* its history.                                                            *)
HistoricalThreadsUntouched ==
  [][\A t \in Threads :
       owner[t] = "historical" =>
         /\ owner'[t] = "historical"
         /\ saved'[t] = saved[t]
         /\ \A q \in Questions : ThreadOf[q] = t => pc'[q] = "away"]_cvars
=============================================================================
