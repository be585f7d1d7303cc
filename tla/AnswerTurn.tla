----------------------------- MODULE AnswerTurn -----------------------------
(***************************************************************************)
(* The turns of one conversation: the graph of nora.agent with its call    *)
(* budgets and its repair round, the candidates of nora.selector behind    *)
(* each model call, and the reply ask_operation takes from the thread.     *)
(*                                                                         *)
(* The thread holds the answer texts.  A text is told apart by its turn    *)
(* and the model call that wrote it, and carries the verdict the checks    *)
(* would pass on it; what it says is left out.  Tool messages are counted, *)
(* not stored.  Turns of a conversation follow one another, as they do     *)
(* with the default concurrency of one.                                    *)
(***************************************************************************)
EXTENDS Integers, FiniteSets

CONSTANTS
  CallLimit,    \* retrieval calls of a turn (knowledge_call_limit)
  MaxRequests,  \* bound: tool calls in one reply of the model
  MaxTurns,     \* bound: questions asked in the conversation
  None,         \* no draft, no reply yet
  Failed        \* the reply of a turn that ended in an error

ASSUME BudgetAssumption ==
  /\ CallLimit \in Nat \ {0}
  /\ MaxRequests \in Nat
  /\ MaxTurns \in Nat

ModelCallLimit == CallLimit + 1

Texts == [turn: 1..MaxTurns, call: 1..ModelCallLimit,
          verdict: {"fit", "deficient", "broken"}]

ASSUME NoneAssumption ==
  None \notin Texts /\ Failed \notin Texts /\ None # Failed

VARIABLES
  turn,       \* the question last asked
  phase,      \* what the turn is about to do
  modelCalls, \* run_model_call_count
  attempted,  \* run_tool_call_count
  retrieved,  \* history: retrievals executed in this turn
  pending,    \* tool calls admitted and not yet run
  requested,  \* tool calls of the last reply; 0 when it is a text
  draft,      \* answer_draft_id, in the checkpoint: the text under repair
  repairs,    \* history: repair requests sent in this turn
  retries,    \* retries used by the model call under way
  fallbacks,  \* other candidates it may still turn to: none once that is done, or
              \* once a chunk is out
  thread,     \* answer texts in the checkpoint
  reply       \* per turn: None, the text published, or Failed

counts == <<modelCalls, attempted, retrieved, repairs>>
saved == <<draft, thread>>
choice == <<retries, fallbacks>>
vars == <<turn, phase, counts, pending, requested, saved, choice, reply>>

(* answer_repair: set and cleared together with answer_draft_id. *)
Repairing == draft # None

Init ==
  /\ turn = 0 /\ phase = "idle"
  /\ modelCalls = 0 /\ attempted = 0 /\ retrieved = 0 /\ repairs = 0
  /\ pending = 0 /\ requested = 0
  /\ draft = None /\ thread = {}
  /\ retries = 0 /\ fallbacks = 0
  /\ reply = [t \in 1..MaxTurns |-> None]

TextsOf(t) == {m \in thread : m.turn = t}

----------------------------------------------------------------------------
(* graph.ainvoke with a question.  Run counts start at zero; the repair    *)
(* state is whatever the checkpoint holds.                                 *)
Ask ==
  /\ phase = "idle"
  /\ turn < MaxTurns
  /\ turn' = turn + 1
  /\ phase' = "search"
  /\ modelCalls' = 0 /\ attempted' = 0 /\ retrieved' = 0 /\ repairs' = 0
  /\ pending' = 0 /\ requested' = 0
  /\ retries' = 0 /\ fallbacks' = 0
  /\ UNCHANGED <<saved, reply>>

\* Mutant: the failure of a turn is not reported.
EndUnreported == phase' = "idle" /\ UNCHANGED reply

(* The turn ends without an answer: the client gets an error. *)
EndInError ==
  /\ phase' = "idle"
  /\ reply' = [reply EXCEPT ![turn] = Failed]

\* Mutant: automatic retrievals are not counted.
GroundedUncounted(n) ==
  /\ phase' = "call"
  /\ attempted' = 0
  /\ draft' = None

\* Mutant: the repair state of the previous turn is kept.
GroundedKeepingRepair(n) ==
  /\ phase' = "call"
  /\ attempted' = n
  /\ UNCHANGED draft

(* What abefore_agent returns after n automatic retrievals. *)
Grounded(n) ==
  /\ phase' = "call"
  /\ attempted' = n
  /\ draft' = None

(* A read of the guide follows the search if the question names it or asks *)
(* what preparation preserves, and the search found a candidate: this is   *)
(* left to the texts.  It is never done on a budget of one.                *)
MayReadGuide == CallLimit > 1

(* abefore_agent: the automatic search.  Nothing is saved before a read    *)
(* that follows it.                                                        *)
AutomaticSearch ==
  /\ phase = "search"
  /\ retrieved' = retrieved + 1
  /\ \/ Grounded(1)
     \/ MayReadGuide /\ phase' = "read" /\ UNCHANGED <<attempted, draft>>
  /\ UNCHANGED <<turn, modelCalls, repairs, pending, requested,
                 choice, thread, reply>>

AutomaticRead ==
  /\ phase = "read"
  /\ retrieved' = retrieved + 1
  /\ Grounded(2)
  /\ UNCHANGED <<turn, modelCalls, repairs, pending, requested,
                 choice, thread, reply>>

----------------------------------------------------------------------------
(* before_model admits the call; awrap_model_call adds the repair request. *)
StartCall ==
  /\ phase = "call"
  /\ modelCalls < ModelCallLimit
  /\ phase' = "select"
  /\ retries' = 0 /\ fallbacks' = 0
  /\ repairs' = IF Repairing THEN repairs + 1 ELSE repairs
  /\ UNCHANGED <<turn, modelCalls, attempted, retrieved, pending,
                 requested, saved, reply>>

(* before_model: the model calls are used up. *)
CallRefused ==
  /\ phase = "call"
  /\ modelCalls >= ModelCallLimit
  /\ EndInError
  /\ UNCHANGED <<turn, counts, pending, requested, saved, choice>>

\* Mutant: the retry is not remembered.
CallRaisesForever ==
  /\ phase' = "select"
  /\ fallbacks' = 0
  /\ UNCHANGED <<retries, reply>>

(* The selector raised: one retry of the whole call, then the turn fails.  *)
CallRaises ==
  IF retries > 0
  THEN EndInError /\ UNCHANGED choice
  ELSE /\ phase' = "select"
       /\ retries' = 1
       /\ fallbacks' = 0
       /\ UNCHANGED reply

(* _selection ranks the candidates that can be built and raises if there   *)
(* is none; a third candidate is never tried.                              *)
SelectModels ==
  /\ phase = "select"
  /\ \/ CallRaises
     \/ \E viable \in 1..2 :
          /\ phase' = "ask"
          /\ fallbacks' = viable - 1
          /\ UNCHANGED <<retries, reply>>
  /\ UNCHANGED <<turn, counts, pending, requested, saved>>

(* The first chunk of a stream: from now on no other candidate is tried.   *)
EmitChunk ==
  /\ phase = "ask"
  /\ fallbacks > 0
  /\ fallbacks' = 0
  /\ UNCHANGED <<turn, phase, counts, pending, requested, saved, retries, reply>>

(* A provider fails.  The next candidate is asked if there is one and      *)
(* nothing was emitted yet; otherwise the call raises.                     *)
AttemptFails ==
  /\ phase = "ask"
  /\ IF fallbacks > 0
     THEN fallbacks' = 0 /\ UNCHANGED <<phase, retries, reply>>
     ELSE CallRaises
  /\ UNCHANGED <<turn, counts, pending, requested, saved>>

(* A provider answers with a text.  The checks of a scoped question or of  *)
(* a word cap can find it deficient; "broken" is empty or cut at its limit.*)
ReplyText(v) ==
  /\ phase = "ask"
  /\ phase' = "reply"
  /\ modelCalls' = modelCalls + 1
  /\ requested' = 0
  /\ thread' = thread \cup {[turn |-> turn, call |-> modelCalls + 1, verdict |-> v]}
  /\ UNCHANGED <<turn, attempted, retrieved, repairs, pending,
                 draft, choice, reply>>

(* A provider answers with tool calls, asked for tools or not. *)
ReplyTools(n) ==
  /\ phase = "ask"
  /\ phase' = "reply"
  /\ modelCalls' = modelCalls + 1
  /\ requested' = n
  /\ UNCHANGED <<turn, attempted, retrieved, repairs, pending,
                 saved, choice, reply>>

----------------------------------------------------------------------------
Answer == CHOOSE m \in thread : m.turn = turn /\ m.call = modelCalls

Admitted == LET room == CallLimit - attempted
            IN  IF room <= 0 THEN 0 ELSE IF requested < room THEN requested ELSE room

(* aafter_model finds no deficit in an answer that is neither empty nor    *)
(* cut.                                                                    *)
Publishable(m) == m.verdict = "fit"

\* Mutant: the draft stays beside its repair.
PublishKeepingDraft ==
  /\ phase = "reply" /\ requested = 0
  /\ Publishable(Answer)
  /\ phase' = "idle"
  /\ thread' = thread
  /\ reply' = [reply EXCEPT ![turn] = Answer]
  /\ UNCHANGED <<turn, counts, pending, requested, draft, choice>>

(* aafter_model lets the graph end, which removes the draft of a repaired  *)
(* answer; ask_operation returns the last text after the last question.    *)
Publish ==
  /\ phase = "reply" /\ requested = 0
  /\ Publishable(Answer)
  /\ phase' = "idle"
  /\ thread' = IF Repairing THEN thread \ {draft} ELSE thread
  /\ reply' = [reply EXCEPT ![turn] = Answer]
  /\ UNCHANGED <<turn, counts, pending, requested, draft, choice>>

(* aafter_model sends a deficient answer back to the model, once and only  *)
(* while the budget allows another call.                                   *)
StartRepair ==
  /\ phase = "reply" /\ requested = 0
  /\ ~Publishable(Answer)
  /\ Answer.verdict = "deficient" /\ ~Repairing /\ modelCalls < ModelCallLimit
  /\ phase' = "call"
  /\ draft' = Answer
  /\ UNCHANGED <<turn, counts, pending, requested, choice, thread,
                 reply>>

(* aafter_model raises: a broken answer, a deficient one that cannot be    *)
(* repaired any more, or tools requested by a repair.  The limiter runs    *)
(* first and answers the calls above the budget itself; the last message   *)
(* is then not the model's, and aafter_model looks no further.             *)
RejectReply ==
  /\ phase = "reply"
  /\ IF requested = 0
     THEN /\ ~Publishable(Answer)
          /\ \/ Answer.verdict = "broken"
             \/ Repairing
             \/ modelCalls >= ModelCallLimit
     ELSE Repairing /\ Admitted = requested
  /\ EndInError
  /\ UNCHANGED <<turn, counts, pending, requested, saved, choice>>

(* The limiter splits the requested calls: those within the budget go to   *)
(* the tool node, the others are answered with an error; all are counted.  *)
AdmitTools ==
  /\ phase = "reply" /\ requested > 0
  /\ ~(Repairing /\ Admitted = requested)
  /\ attempted' = attempted + requested
  /\ pending' = Admitted
  /\ phase' = IF Admitted = 0 THEN "call" ELSE "tools"
  /\ UNCHANGED <<turn, modelCalls, retrieved, repairs, requested,
                 saved, choice, reply>>

(* The tool node runs one of the admitted calls. *)
RunTool ==
  /\ phase = "tools"
  /\ retrieved' = retrieved + 1
  /\ pending' = pending - 1
  /\ phase' = IF pending = 1 THEN "call" ELSE "tools"
  /\ UNCHANGED <<turn, modelCalls, attempted, repairs, requested,
                 saved, choice, reply>>

(* A retrieval fails, the context is too long, an unavailable tool is      *)
(* called, the request times out, or the process stops.                    *)
Abort ==
  /\ phase # "idle"
  /\ EndInError
  /\ UNCHANGED <<turn, counts, pending, requested, saved, choice>>

----------------------------------------------------------------------------
TurnStep ==
  \/ AutomaticSearch \/ AutomaticRead
  \/ StartCall \/ CallRefused \/ SelectModels \/ EmitChunk \/ AttemptFails
  \/ \E v \in {"fit", "deficient", "broken"} : ReplyText(v)
  \/ \E n \in 1..MaxRequests : ReplyTools(n)
  \/ Publish \/ StartRepair \/ RejectReply \/ AdmitTools \/ RunTool

Next == Ask \/ TurnStep \/ Abort

(* Providers and retrieval answer or fail, and the event loop runs what is *)
(* ready; nothing has to time out.                                         *)
Spec == Init /\ [][Next]_vars /\ WF_vars(TurnStep)

----------------------------------------------------------------------------
(* Every variable has its type; no counter passes what its limiter allows. *)
TypeOK ==
  /\ turn \in 0..MaxTurns
  /\ phase \in {"idle", "search", "read", "call", "select", "ask", "reply", "tools"}
  /\ phase # "idle" => turn > 0
  /\ modelCalls \in 0..ModelCallLimit
  /\ attempted \in Nat /\ retrieved \in Nat /\ repairs \in Nat
  /\ pending \in 0..CallLimit
  /\ requested \in 0..MaxRequests
  /\ draft \in Texts \cup {None}
  /\ retries \in 0..1 /\ fallbacks \in 0..1
  /\ thread \subseteq Texts
  /\ reply \in [1..MaxTurns -> Texts \cup {None, Failed}]

(* The conversation keeps of an answered turn the answer the client got    *)
(* and nothing else: a repaired turn leaves no draft, and no later turn    *)
(* takes the answer away.                                                  *)
HistoryShowsTheAnswer ==
  \A t \in 1..turn : reply[t] \in Texts => TextsOf(t) = {reply[t]}

(* Automatic and requested retrievals share one budget: however the model  *)
(* spreads its requests, a turn runs no more than CallLimit of them, and   *)
(* asks the model at most once more than that.                             *)
BudgetsHold ==
  /\ retrieved <= CallLimit
  /\ modelCalls <= ModelCallLimit

(* Nothing a turn does changes what another turn left in the conversation, *)
(* whatever that turn died of.                                             *)
OtherTurnsUntouched ==
  [][\A t \in 1..MaxTurns : t # turn => TextsOf(t)' = TextsOf(t)]_vars

(* The promise to the user, see Dialogue: the texts that the conversation  *)
(* keeps of the answered turns are the answers given, whatever drafts are  *)
(* written and removed beside them.                                        *)
Shown == {m \in thread : reply[m.turn] \in Texts}

Promise == INSTANCE Dialogue WITH
  Acceptable <- [t \in 1..MaxTurns |-> {m \in Texts : m.turn = t /\ m.verdict = "fit"}],
  asked <- turn, settled <- reply, shown <- Shown

DialogueSpec == Promise!Spec

\* How far the turn is from its next model call, or from its end.
Stage ==
  CASE phase = "idle"   -> 0
    [] phase = "ask"    -> 5 + fallbacks - 3 * retries
    [] phase = "select" -> 7 - 3 * retries
    [] phase = "call"   -> 8
    [] phase = "tools"  -> 8 + pending
    [] phase = "reply"  -> 9 + CallLimit
    [] phase = "read"   -> 10 + CallLimit
    [] phase = "search" -> 11 + CallLimit

(* A turn cannot go round in circles: between the repair, the rounds of    *)
(* tools, the retry of a failed call and the other candidates, each step   *)
(* of a turn spends a model call or comes nearer to the next one.          *)
EveryStepSpends ==
  [][turn' = turn =>
       \/ modelCalls' > modelCalls
       \/ modelCalls' = modelCalls /\ Stage' < Stage]_vars

(* Every question gets an answer or an error, by its budgets alone and     *)
(* without the request timeout.                                            *)
TurnsEnd == \A t \in 1..MaxTurns : turn = t ~> reply[t] # None

(* An answer is repaired once, and a repair uses no tools. *)
RepairsOnceWithoutTools == repairs <= 1 /\ (Repairing => pending = 0)
=============================================================================
