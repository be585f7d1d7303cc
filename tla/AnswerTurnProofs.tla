-------------------------- MODULE AnswerTurnProofs --------------------------
(***************************************************************************)
(* What AnswerTurn promises for every call limit, any number of questions  *)
(* and any number of tool calls in a reply.  The invariant says what the   *)
(* thread holds of the turn in progress at each of its phases.             *)
(***************************************************************************)
EXTENDS AnswerTurn, TLAPS

Active == {"call", "select", "ask", "reply", "tools"}

\* What a turn in progress has left in the thread besides its last reply.
Drafts == IF Repairing THEN {draft} ELSE {}

(* Retrievals run or admitted stay within both the limit and the count the *)
(* limiter goes by.                                                        *)
Accounted ==
  /\ retrieved <= CallLimit
  /\ phase = "search" => retrieved = 0
  /\ phase = "read" => retrieved = 1 /\ CallLimit > 1
  /\ phase \in Active => /\ retrieved + pending <= attempted
                         /\ retrieved + pending <= CallLimit
  /\ phase \in {"search", "read", "call", "select", "ask", "reply"} => pending = 0
  /\ phase = "tools" => pending > 0
  /\ phase \in {"select", "ask"} => modelCalls < ModelCallLimit

(* The thread holds no text of a turn to come, and of the turn in progress *)
(* the draft under repair and the reply to be judged.                      *)
ThreadFollowsTurn ==
  /\ \A m \in thread : m.turn <= turn
  /\ phase \in {"search", "read"} => TextsOf(turn) = {}
  /\ phase \in Active /\ Repairing =>
       draft \in thread /\ draft.turn = turn /\ draft.call <= modelCalls
  /\ phase \in Active /\ ~(phase = "reply" /\ requested = 0) =>
       TextsOf(turn) = Drafts
  /\ phase = "reply" /\ requested = 0 =>
       \E a \in Texts :
         /\ a.turn = turn /\ a.call = modelCalls
         /\ TextsOf(turn) = Drafts \cup {a}
         /\ Repairing => draft.call < modelCalls

(* A turn that has not ended has no reply. *)
NoReplyYet ==
  /\ \A t \in 1..MaxTurns : t > turn => reply[t] = None
  /\ phase # "idle" => reply[turn] = None

\* A reply is a text that was written for its own question and passed.
RepliesPassed ==
  \A t \in 1..turn : reply[t] \in Texts =>
    reply[t].turn = t /\ reply[t].verdict = "fit"

IInv == /\ TypeOK
        /\ Accounted
        /\ ThreadFollowsTurn
        /\ NoReplyYet
        /\ RepliesPassed
        /\ HistoryShowsTheAnswer
----------------------------------------------------------------------------
(* The answer aafter_model judges is the text the thread holds of the last *)
(* model call.                                                             *)
LEMMA AnswerIsLastText ==
  ASSUME NEW a \in Texts, a.turn = turn, a.call = modelCalls,
         TextsOf(turn) = Drafts \cup {a},
         Repairing => draft.call < modelCalls,
         Repairing => draft \in Texts, modelCalls \in Nat
  PROVE  Answer = a
<1>1. a \in thread  BY DEF TextsOf
<1>2. ASSUME NEW m \in thread, m.turn = turn, m.call = modelCalls
      PROVE  m = a
  <2>1. m \in TextsOf(turn)  BY <1>2 DEF TextsOf
  <2>2. CASE Repairing /\ m = draft
    <3>1. draft.call < modelCalls /\ draft.call = modelCalls  BY <1>2, <2>2
    <3>2. QED  BY <3>1
  <2>3. QED  BY <2>1, <2>2 DEF Drafts
<1>3. QED  BY <1>1, <1>2 DEF Answer

(* What the limiter admits fits the budget and the request. *)
LEMMA AdmittedFits ==
  ASSUME attempted \in Nat, requested \in Nat
  PROVE  /\ Admitted \in 0..CallLimit
         /\ Admitted <= requested
         /\ Admitted = 0 \/ attempted + Admitted <= CallLimit
BY BudgetAssumption DEF Admitted

LEMMA InitHolds == Init => IInv
<1> SUFFICES ASSUME Init PROVE IInv  OBVIOUS
<1>1. TypeOK
  <2>1. reply \in [1..MaxTurns -> Texts \cup {None, Failed}]  BY DEF Init
  <2>2. QED
    BY <2>1, BudgetAssumption DEF Init, TypeOK, ModelCallLimit
<1>2. Accounted  BY BudgetAssumption DEF Init, Accounted, Active
<1>3. ThreadFollowsTurn  BY DEF Init, ThreadFollowsTurn, Active, TextsOf
<1>4. NoReplyYet  BY DEF Init, NoReplyYet
<1>5. RepliesPassed /\ HistoryShowsTheAnswer
  BY DEF Init, RepliesPassed, HistoryShowsTheAnswer
<1>6. QED  BY <1>1, <1>2, <1>3, <1>4, <1>5 DEF IInv

(* A reply to be judged is a text of this turn and of the last model call. *)
LEMMA ReplyHasAnswer ==
  ASSUME IInv, phase = "reply", requested = 0
  PROVE  /\ Answer \in Texts
         /\ Answer.turn = turn
         /\ Answer.call = modelCalls
         /\ TextsOf(turn) = Drafts \cup {Answer}
         /\ Repairing => draft \in Texts /\ draft.call < modelCalls
<1>1. PICK a \in Texts :
        /\ a.turn = turn /\ a.call = modelCalls
        /\ TextsOf(turn) = Drafts \cup {a}
        /\ Repairing => draft.call < modelCalls
  BY DEF IInv, ThreadFollowsTurn
<1>2. Repairing => draft \in Texts
  BY DEF IInv, TypeOK, Repairing
<1>3. modelCalls \in Nat
  BY BudgetAssumption DEF IInv, TypeOK, ModelCallLimit
<1>4. Answer = a
  BY <1>1, <1>2, <1>3, AnswerIsLastText
<1>5. QED  BY <1>1, <1>2, <1>4


(* Each step keeps the types. *)
LEMMA TypeStep ==
  ASSUME IInv, [Next]_vars
  PROVE  TypeOK'
<1> USE BudgetAssumption DEF IInv, TypeOK, ModelCallLimit
<1>1. ASSUME AutomaticSearch PROVE TypeOK'
  BY <1>1 DEF AutomaticSearch, Grounded, counts, saved, choice
<1>2. ASSUME AutomaticRead PROVE TypeOK'
  BY <1>2 DEF AutomaticRead, Grounded, counts, saved, choice
<1>3. ASSUME StartCall PROVE TypeOK'
  BY <1>3 DEF StartCall, counts, saved, choice
<1>4. ASSUME CallRefused PROVE TypeOK'
  BY <1>4 DEF CallRefused, EndInError, counts, saved, choice
<1>5. ASSUME SelectModels PROVE TypeOK'
  BY <1>5 DEF SelectModels, CallRaises, EndInError, counts, saved, choice
<1>6. ASSUME EmitChunk PROVE TypeOK'
  BY <1>6 DEF EmitChunk, counts, saved, choice
<1>7. ASSUME AttemptFails PROVE TypeOK'
  BY <1>7 DEF AttemptFails, CallRaises, EndInError, counts, saved, choice
<1>8. ASSUME NEW v \in {"fit", "deficient", "broken"}, ReplyText(v)
      PROVE TypeOK'
  <2>1. phase = "ask" => modelCalls < ModelCallLimit
    BY DEF Accounted, Active
  <2>2. [turn |-> turn, call |-> modelCalls + 1, verdict |-> v] \in Texts
    BY <1>8, <2>1 DEF ReplyText, Texts
  <2>3. QED
    BY <1>8, <2>1, <2>2 DEF ReplyText, saved, choice, counts
<1>9. ASSUME NEW n \in 1..MaxRequests, ReplyTools(n) PROVE TypeOK'
  <2>1. phase = "ask" => modelCalls < ModelCallLimit
    BY DEF Accounted, Active
  <2>2. QED
    BY <1>9, <2>1 DEF ReplyTools, counts, saved, choice
<1>10. ASSUME Publish PROVE TypeOK'
  <2>1. Answer \in Texts
    BY <1>10, ReplyHasAnswer DEF Publish
  <2>2. reply' \in [1..MaxTurns -> Texts \cup {None, Failed}]
    BY <1>10, <2>1 DEF Publish
  <2>3. thread' \subseteq Texts
    BY <1>10 DEF Publish
  <2>4. QED
    BY <1>10, <2>2, <2>3 DEF Publish, counts, choice
<1>11. ASSUME StartRepair PROVE TypeOK'
  <2>1. Answer \in Texts
    BY <1>11, ReplyHasAnswer DEF StartRepair
  <2>2. QED
    BY <1>11, <2>1 DEF StartRepair, counts, choice
<1>12. ASSUME RejectReply PROVE TypeOK'
  BY <1>12 DEF RejectReply, EndInError, counts, saved, choice
<1>13. ASSUME AdmitTools PROVE TypeOK'
  <2>1. Admitted \in 0..CallLimit
    BY AdmittedFits
  <2>2. QED
    BY <1>13, <2>1 DEF AdmitTools, saved, choice
<1>14. ASSUME RunTool PROVE TypeOK'
  <2>1. phase = "tools" => pending > 0
    BY DEF Accounted
  <2>2. QED
    BY <1>14, <2>1 DEF RunTool, saved, choice
<1>15. ASSUME Abort PROVE TypeOK'
  BY <1>15 DEF Abort, EndInError, counts, saved, choice
<1>16. ASSUME Ask PROVE TypeOK'
  BY <1>16 DEF Ask, counts, saved, choice
<1>17. ASSUME UNCHANGED vars PROVE TypeOK'
  BY <1>17 DEF vars, counts, saved, choice
<1>18. QED
  BY <1>1, <1>2, <1>3, <1>4, <1>5, <1>6, <1>7, <1>8, <1>9, <1>10, <1>11,
     <1>12, <1>13, <1>14, <1>15, <1>16, <1>17
     DEF Next, TurnStep


(* Each step keeps retrievals within what is accounted for. *)
LEMMA AccountedStep ==
  ASSUME IInv, [Next]_vars
  PROVE  Accounted'
<1> USE BudgetAssumption DEF IInv, TypeOK, Accounted, Active, ModelCallLimit
<1>1. ASSUME AutomaticSearch PROVE Accounted'
  BY <1>1 DEF AutomaticSearch, MayReadGuide, Grounded, counts, saved, choice
<1>2. ASSUME AutomaticRead PROVE Accounted'
  BY <1>2 DEF AutomaticRead, Grounded, counts, saved, choice
<1>3. ASSUME StartCall PROVE Accounted'
  BY <1>3 DEF StartCall, counts, saved, choice
<1>4. ASSUME CallRefused PROVE Accounted'
  BY <1>4 DEF CallRefused, EndInError, counts, saved, choice
<1>5. ASSUME SelectModels PROVE Accounted'
  BY <1>5 DEF SelectModels, CallRaises, EndInError, counts, saved, choice
<1>6. ASSUME EmitChunk PROVE Accounted'
  BY <1>6 DEF EmitChunk, counts, saved, choice
<1>7. ASSUME AttemptFails PROVE Accounted'
  BY <1>7 DEF AttemptFails, CallRaises, EndInError, counts, saved, choice
<1>8. ASSUME NEW v \in {"fit", "deficient", "broken"}, ReplyText(v)
      PROVE Accounted'
  BY <1>8 DEF ReplyText, counts, saved, choice
<1>9. ASSUME NEW n \in 1..MaxRequests, ReplyTools(n) PROVE Accounted'
  BY <1>9 DEF ReplyTools, counts, saved, choice
<1>10. ASSUME Publish PROVE Accounted'
  BY <1>10 DEF Publish, counts, saved, choice
<1>11. ASSUME StartRepair PROVE Accounted'
  BY <1>11 DEF StartRepair, counts, saved, choice
<1>12. ASSUME RejectReply PROVE Accounted'
  BY <1>12 DEF RejectReply, EndInError, counts, saved, choice
<1>13. ASSUME AdmitTools PROVE Accounted'
  <2>1. /\ Admitted \in 0..CallLimit
        /\ Admitted <= requested
        /\ Admitted = 0 \/ attempted + Admitted <= CallLimit
    BY AdmittedFits
  <2>2. retrieved <= attempted /\ retrieved <= CallLimit /\ pending = 0
    BY <1>13 DEF AdmitTools
  <2>3. retrieved + Admitted <= attempted + requested
    BY <2>1, <2>2
  <2>4. retrieved + Admitted <= CallLimit
    BY <2>1, <2>2
  <2>5. QED
    BY <1>13, <2>1, <2>2, <2>3, <2>4 DEF AdmitTools, saved, choice
<1>14. ASSUME RunTool PROVE Accounted'
  BY <1>14 DEF RunTool, counts, saved, choice
<1>15. ASSUME Abort PROVE Accounted'
  BY <1>15 DEF Abort, EndInError, counts, saved, choice
<1>16. ASSUME Ask PROVE Accounted'
  BY <1>16 DEF Ask, counts, saved, choice
<1>17. ASSUME UNCHANGED vars PROVE Accounted'
  BY <1>17 DEF vars, counts, saved, choice
<1>18. QED
  BY <1>1, <1>2, <1>3, <1>4, <1>5, <1>6, <1>7, <1>8, <1>9, <1>10, <1>11,
     <1>12, <1>13, <1>14, <1>15, <1>16, <1>17
     DEF Next, TurnStep


(* A step that leaves turn, thread and draft alone leaves what is derived  *)
(* from them.                                                              *)
LEMMA ThreadKept ==
  ASSUME UNCHANGED <<turn, thread, draft>>
  PROVE  /\ TextsOf(turn)' = TextsOf(turn)
         /\ Drafts' = Drafts
         /\ Repairing' = Repairing
BY DEF TextsOf, Drafts, Repairing


(* Each step keeps what the thread holds of the turn in progress. *)
LEMMA ThreadStep ==
  ASSUME IInv, [Next]_vars
  PROVE  ThreadFollowsTurn'
<1> USE BudgetAssumption
    DEF IInv, TypeOK, Accounted, ThreadFollowsTurn, Active, ModelCallLimit
<1>1. ASSUME AutomaticSearch PROVE ThreadFollowsTurn'
  <2>1. TextsOf(turn) = {} /\ TextsOf(turn)' = TextsOf(turn)
    BY <1>1 DEF AutomaticSearch, TextsOf
  <2>2. phase' = "call" => Drafts' = {} /\ ~Repairing'
    BY <1>1 DEF AutomaticSearch, Grounded, Drafts, Repairing
  <2>3. QED
    BY <1>1, <2>1, <2>2 DEF AutomaticSearch, Grounded
<1>2. ASSUME AutomaticRead PROVE ThreadFollowsTurn'
  <2>1. TextsOf(turn) = {} /\ TextsOf(turn)' = TextsOf(turn)
    BY <1>2 DEF AutomaticRead, TextsOf
  <2>2. phase' = "call" => Drafts' = {} /\ ~Repairing'
    BY <1>2 DEF AutomaticRead, Grounded, Drafts, Repairing
  <2>3. QED
    BY <1>2, <2>1, <2>2 DEF AutomaticRead, Grounded
<1>3. ASSUME StartCall PROVE ThreadFollowsTurn'
  <2>1. UNCHANGED <<turn, thread, draft>>
    BY <1>3 DEF StartCall, counts, saved, choice
  <2>2. QED
    BY <1>3, <2>1, ThreadKept DEF StartCall, counts, saved, choice
<1>4. ASSUME CallRefused PROVE ThreadFollowsTurn'
  <2>1. UNCHANGED <<turn, thread, draft>>
    BY <1>4 DEF CallRefused, EndInError, counts, saved, choice
  <2>2. QED
    BY <1>4, <2>1, ThreadKept DEF CallRefused, EndInError, counts, saved, choice
<1>5. ASSUME SelectModels PROVE ThreadFollowsTurn'
  <2>1. UNCHANGED <<turn, thread, draft>>
    BY <1>5 DEF SelectModels, CallRaises, EndInError, counts, saved, choice
  <2>2. QED
    BY <1>5, <2>1, ThreadKept
       DEF SelectModels, CallRaises, EndInError, counts, saved, choice
<1>6. ASSUME EmitChunk PROVE ThreadFollowsTurn'
  <2>1. UNCHANGED <<turn, thread, draft>>
    BY <1>6 DEF EmitChunk, counts, saved, choice
  <2>2. QED
    BY <1>6, <2>1, ThreadKept DEF EmitChunk, counts, saved, choice
<1>7. ASSUME AttemptFails PROVE ThreadFollowsTurn'
  <2>1. UNCHANGED <<turn, thread, draft>>
    BY <1>7 DEF AttemptFails, CallRaises, EndInError, counts, saved, choice
  <2>2. QED
    BY <1>7, <2>1, ThreadKept
       DEF AttemptFails, CallRaises, EndInError, counts, saved, choice
<1>8. ASSUME NEW v \in {"fit", "deficient", "broken"}, ReplyText(v)
      PROVE ThreadFollowsTurn'
  <2> DEFINE a == [turn |-> turn, call |-> modelCalls + 1, verdict |-> v]
  <2>1. a \in Texts /\ a.turn = turn /\ a.call = modelCalls + 1
    BY <1>8 DEF ReplyText, Accounted, Texts
  <2>2. TextsOf(turn)' = TextsOf(turn) \cup {a}
    BY <1>8 DEF ReplyText, TextsOf
  <2>3. TextsOf(turn) = Drafts /\ Drafts' = Drafts
    BY <1>8 DEF ReplyText, Drafts, Repairing
  <2>4. Repairing => draft.call \in Nat /\ draft.call <= modelCalls
    BY <1>8 DEF ReplyText, Texts, Repairing
  <2>5. \A m \in thread' : m.turn <= turn'
    BY <1>8, <2>1 DEF ReplyText
  <2> HIDE DEF a
  <2>6. QED
    BY <1>8, <2>1, <2>2, <2>3, <2>4, <2>5 DEF ReplyText, Repairing
<1>9. ASSUME NEW n \in 1..MaxRequests, ReplyTools(n) PROVE ThreadFollowsTurn'
  <2>1. UNCHANGED <<turn, thread, draft>> /\ requested' # 0
    BY <1>9 DEF ReplyTools, saved
  <2>2. Repairing => /\ draft \in thread /\ draft.turn = turn
                     /\ draft.call \in Nat /\ draft.call <= modelCalls
    BY <1>9 DEF ReplyTools, Texts
  <2>3. TextsOf(turn) = Drafts
    BY <1>9 DEF ReplyTools
  <2>4. Repairing => draft.call <= modelCalls'
    BY <1>9, <2>2 DEF ReplyTools
  <2>5. QED
    BY <1>9, <2>1, <2>2, <2>3, <2>4, ThreadKept DEF ReplyTools
<1>10. ASSUME Publish PROVE ThreadFollowsTurn'
  BY <1>10 DEF Publish, counts, choice, TextsOf
<1>11. ASSUME StartRepair PROVE ThreadFollowsTurn'
  <2>1. /\ Answer \in Texts /\ Answer.turn = turn /\ Answer.call = modelCalls
        /\ TextsOf(turn) = Drafts \cup {Answer}
    BY <1>11, ReplyHasAnswer DEF StartRepair, IInv
  <2>2. Drafts = {} /\ Drafts' = {Answer} /\ Repairing'
    BY <1>11, <2>1, NoneAssumption DEF StartRepair, Drafts, Repairing
  <2>3. Answer \in thread
    BY <2>1 DEF TextsOf
  <2>4. TextsOf(turn)' = TextsOf(turn)
    BY <1>11 DEF StartRepair, TextsOf
  <2> HIDE DEF TypeOK
  <2>5. QED
    BY <1>11, <2>1, <2>2, <2>3, <2>4 DEF StartRepair, counts, choice, TypeOK
<1>12. ASSUME RejectReply PROVE ThreadFollowsTurn'
  <2>1. UNCHANGED <<turn, thread, draft>>
    BY <1>12 DEF RejectReply, EndInError, counts, saved, choice
  <2>2. QED
    BY <1>12, <2>1, ThreadKept
       DEF RejectReply, EndInError, counts, saved, choice
<1>13. ASSUME AdmitTools PROVE ThreadFollowsTurn'
  <2>1. UNCHANGED <<turn, thread, draft>>
    BY <1>13 DEF AdmitTools, counts, saved, choice
  <2>2. QED
    BY <1>13, <2>1, ThreadKept DEF AdmitTools, counts, saved, choice
<1>14. ASSUME RunTool PROVE ThreadFollowsTurn'
  <2>1. UNCHANGED <<turn, thread, draft>>
    BY <1>14 DEF RunTool, counts, saved, choice
  <2>2. QED
    BY <1>14, <2>1, ThreadKept DEF RunTool, counts, saved, choice
<1>15. ASSUME Abort PROVE ThreadFollowsTurn'
  <2>1. UNCHANGED <<turn, thread, draft>>
    BY <1>15 DEF Abort, EndInError, counts, saved, choice
  <2>2. QED
    BY <1>15, <2>1, ThreadKept DEF Abort, EndInError, counts, saved, choice
<1>16. ASSUME Ask PROVE ThreadFollowsTurn'
  BY <1>16 DEF Ask, saved, TextsOf, Texts
<1>17. ASSUME UNCHANGED vars PROVE ThreadFollowsTurn'
  <2>1. UNCHANGED <<turn, thread, draft>>
    BY <1>17 DEF vars, counts, saved, choice
  <2>2. QED
    BY <1>17, <2>1, ThreadKept DEF vars, counts, saved, choice
<1>18. QED
  BY <1>1, <1>2, <1>3, <1>4, <1>5, <1>6, <1>7, <1>8, <1>9, <1>10, <1>11,
     <1>12, <1>13, <1>14, <1>15, <1>16, <1>17
     DEF Next, TurnStep


\* What a step does to replies and to the texts of the turns.
RepliesOK == NoReplyYet /\ RepliesPassed /\ HistoryShowsTheAnswer

(* A step that leaves the thread and the replies alone keeps them right.   *)
LEMMA RepliesKept ==
  ASSUME IInv, UNCHANGED <<turn, thread, reply>>, phase # "idle" \/ phase' = "idle"
  PROVE  RepliesOK'
BY DEF IInv, RepliesOK, NoReplyYet, RepliesPassed,
   HistoryShowsTheAnswer, TextsOf

(* So does a turn that ends in an error. *)
LEMMA RepliesAfterError ==
  ASSUME IInv, phase # "idle", EndInError, UNCHANGED <<turn, thread>>
  PROVE  RepliesOK'
<1>1. turn \in 1..MaxTurns
  BY BudgetAssumption DEF IInv, TypeOK
<1>2. \A t \in 1..MaxTurns : reply'[t] = IF t = turn THEN Failed ELSE reply[t]
  BY <1>1 DEF EndInError, IInv, TypeOK
<1>3. NoReplyYet'
  BY <1>1, <1>2 DEF EndInError, IInv, NoReplyYet
<1>4. RepliesPassed' /\ HistoryShowsTheAnswer'
  BY <1>1, <1>2, NoneAssumption, BudgetAssumption
     DEF IInv, RepliesPassed, HistoryShowsTheAnswer, TextsOf
<1>5. QED  BY <1>3, <1>4 DEF RepliesOK


(* Each step keeps the replies right. *)
LEMMA RepliesStep ==
  ASSUME IInv, [Next]_vars
  PROVE  RepliesOK'
<1> USE BudgetAssumption
<1>1. ASSUME AutomaticSearch PROVE RepliesOK'
  BY <1>1, RepliesKept DEF AutomaticSearch, Grounded, counts, saved, choice
<1>2. ASSUME AutomaticRead PROVE RepliesOK'
  BY <1>2, RepliesKept DEF AutomaticRead, Grounded, counts, saved, choice
<1>3. ASSUME StartCall PROVE RepliesOK'
  BY <1>3, RepliesKept DEF StartCall, counts, saved, choice
<1>4. ASSUME CallRefused PROVE RepliesOK'
  BY <1>4, RepliesAfterError DEF CallRefused, saved
<1>5. ASSUME SelectModels PROVE RepliesOK'
  <2>1. CASE EndInError
    BY <1>5, <2>1, RepliesAfterError DEF SelectModels, saved
  <2>2. CASE ~EndInError
    BY <1>5, <2>2, RepliesKept DEF SelectModels, CallRaises, saved
  <2>3. QED  BY <2>1, <2>2
<1>6. ASSUME EmitChunk PROVE RepliesOK'
  BY <1>6, RepliesKept DEF EmitChunk, counts, saved, choice
<1>7. ASSUME AttemptFails PROVE RepliesOK'
  <2>1. CASE EndInError
    BY <1>7, <2>1, RepliesAfterError DEF AttemptFails, saved
  <2>2. CASE ~EndInError
    BY <1>7, <2>2, RepliesKept DEF AttemptFails, CallRaises, saved
  <2>3. QED  BY <2>1, <2>2
<1>8. ASSUME NEW v \in {"fit", "deficient", "broken"}, ReplyText(v)
      PROVE RepliesOK'
  <2>1. turn \in 1..MaxTurns /\ reply[turn] = None
    BY <1>8 DEF ReplyText, IInv, TypeOK, NoReplyYet
  <2>2. \A t \in 1..MaxTurns : t # turn => TextsOf(t)' = TextsOf(t)
    BY <1>8 DEF ReplyText, TextsOf
  <2>3. NoReplyYet'
    BY <1>8 DEF ReplyText, IInv, NoReplyYet
  <2>4. turn' = turn /\ reply' = reply
    BY <1>8 DEF ReplyText
  <2>5. RepliesPassed'
    BY <2>4 DEF IInv, RepliesPassed
  <2>6. HistoryShowsTheAnswer'
    <3> SUFFICES ASSUME NEW t \in 1..turn, reply[t] \in Texts
                 PROVE  TextsOf(t)' = {reply[t]}
      BY <2>4 DEF HistoryShowsTheAnswer
    <3>1. t # turn /\ t \in 1..MaxTurns
      BY <2>1, NoneAssumption
    <3>2. QED
      BY <3>1, <2>2 DEF IInv, HistoryShowsTheAnswer
  <2>7. QED  BY <2>3, <2>5, <2>6 DEF RepliesOK
<1>9. ASSUME NEW n \in 1..MaxRequests, ReplyTools(n) PROVE RepliesOK'
  BY <1>9, RepliesKept DEF ReplyTools, counts, saved, choice
<1>10. ASSUME Publish PROVE RepliesOK'
  <2>1. turn \in 1..MaxTurns
    BY <1>10 DEF Publish, IInv, TypeOK
  <2>2. /\ Answer \in Texts /\ Answer.turn = turn /\ Answer.call = modelCalls
        /\ TextsOf(turn) = Drafts \cup {Answer}
        /\ Repairing => draft \in Texts /\ draft.call < modelCalls
    BY <1>10, ReplyHasAnswer DEF Publish
  <2>3. /\ turn' = turn /\ phase' = "idle"
        /\ \A t \in 1..MaxTurns : reply'[t] = IF t = turn THEN Answer ELSE reply[t]
    BY <1>10 DEF Publish, IInv, TypeOK
  <2>4. NoReplyYet'
    BY <2>1, <2>3 DEF IInv, NoReplyYet
  <2>5. RepliesPassed'
    BY <1>10, <2>1, <2>2, <2>3 DEF Publish, Publishable, IInv, RepliesPassed
  <2>6. TextsOf(turn)' = {Answer}
    <3>1. modelCalls \in Nat
      BY DEF IInv, TypeOK, ModelCallLimit
    <3>2. Repairing => draft # Answer
      BY <2>2, <3>1
    <3>3. QED
      BY <1>10, <2>2, <3>2 DEF Publish, TextsOf, Drafts
  <2>7. ASSUME NEW t \in 1..MaxTurns, t # turn
        PROVE  TextsOf(t)' = TextsOf(t)
    <3>1. Repairing => draft.turn = turn
      BY <1>10 DEF Publish, IInv, ThreadFollowsTurn, Active
    <3>2. QED
      BY <1>10, <2>7, <3>1 DEF Publish, TextsOf
  <2>8. HistoryShowsTheAnswer'
    <3> SUFFICES ASSUME NEW t \in 1..turn, reply'[t] \in Texts
                 PROVE  TextsOf(t)' = {reply'[t]}
      BY <2>3 DEF HistoryShowsTheAnswer
    <3>1. t \in 1..MaxTurns
      BY <2>1
    <3>2. CASE t = turn
      BY <3>1, <3>2, <2>3, <2>6
    <3>3. CASE t # turn
      BY <3>1, <3>3, <2>3, <2>7 DEF IInv, HistoryShowsTheAnswer
    <3>4. QED  BY <3>2, <3>3
  <2>9. QED  BY <2>4, <2>5, <2>8 DEF RepliesOK
<1>11. ASSUME StartRepair PROVE RepliesOK'
  BY <1>11, RepliesKept DEF StartRepair, counts, saved, choice
<1>12. ASSUME RejectReply PROVE RepliesOK'
  BY <1>12, RepliesAfterError DEF RejectReply, saved
<1>13. ASSUME AdmitTools PROVE RepliesOK'
  BY <1>13, RepliesKept DEF AdmitTools, counts, saved, choice
<1>14. ASSUME RunTool PROVE RepliesOK'
  BY <1>14, RepliesKept DEF RunTool, counts, saved, choice
<1>15. ASSUME Abort PROVE RepliesOK'
  BY <1>15, RepliesAfterError DEF Abort, saved
<1>16. ASSUME Ask PROVE RepliesOK'
  <2>1. /\ turn \in Nat /\ turn' = turn + 1 /\ turn' \in 1..MaxTurns
        /\ reply' = reply /\ thread' = thread
    BY <1>16 DEF Ask, saved, IInv, TypeOK
  <2>2. reply[turn'] = None
    BY <2>1 DEF IInv, NoReplyYet
  <2>3. NoReplyYet'
    BY <2>1, <2>2 DEF IInv, NoReplyYet
  <2>4. RepliesPassed' /\ HistoryShowsTheAnswer'
    BY <2>1, <2>2, NoneAssumption
       DEF IInv, RepliesPassed, HistoryShowsTheAnswer, TextsOf
  <2>5. QED  BY <2>3, <2>4 DEF RepliesOK
<1>17. ASSUME UNCHANGED vars PROVE RepliesOK'
  BY <1>17, RepliesKept DEF vars, counts, saved, choice
<1>18. QED
  BY <1>1, <1>2, <1>3, <1>4, <1>5, <1>6, <1>7, <1>8, <1>9, <1>10, <1>11,
     <1>12, <1>13, <1>14, <1>15, <1>16, <1>17
     DEF Next, TurnStep


(* Only a reply adds a text and only a repaired answer removes one, both   *)
(* of the turn in progress.                                                *)
LEMMA OtherTextsKept ==
  ASSUME IInv, [Next]_vars, NEW t \in 1..MaxTurns, t # turn
  PROVE  TextsOf(t)' = TextsOf(t)
<1>1. CASE UNCHANGED thread
  BY <1>1 DEF TextsOf
<1>2. ASSUME NEW v \in {"fit", "deficient", "broken"}, ReplyText(v)
      PROVE  TextsOf(t)' = TextsOf(t)
  BY <1>2 DEF ReplyText, TextsOf
<1>3. CASE Publish
  <2>1. Repairing => draft.turn = turn
    BY <1>3 DEF Publish, IInv, ThreadFollowsTurn, Active
  <2>2. QED
    BY <1>3, <2>1 DEF Publish, TextsOf
<1>4. QED
  BY <1>1, <1>2, <1>3
     DEF Next, TurnStep, Ask, AutomaticSearch, AutomaticRead, StartCall,
         CallRefused, SelectModels, EmitChunk, AttemptFails, ReplyTools,
         StartRepair, RejectReply, AdmitTools, RunTool, Abort, vars, saved

(* The invariant holds in every state. *)
LEMMA Invariance == Spec => []IInv
<1>1. IInv /\ [Next]_vars => IInv'
  BY TypeStep, AccountedStep, ThreadStep, RepliesStep DEF IInv, RepliesOK
<1>2. QED  BY InitHolds, <1>1, PTL DEF Spec

(* For every call limit, the counters and the thread have their types.     *)
THEOREM TurnTypes == Spec => []TypeOK
<1>1. IInv => TypeOK  BY DEF IInv
<1>2. QED  BY Invariance, <1>1, PTL

(* For every call limit and however many tools a reply requests, a turn    *)
(* stays within its retrieval and its model budget.                        *)
THEOREM TurnsKeepTheirBudgets == Spec => []BudgetsHold
<1>1. IInv => BudgetsHold
  BY BudgetAssumption DEF IInv, TypeOK, Accounted, BudgetsHold, ModelCallLimit
<1>2. QED  BY Invariance, <1>1, PTL

(* For any number of turns, drafts, repairs and failures, the conversation *)
(* shows of an answered turn the answer the client got.                    *)
THEOREM HistoryShowsPublishedAnswers == Spec => []HistoryShowsTheAnswer
<1>1. IInv => HistoryShowsTheAnswer  BY DEF IInv
<1>2. QED  BY Invariance, <1>1, PTL

(* Whatever a turn does or dies of, it changes no text of another turn.    *)
THEOREM TurnsLeaveOthersAlone == Spec => OtherTurnsUntouched
<1>1. IInv /\ [Next]_vars =>
        [\A t \in 1..MaxTurns : t # turn => TextsOf(t)' = TextsOf(t)]_vars
  BY OtherTextsKept
<1>2. QED  BY Invariance, <1>1, PTL DEF Spec, OtherTurnsUntouched

----------------------------------------------------------------------------
(* The stages in numbers, before and after a step.                         *)
LEMMA StageNumbers ==
  /\ phase = "idle" => Stage = 0
  /\ phase = "ask" => Stage = 5 + fallbacks - 3 * retries
  /\ phase = "select" => Stage = 7 - 3 * retries
  /\ phase = "call" => Stage = 8
  /\ phase = "tools" => Stage = 8 + pending
  /\ phase = "reply" => Stage = 9 + CallLimit
  /\ phase = "read" => Stage = 10 + CallLimit
  /\ phase = "search" => Stage = 11 + CallLimit
BY DEF Stage

LEMMA StageNumbersAfter ==
  /\ phase' = "idle" => Stage' = 0
  /\ phase' = "ask" => Stage' = 5 + fallbacks' - 3 * retries'
  /\ phase' = "select" => Stage' = 7 - 3 * retries'
  /\ phase' = "call" => Stage' = 8
  /\ phase' = "tools" => Stage' = 8 + pending'
  /\ phase' = "reply" => Stage' = 9 + CallLimit
  /\ phase' = "read" => Stage' = 10 + CallLimit
  /\ phase' = "search" => Stage' = 11 + CallLimit
BY DEF Stage

(* A turn under way is at some distance from its end.                      *)
LEMMA StageIsPositive ==
  ASSUME IInv, phase # "idle"
  PROVE  Stage \in Nat /\ Stage > 0
BY StageNumbers, BudgetAssumption DEF IInv, TypeOK, Accounted

LEMMA StepSpends ==
  ASSUME IInv, TurnStep \/ Abort
  PROVE  \/ modelCalls' > modelCalls
         \/ modelCalls' = modelCalls /\ Stage' < Stage
<1>0. /\ CallLimit \in Nat /\ modelCalls \in Nat /\ pending \in Nat
      /\ retries \in 0..1 /\ fallbacks \in 0..1
  BY BudgetAssumption DEF IInv, TypeOK, ModelCallLimit
<1> DEFINE Spent == modelCalls' > modelCalls \/ (modelCalls' = modelCalls /\ Stage' < Stage)
<1>1. ASSUME phase' = "idle", phase # "idle", modelCalls' = modelCalls PROVE Spent
  BY <1>1, StageIsPositive, StageNumbersAfter
<1>2. CASE AutomaticSearch \/ AutomaticRead
  BY <1>0, <1>2, StageNumbers, StageNumbersAfter DEF AutomaticSearch, AutomaticRead, Grounded
<1>3. CASE StartCall
  BY <1>0, <1>3, StageNumbers, StageNumbersAfter DEF StartCall
<1>4. CASE SelectModels
  <2>1. CASE CallRaises /\ retries > 0
    BY <1>1, <1>4, <2>1 DEF SelectModels, CallRaises, EndInError, counts
  <2>2. CASE CallRaises /\ ~(retries > 0)
    BY <1>0, <1>4, <2>2, StageNumbers, StageNumbersAfter DEF SelectModels, CallRaises, counts
  <2>3. CASE \E viable \in 1..2 :
               phase' = "ask" /\ fallbacks' = viable - 1 /\ UNCHANGED <<retries, reply>>
    BY <1>0, <1>4, <2>3, StageNumbers, StageNumbersAfter DEF SelectModels, counts
  <2> QED BY <1>4, <2>1, <2>2, <2>3 DEF SelectModels
<1>5. CASE EmitChunk
  BY <1>0, <1>5, StageNumbers, StageNumbersAfter DEF EmitChunk, counts
<1>6. CASE AttemptFails
  <2>1. CASE fallbacks > 0
    BY <1>0, <1>6, <2>1, StageNumbers, StageNumbersAfter DEF AttemptFails, counts
  <2>2. CASE ~(fallbacks > 0) /\ retries > 0
    BY <1>1, <1>6, <2>2 DEF AttemptFails, CallRaises, EndInError, counts
  <2>3. CASE ~(fallbacks > 0) /\ ~(retries > 0)
    BY <1>0, <1>6, <2>3, StageNumbers, StageNumbersAfter DEF AttemptFails, CallRaises, counts
  <2> QED BY <2>1, <2>2, <2>3
<1>7. ASSUME \/ \E v \in {"fit", "deficient", "broken"} : ReplyText(v)
             \/ \E n \in 1..MaxRequests : ReplyTools(n)
      PROVE  Spent
  BY <1>0, <1>7 DEF ReplyText, ReplyTools
<1>8. CASE CallRefused \/ Publish \/ RejectReply \/ Abort
  BY <1>1, <1>8 DEF CallRefused, Publish, RejectReply, Abort, EndInError, counts
<1>9. CASE StartRepair
  BY <1>0, <1>9, StageNumbers, StageNumbersAfter DEF StartRepair, counts
<1>10. CASE AdmitTools
  <2>1. Admitted \in 0..CallLimit
    BY AdmittedFits DEF IInv, TypeOK
  <2> QED BY <1>0, <1>10, <2>1, StageNumbers, StageNumbersAfter DEF AdmitTools
<1>11. CASE RunTool
  <2>1. pending > 0
    BY <1>11 DEF RunTool, IInv, Accounted
  <2> QED BY <1>0, <1>11, <2>1, StageNumbers, StageNumbersAfter DEF RunTool
<1> QED
  BY <1>2, <1>3, <1>4, <1>5, <1>6, <1>7, <1>8, <1>9, <1>10, <1>11 DEF TurnStep

(* For every budget, and however a turn fails, retries and repairs: its    *)
(* steps are bounded by its model calls and the stages between them.       *)
THEOREM TurnsRunDown == Spec => EveryStepSpends
<1>1. IInv /\ [Next]_vars =>
        [turn' = turn =>
           \/ modelCalls' > modelCalls
           \/ modelCalls' = modelCalls /\ Stage' < Stage]_vars
  <2> SUFFICES ASSUME IInv, Next, turn' = turn
               PROVE  \/ modelCalls' > modelCalls
                      \/ modelCalls' = modelCalls /\ Stage' < Stage
    OBVIOUS
  <2>1. ~Ask
    BY DEF Ask, IInv, TypeOK
  <2> QED BY <2>1, StepSpends DEF Next
<1>2. QED  BY Invariance, <1>1, PTL DEF Spec, EveryStepSpends

----------------------------------------------------------------------------
(* Between two questions the earlier one is settled.                       *)
Settled == phase = "idle" /\ turn > 0 => reply[turn] # None

LEMMA SettledStep ==
  ASSUME IInv, Settled, [Next]_vars
  PROVE  Settled'
<1>1. turn \in 0..MaxTurns /\ (phase # "idle" => turn > 0)
      /\ reply \in [1..MaxTurns -> Texts \cup {None, Failed}] /\ MaxTurns \in Nat
  BY BudgetAssumption DEF IInv, TypeOK
<1>2. ASSUME phase # "idle", EndInError, turn' = turn PROVE Settled'
  BY <1>1, <1>2, NoneAssumption DEF EndInError, Settled
<1>3. CASE CallRefused \/ RejectReply \/ Abort
  BY <1>2, <1>3 DEF CallRefused, RejectReply, Abort
<1>4. CASE SelectModels \/ AttemptFails
  <2>1. phase # "idle" /\ turn' = turn
    BY <1>4 DEF SelectModels, AttemptFails
  <2>2. EndInError \/ phase' # "idle"
    BY <1>4 DEF SelectModels, AttemptFails, CallRaises
  <2> QED BY <1>2, <2>1, <2>2 DEF Settled
<1>5. CASE Publish
  <2>1. Answer \in Texts /\ turn \in 1..MaxTurns
    BY <1>1, <1>5, ReplyHasAnswer DEF Publish
  <2> QED BY <1>1, <1>5, <2>1, NoneAssumption DEF Publish, Settled
<1>6. CASE UNCHANGED vars
  BY <1>6 DEF vars, Settled
<1>7. ASSUME phase' # "idle" PROVE Settled'
  BY <1>7 DEF Settled
<1> QED
  BY <1>3, <1>4, <1>5, <1>6, <1>7
  DEF Next, TurnStep, Ask, AutomaticSearch, AutomaticRead, Grounded, StartCall, EmitChunk,
      ReplyText, ReplyTools, StartRepair, AdmitTools, RunTool

(* A turn that fails shows nothing of what it has written.                 *)
LEMMA FailureShowsNothing ==
  ASSUME IInv, phase # "idle", EndInError, UNCHANGED <<turn, thread>>
  PROVE  Promise!Fail
<1>1. /\ turn \in 1..MaxTurns /\ reply[turn] = None
      /\ reply \in [1..MaxTurns -> Texts \cup {None, Failed}]
      /\ thread \subseteq Texts
  BY BudgetAssumption DEF IInv, TypeOK, NoReplyYet
<1>2. \A m \in thread : reply'[m.turn] \in Texts <=> reply[m.turn] \in Texts
  BY <1>1, NoneAssumption DEF EndInError, Texts
<1>3. Shown' = Shown
  BY <1>2 DEF Shown
<1> QED
  BY <1>1, <1>3 DEF EndInError, Promise!Fail, Promise!Settle, Promise!Open

(* A published answer joins those that are shown, and no draft does.       *)
LEMMA PublishingShowsTheAnswer ==
  ASSUME IInv, Publish
  PROVE  Promise!Open /\ \E m \in {m \in Texts : m.turn = turn /\ m.verdict = "fit"} :
                           Promise!Answer(m)
<1>1. /\ turn \in 1..MaxTurns /\ reply[turn] = None
      /\ reply \in [1..MaxTurns -> Texts \cup {None, Failed}]
      /\ thread \subseteq Texts /\ phase = "reply" /\ requested = 0
  BY BudgetAssumption DEF Publish, IInv, TypeOK, NoReplyYet
<1>2. PICK a \in Texts :
        /\ a = Answer /\ a.turn = turn /\ a.call = modelCalls
        /\ TextsOf(turn) = Drafts \cup {a}
        /\ Repairing => draft \in Texts /\ draft.call < modelCalls
  BY <1>1, ReplyHasAnswer
<1>3. /\ a.verdict = "fit" /\ turn' = turn
      /\ reply' = [reply EXCEPT ![turn] = a]
      /\ thread' = IF Repairing THEN thread \ {draft} ELSE thread
  BY <1>2 DEF Publish, Publishable
<1>4. Repairing => draft # a /\ draft.turn = turn
  <2>1. modelCalls \in Nat
    BY BudgetAssumption DEF IInv, TypeOK, ModelCallLimit
  <2> QED BY <1>1, <1>2, <2>1 DEF IInv, ThreadFollowsTurn, Active
<1>5. \A m \in thread : m.turn = turn => m = a \/ (Repairing /\ m = draft)
  BY <1>2 DEF TextsOf, Drafts
<1>6. a \in thread' /\ \A m \in thread' : m.turn = turn => m = a
  BY <1>2, <1>3, <1>4, <1>5 DEF TextsOf
<1>7. \A m \in Texts : m.turn # turn => (m \in thread' <=> m \in thread)
                                        /\ reply'[m.turn] = reply[m.turn]
  BY <1>1, <1>3, <1>4 DEF Texts
<1>8. \A m \in thread : m.turn = turn => reply[m.turn] \notin Texts
  BY <1>1, NoneAssumption
<1>9. Shown' = Shown \cup {a}
  <2>1. reply'[turn] = a
    BY <1>1, <1>3
  <2>2. \A m \in Texts : m \in Shown' <=> m \in Shown \/ m = a
    BY <1>1, <1>2, <1>6, <1>7, <1>8, <2>1 DEF Shown
  <2>3. Shown' \subseteq Texts /\ Shown \subseteq Texts
    BY <1>1, <1>3 DEF Shown
  <2> QED BY <1>2, <2>2, <2>3
<1>10. Promise!Answer(a)
  BY <1>3, <1>9 DEF Promise!Answer, Promise!Settle
<1> QED BY <1>1, <1>2, <1>3, <1>10 DEF Promise!Open

LEMMA DialogueStep ==
  ASSUME IInv, Settled, [Next]_vars
  PROVE  [Promise!Next]_<<turn, reply, Shown>>
<1>1. CASE UNCHANGED <<turn, reply, thread>>
  BY <1>1 DEF Shown
<1>2. CASE Ask
  <2>1. ~Promise!Open
    BY <1>2 DEF Ask, Settled, Promise!Open
  <2>2. Shown' = Shown
    BY <1>2 DEF Ask, saved, Shown
  <2> QED BY <1>2, <2>1, <2>2 DEF Ask, Promise!Next, Promise!Question
<1>3. ASSUME phase # "idle", EndInError, UNCHANGED <<turn, thread>> PROVE Promise!Next
  BY <1>3, FailureShowsNothing DEF Promise!Next
<1>4. CASE CallRefused \/ RejectReply \/ Abort
  BY <1>3, <1>4 DEF CallRefused, RejectReply, Abort, saved
<1>5. CASE SelectModels \/ AttemptFails
  <2>1. phase # "idle" /\ UNCHANGED <<turn, thread>>
    BY <1>5 DEF SelectModels, AttemptFails, saved
  <2>2. EndInError \/ reply' = reply
    BY <1>5 DEF SelectModels, AttemptFails, CallRaises
  <2> QED BY <1>1, <1>3, <2>1, <2>2
<1>6. CASE Publish
  <2>1. turn \in 1..MaxTurns
    BY <1>6, BudgetAssumption DEF Publish, IInv, TypeOK
  <2> QED BY <1>6, <2>1, PublishingShowsTheAnswer DEF Promise!Next
<1>7. ASSUME NEW v \in {"fit", "deficient", "broken"}, ReplyText(v)
      PROVE  UNCHANGED <<turn, reply, Shown>>
  <2>1. /\ turn \in 1..MaxTurns /\ reply[turn] = None
        /\ turn' = turn /\ reply' = reply
    BY <1>7, BudgetAssumption DEF ReplyText, IInv, TypeOK, NoReplyYet
  <2>2. PICK m : /\ m = [turn |-> turn, call |-> modelCalls + 1, verdict |-> v]
                 /\ thread' = thread \cup {m}
    BY <1>7 DEF ReplyText
  <2>3. m.turn = turn /\ reply[m.turn] \notin Texts
    BY <2>1, <2>2, NoneAssumption
  <2>4. Shown' = Shown
    BY <2>1, <2>2, <2>3 DEF Shown
  <2> QED BY <2>1, <2>4
<1> QED
  BY <1>1, <1>2, <1>4, <1>5, <1>6, <1>7
  DEF Next, TurnStep, AutomaticSearch, AutomaticRead, StartCall, EmitChunk, ReplyTools,
      StartRepair, AdmitTools, RunTool, vars, saved

(* For every budget and any number of questions, the conversation keeps    *)
(* its promise to the user, whatever its turns try, repair and die of.     *)
THEOREM TurnsImplementDialogue == Spec => DialogueSpec
<1>1. Init => Promise!Init /\ Settled
  BY DEF Init, Promise!Init, Shown, Settled
<1>2. IInv /\ Settled /\ [Next]_vars => Settled'
  BY SettledStep
<1>3. IInv /\ Settled /\ [Next]_vars => [Promise!Next]_<<turn, reply, Shown>>
  BY DialogueStep
<1>4. QED  BY Invariance, <1>1, <1>2, <1>3, PTL DEF Spec, DialogueSpec, Promise!Spec
=============================================================================
