--------------------------- MODULE GroundedAnswer ---------------------------
(***************************************************************************)
(* What answers rest on: the automatic retrieval of nora.agent, the bounds *)
(* of the messages a model sees, and the checks of the answers to          *)
(* preparation questions, over several turns of one thread.                *)
(*                                                                         *)
(* A text is told apart by the patterns found in it: a question by what    *)
(* its patterns decide, a retrieved row by what marks it as the guide and  *)
(* by the patterns of preparation facts it holds, an answer by the facts   *)
(* it affirms, the gaps it states and the sources it names.  Sizes are in  *)
(* units of which a question and an answer take one.                       *)
(*                                                                         *)
(* Budgets, retries and batches of tool calls are AnswerTurn's; here tools *)
(* are requested one at a time, as the guidance asks.                      *)
(***************************************************************************)
EXTENDS SequencesExt

CONSTANTS
  Questions,       \* [explicit, refers, named, attribution], all BOOLEAN
  Answers,         \* [claims, gaps, names, long]
  Searches,        \* what a search may return: sequences of rows
  Reading,         \* per document: its pages, the rows that reads of it return
  HistoryTurns,    \* questions kept in the model's view
  CharacterLimit,  \* size of the model's view
  CallLimit,       \* retrievals of a turn
  MaxTurns,        \* questions asked
  None

\* PREPARATION_GROUPS: the patterns that must all be found for a fact.
Groups ==
  [deterministic |-> {"deterministic", "no summaries", "no rewriting"},
   originals     |-> {"originals"},
   headings      |-> {"headings", "text"},
   source        |-> {"source identity", "source metadata"},
   chunks        |-> {"chunk identity", "chunk hash", "chunk offset"},
   model         |-> {"model configuration", "model with vectors"}]

Facts == DOMAIN Groups

\* h1: where "# Manual ingestion" stands: nowhere, as the row's heading, or on
\* a line of its own.  contract: a Processing contract with its four words.
\* workflow: a Selected target workflow of deterministic preparation.
Rows ==
  [doc : DOMAIN Reading \cup {None}, title : {"none", "guide", "other"},
   h1 : {"no", "heading", "line"}, contract : BOOLEAN, workflow : BOOLEAN,
   marks : SUBSET UNION {Groups[f] : f \in Facts}, size : Nat]

ASSUME GroundedAssumption ==
  /\ Questions \subseteq [explicit : BOOLEAN, refers : BOOLEAN,
                          named : BOOLEAN, attribution : BOOLEAN]
  /\ Answers \subseteq [claims : SUBSET Facts, gaps : SUBSET Facts,
                        names : SUBSET {"guide", "contract", "workflow"},
                        long : BOOLEAN]
  /\ \A rows \in Searches : \A i \in DOMAIN rows : rows[i] \in Rows
  /\ \A d \in DOMAIN Reading :
       Reading[d] # <<>> /\ \A i \in DOMAIN Reading[d] : Reading[d][i] \in Rows
  /\ HistoryTurns \in Nat \ {0} /\ CharacterLimit \in Nat \ {0}
  /\ CallLimit \in Nat \ {0} /\ MaxTurns \in Nat

VARIABLES
  messages,   \* the checkpointed messages: questions, tool results, answers
  phase,      \* "idle", "ground", "model" or "reply"
  check,      \* preparation_check
  draft,      \* the position of the answer under repair, or 0
  calls,      \* model calls of the turn
  attempted,  \* retrievals of the turn
  answer      \* the answer to be judged, or published after a check, or None

vars == <<messages, phase, check, draft, calls, attempted, answer>>

Init ==
  /\ messages = <<>> /\ phase = "idle" /\ check = FALSE /\ draft = 0
  /\ calls = 0 /\ attempted = 0 /\ answer = None

----------------------------------------------------------------------------
(* Messages.  The tool calls have no content of their own; a result that   *)
(* is no JSON any more has no rows.                                        *)
Human(q)   == [kind |-> "human", size |-> 1, question |-> q]
AI         == [kind |-> "ai", size |-> 1]
Tool(rows) ==
  [kind |-> "tool", rows |-> rows,
   size |-> 1 + FoldLeft(LAMBDA n, row : n + row.size, 0, rows)]

Size(ms) == FoldLeft(LAMBDA n, m : n + m.size, 0, ms)

Humans(ms) == {i \in DOMAIN ms : ms[i].kind = "human"}

\* The k-th newest question.
HumanBack(ms, k) ==
  LET humans == SetToSortSeq(Humans(ms), >)
  IN  humans[k]

From(ms, i) == SubSeq(ms, i, Len(ms))

(* bounded_messages: the last turns, without the oldest while they are too *)
(* long; *)
Kept(ms) ==
  LET n       == Cardinality(Humans(ms))
      turns   == 1..(IF n > HistoryTurns THEN HistoryTurns ELSE n)
      fitting == {k \in turns : Size(From(ms, HumanBack(ms, k))) <= CharacterLimit}
  IN  From(ms, HumanBack(ms, IF fitting = {} THEN 1 ELSE Max(fitting)))

(* then tool results are shortened, the first ones first, to what is left  *)
(* for them.                                                               *)
Shorten(ms, i) ==
  LET excess == Size(ms) - CharacterLimit
      keep   == IF ms[i].size > excess THEN ms[i].size - excess ELSE 1
  IN  IF excess > 0 /\ ms[i].kind = "tool" /\ keep < ms[i].size
      THEN [ms EXCEPT ![i].size = keep, ![i].rows = <<>>]
      ELSE ms

Bounded(ms) ==
  LET kept == Kept(ms)
  IN  IF Size(kept) <= CharacterLimit THEN kept
      ELSE FoldLeftDomain(LAMBDA cut, i : Shorten(cut, i), kept, kept)

\* bounded_messages does not raise.
Fits(ms) == Size(Bounded(ms)) <= CharacterLimit

----------------------------------------------------------------------------
(* preparation_features: the facts whose patterns all occur in the text.   *)
Features(marks) == {f \in Facts : Groups[f] \subseteq marks}

(* preparation_passages of a row: it owns the title, or is an untitled     *)
(* excerpt of the contract.  The text follows the heading on its line.     *)
Owner(row)    == row.title = "guide" \/ (row.title = "none" /\ row.h1 = "line")
Evidence(row) == Owner(row) \/ (row.title # "other" /\ row.contract)

(* preparation_document: the document of the best candidate, the first one *)
(* among equals.                                                           *)
Rank(row) ==
  IF row.title = "guide" \/ row.h1 # "no" THEN 0
  ELSE IF Evidence(row) THEN 1 ELSE 2

Candidates(rows) ==
  {i \in DOMAIN rows :
     /\ rows[i].doc # None /\ rows[i].title # "other"
     /\ \/ Rank(rows[i]) < 2
        \/ /\ rows[i].workflow
           /\ {"chunks", "model"} \subseteq Features(rows[i].marks)}

PreparationDocument(rows) ==
  LET best == CHOOSE i \in Candidates(rows) : \A j \in Candidates(rows) :
                \/ Rank(rows[i]) < Rank(rows[j])
                \/ Rank(rows[i]) = Rank(rows[j]) /\ i <= j
  IN  IF Candidates(rows) = {} THEN None ELSE rows[best].doc

(* preparation_scope: an explicit question, or one that refers back to the *)
(* explicit question just before it.                                       *)
Scoped(ms) ==
  LET b         == Bounded(ms)
      asked(k)  == b[HumanBack(b, k)].question
  IN  \/ asked(1).explicit
      \/ /\ Cardinality(Humans(b)) > 1
         /\ asked(2).explicit /\ asked(1).refers

----------------------------------------------------------------------------
\* Mutant: every passage of the view is evidence.
WindowOfView(b) == ToSet(b)

\* Mutant: a question that refers back has its own passages only.
WindowOfTurn(b) == ToSet(From(b, HumanBack(b, 1)))

(* preparation_deficits: the messages of the turn, and of the one before   *)
(* it in the view when the question refers back.                           *)
Window(b) ==
  LET last == HumanBack(b, 1)
      back == b[last].question.refers /\ Cardinality(Humans(b)) > 1
  IN  ToSet(From(b, IF back THEN HumanBack(b, 2) ELSE last))

RowsOf(ms) == UNION {ToSet(m.rows) : m \in {n \in ms : n.kind = "tool"}}

Supported(rows) == Features(UNION {row.marks : row \in {r \in rows : Evidence(r)}})

(* preparation_deficits is empty: every supported fact is affirmed and no  *)
(* other, the gaps are stated, and a question about sources gets the title *)
(* and headings, if the title is verified.                                 *)
Passes(ms, a) ==
  LET rows      == RowsOf(Window(Bounded(ms)))
      supported == Supported(rows)
  IN  /\ a.claims = supported
      /\ Facts \ supported \subseteq a.gaps
      /\ ms[HumanBack(ms, 1)].question.attribution =>
           /\ \E row \in rows : Owner(row)
           /\ {"guide", "contract"} \subseteq a.names
           /\ "chunks" \in supported => "workflow" \in a.names

\* aafter_model finds nothing to repair in the last answer.
Publishable(a) == (check => Passes(messages, a)) /\ ~a.long

----------------------------------------------------------------------------
(* A question is put on the thread. *)
Ask(q) ==
  /\ phase = "idle"
  /\ Cardinality(Humans(messages)) < MaxTurns
  /\ messages' = Append(messages, Human(q))
  /\ phase' = "ground"
  /\ answer' = None
  /\ UNCHANGED <<check, draft, calls, attempted>>

(* abefore_agent: the automatic search, and the read of its best candidate *)
(* for a question that is scoped or names the guide.  A retrieval fails as *)
(* in Abort, and leaves nothing but the question.                          *)
Ground ==
  /\ phase = "ground"
  /\ \E rows \in Searches :
       LET targeted == Scoped(messages) \/ Last(messages).question.named
           doc      == PreparationDocument(rows)
           reads    == targeted /\ CallLimit > 1 /\ doc # None
       IN  /\ messages' = messages \o <<Tool(rows)>> \o
                          (IF reads THEN <<Tool(<<Reading[doc][1]>>)>> ELSE <<>>)
           /\ attempted' = IF reads THEN 2 ELSE 1
  /\ check' = Scoped(messages)
  /\ draft' = 0
  /\ phase' = "model"
  /\ UNCHANGED <<calls, answer>>

\* The messages of a model call; the request of a repair is no question.
Request ==
  IF draft = 0 THEN messages ELSE Append(messages, [kind |-> "repair", size |-> 1])

\* The model's limiter and awrap_model_call let the model be called.
MayCall == phase = "model" /\ calls < CallLimit + 1 /\ Fits(Request)

(* The model searches or reads; above the limit it is told so instead.     *)
Retrieve ==
  /\ MayCall /\ draft = 0
  /\ \E rows \in Searches \cup {<<page>> : page \in UNION {ToSet(Reading[d]) :
                                                         d \in DOMAIN Reading}} :
       messages' = Append(messages, Tool(IF attempted < CallLimit THEN rows ELSE <<>>))
  /\ attempted' = attempted + 1
  /\ calls' = calls + 1
  /\ UNCHANGED <<phase, check, draft, answer>>

(* The model answers with a text. *)
Reply(a) ==
  /\ MayCall
  /\ messages' = Append(messages, AI)
  /\ answer' = a
  /\ calls' = calls + 1
  /\ phase' = "reply"
  /\ UNCHANGED <<check, draft, attempted>>

\* aafter_model: bounded_messages does not raise in a check.
MayJudge == phase = "reply" /\ (check => Fits(messages))

(* aafter_model lets the answer pass, and removes the draft it repairs. *)
Publish ==
  /\ MayJudge /\ Publishable(answer)
  /\ messages' = IF draft = 0 THEN messages ELSE RemoveAt(messages, draft)
  /\ phase' = "idle"
  /\ calls' = 0 /\ attempted' = 0
  /\ answer' = IF check THEN answer ELSE None
  /\ UNCHANGED <<check, draft>>

(* aafter_model sends a deficient answer back to the model, once. *)
StartRepair ==
  /\ MayJudge /\ ~Publishable(answer)
  /\ draft = 0 /\ calls < CallLimit + 1
  /\ draft' = Len(messages)
  /\ answer' = None
  /\ phase' = "model"
  /\ UNCHANGED <<messages, check, calls, attempted>>

(* The turn ends in an error: a deficient repair, messages that do not fit *)
(* any more, a failed retrieval or call, a timeout.  What it has put on    *)
(* the thread stays there.                                                 *)
Abort ==
  /\ phase # "idle"
  /\ phase' = "idle"
  /\ calls' = 0 /\ attempted' = 0
  /\ answer' = None
  /\ UNCHANGED <<messages, check, draft>>

Next ==
  \/ \E q \in Questions : Ask(q)
  \/ Ground \/ Retrieve
  \/ \E a \in Answers : Reply(a)
  \/ Publish \/ StartRepair \/ Abort

Spec == Init /\ [][Next]_vars

----------------------------------------------------------------------------
(* A published answer that was checked, and what was retrieved for it: in  *)
(* its own turn, and in the one before if its question refers back.        *)
CheckedAnswer == phase = "idle" /\ answer # None

TurnOf(i) == Cardinality({h \in Humans(messages) : h <= i})

Asked == messages[HumanBack(messages, 1)].question

Since ==
  IF Asked.refers THEN Cardinality(Humans(messages)) - 1
  ELSE Cardinality(Humans(messages))

Retrieved ==
  UNION {ToSet(messages[i].rows) :
           i \in {j \in DOMAIN messages : messages[j].kind = "tool" /\ TurnOf(j) >= Since}}

(* A published answer to a preparation question affirms only facts that    *)
(* passages retrieved for it support, and if sources were asked for, the   *)
(* guide was among them: nothing comes from older turns, from a rejected   *)
(* draft or from what an earlier answer said.                              *)
ClaimsAreGrounded ==
  CheckedAnswer =>
    /\ answer.claims \subseteq Supported(Retrieved)
    /\ Asked.attribution => \E row \in Retrieved : Owner(row)

\* The size of the messages Retrieved is taken from, when they were checked.
SizeSince ==
  MapThenSumSet(LAMBDA i : messages[i].size,
                {i \in DOMAIN messages : TurnOf(i) >= Since})
  + (IF draft = 0 THEN 0 ELSE AI.size)

(* And it leaves out none of the facts they support, however much the      *)
(* older turns of the thread hold: only messages that are too long by      *)
(* themselves lose passages.                                               *)
NothingFoundIsLeftOut ==
  CheckedAnswer /\ SizeSince <= CharacterLimit =>
    Supported(Retrieved) \subseteq answer.claims

\* The answer states what the passages support, the rest as gaps, and names
\* the guide and its sections if the guide was obtained.
Honest(a) ==
  /\ a.claims = Supported(Retrieved) /\ a.gaps = Facts \ a.claims /\ ~a.long
  /\ a.names = IF \E row \in Retrieved : Owner(row)
               THEN {"guide", "contract", "workflow"} ELSE {}

(* An honest answer to a preparation question is accepted, also one that   *)
(* says that the requested guide was not obtained.                         *)
HonestAnswersPass ==
  phase = "reply" /\ check /\ Honest(answer) => Publishable(answer)
=============================================================================
