-------------------------- MODULE MCGroundedAnswer --------------------------
(***************************************************************************)
(* Questions, documents, searches and answers for GroundedAnswer.  The     *)
(* guide "g" supports every fact on its first page, and its second page    *)
(* does not show whose it is; the contract of the other document "c"       *)
(* supports all facts but the chunks.                                      *)
(***************************************************************************)
EXTENDS GroundedAnswer

Ordinary == [explicit |-> FALSE, refers |-> FALSE, named |-> FALSE, attribution |-> FALSE]

MCQuestions ==
  {[Ordinary EXCEPT !.explicit = TRUE, !.attribution = TRUE],
   [Ordinary EXCEPT !.refers = TRUE],
   [Ordinary EXCEPT !.named = TRUE]}

Marks(facts) == UNION {Groups[f] : f \in facts}

Plain == [doc |-> "c", title |-> "none", h1 |-> "no", contract |-> FALSE,
          workflow |-> FALSE, marks |-> Marks(Facts), size |-> 0]

\* Hits: another subject and the contract of "c", the head and the workflow
\* of "g".
Contract == [Plain EXCEPT !.contract = TRUE,
                          !.marks = Marks(Facts \ {"chunks", "source"})]
Title    == [Plain EXCEPT !.doc = "g", !.h1 = "heading"]
Workflow == [Plain EXCEPT !.doc = "g", !.workflow = TRUE, !.size = 3]

MCSearches == {<<Plain>>, <<Contract>>, <<Contract, Title>>, <<Workflow, Contract>>}

MCReading ==
  [d \in {"c", "g"} |->
     CASE d = "c" -> <<[Contract EXCEPT !.marks = Marks(Facts \ {"chunks"}), !.size = 1]>>
       [] d = "g" -> <<[Title EXCEPT !.h1 = "line", !.contract = TRUE, !.size = 1],
                       [Title EXCEPT !.h1 = "no", !.size = 1]>>]

Claims == {{}, Facts \ {"chunks", "source"}, Facts \ {"chunks"}, Facts}

MCAnswers ==
  {[claims |-> c, gaps |-> Facts \ c, names |-> n, long |-> FALSE] :
     c \in Claims,
     n \in {{}, {"guide", "contract", "workflow"}}}
  \cup {[claims |-> Facts \ {"chunks"}, gaps |-> {}, names |-> {}, long |-> l] :
          l \in BOOLEAN}
=============================================================================
