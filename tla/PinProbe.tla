------------------------------ MODULE PinProbe ------------------------------
(***************************************************************************)
(* The operator's check of release pins, scripts/verify_release_pin.py,    *)
(* next to the turns and the operators of KnowledgeTurn.                   *)
(*                                                                         *)
(* Its capture stage asks retrieval for the active release and searches;   *)
(* its verify stage, meant to run after a rollback, sends three requests   *)
(* with the captured pin and two without.  Each request is answered on its *)
(* own, and releases may be activated, rolled back or withdrawn between    *)
(* any two of them.                                                        *)
(*                                                                         *)
(* A release is told apart by the documents its bundle holds and by the    *)
(* one that its search returns first for the query of the check; a text by *)
(* whether it contains the expected phrases.                               *)
(***************************************************************************)
EXTENDS KnowledgeTurn

CONSTANTS
  Docs,            \* document IDs
  Holds,           \* per release: the documents of its bundle
  Top,             \* per release: the document found first
  Expected,        \* documents with the phrase of --expected
  ExpectedCurrent  \* documents with the phrase of --expected-current

ASSUME ProbeAssumption ==
  /\ None \notin Docs
  /\ Holds \in [Releases -> SUBSET Docs]
  /\ Top \in [Releases -> Docs] /\ \A r \in Releases : Top[r] \in Holds[r]
  /\ Expected \subseteq Docs /\ ExpectedCurrent \subseteq Docs \ Expected

VARIABLES
  phase,     \* the request the check sends next, or how it has ended
  record,    \* the captured release and document
  \* history variables, read by the properties only
  pinned,    \* releases that answered its requests with the pin
  unpinned   \* the release that answered its last search without one

probe == <<phase, record, pinned, unpinned>>
pvars == <<verified, current, history, pc, target, seen,
           step, pin, calls, asked, answered, servable,
           phase, record, pinned, unpinned>>

Verifying ==
  {"readPinned", "searchPinned", "releasePinned", "releaseCurrent",
   "searchCurrent"}

NoRecord == [release |-> None, doc |-> None]

PInit ==
  /\ TInit
  /\ phase = "new"
  /\ record = NoRecord
  /\ pinned = {}
  /\ unpinned = None

----------------------------------------------------------------------------
\* Mutant: a pin that is not valid falls back to the active release.
PinnedOrActive(r) == IF LocalPinIsValid(r) THEN r ELSE Served

\* pinned_release, by the header that ReleasePinMiddleware reads: the release
\* that answers a request with pin r; None is the 503 or the failed tool.
Pinned(r) == IF LocalPinIsValid(r) THEN r ELSE None

\* The check sends nothing more; a captured record is kept in its file.
Fails ==
  /\ phase' = IF record.doc = None THEN "new" ELSE "captured"
  /\ record' = IF record.doc = None THEN NoRecord ELSE record
  /\ pinned' = {}
  /\ unpinned' = None

(* _capture: release_info, which must name a release. *)
AskRelease ==
  /\ phase = "new"
  /\ Served # None
  /\ phase' = "search"
  /\ record' = [NoRecord EXCEPT !.release = Served]
  /\ UNCHANGED <<pinned, unpinned>>

(* _capture: a search without a pin, by the release active by now; its     *)
(* first text has the phrase, and its document goes on record.             *)
Capture ==
  /\ phase = "search"
  /\ Served # None /\ Top[Served] \in Expected
  /\ phase' = "captured"
  /\ record' = [record EXCEPT !.doc = Top[Served]]
  /\ UNCHANGED <<pinned, unpinned>>

(* The verify stage is started, again after it failed or passed. *)
BeginVerify ==
  /\ phase \in {"captured", "passed"}
  /\ phase' = "readPinned"
  /\ pinned' = {}
  /\ unpinned' = None
  /\ UNCHANGED record

\* A request with the pin is answered, and its answer accepted.
Accept(accepted, next) ==
  /\ LET r == Pinned(record.release)
     IN r # None /\ accepted[r] /\ pinned' = pinned \cup {r}
  /\ phase' = next
  /\ UNCHANGED <<record, unpinned>>

(* _verify: the pinned release still has the captured document in full. *)
ReadPinned ==
  /\ phase = "readPinned"
  /\ Accept([r \in Releases |-> record.doc \in Holds[r] \cap Expected],
            "searchPinned")

(* _verify: the pinned search finds the phrase, in the captured document. *)
SearchPinned ==
  /\ phase = "searchPinned"
  /\ Accept([r \in Releases |-> Top[r] \in Expected /\ Top[r] = record.doc],
            "releasePinned")

(* _verify: /release honours the pin. *)
ReleasePinned ==
  /\ phase = "releasePinned"
  /\ Accept([r \in Releases |-> r = record.release], "releaseCurrent")

(* _verify: /release without a pin names another release, or none. *)
ReleaseCurrent ==
  /\ phase = "releaseCurrent"
  /\ Served # record.release
  /\ phase' = "searchCurrent"
  /\ UNCHANGED <<record, pinned, unpinned>>

(* _verify: a search without a pin finds the phrase of the current release *)
(* and the report says "pass".                                             *)
SearchCurrent ==
  /\ phase = "searchCurrent"
  /\ Served # None /\ Top[Served] \in ExpectedCurrent
  /\ phase' = "passed"
  /\ unpinned' = Served
  /\ UNCHANGED <<record, pinned>>

(* A check of an answer fails, or main catches the error of a request: an  *)
(* unavailable release, a failed tool, a timeout.                          *)
Fail ==
  /\ phase \in {"search"} \cup Verifying
  /\ Fails

ProbeStep ==
  /\ \/ AskRelease \/ Capture \/ BeginVerify
     \/ ReadPinned \/ SearchPinned \/ ReleasePinned
     \/ ReleaseCurrent \/ SearchCurrent
     \/ Fail
  /\ UNCHANGED tvars

PNext == ProbeStep \/ (TNext /\ UNCHANGED probe)

PSpec == PInit /\ [][PNext]_pvars

----------------------------------------------------------------------------
(* Every variable of the check has its type. *)
ProbeTypeOK ==
  /\ phase \in {"new", "search", "captured", "passed"} \cup Verifying
  /\ record \in [release : Releases \cup {None}, doc : Docs \cup {None}]
  /\ phase \notin {"new", "search"} => None \notin {record.release, record.doc}
  /\ pinned \subseteq Releases
  /\ unpinned \in Releases \cup {None}

(* A check that passes has seen what it reports, whatever was activated,   *)
(* rolled back, withdrawn or built again between its requests: the         *)
(* captured release alone answered those with the pin, its search finds    *)
(* the captured document even if the capture was split by an activation,   *)
(* and another release answered without the pin.                           *)
PassIsTrue ==
  phase = "passed" =>
    /\ pinned = {record.release}
    /\ Top[record.release] = record.doc /\ record.doc \in Expected
    /\ unpinned # record.release /\ Top[unpinned] \in ExpectedCurrent
=============================================================================
