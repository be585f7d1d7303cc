--------------------------- MODULE KnowledgeTurn ---------------------------
(***************************************************************************)
(* Answer turns reading the knowledge while operators activate releases:   *)
(* nora.mcp_client (the release pin of a turn) and the release resolution  *)
(* of nora.retrieval, over the releases of ReleaseActivation.              *)
(*                                                                         *)
(* A call of the turn is two requests: unless the turn is pinned, one that *)
(* asks retrieval for the active release, then the search or read itself,  *)
(* with the pin in its X-Nora-Release header.  Releases may be activated   *)
(* between the two, and between two calls.                                 *)
(*                                                                         *)
(* The pin is a ContextVar that the call sets in the context it runs in.   *)
(* Which calls of a turn share a context is up to the agent's framework.   *)
(***************************************************************************)
EXTENDS ReleaseActivation

CONSTANTS
  Turns,           \* answer turns
  MaxCalls,        \* knowledge calls a turn may make
  ContextsChange   \* external: a call may run in a context of its own, so
                   \* that the next one of the turn does not see its pin

ASSUME TurnAssumption ==
  /\ MaxCalls \in Nat
  /\ ContextsChange \in BOOLEAN

VARIABLES
  step,      \* per turn: "off", "open" between calls, "calling" within one
  pin,       \* per turn: the value of _RELEASE_PIN, or None
  calls,     \* per turn: calls started
  \* history variables, read by the properties only
  asked,     \* per turn: how often it asked which release is active
  answered,  \* per turn: releases that answered a search or read
  servable   \* per turn: releases served at some time since the turn began

turnVars == <<step, pin, calls, asked, answered, servable>>
tvars == <<verified, current, history, pc, target, seen,
           step, pin, calls, asked, answered, servable>>

TInit ==
  /\ Init
  /\ step = [t \in Turns |-> "off"]
  /\ pin = [t \in Turns |-> None]
  /\ calls = [t \in Turns |-> 0]
  /\ asked = [t \in Turns |-> 0]
  /\ answered = [t \in Turns |-> {}]
  /\ servable = [t \in Turns |-> {}]

----------------------------------------------------------------------------
(* pinned(): a turn starts without a pin. *)
BeginTurn(t) ==
  /\ step[t] = "off"
  /\ step' = [step EXCEPT ![t] = "open"]
  /\ pin' = [pin EXCEPT ![t] = None]
  /\ servable' = [servable EXCEPT ![t] = {Served}]
  /\ UNCHANGED <<vars, calls, asked, answered>>

\* Mutant: the release of the newest log line is pinned, not the linked one.
StartCallFromHistory(t) ==
  /\ step[t] = "open"
  /\ calls[t] < MaxCalls
  /\ pin' = [pin EXCEPT ![t] =
               IF pin[t] # None THEN pin[t]
               ELSE IF history = <<>> THEN None ELSE Last(history)]
  /\ step' = [step EXCEPT ![t] = "calling"]
  /\ calls' = [calls EXCEPT ![t] = @ + 1]
  /\ asked' = [asked EXCEPT ![t] = IF pin[t] = None THEN @ + 1 ELSE @]
  /\ UNCHANGED <<vars, answered, servable>>

(* call: one that sees no pin asks /release and pins what it is told; when *)
(* no release is active the turn stays unpinned.                           *)
StartCall(t) ==
  /\ step[t] = "open"
  /\ calls[t] < MaxCalls
  /\ pin' = [pin EXCEPT ![t] = IF pin[t] = None THEN Served ELSE pin[t]]
  /\ step' = [step EXCEPT ![t] = "calling"]
  /\ calls' = [calls EXCEPT ![t] = @ + 1]
  /\ asked' = [asked EXCEPT ![t] = IF pin[t] = None THEN @ + 1 ELSE @]
  /\ UNCHANGED <<vars, answered, servable>>

\* A pin that names a release is good while that release has its marker.
LocalPinIsValid(r) == r \in verified

\* Mutant: a pinned release that is gone is replaced by the active one.
ResolvedWithFallback(t) ==
  IF LocalPinIsValid(pin[t]) THEN pin[t] ELSE Served

(* resolved_release: a pin must be valid, and only a request without one   *)
(* gets the active release.                                                *)
ResolvedRelease(t) ==
  IF pin[t] = None THEN Served
  ELSE IF LocalPinIsValid(pin[t]) THEN pin[t] ELSE None

(* search or read returns: the release that answered it.  The turn goes on *)
(* in the context of the call, or in one that does not see its pin.        *)
Answer(t) ==
  /\ step[t] = "calling"
  /\ ResolvedRelease(t) # None
  /\ answered' = [answered EXCEPT ![t] = @ \cup {ResolvedRelease(t)}]
  /\ step' = [step EXCEPT ![t] = "open"]
  /\ \/ UNCHANGED pin
     \/ ContextsChange /\ pin' = [pin EXCEPT ![t] = None]
  /\ UNCHANGED <<vars, calls, asked, servable>>

(* The turn answers, or one of its calls fails: no active release, a pin   *)
(* that is no longer valid, a timeout.  The pin is reset.                  *)
EndTurn(t) ==
  /\ step[t] \in {"open", "calling"}
  /\ step' = [step EXCEPT ![t] = "off"]
  /\ pin' = [pin EXCEPT ![t] = None]
  /\ calls' = [calls EXCEPT ![t] = 0]
  /\ asked' = [asked EXCEPT ![t] = 0]
  /\ answered' = [answered EXCEPT ![t] = {}]
  /\ servable' = [servable EXCEPT ![t] = {}]
  /\ UNCHANGED vars

TurnStep(t) == BeginTurn(t) \/ StartCall(t) \/ Answer(t) \/ EndTurn(t)

ReleaseStep ==
  /\ Next
  /\ servable' = [t \in Turns |->
                    IF step[t] = "off" THEN {} ELSE servable[t] \cup {Served'}]
  /\ UNCHANGED <<step, pin, calls, asked, answered>>

TNext == ReleaseStep \/ \E t \in Turns : TurnStep(t)

TSpec == TInit /\ [][TNext]_tvars

----------------------------------------------------------------------------
(* Every variable of a turn has its type. *)
TurnTypeOK ==
  /\ step \in [Turns -> {"off", "open", "calling"}]
  /\ pin \in [Turns -> Releases \cup {None}]
  /\ calls \in [Turns -> 0..MaxCalls]
  /\ asked \in [Turns -> Nat]
  /\ answered \in [Turns -> SUBSET Releases]
  /\ servable \in [Turns -> SUBSET (Releases \cup {None})]

(* Search and read within one turn use the same release, whatever is       *)
(* activated, rolled back or withdrawn meanwhile: what the guides promise. *)
(* The code keeps it for a turn whose first call finds a release active    *)
(* and whose later calls all see the pin of that call.                     *)
TurnReadsOneRelease == \A t \in Turns : Cardinality(answered[t]) <= 1

(* A turn reads no more releases than it has asked which one is active:    *)
(* whatever is activated, rolled back or withdrawn meanwhile, it comes to  *)
(* another release only through a call that saw no pin, because the one    *)
(* before found nothing active or had a context of its own.  A turn that   *)
(* asked once reads one release.                                           *)
NoReleaseUnasked ==
  \A t \in Turns : Cardinality(answered[t]) <= asked[t]

(* A turn reads a release that was active at some time of that turn: no    *)
(* pin outlives its turn, and no answer comes from a release replaced      *)
(* before the turn began.                                                  *)
TurnReadsServedRelease == \A t \in Turns : answered[t] \subseteq servable[t]
=============================================================================
