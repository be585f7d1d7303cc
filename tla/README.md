# Verification of Nora

TLA+ models of Nora, an assistant that answers questions from a versioned
collection of documents, with TLC runs on small instances and theorems checked
by TLAPS for every instance.  Paths are relative to the root of the repository;
`jobs.py` alone means `src/nora/jobs.py`.

## 1. Inventory

| Component | State | Operations | What is hard | What makes it correct |
|---|---|---|---|---|
| Local activation (`jobs.py` `activate`, `rollback`, `_record_activation`, `_releases_history`) | `current` link, `.history`, the `job-import.json` markers | activate, rollback | link and log are two system calls; several operators; crashes; the log is append-only and rollbacks append too | an unfinished import is never served; serving never stops; the log misses only what a crash took; rollback returns to the previous release |
| Cloud activation (`activate_cloud`, `rollback_cloud`, `write_cloud_pointer`) | the pointer object and its generation, `.history-gcs`, the link, `.history` | activate, rollback | four stores, one conditional write, failures between any two, lost answers, racing operators | the three views agree after every command; rollback rewinds to the previous release |
| Retrieval and the release pin (`retrieval.py`, `mcp_client.py`) | the pin of a turn (a ContextVar) | `call`, `pinned`, `resolved_release` | releases change between the calls of one turn | a turn comes to another release only by asking again, and each was active during the turn |
| BGE service (`bge_server.py`) | per `Capacity`: `_inflight`, `_queued`, the waiters of a condition | `acquire`, `release`, `/encode` | bounded queue, timeouts, notified waiters against newcomers, two Capacities in a row | counters exact, limits hold, batches leave queries their slots, no deadlock |
| Coordination admission (`coordination.py`, `budget.py`) | a semaphore, the producer tasks, the `requests` table | `take_slot`, `/ask`, `/agent`, MCP `ask_nis`, `RequestBudget.take` | timeouts of `acquire`, refusals after the slot was taken, responses never read, midnight | no slot lost or made twice, the daily limit, those who wait are served |
| Conversations (`ownership.py`, the handlers of `coordination.py`) | the owners table; the checkpoints of a thread | claim, `/history`, the runs of the graph on a thread | runs of one thread may overlap; producers outlive their clients; restarts in the middle | historical threads are left alone; a saved answer stays |
| Answer agent (`agent.py`, `assistant.py`) | LangGraph state in a checkpoint (messages, repair state), run counters | automatic retrieval, model and tool calls, checks, repair | budgets shared by automatic and requested calls; one repair; the state a failed turn leaves; the order of middleware hooks; scope and evidence read from a view of bounded size | the conversation keeps exactly the answers published; an answer about preparation affirms what was retrieved for it, and all of it; budgets hold; every turn ends |
| Selector and providers (`selector.py`, `providers.py`) | none but the tools bound; a decision log | rank, complete, stream, fall back | a fallback after a failure but not after the first chunk; a retry around both | a call ends in one answer or an error |
| Ingestion (`jobs.py`, `preparation.py`, `indexing.py`, `conversion.py`) | a release directory with the reports of its jobs, a Qdrant collection | convert, prepare, embed, import and verify | restarts between any two writes, one collection shared by imports | a report is never ahead of what is on disk and in the collection; a reported bundle is frozen; a collection holds one bundle |
| Cloud provisioning (`setup/google-cloud/03-cloud-setup.py`) | the resources and bindings of a Google Cloud project; what a run has looked up | six stages: inspect, create, read back, bind | a run stops at any command, or loses its answer; nothing is rolled back; others change the project meanwhile; timed-out commands are applied later | nothing is changed on top of what has differed or was missing all along; a completed stage stands; reruns complete |
| Artifact reviews (`evaluation.py` `replay_review`, `record_review_revision`) | one directory per replay or revision | replay a captured response, record the owner's decisions | several files and no transaction; kills between writes; files edited between or during commands | a receipt is true of the files beside it; a revision rests on a review that passed; old runs are evidence |
| Pin check (`scripts/verify_release_pin.py`) | a captured record | capture, verify | each stage is several requests, with activations in between | a check that passes has seen what it reports |
| Bundle assembly (`assemble_bundle`) | a staging directory | merge, rename | partial output | a merge is complete or absent |
| BGE client (`bge_client.py`) | the attempts of a request | encode, retry | - | an encode returns its vectors or raises |
| Embedding cache (`embedding.py`), documents (`documents.py`) | a lazily loaded model; a manifest | load; read passage | - | - |
| Authentication, configuration, CLI, bootstrap, scoring of evaluations, UI, acceptance scripts | none that is shared | checks, parsing, dispatch, offline scoring, a proxy | - | - |

How they meet.  An operator runs ingestion and activation; both end in the
markers and the link (or the pointer) that retrieval reads on every request.  A
turn of the answer agent reaches retrieval through `mcp_client`, which pins the
release.  Ingestion and retrieval send texts to the BGE service.  Coordination
claims the thread of a question, admits the question, counts it, and runs the
agent; the UI proxies its events.  Provisioning prepares the project that cloud
releases live in; reviews and the pin check are run by an operator beside all of
this.

`PROJECT.json` lists the components with the status of each, and under `hazards`
every place of the code where a test would hardly reach what can go wrong.

## 2. Modules

| Module | Models | Extends |
|---|---|---|
| `ReleaseActivation` | local activation and rollback, and what retrieval serves | - |
| `ReleaseLineage` | the above with a history variable: the releases activated and not rolled back since | `ReleaseActivation` |
| `ReleaseAudit` | the above with an account of the lines each link owes the log | `ReleaseActivation` |
| `ReleaseStack` | the promise to the operator: a stack of releases | - |
| `CloudActivation` | activation and rollback with a cloud pointer | - |
| `CloudLineage` | the above with history variables, and its relation to `ReleaseStack` | `CloudActivation` |
| `KnowledgeTurn` | turns that call retrieval while operators change releases: composition of the pin with `ReleaseActivation` | `ReleaseActivation` |
| `PinProbe` | the operator's check of release pins, beside the turns and the operators | `KnowledgeTurn` |
| `BGECapacity` | class `Capacity` twice in a row and the handler of `/encode` | - |
| `Coordination` | `take_slot`, the requests it lets run, the daily counter | - |
| `Conversation` | ownership claims, the runs on the saved state of a thread, restarts: composition with the admission of their questions | `Coordination` |
| `AnswerTurn` | the turns of one conversation: `create_graph`, the selector behind its model calls, what `ask_operation` returns | - |
| `GroundedAnswer` | what answers to preparation questions rest on: automatic retrieval, the model's view, the checks | - |
| `Dialogue` | the promise to the user: each question settled once, with an answer or an error | - |
| `Ingestion` | the four jobs and the assembly of bundles, over bundles and collections | - |
| `CloudSetup` | the stages of cloud provisioning, their commands and the project they change | - |
| `ArtifactReview` | replays and revisions of artifact reviews over their directories | - |
| `MC...` | symmetry and sequences as constants, for TLC | |
| `...Proofs` | theorems; `ReleaseProofs` those of all modules built on `ReleaseActivation` | |

Each action carries the name of the Python function it stands for in the
comment above it; `PROJECT.json` `map` has the lines.

**ReleaseActivation.**  `verified` is the set of release directories with
`job-import.json`, `current` the link, `history` the lines of `.history`.  A
command is a sequence of steps because the operating system interleaves other
processes between system calls: `BeginActivate` (the checks), `SwapLink`
(`os.replace`, atomic), `Record` (the append).  A rollback is `BeginRollback`
(reads the log, filtered by the markers), `ChoosePrevious` (reads the link, picks
the entry before the FIRST entry of the active release, as `list.index` does, and
runs the checks of `activate`), then the same two steps.  `Crash` kills a command
anywhere.  `FinishImport` is the outcome of ingestion; `Withdraw` is an
administrator removing the marker of a retired release, as a test of the
repository does, never that of the active release or of one about to be linked.

**CloudActivation.**  The order of the steps is a function (`Order`), because
the order is what the hazards are about: the pointer write comes before the log
of an activation and before the link of a rollback.  `WritePointer` succeeds only
if the generation is the one read before; `FailPrecondition` is the refusal;
`LoseAnswer` is a write that is applied while the command sees an error; `Fail` is
an error or a kill at any step.  `.history-gcs` is read (`LoadLog`) and rewritten
(`SaveLog`) as two steps.  The uploads are part of `BeginActivate`: they go under a
tag of their own and nothing reads them before the pointer names them.

**KnowledgeTurn.**  A call is two requests: `StartCall` asks for the active
release and pins it, `Answer` is the search or the read with the pin in its
header, resolved by retrieval as `ResolvedRelease`.  All steps of
`ReleaseActivation` happen in between.  `mcp_client.py:45` sets a ContextVar in
whatever context the call runs in, and which calls of a turn share one is decided
by LangGraph, outside `src/`; with `ContextsChange` the next call may see the pin
or not, after any call.  `asked` counts the calls that saw none, so that
`NoReleaseUnasked` can say what the code itself guarantees: another release comes
into a turn only with another question which one is active.  For a turn whose first
call found a release active and whose calls share a context this is the promise of
`docs/setup/containers/knowledge-retrieval.md:30`; that the promise, which knows no
such condition, fails even in one context is the run `turn_unpinned`.

**PinProbe.**  One action per request of the check: `AskRelease` and `Capture`,
then `ReadPinned`, `SearchPinned`, `ReleasePinned`, `ReleaseCurrent` and
`SearchCurrent`, each with the comparison made on its answer; `Fail` ends a stage,
and a stage may be run again.  A request with the pin is answered as `Pinned` says,
one without it by `Served`.  A release is told apart by its documents and the one
its search finds first, constants `Holds` and `Top`.  All steps of `KnowledgeTurn`
go on in between.

**BGECapacity.**  The granularity follows asyncio.  The lock of a condition is
never held across another await than `Condition.wait`, so everything between two
suspensions is one step.  A notified waiter is only made runnable (`modeWoken`,
`totalWoken`): newcomers run before it and its timeout may still fire, with both
outcomes Python versions have (the notification lost, or passed on).

**Coordination.**  `Arrive`, `Resume`, `GiveUpWaiting` and `GiveUpGranted` are
`asyncio.wait_for(semaphore.acquire())`; `ReadDate` and `TakeBudget` are the two
steps of `RequestBudget.take`, which run in a worker thread; a stream passes
through `headers`, where its slot is held by nothing but a response that has not
been read, to `running`, where its producer task holds it.

**Conversation.**  The same questions, each of a thread.  `Ask` is the claim
(`Claimed`, the upsert) followed by `Arrive`; `ReadHistory` claims too.  A running
question may `Load` the newest checkpoint of its thread, write its own state over
it (`Checkpoint`, `SaveAnswer`) and end (`Finish`), with or without an answer; a
stream does so whether its client listens or not.  A saved state is the set of
questions it holds with an answer.  Nothing orders the runs of one thread;
`overlapped` remembers the threads where two were loaded at once, because the last
writer then hides what the other saved.  `Restart` drops every request with its
slot and keeps what is in the databases.

**AnswerTurn.**  A turn is `Ask`, the automatic retrievals of `abefore_agent`
(`AutomaticSearch`, `AutomaticRead`), then rounds of a model call and its
consequences.  A model call is `StartCall` (the hooks before it), `SelectModels`,
`EmitChunk`, `AttemptFails` and one of `ReplyText` and `ReplyTools`; `CallRaises`
is the retry middleware around all of it.  After a reply run, in this order, the
tool limiter and `aafter_model`: `AdmitTools` and `RunTool`, or `Publish`,
`StartRepair` or `RejectReply`.  `Abort` is everything that ends a turn early,
the request timeout and a crash included.  A text is told apart by its turn and
call and carries a verdict, fixed when it is written: "fit" passes every check,
"deficient" can be repaired, "broken" is empty or cut at its limit.  `draft` and
`thread` are in the checkpoint and survive a turn that fails; `draft # None` is
`answer_repair`, which is set and cleared with it.  The limiters are middleware
of LangChain; how they count and the order of their hooks is modelled from how
`create_graph` installs them and from the tests.  `Dialogue` is what the user may
rely on, mapped from it by `turn`, `reply` and `Shown`, the texts that the
conversation keeps of answered turns.

**GroundedAnswer.**  The same turns, with less of their failures and more of their
texts.  `messages` is the checkpoint; `Bounded` is the view a model call and a check
get of it: the last questions, without the oldest turns while it is too long, then
with shortened tool results, which are no JSON any more and lose their rows.  A
retrieved row is told apart by what the regular expressions of `agent.py` find in
it: whose it is (`Owner`), whether it counts as evidence (`Evidence`), whether it is
worth a read (`Rank`), and the patterns of each of the six preparation facts, a fact
being affirmed where all of its patterns are found.  `Ground` decides the scope
on the view before its retrieval, `Passes` takes the evidence from the view after
it (`Window`): these are two moments, with other turns in view.  Answers are any of
a set: the claims that the instance can support, each with its gaps stated and with
or without sources named, an answer that states no gaps, and a long one.

**Ingestion.**  Each bundle has one running job at most, and `job` is the step
that comes next; `Fail` ends it anywhere and leaves what it wrote.  The actions
follow the writes in the order of the code: the manifest after the conversions,
the rename of the prepared directory, `vectors.npy` before `coverage.json`, the
report last.  An import looks at its collection (`LookAtCollection`,
`FindNoCollection`), sends its points in any order, compares, verifies; imports of
different bundles interleave between any two requests.  `Assemble` is one step:
its inputs are embedded and change no more, and its result appears by a rename.
`raced` remembers the collections to which two imports of different points were
admitted at once.

**CloudSetup.**  A run is one invocation with `--apply`: `Start`, `Precheck`, one
`Inspect` per resource in the order of the code, `BeginChanges`, then for each
missing one `Create` and `Readback`, `BeginBindings`, `Bind`, `Complete`.  Every
command may `Fail`, or its answer be lost (`Unanswered`): the change is then under
way (`late`) and `Applies` at once, during a later run, or never if it has become
impossible.  The checks that stop a run are `InspectStops` and `ReadbackStops`.
What `validate_resource` compares is one status, "matching" or "differing";
`listed` is the NAT as it stands in the list of routers the run has cached.  The
boot disk of an existing VM is a part of its own, looked up after the VM by a
command of its own; the readback of a new VM does not look at it.  `Edit` is anybody
else creating, altering or deleting a resource.  What Google Cloud refuses (a
subnet without its network, a deletion of something referred to) is external.
`witnessed` collects the statuses each part has had since the run began: the code
looks once and goes on, so a property can only speak of what has differed, or was
missing, ever since.

**ArtifactReview.**  A directory is the record of its files, and a job writes or
reads one of them per step, in the order of the code, so that a kill (`Stop`) or
another job may come between any two.  A digest stands for its content, a packet
and a response for what the checks tell apart.  `Edit` replaces a saved copy in a
finished review, and its state stays.

## 3. Runs

Passing runs:

| Run | Instance | Shows |
|---|---|---|
| `activation_disciplined` | 1 operator, 4 releases, 9 log lines | a disciplined operator's rollback is right, and the code implements `ReleaseStack` |
| `cloud_activation` | 2 operators, 2 releases, 4 pointer writes; failures everywhere | until commands overlap or one fails after its pointer write the views agree and the steps are those of `ReleaseStack`; the log only names served releases, always |
| `turn_pin` | 2 operators, or 1 beside a turn of 2 calls (in one context or two) or beside a pin check; 3 releases of which two hold the same documents, none active at first; 3 log lines; crashes, reactivations, withdrawals | what is served is verified; serving never stops; the log misses only lines lost in a crash; a turn reads no more releases than it asked for, each active during the turn; a check that passes is true |
| `bge_admission` | 3 queries and 3 batches for 2 + 2 slots of a total of 3, queues of 1 (total 2) | counters, limits, the reserve of queries; no deadlock |
| `coordination` | 1 ask and 1 stream of one thread, 1 stream of another, 2 slots, limit 2, one midnight, restarts | slots add up, the daily limit, no waiter beside a free slot, waiters are served; answers stay, historical threads are left alone |
| `answer_turn` | 2 questions, 3 retrievals and 4 model calls each, replies of up to 2 tool calls | the history shows the answers given, budgets hold, other turns are untouched, every turn ends; the code implements `Dialogue` |
| `grounded_answer` | 2 questions, scoped about sources, related or naming the guide; 4 searches, 2 documents; a view of 9 units, which holds two short turns but not every single one | published claims are grounded; nothing found is left out unless it is too long by itself |
| `ingestion` | 2 bundles that share a point and a third of all their points, prepared or assembled; 2 collections, 3 points | reports tell the truth, collections are unmixed, one report per collection, reported bundles are frozen |
| `cloud_setup` | all stages, resources and bindings; 1 failure or lost answer, 1 change by others | no change where a part has differed since the run began, nor before all it rests on was as requested during the run; completed stages stand; reruns complete |
| `review_cycle` | 2 commands at once, 2 directories, 5 packets, 4 responses, 2 edited files | receipts are truthful, revisions are earned, old runs are kept |

Runs that must find a violation, each a disagreement of the code with what the
repository says (`findings` quotes it):

| Run | What the trace shows |
|---|---|
| `answer_repair` | the retrieval budget is used up but for one call; a repair asks for two tools: one runs, and the repair is requested again |
| `turn_unpinned` | a turn asks for the active release before there is one, its search is answered by the first one activated, its next call pins the second |

Three more disagreements show when a passing run is given other constants; the
properties are stated in the modules, and no run of the project repeats them:

- `rollback` after a reactivation.  `activation_disciplined` with `MayReactivate =
  TRUE` violates `RollbackReturnsToPrevious`: after A, B and A again the first entry
  of A has no entry before it, and `rollback` refuses (`jobs.py:657`), although B was
  active before; its docstring (`jobs.py:644`) promises the previous release.
- `rollback_cloud` after a race.  `cloud_activation` with `MayFail = FALSE` violates
  `RollbackRewindsToPrevious`: two activations move the pointer in one order and append
  to `.history-gcs` in the other (`jobs.py:532`); the rollback after them takes the
  active release for the previous one (`jobs.py:555`), and its conditional write
  succeeds.
- Honest answers.  `grounded_answer` with a `CharacterLimit` that cuts nothing (20)
  violates `HonestAnswersPass`: when no passage of the guide was retrieved and sources
  are asked for, an answer that says so is rejected, as is any other
  (`agent.py:318`), although `docs/agents/README.md:89` asks for it.

Why the bounds are enough.  Rollback looks at the entries next to one release, so
four releases and nine lines let it step back, forward and back again; a race
needs two operators, since the state one leaves to the other is the link, the log
and one pending line.  `MaxWrites = 4` lets a race be followed by a rollback and
another activation.  In `turn_pin` the constraint `AtMostTwoRun` lets two
operators run at once, or one beside the turn, or one beside the check: operators
race with each other, a turn and a check only read what they leave, and a turn and
a check do not see each other at all.  One turn is enough, since turns share
nothing but the releases; with two calls the second may see the first one's pin or
ask again, and three log lines let every release become active in between.  Three
requests of a mode are a holder, a waiter and a newcomer, and 2 + 2 slots for a
total of 3 make both Capacities refuse.  With three questions for two slots one
waits while two of its thread may overlap, and one midnight is the only moment the
counter is sensitive to.  In `grounded_answer` two questions give a related one
the turn it refers to, or a topic to leave behind; older turns leave the view by
their size there, so the count of questions kept (`HistoryTurns`) does not bite.
In `cloud_setup` the stages may be started in any order and again, so one failure
and one change by others can meet at any two points; in `review_cycle` one job's
directory is what the other replays into or revises. Two questions let one turn
inherit what another left; the budgets of `answer_turn` are the default ones, and
two tool calls in a reply can straddle the limit.  Three bundles are two inputs
and their assembly, or a finished import and two that race, and two points each
are the least an import can be interrupted between. The theorems have no bounds
but the finiteness of the sets that are counted.

Symmetry is used for operators, requests, jobs and directories only, and never in a run with a
liveness property.  `CHECK_DEADLOCK FALSE` is given where the bounds on the
log, the generation or the questions stop the system, in `ingestion`, where a
bundle whose conversion failed is left for good, and in `review_cycle`, where
directories are used up; `bge_admission`, `coordination` and `cloud_setup` check
deadlock.

Fairness.  `Conversation` (`CFairSpec`) states weak fairness of what the server
does with a question that has been given a slot: the event loop runs what is
runnable, the counting thread ends (SQLite has a busy timeout), and
`NORA_REQUEST_TIMEOUT` bounds every run.  Nothing is assumed of clients, of
midnight, or of the waiting timeouts.  A response that is never read is a step
fairness may be satisfied by, and `WaitersAreServed` says so: it excludes the case
that all slots have been abandoned in this way.  `AnswerTurn` states weak fairness
of the steps of a turn: providers and retrieval answer or fail, since every client
the code builds has a timeout.  The request timeout (`Abort`) is not assumed
to fire: `TurnsEnd` holds by the budgets alone.  `CloudSetup` (`FairSpec`) assumes
that a run that is not stopped goes on (every command has a timeout), and of the
operator that he comes back again and again to the first stage that is not done, as
`docs/setup/google-cloud/CLI.md` asks ("resolve its cause and preview the same
stage again"): strong fairness, because other stages he runs in between disable
that start.

`DailyLimitHolds` allows `Concurrency - 1` questions above the limit: those that
read the date before midnight and are counted after the new day deleted the old
row.  With the default concurrency of 1 the limit is exact.

## 4. Theorems

All are checked by tlapm for any values of the constants that satisfy the named
assumptions of the modules.

- `ReleaseProofs`, on local activation.  `OnlyVerifiedIsServed` and `ServingNeverStops` rest on
  `LinkInv`: an operator about to link holds a verified release, and nobody
  withdraws that one.  `TypesHold` needs `LoggedInv`, and is proved without
  withdrawals: with them a rollback reads a filtered log (`SelectSeq`), a recursive
  definition the prover knows nothing about.
- `ReleaseProofs`, on rollback.  For one operator who does not crash, reactivate or
  withdraw (`Discipline`), `DisciplinedRollbackIsRight` and `DisciplinedRefinesStack`.
  The invariant, `DisciplinedInv`, says that in the log as it will be after the pending
  append every release of the lineage occurs, and the entry before its first
  occurrence is the release below it.  This is what makes `list.index` right, and
  what a reactivation breaks.
- `ReleaseProofs`, on the log.  `LogOwesOnlyPendingLinks`: for any number of operators,
  with crashes, reactivations and withdrawals, the log lacks exactly the lines whose
  append a crash took or an operator still has before him.  `AuditInv` keeps the
  account of every release; each step moves one operator or one line from one side
  of it to the other, which is counted, so the operators are assumed to be finitely
  many (`AuditAssumption`).
- `ReleaseProofs`, on turns, without any assumption.  `TurnsReadServedReleases`, and
  `TurnsReadNoReleaseUnasked`: `AskedInv` says that what a pinned turn reads next is
  its pin, which was counted when it was asked for, and that a call without a pin has
  a question of its own to spend.  `PassedChecksAreTrue` is the same for the check of
  pins, from what each comparison left behind (`ProbeInv`).
- `CloudProofs`.  `OnlyServedIsLogged` holds whatever races and fails.
  `UndisturbedViewsAgree`, `UndisturbedRollbacksRewind` and
  `CloudIsStackUntilDisturbed` rest on `CalmInv`: until the first disturbance at most
  one command runs, and its step tells exactly how far the log and the link lag
  behind the pointer.
- `BGECapacityProofs`.  `AdmissionIsExactAndBounded`, `AdmissionStaysBounded` and
  `QueryCapacityIsPreserved`.
  `CapacityInv` adds to the two properties that a line holds each waiting request
  once and nobody else; the rest is the arithmetic of cardinalities when a request
  moves and others are woken.
- `AnswerTurnProofs`.  `TurnTypes`, `TurnsKeepTheirBudgets`,
  `HistoryShowsPublishedAnswers` and `TurnsLeaveOthersAlone`, for any budgets and
  any number of questions.  The invariant `IInv` adds to the properties that
  retrievals done and admitted never exceed the attempts counted nor the budget
  (`Accounted`), that a turn before its first reply has no text, and that the
  texts of the running turn are its answer and the draft it repairs: this is why
  removing the draft leaves the answer alone. `TurnsRunDown`: each step of a turn
  spends a model call, of which there are `ModelCallLimit`, or lowers `Stage`.
  `TurnsImplementDialogue`: the steps inside a turn are stutters of `Dialogue`, an
  error keeps what is shown, and `Publish` adds the one text that is the reply
  (`Settled` adds to `IInv` that an idle conversation has no open question).
- `IngestionProofs`.  `IngestionTypes`, `ReportsAreTrue`,
  `ReportedBundlesAreFrozen` and `OneReportPerCollectionHolds`, for any bundles,
  points and collections.  The invariant says of each bundle what its running job has
  already secured (`JobHasDone`), so that a report adds nothing new.
  `OneReportPerCollectionHolds` follows from comparing verified bundles at the moment
  the last of them is verified: the collection then holds exactly its points, and
  still all points of the others.  `CollectionsStayUnmixed` rests on `UnmixedInv`:
  the bundles admitted to a collection that no two imports raced for have the same
  points, and the collection holds no others.
- `CoordinationProofs`, for any questions, slots, limits, days and threads, and
  through restarts.  `SlotsAlwaysAddUp`: `SlotInv` adds that the line holds each
  waiting question once and nobody else, so that the questions woken by a release
  are as many as the slots they take.  `DailyLimitAlwaysHolds`: `BudgetInv` says
  that a row agrees with what was admitted until a later day deletes it, and that
  after that only the questions that have read its date already (`Late`) come on
  top; they hold slots, and the question that deleted the row held one too.
  `CoordinationTypes`. `AnswersAlwaysStay`: a run alone on its thread works on a
  state with every answer of its conversation (`AloneInv`).
  `HistoricalThreadsStay`: no question of a historical thread gets past its claim
  (`ClaimInv`).  `NoWaiterIsForgotten`, the safety half of `WaitersAreServed`:
  `WaitInv` says that whoever waits has a place in line, and that while the line
  is not empty a free slot has somebody on the way to it, who passes on what is
  left when he runs or gives up.
- `CloudSetupProofs`, for any numbers of faults and changes by others.
  `SetupIsTyped`, `SetupInspectsFirst`, `SetupRestsOnEarlierStages` and
  `SetupStagesStand`.  The second and the third speak of what was so at some time of
  the run (`witnessed`), since what others change after a look-up is not noticed.
  `SetupInv` says of a run what it has found of each resource it is through with, and
  of a stage that binds, that whatever others have left alone is there and bound but
  for what is still to do.
- `ArtifactReviewProofs`, for any jobs, directories, packets and edits, with kills
  anywhere.  `ReceiptsAreTruthful`, `RevisionsAreEarned` and `AbandonedRunsAreKept`.
  The invariant says that a job that writes has a directory of its own, not yet
  finished (`OwnDirectory`), that a replay has saved there what it read (`Copied`),
  that the digests a revision goes by are those of a review that passed, whatever is
  edited behind it (`Decisive`), and the same of a directory that awaits its owner
  (`Signed`).

Only model-checked: `GroundedAnswer`, where the view is cut by folds the prover
cannot reason about, and liveness - `TurnsEnd`, `WaitersAreServed`,
`RerunsComplete` - which is out of the prover's reach, as is ENABLED; the theorems
`TurnsRunDown`, `NoWaiterIsForgotten` and `SetupStagesStand` are safety facts
behind them.  Only proved, because other properties of the same runs come close:
`EveryStepSpends` (by `TurnsRunDown`) and `UndisturbedRollbackRewinds` (by
`UndisturbedRollbacksRewind`). `TypesHold` is checked with withdrawals by
`turn_pin` and proved without; the other type invariants are proved without
restriction, and no run repeats them.

## 5. Not modelled, and the plan

Not modelled because nothing in it interleaves or persists: authentication,
configuration, the CLI, the scoring of evaluations, the acceptance scripts, the
UI's proxy.  What search ranks and what the model writes is any of a small set.

Left out of modelled parts: in `AnswerTurn`, two turns of one conversation at once
(`Conversation` has them, at the level of checkpoints); two jobs on one bundle at
once; JSON files cut in the middle by a kill; the drafts a failed turn leaves in
the conversation, which `/history` shows; the overrides `--release` and `--doc-id`
of the pin check; the configuration file and the offline preview of provisioning,
which change nothing.

No property speaks of three things worth knowing.  The vm stage of provisioning looks at the
resources of the earlier stages, not at their bindings, so it completes after an
identity stage that stopped before its bindings.  A replay killed before its last
write stays "pending" for good; its directory is never reused.  A question that
refers back is scoped only if the question just before it was explicit
(`agent.py:96-105`): the second related question in a row is answered without the
preparation check, and so is one whose predecessor has left the view by its size,
although `agent.py:96` says that a new topic clears the scope.

Open, in this order:

1. The retries of the BGE client over `BGECapacity`.
2. Cloud pins in `KnowledgeTurn` (a manifest stays readable after the pointer
   moved), and the document stores behind `/read`.
3. What the client of a stream sees: the chunks of a call that failed and is
   retried (`EmitChunk`, `CallRaises`), and the drafts of a failed turn.
4. `rollback` after a crash that lost a line: what it returns to.
