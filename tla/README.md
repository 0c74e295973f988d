# RACHEL in TLA+

RACHEL is a local assistant: a Tauri desktop shell, a resident Python backend, a
chat core with a model router, and a platform of runtimes ("members": Ned plans
and executes, Cyber authorises, King and Jhon record, Dany judges, Stella
learns) that carry out plans of tool calls under the user's approvals. This
directory holds a TLA+ model of the parts of it in which order matters: what
interleaves, crashes, is retried, expires or is cancelled.

Paths below are relative to the repository. `RT/` stands for
`RACHEL_PLATFORM/RUNTIME/SRC/`, `CORE/` for `RACHEL_CORE/src/rachel_core/`.

## The system and its parts

| Component | State it keeps | Operations | Hard behaviour | What makes it correct | Module |
|---|---|---|---|---|---|
| Approval store of Cyber (`RT/security_runtime.py`) | table `approvals` in SQLite | `request`, `decide`, `consume`, `list` | several deciders (panel, bridge) and several consuming coordinators, each statement its own transaction; deadlines on the wall clock | an approval is spent once, for the call it was asked for, in its lifetime | `Approvals`, `ApprovalToken` |
| Task planner and plan store (`RT/task_planner.py`) | table `task_plans` | `create`, `validate`, `save`, `get` | plans come from a model's answer | acyclic plans, known tools, approvals where effects need them | initial state of `TaskExecution` |
| Task executor of Ned (`RT/task_executor.py`) | a copy of one plan per call | `execute` | crash between effect and checkpoint, resume, two executors on one row, pauses by step limit | no unauthorised effect, dependencies first, an honest stored plan | `TaskExecution` |
| Tool coordinator (`RT/tools_runtime.py`) | none of its own | `invoke` | spends the approval before the tool runs | effect resolved from the actual arguments; the policy is asked for every call | `TaskExecution` |
| Team runtime (`RT/team_runtime.py`) | event log, audit log | `CyberPolicy.check`, King, Jhon | – | guarded effects need an approval | `TaskExecution` |
| Agent loop (`RT/agent_loop_runtime.py`) | table `agent_runs` | `start`, `continue_run`, `pause`, `cancel` | pause and cancel from another caller, exceptions between a slice and its save, crash | budgets hold, every step verified, cancelled is final | `AgentLoop` |
| Desktop backend host (`APP/src-tauri/src/lib.rs`) | started flag, child handle, pending replies, stdout buffer, resume plans | `request`, `ensure_started`, event task, Tauri commands | the process dies at any point and is respawned while its end is still being handled | every request is answered, one backend serves | `DesktopHost` |
| Resident backend server (`APP/bridge/rachel_server.py`) | cancellation registry, pool of two threads | `server_loop`, `execute_live`, `cancel_all` | requests queue, end of input, cancels race completions | queued and running work ends | `DesktopHost`, `ChatStream` |
| Chat core (`CORE/application.py`, `adapters/memory_sqlite.py`) | conversations, messages | `chat`, `chat_stream` | cancel and failure between chunks, several separate transactions at the end | stored answers are complete, cancelled ones leave nothing | `ChatStream` |
| Model router and adapters (`CORE/adapters/model_*.py`) | last route per thread | `generate`, `generate_stream` | fallback in mid-stream, truncated streams | one answer is one provider's; sensitive text stays local | `ChatStream` (streaming) |
| Browser sessions (`RT/browser_session_runtime.py`, `RT/browser_live_session_runtime.py`) | logical sessions, live contexts | `create`, `navigate`, `get`, `close`, `cleanup`, `status` | two stores of one thing, two locks, eviction by age and number | the two stores agree | `BrowserSessions` |
| Browser runtime (`RT/browser_runtime.py`) | lazily built session runtime | page reads, policy | – | URLs checked before and after redirects | not modelled |
| Filesystem runtime (`RT/filesystem_runtime.py`) | scopes (of the session and durable), backups | grant, revoke, read, write | scopes lost with the process, backup and atomic write | writes only within scopes, a backup of what is overwritten | `TaskExecution` (scopes) |
| Desktop interface (`APP/src/App.tsx`) | the one pending action, busy flag, decision in progress | `send`, `processAssist`, `decideCyber`, `executeApproved` | state read at a click and used after two awaits; two calls at once | what the user approves is what runs | `AssistedActions` |
| Bridge, cognitive runtime, security panel (`APP/bridge/rachel_bridge.py`, `RT/cognitive_runtime.py`, `RT/security_panel.py`) | the plan of one message | `handle`, `assist`, `security_decide` | approval and resumption are two calls, possibly of two processes; an answer rejected after its effect | a resumed plan is the one that was approved | `AssistedActions` |
| Learning store and curation (`CORE/adapters/learning_sqlite.py`, `CORE/learning_curator.py`) | experiences, feedback | capture, quality, feedback, `collect`, `materialize` | feedback between the curator's reads; repeated collection | only clean, accepted text is collected, once | `LearningVault` |
| Dataset factory and review (`CORE/dataset_factory.py`, `RT/learning_engine_runtime.py`) | table of versions, directories | `create_version`, `verify_version`, review, promotion | rename and row are two steps; number taken before either | a registered version has its files; promotion is approved | `DatasetFactory`, `TrainingLedger` |
| Export and compiler (`CORE/dataset_export.py`, `RT/learning_export_runtime.py`, `CORE/training_dataset_compiler.py`, `RT/training_dataset_runtime.py`) | tables of exports and compiled sets, directories | `export_local`, `compile`, `verify` | the same, and two identical calls at once; rounding of splits | provenance, immutability, disjoint splits | `DatasetExport`, `DatasetCompiler`, `TrainingLedger` |
| Training gates (`CORE/model_contract.py`, `CORE/training_run_planner.py`, `RT/training_preflight_runtime.py`, `RT/training_run_runtime.py`, `RT/training_execution_gate.py`, `RT/model_runtime.py`) | dry-run manifests | `preview`, `request_dry_run`, `materialize_dry_run`, `status` | documents edited between reads, hardware that changes, check and write apart | nothing trains; a manifest is what was approved | `TrainingRunPlanner`, `ReadinessGates` |
| Evaluation (`RT/evaluation_runtime.py`, `RT/evaluation_plan_runtime.py`) | none: five documents are read each time | `status`, `candidate_status`, `promotion_eligibility`, `preview` | a report mixes documents of different moments | no promotion | `EvaluationContracts`, `ReadinessGates` |
| Contracts of the agent (`RT/agent_runtime.py`) | none: five documents and the sources | `authority_map`, `readiness` | the same | no autonomous execution | `AgentContracts`, `ReadinessGates` |
| Task orchestrator (`RT/task_runtime.py`) | none | `create_plan`, `execute`, learning capture | – | – | single steps of `AgentLoop` |
| Owned processes (`RT/process_runtime.py`) | registry of started processes | start, status, stop | pid reuse, exit races | stops only what it started | not modelled |
| Team members, knowledge and search, documents, projects and Git, voice, privacy, audit, API | see `PROJECT.json` | one external call or a pure function per operation | nothing interleaves that the model could tell apart | – | not modelled |

How they interact. A user's message goes from the interface through a Tauri
command to `BackendHost.request`, as a JSON line to the resident server, and
there either to the chat (`ChatService.chat_stream`, the router, a provider) or
to the cognitive runtime, which has Ned make a plan and execute it. The executor
calls the coordinator for each step; the coordinator asks Cyber's policy, which
asks for an approval when the effect needs one. The call then ends with
`awaiting_approval`; the decision comes later through another command (or the
panel) and a new call resumes the plan with the approval's identifier. The agent
loop drives the same executor one step at a time and verifies what it returned.
Everything that outlives a process is in SQLite: each component reads a row,
works on its copy, and writes the whole of it back.

An answered chat leaves an experience in the learning store. The user's feedback
and Dany's gate make it fit for the curator, which writes dataset versions; a
version is reviewed and promoted under an approval, exported under a second, and
compiled for training under a third. Compiled sets, the model contract, hardware
profiles, evaluation and agent documents feed reports that say what is still in
the way of training, promotion and autonomous agents. The code ends there: the
gate writes the manifest of a dry run, and nothing in it starts a training.

## Modules

Each component is one module; its MC module extends it with the values a `.cfg`
cannot write. "Mutant of X" definitions are wrong variants of the definition that
follows, kept to show that the properties depend on it.

### `ApprovalToken`: what an approval promises

The abstract specification: a token is issued for one call, decided once while
pending, lapses, and is spent at most once when approved. `TaskExecution` uses
its actions as the approval store, and so do the gates, the training pipeline and the
assisted actions; `Approvals` is shown to implement it.

### `Approvals`: the approval store

`rows` is the table. A decider's `decide` is three steps (the SELECT with the
check and the clock, the UPDATE guarded by `status = 'pending'`, the second
SELECT and the answer) and a consumer's `consume` is two (clock and
`BEGIN IMMEDIATE`, then the transaction), so deciders, consumers and the passing
of time interleave at every point at which SQLite lets them. The wait for the
write lock is the distance between `ConsumeBegin` and the rest. `spends`,
`spentFor` are history. The clock `now` never goes back: the code reads
`time.time()`, and an adjustment of the system clock is outside the model.

### `TaskExecution`: a plan carried out

`store` is the plan's row, `exec[e]` the locals of one `execute` call with its
copy `mem` of the plan. `Load` is the first part of `execute` (the refusal of
finished plans and `resume_interrupted`), `Visit` one turn of the loop over the
steps (`Skipped`, `Runnable`, `Started`), `EndPass` the end of a pass.
`Unresolved`, `Consume`, `Clear`, `Ask`, `ToolSucceeds`, `ToolRaises` are
`ToolCoordinator.invoke`; `Await`, `Fail`, `Complete`, `Pause` are what the
executor makes of the answer, each with its checkpoint. `Crash` loses the copy
and the session's scopes at any point, `Exit` ends a session in order. A step's
`Effect` says whether it needs an approval, grants a scope, or reads within one.

Two branches of the code are unreachable and left out: the cascade that cancels
dependants of a failed step (a failure ends the run before the loop comes back)
and the "No executable step was found" failure (acyclic plans always have one).

### `AgentLoop`: slices, verification, repair

`run` is the `agent_runs` row and `loop` the copy `continue_run` works on.
`Slice` is the orchestrator's `execute(maximum_steps=1)` with the outcomes that
`TaskExecution` allows; a plan is a chain of `NSteps` steps whose results are good or not
(`good`, what the verifier will find). `SliceFailed`, `VerificationFailed`,
`Checkpoint` follow the branches after it; `Repair` merges `_repair` and the save
behind it (a crash in between only leaves a plan no run names); `RepairRaises` is
a `create_plan` that raises. `FinallyRead` and `FinallySave` are the `finally`
clause. `ControlRead` and `ControlWrite` are `pause` and `cancel`; with
`ForegroundControl` they happen only between calls of `continue_run`, which is
how the repository's own callers use them. The "unknown execution state" branch
is unreachable from the states an executor returns. A crash inside a tool is
`TaskExecution`'s matter: here a crash falls before or after a slice. The
repository builds this runtime only in its tests so far.

### `DesktopHost`: shell and resident backend

A request passes `AlreadyStarted` or `Spawn` and `MarkStarted` (under the start
lock), `Register`, `Write` and `Receive`; `WriteFails` and `Unwind` are the error
path. A backend reads lines, answers what its reading loop serves itself
(`Answer`), runs others on `Workers` threads (`Read`, `Work`, `Reply`), and ends
on the end of its input (`Close`, `Exit`) or at any moment (`Die`). Its event
task routes the lines and then handles `Terminated` in three steps (`Unmark`,
`Drop`, `Drain`), as the code does under three separate locks. Output is taken in
whole lines; the shared line buffer is a hazard listed without a property.

### `BrowserSessions`: two stores of one session

`sessions` is the manager's table, `live` the backend's contexts. `create`,
`navigate` and `close` hold the runtime's lock through several steps; `get`,
`status` and `cleanup` take the manager's own lock for one step each and
interleave with them. Sessions expire on the clock and are evicted when the
table is full. Page contents and URL checks are left out. No tool of the platform
calls these operations yet.

### `ChatStream`: a streamed answer and its cancellation

`Submit`, `CancelAll` and `SetEvent` are the reading loop, `Begin` takes a queued
request to a free thread, and the actions of `Work` are `chat_stream` over
`ModelRouter.generate_stream` over the provider's stream: `Chunk` (records
without `choices`, which the adapter skips, change nothing), `StreamEnds`,
`StreamFails` with the fallback to the next candidate, the last look at the
event, then experience, message, verdict and answer as separate steps, any of
which may raise. `route` is the router's thread-local, which outlives a request.
`early` is history: the requests whose cancel came before their text was
complete. The order of the candidates is a constant (the router's ranking is not
modelled).

### `TrainingState`, `LearningVault`, `DatasetFactory`, `DatasetExport`, `DatasetCompiler`, `TrainingPipeline`: from a chat to a training set

`TrainingState` declares the stores (experiences and feedback; versions, exports
and compiled sets, each with a table and a set of directories), the approvals and
the locals of the calls in progress; the others add the operations of a component
each, and `TrainingPipeline` composes them. An item keeps what its identity is
made of in the code: its type, experience, text and review state, as the digests
over payload and provenance do. The curator reads experiences and feedback in two
steps (`ReadExperiences`, `ReadFeedback`), makes versions bucket by bucket
(`NextBucket`), and each version takes its number, is written, renamed and
registered in steps of their own (`LookForIdentical`, `TakeNumber`,
`PublishVersion`, `RegisterVersion`); exporter and compiler do the same
(`PlaceExport`, `PublishExport`, `RegisterExport`, and so on), after the approval
they were called with is consumed. `Crash` forgets a call between any two steps
and leaves the files as they are. `RoundHalfEven` and `EvalCount` are the split's
arithmetic.

### `TrainingLedger`: what the stores promise

The abstract specification of the three tables: entries are only added, with the
next number, a version changes its state once, from candidate to approved for
export, and an export comes of a promoted version, a compiled set of an export.
No files, no calls, no approvals. `ImplementsLedger` is the refinement.

### `TrainingRunPlanner`, `EvaluationContracts`, `AgentContracts`: validators

Pure operators: what makes a document valid and which blockers a report derives.
A document is a record of the facts that the validators test: `fixed` stands for
the literals that have one allowed value and no other influence (version, status
and identifiers), `on` for the set of the flags that must be off.

### `ReadinessGates`: documents, reports and the dry run

`disk` holds the documents, which `Edit` changes at any time; `tasks` says what the
processes are there for, one of the given `Workloads`. A call reads the
documents of its operation one after another, in the order of the constructors
(`Read`), validates, and reports (`Inspect`) or goes through the gate:
`RequestDryRun` asks for an approval for the plan it made; a materialisation makes
its plan anew (`ReviewAgain`), consumes the approval for that plan (`Consume`) and
writes the manifest (`WriteManifest`), or fails to (`WriteFails`: the directory, the
temporary file or the rename raises, with the approval spent and the process alive),
or ends with its process (`Crash`). Hardware is reported by the caller and is
part of the plan but not of what the approval is bound to, as in the code.

### `AssistedActions`: from a message to its effect

`call[m]` is the m-th message on its way through host and backend, `call[Resume]`
the resumption after an approval, `call[ScriptCall]` that of a one-shot bridge.
`PlanAction`, `AskApproval`, `InvokeFreely`, `InvokeAuthorized`, `Execute` and
`AnswerAction` are `NedCognitiveBridge.handle` with the coordinator; `Remember` and
`kept` are `ResumeStore`; `pending`, `busy` and `deciding` are the interface.
A decision is taken in three steps (`Click`, which reads what waits,
`PanelDecides`, `HearDenied` or `HearApproved`), because the interface awaits the
backend in between and uses what it read at the click. `Die` fails what is in the
backend. The approvals are `ApprovalToken`'s, bound to the plan; that the store
implements the token is what `Approvals` shows. An approval goes by the number of
the message that asked for it, and the planner may find any tool for a text that
the rules do not know.

## Runs

| Run | Shows | Bounds, and why they are enough |
|---|---|---|
| `MCApprovals` | types, `SpendOnce`, `SpendAuthorised`, `ImplementsToken` | one approval (rows share no state), two deciders, two consumers, two argument hashes and scopes, a deadline that can pass before, between and after any two steps. The theorems below hold for every size. Deadlock is checked. |
| `MCTaskRuns` | all properties of one executor | three steps listed against their dependencies, of all four effects; four calls, two crashes, step limits none and one: enough for wait, approval, crash after the effect, resume and completion in one behaviour |
| `MCAgentRuns` | budgets, verification, repair, termination | plans of two steps, three tool calls, two failures, four iterations: tool calls, failures and time run out alone and together (iterations bind exactly as tool calls do, one slice calling at most one tool); two controls, one exception, one crash: a control before and after each other event |
| `MCHostRuns` | no request lost, every call returns, orphans end | three requests on two backends and a pool of one thread: requests queue, a backend dies under a waiting one while another starts its successor |
| `MCHostOne` | *violated* `OneBackendServes` | three backends, four requests, one death |
| `MCBrowserRuns` | the two stores agree, the lock comes free | three sessions where the manager keeps two, two callers, three ticks of a lifetime of one: evictions by age and by number, under and beside the lock |
| `MCChatRuns` | one voice, cancellation, complete records | two requests, one with a fallback, two threads that serve both orders and side by side, one `cancel_all`, one crash; the count of chunks turns back at two so that a stream may never end |
| `MCTrainingRuns` | provenance, deduplication, files, splits, the ledger | one experience with two corrections, one of which Dany rejects, and two rounds of feedback: accepted, rejected, corrected and corrected again give conversation and preference items, so that versions of both types and of one and two items arise, and items collected twice; one curator and one operator at work side by side, three approvals, one for each step, and one crash, at any step of either |
| `MCExportRace` | *violated* `ExportsKeepFiles` | two operators, one export, no crash |
| `MCGateRuns` | no gate opens, a manifest is what was approved, a spent approval without one had its write cut off | two workloads, one for the reports and one for the gate, which write nothing that the other reads: one process that makes all reports; or two that materialise, one of which also asks for approvals. Two approvals, two datasets (one disliked by Dany), two recipes, hardware reported or not. Every document but Dany's identity is there as released and in a way that would help to open a gate or keep it shut. Two edits: a mixture that was never on the disk needs two (one document changes after it was read, then another before it is). Crashes and failed writes have no bound of their own. `GatesStayShut` holds for any number of edits. |
| `MCAssistRuns` | approved effects, exact resumption, the interface comes free | two messages, one text that the rules know and one they do not, two guarded plans and a free one; one script, one death: cards change places, a decision overtakes its reply, a plan is lost with its request. The theorems hold for every size. |
| `MCAssistLost` | *violated* `ApprovedIsResumed` | the same without script and death |

The runs other than `MCApprovals` do not check deadlock: the bounds on calls,
edits and crashes, and the user who may do nothing more, let the system stop.

### The properties

* **Approvals.** `SpendOnce`, `SpendAuthorised` (decided and consumed on stamps
  within the lifetime, for the requested call), `ImplementsToken`.
* **Plans.** `EveryEffectPaid`: every guarded effect that ever happened has an
  approval of its own, across crashes, retries and resumes.
  `DependenciesFirst`. `CompletionHonest`: what the stored plan claims did happen.
  `RepeatNeedsCrash` (one executor). `RunEnds`.
* **Agent runs.** `EveryStepVerified`, `BudgetHolds`: exact without interruption;
  each crash or exception can cost one step its verification or its count, and the
  properties say so rather than exclude it. `LoopEnds`.
* **Host.** `WaitersAreHeld`, `CallsReturn`, `OrphansEnd`; refuted,
  `OneBackendServes`.
* **Browser.** `SessionsHaveContexts`, `LockComesFree`.
* **Chat.** `OneVoice`, `CompletedIsRecorded`, `CancelWins`, `CancelEnds`.
* **Training sets.** `CompiledHasProvenance`: behind a compiled set are a promoted
  version, three spent approvals, texts that Dany accepts, and answers that the
  user accepted or corrected. `NoItemTwice`: the curator's deduplication, across
  versions and interruptions. `RegisteredKeepFiles`: a row never loses its
  directory, and the preflight never degrades. `SplitIsSound`. `ImplementsLedger`;
  refuted, `ExportsKeepFiles`.
* **Gates.** `NothingReady`: no report opens a gate, whichever documents it mixed.
  `ManifestAsApproved`. `SpendsAreHonoured`: after it has consumed an approval the
  gate refuses nothing, so a spent approval without a manifest is one whose own
  write failed or was cut off by a crash (`cut` records these; the code does not).
* **Assisted actions.** `EffectsAreApproved`, `ResumeIsExact`,
  `InterfaceComesFree`; refuted, `ApprovedIsResumed`.

### Fairness

The user, crashes, timeouts and the outside world get none.

* `TaskExecution`: a called `execute` is a loop on its own thread that waits for
  nobody, so each of its steps happens (`WF` of `ExecutorStep`).
* `AgentLoop`: the same for `continue_run`.
* `DesktopHost`: begun requests and event tasks are scheduled by the async
  runtime; what a backend serves ends because its model calls and tools have
  timeouts.
* `BrowserSessions`: under the lock only the page is waited for, and `goto` has a
  timeout.
* `ChatStream`: threads run, and no read outlives the provider's timeout. A
  stream need not end. It is assumed not to consist of skipped records or
  keep-alive comments for ever: the adapter skips them without handing control
  back, and nothing in the code bounds that. That queued requests start relies on
  the executor's queue being first in, first out.
* `AssistedActions`: each call in progress goes on (`Advance` of every caller), a
  decision is carried through, a finished call is shown: the backend's model calls
  have timeouts, and the host fails what a dead backend held. Nobody has to send,
  to decide or to run a script.
* The other modules have no liveness property and state no fairness.

## Divergences between code and documents

Three runs are expected to end in a violation; `PROJECT.json` quotes the line each
one contradicts.

1. `MCHostOne`: the end of an old backend clears the slot of its successor.
2. `MCExportRace`: of two identical exports that both found no row, the second
   one's `os.replace` (`dataset_export.py:983`) fails on the directory of the first,
   and its handler (line 1064) removes that directory, before or after the first has
   inserted its row. The factory's `create_version` and the compiler end in the same
   handler; versions differ in their number unless two processes take one number.
3. `MCAssistLost`: the interface resumes an approved action only when it is the
   last one that was asked for, and lists all cards. It also loses one whose card
   is decided before its reply is shown, and one whose resumption fails: the
   approval then stays approved until it lapses.

Others were met while modelling and are visible in the definitions. No run is
spent on them:

* `consume` reads the clock before its wait for the write lock
  (`security_runtime.py:131`), so an approval can be consumed after it expired, by
  as long as the wait; `SECURITY-APPROVAL-CONTRACT.md:30` says "Token expirado nao
  executa." (`ConsumeBegin`; `SpendAuthorised` speaks of stamps for this reason.)
* Nothing ties an executor to a plan's row (`task_executor.py:127`): two of them
  repeat completed steps, though `task_executor.py:117` declares
  `skip_completed_steps`. With `Executors = {ned, rival}` in `MCTaskRuns.cfg`
  `RepeatNeedsCrash` fails, and `EveryEffectPaid` and `CompletionHonest` hold.
* The agent loop's save overwrites a cancel stored meanwhile
  (`agent_loop_runtime.py:593`), after which the run goes on; line 416 says
  "Cancelled agent run cannot be resumed" (`ForegroundControl = FALSE`).
* A stream record without `choices`, an error record among them, is passed over
  (`model_openai_compatible.py:216`), and a truncated answer is stored as complete;
  `LOTE-2-RUNTIME-PERFORMANCE-ACCEPTANCE.md:16` says that answers are stored only
  when the stream ended with success.
* A denial that loses the race with another decider's approval is answered without
  an error (`DecideReturn`).
* A verification failure whose repair cannot be planned is forgotten, and a failed
  slice then leaves the run stuck on a failed plan (the `Interruptions` in the agent
  loop's properties); with two budgets exhausted at once the failure budget is not
  the one named (`FailureBudgetNamed`).
* A browser session evicted by its manager leaves its context open (`Overfull`,
  `Create`).
* The curator's doc says that experiences the user rejected are excluded
  (`learning_curator.py:32`); a correction among the rejected experience's feedback
  still gives preference items (lines 407-512, `PreferenceItems`).
* `collect` also takes structured learning events whose `training_state` is
  approved, and nothing in the repository ever sets that state.
* The baseline plan is ready only when its suite's results are available
  (`evaluation_plan_runtime.py:288`), that is after the evaluation it plans.
* An approval for an export or a compilation is spent before the operation is known
  to succeed, and may buy nothing; the dry-run gate makes all its refusals first
  (`SpendsAreHonoured`), and only its write itself can then fail (`WriteFails`).

## Proofs

`ApprovalsProofs` proves of `Approvals`, for every value of its constants:

* `TypeCorrect`: `Spec => []TypeOK`
* `SingleUse`: `Spec => []SpendOnce`
* `AuthorisedUse`: `Spec => []SpendAuthorised`
* `Refinement`: `Spec => ImplementsToken`
* `SettledForGood`: `Spec => [][SettledRowsStay]_rows`, a denied, lapsed or used
  approval is never written again

The assumptions are those of the module (`ApprovalsAssumption`). Single use is not inductive by
itself, for three reasons, and `IInv` adds what is missing:

* `CallsInFlightIssued`: a decider or consumer between two steps works on a row
  that exists, so its UPDATE cannot touch a row issued later;
* `ApprovedInTime`: an approved or consumed row carries a decision stamp within
  its lifetime, which `SpendAuthorised` needs when the row is spent;
* `UnspentAuthorisesNothing`: `spentFor` is empty while `spends` is zero, so the
  first spend makes it the singleton of the requested call.

`NextIInv` goes action by action through `StepOfARow`: a step that changes a row
does one of the few things a row can undergo. The refinement reuses the same case
split: `OneRowAtATime` says that a step changes at most one row, and
`StepImplementsToken` matches each change with an action of the token or a
stutter.

The four modules that use approvals do not contain the store: their `token` is
written by the actions of `ApprovalToken` (`Cyber!Issue`, `Cyber!Spend`,
`Cyber!Decide`, `Cyber!Lapse`), or by a part of them. That they take only whole steps of
it is a theorem of each, `Spec => Cyber!TokenSpec`: `TasksUseTokens`,
`GatesUseTokens`, `AssistUsesTokens`, `PipelineUsesTokens`. So the token stands
between the store and its users: the store with its races implements it, and the
users rely on it alone. The step that needs an argument is a consumption, where
the user spends what it was asked for: that the approval is one of those issued,
and the call one that can be asked for, follows from the user's own invariant.

`ReadinessGatesProofs` proves of `ReadinessGates`, from `GatesAssumption` (the
released documents are among those that people may write, and contracts and
profiles have their fields), for any numbers of processes, edits, crashes and failed
writes:

* `GatesTypeCorrect`: `Spec => []TypeOK`
* `GatesStayShut`: `Spec => []NothingReady`
* `ManifestsApproved`: `Spec => []ManifestAsApproved`
* `SpendsHonoured`: `Spec => []SpendsAreHonoured`
* `GatesUseTokens`: `Spec => Cyber!TokenSpec`

Lemmas on the validators come first: what each accepts leaves a blocker in every
report that can be made of it (`TrainingIsOff`, `PlanIsBlocked`, `ModelIsBlocked`,
`EvaluationIsBlocked`, `AgentIsBlocked`), whatever the other documents say. The
invariant then carries validity through the reads: `CallsInFlight` says that a
contract already read was valid when it was read, that a report was accepted, and
that a call about to write holds the spent approval for exactly its run. The
documents on disk play no part in it, which is why edits cannot break it.
`SpendsAreHonoured` needs no more: a spent approval whose call is between the
consumption and the write leaves that place only by `WriteManifest`, which adds the
manifest, or by `WriteFails` and `Crash`, which record it in `cut` (`Quiet`,
`QuietStep`: every other step leaves such a call where it is). A refusal after the
consumption would be a step that is none of these.

`AssistedActionsProofs` proves of `AssistedActions`, from `AssistAssumption`:

* `AssistTypeCorrect`: `Spec => []TypeOK`
* `EffectsApproved`: `Spec => []EffectsAreApproved`
* `ResumesExact`: `Spec => []ResumeIsExact`
* `ApprovalsRunOnce`: `Spec => []OneEffectEach`, an approval runs one effect at most,
  though the interface and the script may resume it at the same time
* `AssistUsesTokens`: `Spec => Cyber!TokenSpec`

An approved action is known by its number in five places: the call that asked, the
host's store of plans, the waiting action, the decision in progress and the call
that resumes. `IInv` says that each agrees with the approval (`CallsSound`,
`KeptExact`, `PendingFits`, `Matches`). `Fits` is the argument for a resumption
without its plan: the text is the one that was asked with, and if the rules know it
they made the approved plan of it, and will again; if they do not, the resumption
fails instead of asking the planner. `Later` says what a step may do to approvals
(never another call, never unspent), and `Frame` reduces each step to what it
writes. `OneEffectEach` is inductive together with `ActsAreSpent` (whoever is about to
act, and whatever was done, has its approval spent): a call gets to act by spending an
approval that was not spent, so nobody else is there with the same one.

`TrainingPipelineProofs` proves of `TrainingPipeline`, from `TrainingAssumption`
(finitely many experiences, percentages up to 50), for any clients at work and any
number of crashes:

* `TypeCorrectness`: `Spec => []TypeOK`
* `CompiledOnlyWithPapers`: `Spec => []CompiledHasProvenance`
* `SplitsAreSound`: `Spec => []SplitIsSound`
* `PipelineImplementsLedger`: `Spec => ImplementsLedger`
* `ItemsAreStoredOnce`: one curator implies `Spec => []NoItemTwice`
* `RegisteredFilesStay`: one curator and one operator imply
  `Spec => []RegisteredKeepFiles`
* `PipelineUsesTokens`: `Spec => Cyber!TokenSpec`

The argument is monotonicity. A call checks something, and writes much later,
after other calls have moved; what saves it is that the things checked are never
taken back. `papers` collects them (what passed Dany's gate, what is registered,
promoted and exported, what approvals were spent for), `Grown` says that they only
grow, and `CallSound` says what a call relies on at each of its steps, all of it in
terms of `papers`: so the steps of other calls cannot disturb it (`GrownKeepsCall`),
and `Frame` leaves to each action only what it writes itself. `Numbered` is there
for the next number, the greatest of those taken, to exist at all. The split needs
that a version is finite and not empty, and that a set has subsets of every smaller
size (`SubsetOfSize`); `EvalCountBounds` does the rest. The refinement matches the
four registrations with the ledger's four entries, and `Fresh` with the uniqueness
constraints of the tables.

The last two theorems are about what no lock protects: a curator tests its items
against the registry, and tests for a directory, long before it writes either.
Monotonicity is of no use, since the tests ask that something is *not* there. With
one curator only its own steps could spoil them: `CuratorInv` says that the buckets
still to be stored are disjoint from each other and from every version
(`FreshTodo`), and what it has found or made of its directory. `OperatorInv` says
the same of exports and compiled sets. The steps of the others change none of it
(`CuratorElsewhere`, `OperatorElsewhere`). The hypotheses are
needed: two operators refute `ExportsKeepFiles` in a run of its own, and two
curators can both find an item absent and store it in versions that differ in
another item.

`TaskExecutionProofs` proves of `TaskExecution`, from `TaskAssumption` (the order names
no step twice; it need not respect the dependencies, which `execute` tests), for any
plan, any executors side by side, any runs and crashes:

* `TypeCorrect`: `Spec => []TypeOK`
* `EffectsArePaid`: `Spec => []EveryEffectPaid`
* `DependenciesActFirst`: `Spec => []DependenciesFirst`
* `CompletionIsHonest`: `Spec => []CompletionHonest`
* `RepeatsNeedCrashes`: `Executors = {e}` implies `Spec => []RepeatNeedsCrash`
* `StoredPlanGoesForward`: `Executors = {e}` implies
  `Spec => [][Forward(store, store')]_store`
* `TasksUseTokens`: `Spec => Cyber!TokenSpec`

Executors overwrite each other's plan at every checkpoint, so no copy of it can be
related to another. `IInv` makes each copy honest by itself (`RunSound`): it calls
completed only what is among the results, and results are never taken back. For the
payments, an approval that was consumed belongs to the one run that holds it, until
its effect is written down (`PaymentsSound`); the store's guard on consumption,
taken over from `Approvals`, makes it one. `RepeatsNeedCrashes` is about one
executor, because two that load the same row repeat a step without any crash;
`RepeatsExplained` counts for each step the crashes and whether what the run or the
stored plan knows of it (`Acted`) accounts for its last effect. `Forward` says that a
step stored as completed stays so and that a finished plan is not written again; it
needs that the copy in use is not behind the row (`RowFollows`), which a second
executor breaks: with `Executors = {ned, rival}` in `MCTaskRuns.cfg` TLC refutes
`[][Forward(store, store')]_store`.

`ChatStreamProofs` proves of `ChatStream`, from `ChatAssumption` (every request has
at least one candidate), for any requests and threads:

* `TypeCorrect`: `Spec => []TypeOK`
* `AnswersHaveOneVoice`: `Spec => []OneVoice`
* `AnswersAreRecorded`: `Spec => []CompletedIsRecorded`
* `CancelsWin`: `Spec => []CancelWins`
* `OutcomesStay`: `Spec => [][OutcomeStays]_<<task, learned, answer>>`, a stored answer
  and a verdict are written once, and what the caller is told does not change

A thread's route outlives the request that set it, so `OneVoice` needs that a
request is served by one thread that serves nothing else, which is a part of
`TypeOK`, and for that the queue must hold each waiting request once (`QueuedOnce`).
`RequestSound` is then what one request relies on at each of its places: what the
router has sent of it (`VoicesSound`), what is stored and told (`RecordSound`), and
that an early cancel is seen by the last check (`EarlySound`). `ServeStep` and
`RequestKept` leave to each action the request it serves. For `OutcomesStay` a verdict
must not exist while its request can still be judged (`JudgedOver`).

`HostAndBrowserProofs` proves of `DesktopHost`, from `HostAssumption`, for any requests,
pool and number of backends, old ones still ending included:

* `TypeCorrect`: `Spec => []TypeOK`
* `WaitersStayHeld`: `Spec => []WaitersAreHeld`
* `AnsweredOnce`: `Spec => [][AnswersStay]_request`, what a call's channel holds is not
  overwritten, and a call that has returned is not touched again

`IInv` says that a request is in `pending` from its registration to its answer, which
a drain must respect, and that a waiting request is in the inbox, pool or replies of
some backend, or that this backend's end has still to be noticed and will drain
`pending`. `AnsweredOnce` needs the converse of the first (`PendingExact`): who is in
`pending` is unanswered, so that no drain or late reply fills a channel twice.
Nothing is claimed of the slots `started` and `child`: `OneBackendServes`, which would
be such a claim, is violated.

The same module proves of `BrowserSessions`, of which it says nothing together with the
host, from `BrowserAssumption` (no thread is called `Free`, the manager keeps at least
one session), for any identifiers, callers, lifetime and maximum:

* `BrowserTypeCorrect`: `BrowserSpec => []BrowserTypeOK`, which contains the bound of
  the manager, at most `Maximum` sessions
* `SessionsKeepContexts`: `BrowserSpec => []SessionsHaveContexts`
* `ForgottenForGood`: `BrowserSpec => ForgottenStayForgotten`, an action property: a session
  once closed, evicted or expired is not put back by a call that still holds its
  identifier

`BrowserInv` says who is inside the lock (the calls at a place of `Inside`, and they
alone), that an identifier a call holds was issued, and that what a sweep has still to
close is neither in the manager nor will be. A context may therefore be closed without
the lock: its session is forgotten for good, because identifiers are never issued twice.
While the lock is held at a place of `Blind` the session at hand may be without its
context; the same call then opens it or forgets the session.

`AgentLoopProofs` proves of `AgentLoop`, from `AgentAssumption`, for plans of any
length, any budgets, crashes, exceptions and calls of pause and cancel:

* `TypeCorrect`: `Spec => []TypeOK`
* `BudgetIsKept`: `ForegroundControl` implies `Spec => []BudgetHolds`
* `CompletionIsVerified`: `ForegroundControl` implies `Spec => []EveryStepVerified`
* `RunAdvances`: `ForegroundControl` implies
  `Spec => [][Later(run, run') /\ OutcomeStays(run, run')]_run`

The loop counts and observes on its own copy and saves it at its checkpoints, so both
properties are of what is stored: `BudgetInv` and `GapInv` allow for the slice in
progress (`Unsaved`) next to the interruptions, and `LoopSound` says how the copy and
the stored run differ at each place (`InStep`, `AnswerSound`, `RepairSound`), which a
crash turns into an interruption. The bounds of the budget's counters, that is
`TypeCorrect`, need none of this: no slice starts without room in each of them
(`WithinBudget`), whoever writes the run back. The other two do: a pause or a cancel
that overlaps the loop writes an old copy of the run, counters included
(`ForegroundControl = FALSE`), and the calls counted meanwhile are lost. The
hypothesis says that they come between the calls of `continue_run`, as the callers
in the repository make them. `RunAdvances` says under it that the stored run never goes
back: its counters, plan, repairs and observations only grow, a completed run is not
touched, a cancelled one stays cancelled and a failed one can only be cancelled. It
needs that the loop's copy is never behind the stored run (`LoopAhead`). With
`ForegroundControl = FALSE` in `MCAgentRuns.cfg` TLC refutes it: that is the save over a
cancel of the divergences above.

Every invariant and action property of the passing runs is proved. Only model-checked:

* liveness under fairness (`RunEnds`, `LoopEnds`, `CallsReturn`, `OrphansEnd`,
  `LockComesFree`, `CancelEnds`, `InterfaceComesFree`), anything about `ENABLED`, and
  what a recursively defined function computes for every input (induction over data):
  these are beyond the prover's reach. No module declares a `RECURSIVE` operator.

The theorems about steps that no run lists (`SettledForGood`, `OutcomesStay`,
`AnsweredOnce`, `ForgottenForGood`, `RunAdvances`, `StoredPlanGoesForward`) and
`ApprovalsRunOnce` were checked by TLC on the instances of the runs before they were
proved.

## Plan

Done: the approval store, plans, the agent loop, the desktop host, browser
sessions, streamed chats, the training pipeline with its ledger, the readiness
gates, assisted actions, the proofs about all of them, and the refinements that tie
the approval store to its four users.

Modules worth adding: `ModelRouter` (privacy classification, ranking and fallback
as functions: sensitive text never reaches a cloud candidate), `PlanGraph` (the
validator's cycle search against acyclicity, which would discharge the assumption
of `TaskExecution`), `FileWrites` (scopes, backup, atomic replacement and restore,
with crashes).

## Not modelled

Model answers, prompts, ranking scores, page and document contents, voice,
packaging, the views of the interface and the recording of events and logs; SQLite
and the operating system beyond the atomicity of a statement, a transaction and a
process's end; the wall clock going back. In `AssistedActions`: messages that
become task plans (they go through `TaskExecution`'s executor), the fast chat that
answers without a tool, and effects that depend on a scope. In the training
pipeline: learning events (see above), manual deletion of files, and the contents
of the compiled rows beyond their number and origin. In the gates: the probing of
hardware and of installed packages, whose results are inputs; the comparison of the
baseline's subject with the policy's (`evaluation_runtime.py:539`), without which the
modelled validator accepts more than the code; and the count and state tests of a
compiled set, which are one fact. An effect that `CyberPolicy.check` does not know,
and the plan that a resumption may find in its environment
(`cognitive_runtime.py:434`) instead of its request, are left out too. `PROJECT.json` lists
every component with its reason.
