# CouncilKit: models and proofs

CouncilKit lets several model CLIs (claude, codex, cursor, kimi, grok) discuss a
topic in a Room, Round by Round, and ends the Room with a report. This directory
models the parts of it where several actors share state, checks them with TLC on
small instances and proves the most important results with TLAPS for every
instance. Paths below are relative to the repository's root; `OR` is
`src/orchestrator/discussion-orchestrator.ts`, `TX` is
`src/lib/discussion-transactions.ts`.

## The system

    browser page(s)                               Runtime Host (one Node process)
    ---------------                               -------------------------------
    orchestrator  --- HTTP: create/close scope,   scope manager --- driver --- CLI process
      |   |            execute, cancel, ACK --->    |       \---- session reconciler
      |   \--- event stream (SSE-like) <-------- execution registry
      v
    Dexie tables (IndexedDB, shared by all pages of the origin)

* **Pages** run the orchestrator. Any number of pages may be open on one Room;
  each keeps a copy of the Room row and the controller token of the Room's
  runtime binding, and both may be stale. Everything durable is in Dexie tables
  and changes only in transactions.
* **The Host** keeps everything in memory. It admits Execution Scopes (one set of
  driver processes for one Room), runs one turn per Participant at a time, buffers
  the events of every execution and forgets them when they are acknowledged or
  their Scope is closed.
* **The CLI** (`cli/`) runs discussions and reviews without a page, over files, git
  and its own Host client; its repair loop guards a source branch with a writer
  lease.

### Components

| component | state | operations | how it fails | what makes it correct |
|---|---|---|---|---|
| discussion transactions (`TX`) | Room, Rounds, ModelExecutions, messages, summaries, reports, RuntimeBindings | 26 transactions: Round lifecycle, anchoring (`begin*`), commit, discard, fail, ACK, binding | pages interleave; a page acts on stale copies; a call ends after its Round moved on | one live call per Room, anchored where it can be committed; one entity per committed execution, in script order; nothing decided is undone |
| orchestrator: intents (`OR`) | per page: control of the Room, its audit; per intent: the locals it carries over its awaits | start, run, pause, resume, message, abort, rotate, retry, skip, release, conclude; lock, takeover, start-up audit | lost answers, a page that dies between two steps, a Host that restarts, intents that overlap | what the Host and the rows say of a turn agree; every call ends; no Scope is left open |
| orchestrator: following a turn (`OR`) | cursor, counters and preview of `driveToTerminal` | connect, read, status request, give up | broken streams, failed requests, an ACK by somebody else | it ends, for a cause, and shows what the Host holds |
| execution registry and its routes (`runtime-host/executions`, `runtime-host/routes/scopes.ts`) | records, buffers, listeners, connections | `begin`, `emit` with coalescing, `follow`, `ack`, `releaseScope` | buffer at its cap, subscribers that join late, repeated ACKs, release under open connections | one terminal and one disposition per execution; replay and live events in order, none missed |
| scope manager (`runtime-host/scopes/scope-manager.ts`) with drivers | scopes, entries, timers, driver objects, CLI processes | create, prewarm, execute, takeover, close, three timers | every await can overlap a close; processes crash; drivers restart them in the background; requests are repeated | a closed scope brings no process up and leaves none unattended; record and turn agree; each scope ends |
| session reconciler (`session-reconciler.ts`) and the drivers' sessions | one record per Participant; epoch and thread of each driver | `reconcile`, `recordApplied`, `invalidate`, respawn | respawns, late snapshots, overlapping Scopes, compaction | the model that answers was told the whole snapshot |
| repair runner and writer lease (`cli/src/auto/repair-*.ts`, `cli/src/commands/repair.ts`) | `repair.json`, execution records, lease, budget chain, Squad tasks and their processes | run, resume, stop, launch, review, gate, publish, receipt, deadline supervision | the loop, its writer and a stop command die or move between two file operations; the remote branch moves | what is pushed or approved is the commit a clean review read; every fix is paid for; a live writer keeps its lease |
| CLI discussion runner (`cli/src/run/orchestrator.ts`, `cli/src/host/execute-turn.ts`) | transcript in memory and on disk, report, run and turn locals, cleanup budget | create, activate, turn loop, execute, follow, persist, ACK, cancel, close, report, copy, reconciliation | SIGINT at any moment; a Host that refuses, hangs, answers late or dies; writes that fail; a kill | what was acknowledged is on disk; exit code, transcript and report agree; nothing is left running at the Host; an interrupted run ends |
| routes, installations, profiles, run views, explainer, other CLI commands, UI | - | I/O, parsing, rendering | - | not modelled: sequential or read-only |

`PROJECT.json` lists every component with its status and every hazard at its line.

## The modules

| module | models | state |
|---|---|---|
| `DiscussionTransactions` | every transaction of one Room in `TX`, one action each | `room`, `rounds`, `executions`, `projection` (messages and summaries in order), `reports`, `bindings`; history: `granted` (tokens handed out), `published` (context pairs a page may hold) |
| `DiscussionProperties` | what the transactions promise together | |
| `MCDiscussion` | instance and search bounds of the Discussion run | |
| `DiscussionSafety`, `DiscussionVerdicts` | proofs | |
| `DiscussionOrchestrator` | the pages' intents over `DiscussionTransactions` and a Host of scopes and turns | `scopes`, `turns`, `instance`, `issued` (Host), `origin` (row fields of a dispatched turn), `lock`, `view` (per page), `task` (per running intent), `spent` (bounds) |
| `OrchestratorProperties` | what pages and Host must agree on | |
| `OrchestratorSafety` | proofs | |
| `MCOrchestrator` | instance and search bounds of the Orchestrator runs | |
| `ExecutionLifecycle` | abstract: what the Host promises about one execution | `result`, `disposition` |
| `ExecutionRegistry` | registry and event route | `records`, `listeners`, `streams` (what was written to each connection) |
| `RegistryProperties` | its properties, and the refinement of `ExecutionLifecycle` | |
| `ExecutionSafety` | proofs about the registry and the page that follows it | |
| `ExecutionStream` | a page that follows one execution over `ExecutionRegistry` | `page` (the locals of `driveToTerminal`), `preview`, `cancelled` |
| `StreamProperties` | its properties | |
| `ScopeManager` | scopes, seats, driver objects and processes, what is awaited | `scopes`, `index`, `entries`, `drivers`, `calls`, `executions` |
| `ScopeProperties` | its properties | |
| `ScopeSafety` | proofs | |
| `ParticipantSession` | reconciler record against what each CLI session was really told | `history`, `record`, `scopes`, `drivers`, `turns` |
| `SessionSafety` | proofs | |
| `RepairRun` | the repair of one branch: loop, commands, lease, supervisor, chain, Squad task | `st` (`repair.json` of each run), `executions`, `lease`, `chain`, `tasks`, `live`, `remote`, `loop`, `stopper`, `clock` |
| `RepairProperties` | what a repair promises | |
| `RepairSafety` | proofs | |
| `WriterLease` | the lease file of one branch and every command that uses it, one file operation per step | `lease` (the file), `at` and `existing` (per process: where it is, what it read), `dead`, `writers`, `settled` |
| `CouncilRun` | one discussion run of the command line against one Scope, with its properties | `scope`, `turns`, `acks`, `late` (Host), `files`, `records` (disk and memory), `run` (locals), `aborted`, `timedOut`, `spent` (signals); history: `lost` |
| `CouncilProofs` | proofs | |

### Discussion transactions

A Dexie transaction is serialisable, so it is one action. A transaction that
throws rolls back and a replay that returns the stored answer writes nothing:
both are stuttering, so an action's guard is the conjunction of every check
before the writes. Callers are not modelled as processes; what a caller may do
wrong is in the parameters: any token ever granted may be used (`t`), and an
execution may be created against any (revision, digest) pair the Room row ever
had (`published`), which is what a page with a stale copy would send. A page
that crashes is one that calls nothing more.

Data: the shared projection only grows, so its length and the topic determine
it and stand for `contextDigest`. A message is named by the execution that
produced it. Rounds and executions are numbered in order of creation.
`pauseRound`, `resumeRound` and `abortRound` are modelled with the conditions
of their only callers (`startRound`, `retryFailedParticipant`,
`abortPausedRound`), said at each action; `markBindingClosing` has no caller.

### Orchestrator

`DiscussionOrchestrator` EXTENDS the transactions: the pages of the module above
are no longer "any call with any token" but tasks that run the code of `OR`. An
asynchronous intent is a program counter and the locals it carries over its
awaits; between two awaits that touch a store it makes one step. A transaction
that throws is `~ ENABLED` of its action and ends the task where the code's
exception does (`Tx`). The Host is what the pages can see of it: the Scope of each
binding with its controller token, the turn and ACK of each execution, a restart
counter. It answers a request, refuses it (404, 409, fenced), or the request or
its answer is lost. The cancel of a turn that is given up (`cancelAbandonedExecution`) is
best-effort: the page settles the row whatever becomes of it, so a lost or timed-out one
has a bound of its own (`MaxMissed`) and leaves its mark on the turn (`missed`). The rows' `executionScopeId` and `hostInstanceId` are `origin`.
How a turn is followed between `Gate` and its terminal is `ExecutionStream`'s
business and is one step here.

### Execution registry and stream

The Host is one Node process and the registry has no await, so each operation is
one action. Text is a sequence of chunks named by the seq they were emitted
with, which is enough to see loss, repetition and reordering. `ExecutionStream`
EXTENDS it and adds one page, the network (which may break a connection at any
step), another page that acknowledges, the end of the Scope and a Host restart.

### Scope manager

Code between two awaits is one action; an awaited prewarm, turn or close is
several (`calls` holds the stage). Timers carry no time: an armed timer may fire.
The driver is the claude driver on the process supervisor, at the grain of its
process: none, being spawned, live, or let go of ("leaving": the driver's variable is
empty, and a restart or a close still shuts the CLI down). Three things wait for a
process of one driver, each at a stage of its own: the prewarm, a turn's safe retry and
the restart in the background (`Callers`) that a timeout, a line too long or a cancel
without an answer starts (`turnEnds`, `protocolLimit`). `close()` has two callers,
`closeScopeInternal` and `createScope` on a scope that closed under it. A restart that is
rejected has nobody to take the rejection, and the Host ends (`HostDies`), except after
a cancel, which handles it.

Two assumptions are about time, which is left out otherwise. To make a work directory and to notice
that a process which has exited is gone takes less than a CLI needs to answer a handshake
(`HandshakeAnswers`); and a driver restarts itself once at a time. Without the first, a
close could return before a call that has not spawned yet reaches its last check.

### Participant session

`record` is what the reconciler believes, `drivers[s].session` what the CLI
session was told: the two may only agree by protocol. A turn is retried in place
in a new process (claude) or fails (codex), by the driver the profile names.

### Repair

`RepairRun` is at the grain of file writes: a crash may come between any two of
them, and what is on disk (`st`, `executions`, `lease`, `chain`) is what the next
`repair resume` finds. `loop.pc` names the next write of the loop. The Squad task
is external and does as it likes: it offers commits, replaces them while they are
reviewed, dies, or survives a kill. Commits are numbers, a review is the commit
it read and its outcome, and a check that only reads may fail (`GiveUp`).
`PROJECT.json` gives each action its lines in `cli/src/auto/repair-run.ts`,
`repair-lease.ts`, `repair-deadline*.ts`, `repair-chain.ts`,
`squadctl-bridge.ts` and `cli/src/commands/repair.ts`.

`WriterLease` is the lease alone at a finer grain: a read, the exclusive create, the
write into the created file, a replacement and an unlink are steps of their own, so
that repair loops, `repair stop`, fix and apply meet between them. `RepairRun` takes
each operation as one step, which is right for one loop at a time. `repair stop` is a second
process: in `RepairRun` it may come between any two operations on the lease but not inside
one; what comes of that is in `WriterLease` only.

### Command-line discussion

`CouncilRun` is `runCouncil` with `executeTurn`, one step per request to the Host or
write of a file; `run.pc` names the next one. `create`, `retryCreate`,
`recoverCreate` and `recoverClose` are `createScopeIdempotent`; `execute`, `probe`,
`follow`, `cancel`, `observe`, `persist` and `ack` are one turn of `executeTurn`;
`close`, `settle`, `report`, `out`, `finish` and `reconcile` are the finally block
and what follows it, and `exitCode` is `exitCodeForRun`. A request (`hung` is FALSE)
is answered, refused for what the Host knows, or refused or lost at the price of a
fault, before or after it took effect; or it hangs (`hung` is TRUE) until the
signal it was given aborts it, and then a create or an execute may still arrive
(`late`). Which signal that is comes from the code: the caller's, the turn's deadline
(the caller's or the generation watchdog), or the cleanup budget, whose timer is armed
before the request is sent. The process may be killed between any two steps, which
needs no action: a state invariant over the files and the Host says what is left.

## Runs

Passing runs.

| run | shows | instance and why it is enough |
|---|---|---|
| `DiscussionRoom` | one live call, anchored; one unfinished Round; pauses can be retried; commits land once, in script order, over a serial context; skipped slots are accounted for; a concluded Room is closed; one live binding; terminal rows are final; the context pair follows the projection | two scenarios (`OneRound`, `TwoRounds`) in one state space. One Round of two participants, up to 6 executions: focus, two messages, summary, report and one that fails, is dropped (`MaxFailures` 1) or is made stale by a user message (`MaxUserWrites` 1). Two Rounds of one participant and the report, with aborts, two bindings and tokens, up to 5 executions under one controller and 4 under two: the races between Rounds, between a Round and the report, and between two controllers need two of each and no more |
| `OrchestratorRoom` | a settled row has no running turn, unless its own cancel was lost; no open Scope is forgotten; what the Host was told of a result is what its row says | two scenarios (`TwoIntents`, `TwoPages`) in one state space. One page, two intents at once, three calls and a user message, or two calls and a lost request (or the lost cancel of a turn that is given up): every pair of intents meets, with one fault. Two pages and one intent: a Round of two calls, or one call while the lock is handed over or stolen and a page is reloaded. That is what TLC reaches in minutes; the three properties are proved for any number of pages, intents and calls |
| `OrchestratorPages` | every call ends in its row | one page, one intent, one reload, one Host restart, one lost request and one lost cancel, in any order, three calls: a Round up to its summary, or one that is broken off, audited and retried |
| `RegistryStream` | order, live delivery, text kept; a response is ended only when nothing is left to learn; the registry implements `ExecutionLifecycle` | one execution of five events and a buffer of five bytes: several merges and drops happen; two scopes, so that releasing one must leave the other and the execution may be begun again in it; a connection at every cursor |
| `StreamFollow` | the follower stops, for a cause, and shows what the Host has buffered | four events, buffer of three bytes: a merge, a reconnect after progress and one without fit |
| `ScopeSeats` | a closed scope has no process up or coming up; records and turns agree; a repeated create finds its scope; every scope closes and every execution ends | two scopes of one request and one Participant, one execution, one takeover in each: a scope is opened while the older one closes, and every await of a seat overlaps every close. A second turn of a seat is left to the theorems (`SeatsInv`), which hold for any number of executions |
| `SessionReuse` | no turn runs in a session that misses part of its snapshot | one Scope, claude and codex, three changes of the context, rebuilds up to epoch 4, limit of two turns per session |
| `RepairRun` | approvals and pushes are reviewed; cycles are paid for; certified executions are dead; live writers keep their lease | two runs of the branch, v1 and v2, two loops (so the second may resume the first, or start the next run), two cycles, two writers, four commits, and one crash, stop command or foreign push: each fault meets every step, and its consequences a resume or a new run |
| `CouncilRun` | committed outputs are on disk; exit code, transcript and report agree; nothing is left at the Host; an interrupted run ends | two turns (`MessageTurns`) and the Reporter's, so that a turn has one before it, one after it and a last one that differs; two faults (`MaxFaults`), so that a cleanup may fail after the failure that led to it |

Runs that find a disagreement between the code and what the repository says of
it; the statement is quoted with its line under `findings` in `PROJECT.json`.

| run | the code |
|---|---|
| `OrchestratorHandover` | a page that leaves a Room and comes back while a turn runs renews the controller token; the task that follows the turn is fenced off with the old one and nobody else follows it until the next page load |
| `LeaseWriters` | two commands that read the dead lease of a settled repair both judge it free and both write their own over it |
| `RepairWriters` | a loop that crashes between the spawn of its writer and `updateWriterPids` leaves a writer that no lease lists; the next run of the branch starts a second one beside it |

Every bound is a CONSTANT named in its module or an argument of `Bounded` in
`MCDiscussion` and `MCOrchestrator`. `MaxFaults` of the repair counts crashes, stops and foreign pushes
together; that of `CouncilRun` refused and lost requests, failures of the Host and
failed writes. `FirstFirst` in `MCDiscussion` takes topics, tokens and bindings in
order, since nothing else tells them apart.
Deadlock is not checked: each system really stops, when a Room is concluded, an
execution is over, a repair has its result or the bounds are used up.
`SYMMETRY` is used in `OrchestratorRoom`, which has no temporal property: pages
and tasks are told apart by nothing.

The type invariants (`TypeOK` of the transactions and of the registry, `StreamTypeOK`,
`ScopeTypeOK`, `RepairTypeOK`, `CouncilTypeOK`) are not in a run: they document the
state. Those of the transactions, the repair and the command line are proved, and so
is the part of the registry's that its proof needs.

### Fairness

* `ExecutionStream`: weak fairness of the page's own steps (`Follow`, `Status`):
  `driveToTerminal` is a loop whose every await is a read or a request that
  ends. Nothing is assumed of the driver, the network or other pages.
* `ScopeManager`: weak fairness of timers, of the two continuations of the
  manager, and of each driver's prewarm, turn, restart, close and exit: a handshake, a
  turn and a shutdown each have a deadline in the driver or the supervisor, and
  `setTimeout` fires. Requests, crashes and lines that are too long are not assumed.
* `DiscussionOrchestrator`: weak fairness of each running intent and of each page's
  own steps (taking the lock, takeover, audit), which are promises that resolve,
  and of the end of a turn, which the Host guarantees (`ExecutionsEnd`). The
  user, reloads, restarts and lost requests are not assumed.
* `CouncilRun`: weak fairness of the process's own steps (`Local`), of the rejection of
  a request whose signal is aborted (`Request(TRUE)`: `raceAbort` and the `AbortSignal`
  given to `fetch`) and of the budget's timer (`BudgetEnds`). The Host need not answer
  anything, and neither the user nor the watchdog need do anything.
* The other modules state safety only.

## What is proved

| theorem | module | argument |
|---|---|---|
| `RowsAreWellFormed`: `[]TypeOK` | `DiscussionSafety` | `TypeOK` is inductive with `BegunHasRound` (a row that was written has its Round), without which a commit would write outside `rounds` |
| `OneCallAtATime`, `CallsAreAnchored`, `ActiveRoundIsTheUnfinishedOne` | `DiscussionSafety` | `Inv` below |
| `VerdictsAreFinal`: `TerminalRowsAreFinal` | `DiscussionVerdicts` | executions by the guards; Rounds because, by `Inv`, no finished Round holds a live execution |
| `ConcludedIsClosed`: `[]ConcludedRoomIsClosed` | `DiscussionVerdicts` | inductive with `Inv`: the report's commit empties what `Inv` says there is |
| `PausesAreRetryable`: `[]PausedRoundIsRetryable` | `DiscussionVerdicts` | `RetryInv` below |
| `SlotsAreAccounted`: `[]PassedSlotsAccounted` | `DiscussionVerdicts` | `AccountInv` below |
| `CommitsAreSerial`: `[]SerialContext` | `DiscussionVerdicts` | `SerialInv` below |
| `TranscriptFollowsScript`: `[]SpokenInOrder` | `DiscussionVerdicts` | `ScriptInv` below |
| `PairFollowsProjection`: `RevisionTracksProjection` | `DiscussionSafety` | inductive: the digest on the row is the digest of the tables |
| `CommitsLandOnce`: `[]CommittedExactlyOnce` | `DiscussionSafety` | `LandedInv`: each execution has at most one place in the projection |
| `SingleBinding`: `[]OneLiveBinding` | `DiscussionSafety` | inductive as it stands |
| `PagesRunTransactions`: `OrchestratorSpec => Spec` | `OrchestratorSafety` | `PageInv` below: every step of the pages is a step of `DiscussionTransactions` |
| `AcksMatchRows`: `[]AckMatchesRow` | `OrchestratorSafety` | `AckInv` below |
| `SettledMeansStoppedHolds`: `[]SettledMeansStopped` | `OrchestratorSafety` | `RunningIsDriven` below |
| `NoWarmScopeLeaksHolds`: `[]NoWarmScopeLeaks` | `OrchestratorSafety` | `OpenScopesAreHeld` below |
| `RecordsAreConsistent`, `RegistryImplementsLifecycle`: `ImplementsLifecycle` | `ExecutionSafety` | `Story` below |
| `RecordsAreStored`, `BuffersStayInOrder`: `[]BufferIsInOrder`, `MergingKeepsText`: `CoalescingKeepsText` | `ExecutionSafety` | `Stored` below |
| `FollowersMissNothing`: `[]NothingMissedLive`, `EndedResponsesSaidAll`: `EndedMeansNothingLeft` | `ExecutionSafety` | `Followed` below |
| `FollowerStopsForCause`: `[]StopsForCause`, `PreviewsLoseNothing`: `[]PreviewShowsTheBuffer` | `ExecutionSafety` | of `StreamSpec`, by `Streaming` below |
| `RepairIsTyped`: `[]RepairTypeOK` | `RepairSafety` | `Typed` below |
| `WritersStayOnTheLease`, `EnforcedMeansDead`, `ApprovalsAreReviewed`, `PushesAreReviewed` | `RepairSafety` | below |
| `CyclesArePaid`: `[]ChainCoversCycles` | `RepairSafety` | `ChainInv` below |
| `RunIsTyped`: `[]CouncilTypeOK`, `Durability`: `[]CommittedIsDurable` | `CouncilProofs` | `IInv` below |
| `NothingLeftRunning`: `[]NothingRunsOn`, `ArtifactsAgree`: `[]ArtifactsTellTheVerdict` | `CouncilProofs` | `Story` below |
| `SeatsAgree`, `ScopeTyped`: `[]ScopeTypeOK` | `ScopeSafety` | `SeatsInv` below |
| `ClosedIsQuiet`: `[]ClosedScopeWindsDown`, `RecordsAndTurns`: `[]RecordsAndTurnsAgree`, `OneScope`: `[]OneScopePerRequest` | `ScopeSafety` | from `SeatsInv` |
| `NothingMissed`: `[]Apart => []SessionMissesNothing` | `SessionSafety` | `SessionInv` below |

**Discussion.** For arbitrary sets of Rounds, executions, participants, orders,
topics, tokens and bindings, from the assumptions named in
`DiscussionTransactions` (ids are numbers, `None` is not an id, a phase or a pause
reason, an order names no participant twice, the facilitator is a participant). The inductive invariant of
`DiscussionSafety` is

    Inv == TypeOK /\ BegunHasRound
           /\ OneUnfinishedRound /\ LiveExecutionIsAnchored /\ AtMostOneLiveExecution

None of the last three is inductive alone. `abortRound` does not ask whether its
Round is the active one, and clears `activeRoundId` in any case: only
`OneUnfinishedRound` says that it is, and only the anchor says that the live
execution is the one its slot names and that is interrupted. `beginReportExecution`
and `createRound` test for a live report and an empty slot, not for a live
execution: that an empty slot means no live execution is the anchor again. The
slot must in turn never hold a finished call, or `EXECUTION_ACTIVE` would block
the Round for good, and this half of the anchor is what makes the end of an
execution provable: it frees the one slot there is. Each action has a lemma of its
own; `NextInv` combines them.

On `Inv` stand the invariants of what is told later:

* `RetryInv` adds that every pause names its failure in full (`PausesAreSound`) and
  that a live call fits the cursor of its Round (`LiveFits`). A failure makes the
  second into the first; the first alone says nothing while the call runs.
* `AccountInv` adds to it that the order of a Round names nobody twice. The cursor
  moves over a commit, which fits it, or over a skip, which leaves a pause behind:
  `PausesAreSound` is what puts the failure on record.
* `SerialInv` joins the projection to the executions. Executions begin in the order of
  their ids and the live one is the last (`InOrder`), a committed answer is behind the
  Room's revision (`Behind`), and by `LandedInv` it has one place: so the answer
  being committed, whose frozen pair is the Room's (by `ContextInv`), was asked for
  over every answer before it, and its place is the next.
* `ScriptInv` adds to `AccountInv` and `LandedInv` what the transcript says of the rows:
  the Rounds are opened in the order of their ids and one is over before the next
  (`RoundsInOrder`), the focus a Round names has landed (`FocusLanded`), and an entity
  belongs to a slot of its Round (`ItemsFit`). The live call is the next of its script
  (`LiveIsNext`): an answer already there is, by `LandedInv`, a committed one, and a
  committed slot is behind the cursor or the Round is over. Every other step puts no
  entity in the transcript and moves none (`NextTells`).

**Pages.** For any sets of pages and intents, any bounds, and the sets of the transactions,
from their assumptions and two more: tokens are numbers that a takeover raises
(`TokenOrderAssumption`, the Host's counter) and `None` is not a page (`PagesAssumption`).
An intent reads rows, awaits, and goes on with what it read. `PageInv` says what of it is still
true then: the pair it holds was published, the execution it asks for was begun, the Round it
opens is at most aborted meanwhile (`OpeningRounds`). That is just enough for each step of an
intent, a page or the audit to be one transaction with inputs the transaction may be given,
or none; so the pages implement `DiscussionTransactions`, and each theorem above about
`Spec` holds of the running program. On `PageInv` stand

* `AckInv`: a row is final before anybody asks for its ACK; the intent at its ACK, the list
  of the audit and the rows still pending are all of such rows;
* `RunningIsDriven`, while no page is reloaded and control does not change hands (`Steady`): a
  running turn whose cancel was not lost has an intent that waits for it with the token the
  Host knows, on a page that the same Host instance answers. `LockOK` is needed for it: all intents are those of the one
  page that holds the lock, so nobody takes over under them. `SettledMeansStopped` alone
  would be content with an intent that can no longer reach the turn;
* `OpenScopesAreHeld`, while besides no request is lost: a Scope that is open has a row with its
  token, or an intent that will activate its row or close it with its token.
  `NobodyTookOver` and `FirstHost` say that no other token and no other Host came in between.

**Registry.** For any number of executions, scopes and connections and any buffer
size, from `NoneAssumption` (no event, disposition or state is called `None`) and
the bounds being numbers. The abstract result of an execution is the type of its
record's terminal, but `emit` looks at the terminal and `ack` at the state and the
tombstone. `Story` says that the four fields of every record agree; without it an
ACK might dispose of an execution that has no result, or an event might follow
one. The buffer plays no part there: a lemma shows that merging and dropping leave those
fields alone. Every operation is then a step of `ExecutionLifecycle` for its
execution, or changes nothing there. On `Story` stand

* `Stored`, for the buffer. `BufferIsInOrder` looks at seqs and text of what is buffered; it
  does not survive a merge by itself. `InOrder` adds that the text of an earlier event comes
  before a later preview's seq, that a chunk is never older than the event that carries it, and that
  only the first preview may be a snapshot; so the merged previews, at the place of the
  first of them, still fit between their neighbours. `Terminated` adds that a record with a terminal
  holds it as its last event until the ACK that empties the buffer.
* `Followed`, for the live connections: a listener of an execution is an open connection to it,
  was sent its events in order, all those since it opened, and no terminal. The replay and the
  registration are one step of `follow` (there is no await between them), and `emit`
  takes every listener off with the terminal. That is why a response that ends has said all.

**Stream.** For one page that follows one execution of such a registry, with any failures of
the network and any ACKs, releases and restarts by others, from the assumptions
above, the page's names being those of a registry that admits a connection (`FollowerAssumption`) and no outcome being called `None`
(`OutcomeAssumption`). `StopsForCause` speaks of the end only; `Streaming` says of each
state on the way what the page and its connection have in common:

* `Behind`: the cursor never passes the record, and as long as the Host can still serve the
  terminal no response ends without it. Until then the page comes to its status request only
  with one more failure counted and asks for everything again (`resumeAt` is 0). Its one
  empty catch-up is spent after the first failure, and the second is "abandoned": "exhausted"
  is only for a page whose terminal an ACK has taken away.
* `Carries` and `HasRead`: every chunk that is buffered is in an event of the connection, no
  chunk is older than its event's seq, and what has been read is exactly what is not
  beyond the cursor. So what the buffer has up to the cursor was read, and shown: a snapshot can
  only be the first preview of a response and carries all the text before it, so that
  replacing the preview by it loses nothing.

**Repair.** For any set of protocols, any number of runs, cycles, loops, spawns,
commits and faults. `Typed` joins to the types what each program counter may rely
on: a loop that is at work has a run; a v2 loop past preflight has a chain; a loop
inside a cycle has a cycle number that is not zero; one that judges a review has
one; a task that is ready offers a commit. Without these a step would index
outside its table. On top of it

* `UnheldIsEmpty` (a lease that is not held lists nobody) makes `LeaseKeepsLiveWriters`
  provable: `takeExisting` clears the list and only a *held* lease can have one;
* `OnlySpawned` (records list only spawned pids) is needed for
  `CertifiedExecutionIsDead`: a new writer could otherwise get a pid that an enforced
  record already lists;
* `ApprovalOK` carries the review from the step that writes it to the verdict: while
  the loop judges or publishes, `repair.json` holds the review in the loop's hands,
  and a v2 loop between publish and receipt has in its target the commit that
  review cleared. Neither property mentions the loop, so neither is inductive.
* `ChainInv` is for the budget: `ChainCoversCycles` compares the chain with the sum of all runs'
  records and is not inductive, because a fix is paid in one step and on record in the next
  (`Paid`: the loop at "reserve"), and because a stop command writes back a record it
  read earlier (`SnapshotIsOlder`: one with no more cycles). A run that was never
  given a protocol has no cycles. That the sum moves by what one run's record moves is
  proved from the community modules' definition of `SumFunction`.

**Command line.** For any number of turns and faults, from `TurnsAssumption` and
`NoneAssumption`. `CommittedIsDurable` speaks of the Host's ACKs and the files and is
not inductive: the ACK is sent in a later step than the write, and a later rewrite of
the transcript could drop the turn again. `IInv` extends it to the turn whose committed
ACK is about to be sent (`Told`), which only `persist` brings about
(`CommitsAfterPersist`) and whose record it has written by then (`PersistedTurn`); and
with `files.transcript \subseteq records` every later rewrite keeps it (`Grown`).

What is left when the run is over is decided long before it is over, so `Story` adds to
`IInv` what each part of the run hands to the next:

* `RunStory`: outside the finally block a run is on its way to "completed", and one that is
  "completed" past it has finished the Reporter's turn and a close that was answered;
* `ScopeStory` and `TurnsInScope`: past the close the Scope is not open unless a cleanup was
  given up, and a turn needs its Scope. A create that was cut off and may still arrive is
  found only in a run that failed or was interrupted, whose cleanup is then on record;
* `TurnStory`: every turn behind a run on its way to "completed" is recorded and
  acknowledged; only `persist` records it, before its ACK;
* `FileStory`: from the report's write on, which of transcript, report and status agree, and
  that a report of success which is no longer true is remembered (`success`) until the
  reconciliation has tried to replace it.

**Scopes.** For any number of scopes, participants, executions and requests and any
quotas, from `EpochAssumption` and `NoneIsNoId`. A seat is one Participant of one scope. Its
entry (what the manager believes), its driver (what the process does) and its awaits
(which continuations will run next: prewarm, turn, restart and two closes) are written by
different steps: `SeatRules` says what each may conclude from the others. A scope that is
closed may have a CLI that is not gone yet (see the disagreements), so what is proved is
`ClosedScopeWindsDown`: no process is up or coming up, and one that is leaving has somebody
who still waits for it. Its promise is made when
`closeScopeInternal` is past one driver (`closed`): a driver whose process is none or
leaving (`CloseRules`), that refuses to start one, and no await in which it could still
get one; and a process is leaving only while a restart or a close is at its shutdown
(`ProcessRules`). The property itself, about a scope
already closed, says nothing while the close waits for the other seats. A handshake that
answers after the close may set the driver to "ready" once more, which is why `CloseRules`
asks for more than the driver's state; and `RestartRules` keeps a turn from starting
between the two halves of a restart. `BusyOK` and
`RunningOK` join seats and executions both ways: the release of a scope ends executions
without asking their turns, and a turn that has lost its process, or not got one yet,
may outlive its execution. `ScopeOK` keeps the request index exact, which is
what makes a repeated create find its scope.

**Sessions.** For any number of Scopes, snapshots, rebuilds, compactions and turns, from
`SessionAssumption` and `NoneIsNoSession`, and for as long as no two Scopes of the Participant
overlap (`Apart`): where they do, the code may reuse the record of another session (see the
disagreements below), and the run has one Scope for the same reason. The property compares
a session with a snapshot; the code compares a record with an epoch. `SessionInv` closes the
gap: the record never speaks of a generation to come, and of the current one only while its
session lives (`Generations`); a record of the current generation claims no more than the
session was told (`RecordIsTold`); and a prompt that is on its way starts where that record
ends, or at the first item (`PromptFits`). A session that was given a prompt twice by
claude's safe retry is exempt, as in the property.

The facts these proofs need about recursive functions of the library (what `FlattenSeq`
joins, how `SumFunction` changes) are proved by taking a least counterexample: of
the numbers, and of the sizes of finite sets, there is a least one (`NatLessThanWellFounded`).

Only model-checked: all liveness, and the properties of the runs that end in a violation.
Outside the prover's reach are liveness under fairness, `ENABLED` (which
`DiscussionOrchestrator` uses for transactions that throw) and the library's induction
theorems, which take an operator as a parameter.

## Known disagreements

Besides the findings, these were met while the code was read or modelled. Each
is a place where the code and a document, a comment or an expectation part; none is
hidden by the models, and the passing properties are stated so that they hold
with them.

Orchestrator.

* `FinishedTurnIsSettled` fails already with one handover (the finding), which is
  why `CallsEnd` exempts changes of controller, `SettledMeansStopped` and
  `NoWarmScopeLeaks` faults that take a page's means away.
* A page that gives a turn up sends one cancel and settles the row whatever becomes of it
  (OR:225-242, 501, 965, 1028, 1075). When it is lost, or not answered within ten seconds,
  the turn runs on behind its settled row and its Participant is busy until it ends:
  the next turn of the Participant is refused and its Round pauses. The comment there says so
  (best-effort); `SettledMeansStopped` exempts such a turn by name.
* Two takeovers of one Scope may meet. `takeoverRuntimeBinding` (TX:1490) writes the
  controller and epoch it is given over those of the row and compares neither, and
  `takeOverBinding` (OR:316-325) does not look at the lock again after its request. A page
  whose lock is stolen between the Host's answer and its write puts its older, fenced pair
  over the newer one, and until the next takeover the controlling page holds a token the
  Host refuses; `docs/runtime-host-design.md:175` says that the old page's writes fail by the
  epoch. The model has the interleaving (`TakeOver`, `StealLock`, `Adopt`, with two pages and
  two changes of controller), so nothing here claims that the page in control finds the
  Host's token in the row.
* A page whose lock was stolen goes on driving its running intent with the token it
  has until the new controller's takeover fences it (`RoomPage.tsx:313`).
* A pause between `client.execute` and `markExecutionDispatched` finds no target to
  cancel (OR:1288-1290): the turn runs to its end and its result is dropped.
* A discard after `user_cancelled` is never acknowledged: its record stays until
  the Scope goes. An audit of a row without `origin` never cancels its turn.
* `ensureScope` is not deduplicated (OR:371-473): of two intents that open the Scope of one
  row at once, the one whose activation fails closes the Scope the other has just bound, and
  a third's create then opens it anew, with a new token, until its own activation fails. The
  row is refused until the next `ensureScope` replaces it.
* One `getExecution` that fails aborts the whole audit; rows behind it wait for
  the next page load.
* A page that dies while its Round is pending or prewarming leaves a Round that no
  intent ends: `abortPausedRound` accepts paused ones only.

Scopes.

* A closed scope may still have a process. `respawn` (`claude-stream-json.ts:773-789`)
  clears `process` and then waits for the old CLI's shutdown; nobody awaits it at 578, 831
  and 876 (`codex-app-server.ts:553`, 779). A `close()` in that window (1048-1079) finds neither
  a process nor a spawn in flight and returns, and the scope is marked closed while the CLI
  lives; `docs/runtime-host-design.md:186` says that closing reclaims all process groups.
  In the model a closed scope's process may be "leaving" while its restart is at "shutdown", and
  `ClosedScopeWindsDown` says what is true of it.
* A restart in the background that is rejected (by a close during its mkdir, a refused
  spawn, a handshake that fails, the exit of the new process) is an unhandled rejection: the
  restarts at these lines have no `catch`, the Host installs no handler, and Node ends the
  process with all its scopes. `docs/runtime-host-design.md:200` says that the crash of a
  driver concerns its Participant only. In the model it is `HostDies`.

Stream and sessions.

* A connection that breaks while it is read is resumed from the cursor it was
  opened with (OR:1015), so deltas are shown twice in the preview.
* A Scope opened while an older one of the Participant is open or closing may reuse
  the record that the old session is described by (`session-reconciler.ts:104`).
* claude's safe retry sends a new process the prompt that was rendered for the old
  session (`claude-stream-json.ts:986`).

Repair.

* A crash after the push but before its receipt leaves the ladder at "intent"; the
  resume pushes again without reading the remote first (`repair-run.ts:1549`). The
  commit is the same, so nothing is lost.
* Beside the race of `LeaseWriters`: a command of the run that holds the lease may read
  it just before another command of that run unlinks it, and writes it back over
  whoever created it since; and no command asks whether the pid in its own run's lease
  is alive, so `apply` may be started twice for one review (`repair-lease.ts:136`).
  Remove the repairs from the run's instance to see this.
* A crash between the exclusive create and the write leaves an empty lease that every
  later acquire rejects (`repair-lease.ts:55`). No caller passes `reclaim`, so the lease
  of a fix or apply that was killed stays until a command of the same review takes it.
* `repair stop` writes back the `repair.json` it read before it stopped the tasks
  (`repair.ts:339-392`): a cycle reserved in between is forgotten. The chain has
  been paid, so the sum still covers.
* A crash after the gate is recorded starts a new cycle with the ladder still at
  "published"; the run then ends in needs_attention. Safe, but it never approves.
* `repair stop` sends SIGTERM to the loop, but a review that runs in the loop's own process
  takes the signal (`review.ts:903-911`): the loop survives, and writes needs_attention over
  "stopped", or goes on when the review was complete. Its lease may be released by then.
* A v1 run without `--timeout` waits for its candidate without a deadline. The adoption
  branch of the final gate is never taken.

Command line.

* An interrupted run whose `--out` copy fails becomes "failed" and exits 5
  (`orchestrator.ts:661`), although `orchestrator.ts:1233` says that SIGINT's 130 stays
  the highest. `ArtifactsTellTheVerdict` asks only that such a run reports a failure.
* A create that arrives after `recoverAndCloseCreate` has closed the Scope leaves a
  creating Scope, whose token nobody holds, until the Host's reaper takes it after 30
  seconds. `NothingRunsOn` exempts it (`lost`).
* A stream that is over without a terminal ends the turn without a cancel or an ACK; the
  close of the Scope ends the execution. So does a stream that is aborted: the signals are
  aborted with strings (`run.ts:144`, `execute-turn.ts:224`), which the reader wraps in an
  `EventStreamError`, so that `isAbortError` is false and `handleAbort` is not reached
  (`execute-turn.ts:635`); the turn is "failed" of its stream, not cancelled or timed out.
  Only an abort that meets the status request after a closed connection takes that way.

## Not modelled

* `joinAgent` (the Participants of a Room are a constant), the rows of Rooms that are
  deleted or duplicated, the text of snapshots with its skip annotations.
* Two repair loops at once (but for their lease), the Host's start route of a repair, and the failure
  policies that only count strategies and root causes.
* Frame protocols of the drivers, and cursor, kimi and grok altogether.
* The rate limit on creates, authentication, discovery and probing.
* Of the CLI's discussion runner: the checks before a run, the demo marker, pid files,
  the exit code of a quota error and the renewal of the session after a 401 or 403.
* The CLI's review, fix, apply and ideate commands.
* The process quota, which counts the drivers of open Scopes only
  (`scope-manager.ts:131`), and locks on files.
* Wording, rendering, logging, storage limits of the browser.

Most of the repository's lines are of the last kinds: user interface, command-line
output, parsing, projections of files for reading, and pipelines without a second
actor. The map covers the parts where state is shared or survives a crash; it is a
small share of all lines and a large one of the lines with a protocol.

## Plan

In the order of importance.

1. Drivers: an abstract contract (one terminal per execute, none after close) and
   `ClaudeDriver`, `CodexDriver`, `CursorDriver` against it: idle timeout with a late
   result, a failed respawn, compaction while idle.
2. Proofs: the contract of the drivers, once it is stated; that the page in control finds the
   Host's token in the row, for pages that look at the lock again after a takeover, should
   the code do so.
