# A verification of the AgileHarness runner

AgileHarness (`packages/storymap-ui`) is a story-map board whose cards are worked on by Claude child processes.
When a card enters a column, a *trigger* (a skill such as `harness-plan` or `harness-do`) may run on it, with nobody
watching. Everything hard about the program is in the server that starts, limits, stops and recovers these runs:
`src/packages/storymap-ui/src/lib/storymap/runner/`, abbreviated `runner/` below. One Node process, one event loop,
many awaits; child processes, worktrees and JSON files that outlive it.

This directory holds TLA+ modules for the core of that server, the TLC configurations that check them on small
instances, and proofs that TLAPS checks for every value of the constants. All definitions are translated from the
source; `PROJECT.json` maps each of them to its lines.

## Contents

1. Inventory of the system
2. Modules, and how they correspond to the code
3. Runs: what each checks, bounds, fairness
4. Where the code and its comments disagree
5. Proofs
6. What is not modelled
7. Plan

## 1. Inventory

| Component | State it keeps | Operations | Correct when |
|---|---|---|---|
| Runner engine (`engine.ts`, `scheduler.ts`) | two queues, per-card lock `inFlight`, `runMeta`, `children`, slot counters, cancel marks, brake, rate window | `runSkill`, `pump`, `start`, `finish`/`settle`, `forceRelease`, re-dispatches, retry timer | slots are counted exactly; one run per card; a cancel is final; no work is stranded; every run settles |
| Card claims (`claims.ts`) | set of reservations with a lease, in memory and in `claims.json` | `acquire`, `renew`, `release`, `sweepExpired`, `releaseRunClaimsOnBoot` | reservations in force exclude each other, across crashes too; lapsed ones are freed |
| Run journal (`journal.ts`) | one entry per card, in memory and in `journal.json` | `recordStart`, `recordFinish` (plain and compare-and-set), `loadInterrupted` | a run in flight has a running entry; a stale resolve spares a fresh entry |
| Crash recovery (`recovery.ts`, `recovery-sweep.ts`, boot in `instrumentation.ts`) | a snapshot per pass | boot pass, sweeps by timer and on idle, reconciliation of worktrees, stop/decide/resume per entry | an interrupted run is resumed once, never beside its orphan, in its tree; live work is left alone; every entry is decided |
| Worktrees and branches (`worktree.ts`, `worktree-gc.ts`, `branch-gc.ts`) | directories, `run/<id>` and `agent/<id>` branches | create, commit, detach, remove, dispose | work is never lost; a tree in use is never removed |
| Merge train (`merge-queue.ts`) | durable FIFO of branches with a status, two landing markers and counters each; the blockers it filed | enqueue and supersede, gate, land the code on `stage` and the data on main, park, re-drive, the operator's verdicts, sweep, recover and prune | strictly serial; code lands before its data; a run is announced as merged when all of it landed; work that has not landed can still be read; nobody waits for good |
| Autorun cascade (`autorun-eval.ts`, `cascade-decision.ts`) | no-progress counts, dependency holds | evaluate a card on entry, forward it | a card that makes no progress stops; a brake holds |
| Board pace, capacity governor | pace per board, budget per window | set, return, give back; hold and re-arm | automation obeys; the operator is never held |
| Agent sessions (`session-worktree.ts`, `session-spawn.ts`, `session-claims.ts`, `fleet-deps.ts`) | registry file of interactive agents: tree, cards, terminal, end; tmux terminals that outlive the service | open, spawn with rollback, claim and give back, recycle, discard, sweep of the fleet | a live agent keeps its tree and its claim, a dead one loses its claim; one process per tree; a refused spawn leaves nothing behind |
| Commit serializer, service lock | a promise chain per tree; a lock file | run a commit; start the service | commits on one index never overlap |
| Entry effects (`pending-effects.ts`) | durable list of effects owed | enqueue, run, strike, recover | every effect owed happens |
| Deploy and publish (`publish-*.ts`, `deploy*.ts`) | queue file, breaker, deploy state | ask for, cancel, drain, promote, reap at boot; retry, open, close | what reads as published is on main; an answer given is kept; nothing is published twice; nobody is held back by another board |
| Locked execution (`locked-exec*.ts`) | a file per request, approvals in the memory of the process that took them, claim files, tasks in flight | propose; approve, reject, explain, undo, keep, ack; execute, undo, settle, recover | a command runs once and only if approved; only what succeeded is undone; what the record says of the world is true; what was decided comes to an end |
| Conductor (`conductor*.ts`) | pause and hand-off state, batches | pause, hand off, batch | one driver per card |
| Board store (`repo.ts`, `write.ts`, `sidecars.ts`) | cards as Markdown files | read, guarded write, trash | no update is lost |
| Judges, critics, convergence, sentinels, copilot, notifications, MCP server, web UI | views, logs, small counters | see `PROJECT.json` | mostly pure or best effort |

How they interact: the watcher or a finished run calls the **cascade** in process; it calls `engine.runSkill`. The
engine reads pace and governor when it pumps, **reserves the card** in the claims registry before it makes a tree,
**records the run** in the journal at acceptance, when the tree exists and after the spawn, and at its settle commits,
detaches and hands the branch to the **merge train**, whose completion calls the cascade again. At **boot**
`instrumentation.ts` releases the last life's run claims, then runs one recovery pass, then recovers the train; from
then on recovery is repeated by a timer and each time the engine goes idle. `forceRelease` is the operator's cancel and
races with all of it. The train lands code on `stage`, which the **publish queue** promotes to main when the pipeline
is idle, most often restarting the service with it; the train gives a **session** back the work it could not integrate
and drives a *run* again through the engine. Sessions hold cards in the same claims registry as runs.

What is hard: every `await` in `start()` and `finish()` is a point where a cancel, a second request or a settle of
another run gets in; state keyed by card outlives the run that wrote it; `pump()` runs on edges although it waits on
levels; the service dies while its children live on in their own systemd scopes; journal and claims are written behind
the answer; passes of recovery work on snapshots; the train and the publish queue persist a status before an effect and a marker after
it, so a crash can fall in between; their loops hold entries that other handlers change meanwhile, or write back rows
they loaded before. `PROJECT.json` lists these hazards at the lines where they bite, with
the properties that would catch them.

## 2. Modules

| Module | Models | Proofs | Instances |
|---|---|---|---|
| `RunnerEngine` | `engine.ts`, lanes of `scheduler.ts` | `RunnerEngine_proofs` | `MCRunnerEngine` |
| `CardClaims` | `claims.ts` | `CardClaims_proofs` | `MCCardClaims` |
| `RunRecovery` | `journal.ts`, `recovery.ts`, `recovery-sweep.ts`, scope probe of `governor.ts`, the engine seen from outside | `RunRecovery_proofs` | `MCRunRecovery` |
| `Integration` | what the merge train promises, abstractly | `Integration_proofs` | as `Promise` in `MergeTrain` |
| `MergeTrain` | `merge-queue.ts` | `MergeTrain_proofs` | `MCMergeTrain` |
| `PublishQueue` | `publish-queue.ts` and what it is given by `publish-effect.ts` | `PublishQueue_proofs` | `MCPublishQueue` |
| `SessionFleet` | `session-worktree.ts`, `session-spawn.ts`, `session-claims.ts` | `SessionFleet_proofs` | `MCSessionFleet` |
| `LockedExec` | `locked-exec-service.ts`, statuses and deadline of `locked-exec.ts` | `LockedExec_proofs` | `MCLockedExec` |

Each MC module only names model values and the constants a `.cfg` cannot write; no configuration replaces a definition.
Operators marked `Mutant:` in the modules are wrong variants of a definition, kept to show that a property can fail.

### RunnerEngine

One action is one uninterrupted stretch of the event loop; an await is a change of `phase`. Runs are numbered in the
order they are queued, so a lane's FIFO is the order of the numbers and the queue is the set of runs in phase
`queued`. `pump()` is a loop: `pumping` holds all other actions back until its passes reach a fixpoint (`PumpStops`).

| Code | Model |
|---|---|
| `runSkill` | `Accepts`, `RunSkill`; callers are `Enqueue` (cascade, operator, agents, redrive) and `Recover` (boot) |
| `pump` | `PumpAdmits`, `PumpCancels`, `PumpStops`; `Picked` is the light lane first, then the heavy one |
| `armPumpRetry` | `RetryNeeded`, `RetryTimerFires` |
| `start`, up to the spawn | `Reserves`, `TreeReady`, `LaunchFails`, `SettlesUnspawned`, `Spawns` |
| `finish` and `settle` | `CloseCancelled`, `CloseClean`, `CloseForJudgement`, `CloseTimedOut`, `Judged`, `JudgedResumable` |
| lost session | `CloseSessionLost`, `Redispatch` |
| `forceRelease` | `ReleaseLive`, `ReleasePending`, then `ArmBrake` after its awaits; `BrakeLifts` when it expires |
| pace, governor, load, time | `PaceMoves`, `GateMoves`, `LoadMoves`, `WindowsPass` |

`revoked`, `stopped` and `misfired` are history variables that no guard reads except as the bound `MaxReleases` and in
`MarkHit`, which records into `misfired`.

### CardClaims

A method runs under `withKeyedLock("claims")` and awaits nothing once the set is loaded, so it is one action. `claims`
is the set in memory, `pending` the chain of snapshots on their way to disk, `disk` what a restart finds. Tombstones
are dropped: no decision reads one. `Request` values carry the kind of work and whether its scope is code, which is
all `claimConflicts` looks at. The crash loses memory and the chain; `ReleaseRunClaimsOnBoot` comes before anything
else may claim.

### RunRecovery

A pass awaits between its steps and everything else goes on meanwhile, so a pass is a record with a program counter:
`loaded` (snapshot and keep set taken), `trees` and `branches` (reconciliation), `entry`, `decide`, `scope`, `resume`,
`drop` (the loop over the snapshot). A *launch* is one acceptance by `runSkill`; its number stands for `startedAt` and
names the scope the launch would use. `procs` are children in scopes of their own: a crash does not touch them.

The engine is what a pass can see of it: one run per card with a phase, the journal writes it makes
(`Launch`, `TreeRecorded`, `Spawn`, and `FinishOk`, `FinishFailed`, `OutOfTurns` at the end), and the hand-over after
settle (`Detach`, `EnqueueMerge`, `NothingToMerge`, `MergeBackFails`), which runs without the lock. The merge train is
the set of sessions that have an entry. `heirs` is history: which launch resumed which.

Two constants select what an instance has: `Starves`, whether the starvation escape of the sweep
(`recovery-sweep.ts:147`) may happen, and `WritesLag`, whether a crash may find a journal write on its way.

### Integration and MergeTrain

`Integration` states the promise without queue, gates, crashes or operators: of each run the halves `need`ed and
`landed`, the runs `closed` (announced as merged) and those the operator `vouched` for. Data never lands before the
code it describes, and a run is closed when all of it landed or on the operator's word. `MergeTrain` instantiates it as
`Promise`: `need` is what the run's first entry carries, `landed` what git holds, `closed` and `vouched` are its own.

`merge-queue.ts` is one array of entries in memory, written whole by `persist()`, and one loop at a time over it. Entries
are numbered in the order they were made, which is their order in the queue. What git holds (`landed`, `refs`) is kept
apart from what the entries say of it (`marks`, `st`), so a crash can fall between the two. `Flush` is a persist that
reaches the disk; the loop waits for its own (`saved`), the handlers do not.

| Code | Model |
|---|---|
| `enqueueMerge` with the supersede of rivals | `Submit`, `ComesBack`, `Requeue` open the door; `Supersede` fails the rivals listed before the await; `Insert` |
| `runLoop`, `process` | `Picks`, `Resolves`, `GateStarts`, `GatePasses`, `disposeRedGate`, `FilesBlocker` |
| `integrateSplit`, the merge of a whole branch | `SplitBegins`, `ApplySkips`, `ApplyLands`, `Marks`, `MergeLands`, `LandingParks`, `SecretFound`, `Closes`, `emitMergeDone` |
| `maybeRedrive`, the conflict judge | `Conflicts`, `RedriveAnswered` |
| `resolveMergeConflict`, `retryMerge`, requeue, `reconcileCard` | `ResolvesMerged`, `Aborts`, `RetriesParked`, `Requeue`, `ReconcilesCard` |
| the sweep | `SweepsStuck`, `Pumps` |
| `load`, `recover`, prune | `Crash`, `RecoverBegins`, `Scans`, `PruneBegins`, `Prunes`, `Recovered` |

`boot.shared` says whether the list that recovery iterates is still the one the queue uses: `persist()` replaces the
array, an insert before that is seen by the iteration and one after it is not. `Kept` drops the file once no crash can
read it any more, to save states.

### PublishQueue

A caller's turn at `withKeyedLock("publish-queue")` is two actions, load (`Locks`) and write (`Upgrades`, `Enqueues`,
`Cancels`). `drainPublishQueue` does not take that lock: it loads (`DrainStarts`, `Reloads`), awaits the idle probe
(`ProbesBusy`, `ProbesIdle`), and writes back the rows it loaded (`Holds`, `SupersedesPending`, `Publishes`), then the
promotion (`Promoted`) and its stamp (`Stamps`). `overlap`, chosen at the start, says whether a call and a drain may
overlap: the properties about answers hold when they take turns, section 4 shows one of them failing when they
do not. Commits of `stage` are numbers; `main[b]` is the last one promoted for board `b`. `accepted`, `revoked` and
`spent` are history.

### SessionFleet

Every change of `sessions.json` is a load and a write under one lock. Where an await lies between the two the lock is
in `lock` meanwhile (`Opens`/`OpenEnds`, `Discards`/`DiscardEnds`); otherwise the change is one action that needs the
lock to be `Free`. The registry that `openSessionWorktree` loaded is kept in `act[s].rows`, since that is what it
writes back. Terminals (`alive`) belong to tmux: they survive `Restarts` and may end at any time (`Exits`). A spawn is
`Opens`, `OpenEnds`, `Reserves`, `Starts`, `Proves`, `Stamps`, or after a failure `RollsBack` and the discard; a recycle
is `RecycleStarts`, `RecycleSwaps`, `RecycleStamps`; a sweep is the probe of tmux (`Probes`) and, after its turn at the
lock, the freeing and burying (`Sweeps`). `setting.overlap` says whether a sweep may overlap the birth or the swap of a
terminal, `setting.restarts` bounds the restarts.

### LockedExec

A request is a file; a process reads, decides and writes one at a time (`serial`), so a decision is two actions,
`Proposes` or `Decides`, which take the turn with the row they read, and `Writes` or `WriteFails`. What a decision
starts is a task of its own (`job`), one for the command and one for the undo the owner asks for; a task is in flight
(`InFlight`) from its first line to its last.

| Code | Model |
|---|---|
| `propose` | `Proposes` with `RoomFor` |
| `approve`, `reject`, `explainRejection`, `undo`, `keep`, `ack` | `Decides` with `Allowed` (what the row that was read permits), `Written` (what is made of it) |
| `execute` | `Starts`, `Claims`, `Rechecks`, `Runs` or `RunIsBlocked`, `RunEnds`, `Verifies`, `Reverts`, `RevertEnds` |
| `executeUndo` | `Starts`, `UndoBegins`, `UndoClaims`, `Reverts`, `RevertEnds` |
| `settle`, `failSafe` and the `finally` | `Settles`, `SettleFails`, `failSafe`, `TaskEnds`; a throw is `StepThrows` |
| `recoverOnBoot` | `BootLists`, `BootReads` (one file after the other), `BootSettles` (on the rows as they were read), `BootFails`, `BootEnds` |
| fifteen minutes | `TimePasses` |

`mains`, `undos` and `effect` are the world: how often command and undo were started and whether what the command does
is in place. `Procs` are processes of the service over one state directory: one as deployed, two where a restart overlaps
its predecessor, which is what the claim files are for. `BootFirst` says whether requests wait for the recovery;
`instrumentation.ts:236` does not await it, but it takes milliseconds at the start of a process.

## 3. Runs

All properties were tried against a wrong variant of the code's definition (the `Mutant:` operators) under the same
configuration, and fail there. `CHECK_DEADLOCK FALSE` everywhere: an engine with nothing queued, a registry nobody
asks and a bounded number of launches really stop.

| Run | Instance | Shows |
|---|---|---|
| `EngineLocks` | 2 symmetric cards, 1 light and 2 code triggers of different claim kinds, 3 runs, 1 release, turn cap 1 | `TypeOK`, `SlotsCounted`, `LockIsExact`, `LiveIsKillable`, `OneCodeRunPerCard` |
| `EngineResume` | 1 card, 3 runs, boot recovery with every counter value, 2 turn-cap resumes, 1 fresh restart | `ChainDescends`, `RedispatchAccepted` |
| `EnginePump` | 2 cards, both lanes, 2 runs; governor, load and pace move freely; with fairness | `NoStrandedWork`, `SlowIsSerial`, `OperatorServed`, `HeldRunsSettle` |
| `Claims` | 1 card, a run and two sessions asking for five combinations, 3 ticks of the clock, 2 chained writes, 1 crash; with fairness | `ReservationsExclude`, `OnePerActor`, `RunClaimsAreOfThisLife`, `LapsedIsFreed` |
| `RecoveryBoot` | 1 code card, 3 launches, 2 crashes, 1 pass at a time | `OneOwnerPerSession`, `ResumedOnce`, `CleanupSparesRuns`, `PassesSpareEntries` |
| `RecoveryLive` | 1 code card, 2 launches, 1 crash; with fairness | `InterruptedDecided` |
| `Train` | staging on and off; a run with both halves and a session with both, 2 entries, 1 re-drive, 1 crash | `OneAtATime`, `WorkIsKept`, `KeepsPromise` (the refinement), `HoldStopsTheTrain` |
| `TrainLive` | as `Train`, with a run of data only and the judge, 1 retry or requeue by hand, 1 throw of the loop; with fairness | `NoneWaitsForever` |
| `Publish` | 2 boards, one of which may be held or put off, 1 caller at a time, 3 calls, 1 push to `stage`, 1 restart, calls and drains overlapping or not; with fairness | `PublishedIsOnMain`, `CallsAreKept`, `NeverAgain`, `NotHeldBack` |
| `Fleet` | 2 agents, 1 card, 1 recycle; either everything overlaps, or it does not and the service restarts once; with fairness | `TypeOK`, `TreesAreRegistered`, `RefusedLeavesNothing`, `OneProcess`, `SweepSparesLive`, `DeadIsFreed` |
| `Approved` | 1 process, 2 requests of a card with and without an undo, a cap of 1 per card, 1 crash, 1 fault; no request during recovery; with fairness | `RecordTells`, `FinalStays`, `DecidedSettles` |
| `ApprovedTwice` | 2 symmetric processes, 1 request, 2 crashes, 1 fault; no request to a process during its recovery | `RunsOnce`, `UndoesWhatRan` |

Where section 5 proves a module's type invariant, no run repeats it; `EngineLocks` does because its bounds on the
counters are a property of their own, `Fleet` because a row that names two terminals is ill-typed there.

### What the properties say

*Engine.* `SlotsCounted`: the two counters `pump()` admits by equal the runs that hold a slot, whatever interleaving of
the six teardown paths. `LockIsExact`: a locked card has exactly one run between queue and settle, and `runMeta` names
it. It needs the condition `~Tainted(c)`: once `forceRelease` took the lock of a run that is about to start, that run's
end frees a lock that is no longer its own, and the next run's may do the same. `OneCodeRunPerCard` needs no such condition - there the claim, not the lock,
keeps two code runs apart. `NoStrandedWork`: `pump()` only runs on edges; when the engine is at rest, a queued run it
would admit waits for the end of a run or for the retry timer. `SlowIsSerial`: at the slow pace the pump admits no
automatic run while another one is anywhere between admission and settle, the window before its spawn included.
`ChainDescends`: the pair (restarts, turns) grows along every chain of re-dispatches, so a chain ends.

*Claims.* `ReservationsExclude` speaks of the set in memory, the file and every write in between: any of them may be
what a restart finds. `RunClaimsAreOfThisLife`: a claim of a dead run never blocks its card after boot.

*Recovery.* `OneOwnerPerSession`: two children never share a Claude session, although orphans survive the service and
may survive even SIGKILL. `ResumedOnce`: no launch has two heirs. `CleanupSparesRuns`: what a pass reaps for a dropped
or refused entry is not the tree of a run in flight. `PassesSpareEntries`: a pass that resolves on a stale snapshot
never touches the entry of a run in flight. `InterruptedDecided`: no entry stays *running* for good.

*Train.* `OneAtATime`: supersede, sweep and recovery write the same statuses as the loop, and the queue still never
holds two entries that are being integrated (but for a throw of the loop during a recovery, section 4). `WorkIsKept`: whatever path deletes a branch, the code it carried has
landed. `KeepsPromise`: the train implements `Integration`, through crashes between a landing and its marker.
`HoldStopsTheTrain`: once a commit that had to be undone could not be, nothing is piled on it. `NoneWaitsForever`:
neither a parked head nor a loop that threw nor an entry superseded in flight keeps the queue waiting.

*Publishing.* `PublishedIsOnMain`: the stamp waits for the promotion's own word, so through stale writes and restarts
*published* means on main. `CallsAreKept` and `NeverAgain`: as long as calls and drains take turns, an accepted request
stays listed, a cancelled one cancelled, and a started one is not started again. `NotHeldBack`: a board that is held or
put off for good does not stop the others.

*Sessions.* `TreesAreRegistered`: the bug the code's comment tells of (two opens at once, one listed) does not come
back. `RefusedLeavesNothing`: the rollback undoes reservation, tree, row and process in every order of failures.
`OneProcess`, `SweepSparesLive`: a recycle leaves one process and no sweep takes a live agent's card - both conditional
on what section 4 shows. `DeadIsFreed`: a death is recorded only once its cards are free, so it is not forgotten.

*Approved execution.* `RunsOnce`: approvals in the memory of two processes, one file, two claim files, crashes and
failed writes between any two of them - and command and undo are each started at most once. `UndoesWhatRan`: neither the
automatic undo nor the owner's is started of a command that failed or may have. `RecordTells`: what the owner decides on
is true; where nobody knows, the record says *failed*, never *expired* or *done*. `FinalStays`: no late settle, decision
or recovery replaces an outcome. `DecidedSettles`: no approval and
no undo is left standing by a task that drops itself, by a crash or by one task meeting another - unless the disk
fails, for which section 4 has a trace.

### Bounds

`MaxRuns`, `MaxReleases`, `MaxLaunches`, `MaxCrashes`, `MaxTime` and `MaxPending` occur in guards only to keep the
instance finite. Three runs are a released run, the one that re-took its card, and a third that meets what those two
left behind; three launches are a run, its resume and a resume of that. Two crashes make the second one hit the boot
pass of the first. `EngineLocks` with a second release and `Claims` with another tick and another crash (for
its safety properties) were also run to the end and pass; they are left out for time. Counters that the code bounds (`ResumeMax`, `FallbackMax`, `RateMax`) are settings, not bounds.
`ResumeMax = 0` in `EnginePump` switches the turn-cap resumes off, which have the other two runs.

`MaxEntries`, `MaxRetries`, `MaxThrows`, `MaxPushes`, `MaxAsks`, `MaxRecycles` and `setting.restarts` are bounds too. Two
entries are a head and one behind it, a superseded one and its rival, a run and its re-drive, a conflict and what the
judge made of it. `Train` (1.7 million states) has the crash and `TrainLive` the throw, the retry by hand and the judge, because both
at once do not finish in time; `RetriesParked`, `Requeue`, `LoopThrows`, `SweepsStuck` and the judge therefore occur in
`TrainLive` only. Three calls are two requests and a cancel, on two boards or on one, with `stage` moving between them.
One recycle next to a
birth, a discard and a sweep has every pair of the fleet's critical sections; with one card the two agents are rivals
for it.

`MaxRequests` and `MaxFaults` bound approved execution. Two requests of one card meet at its cap, and tell
one request's steps from another's; everything else happens within one request, which is all that the two processes of
`ApprovedTwice` share. Two crashes there are each process dying once. A fault is one write or step that fails; two in a
row are `failSafe` failing as well, which leaves the record as one fault and a crash do. The same instance without
`BootFirst`, with no fault and one crash (7.9 million states), keeps both properties; it takes too long for a run, and
the theorems of section 5 cover it.

### Fairness

* Engine: strong fairness of each run's steps and of the retry timer, weak fairness of the end of `pump()`. A run's
  awaits resolve (git calls, judges and the child have timeouts and a watchdog). It is strong because other events get
  in between (`Quiet` is false while the pump loops); no event starves the loop. Nothing is assumed of the operator,
  the governor, the load or the pace.
* Claims: strong fairness of the sweep (two timers in `instrumentation.ts`; strong because the bound on chained writes
  disables it at times), weak fairness of writes, of boot and of time. Writes may fail for ever.
* Train: weak fairness of each call's next step, of a persist, of recovery and of the sweep, whose timer re-arms.
  Nothing is assumed of the operator, of new work, of crashes or of what a gate or a judge answers.
* Publishing: weak fairness of the drain as a whole (the timer and the end of each run trigger it) and of a caller's
  write; strong fairness of an idle answer, since a pipeline asked again and again is found idle in the end.
* Sessions: strong fairness of each step of a spawn or recycle, of the probe and of a sweep whose claim store answers:
  the registry's lock is first come, first served but is taken in between; weak fairness of the end of a discard. Agents
  need not end, nothing need be asked for.
* Approved execution: weak fairness of a write whose turn it is, of recovery and of restart; strong fairness of a task's
  steps, since children have timeouts and turns at `serial` are served in the order asked for but are taken in
  between. Nothing is assumed of the owner, of time or of faults.
* Recovery: weak fairness of restart (systemd), flush, each run's steps (watchdog), the end of each orphan, the timer
  that re-arms and the steps of a pass. Crashes, new entries and merge-backs need not happen.

## 4. Where the code and its comments disagree

The following formulas state what a comment of the code says, or what a reader would expect of it, and TLC finds a
behaviour of the code against each. They are defined in the modules, last section, and say why the properties above are
no stronger. Each is reproduced by giving it as the only property to the configuration named, with `SPECIFICATION Spec`
unless the table says otherwise (an INVARIANT, or a PROPERTY where it is an action or temporal formula).

| Formula | Configuration | Trace |
|---|---|---|
| `RunnerEngine!ReleasedNeverSpawns` | `EngineLocks` | `forceRelease` of a run without a child marks the card and reports *released* (engine.ts:1855); a run past its last look at the mark spawns all the same |
| `RunnerEngine!CancelIsTerminal` | `EngineResume` | `finish()` has read the kill marks and awaits the card's status (engine.ts:4030); the kill recorded then is read by nobody and the run is resumed |
| `RunnerEngine!IdempotentPerCard` | `EngineLocks` with `HeavyMax = 1` | the released run's teardown (engine.ts:2564) frees the lock of the run that re-took the card and waits for a slot; a third is accepted |
| `RunnerEngine!MarkHitsItsRun` | `EngineLocks` | the cancel mark is kept by card; the re-triggered run consumes the mark of the released one (2659) |
| `RunnerEngine!BrakeHolds` | `EngineLocks` with `Origins = {"autorun", "manual"}`, no symmetry | the killed child's settle cascades before `forceRelease` arms the brake (1875) |
| `CardClaims!NothingResurrected` | `Claims` | a crash between the swap of a session's release and its write (claims.ts:424) |
| `RunRecovery!SettledBranchStands` | `RecoveryBoot` | a run settles; before its branch is on the train a sweep finds neither a running entry nor a train entry and disposes of tree and branch (recovery.ts:220; the code is kept as `failed/run/<id>`) |
| `RunRecovery!JournalCoversRuns` | `RecoveryBoot` | a merge-back fails after the card's next run was accepted; the plain `recordFinish` (engine.ts:2927) flips that run's entry, and a crash then loses the run |
| `RunRecovery!PassesSpareLiveRuns`, `PassesSpareEntries` | `RecoveryBoot` with `Starves = TRUE` | a sweep that no longer waits for an idle engine (recovery-sweep.ts:147) loads the entries of live runs and stops their scopes before `runSkill` could refuse the resume (recovery.ts:266) |
| `RunRecovery!OneOwnerPerSession` | `RecoveryBoot` with `WritesLag = TRUE` | the scope's unique name (engine.ts:3413) is not on disk when the service dies; the boot pass stops and probes a name that does not exist |
| `RunRecovery!FreshTreeStands` | `RecoveryBoot` | the keep set (recovery.ts:210) predates a run whose new tree the scan (539) then finds |
| `RunRecovery!CleanupSparesRuns` | `RecoveryBoot` with `Passes = {1, 2}` | two passes hold an entry; one resumes it, the other is refused and reaps the tree (recovery.ts:365). Passes may overlap because the timer and the idle hook each start one (recovery-sweep.ts:14-15) |
| `RunRecovery!ResumedInItsTree` | `RecoveryBoot` | a crash before a re-dispatched run has started: the entry written at enqueue (engine.ts:2460) names no tree |
| `RunRecovery!OrphansAreKnown` | `RecoveryBoot` | a deferred entry (recovery.ts:294) is replaced by the card's next run |
| `MergeTrain!DoneMeansLanded` | `Train` | `resolveMergeConflict("merged")` of a split entry marks its code, deletes the branch and announces it without looking at the data (merge-queue.ts:5655); the comment at 5647 says the data already landed, but `integrateSplit` lands the code first (4246) |
| `MergeTrain!RestartKeepsWork` | `Train` with `Jobs <- AllJobs` | the prune at boot drops an entry of data only (5929), though `runLoop` has it take the same path as any other |
| `MergeTrain!SupersedeSparesInFlight` | `Train` | the rivals were listed before an await; by then the loop may have taken one (the comment at 5604 says never) |
| `MergeTrain!NoRedriveOnceStaged` | `Train` | recovery scans an entry the loop has taken meanwhile and parks it, the operator says he merged it, and the loop, still before the gate, meets a conflict and has the run driven again although its code has landed (4680, 6264) |
| `MergeTrain!SessionNeverParks` | `Train` | the recovery at boot parks an entry it finds being merged, a session's included, although a session is to get its work back wherever a run would be parked (comment at 3556) |
| `MergeTrain!OneAtATime` | `Train` with `MaxEntries = 4`, `MaxRetries = 1`, `MaxThrows = 1` and a run of data only on a card of its own (found with the steps up to the crash fixed; too many states otherwise) | while a recovery prunes, the operator aborts and requeues an entry the loop is in the gate with, so that it is no longer listed; the loop throws, and the next one takes the next entry; the prune drops the run of data only and therefore puts back the list it began with (5948), the abandoned entry, still *gate-running*, included: two entries in integration |
| `PublishQueue!ChosenGoesLive` | `Publish` | the promotion is handed the board, not the commit (publish-queue.ts:411): what goes live is the tip of `stage` by then |
| `PublishQueue!CancelledIsNotPublished` | `Publish` with `Overlaps = {TRUE}`, `MaxAsks = 2` | the drain loads the rows, awaits the idle probe, and writes them back (publish-queue.ts:355, 403) without the lock that `cancelPublish` takes: a cancel answered in between is overwritten and the request is published, though "um já resolvido não muda" (681); in the same way a request accepted in between disappears from the file |
| `SessionFleet!RecycleKeepsClaim` | `Fleet` with `Settings <- Overlapping` | `recycleSession` kills the old terminal (session-spawn.ts:919), awaits the search for the transcript, and only then writes the new terminal's name into the row; a sweep in between finds the row's terminal gone, frees the cards of an agent that is alive and marks it ended, though the card and the claim "all stay exactly where they are" (832) |
| `LockedExec!ApprovalEnds` | `Approved`, `SPECIFICATION LiveSpec` | `execute` uses up the approval and makes the claim file, then writes *running* (locked-exec-service.ts:768). If that write fails, `failSafe` finds a record that reads *approved* and leaves it (726): nothing can run it or expire it until the service restarts, though an approval that did not start in time is to expire (locked-exec.ts:70) |
| `LockedExec!RestartRunsApproved` | `Approved` | the boot's comment (instrumentation.ts:233) says that what was approved and not yet run is run now, within its fifteen minutes; `recoverOnBoot` runs nothing and expires it at once (929), as its own comment says (921) |

Two more instances show why `LockedExec` is checked as it is: `Approved` with `BootFirst = FALSE` violates `FinalStays` and
`RecordTells` (the recovery settles the rows it listed, 928, over what was approved and run since). With two processes each
counts the pending requests before the other writes, so more than the caps may wait (507).

`OneOwnerPerSession` as checked therefore assumes that a crash finds the journal flushed; the write takes milliseconds,
but nothing in the code awaits it.

## 5. Proofs

All theorems are of the form `Spec => []P` or `Spec => [][A]_vars`, but for the refinement, `Spec => Promise!Spec`; they
hold for every value of the constants that satisfies the module's named assumptions, so for any number of cards, runs,
launches, passes, boards, callers, processes and crashes.

| Theorem | Says | Along |
|---|---|---|
| `RunnerEngine_proofs!TypeCorrect` | `TypeOK` | `TypeInv` adds that a locked card has a `runMeta`, and that a run about to be resumed is below its cap: without them the next `runMeta` and the next counter are not typed |
| `RunnerEngine_proofs!SlotsAreCounted` | `SlotsCounted` | one lemma for a run that enters `Held`, one for a run that leaves it, one for every other step; cardinalities by `FiniteSetTheorems` |
| `RunnerEngine_proofs!OneCodeRun` | `OneCodeRunPerCard` | `ClaimInv`: every code run from tree to settle owns a claim, and two claims on a card exclude each other |
| `RunnerEngine_proofs!LocksAreExact`, `LiveRunsAreKillable`, `RedispatchesAreAccepted` | `LockIsExact`, `LiveIsKillable`, `RedispatchAccepted` | `LockInv` is their conjunction, since each needs the others, with: `runMeta` names a born run of its card; a revoked run is born, so taint never goes to another card; at most one run is between `release()` and its re-dispatch (only the pump runs then), and its card is free |
| `RunnerEngine_proofs!ChainsDescend` | `ChainDescends` | `ChainInv`: a run's parent was born, so the pair a child is compared with is settled; a lost session is charged to the card before the restart (`RestartIsCharged`) |
| `RunnerEngine_proofs!SlowPaceIsSerial` | `SlowIsSerial` | an action property, from `LockInv`: the guard of the pump looks at `inFlight`, the property at phases, and away from tainted cards the two agree |
| `RunnerEngine_proofs!NothingIsStranded` | `NoStrandedWork` | `RestInv` says it of every run whose lane has room, whatever governor and load say, because these change without an edge: such a run waits for the end of a run, for the retry timer or for the pace, and every step that frees a slot or eases the pace starts a pump |
| `CardClaims_proofs!ClaimsTyped` | `TypeOK` | |
| `CardClaims_proofs!ReservationsNeverClash`, `ActorsHoldOneClaim` | `ReservationsExclude`, `OnePerActor` | `ClaimsInv`: the set in memory, the file and each chained write are *sound* (exclusive in force, one claim per actor); soundness is kept by subsets and by time passing |
| `CardClaims_proofs!NoInheritedRunClaim` | `RunClaimsAreOfThisLife` | one step lemma over the life that is up |
| `Integration_proofs!ClosedIsLanded`, `CodeLandsFirst` | `ClosedMeansLanded`, `DataFollowsCode` | `Inv` adds that a run has landed no more than its branch carried, unless by hand. `MergeTrain_proofs!Implements` carries both over to the train |
| `MergeTrain_proofs!TrainTyped`, `WorkKept` | `TypeOK`, `WorkIsKept` | `Inv`: entries keep run and work for good, in memory and in the file (`Made`, `Kin`, `Recorded`); a mark, in either, has landed (`MarksHold`); the place of the loop says what has landed of the entry it holds (`Sound`); what recovery is about to announce has landed (`ToldHaveLanded`). A branch is deleted only where one of these says its code has landed |
| `MergeTrain_proofs!HoldStops` | `HoldStopsTheTrain` | `Sound`: while publication is held the loop holds no entry |
| `MergeTrain_proofs!Implements` | `KeepsPromise` | from `Inv`, a lemma for each action of `Integration` that says when a step of the train is one (`TakesRun`, `LandsHalves`, `ClosesRuns`, `VouchesFor`), and a stutter for every other step |
| `MergeTrain_proofs!OneIsIntegrated` | `OneAtATime`, if the loop throws only while no recovery is under way | `FlightInv`: an entry in integration is the loop's, or one that a recovery still has ahead (`RecoveryFindsIt`); the same holds of the file (`OneOnDisk`), which is what a restart begins with |
| `LockedExec_proofs!ApprovalTyped` | `TypeOK` | |
| `LockedExec_proofs!StartedOnce` | `RunsOnce` | `OnceInv`, for each request: at most one execution is between its claim and the last line of `runSteps`, and nothing was started before the claim (`RunIsClaimed`); the same of the undo the owner asked for (`UndoIsClaimed`) |
| `LockedExec_proofs!UndoneIfDone` | `UndoesWhatRan` | `SuccessIsOver`: whoever says *succeeded* - the record, a row that was read, a task about to settle, an undo under way - does so of a request that is claimed and that nobody executes any more, and whose effect is in place unless an undo has its claim. Stale rows are written back, so rows and tasks must be covered, not only the record |
| `LockedExec_proofs!RecordsAreTrue`, `FinalsStay` | `RecordTells`, `FinalStays`, if `BootFirst` and there is one process (`OneProc`) | `TellInv`: a record fits what was started and what is in place (`RecFits`); so does the row a turn has read (`TurnFits`), the rows recovery has listed (`BootFits`), and what each task is about to write (`TasksFit`): at most one of them may still change a request's record |
| `PublishQueue_proofs!PublishTyped` | `TypeOK` | `Typed` adds that a call under way and a promotion have a request |
| `PublishQueue_proofs!PublishedLanded` | `PublishedIsOnMain` | stale rows get written back, so the claim must hold of *every* copy of the rows - file, drain, callers (`Told`) - and copies must agree on a request's board (`Agreed`), which needs that a new number is in no copy (`Fresh`, `OwnIds`); a promotion in progress is of a waiting request and of a commit at or before `stage` (`Promotion`, `Behind`) |
| `PublishQueue_proofs!CallsKept` | `CallsAreKept` | `Serial`: one caller holds the lock; if calls and drains take turns, what either holds is the file, up to the mark it has just made (`DrainKnows`) |
| `PublishQueue_proofs!NotTwice` | `NeverAgain` | an action property, from `Inv` and `Serial`: only `Publishes` starts a promotion, of a request that waits in rows equal to the file |
| `RunRecovery_proofs!RecoveryTyped` | `TypeOK` | `TypeInv` adds that the engine's runs carry a session and a number |
| `RunRecovery_proofs!PassesLeaveRunsAlone` | `PassesSpareEntries`, if `~Starves` | `CoverInv`: launches are numbered below `born`; a run's entry carries its number; a snapshot of an entry differs from that of any run in flight, because sweeps start only when nothing is in flight and later launches have fresh numbers; during boot nothing is in flight |
| `RunRecovery_proofs!ReapsSpareRuns` | `CleanupSparesRuns`, if `~Starves` and there is one pass | `NotInFlight`: no run in flight is of a session that a pass has ahead. That a pass which resumes an entry leaves the others so follows from `ApartInv`: the names of two cards, in engine, journal and snapshots, are apart, and all are below `born` |
| `RunRecovery_proofs!SessionsHaveOneOwner` | `OneOwnerPerSession`, if `~WritesLag` | `OwnInv`: a *running* entry names the scope of every child of its session (`EntriesKnow`), the session of a run has no other child (`RunOwns`), and a child of an entry that a pass has ahead is either the run's or in the scope that the pass will probe (`PassKnows`) |
| `RunRecovery_proofs!InterruptedResumeOnce` | `ResumedOnce`, under all three | `HeirInv`: whatever may still be resumed - a *running* entry, the file of a service that is down, a run, an entry ahead of a pass - has no heir yet |
| `SessionFleet_proofs!TypeCorrect` | `TypeOK` | |
| `SessionFleet_proofs!EveryTreeHasARow` | `TreesAreRegistered` | `RegistryInv`: the lock has one holder, and while it is held what its holder loaded is the file; a tree on disk has its row, or its holder is about to write or drop it |
| `SessionFleet_proofs!RefusalLeavesNothing` | `RefusedLeavesNothing` | `HostsInv`: how far a spawn has come bounds the terminals and cards its session can have; with `RegistryInv` for tree and row |
| `SessionFleet_proofs!OneProcessPerTree`, `SweepsSpareTheLiving` | `OneProcess`, `SweepSparesLive` | `SwapInv`, where sweeps keep clear and before the first restart: one swap at a time, of a session at rest; what runs is what the row names or the newborn; a probe saw everything that runs |

The hypotheses are not for the prover's convenience: drop any one of them and TLC finds the formula violated. `RecoveryBoot`
shows it of `ReapsSpareRuns` with `Starves = TRUE` or with `Passes = {1, 2}`, of `SessionsHaveOneOwner` with
`WritesLag = TRUE`, and of `InterruptedResumeOnce` with each of the three; `Approved` with `BootFirst = FALSE`, and
`ApprovedTwice` as it is, of `RecordsAreTrue` and `FinalsStay`; section 4 has the trace for `OneIsIntegrated`. Each theorem
has only those it needs: `PassesLeaveRunsAlone` covers passes that overlap and writes that get lost, `SessionsHaveOneOwner`
passes that overlap and sweeps beside live runs. `OneProcess` and `SweepSparesLive` carry theirs in the formula (section 4,
`RecycleKeepsClaim`). The instances of the runs satisfy them all.

Assumptions on constants are those of the modules: bounds are numbers, model values are not members of the sets they
stand beside, `SessionFleet` has a session.

Only model-checked: the liveness properties (`OperatorServed`, `HeldRunsSettle`, `LapsedIsFreed`, `InterruptedDecided`,
`NoneWaitsForever`, `NotHeldBack`, `DeadIsFreed`, `DecidedSettles`), since fairness and `ENABLED` are out of the prover's
reach. Every safety invariant and action property of a run is stated by a theorem.

## 6. What is not modelled

*In the engine.* One board. The type scope hold, the precheck, capability and conductor refusals end in one
nondeterministic `SettlesUnspawned`; the handlers of a redrive, telemetry, registry and journal are left out; so is
the hand-over to the merge train after a settle, which `RunRecovery` has. A claim store that fails (the engine goes on
without a claim) and leases that lapse under a live run are left out, so `OneCodeRunPerCard` is about a registry that
works. A run that both timed out and lost its session is left out.

*In the claims.* One board per model. The session side is in `SessionFleet`, which has claims as a set in force.

*In the train.* Blockers of mechanism failures, pushes, the cap on settled entries and the collision of a renamed
branch. Operator handlers are one step up to their persist; one enqueue is under way at a time; a hold survives a
restart. Data-only, judged and returned work are as in the code, but what a gate runs is its answer. The engine that
runs a re-drive is `owed`: it may come back or not.

*In publishing.* The override of an embargo, the counters of held requests and the message to the operator, the retry
timer and its budget, the breaker, the deploy of products and the reconciliation at boot. Requests made by the train
itself are `AsksFor`. A refused or unreadable `stage` and a deferred promotion happen only to boards outside `Clear`. A
restart is possible at every step, the deploy's own included; the reap is one step with it.

*In sessions.* The cap on agents and the load of the machine (a refusal there is no step), adopted sessions and those
without a tree, batches (a set of cards), submit and refresh, the garbage collector's choice of what to discard. A
sweep whose probe got no answer does nothing and is no step. A crash between a sweep's freeing and its write does the
sweep again. A lease ends by `Lapses`, when nothing renews it. A recycle is only of a session whose spawn is over.

*In approved execution.* What a command is: normalisation, classification by the host's lock, programs and checks, and
hashes - a file edited by hand, which the hashes are for, ends *failed* before anything runs. One board, so the cap per
board counts all requests. A claim file that cannot be made at all is a write that fails. Audit log, notices and the
card's wake-up write nothing that is read. Final outcomes that were acknowledged leave the list after thirty days.

*In recovery.* The branch with recovery disabled, the type-scope hold, a board that is gone, a machine reboot (pids
belong to strangers), the dedupe window (a refusal is always possible instead), trees and branches of agent sessions.
The check that the engine is idle and the snapshot are one step: only microtasks lie between them. Removing a failed
run's tree is fire-and-forget in the code and atomic in the model. What a pruned branch held is preserved under
`failed/`, which the model does not keep. The counters of a resume are in `RunnerEngine`.

Components that are not modelled at all are listed in `PROJECT.json` with the reason; most are pure functions over card
contents, append-only logs or presentation.

## 7. Plan

Done: `RunnerEngine`, `CardClaims`, `RunRecovery`, in this order because every card's work passes through them; then
`Integration` with `MergeTrain`, `PublishQueue` and `SessionFleet`, which have the persist-then-act windows and the
registry races; then `LockedExec`, which acts on the owner's word and may not act twice.

1. `CommitSerializer`: the promise chain per tree (`commit-serializer.ts`), shared by engine and train.
2. `AutorunCascade`: `autorun-eval.ts`, `cascade-decision.ts` - no-progress guard, dependency holds, forwards; that a
   cascade ends.
3. `PendingEffects` (`pending-effects.ts`: a crash between the card's write and the flush of the ledger, an effect
   resolved by a key that was used again), `TestQueue` (`test-queue.ts`: its save is not awaited although the run fires
   after it; a run answered once), `BoardPace`, `CapacityGovernor`, `ConductorPause`, `CardStore`.
4. Compositions: engine with claims whose leases lapse; recovery with the merge train's own recovery; `SessionFleet`
   over `CardClaims`.
5. An abstract run lifecycle (asked, working, settled once) that `RunnerEngine` implements.

Proofs next: the abstract run lifecycle of 5 and its refinement; what of `LockIsExact` is left on a tainted card; which
of the approved requests' properties survive two processes.
