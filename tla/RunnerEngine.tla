---------------------------- MODULE RunnerEngine ----------------------------
(***************************************************************************)
(* The runner engine (runner/engine.ts): every request to run a skill on a *)
(* card is queued in a lane, admitted by pump() when a slot is free,       *)
(* prepared by start(), spawned as a child process and settled.  One       *)
(* action is one uninterrupted stretch of the JavaScript event loop; an    *)
(* await is a change of phase.  pump() is a loop: `pumping` holds every    *)
(* other action back until its passes reach a fixpoint.                    *)
(*                                                                         *)
(* Runs are numbered in the order they are queued, so the FIFO order of a  *)
(* lane's queue is the order of the numbers and the queue itself is the    *)
(* set of runs in phase "queued".                                          *)
(***************************************************************************)
EXTENDS Integers, FiniteSets

CONSTANTS
  Cards,          \* cards of one board: the engine's keys
  Light, Heavy,   \* triggers by lane (classifyTrigger); Heavy = CODE_SKILLS
  Kind,           \* [Light \cup Heavy -> claim kind] (claimKindFor)
  MaxRuns,        \* bound: how many runs a behaviour has
  MaxReleases,    \* bound: how many runs forceRelease hits
  MaxConcurrent, LightMax, HeavyMax,  \* settings: slots, and slots per lane
  ResumeMax,      \* maxTurnsResumeMax()
  FallbackMax,    \* resumeFallbackMax()
  RateMax,        \* autorunRateLimit().max
  Isolation,      \* settings: worktreeIsolation
  Origins,        \* callers the instance has, a subset of AllOrigins
  Recoveries,     \* does boot recovery hand over resumes in this instance
  GateValues,     \* verdicts the capacity governor may give to automation
  LoadValues,     \* may the VPS be overloaded
  Paces,          \* paces the operator may set
  None

AllOrigins == {"autorun", "manual", "agent", "conflict-redrive"}

ASSUME ConstantsAssumption ==
  /\ Light \cap Heavy = {}
  /\ MaxRuns \in Nat /\ MaxReleases \in Nat
  /\ MaxConcurrent \in Nat \ {0} /\ LightMax \in Nat /\ HeavyMax \in Nat
  /\ ResumeMax \in Nat /\ FallbackMax \in Nat /\ RateMax \in Nat
  /\ Isolation \in BOOLEAN /\ Recoveries \in BOOLEAN
  /\ Origins \subseteq AllOrigins
  /\ GateValues \subseteq BOOLEAN /\ LoadValues \subseteq BOOLEAN
  /\ Paces \subseteq {"normal", "slow", "paused"}

Runs == 1..MaxRuns

ASSUME NoneAssumption == None \notin Runs

Triggers == Light \cup Heavy

Job == [card: Cards, trigger: Triggers, origin: AllOrigins, resume: BOOLEAN,
        turns: 0..ResumeMax, falls: 0..FallbackMax, parent: Runs \cup {None}]

NoJob == [card |-> None]

\* Out of the queue and not yet spawned; with a child process; finished.
Launching == {"preparing", "creating", "assembling"}
Spawned   == {"live", "judging", "expired"}
Held      == Launching \cup Spawned          \* the phases that hold a slot
Settled   == {"ok", "failed", "cancelled", "no-op", "resumed", "restarted",
              "left"}
\* settle() and resumeFallback() call runSkill again after their pump.
Redispatching == {"resuming", "restarting"}
Phases == {"unborn", "queued"} \cup Held \cup Redispatching \cup Settled

VARIABLES
  job,            \* what each run was asked to do
  phase,          \* where each run is
  running, runningHeavy,   \* slot counters
  inFlight,       \* per-card lock (a set of keys)
  runMeta,        \* [Cards -> run that registered itself last, or None]
  children,       \* [Cards -> run whose process is tracked, or None]
  cancelled,      \* cards whose pending run must cancel itself
  cancelledKills, \* cards whose child was killed on purpose
  fallbackCount,  \* resumeFallbackCount: fresh restarts used, per card
  lastSpawnAt,    \* [Cards \X Triggers -> "never" | "fresh" | "old"]
  burst,          \* autorunSpawnTimes inside the rate window
  claims,         \* runs that reserved their card
  releasing,      \* cards whose forceRelease has not armed the brake yet
  braked,         \* recentlyCancelled
  pumping,        \* pump() is in its loop
  retryTimer,     \* pumpRetryTimer is set
  gateOpen, overloaded, pace,   \* what pump() reads of its surroundings
  revoked,        \* history: runs whose lock was taken away before the spawn
  stopped,        \* history: runs whose tracked child was force-released
  misfired        \* history: runs cancelled by a mark meant for another run

lockVars == <<inFlight, runMeta, children, claims>>
slotVars == <<running, runningHeavy>>
envVars  == <<gateOpen, overloaded, pace>>
history  == <<revoked, stopped, misfired>>
vars == <<job, phase, slotVars, lockVars, cancelled, cancelledKills,
          fallbackCount, lastSpawnAt, burst, releasing, braked, pumping,
          retryTimer, envVars, history>>

-----------------------------------------------------------------------------
C(r)          == job[r].card
IsHeavy(r)    == job[r].trigger \in Heavy
IsOperator(r) == job[r].origin = "manual"          \* initiatorFromOrigin

In(S)      == {r \in Runs : phase[r] \in S}
InHeavy(S) == {r \in In(S) : IsHeavy(r)}
Active     == {"queued"} \cup Held

Unborn == In({"unborn"})
NextBorn(r) == r \in Unborn /\ \A s \in Unborn : r <= s

\* No code of the engine is on the stack: the next event may be delivered.
Quiet == ~pumping /\ In(Redispatching) = {}

-----------------------------------------------------------------------------
(* runSkill: a request is refused, or it is locked, recorded and queued.   *)

\* Mutants of Accepts: no per-card lock; the anti-replay window for everyone.
AcceptsUnlocked(j, windowed) ==
  windowed => lastSpawnAt[<<j.card, j.trigger>>] # "fresh" /\ burst < RateMax

AcceptsWindowed(j, windowed) ==
  /\ lastSpawnAt[<<j.card, j.trigger>>] # "fresh"
  /\ j.card \notin inFlight

Accepts(j, windowed) ==
  /\ windowed => /\ lastSpawnAt[<<j.card, j.trigger>>] # "fresh"
                 /\ burst < RateMax
  /\ j.card \notin inFlight

\* An explicit request drops the card's cancel brake.
RunSkill(r, j, windowed) ==
  /\ job' = [job EXCEPT ![r] = j]
  /\ inFlight' = inFlight \cup {j.card}
  /\ lastSpawnAt' = [lastSpawnAt EXCEPT ![<<j.card, j.trigger>>] = "fresh"]
  /\ burst' = IF windowed THEN burst + 1 ELSE burst
  /\ runMeta' = [runMeta EXCEPT ![j.card] = r]
  /\ braked' = IF j.origin = "autorun" THEN braked ELSE braked \ {j.card}
  /\ pumping' = TRUE

Request(r, j, windowed) ==
  /\ Quiet /\ NextBorn(r)
  /\ Accepts(j, windowed)
  /\ RunSkill(r, j, windowed)
  /\ phase' = [phase EXCEPT ![r] = "queued"]
  /\ UNCHANGED <<slotVars, children, claims, cancelled, cancelledKills,
                 fallbackCount, releasing, retryTimer, envVars, history>>

Fresh(c, t, o) == [card |-> c, trigger |-> t, origin |-> o, resume |-> FALSE,
                   turns |-> 0, falls |-> 0, parent |-> None]

\* A column entry (evaluateAutorunOnEntry) passes the dedupe window and first
\* asks for the brake; every other caller goes straight to runSkill.
Enqueue(r, c, t, o) ==
  /\ o = "autorun" => c \notin braked
  /\ Request(r, Fresh(c, t, o), o = "autorun")

\* Recovery revives a crashed run under its own session id, with the counters
\* its journal entry carried, through the same windows as a column entry.  A
\* manual run is never revived.
Recover(r, c, t, o, turns, falls) ==
  /\ Recoveries /\ o \in {"autorun", "conflict-redrive"}
  /\ Request(r, [Fresh(c, t, o) EXCEPT !.resume = TRUE, !.turns = turns,
                                       !.falls = falls], TRUE)

-----------------------------------------------------------------------------
(* pump(): admit while a slot is free, the light lane first.               *)

QueuedAutomation ==   \* automationQueuedOn
  {C(r) : r \in {q \in In({"queued"}) : ~IsOperator(q) /\ C(q) \notin cancelled}}

\* Mutant: only the runs whose process exists count.
AutomationExecuting ==
  {c \in Cards : children[c] # None /\ ~IsOperator(children[c])}

AutomationInFlight == \* automationInFlightOn
  {c \in inFlight \ QueuedAutomation :
     runMeta[c] # None /\ ~IsOperator(runMeta[c])}

PaceHolds == \/ pace = "paused"
             \/ pace = "slow" /\ AutomationInFlight # {}

\* Mutant: the operator waits like everyone else.
AdmissibleAlike(r) == phase[r] = "queued" /\ ~PaceHolds /\ gateOpen

Admissible(r) ==
  /\ phase[r] = "queued"
  /\ \/ IsOperator(r)
     \/ C(r) \in cancelled
     \/ ~PaceHolds /\ gateOpen

Eligible(heavy) ==
  IF heavy
  THEN {r \in Runs : Admissible(r) /\ IsHeavy(r) /\ ~overloaded
                     /\ runningHeavy < HeavyMax /\ running < MaxConcurrent}
  ELSE {r \in Runs : Admissible(r) /\ ~IsHeavy(r)
                     /\ running - runningHeavy < LightMax
                     /\ running < MaxConcurrent}

First(r, S) == r \in S /\ \A s \in S : r <= s

Picked(r) == \/ First(r, Eligible(FALSE))
             \/ Eligible(FALSE) = {} /\ First(r, Eligible(TRUE))

Take(r) == /\ running' = running + 1
           /\ runningHeavy' = runningHeavy + (IF IsHeavy(r) THEN 1 ELSE 0)

\* Mutant: the heavy lane's counter is forgotten.
GiveTotal(r) == running' = running - 1 /\ UNCHANGED runningHeavy

Give(r) == /\ running' = running - 1
           /\ runningHeavy' = runningHeavy - (IF IsHeavy(r) THEN 1 ELSE 0)

\* release(): the teardown every path shares.  The lock and the child are
\* dropped by card, the metadata only by its owner.
Unlock(r) ==
  /\ children' = [children EXCEPT ![C(r)] = None]
  /\ inFlight' = inFlight \ {C(r)}
  /\ runMeta' = [runMeta EXCEPT ![C(r)] = IF @ = r THEN None ELSE @]
  /\ claims' = claims \ {r}
  /\ pumping' = TRUE

MarkHit(r) == misfired' = IF r \in revoked THEN misfired
                          ELSE misfired \cup {r}

\* start() up to its first await.
PumpAdmits(r) ==
  /\ pumping /\ Picked(r)
  /\ C(r) \notin cancelled
  /\ Take(r)
  /\ phase' = [phase EXCEPT ![r] = "preparing"]
  /\ UNCHANGED <<job, lockVars, cancelled, cancelledKills, fallbackCount,
                 lastSpawnAt, burst, releasing, braked, pumping, retryTimer,
                 envVars, history>>

\* A marked card: start() settles the run at once, its slot taken and given.
PumpCancels(r) ==
  /\ pumping /\ Picked(r)
  /\ C(r) \in cancelled
  /\ cancelled' = cancelled \ {C(r)}
  /\ MarkHit(r)
  /\ Unlock(r)
  /\ phase' = [phase EXCEPT ![r] = "cancelled"]
  /\ UNCHANGED <<job, slotVars, cancelledKills, fallbackCount, lastSpawnAt,
                 burst, releasing, braked, retryTimer, envVars, revoked,
                 stopped>>

\* Mutant: work the governor holds is not counted as stranded.
RetryForHeavyOnly == running = 0 /\ InHeavy({"queued"}) # {}

\* pumpRetryNeeded: gated, with nothing running whose end would pump again.
RetryNeeded ==
  /\ running = 0
  /\ \/ InHeavy({"queued"}) # {}
     \/ ~gateOpen /\ ~PaceHolds /\ QueuedAutomation # {}

PumpStops ==
  /\ pumping
  /\ Eligible(FALSE) = {} /\ Eligible(TRUE) = {}
  /\ pumping' = FALSE
  /\ retryTimer' = (retryTimer \/ RetryNeeded)
  /\ UNCHANGED <<job, phase, slotVars, lockVars, cancelled, cancelledKills,
                 fallbackCount, lastSpawnAt, burst, releasing, braked,
                 envVars, history>>

RetryTimerFires ==
  /\ Quiet /\ retryTimer
  /\ retryTimer' = FALSE
  /\ pumping' = TRUE
  /\ UNCHANGED <<job, phase, slotVars, lockVars, cancelled, cancelledKills,
                 fallbackCount, lastSpawnAt, burst, releasing, braked,
                 envVars, history>>

-----------------------------------------------------------------------------
(* start(): from admission to the spawn.                                   *)

\* Mutant: claims of different kinds always coexist.
ReservedByKind(r) ==
  \E s \in claims \ {r} :
     C(s) = C(r) /\ Kind[job[s].trigger] = Kind[job[r].trigger]

\* claimConflicts: one claim per kind and one code claim per card.
Reserved(r) ==
  \E s \in claims \ {r} :
     /\ C(s) = C(r)
     /\ \/ Kind[job[s].trigger] = Kind[job[r].trigger]
        \/ IsHeavy(s) /\ IsHeavy(r)

Drop(r, how) ==
  /\ Unlock(r) /\ Give(r)
  /\ phase' = [phase EXCEPT ![r] = how]
  /\ UNCHANGED <<job, fallbackCount, lastSpawnAt, burst, releasing, braked,
                 retryTimer, envVars, revoked, stopped>>

\* Conducted card ("cancelled"), pre-check, capability preflight or a claim
\* of a session ("no-op"): settled without a process.
SettlesUnspawned(r, how) ==
  /\ Quiet /\ phase[r] = "preparing"
  /\ how \in {"cancelled", "no-op"}
  /\ Drop(r, how)
  /\ UNCHANGED <<cancelled, cancelledKills, misfired>>

\* The card is reserved; a fresh code run then waits for its worktree.
Reserves(r) ==
  /\ Quiet /\ phase[r] = "preparing"
  /\ ~Reserved(r)
  /\ claims' = claims \cup {r}
  /\ phase' = [phase EXCEPT ![r] =
        IF IsHeavy(r) /\ Isolation /\ ~job[r].resume THEN "creating"
        ELSE "assembling"]
  /\ UNCHANGED <<job, slotVars, inFlight, runMeta, children, cancelled,
                 cancelledKills, fallbackCount, lastSpawnAt, burst, releasing,
                 braked, pumping, retryTimer, envVars, history>>

\* The worktree exists: the cancel mark is read a second and last time.
TreeReady(r) ==
  /\ Quiet /\ phase[r] = "creating"
  /\ IF C(r) \in cancelled
     THEN /\ cancelled' = cancelled \ {C(r)}
          /\ MarkHit(r)
          /\ Drop(r, "cancelled")
          /\ UNCHANGED cancelledKills
     ELSE /\ phase' = [phase EXCEPT ![r] = "assembling"]
          /\ UNCHANGED <<job, slotVars, lockVars, cancelled, cancelledKills,
                         fallbackCount, lastSpawnAt, burst, releasing, braked,
                         pumping, retryTimer, envVars, history>>

LaunchFails(r) ==
  /\ Quiet /\ phase[r] \in {"creating", "assembling"}
  /\ Drop(r, "failed")
  /\ UNCHANGED <<cancelled, cancelledKills, misfired>>

\* Mutant: the child is not tracked.
SpawnsUntracked(r) ==
  /\ Quiet /\ phase[r] = "assembling"
  /\ cancelledKills' = cancelledKills \ {C(r)}
  /\ phase' = [phase EXCEPT ![r] = "live"]
  /\ UNCHANGED <<job, slotVars, lockVars, cancelled, fallbackCount,
                 lastSpawnAt, burst, releasing, braked, pumping, retryTimer,
                 envVars, history>>

Spawns(r) ==
  /\ Quiet /\ phase[r] = "assembling"
  /\ children' = [children EXCEPT ![C(r)] = r]
  /\ cancelledKills' = cancelledKills \ {C(r)}
  /\ phase' = [phase EXCEPT ![r] = "live"]
  /\ UNCHANGED <<job, slotVars, inFlight, runMeta, claims, cancelled,
                 fallbackCount, lastSpawnAt, burst, releasing, braked, pumping,
                 retryTimer, envVars, history>>

-----------------------------------------------------------------------------
(* finish() and settle(): the child closed.                                *)

\* A settle that is no failure clears the card's fallback budget.
Settle(r, how, failure) ==
  /\ Unlock(r) /\ Give(r)
  /\ cancelledKills' = cancelledKills \ {C(r)}
  /\ fallbackCount' = IF failure THEN fallbackCount
                      ELSE [fallbackCount EXCEPT ![C(r)] = 0]
  /\ phase' = [phase EXCEPT ![r] = how]
  /\ UNCHANGED <<job, cancelled, lastSpawnAt, burst, releasing, braked,
                 retryTimer, envVars, history>>

Closes(r) == Quiet /\ phase[r] = "live"

CloseCancelled(r) ==
  /\ Closes(r) /\ C(r) \in cancelledKills
  /\ Settle(r, "cancelled", FALSE)

\* A clean exit of a skill with no artifact or advance guard.
CloseClean(r) ==
  /\ Closes(r) /\ C(r) \notin cancelledKills
  /\ Settle(r, "ok", FALSE)

FallsUsed(r) == IF job[r].falls > 0 THEN job[r].falls ELSE fallbackCount[C(r)]

\* Every other exit awaits reads of the card before it settles.  A session
\* lost once too often resets the card's budget on its way there.
CloseForJudgement(r, exhausted) ==
  /\ Closes(r) /\ C(r) \notin cancelledKills
  /\ exhausted => job[r].resume /\ FallsUsed(r) >= FallbackMax
  /\ phase' = [phase EXCEPT ![r] = "judging"]
  /\ fallbackCount' = IF exhausted THEN [fallbackCount EXCEPT ![C(r)] = 0]
                      ELSE fallbackCount
  /\ UNCHANGED <<job, slotVars, lockVars, cancelled, cancelledKills,
                 lastSpawnAt, burst, releasing, braked, pumping, retryTimer,
                 envVars, history>>

\* The watchdog's kill wins over a cancel and is never resumed.
CloseTimedOut(r) ==
  /\ Closes(r)
  /\ phase' = [phase EXCEPT ![r] = "expired"]
  /\ UNCHANGED <<job, slotVars, lockVars, cancelled, cancelledKills,
                 fallbackCount, lastSpawnAt, burst, releasing, braked, pumping,
                 retryTimer, envVars, history>>

\* Mutant: a run the watchdog killed is never settled.
JudgedButTimeouts(r, ok) ==
  /\ Quiet /\ phase[r] = "judging"
  /\ Settle(r, IF ok THEN "ok" ELSE "failed", ~ok)

\* A card that advanced makes a dirty exit a success.
Judged(r, ok) ==
  /\ Quiet /\ phase[r] \in {"judging", "expired"}
  /\ Settle(r, IF ok THEN "ok" ELSE "failed", ~ok)

\* Mutant: one resume too many.
JudgedResumableOnceMore(r) ==
  /\ Quiet /\ phase[r] = "judging"
  /\ job[r].turns <= ResumeMax
  /\ Unborn # {}
  /\ Settle(r, "resuming", FALSE)

\* The turn cap was hit, the card did not advance: continue the session.
JudgedResumable(r) ==
  /\ Quiet /\ phase[r] = "judging"
  /\ job[r].turns < ResumeMax
  /\ Unborn # {}
  /\ Settle(r, "resuming", FALSE)

\* `claude --resume` found no session: start over, within the budget.
CloseSessionLost(r) ==
  /\ Closes(r) /\ C(r) \notin cancelledKills
  /\ job[r].resume /\ FallsUsed(r) < FallbackMax
  /\ Unborn # {}
  /\ Unlock(r) /\ Give(r)
  /\ fallbackCount' = [fallbackCount EXCEPT ![C(r)] = FallsUsed(r) + 1]
  /\ phase' = [phase EXCEPT ![r] = "restarting"]
  /\ UNCHANGED <<job, cancelled, cancelledKills, lastSpawnAt, burst,
                 releasing, braked, retryTimer, envVars, history>>

\* Mutant: the resume counter is not carried into the next run.
ContinuationUncounted(r) ==
  [job[r] EXCEPT !.resume = (phase[r] = "resuming"), !.parent = r,
                 !.falls = IF phase[r] = "resuming" THEN @
                           ELSE fallbackCount[C(r)]]

Continuation(r) ==
  IF phase[r] = "resuming"
  THEN [job[r] EXCEPT !.resume = TRUE, !.turns = @ + 1, !.parent = r]
  ELSE [job[r] EXCEPT !.resume = FALSE, !.turns = 0, !.parent = r,
                      !.falls = fallbackCount[C(r)]]

\* The runSkill call that follows the pump; a refusal leaves a resumable
\* entry to the recovery sweep, or fails the lost session.
Redispatch(r, n) ==
  /\ ~pumping /\ phase[r] \in Redispatching /\ NextBorn(n)
  /\ LET j == Continuation(r)
         done == IF phase[r] = "resuming" THEN "resumed" ELSE "restarted"
         refused == IF phase[r] = "resuming" THEN "left" ELSE "failed"
     IN IF Accepts(j, FALSE)
        THEN /\ RunSkill(n, j, FALSE)
             /\ phase' = [phase EXCEPT ![r] = done, ![n] = "queued"]
             /\ UNCHANGED <<children, claims>>
        ELSE /\ phase' = [phase EXCEPT ![r] = refused]
             /\ UNCHANGED <<job, lockVars, lastSpawnAt, burst, braked, pumping>>
  /\ UNCHANGED <<slotVars, cancelled, cancelledKills, fallbackCount,
                 releasing, retryTimer, envVars, history>>

-----------------------------------------------------------------------------
(* forceRelease: the operator, the pace, the hard stop of the governor.    *)

ReleaseBound == Cardinality(revoked \cup stopped) < MaxReleases

ReleaseLive(c) ==
  /\ Quiet /\ ReleaseBound /\ children[c] # None
  /\ cancelledKills' = cancelledKills \cup {c}
  /\ releasing' = releasing \cup {c}
  /\ stopped' = stopped \cup {children[c]}
  /\ UNCHANGED <<job, phase, slotVars, lockVars, cancelled, fallbackCount,
                 lastSpawnAt, burst, braked, pumping, retryTimer, envVars,
                 revoked, misfired>>

ReleasePending(c) ==
  /\ Quiet /\ ReleaseBound /\ children[c] = None /\ c \in inFlight
  /\ cancelled' = cancelled \cup {c}
  /\ inFlight' = inFlight \ {c}
  /\ lastSpawnAt' = [k \in DOMAIN lastSpawnAt |->
        IF k[1] = c /\ lastSpawnAt[k] = "old" THEN "fresh" ELSE lastSpawnAt[k]]
  /\ releasing' = releasing \cup {c}
  /\ pumping' = TRUE
  /\ revoked' = revoked \cup {runMeta[c]}
  /\ UNCHANGED <<job, phase, slotVars, runMeta, children, claims,
                 cancelledKills, fallbackCount, burst, braked, retryTimer,
                 envVars, stopped, misfired>>

\* After the kill is confirmed and the card's status is read.
ArmBrake(c) ==
  /\ Quiet /\ c \in releasing
  /\ releasing' = releasing \ {c}
  /\ braked' = braked \cup {c}
  /\ UNCHANGED <<job, phase, slotVars, lockVars, cancelled, cancelledKills,
                 fallbackCount, lastSpawnAt, burst, pumping, retryTimer,
                 envVars, history>>

\* recentlyCancelledAgeMs drops it: its TTL lapsed or the card moved.
BrakeLifts(c) ==
  /\ Quiet /\ c \in braked
  /\ braked' = braked \ {c}
  /\ UNCHANGED <<job, phase, slotVars, lockVars, cancelled, cancelledKills,
                 fallbackCount, lastSpawnAt, burst, releasing, pumping,
                 retryTimer, envVars, history>>

-----------------------------------------------------------------------------
(* Surroundings: windows that pass, the gate, the load and the pace.       *)

\* Only column entries and recovery read the two windows.
WindowsPass ==
  /\ Quiet /\ ("autorun" \in Origins \/ Recoveries)
  /\ \/ \E k \in DOMAIN lastSpawnAt : lastSpawnAt[k] = "fresh"
     \/ burst > 0
  /\ lastSpawnAt' = [k \in DOMAIN lastSpawnAt |->
        IF lastSpawnAt[k] = "fresh" THEN "old" ELSE lastSpawnAt[k]]
  /\ burst' = 0
  /\ UNCHANGED <<job, phase, slotVars, lockVars, cancelled, cancelledKills,
                 fallbackCount, releasing, braked, pumping, retryTimer,
                 envVars, history>>

\* The governor may notify (onChange pumps) or its window may lapse silently.
GateMoves(notified) ==
  /\ Quiet
  /\ gateOpen' \in GateValues \ {gateOpen}
  /\ pumping' = notified
  /\ UNCHANGED <<job, phase, slotVars, lockVars, cancelled, cancelledKills,
                 fallbackCount, lastSpawnAt, burst, releasing, braked,
                 retryTimer, overloaded, pace, history>>

LoadMoves ==
  /\ Quiet
  /\ overloaded' \in LoadValues \ {overloaded}
  /\ UNCHANGED <<job, phase, slotVars, lockVars, cancelled, cancelledKills,
                 fallbackCount, lastSpawnAt, burst, releasing, braked, pumping,
                 retryTimer, gateOpen, pace, history>>

\* setBoardPace kicks the engine unless the board was paused.
PaceMoves ==
  /\ Quiet
  /\ pace' \in Paces \ {pace}
  /\ pumping' = (pace' # "paused")
  /\ UNCHANGED <<job, phase, slotVars, lockVars, cancelled, cancelledKills,
                 fallbackCount, lastSpawnAt, burst, releasing, braked,
                 retryTimer, gateOpen, overloaded, history>>

-----------------------------------------------------------------------------
Init ==
  /\ job = [r \in Runs |-> NoJob]
  /\ phase = [r \in Runs |-> "unborn"]
  /\ running = 0 /\ runningHeavy = 0
  /\ inFlight = {} /\ claims = {}
  /\ runMeta = [c \in Cards |-> None]
  /\ children = [c \in Cards |-> None]
  /\ cancelled = {} /\ cancelledKills = {}
  /\ fallbackCount = [c \in Cards |-> 0]
  /\ lastSpawnAt = [k \in Cards \X Triggers |-> "never"]
  /\ burst = 0
  /\ releasing = {} /\ braked = {}
  /\ pumping = FALSE /\ retryTimer = FALSE
  /\ gateOpen \in GateValues /\ overloaded \in LoadValues /\ pace \in Paces
  /\ revoked = {} /\ stopped = {} /\ misfired = {}

\* The steps of a run itself, pump() included: what the scheduler owes it.
RunStep(r) ==
  \/ PumpAdmits(r) \/ PumpCancels(r)
  \/ \E how \in {"cancelled", "no-op"} : SettlesUnspawned(r, how)
  \/ Reserves(r) \/ TreeReady(r) \/ LaunchFails(r) \/ Spawns(r)
  \/ CloseCancelled(r) \/ CloseClean(r) \/ CloseSessionLost(r)
  \/ CloseTimedOut(r) \/ JudgedResumable(r)
  \/ \E b \in BOOLEAN : CloseForJudgement(r, b) \/ Judged(r, b)
  \/ \E n \in Runs : Redispatch(r, n)

Ask ==
  \E r \in Runs, c \in Cards, t \in Triggers, o \in Origins :
     \/ Enqueue(r, c, t, o)
     \/ \E n \in 0..ResumeMax, f \in 0..FallbackMax : Recover(r, c, t, o, n, f)

Cancel == \E c \in Cards : ReleaseLive(c) \/ ReleasePending(c)

Surroundings ==
  \/ \E c \in Cards : ArmBrake(c) \/ BrakeLifts(c)
  \/ WindowsPass \/ LoadMoves \/ PaceMoves
  \/ \E b \in BOOLEAN : GateMoves(b)

Next == \/ \E r \in Runs : RunStep(r)
        \/ PumpStops \/ RetryTimerFires
        \/ Ask \/ Cancel \/ Surroundings

Spec == Init /\ [][Next]_vars

\* The event loop serves every callback that stays ready now and then, the
\* watchdog ends every child, and a timer that is set fires.
Fairness == /\ \A r \in Runs : SF_vars(RunStep(r))
            /\ WF_vars(PumpStops) /\ SF_vars(RetryTimerFires)

FairSpec == Spec /\ Fairness

-----------------------------------------------------------------------------
(* Properties.                                                             *)

\* Every variable keeps the shape the engine's fields have.
TypeRuns ==
  /\ job \in [Runs -> Job \cup {NoJob}]
  /\ phase \in [Runs -> Phases]
  /\ \A r \in Runs : phase[r] # "unborn" => job[r] \in Job

TypeLocks ==
  /\ running \in Int /\ runningHeavy \in Int
  /\ inFlight \subseteq Cards /\ claims \subseteq Runs
  /\ runMeta \in [Cards -> Runs \cup {None}]
  /\ children \in [Cards -> Runs \cup {None}]

TypeMarks ==
  /\ cancelled \subseteq Cards /\ cancelledKills \subseteq Cards
  /\ fallbackCount \in [Cards -> 0..FallbackMax]
  /\ releasing \subseteq Cards /\ braked \subseteq Cards
  /\ revoked \subseteq Runs /\ stopped \subseteq Runs /\ misfired \subseteq Runs

TypeClock ==
  /\ lastSpawnAt \in [Cards \X Triggers -> {"never", "fresh", "old"}]
  /\ burst \in 0..RateMax
  /\ pumping \in BOOLEAN /\ retryTimer \in BOOLEAN
  /\ gateOpen \in GateValues /\ overloaded \in LoadValues /\ pace \in Paces

TypeOK == TypeRuns /\ TypeLocks /\ TypeMarks /\ TypeClock

\* The two counters pump() admits by are the runs that hold a slot: no path
\* of start(), finish() or forceRelease loses a slot or gives one back twice,
\* so the settings' caps bound the processes that exist.
SlotsCounted ==
  /\ running = Cardinality(In(Held)) /\ running <= MaxConcurrent
  /\ runningHeavy = Cardinality(InHeavy(Held)) /\ runningHeavy <= HeavyMax
  /\ running - runningHeavy <= LightMax

\* A card on which forceRelease took the lock of a run that was still about
\* to start.  That run's end frees whatever lock the card has by then, so the
\* next run's may do the same: such a card stays out for good.
Tainted(c) == \E r \in revoked : C(r) = c

\* Away from such cards the lock is exact: a locked card has one run between
\* the queue and its settle, registered in runMeta, and an unlocked card none
\* (engine.ts "Idempotent per card").
LockIsExact ==
  \A c \in Cards : ~Tainted(c) =>
     /\ c \in inFlight <=> \E r \in In(Active) : C(r) = c
     /\ \A r, s \in In(Active) : C(r) = c /\ C(s) = c => r = s
     /\ \A r \in In(Active) : C(r) = c => runMeta[c] = r

\* There the operator can also always reach the process: every spawned run
\* is the child forceRelease would kill.
LiveIsKillable ==
  \A r \in In(Spawned) : ~Tainted(C(r)) => children[C(r)] = r

\* On every card, even where the lock was taken from a starting run, two code
\* runs never work at once: the claim refuses the second one.
OneCodeRunPerCard ==
  \A r, s \in InHeavy(Spawned \cup {"creating", "assembling"}) :
     C(r) = C(s) => r = s

\* No work is stranded: when the engine is at rest, a queued run that pump()
\* would admit waits for an edge that will come - the end of a run or the
\* retry timer.  The operator's light runs do not wait at all.
NoStrandedWork ==
  Quiet => \A r \in Eligible(FALSE) \cup Eligible(TRUE) :
     /\ running > 0 \/ retryTimer
     /\ IsHeavy(r) \/ ~IsOperator(r)

\* The engine's own re-dispatches end: along a chain the fresh restarts never
\* shrink, and the turn-cap resumes grow between two restarts.
ChainDescends ==
  \A r \in Runs \ Unborn : job[r].parent # None =>
     LET p == job[job[r].parent]
     IN \/ job[r].falls > p.falls
        \/ job[r].falls = p.falls /\ job[r].turns > p.turns

\* Away from tainted cards the engine's re-dispatch is never refused: nothing
\* takes the lock between release() and the runSkill that follows it.
RedispatchAccepted ==
  \A r \in Runs : phase[r] = "left" => Tainted(C(r))

\* At the slow pace the board works on one automatic run at a time: none is
\* admitted while another is anywhere between admission and settle, away from
\* the cards whose lock was taken from a starting run.
SlowIsSerial ==
  [][\A r \in Runs :
       /\ phase[r] = "queued" /\ phase'[r] \in Held
       /\ ~IsOperator(r) /\ pace = "slow"
       => \A s \in In(Held) : IsOperator(s) \/ Tainted(C(s))]_vars

\* What the operator asked for leaves the queue, whatever the governor and
\* the pace say; only heavy work waits for an overloaded machine.
OperatorServed ==
  \A r \in Runs :
     (phase[r] = "queued" /\ IsOperator(r))
       ~> (phase[r] # "queued" \/ (IsHeavy(r) /\ overloaded))

\* A run that took a slot settles.
HeldRunsSettle == \A r \in Runs : (phase[r] \in Held) ~> (phase[r] \in Settled)

-----------------------------------------------------------------------------
(* What the comments promise and the code does not keep.                   *)

\* engine.ts: forceRelease flags a pending run "so its start() cancels cleanly
\* when its turn comes" - it never becomes a process.
ReleasedNeverSpawns == \A r \in revoked : phase[r] \notin Spawned

\* engine.ts: runSkill is "Idempotent per card (a second call while one is
\* in-flight is rejected)": leaving released runs aside, a card has one run.
IdempotentPerCard ==
  \A r, s \in In(Active) \ revoked : C(r) = C(s) => r = s

\* engine.ts: freeing the lock at once is meant so that "a re-trigger can
\* enqueue right now": the cancel mark is for the run that was released.
MarkHitsItsRun == misfired = {}

\* engine.ts: "a DELIBERATE operator cancel ... is its own terminal outcome":
\* only the watchdog's timeout outranks it, and neither starts a new run.
CancelIsTerminal == \A r \in stopped : phase[r] # "resumed"

\* engine.ts: the brake exists because "the run's own settle->cascade" of a
\* cancelled run "would otherwise re-engage the next threaded step".
BrakeHolds ==
  [][\A r \in Unborn, s \in stopped :
       /\ phase'[r] = "queued" /\ job'[r].origin = "autorun"
       /\ phase[s] = "cancelled" /\ job'[r].card = C(s)
       => C(s) \notin releasing]_vars
=============================================================================
