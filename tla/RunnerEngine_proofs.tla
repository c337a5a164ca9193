------------------------ MODULE RunnerEngine_proofs ------------------------
(***************************************************************************)
(* What holds of the runner engine for every set of cards and triggers,    *)
(* every lane setting and every number of runs: its variables keep their   *)
(* types, its slot counters are exact and stay within the settings, no two *)
(* code runs work on one card, the per-card lock is exact away from the    *)
(* cards it was taken from, continuations descend, the slow pace is serial *)
(* and no queued run is left without an edge that pumps.                   *)
(***************************************************************************)
EXTENDS RunnerEngine, FiniteSetTheorems, TLAPS

USE ConstantsAssumption, NoneAssumption

\* What TypeOK needs to be inductive: the lock has an owner in runMeta, and a
\* run that will be resumed is below the cap.
Owned == \A c \in inFlight : runMeta[c] # None
BelowCap == \A r \in Runs : phase[r] = "resuming" => job[r].turns < ResumeMax

TypeInv == TypeOK /\ Owned /\ BelowCap

\* The born runs' jobs are jobs.
LEMMA JobTyped ==
  ASSUME TypeRuns, NEW r \in Runs, phase[r] # "unborn"
  PROVE  /\ job[r] \in Job /\ C(r) \in Cards /\ job[r].trigger \in Triggers
         /\ job[r].origin \in AllOrigins
         /\ job[r].resume \in BOOLEAN /\ job[r].turns \in 0..ResumeMax
         /\ job[r].falls \in 0..FallbackMax
BY DEF TypeRuns, Job, C

\* A born run's phase change is typed.
LEMMA PhaseTyped ==
  ASSUME TypeRuns, NEW r \in Runs, NEW p \in Phases \ {"unborn"},
         phase[r] # "unborn", phase' = [phase EXCEPT ![r] = p],
         job' = job
  PROVE  TypeRuns'
BY DEF TypeRuns

LEMMA TypeInit == Init => TypeInv
<1> SUFFICES ASSUME Init PROVE TypeInv
  OBVIOUS
<1>1. TypeRuns
  BY DEF Init, Phases, TypeRuns
<1>2. TypeLocks
  BY DEF Init, TypeLocks
<1>3. TypeMarks
  BY DEF Init, TypeMarks
<1>4. TypeClock
  <2>1. lastSpawnAt \in [Cards \X Triggers -> {"never", "fresh", "old"}]
    BY Zenon DEF Init
  <2>2. burst \in 0..RateMax
    BY DEF Init
  <2> QED BY <2>1, <2>2 DEF Init, TypeClock
<1> QED BY <1>1, <1>2, <1>3, <1>4 DEF Init, TypeOK, TypeInv, Owned, BelowCap

-----------------------------------------------------------------------------
(* Type correctness, action by action.                                     *)

\* Steps that change no type-relevant variable but the phase of a born run,
\* which does not become "resuming".
LEMMA PhaseStep ==
  ASSUME TypeInv, NEW r \in Runs, NEW p \in Phases \ {"unborn", "resuming"},
         phase[r] # "unborn", phase' = [phase EXCEPT ![r] = p],
         job' = job, Owned'
  PROVE  TypeRuns' /\ BelowCap'
<1>1. TypeRuns'
  BY PhaseTyped DEF TypeInv, TypeOK
<1>2. BelowCap'
  BY DEF TypeInv, TypeOK, TypeRuns, BelowCap
<1> QED BY <1>1, <1>2

\* release() keeps the locks typed and owned.
LEMMA UnlockTyped ==
  ASSUME TypeInv, NEW r \in Runs, phase[r] # "unborn", Unlock(r),
         running' \in Int, runningHeavy' \in Int
  PROVE  TypeLocks' /\ Owned' /\ pumping' = TRUE
<1>1. C(r) \in Cards
  BY JobTyped DEF TypeInv, TypeOK
<1>2. /\ inFlight' \subseteq Cards /\ claims' \subseteq Runs
      /\ children' \in [Cards -> Runs \cup {None}]
      /\ runMeta' \in [Cards -> Runs \cup {None}]
  BY <1>1 DEF TypeInv, TypeOK, TypeLocks, Unlock
<1>3. Owned'
  BY <1>1 DEF TypeInv, TypeOK, TypeLocks, Owned, Unlock
<1> QED BY <1>2, <1>3 DEF TypeLocks, Unlock

LEMMA GiveTyped ==
  ASSUME TypeInv, NEW r \in Runs, Give(r)
  PROVE  running' \in Int /\ runningHeavy' \in Int
BY DEF TypeInv, TypeOK, TypeLocks, Give

\* runSkill's own effect.
LEMMA RunSkillTyped ==
  ASSUME TypeInv, NEW r \in Runs, NEW j \in Job, NEW w \in BOOLEAN,
         Accepts(j, w), RunSkill(r, j, w),
         UNCHANGED <<slotVars, children, claims>>
  PROVE  /\ job' = [job EXCEPT ![r] = j]
         /\ TypeLocks' /\ Owned'
         /\ lastSpawnAt' \in [Cards \X Triggers -> {"never", "fresh", "old"}]
         /\ burst' \in 0..RateMax /\ braked' \subseteq Cards
         /\ pumping' = TRUE
<1>1. j.card \in Cards /\ j.trigger \in Triggers
  BY DEF Job
<1>2. TypeLocks' /\ Owned'
  BY <1>1 DEF TypeInv, TypeOK, TypeLocks, Owned, RunSkill, slotVars
<1>3. lastSpawnAt' \in [Cards \X Triggers -> {"never", "fresh", "old"}]
  BY <1>1 DEF TypeInv, TypeOK, TypeClock, RunSkill
<1>4. burst' \in 0..RateMax
  BY DEF TypeInv, TypeOK, TypeClock, RunSkill, Accepts
<1>5. braked' \subseteq Cards
  BY DEF TypeInv, TypeOK, TypeMarks, RunSkill
<1> QED BY <1>2, <1>3, <1>4, <1>5 DEF RunSkill

LEMMA RequestTyped ==
  ASSUME TypeInv, NEW r \in Runs, NEW j \in Job, NEW w \in BOOLEAN,
         Request(r, j, w)
  PROVE  TypeInv'
<1>1. /\ job' = [job EXCEPT ![r] = j] /\ TypeLocks' /\ Owned'
      /\ lastSpawnAt' \in [Cards \X Triggers -> {"never", "fresh", "old"}]
      /\ burst' \in 0..RateMax /\ braked' \subseteq Cards /\ pumping' = TRUE
  BY RunSkillTyped DEF Request
<1>2. TypeRuns'
  BY <1>1 DEF TypeInv, TypeOK, TypeRuns, Request, Phases
<1>3. TypeMarks'
  BY <1>1 DEF TypeInv, TypeOK, TypeMarks, Request, history
<1>4. TypeClock'
  BY <1>1 DEF TypeInv, TypeOK, TypeClock, Request, envVars
<1>5. BelowCap'
  BY <1>1 DEF TypeInv, TypeOK, TypeRuns, BelowCap, Request
<1> QED BY <1>1, <1>2, <1>3, <1>4, <1>5 DEF TypeInv, TypeOK

\* What a request asks for is a job.
LEMMA AskedJob ==
  ASSUME Ask
  PROVE  \E r \in Runs, j \in Job, w \in BOOLEAN : Request(r, j, w)
<1>1. PICK r \in Runs, c \in Cards, t \in Triggers, o \in Origins :
         \/ Enqueue(r, c, t, o)
         \/ \E n \in 0..ResumeMax, f \in 0..FallbackMax :
              Recover(r, c, t, o, n, f)
  BY DEF Ask
<1>2. Fresh(c, t, o) \in Job
  <2>1. o \in AllOrigins /\ 0 \in 0..ResumeMax /\ 0 \in 0..FallbackMax
    OBVIOUS
  <2> QED BY <2>1 DEF Fresh, Job
<1>3. CASE Enqueue(r, c, t, o)
  BY <1>2, <1>3 DEF Enqueue
<1>4. ASSUME NEW n \in 0..ResumeMax, NEW f \in 0..FallbackMax,
             Recover(r, c, t, o, n, f)
      PROVE  \E q \in Runs, j \in Job, w \in BOOLEAN : Request(q, j, w)
  <2> DEFINE j == [Fresh(c, t, o) EXCEPT !.resume = TRUE, !.turns = n,
                                         !.falls = f]
  <2>1. j \in Job
    BY <1>2 DEF Job
  <2>2. Request(r, j, TRUE)
    BY <1>4 DEF Recover
  <2> QED BY <2>1, <2>2
<1> QED BY <1>1, <1>3, <1>4

LEMMA AskTyped ==
  ASSUME TypeInv, Ask
  PROVE  TypeInv'
BY AskedJob, RequestTyped

\* Steps that only move flags and counters, runs and locks untouched.
LEMMA MarksTyped ==
  ASSUME TypeInv, UNCHANGED <<job, phase, slotVars, lockVars>>,
         TypeMarks', TypeClock'
  PROVE  TypeInv'
BY DEF TypeInv, TypeOK, TypeRuns, TypeLocks, Owned, BelowCap, slotVars, lockVars

LEMMA SurroundingsTyped ==
  ASSUME TypeInv, Surroundings \/ PumpStops \/ RetryTimerFires
  PROVE  TypeInv'
<1> USE DEF TypeInv, TypeOK
<1>1. CASE PumpStops
  BY <1>1, MarksTyped
     DEF PumpStops, TypeMarks, TypeClock, history, envVars
<1>2. CASE RetryTimerFires
  BY <1>2, MarksTyped
     DEF RetryTimerFires, TypeMarks, TypeClock, history, envVars
<1>3. ASSUME NEW c \in Cards, ArmBrake(c) \/ BrakeLifts(c)
      PROVE  TypeInv'
  BY <1>3, MarksTyped
     DEF ArmBrake, BrakeLifts, TypeMarks, TypeClock, history, envVars
<1>4. CASE WindowsPass
  <2>1. lastSpawnAt' \in [Cards \X Triggers -> {"never", "fresh", "old"}]
    BY <1>4 DEF WindowsPass, TypeClock
  <2> QED
    BY <1>4, <2>1, MarksTyped
       DEF WindowsPass, TypeMarks, TypeClock, history, envVars
<1>5. CASE LoadMoves
  BY <1>5, MarksTyped DEF LoadMoves, TypeMarks, TypeClock, history, envVars
<1>6. CASE PaceMoves
  BY <1>6, MarksTyped DEF PaceMoves, TypeMarks, TypeClock, history, envVars
<1>7. ASSUME NEW b \in BOOLEAN, GateMoves(b)
      PROVE  TypeInv'
  BY <1>7, MarksTyped DEF GateMoves, TypeMarks, TypeClock, history, envVars
<1> QED BY <1>1, <1>2, <1>3, <1>4, <1>5, <1>6, <1>7 DEF Surroundings

LEMMA CancelTyped ==
  ASSUME TypeInv, NEW c \in Cards, ReleaseLive(c) \/ ReleasePending(c)
  PROVE  TypeInv'
<1> USE DEF TypeInv, TypeOK
<1>1. CASE ReleaseLive(c)
  <2>1. children[c] \in Runs
    BY <1>1 DEF ReleaseLive, TypeLocks
  <2> QED
    BY <1>1, <2>1, MarksTyped
       DEF ReleaseLive, TypeMarks, TypeClock, history, envVars
<1>2. CASE ReleasePending(c)
  <2>1. runMeta[c] \in Runs
    BY <1>2 DEF ReleasePending, TypeLocks, Owned
  <2>2. lastSpawnAt' \in [Cards \X Triggers -> {"never", "fresh", "old"}]
    BY <1>2 DEF ReleasePending, TypeClock
  <2>3. TypeRuns' /\ BelowCap'
    BY <1>2 DEF ReleasePending, TypeRuns, BelowCap
  <2>4. TypeLocks' /\ Owned'
    BY <1>2 DEF ReleasePending, TypeLocks, Owned, slotVars
  <2>5. TypeMarks'
    BY <1>2, <2>1 DEF ReleasePending, TypeMarks
  <2>6. TypeClock'
    BY <1>2, <2>2 DEF ReleasePending, TypeClock, envVars
  <2> QED BY <2>3, <2>4, <2>5, <2>6
<1> QED BY <1>1, <1>2

\* A teardown: the slot is given back, the card unlocked, the run settled.
LEMMA DropTyped ==
  ASSUME TypeInv, NEW r \in Runs, phase[r] # "unborn",
         NEW how \in Settled, Drop(r, how),
         cancelled' \subseteq Cards, UNCHANGED cancelledKills,
         misfired' \subseteq Runs
  PROVE  TypeInv'
<1>1. TypeLocks' /\ Owned' /\ pumping' = TRUE
  BY UnlockTyped, GiveTyped DEF Drop
<1>2. TypeRuns' /\ BelowCap'
  BY <1>1, PhaseStep DEF Drop, Phases, Settled
<1>3. TypeMarks'
  BY DEF TypeInv, TypeOK, TypeMarks, Drop
<1>4. TypeClock'
  BY <1>1 DEF TypeInv, TypeOK, TypeClock, Drop, envVars
<1> QED BY <1>1, <1>2, <1>3, <1>4 DEF TypeInv, TypeOK

LEMMA SettleTyped ==
  ASSUME TypeInv, NEW r \in Runs, phase[r] # "unborn",
         NEW how \in Settled \cup {"resuming"}, NEW f \in BOOLEAN,
         how = "resuming" => job[r].turns < ResumeMax,
         Settle(r, how, f)
  PROVE  TypeInv'
<1>1. TypeLocks' /\ Owned' /\ pumping' = TRUE
  BY UnlockTyped, GiveTyped DEF Settle
<1>2. TypeRuns'
  BY PhaseTyped DEF TypeInv, TypeOK, Settle, Phases, Settled, Redispatching
<1>3. BelowCap'
  BY DEF TypeInv, TypeOK, TypeRuns, BelowCap, Settle
<1>4. TypeMarks'
  BY JobTyped DEF TypeInv, TypeOK, TypeMarks, Settle, history
<1>5. TypeClock'
  BY <1>1 DEF TypeInv, TypeOK, TypeClock, Settle, envVars
<1> QED BY <1>1, <1>2, <1>3, <1>4, <1>5 DEF TypeInv, TypeOK

\* A run moves to another phase and only the slots, the claims or the marks
\* move with it.
LEMMA AdvanceTyped ==
  ASSUME TypeInv, NEW r \in Runs, phase[r] # "unborn",
         NEW p \in Phases \ {"unborn", "resuming"},
         phase' = [phase EXCEPT ![r] = p],
         UNCHANGED <<job, inFlight, runMeta, lastSpawnAt, burst, pumping,
                     retryTimer, envVars>>,
         running' \in Int, runningHeavy' \in Int,
         claims' \subseteq Runs, children' \in [Cards -> Runs \cup {None}],
         TypeMarks'
  PROVE  TypeInv'
<1>1. TypeLocks' /\ Owned'
  BY DEF TypeInv, TypeOK, TypeLocks, Owned
<1>2. TypeRuns' /\ BelowCap'
  BY <1>1, PhaseStep
<1>3. TypeClock'
  BY DEF TypeInv, TypeOK, TypeClock, envVars
<1> QED BY <1>1, <1>2, <1>3 DEF TypeInv, TypeOK

\* Steps from the queue to the spawn.
LEMMA StartTyped ==
  ASSUME TypeInv, NEW r \in Runs,
         \/ PumpAdmits(r) \/ PumpCancels(r)
         \/ \E how \in {"cancelled", "no-op"} : SettlesUnspawned(r, how)
         \/ Reserves(r) \/ TreeReady(r) \/ LaunchFails(r) \/ Spawns(r)
  PROVE  TypeInv'
<1> USE DEF Phases, Held, Launching, Spawned, Settled
<1>1. CASE PumpAdmits(r)
  <2>1. phase[r] # "unborn"
    BY <1>1 DEF PumpAdmits, Picked, First, Eligible, Admissible
  <2>2. running' \in Int /\ runningHeavy' \in Int
    BY <1>1 DEF PumpAdmits, Take, TypeInv, TypeOK, TypeLocks
  <2> QED
    BY <1>1, <2>1, <2>2, AdvanceTyped
       DEF PumpAdmits, TypeInv, TypeOK, TypeLocks, TypeMarks, lockVars, history
<1>2. CASE PumpCancels(r)
  <2>1. phase[r] # "unborn"
    BY <1>2 DEF PumpCancels, Picked, First, Eligible, Admissible
  <2>2. running' \in Int /\ runningHeavy' \in Int
    BY <1>2 DEF PumpCancels, slotVars, TypeInv, TypeOK, TypeLocks
  <2>3. TypeLocks' /\ Owned' /\ pumping' = TRUE
    BY <1>2, <2>1, <2>2, UnlockTyped DEF PumpCancels
  <2>4. TypeRuns' /\ BelowCap'
    BY <1>2, <2>1, <2>3, PhaseStep DEF PumpCancels
  <2>5. TypeMarks'
    BY <1>2 DEF PumpCancels, MarkHit, TypeInv, TypeOK, TypeMarks
  <2>6. TypeClock'
    BY <1>2, <2>3 DEF PumpCancels, TypeInv, TypeOK, TypeClock, envVars
  <2> QED BY <2>3, <2>4, <2>5, <2>6 DEF TypeInv, TypeOK
<1>3. ASSUME NEW how \in {"cancelled", "no-op"}, SettlesUnspawned(r, how)
      PROVE  TypeInv'
  BY <1>3, DropTyped DEF SettlesUnspawned, TypeInv, TypeOK, TypeMarks
<1>4. CASE Reserves(r)
  BY <1>4, AdvanceTyped
     DEF Reserves, TypeInv, TypeOK, TypeLocks, TypeMarks, slotVars, history
<1>5. CASE TreeReady(r)
  <2>1. CASE C(r) \in cancelled
    BY <1>5, <2>1, DropTyped
       DEF TreeReady, MarkHit, TypeInv, TypeOK, TypeMarks
  <2>2. CASE C(r) \notin cancelled
    BY <1>5, <2>2, AdvanceTyped
       DEF TreeReady, TypeInv, TypeOK, TypeLocks, TypeMarks, slotVars,
           lockVars, history
  <2> QED BY <2>1, <2>2
<1>6. CASE LaunchFails(r)
  BY <1>6, DropTyped DEF LaunchFails, TypeInv, TypeOK, TypeMarks
<1>7. CASE Spawns(r)
  <2>1. C(r) \in Cards
    BY <1>7, JobTyped DEF Spawns, TypeInv, TypeOK
  <2> QED
    BY <1>7, <2>1, AdvanceTyped
       DEF Spawns, TypeInv, TypeOK, TypeLocks, TypeMarks, slotVars, history
<1> QED BY <1>1, <1>2, <1>3, <1>4, <1>5, <1>6, <1>7

\* Steps of the child's close, up to the settle.
LEMMA CloseTyped ==
  ASSUME TypeInv, NEW r \in Runs,
         \/ CloseCancelled(r) \/ CloseClean(r) \/ CloseSessionLost(r)
         \/ CloseTimedOut(r) \/ JudgedResumable(r)
         \/ \E b \in BOOLEAN : CloseForJudgement(r, b) \/ Judged(r, b)
  PROVE  TypeInv'
<1> USE DEF Phases, Held, Launching, Spawned, Settled, Redispatching
<1>1. CASE CloseCancelled(r)
  BY <1>1, SettleTyped DEF CloseCancelled, Closes
<1>2. CASE CloseClean(r)
  BY <1>2, SettleTyped DEF CloseClean, Closes
<1>3. CASE CloseSessionLost(r)
  <2>1. phase[r] # "unborn"
    BY <1>3 DEF CloseSessionLost, Closes
  <2>2. C(r) \in Cards /\ FallsUsed(r) \in 0..FallbackMax
    BY <2>1, JobTyped DEF TypeInv, TypeOK, TypeMarks, FallsUsed
  <2>3. fallbackCount' \in [Cards -> 0..FallbackMax]
    BY <1>3, <2>2 DEF CloseSessionLost, TypeInv, TypeOK, TypeMarks
  <2>4. TypeLocks' /\ Owned' /\ pumping' = TRUE
    BY <1>3, <2>1, UnlockTyped, GiveTyped DEF CloseSessionLost
  <2>5. TypeRuns' /\ BelowCap'
    BY <1>3, <2>1, <2>4, PhaseStep DEF CloseSessionLost
  <2>6. TypeMarks' /\ TypeClock'
    BY <1>3, <2>3, <2>4
       DEF CloseSessionLost, TypeInv, TypeOK, TypeMarks, TypeClock, envVars,
           history
  <2> QED BY <2>4, <2>5, <2>6 DEF TypeInv, TypeOK
<1>4. CASE CloseTimedOut(r)
  BY <1>4, AdvanceTyped
     DEF CloseTimedOut, Closes, TypeInv, TypeOK, TypeLocks, TypeMarks,
         slotVars, lockVars, history
<1>5. CASE JudgedResumable(r)
  BY <1>5, SettleTyped DEF JudgedResumable
<1>6. ASSUME NEW b \in BOOLEAN, CloseForJudgement(r, b)
      PROVE  TypeInv'
  <2>1. phase[r] # "unborn"
    BY <1>6 DEF CloseForJudgement, Closes
  <2>2. fallbackCount' \in [Cards -> 0..FallbackMax]
    <3>1. /\ fallbackCount \in [Cards -> 0..FallbackMax]
          /\ 0 \in 0..FallbackMax
      BY DEF TypeInv, TypeOK, TypeMarks
    <3>2. CASE b
      BY <1>6, <3>1, <3>2 DEF CloseForJudgement
    <3>3. CASE ~b
      BY <1>6, <3>1, <3>3 DEF CloseForJudgement
    <3> QED BY <3>2, <3>3
  <2> QED
    BY <1>6, <2>1, <2>2, AdvanceTyped
       DEF CloseForJudgement, TypeInv, TypeOK, TypeLocks, TypeMarks, slotVars,
           lockVars, history
<1>7. ASSUME NEW b \in BOOLEAN, Judged(r, b)
      PROVE  TypeInv'
  <2> DEFINE how == IF b THEN "ok" ELSE "failed"
  <2>1. Settle(r, how, ~b) /\ phase[r] # "unborn"
    BY <1>7 DEF Judged
  <2> QED BY <2>1, SettleTyped
<1> QED BY <1>1, <1>2, <1>3, <1>4, <1>5, <1>6, <1>7

LEMMA ContinuationTyped ==
  ASSUME TypeInv, NEW r \in Runs, phase[r] \in Redispatching
  PROVE  Continuation(r) \in Job
<1>1. job[r] \in Job /\ C(r) \in Cards
  BY JobTyped DEF TypeInv, TypeOK, Redispatching
<1>2. CASE phase[r] = "resuming"
  <2>1. job[r].turns + 1 \in 0..ResumeMax
    BY <1>1, <1>2 DEF TypeInv, BelowCap, Job
  <2> QED BY <1>1, <1>2, <2>1 DEF Continuation, Job
<1>3. CASE phase[r] # "resuming"
  <2>1. fallbackCount[C(r)] \in 0..FallbackMax
    BY <1>1 DEF TypeInv, TypeOK, TypeMarks
  <2>2. 0 \in 0..ResumeMax
    OBVIOUS
  <2> QED BY <1>1, <1>3, <2>1, <2>2 DEF Continuation, Job
<1> QED BY <1>2, <1>3

LEMMA RedispatchTyped ==
  ASSUME TypeInv, NEW r \in Runs, NEW n \in Runs, Redispatch(r, n)
  PROVE  TypeInv'
<1> USE DEF Phases, Held, Launching, Spawned, Settled, Redispatching
<1> DEFINE j == Continuation(r)
           done == IF phase[r] = "resuming" THEN "resumed" ELSE "restarted"
           refused == IF phase[r] = "resuming" THEN "left" ELSE "failed"
<1>1. j \in Job /\ phase[r] # "unborn" /\ phase[n] = "unborn" /\ n # r
  BY ContinuationTyped DEF Redispatch, NextBorn, Unborn, In
<1>2. CASE Accepts(j, FALSE)
  <2>1. /\ RunSkill(n, j, FALSE)
        /\ phase' = [phase EXCEPT ![r] = done, ![n] = "queued"]
        /\ UNCHANGED <<slotVars, children, claims>>
    BY <1>2 DEF Redispatch
  <2>2. /\ job' = [job EXCEPT ![n] = j] /\ TypeLocks' /\ Owned'
        /\ lastSpawnAt' \in [Cards \X Triggers -> {"never", "fresh", "old"}]
        /\ burst' \in 0..RateMax /\ braked' \subseteq Cards
        /\ pumping' = TRUE
    BY <1>1, <1>2, <2>1, RunSkillTyped
  <2>3. TypeRuns'
    BY <1>1, <2>1, <2>2 DEF TypeInv, TypeOK, TypeRuns
  <2>4. BelowCap'
    BY <1>1, <2>1, <2>2 DEF TypeInv, TypeOK, TypeRuns, BelowCap
  <2>5. TypeMarks' /\ TypeClock'
    BY <2>2 DEF Redispatch, TypeInv, TypeOK, TypeMarks, TypeClock, envVars,
                history
  <2> QED BY <2>2, <2>3, <2>4, <2>5 DEF TypeInv, TypeOK
<1>3. CASE ~Accepts(j, FALSE)
  <2>1. /\ phase' = [phase EXCEPT ![r] = refused]
        /\ UNCHANGED <<job, lockVars, lastSpawnAt, burst, braked, pumping>>
    BY <1>3 DEF Redispatch
  <2> QED
    BY <1>1, <2>1, AdvanceTyped
       DEF Redispatch, TypeInv, TypeOK, TypeLocks, TypeMarks, slotVars,
           lockVars, history
<1> QED BY <1>2, <1>3

LEMMA TypeStep == TypeInv /\ [Next]_vars => TypeInv'
<1> SUFFICES ASSUME TypeInv, [Next]_vars PROVE TypeInv'
  OBVIOUS
<1>1. ASSUME NEW r \in Runs, RunStep(r)
      PROVE  TypeInv'
  BY <1>1, StartTyped, CloseTyped, RedispatchTyped DEF RunStep
<1>2. CASE PumpStops \/ RetryTimerFires \/ Surroundings
  BY <1>2, SurroundingsTyped
<1>3. CASE Ask
  BY <1>3, AskTyped
<1>4. CASE Cancel
  BY <1>4, CancelTyped DEF Cancel
<1>5. CASE UNCHANGED vars
  BY <1>5, MarksTyped
     DEF vars, TypeInv, TypeOK, TypeMarks, TypeClock, envVars, history
<1> QED BY <1>1, <1>2, <1>3, <1>4, <1>5 DEF Next

\* engine.ts's fields keep their shape in every reachable state.
THEOREM TypeCorrect == Spec => []TypeOK
<1>1. Init => TypeInv
  BY TypeInit
<1>2. TypeInv /\ [Next]_vars => TypeInv'
  BY TypeStep
<1>3. TypeInv => TypeOK
  BY DEF TypeInv
<1> QED BY <1>1, <1>2, <1>3, PTL DEF Spec

-----------------------------------------------------------------------------
(* The slot counters: a step either leaves the set of slot holders alone,  *)
(* takes one run out of it, or admits one.                                 *)

LEMMA HoldersFinite ==
  ASSUME NEW S
  PROVE  IsFiniteSet(In(S)) /\ IsFiniteSet(InHeavy(S))
<1>1. IsFiniteSet(Runs)
  BY FS_Interval DEF Runs
<1>2. In(S) \in SUBSET Runs /\ InHeavy(S) \in SUBSET Runs
  BY DEF In, InHeavy
<1> QED BY <1>1, <1>2, FS_Subset

LEMMA HoldersKept ==
  ASSUME SlotsCounted, UNCHANGED slotVars,
         \A s \in Runs : phase'[s] \in Held <=> phase[s] \in Held,
         \A s \in In(Held) : job'[s] = job[s]
  PROVE  SlotsCounted'
<1>1. In(Held)' = In(Held) /\ InHeavy(Held)' = InHeavy(Held)
  BY DEF In, InHeavy, IsHeavy
<1> QED BY <1>1 DEF SlotsCounted, slotVars

LEMMA HolderLeaves ==
  ASSUME TypeInv, SlotsCounted, NEW r \in Runs, NEW p,
         phase[r] \in Held, p \notin Held,
         phase' = [phase EXCEPT ![r] = p], job' = job, Give(r)
  PROVE  SlotsCounted'
<1>1. phase \in [Runs -> Phases]
  BY DEF TypeInv, TypeOK, TypeRuns
<1>2. In(Held)' = In(Held) \ {r} /\ InHeavy(Held)' = InHeavy(Held) \ {r}
  BY <1>1 DEF In, InHeavy, IsHeavy
<1>3. r \in In(Held) /\ (r \in InHeavy(Held) <=> IsHeavy(r))
  BY DEF In, InHeavy
<1>4. /\ Cardinality(In(Held)') = Cardinality(In(Held)) - 1
      /\ Cardinality(InHeavy(Held)') =
           Cardinality(InHeavy(Held)) - (IF IsHeavy(r) THEN 1 ELSE 0)
      /\ Cardinality(InHeavy(Held)) \in Nat /\ Cardinality(In(Held)) \in Nat
  BY <1>2, <1>3, HoldersFinite, FS_RemoveElement, FS_CardinalityType
<1> QED BY <1>4 DEF SlotsCounted, Give

LEMMA HolderEnters ==
  ASSUME TypeInv, SlotsCounted, NEW r \in Runs, PumpAdmits(r)
  PROVE  SlotsCounted'
<1>1. phase \in [Runs -> Phases]
  BY DEF TypeInv, TypeOK, TypeRuns
<1>2. /\ phase[r] = "queued" /\ running < MaxConcurrent
      /\ IsHeavy(r) => runningHeavy < HeavyMax
      /\ ~IsHeavy(r) => running - runningHeavy < LightMax
  BY DEF PumpAdmits, Picked, First, Eligible, Admissible
<1>3. /\ phase' = [phase EXCEPT ![r] = "preparing"] /\ job' = job
      /\ running' = running + 1
      /\ runningHeavy' = runningHeavy + (IF IsHeavy(r) THEN 1 ELSE 0)
  BY DEF PumpAdmits, Take
<1>4. "queued" \notin Held /\ "preparing" \in Held
  BY DEF Held, Launching, Spawned
<1>5. /\ In(Held)' = In(Held) \cup {r}
      /\ InHeavy(Held)' = IF IsHeavy(r) THEN InHeavy(Held) \cup {r}
                          ELSE InHeavy(Held)
  BY <1>1, <1>2, <1>3, <1>4 DEF In, InHeavy, IsHeavy
<1>6. r \notin In(Held) /\ r \notin InHeavy(Held)
  BY <1>2, <1>4 DEF In, InHeavy
<1>7. IsFiniteSet(In(Held)) /\ IsFiniteSet(InHeavy(Held))
  BY HoldersFinite
<1>8. Cardinality(In(Held)') = Cardinality(In(Held)) + 1
  BY <1>5, <1>6, <1>7, FS_AddElement
<1>9. Cardinality(InHeavy(Held)') =
        Cardinality(InHeavy(Held)) + (IF IsHeavy(r) THEN 1 ELSE 0)
  <2>1. CASE IsHeavy(r)
    BY <1>5, <1>6, <1>7, <2>1, FS_AddElement
  <2>2. CASE ~IsHeavy(r)
    BY <1>5, <1>7, <2>2, FS_CardinalityType
  <2> QED BY <2>1, <2>2
<1>10. Cardinality(InHeavy(Held)) \in Nat /\ Cardinality(In(Held)) \in Nat
  BY <1>7, FS_CardinalityType
<1> QED BY <1>2, <1>3, <1>8, <1>9, <1>10 DEF SlotsCounted

\* One step of a run, by what it does to the holders.
LEMMA RunKeepsCount ==
  ASSUME TypeInv, SlotsCounted, NEW r \in Runs, RunStep(r)
  PROVE  SlotsCounted'
<1> USE DEF Held, Launching, Spawned
<1>1. CASE PumpAdmits(r)
  BY <1>1, HolderEnters
<1>2. CASE PumpCancels(r)
  BY <1>2, HoldersKept
     DEF PumpCancels, Picked, First, Eligible, Admissible, TypeInv, TypeOK,
         TypeRuns
<1>3. ASSUME NEW how \in {"cancelled", "no-op"}, SettlesUnspawned(r, how)
      PROVE  SlotsCounted'
  BY <1>3, HolderLeaves DEF SettlesUnspawned, Drop
<1>4. CASE Reserves(r) \/ Spawns(r) \/ CloseTimedOut(r)
  BY <1>4, HoldersKept
     DEF Reserves, Spawns, CloseTimedOut, Closes, TypeInv, TypeOK, TypeRuns
<1>5. CASE TreeReady(r)
  <2>1. CASE C(r) \in cancelled
    BY <1>5, <2>1, HolderLeaves DEF TreeReady, Drop
  <2>2. CASE C(r) \notin cancelled
    BY <1>5, <2>2, HoldersKept DEF TreeReady, TypeInv, TypeOK, TypeRuns
  <2> QED BY <2>1, <2>2
<1>6. CASE LaunchFails(r)
  BY <1>6, HolderLeaves DEF LaunchFails, Drop
<1>7. CASE CloseCancelled(r) \/ CloseClean(r) \/ JudgedResumable(r)
  BY <1>7, HolderLeaves
     DEF CloseCancelled, CloseClean, JudgedResumable, Closes, Settle
<1>8. CASE CloseSessionLost(r)
  BY <1>8, HolderLeaves DEF CloseSessionLost, Closes
<1>9. ASSUME NEW b \in BOOLEAN, CloseForJudgement(r, b)
      PROVE  SlotsCounted'
  BY <1>9, HoldersKept
     DEF CloseForJudgement, Closes, TypeInv, TypeOK, TypeRuns
<1>10. ASSUME NEW b \in BOOLEAN, Judged(r, b)
       PROVE  SlotsCounted'
  <2>1. /\ phase[r] \in Held /\ job' = job /\ Give(r)
        /\ phase' = [phase EXCEPT ![r] = IF b THEN "ok" ELSE "failed"]
    BY <1>10 DEF Judged, Settle
  <2> QED BY <2>1, HolderLeaves
<1>11. ASSUME NEW n \in Runs, Redispatch(r, n)
       PROVE  SlotsCounted'
  <2>1. phase[n] = "unborn" /\ phase[r] \in Redispatching /\ UNCHANGED slotVars
    BY <1>11 DEF Redispatch, NextBorn, Unborn, In
  <2>2. CASE Accepts(Continuation(r), FALSE)
    BY <1>11, <2>1, <2>2, HoldersKept
       DEF Redispatch, RunSkill, Redispatching, In, TypeInv, TypeOK, TypeRuns
  <2>3. CASE ~Accepts(Continuation(r), FALSE)
    BY <1>11, <2>1, <2>3, HoldersKept
       DEF Redispatch, Redispatching, TypeInv, TypeOK, TypeRuns
  <2> QED BY <2>2, <2>3
<1> QED BY <1>1, <1>2, <1>3, <1>4, <1>5, <1>6, <1>7, <1>8, <1>9, <1>10, <1>11
        DEF RunStep

\* The steps that are not a run's own.
LEMMA OthersKeepCount ==
  ASSUME TypeInv, SlotsCounted,
         PumpStops \/ RetryTimerFires \/ Ask \/ Cancel \/ Surroundings
           \/ UNCHANGED vars
  PROVE  SlotsCounted'
<1>1. CASE Ask
  <2>1. ASSUME NEW r \in Runs, NEW j, NEW w, Request(r, j, w)
        PROVE  SlotsCounted'
    BY <2>1, HoldersKept
       DEF Request, RunSkill, NextBorn, Unborn, In, Held, Launching, Spawned,
           TypeInv, TypeOK, TypeRuns
  <2> QED BY <1>1, <2>1 DEF Ask, Enqueue, Recover
<1>2. CASE ~Ask
  <2>1. UNCHANGED <<job, phase, slotVars>>
    BY <1>2 DEF Cancel, ReleaseLive, ReleasePending, PumpStops,
       RetryTimerFires, Surroundings, ArmBrake, BrakeLifts, WindowsPass,
       LoadMoves, PaceMoves, GateMoves, vars
  <2> QED BY <2>1, HoldersKept
<1> QED BY <1>1, <1>2

\* running and runningHeavy are the runs between admission and settle, and
\* they never exceed the settings: no path of start(), finish() or
\* forceRelease leaks a slot or frees it twice.
THEOREM SlotsAreCounted == Spec => []SlotsCounted
<1>1. Init => TypeInv /\ SlotsCounted
  <2> SUFFICES ASSUME Init PROVE SlotsCounted
    BY TypeInit
  <2>1. In(Held) = {} /\ InHeavy(Held) = {}
    BY DEF Init, In, InHeavy, Held, Launching, Spawned
  <2> QED BY <2>1, FS_EmptySet DEF Init, SlotsCounted
<1>2. (TypeInv /\ SlotsCounted) /\ [Next]_vars => (TypeInv /\ SlotsCounted)'
  BY TypeStep, RunKeepsCount, OthersKeepCount DEF Next
<1> QED BY <1>1, <1>2, PTL DEF Spec

-----------------------------------------------------------------------------
(* One code run per card.  The lock does not give it (forceRelease can take *)
(* it from a run that is starting); the claims do.                         *)

Claimed == {"creating", "assembling"} \cup Spawned

\* A run holds a claim exactly from its acquire to its teardown, and the
\* claims that stand together do not conflict.
ClaimInv ==
  /\ claims = In(Claimed)
  /\ \A r, s \in claims : C(r) = C(s) /\ IsHeavy(r) /\ IsHeavy(s) => r = s

LEMMA ClaimsKept ==
  ASSUME ClaimInv, UNCHANGED claims,
         \A s \in Runs : phase'[s] \in Claimed <=> phase[s] \in Claimed,
         \A s \in claims : job'[s] = job[s]
  PROVE  ClaimInv'
<1>1. In(Claimed)' = In(Claimed)
  BY DEF In
<1> QED BY <1>1 DEF ClaimInv, C, IsHeavy

LEMMA ClaimLeaves ==
  ASSUME TypeInv, ClaimInv, NEW r \in Runs, NEW p, p \notin Claimed,
         phase' = [phase EXCEPT ![r] = p], job' = job, claims' = claims \ {r}
  PROVE  ClaimInv'
<1>1. phase \in [Runs -> Phases]
  BY DEF TypeInv, TypeOK, TypeRuns
<1>2. In(Claimed)' = In(Claimed) \ {r}
  BY <1>1 DEF In
<1> QED BY <1>2 DEF ClaimInv, C, IsHeavy

LEMMA ClaimEnters ==
  ASSUME TypeInv, ClaimInv, NEW r \in Runs, Reserves(r)
  PROVE  ClaimInv'
<1>1. phase \in [Runs -> Phases]
  BY DEF TypeInv, TypeOK, TypeRuns
<1>2. /\ job' = job /\ claims' = claims \cup {r}
      /\ \E p \in Claimed : phase' = [phase EXCEPT ![r] = p]
  BY DEF Reserves, Claimed
<1>3. In(Claimed)' = In(Claimed) \cup {r}
  BY <1>1, <1>2 DEF In
<1>4. \A s \in claims \ {r} : ~(C(s) = C(r) /\ IsHeavy(s) /\ IsHeavy(r))
  BY DEF Reserves, Reserved
<1> QED BY <1>2, <1>3, <1>4 DEF ClaimInv, C, IsHeavy

LEMMA ClaimStep == TypeInv /\ ClaimInv /\ [Next]_vars => ClaimInv'
<1> SUFFICES ASSUME TypeInv, ClaimInv, [Next]_vars PROVE ClaimInv'
  OBVIOUS
<1> USE DEF Claimed, Spawned
<1>1. ASSUME NEW r \in Runs, RunStep(r)
      PROVE  ClaimInv'
  <2>1. CASE PumpAdmits(r)
    BY <2>1, ClaimsKept
       DEF PumpAdmits, Picked, First, Eligible, Admissible, lockVars, TypeInv,
           TypeOK, TypeRuns
  <2>2. CASE PumpCancels(r)
    BY <2>2, ClaimLeaves DEF PumpCancels, Unlock
  <2>3. ASSUME NEW how \in {"cancelled", "no-op"}, SettlesUnspawned(r, how)
        PROVE  ClaimInv'
    BY <2>3, ClaimLeaves DEF SettlesUnspawned, Drop, Unlock
  <2>4. CASE Reserves(r)
    BY <2>4, ClaimEnters
  <2>5. CASE TreeReady(r)
    <3>1. CASE C(r) \in cancelled
      BY <2>5, <3>1, ClaimLeaves DEF TreeReady, Drop, Unlock
    <3>2. CASE C(r) \notin cancelled
      BY <2>5, <3>2, ClaimsKept
         DEF TreeReady, lockVars, TypeInv, TypeOK, TypeRuns
    <3> QED BY <3>1, <3>2
  <2>6. CASE LaunchFails(r)
    BY <2>6, ClaimLeaves DEF LaunchFails, Drop, Unlock
  <2>7. CASE Spawns(r) \/ CloseTimedOut(r)
    BY <2>7, ClaimsKept
       DEF Spawns, CloseTimedOut, Closes, lockVars, TypeInv, TypeOK, TypeRuns
  <2>8. CASE CloseCancelled(r) \/ CloseClean(r) \/ JudgedResumable(r)
    BY <2>8, ClaimLeaves
       DEF CloseCancelled, CloseClean, JudgedResumable, Settle, Unlock
  <2>9. CASE CloseSessionLost(r)
    BY <2>9, ClaimLeaves DEF CloseSessionLost, Unlock
  <2>10. ASSUME NEW b \in BOOLEAN, CloseForJudgement(r, b)
         PROVE  ClaimInv'
    BY <2>10, ClaimsKept
       DEF CloseForJudgement, Closes, lockVars, TypeInv, TypeOK, TypeRuns
  <2>11. ASSUME NEW b \in BOOLEAN, Judged(r, b)
         PROVE  ClaimInv'
    BY <2>11, ClaimLeaves DEF Judged, Settle, Unlock
  <2>12. ASSUME NEW n \in Runs, Redispatch(r, n)
         PROVE  ClaimInv'
    <3>1. /\ phase[n] = "unborn" /\ phase[r] \in Redispatching
          /\ n \notin claims
      BY <2>12 DEF Redispatch, NextBorn, Unborn, In, Redispatching, ClaimInv
    <3>2. CASE Accepts(Continuation(r), FALSE)
      <4>1. /\ job' = [job EXCEPT ![n] = Continuation(r)]
            /\ claims' = claims
        BY <2>12, <3>2 DEF Redispatch, RunSkill
      <4>2. \E p \in {"resumed", "restarted"} :
               phase' = [phase EXCEPT ![r] = p, ![n] = "queued"]
        BY <2>12, <3>2 DEF Redispatch
      <4>3. \A s \in Runs : phase'[s] \in Claimed <=> phase[s] \in Claimed
        BY <3>1, <4>2 DEF Redispatching, TypeInv, TypeOK, TypeRuns
      <4>4. \A s \in claims : job'[s] = job[s]
        BY <3>1, <4>1 DEF TypeInv, TypeOK, TypeRuns, TypeLocks
      <4> QED BY <4>1, <4>3, <4>4, ClaimsKept
    <3>3. CASE ~Accepts(Continuation(r), FALSE)
      <4>1. UNCHANGED <<job, claims>>
        BY <2>12, <3>3 DEF Redispatch, lockVars
      <4>2. \E p \in {"left", "failed"} : phase' = [phase EXCEPT ![r] = p]
        BY <2>12, <3>3 DEF Redispatch
      <4>3. \A s \in Runs : phase'[s] \in Claimed <=> phase[s] \in Claimed
        BY <3>1, <4>2 DEF Redispatching, TypeInv, TypeOK, TypeRuns
      <4> QED BY <4>1, <4>3, ClaimsKept
    <3> QED BY <3>2, <3>3
  <2> QED BY <1>1, <2>1, <2>2, <2>3, <2>4, <2>5, <2>6, <2>7, <2>8, <2>9,
             <2>10, <2>11, <2>12 DEF RunStep
<1>2. CASE Ask
  <2>1. ASSUME NEW r \in Runs, NEW j, NEW w, Request(r, j, w)
        PROVE  ClaimInv'
    <3>1. phase[r] = "unborn" /\ r \notin claims
      BY <2>1 DEF Request, NextBorn, Unborn, In, ClaimInv
    <3> QED
      BY <2>1, <3>1, ClaimsKept
         DEF Request, RunSkill, TypeInv, TypeOK, TypeRuns
  <2> QED BY <1>2, <2>1 DEF Ask, Enqueue, Recover
<1>3. CASE PumpStops \/ RetryTimerFires \/ Cancel \/ Surroundings
             \/ UNCHANGED vars
  <2>1. UNCHANGED <<job, phase, claims>>
    BY <1>3 DEF Cancel, ReleaseLive, ReleasePending, PumpStops,
       RetryTimerFires, Surroundings, ArmBrake, BrakeLifts, WindowsPass,
       LoadMoves, PaceMoves, GateMoves, lockVars, vars
  <2> QED BY <2>1, ClaimsKept
<1> QED BY <1>1, <1>2, <1>3 DEF Next

\* Two code runs never work on the same card, whatever forceRelease did to
\* the card's lock: a run passes its claim before it touches a worktree.
THEOREM OneCodeRun == Spec => []OneCodeRunPerCard
<1>1. Init => TypeInv /\ ClaimInv
  <2> SUFFICES ASSUME Init PROVE ClaimInv
    BY TypeInit
  <2>1. In(Claimed) = {}
    BY DEF Init, In, Claimed, Spawned
  <2> QED BY <2>1 DEF Init, ClaimInv
<1>2. (TypeInv /\ ClaimInv) /\ [Next]_vars => (TypeInv /\ ClaimInv)'
  BY TypeStep, ClaimStep
<1>3. ClaimInv => OneCodeRunPerCard
  BY DEF ClaimInv, OneCodeRunPerCard, Claimed, InHeavy, In
<1> QED BY <1>1, <1>2, <1>3, PTL DEF Spec

-----------------------------------------------------------------------------
(* The per-card lock.  A card is tainted for good once forceRelease took    *)
(* the lock of a run that had not spawned; everywhere else the lock, the    *)
(* registration and the tracked child agree with the runs' phases, and a    *)
(* run about to be dispatched again finds its card free.                    *)

\* runMeta names a run of the card it is filed under.
MetaIsKin ==
  \A c \in Cards : runMeta[c] # None =>
     phase[runMeta[c]] # "unborn" /\ C(runMeta[c]) = c

\* A run that lost its lock was born: its card is settled.
RevokedAreBorn == \A r \in revoked : phase[r] # "unborn"

\* Between release() and the runSkill that follows it only pump() runs.
OneRedispatch == \A r, s \in In(Redispatching) : r = s
RedispatchIsFree ==
  \A r \in In(Redispatching) : ~Tainted(C(r)) => C(r) \notin inFlight

LockInv ==
  /\ MetaIsKin /\ RevokedAreBorn
  /\ LockIsExact /\ LiveIsKillable
  /\ OneRedispatch /\ RedispatchIsFree /\ RedispatchAccepted

\* Where no run is revoked and no born run changes its card, the tainted
\* cards stay the same.
LEMMA TaintKept ==
  ASSUME TypeInv, RevokedAreBorn, UNCHANGED revoked,
         \A s \in Runs : phase[s] # "unborn" => job'[s] = job[s]
  PROVE  \A c : Tainted(c)' <=> Tainted(c)
BY DEF TypeInv, TypeOK, TypeMarks, RevokedAreBorn, Tainted, C

\* Steps that touch neither runs nor locks.
LEMMA SameKeepsLocks ==
  ASSUME LockInv,
         UNCHANGED <<job, phase, inFlight, runMeta, children, revoked>>
  PROVE  LockInv'
BY DEF LockInv, MetaIsKin, RevokedAreBorn, LockIsExact, LiveIsKillable,
       OneRedispatch, RedispatchIsFree, RedispatchAccepted, Tainted, C, In

\* A run moves on between the queue and its settle; if it spawns, it becomes
\* the card's tracked child.
LEMMA AdvanceKeepsLocks ==
  ASSUME TypeInv, LockInv, NEW r \in Runs, NEW p \in Held,
         phase[r] \in Active, phase' = [phase EXCEPT ![r] = p],
         UNCHANGED <<job, inFlight, runMeta, revoked>>,
         \/ children' = children /\ (p \in Spawned => phase[r] \in Spawned)
         \/ children' = [children EXCEPT ![C(r)] = r]
  PROVE  LockInv'
<1> USE DEF Held, Active, Launching, Spawned
<1>1. \A c : Tainted(c)' <=> Tainted(c)
  BY TaintKept DEF LockInv
<1>2. phase \in [Runs -> Phases] /\ C(r) \in Cards
  BY JobTyped DEF TypeInv, TypeOK, TypeRuns
<1>3. /\ \A s \in Runs : phase'[s] = IF s = r THEN p ELSE phase[s]
      /\ \A s \in Runs : C(s)' = C(s)
  BY <1>2 DEF C
<1>4. In(Active)' = In(Active) /\ r \in In(Active)
  BY <1>3 DEF In
<1>5. In(Redispatching)' = In(Redispatching)
  BY <1>3 DEF In, Redispatching
<1>6. MetaIsKin' /\ RevokedAreBorn'
  BY <1>3 DEF LockInv, MetaIsKin, RevokedAreBorn, TypeInv, TypeOK, TypeLocks,
              TypeMarks, C
<1>7. LockIsExact'
  BY <1>1, <1>3, <1>4 DEF LockInv, LockIsExact, In
<1>8. LiveIsKillable'
  <2> SUFFICES ASSUME NEW s \in In(Spawned)', ~Tainted(C(s))
               PROVE  children'[C(s)] = s
    BY <1>1, <1>3 DEF LiveIsKillable, In
  <2>1. children \in [Cards -> Runs \cup {None}]
    BY DEF TypeInv, TypeOK, TypeLocks
  <2>2. s \in In(Active) /\ C(s) \in Cards
    BY <1>4, JobTyped DEF In, TypeInv, TypeOK
  <2>3. s # r => C(s) # C(r)
    BY <1>4, <2>2 DEF LockInv, LockIsExact
  <2>4. CASE s = r
    BY <1>2, <1>3, <2>1, <2>4 DEF LockInv, LiveIsKillable, In
  <2>5. CASE s # r
    <3>1. s \in In(Spawned)
      BY <1>3, <2>5 DEF In
    <3>2. children'[C(s)] = children[C(s)]
      BY <1>2, <2>1, <2>2, <2>3, <2>5
    <3> QED BY <3>1, <3>2 DEF LockInv, LiveIsKillable
  <2> QED BY <2>4, <2>5
<1>9. OneRedispatch' /\ RedispatchIsFree' /\ RedispatchAccepted'
  BY <1>1, <1>3, <1>5
     DEF LockInv, OneRedispatch, RedispatchIsFree, RedispatchAccepted, In
<1> QED BY <1>6, <1>7, <1>8, <1>9 DEF LockInv

\* release(): the card of a run that leaves is unlocked; the run may be
\* dispatched again if no other is about to be.
LEMMA TeardownKeepsLocks ==
  ASSUME TypeInv, LockInv, NEW r \in Runs,
         NEW p \in (Settled \ {"left"}) \cup Redispatching,
         phase[r] \in Active, phase' = [phase EXCEPT ![r] = p],
         Unlock(r), UNCHANGED <<job, revoked>>,
         p \in Redispatching => In(Redispatching) = {}
  PROVE  LockInv'
<1> USE DEF Held, Active, Launching, Spawned, Settled, Redispatching
<1>1. \A c : Tainted(c)' <=> Tainted(c)
  BY TaintKept DEF LockInv
<1>2. /\ phase \in [Runs -> Phases] /\ C(r) \in Cards
      /\ children \in [Cards -> Runs \cup {None}]
      /\ runMeta \in [Cards -> Runs \cup {None}]
  BY JobTyped DEF TypeInv, TypeOK, TypeRuns, TypeLocks
<1>3. /\ \A s \in Runs : phase'[s] = IF s = r THEN p ELSE phase[s]
      /\ \A s \in Runs : C(s)' = C(s)
  BY <1>2 DEF C
<1>4. In(Active)' = In(Active) \ {r} /\ r \in In(Active)
  BY <1>3 DEF In
<1>5. /\ inFlight' = inFlight \ {C(r)}
      /\ \A c \in Cards : runMeta'[c] = runMeta[c] \/ runMeta'[c] = None
      /\ \A c \in Cards \ {C(r)} : /\ runMeta'[c] = runMeta[c]
                                   /\ children'[c] = children[c]
  BY <1>2 DEF Unlock
<1>6. MetaIsKin' /\ RevokedAreBorn'
  BY <1>2, <1>3, <1>5 DEF LockInv, MetaIsKin, RevokedAreBorn, C, TypeInv,
                          TypeOK, TypeMarks
<1>7. LockIsExact'
  <2> SUFFICES ASSUME NEW c \in Cards, ~Tainted(c)
               PROVE  /\ c \in inFlight' <=>
                           \E s \in In(Active)' : C(s) = c
                      /\ \A s, t \in In(Active)' :
                           C(s) = c /\ C(t) = c => s = t
                      /\ \A s \in In(Active)' : C(s) = c => runMeta'[c] = s
    BY <1>1, <1>3 DEF LockIsExact, In
  <2>1. CASE c = C(r)
    BY <1>4, <1>5, <2>1 DEF LockInv, LockIsExact
  <2>2. CASE c # C(r)
    BY <1>4, <1>5, <2>2 DEF LockInv, LockIsExact
  <2> QED BY <2>1, <2>2
<1>8. LiveIsKillable'
  <2> SUFFICES ASSUME NEW s \in In(Spawned)', ~Tainted(C(s))
               PROVE  children'[C(s)] = s
    BY <1>1, <1>3 DEF LiveIsKillable, In
  <2>1. s \in In(Spawned) /\ s \in In(Active) /\ s # r
    BY <1>3 DEF In
  <2>2. C(s) \in Cards /\ C(s) # C(r)
    BY <1>4, <2>1, JobTyped DEF LockInv, LockIsExact, In, TypeInv, TypeOK
  <2> QED BY <1>5, <2>1, <2>2 DEF LockInv, LiveIsKillable
<1>9. OneRedispatch' /\ RedispatchIsFree' /\ RedispatchAccepted'
  BY <1>1, <1>3, <1>5
     DEF LockInv, OneRedispatch, RedispatchIsFree, RedispatchAccepted, In
<1> QED BY <1>6, <1>7, <1>8, <1>9 DEF LockInv

\* runSkill: a run is born on an unlocked card, perhaps as the continuation
\* of one that waited to be dispatched again.
LEMMA BirthKeepsLocks ==
  ASSUME TypeInv, LockInv, NEW n \in Runs, NEW j \in Job,
         phase[n] = "unborn", j.card \notin inFlight,
         job' = [job EXCEPT ![n] = j], phase'[n] = "queued",
         \A s \in Runs \ {n} :
            \/ phase'[s] = phase[s] /\ phase[s] \notin Redispatching
            \/ phase[s] \in Redispatching
               /\ phase'[s] \in {"resumed", "restarted"},
         inFlight' = inFlight \cup {j.card},
         runMeta' = [runMeta EXCEPT ![j.card] = n],
         UNCHANGED <<children, revoked>>
  PROVE  LockInv'
<1> USE DEF Held, Active, Launching, Spawned, Settled, Redispatching
<1>1. \A c : Tainted(c)' <=> Tainted(c)
  BY TaintKept DEF LockInv, TypeInv, TypeOK, TypeRuns
<1>2. /\ job \in [Runs -> Job \cup {NoJob}] /\ j.card \in Cards
      /\ runMeta \in [Cards -> Runs \cup {None}]
  BY DEF TypeInv, TypeOK, TypeRuns, TypeLocks, Job
<1>3. \A s \in Runs : C(s)' = IF s = n THEN j.card ELSE C(s)
  BY <1>2 DEF C
<1>4. In(Active)' = In(Active) \cup {n} /\ n \notin In(Active)
  BY DEF In
<1>5. \A c \in Cards : runMeta'[c] = IF c = j.card THEN n ELSE runMeta[c]
  BY <1>2
<1>6. MetaIsKin' /\ RevokedAreBorn'
  <2>1. MetaIsKin'
    BY <1>2, <1>3, <1>5 DEF LockInv, MetaIsKin, C
  <2>2. RevokedAreBorn'
    BY DEF LockInv, RevokedAreBorn, TypeInv, TypeOK, TypeMarks
  <2> QED BY <2>1, <2>2
<1>7. LockIsExact'
  <2> SUFFICES ASSUME NEW c \in Cards, ~Tainted(c)
               PROVE  /\ c \in inFlight' <=>
                           \E s \in In(Active)' : C(s)' = c
                      /\ \A s, t \in In(Active)' :
                           C(s)' = c /\ C(t)' = c => s = t
                      /\ \A s \in In(Active)' : C(s)' = c => runMeta'[c] = s
    BY <1>1 DEF LockIsExact
  <2>1. \A s \in In(Active) : s \in Runs /\ s # n /\ C(s)' = C(s)
    BY <1>3, <1>4 DEF In
  <2>2. CASE c = j.card
    BY <1>3, <1>4, <1>5, <2>1, <2>2 DEF LockInv, LockIsExact
  <2>3. CASE c # j.card
    BY <1>3, <1>4, <1>5, <2>1, <2>3 DEF LockInv, LockIsExact
  <2> QED BY <2>2, <2>3
<1>8. LiveIsKillable'
  BY <1>1, <1>3 DEF LockInv, LiveIsKillable, In
<1>9. OneRedispatch' /\ RedispatchAccepted'
  BY <1>1, <1>3 DEF LockInv, OneRedispatch, RedispatchAccepted, In
<1>10. RedispatchIsFree'
  <2>1. In(Redispatching)' = {}
    BY DEF In
  <2> QED BY <2>1 DEF RedispatchIsFree
<1> QED BY <1>6, <1>7, <1>8, <1>9, <1>10 DEF LockInv

\* One step of a run keeps the locks in order.
LEMMA RunKeepsLocks ==
  ASSUME TypeInv, LockInv, NEW r \in Runs, RunStep(r)
  PROVE  LockInv'
<1> USE DEF Held, Active, Launching, Spawned, Settled, Redispatching
<1>1. CASE PumpAdmits(r)
  BY <1>1, AdvanceKeepsLocks
     DEF PumpAdmits, Picked, First, Eligible, Admissible, lockVars, history
<1>2. CASE PumpCancels(r)
  BY <1>2, TeardownKeepsLocks
     DEF PumpCancels, Picked, First, Eligible, Admissible
<1>3. ASSUME NEW how \in {"cancelled", "no-op"}, SettlesUnspawned(r, how)
      PROVE  LockInv'
  BY <1>3, TeardownKeepsLocks DEF SettlesUnspawned, Drop
<1>4. CASE Reserves(r)
  <2> DEFINE p == IF IsHeavy(r) /\ Isolation /\ ~job[r].resume
                  THEN "creating" ELSE "assembling"
  <2>1. p \in Held /\ p \notin Spawned
    OBVIOUS
  <2>2. phase' = [phase EXCEPT ![r] = p] /\ phase[r] \in Active
    BY <1>4 DEF Reserves
  <2>3. UNCHANGED <<job, inFlight, runMeta, children, revoked>>
    BY <1>4 DEF Reserves, history
  <2> HIDE DEF p
  <2> QED BY <2>1, <2>2, <2>3, AdvanceKeepsLocks
<1>5. CASE TreeReady(r)
  <2>1. CASE C(r) \in cancelled
    BY <1>5, <2>1, TeardownKeepsLocks DEF TreeReady, Drop
  <2>2. CASE C(r) \notin cancelled
    BY <1>5, <2>2, AdvanceKeepsLocks DEF TreeReady, lockVars, history
  <2> QED BY <2>1, <2>2
<1>6. CASE LaunchFails(r)
  BY <1>6, TeardownKeepsLocks DEF LaunchFails, Drop
<1>7. CASE Spawns(r)
  BY <1>7, AdvanceKeepsLocks DEF Spawns, history
<1>8. CASE CloseTimedOut(r)
  BY <1>8, AdvanceKeepsLocks DEF CloseTimedOut, Closes, lockVars, history
<1>9. CASE CloseCancelled(r) \/ CloseClean(r)
  BY <1>9, TeardownKeepsLocks
     DEF CloseCancelled, CloseClean, Closes, Settle, history
<1>10. CASE JudgedResumable(r)
  BY <1>10, TeardownKeepsLocks DEF JudgedResumable, Settle, Quiet, history
<1>11. CASE CloseSessionLost(r)
  BY <1>11, TeardownKeepsLocks DEF CloseSessionLost, Closes, Quiet, history
<1>12. ASSUME NEW b \in BOOLEAN, CloseForJudgement(r, b)
       PROVE  LockInv'
  BY <1>12, AdvanceKeepsLocks DEF CloseForJudgement, Closes, lockVars, history
<1>13. ASSUME NEW b \in BOOLEAN, Judged(r, b)
       PROVE  LockInv'
  <2>1. PICK p \in {"ok", "failed"} : Settle(r, p, ~b)
    BY <1>13 DEF Judged
  <2>2. phase[r] \in Active
    BY <1>13 DEF Judged
  <2> QED BY <2>1, <2>2, TeardownKeepsLocks DEF Settle, history
<1>14. ASSUME NEW n \in Runs, Redispatch(r, n)
       PROVE  LockInv'
  <2>1. /\ Continuation(r) \in Job /\ Continuation(r).card = C(r)
        /\ phase[r] \in Redispatching /\ phase[n] = "unborn" /\ n # r
        /\ phase \in [Runs -> Phases]
    BY <1>14, ContinuationTyped, JobTyped
       DEF Redispatch, NextBorn, Unborn, In, Continuation, C, Job, TypeInv,
           TypeOK, TypeRuns
  <2>2. \A s \in Runs : phase[s] \in Redispatching => s = r
    BY <2>1 DEF LockInv, OneRedispatch, In
  <2>3. CASE Accepts(Continuation(r), FALSE)
    <3>1. /\ RunSkill(n, Continuation(r), FALSE)
          /\ UNCHANGED <<children, claims>> /\ revoked' = revoked
      BY <1>14, <2>3 DEF Redispatch, history
    <3>2. PICK p \in {"resumed", "restarted"} :
             phase' = [phase EXCEPT ![r] = p, ![n] = "queued"]
      BY <1>14, <2>3 DEF Redispatch
    <3> QED
      BY <2>1, <2>2, <2>3, <3>1, <3>2, BirthKeepsLocks DEF Accepts, RunSkill
  <2>4. CASE ~Accepts(Continuation(r), FALSE)
    <3>1. Tainted(C(r))
      BY <2>1, <2>4 DEF Accepts, LockInv, RedispatchIsFree, In
    <3>2. /\ UNCHANGED <<job, lockVars>> /\ revoked' = revoked
          /\ phase' = [phase EXCEPT ![r] = IF phase[r] = "resuming"
                                           THEN "left" ELSE "failed"]
      BY <1>14, <2>4 DEF Redispatch, history
    <3>3. /\ In(Active)' = In(Active) /\ In(Spawned)' = In(Spawned)
          /\ In(Redispatching)' \subseteq In(Redispatching)
      BY <2>1, <3>2 DEF In
    <3>4. /\ UNCHANGED <<inFlight, runMeta, children>>
          /\ \A s \in Runs : C(s)' = C(s)
          /\ \A c : Tainted(c)' <=> Tainted(c)
      BY <3>2, TaintKept DEF lockVars, C, LockInv
    <3>5. MetaIsKin' /\ RevokedAreBorn'
      BY <2>1, <3>2, <3>4
         DEF LockInv, MetaIsKin, RevokedAreBorn, TypeInv, TypeOK, TypeLocks,
             TypeMarks, C
    <3>6. LockIsExact' /\ LiveIsKillable'
      <4>1. LockIsExact'
        BY <3>3, <3>4 DEF LockInv, LockIsExact, In
      <4>2. LiveIsKillable'
        BY <3>3, <3>4 DEF LockInv, LiveIsKillable, In
      <4> QED BY <4>1, <4>2
    <3>7. OneRedispatch' /\ RedispatchIsFree'
      BY <3>3, <3>4 DEF LockInv, OneRedispatch, RedispatchIsFree, In
    <3>8. RedispatchAccepted'
      BY <2>1, <3>1, <3>2, <3>4 DEF LockInv, RedispatchAccepted
    <3> QED BY <3>5, <3>6, <3>7, <3>8 DEF LockInv
  <2> QED BY <2>3, <2>4
<1> QED BY <1>1, <1>2, <1>3, <1>4, <1>5, <1>6, <1>7, <1>8, <1>9, <1>10, <1>11,
           <1>12, <1>13, <1>14 DEF RunStep

\* forceRelease of a run that has not spawned taints its card.
LEMMA ReleaseKeepsLocks ==
  ASSUME TypeInv, LockInv, NEW c \in Cards, ReleasePending(c)
  PROVE  LockInv'
<1>1. /\ UNCHANGED <<job, phase, runMeta, children>>
      /\ inFlight' = inFlight \ {c}
      /\ revoked' = revoked \cup {runMeta[c]} /\ c \in inFlight
  BY DEF ReleasePending, history
<1>2. /\ runMeta[c] \in Runs /\ phase[runMeta[c]] # "unborn"
      /\ C(runMeta[c]) = c
  BY <1>1 DEF TypeInv, TypeOK, TypeLocks, Owned, LockInv, MetaIsKin
<1>3. Tainted(c)' /\ \A d : Tainted(d) => Tainted(d)'
  BY <1>1, <1>2 DEF Tainted, C
<1>4. RevokedAreBorn' /\ MetaIsKin'
  BY <1>1, <1>2 DEF LockInv, RevokedAreBorn, MetaIsKin, C
<1>5. LockIsExact'
  BY <1>1, <1>3 DEF LockInv, LockIsExact, In, C
<1>6. LiveIsKillable'
  BY <1>1, <1>3 DEF LockInv, LiveIsKillable, In, C
<1>7. OneRedispatch' /\ RedispatchIsFree' /\ RedispatchAccepted'
  BY <1>1, <1>3
     DEF LockInv, OneRedispatch, RedispatchIsFree, RedispatchAccepted, In, C
<1> QED BY <1>4, <1>5, <1>6, <1>7 DEF LockInv

\* A request is served only when nothing is about to be dispatched again.
LEMMA RequestKeepsLocks ==
  ASSUME TypeInv, LockInv, NEW r \in Runs, NEW j \in Job, NEW w \in BOOLEAN,
         Request(r, j, w)
  PROVE  LockInv'
<1>1. phase[r] = "unborn" /\ phase \in [Runs -> Phases]
  BY DEF Request, NextBorn, Unborn, In, TypeInv, TypeOK, TypeRuns
<1>2. \A s \in Runs : phase[s] \notin Redispatching
  BY DEF Request, Quiet, In
<1> QED
  BY <1>1, <1>2, BirthKeepsLocks DEF Request, RunSkill, Accepts, history

LEMMA LockStep == TypeInv /\ LockInv /\ [Next]_vars => LockInv'
<1> SUFFICES ASSUME TypeInv, LockInv, [Next]_vars PROVE LockInv'
  OBVIOUS
<1>1. ASSUME NEW r \in Runs, RunStep(r)
      PROVE  LockInv'
  BY <1>1, RunKeepsLocks
<1>2. CASE Ask
  BY <1>2, AskedJob, RequestKeepsLocks
<1>3. ASSUME NEW c \in Cards, ReleasePending(c)
      PROVE  LockInv'
  BY <1>3, ReleaseKeepsLocks
<1>4. ASSUME NEW c \in Cards, ReleaseLive(c)
      PROVE  LockInv'
  BY <1>4, SameKeepsLocks DEF ReleaseLive, lockVars
<1>5. CASE PumpStops \/ RetryTimerFires \/ Surroundings \/ UNCHANGED vars
  <2>1. UNCHANGED <<job, phase, inFlight, runMeta, children, revoked>>
    BY <1>5 DEF PumpStops, RetryTimerFires, Surroundings, ArmBrake, BrakeLifts,
       WindowsPass, LoadMoves, PaceMoves, GateMoves, lockVars, history, vars
  <2> QED BY <2>1, SameKeepsLocks
<1> QED BY <1>1, <1>2, <1>3, <1>4, <1>5 DEF Next, Cancel

LEMMA LockInit == Init => LockInv
<1> SUFFICES ASSUME Init PROVE LockInv
  OBVIOUS
<1>1. In(Active) = {} /\ In(Spawned) = {} /\ In(Redispatching) = {}
  BY DEF Init, In, Active, Held, Launching, Spawned, Redispatching
<1> QED
  BY <1>1 DEF Init, LockInv, MetaIsKin, RevokedAreBorn, LockIsExact,
     LiveIsKillable, OneRedispatch, RedispatchIsFree, RedispatchAccepted

LEMMA LockAlways == Spec => [](TypeInv /\ LockInv)
<1>1. Init => TypeInv /\ LockInv
  BY TypeInit, LockInit
<1>2. (TypeInv /\ LockInv) /\ [Next]_vars => (TypeInv /\ LockInv)'
  BY TypeStep, LockStep
<1> QED BY <1>1, <1>2, PTL DEF Spec

\* Away from the cards whose lock forceRelease took from a starting run, a
\* card is locked exactly while one run of it is between the queue and its
\* settle, and runMeta names that run.
THEOREM LocksAreExact == Spec => []LockIsExact
<1>1. LockInv => LockIsExact
  BY DEF LockInv
<1> QED BY <1>1, LockAlways, PTL

\* There every process that runs is the child forceRelease would kill.
THEOREM LiveRunsAreKillable == Spec => []LiveIsKillable
<1>1. LockInv => LiveIsKillable
  BY DEF LockInv
<1> QED BY <1>1, LockAlways, PTL

\* There the engine's own runSkill, after a turn cap or a lost session, never
\* finds the card locked: no turn-capped run is left behind.
THEOREM RedispatchesAreAccepted == Spec => []RedispatchAccepted
<1>1. LockInv => RedispatchAccepted
  BY DEF LockInv
<1> QED BY <1>1, LockAlways, PTL

-----------------------------------------------------------------------------
(* The engine's own re-dispatches.  Between the settle that asks for one    *)
(* and the runSkill that serves it nothing else may touch the card's        *)
(* fallback count: only pump() runs.                                        *)

\* A continuation's parent was born, so what it was asked to do is settled.
ParentsAreBorn ==
  \A r \in Runs \ Unborn :
     job[r].parent # None => phase[job[r].parent] # "unborn"

\* A lost session is charged before it starts over.
RestartIsCharged ==
  \A r \in Runs :
     phase[r] = "restarting" => fallbackCount[C(r)] > job[r].falls

ChainInv == ParentsAreBorn /\ RestartIsCharged /\ ChainDescends

\* No run is born and what a restarting run was charged stands.
LEMMA ChainKept ==
  ASSUME TypeInv, ChainInv, job' = job,
         \A s \in Runs : phase'[s] = "unborn" <=> phase[s] = "unborn",
         RestartIsCharged'
  PROVE  ChainInv'
<1>1. \A s \in Runs : phase[s] # "unborn" =>
         job[s].parent \in Runs \cup {None}
  BY DEF TypeInv, TypeOK, TypeRuns, Job
<1>2. (Runs \ Unborn)' = Runs \ Unborn
  BY DEF Unborn, In
<1>3. ParentsAreBorn'
  BY <1>1, <1>2 DEF ChainInv, ParentsAreBorn, Unborn, In
<1>4. ChainDescends'
  BY <1>2 DEF ChainInv, ChainDescends
<1> QED BY <1>3, <1>4 DEF ChainInv

\* A run is born whose parent, if it has one, is born and stands lower.
LEMMA ChainBirth ==
  ASSUME TypeInv, ChainInv, NEW n \in Runs, NEW j \in Job,
         phase[n] = "unborn", job' = [job EXCEPT ![n] = j],
         phase'[n] # "unborn",
         \A s \in Runs \ {n} : /\ phase'[s] = "unborn" <=> phase[s] = "unborn"
                               /\ phase'[s] # "restarting",
         phase'[n] # "restarting",
         j.parent # None =>
            /\ phase[j.parent] # "unborn"
            /\ \/ j.falls > job[j.parent].falls
               \/ /\ j.falls = job[j.parent].falls
                  /\ j.turns > job[j.parent].turns
  PROVE  ChainInv'
<1>1. \A s \in Runs : phase[s] # "unborn" =>
         job[s].parent \in Runs \cup {None}
  BY DEF TypeInv, TypeOK, TypeRuns, Job
<1>2. (Runs \ Unborn)' = (Runs \ Unborn) \cup {n} /\ n \notin Runs \ Unborn
  BY DEF Unborn, In
<1>3. \A s \in Runs : job'[s] = IF s = n THEN j ELSE job[s]
  BY DEF TypeInv, TypeOK, TypeRuns
<1>4. j.parent \in Runs \cup {None}
  BY DEF Job
<1>5. \A s \in Runs \ Unborn : job[s].parent # None =>
         /\ phase[job[s].parent] # "unborn" /\ job[s].parent \in Runs \ {n}
  BY <1>1 DEF ChainInv, ParentsAreBorn, Unborn, In
<1>6. ParentsAreBorn'
  <2> SUFFICES ASSUME NEW s \in (Runs \ Unborn)', job'[s].parent # None
               PROVE  phase'[job'[s].parent] # "unborn"
    BY DEF ParentsAreBorn
  <2>1. CASE s = n
    BY <1>3, <1>4, <2>1
  <2>2. CASE s # n
    BY <1>2, <1>3, <1>5, <2>2
  <2> QED BY <2>1, <2>2
<1>7. ChainDescends'
  <2> SUFFICES ASSUME NEW s \in (Runs \ Unborn)', job'[s].parent # None
               PROVE  LET p == job'[job'[s].parent]
                      IN \/ job'[s].falls > p.falls
                         \/ job'[s].falls = p.falls /\ job'[s].turns > p.turns
    BY DEF ChainDescends
  <2>1. CASE s = n
    BY <1>3, <1>4, <2>1
  <2>2. CASE s # n
    BY <1>2, <1>3, <1>5, <2>2 DEF ChainInv, ChainDescends
  <2> QED BY <2>1, <2>2
<1>8. RestartIsCharged'
  BY DEF RestartIsCharged
<1> QED BY <1>6, <1>7, <1>8 DEF ChainInv

\* A lost session is charged one more than it had used.
LEMMA LostSessionCharged ==
  ASSUME TypeInv, NEW r \in Runs, CloseSessionLost(r)
  PROVE  RestartIsCharged'
<1>1. /\ phase[r] = "live" /\ \A s \in Runs : phase[s] # "restarting"
      /\ job' = job /\ phase' = [phase EXCEPT ![r] = "restarting"]
      /\ fallbackCount' = [fallbackCount EXCEPT ![C(r)] = FallsUsed(r) + 1]
  BY DEF CloseSessionLost, Closes, Quiet, In, Redispatching
<1>2. /\ C(r) \in Cards /\ job[r].falls \in Nat
      /\ fallbackCount[C(r)] \in Nat /\ fallbackCount \in [Cards -> Nat]
      /\ phase \in [Runs -> Phases]
  <2>1. C(r) \in Cards /\ job[r].falls \in 0..FallbackMax
    BY <1>1, JobTyped DEF TypeInv, TypeOK
  <2> QED BY <2>1 DEF TypeInv, TypeOK, TypeMarks, TypeRuns
<1>3. FallsUsed(r) + 1 > job[r].falls
  BY <1>2 DEF FallsUsed
<1>4. fallbackCount'[C(r)] = FallsUsed(r) + 1 /\ C(r)' = C(r)
  BY <1>1, <1>2 DEF C
<1>5. \A s \in Runs : phase'[s] = "restarting" => s = r
  BY <1>1, <1>2
<1> QED BY <1>1, <1>3, <1>4, <1>5 DEF RestartIsCharged

LEMMA RedispatchKeepsChain ==
  ASSUME TypeInv, LockInv, ChainInv, NEW r \in Runs, NEW n \in Runs,
         Redispatch(r, n)
  PROVE  ChainInv'
<1> DEFINE j == Continuation(r)
<1>1. /\ j \in Job /\ phase[r] \in Redispatching /\ phase[n] = "unborn"
      /\ n # r /\ phase \in [Runs -> Phases] /\ job[r] \in Job
  BY ContinuationTyped, JobTyped
     DEF Redispatch, NextBorn, Unborn, In, Redispatching, TypeInv, TypeOK,
         TypeRuns
<1>2. \A s \in Runs : phase[s] \in Redispatching => s = r
  BY <1>1 DEF LockInv, OneRedispatch, In
<1>3. /\ j.parent = r
      /\ \/ j.falls > job[r].falls
         \/ j.falls = job[r].falls /\ j.turns > job[r].turns
  <2>1. CASE phase[r] = "resuming"
    BY <1>1, <2>1 DEF Continuation, Job
  <2>2. CASE phase[r] # "resuming"
    <3>1. fallbackCount[C(r)] > job[r].falls
      BY <1>1, <2>2 DEF Redispatching, ChainInv, RestartIsCharged
    <3> QED BY <1>1, <2>2, <3>1 DEF Continuation, Job
  <2> QED BY <2>1, <2>2
<1>4. CASE Accepts(j, FALSE)
  <2>1. /\ job' = [job EXCEPT ![n] = j]
        /\ \E p \in {"resumed", "restarted"} :
              phase' = [phase EXCEPT ![r] = p, ![n] = "queued"]
    BY <1>4 DEF Redispatch, RunSkill
  <2>2. /\ phase'[n] = "queued"
        /\ \A s \in Runs \ {n} :
              /\ phase'[s] = "unborn" <=> phase[s] = "unborn"
              /\ phase'[s] # "restarting"
    BY <1>1, <1>2, <2>1 DEF Redispatching
  <2>3. j.parent # None =>
            /\ phase[j.parent] # "unborn"
            /\ \/ j.falls > job[j.parent].falls
               \/ /\ j.falls = job[j.parent].falls
                  /\ j.turns > job[j.parent].turns
    BY <1>1, <1>3 DEF Redispatching
  <2> HIDE DEF j
  <2> QED BY <1>1, <2>1, <2>2, <2>3, ChainBirth
<1>5. CASE ~Accepts(j, FALSE)
  <2>1. /\ job' = job
        /\ \E p \in {"left", "failed"} : phase' = [phase EXCEPT ![r] = p]
    BY <1>5 DEF Redispatch
  <2>2. \A s \in Runs : phase'[s] # "restarting"
    BY <1>1, <1>2, <2>1 DEF Redispatching
  <2>3. \A s \in Runs : phase'[s] = "unborn" <=> phase[s] = "unborn"
    BY <1>1, <2>1 DEF Redispatching
  <2> QED BY <2>1, <2>2, <2>3, ChainKept DEF RestartIsCharged
<1> QED BY <1>4, <1>5

\* While no run restarts, any step that starts no restart keeps the charges.
LEMMA RunKeepsChain ==
  ASSUME TypeInv, LockInv, ChainInv, NEW r \in Runs, RunStep(r)
  PROVE  ChainInv'
<1> USE DEF Held, Launching, Spawned
<1>0. phase \in [Runs -> Phases]
  BY DEF TypeInv, TypeOK, TypeRuns
<1>1. CASE CloseSessionLost(r)
  <2>1. /\ job' = job /\ phase[r] = "live"
        /\ phase' = [phase EXCEPT ![r] = "restarting"]
    BY <1>1 DEF CloseSessionLost, Closes
  <2>2. \A s \in Runs : phase'[s] = "unborn" <=> phase[s] = "unborn"
    BY <1>0, <2>1
  <2> QED BY <1>1, <2>1, <2>2, LostSessionCharged, ChainKept
<1>2. ASSUME NEW n \in Runs, Redispatch(r, n)
      PROVE  ChainInv'
  BY <1>2, RedispatchKeepsChain
<1>3. CASE PumpAdmits(r) \/ PumpCancels(r)
  <2>1. /\ job' = job /\ fallbackCount' = fallbackCount
        /\ phase[r] = "queued"
        /\ \E p \in {"preparing", "cancelled"} :
              phase' = [phase EXCEPT ![r] = p]
    BY <1>3 DEF PumpAdmits, PumpCancels, Picked, First, Eligible, Admissible
  <2>2. /\ \A s \in Runs : phase'[s] = "unborn" <=> phase[s] = "unborn"
        /\ \A s \in Runs : phase'[s] = "restarting" => phase[s] = "restarting"
    BY <1>0, <2>1
  <2>3. RestartIsCharged'
    BY <2>1, <2>2 DEF ChainInv, RestartIsCharged, C
  <2> QED BY <2>1, <2>2, <2>3, ChainKept
<1>4. CASE /\ Quiet /\ job' = job
           /\ \E p \in (Held \cup Settled \cup {"resuming"}) :
                 phase' = [phase EXCEPT ![r] = p]
           /\ phase[r] # "unborn"
  <2>1. \A s \in Runs : phase[s] # "restarting"
    BY <1>4 DEF Quiet, In, Redispatching
  <2>2. /\ \A s \in Runs : phase'[s] = "unborn" <=> phase[s] = "unborn"
        /\ \A s \in Runs : phase'[s] # "restarting"
    BY <1>0, <1>4, <2>1 DEF Settled
  <2> QED BY <1>4, <2>2, ChainKept DEF RestartIsCharged
<1>5. CASE \/ \E how \in {"cancelled", "no-op"} : SettlesUnspawned(r, how)
           \/ Reserves(r) \/ TreeReady(r) \/ LaunchFails(r) \/ Spawns(r)
  <2>1. /\ Quiet /\ job' = job /\ phase[r] # "unborn"
    BY <1>5 DEF SettlesUnspawned, Reserves, TreeReady, LaunchFails, Spawns,
                Drop
  <2>2. \E p \in (Held \cup Settled) : phase' = [phase EXCEPT ![r] = p]
    <3>1. CASE TreeReady(r)
      BY <3>1 DEF TreeReady, Drop, Settled
    <3>2. CASE Reserves(r)
      BY <3>2 DEF Reserves
    <3> QED BY <1>5, <3>1, <3>2
            DEF SettlesUnspawned, LaunchFails, Spawns, Drop, Settled
  <2> QED BY <1>4, <2>1, <2>2
<1>6. CASE \/ CloseCancelled(r) \/ CloseClean(r) \/ CloseTimedOut(r)
           \/ JudgedResumable(r)
           \/ \E b \in BOOLEAN : CloseForJudgement(r, b) \/ Judged(r, b)
  <2>1. /\ Quiet /\ job' = job /\ phase[r] # "unborn"
    BY <1>6 DEF CloseCancelled, CloseClean, CloseTimedOut, JudgedResumable,
                CloseForJudgement, Judged, Closes, Settle
  <2>2. \E p \in (Held \cup Settled \cup {"resuming"}) :
           phase' = [phase EXCEPT ![r] = p]
    BY <1>6 DEF CloseCancelled, CloseClean, CloseTimedOut, JudgedResumable,
                CloseForJudgement, Judged, Settle, Settled
  <2> QED BY <1>4, <2>1, <2>2
<1> QED BY <1>1, <1>2, <1>3, <1>5, <1>6 DEF RunStep

\* A new request starts a chain of its own.
LEMMA AskedIsFirst ==
  ASSUME TypeInv, ChainInv, Ask
  PROVE  ChainInv'
<1>1. PICK r \in Runs, c \in Cards, t \in Triggers, o \in Origins :
         \/ Enqueue(r, c, t, o)
         \/ \E n \in 0..ResumeMax, f \in 0..FallbackMax :
              Recover(r, c, t, o, n, f)
  BY DEF Ask
<1>2. Fresh(c, t, o) \in Job
  BY DEF Fresh, Job
<1>3. ASSUME NEW j \in Job, NEW w \in BOOLEAN, j.parent = None,
             Request(r, j, w)
      PROVE  ChainInv'
  <2>1. /\ phase[r] = "unborn" /\ phase' = [phase EXCEPT ![r] = "queued"]
        /\ job' = [job EXCEPT ![r] = j] /\ phase \in [Runs -> Phases]
        /\ \A s \in Runs : phase[s] # "restarting"
    BY <1>3 DEF Request, RunSkill, NextBorn, Unborn, Quiet, In, Redispatching,
                TypeInv, TypeOK, TypeRuns
  <2>2. /\ phase'[r] = "queued"
        /\ \A s \in Runs \ {r} : phase'[s] = phase[s]
    BY <2>1
  <2> QED BY <1>3, <2>1, <2>2, ChainBirth
<1>4. CASE Enqueue(r, c, t, o)
  <2>1. Fresh(c, t, o).parent = None
    BY DEF Fresh
  <2> QED BY <1>2, <1>3, <1>4, <2>1 DEF Enqueue
<1>5. ASSUME NEW n \in 0..ResumeMax, NEW f \in 0..FallbackMax,
             Recover(r, c, t, o, n, f)
      PROVE  ChainInv'
  <2> DEFINE j == [Fresh(c, t, o) EXCEPT !.resume = TRUE, !.turns = n,
                                         !.falls = f]
  <2>1. j \in Job /\ j.parent = None
    BY <1>2 DEF Job, Fresh
  <2>2. Request(r, j, TRUE)
    BY <1>5 DEF Recover
  <2> HIDE DEF j
  <2> QED BY <1>3, <2>1, <2>2
<1> QED BY <1>1, <1>4, <1>5

LEMMA ChainStep == TypeInv /\ LockInv /\ ChainInv /\ [Next]_vars => ChainInv'
<1> SUFFICES ASSUME TypeInv, LockInv, ChainInv, [Next]_vars PROVE ChainInv'
  OBVIOUS
<1>1. ASSUME NEW r \in Runs, RunStep(r)
      PROVE  ChainInv'
  BY <1>1, RunKeepsChain
<1>2. CASE Ask
  BY <1>2, AskedIsFirst
<1>3. CASE PumpStops \/ RetryTimerFires \/ Cancel \/ Surroundings
             \/ UNCHANGED vars
  <2>1. UNCHANGED <<job, phase, fallbackCount>>
    BY <1>3 DEF PumpStops, RetryTimerFires, Cancel, ReleaseLive,
       ReleasePending, Surroundings, ArmBrake, BrakeLifts, WindowsPass,
       LoadMoves, PaceMoves, GateMoves, vars
  <2> QED BY <2>1, ChainKept DEF ChainInv, RestartIsCharged, C
<1> QED BY <1>1, <1>2, <1>3 DEF Next

\* The engine cannot re-dispatch itself for ever: each continuation has used
\* up more of the fallback budget than its parent, or as much of it and more
\* of the turn budget, and TypeOK bounds both.
THEOREM ChainsDescend == Spec => []ChainDescends
<1>1. Init => TypeInv /\ LockInv /\ ChainInv
  <2> SUFFICES ASSUME Init PROVE ChainInv
    BY TypeInit, LockInit
  <2>1. Runs \ Unborn = {} /\ \A r \in Runs : phase[r] = "unborn"
    BY DEF Init, Unborn, In
  <2> QED BY <2>1 DEF ChainInv, ParentsAreBorn, RestartIsCharged, ChainDescends
<1>2. (TypeInv /\ LockInv /\ ChainInv) /\ [Next]_vars =>
        (TypeInv /\ LockInv /\ ChainInv)'
  BY TypeStep, LockStep, ChainStep
<1>3. ChainInv => ChainDescends
  BY DEF ChainInv
<1> QED BY <1>1, <1>2, <1>3, PTL DEF Spec

-----------------------------------------------------------------------------
(* The slow pace.  What pump() reads is the lock and runMeta, not the runs: *)
(* that they agree is the lock's invariant.                                 *)

\* An automatic run that holds a slot is seen as automation in flight, unless
\* its card is tainted: no queued run of the same card hides it.
LEMMA HeldAutomationIsSeen ==
  ASSUME TypeInv, LockInv, NEW s \in In(Held), ~IsOperator(s), ~Tainted(C(s))
  PROVE  C(s) \in AutomationInFlight
<1>1. s \in In(Active) /\ C(s) \in Cards
  BY JobTyped DEF In, Active, Held, Launching, Spawned, TypeInv, TypeOK
<1>2. C(s) \in inFlight /\ runMeta[C(s)] = s /\ s # None
  BY <1>1 DEF LockInv, LockIsExact, In
<1>3. C(s) \notin QueuedAutomation
  <2> SUFFICES ASSUME NEW q \in In({"queued"}), C(q) = C(s) PROVE FALSE
    BY DEF QueuedAutomation
  <2>1. q \in In(Active) /\ q # s
    BY DEF In, Active, Held, Launching, Spawned
  <2> QED BY <1>1, <2>1 DEF LockInv, LockIsExact
<1> QED BY <1>1, <1>2, <1>3 DEF AutomationInFlight

\* Only pump() takes a run from the queue to a slot.
LEMMA OnlyPumpAdmits ==
  ASSUME TypeInv, [Next]_vars, NEW r \in Runs,
         phase[r] = "queued", phase'[r] \in Held
  PROVE  PumpAdmits(r)
<1> USE DEF Held, Launching, Spawned
<1>0. phase \in [Runs -> Phases]
  BY DEF TypeInv, TypeOK, TypeRuns
<1>1. ASSUME NEW s \in Runs, RunStep(s)
      PROVE  PumpAdmits(r)
  <2>1. CASE PumpAdmits(s)
    BY <1>0, <2>1 DEF PumpAdmits
  <2>2. CASE PumpCancels(s)
    BY <1>0, <2>2 DEF PumpCancels
  <2>3. CASE \E n \in Runs : Redispatch(s, n)
    BY <1>0, <2>3 DEF Redispatch, NextBorn, Unborn, In, Redispatching
  <2>4. CASE \/ \E how \in {"cancelled", "no-op"} : SettlesUnspawned(s, how)
             \/ Reserves(s) \/ TreeReady(s) \/ LaunchFails(s) \/ Spawns(s)
    BY <1>0, <2>4
       DEF SettlesUnspawned, Reserves, TreeReady, LaunchFails, Spawns, Drop
  <2>5. CASE \/ CloseCancelled(s) \/ CloseClean(s) \/ CloseSessionLost(s)
             \/ CloseTimedOut(s) \/ JudgedResumable(s)
             \/ \E b \in BOOLEAN : CloseForJudgement(s, b) \/ Judged(s, b)
    BY <1>0, <2>5
       DEF CloseCancelled, CloseClean, CloseSessionLost, CloseTimedOut,
           JudgedResumable, CloseForJudgement, Judged, Closes, Settle
  <2> QED BY <1>1, <2>1, <2>2, <2>3, <2>4, <2>5 DEF RunStep
<1>2. CASE Ask
  BY <1>0, <1>2, AskedJob DEF Request, NextBorn, Unborn, In
<1>3. CASE PumpStops \/ RetryTimerFires \/ Cancel \/ Surroundings
             \/ UNCHANGED vars
  <2>1. phase' = phase
    BY <1>3 DEF PumpStops, RetryTimerFires, Cancel, ReleaseLive,
       ReleasePending, Surroundings, ArmBrake, BrakeLifts, WindowsPass,
       LoadMoves, PaceMoves, GateMoves, vars
  <2> QED BY <2>1
<1> QED BY <1>1, <1>2, <1>3 DEF Next

\* At the slow pace no automatic run is admitted while another one is
\* anywhere between its admission and its settle on an untainted card.
THEOREM SlowPaceIsSerial == Spec => SlowIsSerial
<1>1. ASSUME TypeInv, LockInv, [Next]_vars
      PROVE  \A r \in Runs :
                /\ phase[r] = "queued" /\ phase'[r] \in Held
                /\ ~IsOperator(r) /\ pace = "slow"
                => \A s \in In(Held) : IsOperator(s) \/ Tainted(C(s))
  <2> SUFFICES ASSUME NEW r \in Runs, phase[r] = "queued", phase'[r] \in Held,
                      ~IsOperator(r), pace = "slow"
               PROVE  \A s \in In(Held) : IsOperator(s) \/ Tainted(C(s))
    OBVIOUS
  <2>1. PumpAdmits(r)
    BY <1>1, OnlyPumpAdmits
  <2>2. ~PaceHolds
    BY <2>1 DEF PumpAdmits, Picked, First, Eligible, Admissible
  <2>3. AutomationInFlight = {}
    BY <2>2 DEF PaceHolds
  <2> QED BY <1>1, <2>3, HeldAutomationIsSeen
<1>2. TypeInv /\ LockInv /\ [Next]_vars
        => [\A r \in Runs :
              /\ phase[r] = "queued" /\ phase'[r] \in Held
              /\ ~IsOperator(r) /\ pace = "slow"
              => \A s \in In(Held) : IsOperator(s) \/ Tainted(C(s))]_vars
  BY <1>1
<1> QED BY <1>2, LockAlways, PTL DEF Spec, SlowIsSerial

-----------------------------------------------------------------------------
(* Work at rest.  Outside pump()'s loop the queue, the slots, the marks and *)
(* the lock stand still; the gate may open and the load may fall silently,  *)
(* so what waits for either must have an edge to wait for.                  *)

\* The lane of r has a slot.
LaneFree(r) ==
  /\ running < MaxConcurrent
  /\ IF IsHeavy(r) THEN runningHeavy < HeavyMax
     ELSE running - runningHeavy < LightMax

\* A queued run with a free lane: if it is light, nothing but the pace or the
\* gate holds it, and unless the pace does, a run or the timer will pump.
RestInv ==
  ~pumping => \A r \in In({"queued"}) : LaneFree(r) =>
     /\ ~IsHeavy(r) => ~IsOperator(r) /\ C(r) \notin cancelled
     /\ running > 0 \/ retryTimer \/ (~IsHeavy(r) /\ PaceHolds)

\* pump() leaves its loop.
LEMMA PumpLeavesRest ==
  ASSUME TypeInv, SlotsCounted, PumpStops
  PROVE  RestInv'
<1>1. /\ UNCHANGED <<job, phase, running, runningHeavy, inFlight, runMeta,
                     cancelled, pace>>
      /\ retryTimer' = (retryTimer \/ RetryNeeded)
      /\ Eligible(FALSE) = {} /\ Eligible(TRUE) = {}
  BY DEF PumpStops, slotVars, lockVars, envVars
<1>2. running > 0 \/ running = 0
  <2>1. Cardinality(In(Held)) \in Nat
    BY HoldersFinite, FS_CardinalityType
  <2> QED BY <2>1 DEF SlotsCounted
<1>3. PaceHolds' <=> PaceHolds
  BY <1>1 DEF PaceHolds, AutomationInFlight, QueuedAutomation, IsOperator, C,
              In
<1> SUFFICES ASSUME NEW r \in In({"queued"}), LaneFree(r)
             PROVE  /\ ~IsHeavy(r) => ~IsOperator(r) /\ C(r) \notin cancelled
                    /\ running > 0 \/ retryTimer'
                         \/ (~IsHeavy(r) /\ PaceHolds)
  BY <1>1, <1>3 DEF RestInv, LaneFree, IsHeavy, IsOperator, C, In
<1>4. CASE IsHeavy(r)
  <2>1. r \in InHeavy({"queued"})
    BY <1>4 DEF InHeavy
  <2>2. running = 0 => RetryNeeded
    BY <2>1 DEF RetryNeeded
  <2> QED BY <1>1, <1>2, <1>4, <2>2
<1>5. CASE ~IsHeavy(r)
  <2>1. ~Admissible(r) /\ phase[r] = "queued"
    BY <1>1, <1>5 DEF Eligible, LaneFree, In
  <2>2. ~IsOperator(r) /\ C(r) \notin cancelled /\ (PaceHolds \/ ~gateOpen)
    BY <2>1 DEF Admissible
  <2>3. C(r) \in QueuedAutomation
    BY <2>2 DEF QueuedAutomation
  <2>4. running = 0 => RetryNeeded \/ PaceHolds
    BY <2>2, <2>3 DEF RetryNeeded
  <2> QED BY <1>1, <1>2, <1>5, <2>2, <2>4
<1> QED BY <1>4, <1>5

\* Outside the loop nothing the invariant reads moves, but for the pace, whose
\* silent move is to hold everything.
LEMMA RestKept ==
  ASSUME TypeInv, RestInv, ~pumping' => ~pumping,
         ~pumping' =>
           /\ UNCHANGED <<job, slotVars, inFlight, runMeta, cancelled,
                          retryTimer>>
           /\ \A s \in Runs : phase'[s] = "queued" <=> phase[s] = "queued"
           /\ pace' = pace \/ pace' = "paused"
  PROVE  RestInv'
<1> SUFFICES ASSUME ~pumping' PROVE RestInv'
  BY DEF RestInv
<1>1. /\ In({"queued"})' = In({"queued"}) /\ QueuedAutomation' = QueuedAutomation
      /\ AutomationInFlight' = AutomationInFlight
  BY DEF In, QueuedAutomation, AutomationInFlight, IsOperator, C
<1>2. PaceHolds => PaceHolds'
  BY <1>1 DEF PaceHolds
<1>3. \A r \in In({"queued"}) :
         LaneFree(r)' =>
           /\ ~IsHeavy(r) => ~IsOperator(r) /\ C(r) \notin cancelled
           /\ running > 0 \/ retryTimer \/ (~IsHeavy(r) /\ PaceHolds)
  BY DEF RestInv, LaneFree, IsHeavy, slotVars
<1> QED BY <1>1, <1>2, <1>3 DEF RestInv, IsHeavy, IsOperator, C, slotVars

LEMMA RestStep ==
  TypeInv /\ SlotsCounted /\ RestInv /\ [Next]_vars => RestInv'
<1> SUFFICES ASSUME TypeInv, SlotsCounted, RestInv, [Next]_vars
             PROVE  RestInv'
  OBVIOUS
<1> USE DEF Unlock, slotVars, lockVars, envVars
<1>0. phase \in [Runs -> Phases]
  BY DEF TypeInv, TypeOK, TypeRuns
<1>1. CASE PumpStops
  BY <1>1, PumpLeavesRest
<1>2. CASE pumping'
  BY <1>2 DEF RestInv
<1>3. ASSUME NEW r \in Runs, RunStep(r), ~pumping'
      PROVE  RestInv'
  <2>1. CASE PumpAdmits(r) \/ PumpCancels(r)
    BY <1>3, <2>1 DEF PumpAdmits, PumpCancels
  <2>2. CASE \/ \E how \in {"cancelled", "no-op"} : SettlesUnspawned(r, how)
             \/ LaunchFails(r) \/ CloseCancelled(r) \/ CloseClean(r)
             \/ CloseSessionLost(r) \/ JudgedResumable(r)
             \/ \E b \in BOOLEAN : Judged(r, b)
    BY <1>3, <2>2
       DEF SettlesUnspawned, LaunchFails, CloseCancelled, CloseClean, Drop,
           CloseSessionLost, JudgedResumable, Judged, Settle
  <2>3. CASE \/ Reserves(r) \/ TreeReady(r) \/ Spawns(r) \/ CloseTimedOut(r)
             \/ \E b \in BOOLEAN : CloseForJudgement(r, b)
    <3>1. /\ UNCHANGED <<job, slotVars, inFlight, runMeta, cancelled,
                         retryTimer, pumping, pace>>
          /\ phase[r] # "queued"
      BY <1>3, <2>3
         DEF Reserves, TreeReady, Spawns, CloseTimedOut, CloseForJudgement,
             Closes, Drop
    <3>2. \E p \in Held : phase' = [phase EXCEPT ![r] = p]
      <4>1. CASE Reserves(r)
        BY <4>1 DEF Reserves, Held, Launching
      <4>2. CASE ~Reserves(r)
        BY <1>3, <2>3, <4>2
           DEF TreeReady, Spawns, CloseTimedOut, CloseForJudgement, Drop, Held,
               Launching, Spawned
      <4> QED BY <4>1, <4>2
    <3>3. \A s \in Runs : phase'[s] = "queued" <=> phase[s] = "queued"
      BY <1>0, <3>1, <3>2 DEF Held, Launching, Spawned
    <3> QED BY <3>1, <3>3, RestKept
  <2>4. CASE \E n \in Runs : Redispatch(r, n)
    <3>1. /\ UNCHANGED <<job, slotVars, inFlight, runMeta, cancelled,
                         retryTimer, pumping, pace>>
          /\ \E p \in {"left", "failed"} : phase' = [phase EXCEPT ![r] = p]
          /\ phase[r] # "queued"
      BY <1>3, <2>4 DEF Redispatch, RunSkill, Redispatching
    <3>2. \A s \in Runs : phase'[s] = "queued" <=> phase[s] = "queued"
      BY <1>0, <3>1
    <3> QED BY <3>1, <3>2, RestKept
  <2> QED BY <1>3, <2>1, <2>2, <2>3, <2>4 DEF RunStep
<1>4. CASE Ask /\ ~pumping'
  BY <1>4, AskedJob DEF Request, RunSkill
<1>5. CASE RetryTimerFires /\ ~pumping'
  BY <1>5 DEF RetryTimerFires
<1>6. CASE (Cancel \/ Surroundings \/ UNCHANGED vars) /\ ~pumping'
  <2>1. /\ ~pumping
        /\ UNCHANGED <<job, phase, slotVars, inFlight, runMeta, cancelled,
                       retryTimer>>
    BY <1>6 DEF Cancel, ReleaseLive, ReleasePending, Surroundings, ArmBrake,
       BrakeLifts, WindowsPass, LoadMoves, PaceMoves, GateMoves, Quiet, vars
  <2>2. pace' = pace \/ pace' = "paused"
    BY <1>6 DEF Cancel, ReleaseLive, ReleasePending, Surroundings, ArmBrake,
       BrakeLifts, WindowsPass, LoadMoves, PaceMoves, GateMoves, vars
  <2> QED BY <2>1, <2>2, RestKept
<1> QED BY <1>1, <1>2, <1>3, <1>4, <1>5, <1>6 DEF Next

\* When the engine is at rest, a queued run that pump() would admit waits for
\* an edge that will come, and none of the operator's light runs waits.
THEOREM NothingIsStranded == Spec => []NoStrandedWork
<1>1. Init => RestInv
  BY DEF Init, RestInv, In
<1>2. TypeInv /\ SlotsCounted /\ RestInv /\ [Next]_vars => RestInv'
  BY RestStep
<1>3. RestInv => NoStrandedWork
  <2> SUFFICES ASSUME RestInv, Quiet,
                      NEW r \in Eligible(FALSE) \cup Eligible(TRUE)
               PROVE  /\ running > 0 \/ retryTimer
                      /\ IsHeavy(r) \/ ~IsOperator(r)
    BY DEF NoStrandedWork
  <2>1. r \in In({"queued"}) /\ LaneFree(r) /\ Admissible(r)
    BY DEF Eligible, Admissible, LaneFree, In
  <2>2. /\ ~IsHeavy(r) => ~IsOperator(r) /\ C(r) \notin cancelled
        /\ running > 0 \/ retryTimer \/ (~IsHeavy(r) /\ PaceHolds)
    BY <2>1 DEF RestInv, Quiet
  <2>3. IsHeavy(r) \/ ~PaceHolds
    BY <2>1, <2>2 DEF Admissible
  <2> QED BY <2>2, <2>3
<1>4. Spec => []TypeInv
  <2>1. Init => TypeInv
    BY TypeInit
  <2>2. TypeInv /\ [Next]_vars => TypeInv'
    BY TypeStep
  <2> QED BY <2>1, <2>2, PTL DEF Spec
<1> QED BY <1>1, <1>2, <1>3, <1>4, SlotsAreCounted, PTL DEF Spec
=============================================================================
