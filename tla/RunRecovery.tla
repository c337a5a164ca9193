----------------------------- MODULE RunRecovery -----------------------------
(***************************************************************************)
(* Crash recovery of headless runs (runner/recovery.ts, recovery-sweep.ts, *)
(* journal.ts and the sweep's wiring in instrumentation.ts): the durable   *)
(* journal, the children that outlive the service in their own scopes, the *)
(* worktrees and branches on disk, and the recovery passes - one at boot,  *)
(* then one per sweep tick - that decide about each interrupted run.       *)
(*                                                                         *)
(* A pass awaits between its steps, and everything else goes on meanwhile. *)
(* The engine is abstracted to what a pass can see of it: one run per card *)
(* from acceptance to settle, and the hand-over to the merge train after.  *)
(* A launch is one acceptance by runSkill; its number stands for startedAt *)
(* and names its scope.  A session is named after its first launch.        *)
(***************************************************************************)
EXTENDS Naturals

CONSTANTS
  Cards,
  CodeCards,    \* cards whose trigger writes code, in a worktree of its own
  Passes,       \* how many passes may overlap
  Starves,      \* may a sweep run although the engine is busy
  WritesLag,    \* may a crash find a journal write still on its way
  MaxLaunches,  \* bound: launches
  MaxCrashes    \* bound: crashes

ASSUME RecoveryAssumption ==
  /\ CodeCards \subseteq Cards
  /\ Starves \in BOOLEAN /\ WritesLag \in BOOLEAN
  /\ MaxLaunches \in Nat /\ MaxCrashes \in Nat

Launches == 1..MaxLaunches

\* A journal entry; `unit` is the launch that runs in the recorded scope.
Entry == [sess: Launches \cup {0}, n: Launches \cup {0},
          status: {"none", "running", "done"}, tree: BOOLEAN,
          unit: Launches \cup {0}]
NoEntry == [sess |-> 0, n |-> 0, status |-> "none", tree |-> FALSE, unit |-> 0]

\* The engine's run of a card; `home` is where it works: a tree it must make,
\* a tree that exists, or the checkout.
Run == [sess: Launches \cup {0}, n: Launches \cup {0},
        phase: {"none", "queued", "creating", "ready", "live"},
        home: {"new", "tree", "root"}]
NoRun == [sess |-> 0, n |-> 0, phase |-> "none", home |-> "root"]

\* A pass: the entries it loaded, the sessions it protects, what it is about
\* to prune, the entry it is at, and the board as it read it once.
Pass == [pc: {"off", "loaded", "trees", "branches", "entry", "decide",
              "scope", "resume", "drop"},
         snap: [Cards -> Entry], todo: SUBSET Cards, cur: SUBSET Cards,
         keep: SUBSET Launches, dirs: SUBSET Launches,
         doomed: SUBSET Launches, read: BOOLEAN, seen: SUBSET Cards]
NoPass == [pc |-> "off", snap |-> [c \in Cards |-> NoEntry], todo |-> {},
           cur |-> {}, keep |-> {}, dirs |-> {}, doomed |-> {},
           read |-> FALSE, seen |-> {}]

VARIABLES
  service,   \* "down", "booting" (the boot pass is not done) or "up"
  crashes,   \* how often the service died
  born,      \* how many launches there were
  journal,   \* the entries in memory
  disk,      \* journal.json
  eng,       \* the engine's run of each card
  procs,     \* children, as [sess, n]; they live in scopes of their own
  trees,     \* sessions whose worktree is on disk
  branches,  \* sessions whose run/<id> branch exists
  settling,  \* <<card, session>> between settle and detach
  detached,  \* <<card, session>> between detach and enqueue
  queue,     \* sessions with an entry on the merge train; durable
  column,    \* cards that sit in the column whose trigger runs
  pass,      \* the recovery passes
  heirs      \* history: <<n, m>>, launch m resumed launch n

vars == <<service, crashes, born, journal, disk, eng, procs, trees, branches,
          settling, detached, queue, column, pass, heirs>>

fleet == <<procs, trees, branches, settling, detached, queue>>

-----------------------------------------------------------------------------
(* The journal: every write replaces the card's entry and is flushed later *)

Recorded(sess, n, tree, unit) ==
  [sess |-> sess, n |-> n, status |-> "running", tree |-> tree, unit |-> unit]

Finished(e) == [e EXCEPT !.status = "done"]

\* recordFinish as the engine calls it: the card's entry, whatever it is.
FinishEntry(c) == journal' = [journal EXCEPT ![c] = Finished(@)]

\* Every recordStart of a launch has a startedAt of its own.
Same(e, f) == e.n = f.n /\ e.tree = f.tree /\ e.unit = f.unit

\* Mutant: no compare-and-set.
ResolveAny(c, e) == FinishEntry(c)

\* recordFinish with `expect`: the entry is flipped only if it is still e.
Resolve(c, e) ==
  IF Same(journal[c], e) THEN FinishEntry(c) ELSE UNCHANGED journal

Flush ==
  /\ disk # journal /\ service # "down"
  /\ disk' = journal
  /\ UNCHANGED <<service, crashes, born, journal, eng, fleet, column, pass,
                 heirs>>

-----------------------------------------------------------------------------
(* The engine, as far as recovery sees it.                                 *)

Alive(sess, n) == [sess |-> sess, n |-> n] \in procs

\* runSkill accepts: the entry it records at enqueue has no tree and no scope.
Launch(c, sess, home) ==
  /\ eng[c] = NoRun /\ born < MaxLaunches
  /\ born' = born + 1
  /\ eng' = [eng EXCEPT ![c] = [sess |-> sess, n |-> born + 1,
                                phase |-> "queued", home |-> home]]
  /\ journal' = [journal EXCEPT ![c] = Recorded(sess, born + 1, FALSE, 0)]

\* A card enters the column and the cascade asks for a run.
Enter(c) ==
  /\ service = "up"
  /\ Launch(c, born + 1, IF c \in CodeCards THEN "new" ELSE "root")
  /\ column' = column \cup {c}
  /\ UNCHANGED <<service, crashes, disk, fleet, pass, heirs>>

\* git worktree add: the directory and the branch are there before the call
\* returns.
MakeTree(c) ==
  LET r == eng[c] IN
  /\ r.phase = "queued" /\ r.home = "new"
  /\ eng' = [eng EXCEPT ![c].phase = "creating"]
  /\ trees' = trees \cup {r.sess}
  /\ branches' = branches \cup {r.sess}
  /\ UNCHANGED <<service, crashes, born, journal, disk, procs, settling,
                 detached, queue, column, pass, heirs>>

\* The path of the tree, made or handed over, is recorded before the spawn.
TreeRecorded(c) ==
  LET r == eng[c] IN
  /\ \/ r.phase = "creating"
     \/ r.phase = "queued" /\ r.home = "tree"
  /\ eng' = [eng EXCEPT ![c].phase = "ready"]
  /\ journal' = [journal EXCEPT ![c] = Recorded(r.sess, r.n, TRUE, 0)]
  /\ UNCHANGED <<service, crashes, born, disk, fleet, column, pass, heirs>>

Spawn(c) ==
  LET r == eng[c] IN
  /\ \/ r.phase = "ready"
     \/ r.phase = "queued" /\ r.home = "root"
  /\ eng' = [eng EXCEPT ![c].phase = "live"]
  /\ procs' = procs \cup {[sess |-> r.sess, n |-> r.n]}
  /\ journal' = [journal EXCEPT
       ![c] = Recorded(r.sess, r.n, r.home # "root", r.n)]
  /\ UNCHANGED <<service, crashes, born, disk, trees, branches, settling,
                 detached, queue, column, pass, heirs>>

\* The child closed well; a run with a tree still has to commit, detach and
\* enqueue, without its lock.  The card may have moved on.
FinishOk(c) ==
  LET r == eng[c] IN
  /\ r.phase = "live" /\ Alive(r.sess, r.n)
  /\ eng' = [eng EXCEPT ![c] = NoRun]
  /\ procs' = procs \ {[sess |-> r.sess, n |-> r.n]}
  /\ FinishEntry(c)
  /\ settling' = IF r.home = "root" THEN settling ELSE settling \cup {<<c, r.sess>>}
  /\ column' \in {column, column \ {c}}
  /\ UNCHANGED <<service, crashes, born, disk, trees, branches, detached,
                 queue, pass, heirs>>

\* The child failed, or was killed by somebody: the tree goes.
FinishFailed(c) ==
  LET r == eng[c] IN
  /\ r.phase = "live"
  /\ eng' = [eng EXCEPT ![c] = NoRun]
  /\ procs' = procs \ {[sess |-> r.sess, n |-> r.n]}
  /\ FinishEntry(c)
  /\ trees' = IF r.home = "root" THEN trees ELSE trees \ {r.sess}
  /\ branches' = IF r.home = "root" THEN branches ELSE branches \ {r.sess}
  /\ UNCHANGED <<service, crashes, born, disk, settling, detached, queue,
                 column, pass, heirs>>

\* The child ran out of turns: tree and branch are kept, the entry stays
\* "running", and the session is dispatched again unless that is refused.
OutOfTurns(c) ==
  LET r == eng[c] IN
  /\ r.phase = "live" /\ Alive(r.sess, r.n)
  /\ procs' = procs \ {[sess |-> r.sess, n |-> r.n]}
  /\ \/ /\ eng' = [eng EXCEPT ![c] = NoRun]
        /\ UNCHANGED <<born, journal, heirs>>
     \/ /\ born < MaxLaunches
        /\ born' = born + 1
        /\ eng' = [eng EXCEPT ![c] =
             [sess |-> r.sess, n |-> born + 1, phase |-> "queued",
              home |-> IF r.home = "root" THEN "root" ELSE "tree"]]
        /\ journal' = [journal EXCEPT
             ![c] = Recorded(r.sess, born + 1, FALSE, 0)]
        /\ heirs' = heirs \cup {<<r.n, born + 1>>}
  /\ UNCHANGED <<service, crashes, disk, trees, branches, settling, detached,
                 queue, column, pass>>

\* commitDetachEnqueue: the work is committed and the tree removed, then the
\* branch enters the train.
Detach(c, s) ==
  /\ <<c, s>> \in settling /\ s \in trees
  /\ settling' = settling \ {<<c, s>>}
  /\ detached' = detached \cup {<<c, s>>}
  /\ trees' = trees \ {s}
  /\ UNCHANGED <<service, crashes, born, journal, disk, eng, procs, branches,
                 queue, column, pass, heirs>>

EnqueueMerge(c, s) ==
  /\ <<c, s>> \in detached
  /\ detached' = detached \ {<<c, s>>}
  /\ queue' = queue \cup {s}
  /\ UNCHANGED <<service, crashes, born, journal, disk, eng, procs, trees,
                 branches, settling, column, pass, heirs>>

\* The run had nothing to merge.
NothingToMerge(c, s) ==
  /\ <<c, s>> \in settling /\ s \in trees
  /\ settling' = settling \ {<<c, s>>}
  /\ trees' = trees \ {s} /\ branches' = branches \ {s}
  /\ UNCHANGED <<service, crashes, born, journal, disk, eng, procs, detached,
                 queue, column, pass, heirs>>

\* One of these steps fails, because the tree is gone or for any other
\* reason: what there is stays, and the card's entry is flipped.
MergeBackFails(c, s) ==
  /\ <<c, s>> \in settling \cup detached
  /\ settling' = settling \ {<<c, s>>} /\ detached' = detached \ {<<c, s>>}
  /\ FinishEntry(c)
  /\ UNCHANGED <<service, crashes, born, disk, eng, procs, trees, branches,
                 queue, column, pass, heirs>>

\* A child that outlived its service comes to its end, or is at last killed.
OrphanExits(x) ==
  /\ x \in procs
  /\ \A c \in Cards : eng[c].n # x.n
  /\ procs' = procs \ {x}
  /\ UNCHANGED <<service, crashes, born, journal, disk, eng, trees, branches,
                 settling, detached, queue, column, pass, heirs>>

-----------------------------------------------------------------------------
(* A recovery pass.                                                        *)

Interrupted == {c \in Cards : journal[c].status = "running"}

InFlight == {c \in Cards : eng[c] # NoRun}

Off(p) == pass[p].pc = "off"

Go(p, changed) == pass' = [pass EXCEPT ![p] = changed]

\* loadInterrupted, and the ids on the merge train.
Load(p) ==
  Go(p, [NoPass EXCEPT
    !.pc = "loaded", !.todo = Interrupted,
    !.snap = [c \in Cards |-> IF c \in Interrupted THEN journal[c] ELSE NoEntry],
    !.keep = {journal[c].sess : c \in Interrupted} \cup queue])

BootPass(p) ==
  /\ service = "booting" /\ \A q \in Passes : Off(q)
  /\ Load(p)
  /\ UNCHANGED <<service, crashes, born, journal, disk, eng, fleet, column,
                 heirs>>

\* Mutant: the sweep does not ask whether the engine is busy.
SweepAnyTime(p) ==
  /\ service = "up" /\ Off(p)
  /\ Load(p)
  /\ UNCHANGED <<service, crashes, born, journal, disk, eng, fleet, column,
                 heirs>>

\* runRecoverySweepTick: by the timer or because the engine went idle, when
\* nothing is in flight or after too many skips.
SweepPass(p) ==
  /\ service = "up" /\ Off(p)
  /\ InFlight = {} \/ Starves
  /\ Load(p)
  /\ UNCHANGED <<service, crashes, born, journal, disk, eng, fleet, column,
                 heirs>>

\* git worktree list; the trees of sessions nobody protects go.
ScanTrees(p) ==
  /\ pass[p].pc = "loaded"
  /\ Go(p, [pass[p] EXCEPT !.pc = "trees", !.dirs = trees,
                           !.doomed = trees \ pass[p].keep])
  /\ UNCHANGED <<service, crashes, born, journal, disk, eng, fleet, column,
                 heirs>>

\* removeWorktree; what the branch held is kept as failed/run/<id>.
PruneTree(p, s) ==
  /\ pass[p].pc = "trees" /\ s \in pass[p].doomed
  /\ Go(p, [pass[p] EXCEPT !.doomed = @ \ {s}])
  /\ trees' = trees \ {s}
  /\ branches' = branches \ {s}
  /\ UNCHANGED <<service, crashes, born, journal, disk, eng, procs, settling,
                 detached, queue, column, heirs>>

ScanBranches(p) ==
  /\ pass[p].pc = "trees" /\ pass[p].doomed = {}
  /\ Go(p, [pass[p] EXCEPT !.pc = "branches",
              !.doomed = branches \ (pass[p].dirs \cup pass[p].keep)])
  /\ UNCHANGED <<service, crashes, born, journal, disk, eng, fleet, column,
                 heirs>>

DisposeBranch(p, s) ==
  /\ pass[p].pc = "branches" /\ s \in pass[p].doomed
  /\ Go(p, [pass[p] EXCEPT !.doomed = @ \ {s}])
  /\ branches' = branches \ {s}
  /\ UNCHANGED <<service, crashes, born, journal, disk, eng, procs, trees,
                 settling, detached, queue, column, heirs>>

Reconciled(p) ==
  /\ pass[p].pc = "branches" /\ pass[p].doomed = {}
  /\ Go(p, [pass[p] EXCEPT !.pc = "entry", !.dirs = {}, !.keep = {}])
  /\ UNCHANGED <<service, crashes, born, journal, disk, eng, fleet, column,
                 heirs>>

\* killOrphan and stopScope, by the recorded scope: the child dies, or hangs
\* in the kernel in spite of the SIGKILL.
StopOrphan(p, c) ==
  LET x == [sess |-> pass[p].snap[c].sess, n |-> pass[p].snap[c].unit] IN
  /\ pass[p].pc = "entry" /\ c \in pass[p].todo
  /\ Go(p, [pass[p] EXCEPT !.pc = "decide", !.cur = {c}, !.todo = @ \ {c}])
  /\ procs' \in {procs, procs \ {x}}
  /\ UNCHANGED <<service, crashes, born, journal, disk, eng, trees, branches,
                 settling, detached, queue, column, heirs>>

\* decideRecovery over the board, read once per pass.
Decide(p, c) ==
  LET seen == IF pass[p].read THEN pass[p].seen ELSE column IN
  /\ pass[p].pc = "decide" /\ c \in pass[p].cur
  /\ Go(p, [pass[p] EXCEPT !.read = TRUE, !.seen = seen,
                           !.pc = IF c \in seen THEN "scope" ELSE "drop"])
  /\ UNCHANGED <<service, crashes, born, journal, disk, eng, fleet, column,
                 heirs>>

\* On to the next entry; what was read of this one is forgotten.
NextEntry(p) ==
  Go(p, [pass[p] EXCEPT
    !.pc = "entry", !.cur = {},
    !.snap = [c \in Cards |-> IF c \in pass[p].cur THEN NoEntry ELSE @[c]]])

\* Reap the tree the entry names, if it names one.
Cleanup(e) ==
  /\ trees' = IF e.tree THEN trees \ {e.sess} ELSE trees
  /\ branches' = IF e.tree THEN branches \ {e.sess} ELSE branches

Drop(p, c) ==
  /\ pass[p].pc = "drop" /\ c \in pass[p].cur
  /\ Cleanup(pass[p].snap[c])
  /\ Resolve(c, pass[p].snap[c])
  /\ NextEntry(p)
  /\ UNCHANGED <<service, crashes, born, disk, eng, procs, settling, detached,
                 queue, column, heirs>>

\* Mutant: the resume does not ask whether the scope is still active.
ProbeNothing(p, c) ==
  /\ pass[p].pc = "scope" /\ c \in pass[p].cur
  /\ Go(p, [pass[p] EXCEPT !.pc = "resume"])
  /\ UNCHANGED <<service, crashes, born, journal, disk, eng, fleet, column,
                 heirs>>

\* isScopeActive: a session a live orphan still owns is left for later.
ProbeScope(p, c) ==
  LET e == pass[p].snap[c] IN
  /\ pass[p].pc = "scope" /\ c \in pass[p].cur
  /\ IF Alive(e.sess, e.unit)
     THEN NextEntry(p)
     ELSE Go(p, [pass[p] EXCEPT !.pc = "resume"])
  /\ UNCHANGED <<service, crashes, born, journal, disk, eng, fleet, column,
                 heirs>>

\* Mutant: the entry of a run without a tree is left as it is.
TreeMissingKept(p, c) ==
  LET e == pass[p].snap[c] IN
  /\ pass[p].pc = "resume" /\ c \in pass[p].cur
  /\ e.tree /\ e.sess \notin trees
  /\ NextEntry(p)
  /\ UNCHANGED <<service, crashes, born, journal, disk, eng, fleet, column,
                 heirs>>

\* The tree is gone: the run is failed, nothing is spawned.
TreeMissing(p, c) ==
  LET e == pass[p].snap[c] IN
  /\ pass[p].pc = "resume" /\ c \in pass[p].cur
  /\ e.tree /\ e.sess \notin trees
  /\ Resolve(c, e)
  /\ NextEntry(p)
  /\ UNCHANGED <<service, crashes, born, disk, eng, fleet, column, heirs>>

TreeStands(e) == e.tree => e.sess \in trees

\* Mutant: a resumed run keeps the entry of the launch it resumes.
ResumeUnrecorded(p, c) ==
  LET e == pass[p].snap[c] IN
  /\ pass[p].pc = "resume" /\ c \in pass[p].cur /\ TreeStands(e)
  /\ eng[c] = NoRun /\ born < MaxLaunches
  /\ born' = born + 1
  /\ eng' = [eng EXCEPT ![c] =
       [sess |-> e.sess, n |-> born + 1, phase |-> "queued",
        home |-> IF e.tree THEN "tree" ELSE "root"]]
  /\ heirs' = heirs \cup {<<e.n, born + 1>>}
  /\ NextEntry(p)
  /\ UNCHANGED <<service, crashes, journal, disk, fleet, column>>

\* runSkill takes the session up again, in its tree when the entry names one.
Resume(p, c) ==
  LET e == pass[p].snap[c] IN
  /\ pass[p].pc = "resume" /\ c \in pass[p].cur /\ TreeStands(e)
  /\ Launch(c, e.sess, IF e.tree THEN "tree" ELSE "root")
  /\ heirs' = heirs \cup {<<e.n, born + 1>>}
  /\ NextEntry(p)
  /\ UNCHANGED <<service, crashes, disk, fleet, column>>

\* runSkill refuses - the card is in flight, or a limit is reached: the entry
\* is resolved if it is still this one, and its tree is reaped either way.
ResumeRefused(p, c) ==
  LET e == pass[p].snap[c] IN
  /\ pass[p].pc = "resume" /\ c \in pass[p].cur /\ TreeStands(e)
  /\ Cleanup(e)
  /\ Resolve(c, e)
  /\ NextEntry(p)
  /\ UNCHANGED <<service, crashes, born, disk, eng, procs, settling, detached,
                 queue, column, heirs>>

PassEnds(p) ==
  /\ pass[p].pc = "entry" /\ pass[p].todo = {}
  /\ Go(p, NoPass)
  /\ service' = "up"
  /\ UNCHANGED <<crashes, born, journal, disk, eng, fleet, column, heirs>>

-----------------------------------------------------------------------------
\* The service dies: memory is gone, the scopes are not.
Crash ==
  /\ service # "down" /\ crashes < MaxCrashes
  /\ WritesLag \/ disk = journal
  /\ service' = "down" /\ crashes' = crashes + 1
  /\ journal' = [c \in Cards |-> NoEntry]
  /\ eng' = [c \in Cards |-> NoRun]
  /\ settling' = {} /\ detached' = {}
  /\ pass' = [p \in Passes |-> NoPass]
  /\ UNCHANGED <<born, disk, procs, trees, branches, queue, column, heirs>>

Restart ==
  /\ service = "down"
  /\ service' = "booting" /\ journal' = disk
  /\ UNCHANGED <<crashes, born, disk, eng, fleet, column, pass, heirs>>

Init ==
  /\ service = "up" /\ crashes = 0 /\ born = 0
  /\ journal = [c \in Cards |-> NoEntry] /\ disk = journal
  /\ eng = [c \in Cards |-> NoRun]
  /\ procs = {} /\ trees = {} /\ branches = {}
  /\ settling = {} /\ detached = {} /\ queue = {} /\ column = {}
  /\ pass = [p \in Passes |-> NoPass] /\ heirs = {}

Works(c) ==
  MakeTree(c) \/ TreeRecorded(c) \/ Spawn(c) \/ FinishOk(c) \/ FinishFailed(c)
    \/ OutOfTurns(c)

HandsOver(c, s) ==
  Detach(c, s) \/ EnqueueMerge(c, s) \/ NothingToMerge(c, s)
    \/ MergeBackFails(c, s)

Reconciles(p) ==
  \/ ScanTrees(p) \/ ScanBranches(p) \/ Reconciled(p)
  \/ \E s \in Launches : PruneTree(p, s) \/ DisposeBranch(p, s)

Decides(p) ==
  \/ \E c \in Cards :
       \/ StopOrphan(p, c) \/ Decide(p, c) \/ Drop(p, c) \/ ProbeScope(p, c)
       \/ TreeMissing(p, c) \/ Resume(p, c) \/ ResumeRefused(p, c)
  \/ PassEnds(p)

Next ==
  \/ \E c \in Cards : Enter(c) \/ Works(c)
  \/ \E c \in Cards, s \in Launches : HandsOver(c, s)
  \/ \E x \in procs : OrphanExits(x)
  \/ \E p \in Passes :
       BootPass(p) \/ SweepPass(p) \/ Reconciles(p) \/ Decides(p)
  \/ Flush \/ Crash \/ Restart

Spec == Init /\ [][Next]_vars

\* The sweep's timer re-arms, a pass goes on to its end, the engine's watchdog
\* ends every run and the kernel every child.
Fairness ==
  /\ WF_vars(Restart) /\ WF_vars(Flush)
  /\ \A c \in Cards : WF_vars(Works(c))
  /\ \A x \in [sess: Launches, n: Launches] : WF_vars(OrphanExits(x))
  /\ \A p \in Passes :
       WF_vars(BootPass(p)) /\ WF_vars(SweepPass(p))
         /\ WF_vars(Reconciles(p)) /\ WF_vars(Decides(p))

LiveSpec == Spec /\ Fairness

-----------------------------------------------------------------------------
TypeOK ==
  /\ service \in {"down", "booting", "up"} /\ crashes \in Nat
  /\ born \in 0..MaxLaunches
  /\ journal \in [Cards -> Entry] /\ disk \in [Cards -> Entry]
  /\ eng \in [Cards -> Run]
  /\ procs \subseteq [sess: Launches, n: Launches]
  /\ trees \subseteq Launches /\ branches \subseteq Launches
  /\ settling \subseteq Cards \X Launches
  /\ detached \subseteq Cards \X Launches
  /\ queue \subseteq Launches /\ column \subseteq Cards
  /\ pass \in [Passes -> Pass]
  /\ heirs \subseteq Launches \X Launches

\* "NEVER resume into a session a live orphan still owns": two children never
\* own one session.
OneOwnerPerSession ==
  \A x, y \in procs : x.sess = y.sess => x = y

\* The compare-and-set: whatever stale entry a pass resolves, the entry of a
\* run in flight is left alone, so the next boot finds it.
PassesSpareEntries ==
  [][\A p \in Passes :
       Decides(p) => \A c \in InFlight : journal'[c] = journal[c]]_vars

\* An interrupted launch is taken up again at most once.
ResumedOnce == \A x, y \in heirs : x[1] = y[1] => x = y

\* "The resume never launched, so reap the tree we were going to reuse": what
\* a pass reaps for an entry is never the tree of a run in flight.
CleanupSparesRuns ==
  [][\A p \in Passes, c \in Cards :
       Drop(p, c) \/ ResumeRefused(p, c) =>
         \A d \in InFlight : eng[d].sess \in trees => eng[d].sess \in trees'
    ]_vars

\* The sweep "picks up an orphaned run": no entry stays "running" for good.
InterruptedDecided ==
  \A c \in Cards : journal[c].status = "running" ~> journal[c].status # "running"

-----------------------------------------------------------------------------
(* What the comments promise and the code does not keep.                   *)

\* A crash "still leaves a recoverable running entry": a run in flight has one.
JournalCoversRuns ==
  \A c \in InFlight :
     journal[c].n = eng[c].n /\ journal[c].status = "running"

\* A run that is handed to the merge train, or is working, has its branch:
\* "the reconciler must NEVER dispose" of it.
SettledBranchStands == \A x \in settling \cup detached : x[2] \in branches

\* "It can never race a freshly-created tree."
FreshTreeStands ==
  \A c \in Cards :
     eng[c].phase \in {"creating", "ready", "live"} /\ eng[c].home = "new"
       => eng[c].sess \in trees

\* "The tree is REUSED": a session that a pass takes up, and that had been
\* taken up before, is taken up in its tree if that stands.
ResumedInItsTree ==
  [][\A p \in Passes, c \in Cards :
       LET e == pass[p].snap[c] IN
       Resume(p, c) /\ e.sess \in trees /\ (\E n \in Launches : <<n, e.n>> \in heirs)
         => eng'[c].home = "tree"]_vars

\* recoverInterruptedRuns "is itself safe to re-run": no pass stops the child
\* of a run of this life.
PassesSpareLiveRuns ==
  \A c \in Cards :
     eng[c].phase = "live" => Alive(eng[c].sess, eng[c].n)

\* A deferred orphan is retried: an orphan in a known scope stays known.
OrphansAreKnown ==
  service = "up" =>
    \A x \in procs :
       \E c \in Cards : x.sess \in {journal[c].sess, eng[c].sess}
=============================================================================
