------------------------- MODULE RunRecovery_proofs -------------------------
(***************************************************************************)
(* What holds of crash recovery for every set of cards and any number of   *)
(* launches.  The variables keep their types.  As long as no sweep runs    *)
(* while the engine is busy, no pass resolves the journal entry of a run   *)
(* in flight, and if passes take turns none reaps its tree.  As long as no *)
(* crash loses a journal write, a session has one owner and, under all     *)
(* three conditions, what was interrupted is resumed at most once.         *)
(***************************************************************************)
EXTENDS RunRecovery, TLAPS

USE RecoveryAssumption

\* What TypeOK needs to be inductive: whatever may be run or resumed is named.
Named(e) == e.sess \in Launches /\ e.n \in Launches

EntriesNamed(j) == \A c \in Cards : j[c].status = "running" => Named(j[c])

RunsNamed == \A c \in Cards : eng[c] # NoRun => Named(eng[c])

PassNamed(x) ==
  /\ x.todo \cap x.cur = {} /\ \A c, d \in x.cur : c = d
  /\ \A c \in x.todo \cup x.cur : Named(x.snap[c])

TypeInv ==
  /\ TypeOK
  /\ EntriesNamed(journal) /\ EntriesNamed(disk) /\ RunsNamed
  /\ \A p \in Passes : PassNamed(pass[p])

LEMMA LaunchesAreNat == Launches \subseteq Nat /\ 0 \notin Launches
BY DEF Launches

LEMMA BlanksTyped ==
  /\ NoEntry \in Entry /\ NoEntry.n = 0 /\ NoEntry.status # "running"
  /\ NoRun \in Run /\ NoPass \in Pass /\ PassNamed(NoPass)
  /\ NoPass.pc = "off" /\ \A c \in Cards : NoPass.snap[c].n = 0
<1>1. /\ NoEntry \in Entry /\ NoEntry.n = 0 /\ NoEntry.status # "running"
      /\ NoRun \in Run
  BY DEF NoEntry, Entry, NoRun, Run
<1>2. NoPass \in Pass
  BY <1>1 DEF NoPass, Pass
<1>3. PassNamed(NoPass) /\ NoPass.pc = "off"
  BY DEF NoPass, PassNamed
<1>4. \A c \in Cards : NoPass.snap[c].n = 0
  BY <1>1 DEF NoPass
<1> QED BY <1>1, <1>2, <1>3, <1>4

\* The journal's operations keep it typed and named.
LEMMA RecordTyped ==
  ASSUME TypeInv, NEW c \in Cards, NEW sess \in Launches, NEW n \in Launches,
         NEW tree \in BOOLEAN, NEW unit \in Launches \cup {0},
         journal' = [journal EXCEPT ![c] = Recorded(sess, n, tree, unit)]
  PROVE  journal' \in [Cards -> Entry] /\ EntriesNamed(journal')
<1> DEFINE e == Recorded(sess, n, tree, unit)
<1>1. e \in Entry
  BY Zenon DEF Recorded, Entry
<1>2. Named(e)
  BY DEF Recorded, Named
<1>3. journal' = [journal EXCEPT ![c] = e]
  OBVIOUS
<1> HIDE DEF e
<1> QED BY <1>1, <1>2, <1>3 DEF TypeInv, TypeOK, EntriesNamed

LEMMA FinishedEntry ==
  ASSUME NEW e \in Entry
  PROVE  /\ Finished(e) \in Entry /\ Finished(e).status # "running"
         /\ Finished(e).n = e.n
BY DEF Finished, Entry

LEMMA FinishTyped ==
  ASSUME TypeInv, NEW c \in Cards, FinishEntry(c)
  PROVE  journal' \in [Cards -> Entry] /\ EntriesNamed(journal')
<1> DEFINE e == Finished(journal[c])
<1>1. e \in Entry
  BY FinishedEntry DEF TypeInv, TypeOK
<1>2. e.status # "running"
  BY FinishedEntry DEF TypeInv, TypeOK
<1>3. journal' = [journal EXCEPT ![c] = e]
  BY DEF TypeInv, TypeOK, FinishEntry
<1> HIDE DEF e
<1> QED BY <1>1, <1>2, <1>3 DEF TypeInv, TypeOK, EntriesNamed

LEMMA ResolveTyped ==
  ASSUME TypeInv, NEW c \in Cards, NEW e, Resolve(c, e)
  PROVE  journal' \in [Cards -> Entry] /\ EntriesNamed(journal')
<1>1. CASE FinishEntry(c)
  BY <1>1, FinishTyped
<1>2. CASE UNCHANGED journal
  BY <1>2 DEF TypeInv, TypeOK
<1> QED BY <1>1, <1>2 DEF Resolve

\* A run put in a card's place, or taken away.
LEMMA RunTyped ==
  ASSUME TypeInv, NEW c \in Cards, NEW r \in Run, r = NoRun \/ Named(r),
         eng' = [eng EXCEPT ![c] = r]
  PROVE  eng' \in [Cards -> Run] /\ RunsNamed'
BY DEF TypeInv, TypeOK, RunsNamed

LEMMA PhaseTyped ==
  ASSUME TypeInv, NEW c \in Cards, eng[c] # NoRun,
         NEW ph \in {"creating", "ready", "live"},
         eng' = [eng EXCEPT ![c].phase = ph]
  PROVE  eng' \in [Cards -> Run] /\ RunsNamed'
<1> DEFINE r == [eng[c] EXCEPT !.phase = ph]
<1>1. r \in Run /\ Named(r)
  BY DEF TypeInv, TypeOK, Run, RunsNamed, Named
<1>2. eng' = [eng EXCEPT ![c] = r]
  BY DEF TypeInv, TypeOK
<1> HIDE DEF r
<1> QED BY <1>1, <1>2, RunTyped

\* A pass moves on.
LEMMA GoTyped ==
  ASSUME TypeInv, NEW p \in Passes, NEW x \in Pass, PassNamed(x), Go(p, x)
  PROVE  pass' \in [Passes -> Pass] /\ \A q \in Passes : PassNamed(pass'[q])
BY DEF TypeInv, TypeOK, Go

LEMMA NextEntryTyped ==
  ASSUME TypeInv, NEW p \in Passes, NextEntry(p)
  PROVE  /\ pass' \in [Passes -> Pass]
         /\ \A q \in Passes : PassNamed(pass'[q])
<1> DEFINE s == [c \in Cards |-> IF c \in pass[p].cur THEN NoEntry
                                 ELSE pass[p].snap[c]]
           x == [pass[p] EXCEPT !.pc = "entry", !.cur = {}, !.snap = s]
<1>1. pass[p] \in Pass /\ PassNamed(pass[p])
  BY DEF TypeInv, TypeOK
<1>2. s \in [Cards -> Entry]
  BY <1>1, BlanksTyped DEF Pass
<1>3. x \in Pass /\ x.todo = pass[p].todo /\ x.cur = {} /\ x.snap = s
  BY <1>1, <1>2 DEF Pass
<1>4. \A c \in pass[p].todo : s[c] = pass[p].snap[c]
  BY <1>1 DEF PassNamed, Pass
<1>5. PassNamed(x)
  BY <1>1, <1>3, <1>4 DEF PassNamed
<1>6. Go(p, x)
  BY DEF NextEntry
<1> HIDE DEF x, s
<1> QED BY <1>3, <1>5, <1>6, GoTyped

LEMMA TypeInit == Init => TypeInv
<1> SUFFICES ASSUME Init PROVE TypeInv
  OBVIOUS
<1>1. TypeOK
  BY BlanksTyped DEF Init, TypeOK
<1>2. EntriesNamed(journal) /\ EntriesNamed(disk)
  BY BlanksTyped DEF Init, EntriesNamed
<1>3. RunsNamed
  BY DEF Init, RunsNamed
<1>4. \A p \in Passes : PassNamed(pass[p])
  BY BlanksTyped DEF Init
<1> QED BY <1>1, <1>2, <1>3, <1>4 DEF TypeInv

-----------------------------------------------------------------------------
(* Type correctness: the engine's steps.                                   *)

\* runSkill accepts a session.
LEMMA LaunchTyped ==
  ASSUME TypeInv, NEW c \in Cards, NEW sess \in Launches,
         NEW home \in {"new", "tree", "root"}, Launch(c, sess, home)
  PROVE  /\ born' \in 0..MaxLaunches /\ born + 1 \in Launches
         /\ eng' \in [Cards -> Run] /\ RunsNamed'
         /\ journal' \in [Cards -> Entry] /\ EntriesNamed(journal')
<1> DEFINE r == [sess |-> sess, n |-> born + 1, phase |-> "queued",
                 home |-> home]
<1>1. born + 1 \in Launches /\ born' \in 0..MaxLaunches
  BY DEF Launch, TypeInv, TypeOK, Launches
<1>2. r \in Run /\ Named(r)
  BY <1>1 DEF Run, Named
<1>3. eng' = [eng EXCEPT ![c] = r]
  BY DEF Launch
<1>4. eng' \in [Cards -> Run] /\ RunsNamed'
  <2> HIDE DEF r
  <2> QED BY <1>2, <1>3, RunTyped
<1>5. journal' \in [Cards -> Entry] /\ EntriesNamed(journal')
  BY <1>1, RecordTyped DEF Launch
<1> QED BY <1>1, <1>4, <1>5

\* A run in a phase of its own is named.
LEMMA RunKnown ==
  ASSUME TypeInv, NEW c \in Cards, eng[c].phase # "none"
  PROVE  /\ eng[c] # NoRun /\ eng[c] \in Run
         /\ eng[c].sess \in Launches /\ eng[c].n \in Launches
BY DEF TypeInv, TypeOK, RunsNamed, Named, NoRun

LEMMA WorksTyped ==
  ASSUME TypeInv, NEW c \in Cards, Works(c)
  PROVE  TypeInv'
<1> USE DEF fleet
<1>1. CASE MakeTree(c)
  <2>1. eng[c] # NoRun /\ eng[c].sess \in Launches
    BY <1>1, RunKnown DEF MakeTree
  <2>2. eng' \in [Cards -> Run] /\ RunsNamed'
    BY <1>1, <2>1, PhaseTyped DEF MakeTree
  <2> QED BY <1>1, <2>1, <2>2 DEF MakeTree, TypeInv, TypeOK
<1>2. CASE TreeRecorded(c)
  <2>1. eng[c] # NoRun /\ eng[c].sess \in Launches /\ eng[c].n \in Launches
    BY <1>2, RunKnown DEF TreeRecorded
  <2>2. eng' \in [Cards -> Run] /\ RunsNamed'
    BY <1>2, <2>1, PhaseTyped DEF TreeRecorded
  <2>3. journal' \in [Cards -> Entry] /\ EntriesNamed(journal')
    BY <1>2, <2>1, RecordTyped DEF TreeRecorded
  <2> QED BY <1>2, <2>2, <2>3 DEF TreeRecorded, TypeInv, TypeOK
<1>3. CASE Spawn(c)
  <2>1. eng[c] # NoRun /\ eng[c].sess \in Launches /\ eng[c].n \in Launches
    BY <1>3, RunKnown DEF Spawn
  <2>2. eng' \in [Cards -> Run] /\ RunsNamed'
    BY <1>3, <2>1, PhaseTyped DEF Spawn
  <2>3. journal' \in [Cards -> Entry] /\ EntriesNamed(journal')
    <3> DEFINE t == eng[c].home # "root"
    <3>1. t \in BOOLEAN
      OBVIOUS
    <3>2. journal' = [journal EXCEPT
             ![c] = Recorded(eng[c].sess, eng[c].n, t, eng[c].n)]
      BY <1>3 DEF Spawn
    <3> HIDE DEF t
    <3> QED BY <2>1, <3>1, <3>2, RecordTyped
  <2>4. procs' \subseteq [sess: Launches, n: Launches]
    BY <1>3, <2>1 DEF Spawn, TypeInv, TypeOK
  <2> QED BY <1>3, <2>2, <2>3, <2>4 DEF Spawn, TypeInv, TypeOK
<1>4. CASE FinishOk(c)
  <2>1. eng[c].sess \in Launches
    BY <1>4, RunKnown DEF FinishOk
  <2>2. eng' \in [Cards -> Run] /\ RunsNamed'
    BY <1>4, BlanksTyped, RunTyped DEF FinishOk
  <2>3. journal' \in [Cards -> Entry] /\ EntriesNamed(journal')
    BY <1>4, FinishTyped DEF FinishOk
  <2>4. /\ procs' \subseteq [sess: Launches, n: Launches]
        /\ settling' \subseteq Cards \X Launches /\ column' \subseteq Cards
    BY <1>4, <2>1 DEF FinishOk, TypeInv, TypeOK
  <2> QED BY <1>4, <2>2, <2>3, <2>4 DEF FinishOk, TypeInv, TypeOK
<1>5. CASE FinishFailed(c)
  <2>2. eng' \in [Cards -> Run] /\ RunsNamed'
    BY <1>5, BlanksTyped, RunTyped DEF FinishFailed
  <2>3. journal' \in [Cards -> Entry] /\ EntriesNamed(journal')
    BY <1>5, FinishTyped DEF FinishFailed
  <2>4. /\ procs' \subseteq [sess: Launches, n: Launches]
        /\ trees' \subseteq Launches /\ branches' \subseteq Launches
    BY <1>5 DEF FinishFailed, TypeInv, TypeOK
  <2> QED BY <1>5, <2>2, <2>3, <2>4 DEF FinishFailed, TypeInv, TypeOK
<1>6. CASE OutOfTurns(c)
  <2>1. eng[c].sess \in Launches /\ eng[c].n \in Launches
    BY <1>6, RunKnown DEF OutOfTurns
  <2>2. procs' \subseteq [sess: Launches, n: Launches]
    BY <1>6 DEF OutOfTurns, TypeInv, TypeOK
  <2>3. CASE eng' = [eng EXCEPT ![c] = NoRun]
                /\ UNCHANGED <<born, journal, heirs>>
    <3>1. eng' \in [Cards -> Run] /\ RunsNamed'
      BY <2>3, BlanksTyped, RunTyped
    <3> QED BY <1>6, <2>2, <2>3, <3>1 DEF OutOfTurns, TypeInv, TypeOK
  <2>4. CASE eng' # [eng EXCEPT ![c] = NoRun]
                \/ ~UNCHANGED <<born, journal, heirs>>
    <3> DEFINE h == IF eng[c].home = "root" THEN "root" ELSE "tree"
               r == [sess |-> eng[c].sess, n |-> born + 1,
                     phase |-> "queued", home |-> h]
    <3>1. /\ born < MaxLaunches /\ born' = born + 1
          /\ eng' = [eng EXCEPT ![c] = r]
          /\ journal' = [journal EXCEPT
               ![c] = Recorded(eng[c].sess, born + 1, FALSE, 0)]
          /\ heirs' = heirs \cup {<<eng[c].n, born + 1>>}
      BY <1>6, <2>4 DEF OutOfTurns
    <3>2. born + 1 \in Launches /\ born' \in 0..MaxLaunches
      BY <3>1 DEF TypeInv, TypeOK, Launches
    <3>3. r \in Run /\ Named(r)
      BY <2>1, <3>2 DEF Run, Named
    <3> HIDE DEF r
    <3>4. eng' \in [Cards -> Run] /\ RunsNamed'
      BY <3>1, <3>3, RunTyped
    <3>5. journal' \in [Cards -> Entry] /\ EntriesNamed(journal')
      BY <2>1, <3>1, <3>2, RecordTyped
    <3>6. heirs' \subseteq Launches \X Launches
      BY <2>1, <3>1, <3>2 DEF TypeInv, TypeOK
    <3> QED
      BY <1>6, <2>2, <3>2, <3>4, <3>5, <3>6 DEF OutOfTurns, TypeInv, TypeOK
  <2> QED BY <2>3, <2>4
<1> QED BY <1>1, <1>2, <1>3, <1>4, <1>5, <1>6 DEF Works

\* Everything else that is not a pass.
LEMMA WorldTyped ==
  ASSUME TypeInv,
         \/ \E c \in Cards : Enter(c)
         \/ \E c \in Cards, s \in Launches : HandsOver(c, s)
         \/ \E x \in procs : OrphanExits(x)
         \/ Flush \/ Crash \/ Restart
  PROVE  TypeInv'
<1> USE DEF fleet
<1>1. ASSUME NEW c \in Cards, Enter(c) PROVE TypeInv'
  <2> DEFINE h == IF c \in CodeCards THEN "new" ELSE "root"
  <2>1. Launch(c, born + 1, h)
    BY <1>1 DEF Enter
  <2>2. born + 1 \in Launches
    BY <2>1 DEF Launch, TypeInv, TypeOK, Launches
  <2>3. h \in {"new", "tree", "root"}
    OBVIOUS
  <2> HIDE DEF h
  <2>4. /\ born' \in 0..MaxLaunches
        /\ eng' \in [Cards -> Run] /\ RunsNamed'
        /\ journal' \in [Cards -> Entry] /\ EntriesNamed(journal')
    BY <2>1, <2>2, <2>3, LaunchTyped
  <2> QED BY <1>1, <2>4 DEF Enter, TypeInv, TypeOK
<1>2. ASSUME NEW c \in Cards, NEW s \in Launches,
             Detach(c, s) \/ EnqueueMerge(c, s) \/ NothingToMerge(c, s)
      PROVE  TypeInv'
  BY <1>2 DEF Detach, EnqueueMerge, NothingToMerge, TypeInv, TypeOK, RunsNamed
<1>3. ASSUME NEW c \in Cards, NEW s \in Launches, MergeBackFails(c, s)
      PROVE  TypeInv'
  <2>1. journal' \in [Cards -> Entry] /\ EntriesNamed(journal')
    BY <1>3, FinishTyped DEF MergeBackFails
  <2> QED BY <1>3, <2>1 DEF MergeBackFails, TypeInv, TypeOK, RunsNamed
<1>4. ASSUME NEW x \in procs, OrphanExits(x) PROVE TypeInv'
  BY <1>4 DEF OrphanExits, TypeInv, TypeOK, RunsNamed
<1>5. CASE Flush
  BY <1>5 DEF Flush, TypeInv, TypeOK, RunsNamed
<1>6. CASE Crash
  <2>1. /\ journal' \in [Cards -> Entry] /\ EntriesNamed(journal')
        /\ eng' \in [Cards -> Run] /\ RunsNamed'
    BY <1>6, BlanksTyped DEF Crash, EntriesNamed, RunsNamed
  <2>2. /\ pass' \in [Passes -> Pass]
        /\ \A p \in Passes : PassNamed(pass'[p])
    BY <1>6, BlanksTyped DEF Crash
  <2> QED BY <1>6, <2>1, <2>2 DEF Crash, TypeInv, TypeOK
<1>7. CASE Restart
  BY <1>7 DEF Restart, TypeInv, TypeOK, RunsNamed
<1> QED
  BY <1>1, <1>2, <1>3, <1>4, <1>5, <1>6, <1>7 DEF HandsOver

-----------------------------------------------------------------------------
(* Type correctness: the steps of a pass.                                  *)

LEMMA LoadTyped ==
  ASSUME TypeInv, NEW p \in Passes, Load(p)
  PROVE  /\ pass' \in [Passes -> Pass]
         /\ \A q \in Passes : PassNamed(pass'[q])
<1> DEFINE s == [c \in Cards |-> IF c \in Interrupted THEN journal[c]
                                 ELSE NoEntry]
           k == {journal[c].sess : c \in Interrupted} \cup queue
           x == [NoPass EXCEPT !.pc = "loaded", !.todo = Interrupted,
                               !.snap = s, !.keep = k]
<1>1. s \in [Cards -> Entry]
  BY BlanksTyped DEF TypeInv, TypeOK
<1>2. \A c \in Interrupted : c \in Cards /\ s[c] = journal[c] /\ Named(s[c])
  BY DEF TypeInv, EntriesNamed, Interrupted
<1>3. k \subseteq Launches
  BY <1>2 DEF Named, TypeInv, TypeOK
<1>4. Interrupted \subseteq Cards
  BY DEF Interrupted
<1> HIDE DEF s, k
<1>5. x \in Pass /\ x.todo = Interrupted /\ x.cur = {} /\ x.snap = s
  BY <1>1, <1>3, <1>4, BlanksTyped DEF Pass, NoPass
<1>6. PassNamed(x)
  BY <1>2, <1>5 DEF PassNamed
<1>7. Go(p, x)
  BY DEF Load, s, k
<1> HIDE DEF x
<1> QED BY <1>5, <1>6, <1>7, GoTyped

\* A step that moves the pass on within an entry, or before the entries.
LEMMA MoveTyped ==
  ASSUME TypeInv, NEW p \in Passes, NEW x \in Pass, Go(p, x),
         x.snap = pass[p].snap, x.cur \cap x.todo = {},
         \A c, d \in x.cur : c = d,
         x.cur \cup x.todo \subseteq pass[p].cur \cup pass[p].todo
  PROVE  /\ pass' \in [Passes -> Pass]
         /\ \A q \in Passes : PassNamed(pass'[q])
<1>1. PassNamed(x)
  BY DEF TypeInv, PassNamed
<1> QED BY <1>1, GoTyped

LEMMA CleanupTyped ==
  ASSUME TypeInv, NEW e, Cleanup(e)
  PROVE  trees' \subseteq Launches /\ branches' \subseteq Launches
BY DEF Cleanup, TypeInv, TypeOK

LEMMA PassStartTyped ==
  ASSUME TypeInv, NEW p \in Passes, BootPass(p) \/ SweepPass(p)
  PROVE  TypeInv'
<1>1. /\ pass' \in [Passes -> Pass]
      /\ \A q \in Passes : PassNamed(pass'[q])
  BY LoadTyped DEF BootPass, SweepPass
<1> QED BY <1>1 DEF BootPass, SweepPass, TypeInv, TypeOK, RunsNamed, fleet

LEMMA ReconcilesTyped ==
  ASSUME TypeInv, NEW p \in Passes, Reconciles(p)
  PROVE  TypeInv'
<1> USE DEF fleet
<1> DEFINE o == pass[p]
           Moved == /\ pass' \in [Passes -> Pass]
                    /\ \A q \in Passes : PassNamed(pass'[q])
<1>1. o \in Pass /\ o.cur \cap o.todo = {} /\ \A c, d \in o.cur : c = d
  BY DEF TypeInv, TypeOK, PassNamed
<1>2. CASE ScanTrees(p)
  <2> DEFINE x == [o EXCEPT !.pc = "trees", !.dirs = trees,
                            !.doomed = trees \ o.keep]
  <2>1. x \in Pass /\ x.snap = o.snap /\ x.cur = o.cur /\ x.todo = o.todo
    BY <1>1 DEF Pass, TypeInv, TypeOK
  <2>2. Go(p, x)
    BY <1>2 DEF ScanTrees
  <2>3. Moved
    <3> HIDE DEF x
    <3> QED BY <1>1, <2>1, <2>2, MoveTyped
  <2> QED BY <1>2, <2>3 DEF ScanTrees, TypeInv, TypeOK, RunsNamed
<1>3. CASE ScanBranches(p)
  <2> DEFINE x == [o EXCEPT !.pc = "branches",
                            !.doomed = branches \ (o.dirs \cup o.keep)]
  <2>1. x \in Pass /\ x.snap = o.snap /\ x.cur = o.cur /\ x.todo = o.todo
    BY <1>1 DEF Pass, TypeInv, TypeOK
  <2>2. Go(p, x)
    BY <1>3 DEF ScanBranches
  <2>3. Moved
    <3> HIDE DEF x
    <3> QED BY <1>1, <2>1, <2>2, MoveTyped
  <2> QED BY <1>3, <2>3 DEF ScanBranches, TypeInv, TypeOK, RunsNamed
<1>4. CASE Reconciled(p)
  <2> DEFINE x == [o EXCEPT !.pc = "entry", !.dirs = {}, !.keep = {}]
  <2>1. x \in Pass /\ x.snap = o.snap /\ x.cur = o.cur /\ x.todo = o.todo
    BY <1>1 DEF Pass
  <2>2. Go(p, x)
    BY <1>4 DEF Reconciled
  <2>3. Moved
    <3> HIDE DEF x
    <3> QED BY <1>1, <2>1, <2>2, MoveTyped
  <2> QED BY <1>4, <2>3 DEF Reconciled, TypeInv, TypeOK, RunsNamed
<1>5. ASSUME NEW s \in Launches, PruneTree(p, s) \/ DisposeBranch(p, s)
      PROVE  TypeInv'
  <2> DEFINE x == [o EXCEPT !.doomed = @ \ {s}]
  <2>1. x \in Pass /\ x.snap = o.snap /\ x.cur = o.cur /\ x.todo = o.todo
    BY <1>1 DEF Pass
  <2>2. Go(p, x)
    BY <1>5 DEF PruneTree, DisposeBranch
  <2>3. Moved
    <3> HIDE DEF x
    <3> QED BY <1>1, <2>1, <2>2, MoveTyped
  <2>4. trees' \subseteq Launches /\ branches' \subseteq Launches
    BY <1>5 DEF PruneTree, DisposeBranch, TypeInv, TypeOK
  <2> QED BY <1>5, <2>3, <2>4
          DEF PruneTree, DisposeBranch, TypeInv, TypeOK, RunsNamed
<1> QED BY <1>2, <1>3, <1>4, <1>5 DEF Reconciles

LEMMA DecidesTyped ==
  ASSUME TypeInv, NEW p \in Passes, Decides(p)
  PROVE  TypeInv'
<1> USE DEF fleet
<1> DEFINE o == pass[p]
           Moved == /\ pass' \in [Passes -> Pass]
                    /\ \A q \in Passes : PassNamed(pass'[q])
<1>1. o \in Pass /\ o.cur \cap o.todo = {} /\ \A c, d \in o.cur : c = d
  BY DEF TypeInv, TypeOK, PassNamed
<1>2. NextEntry(p) => Moved
  BY NextEntryTyped
<1>3. ASSUME NEW c \in Cards, StopOrphan(p, c) PROVE TypeInv'
  <2> DEFINE x == [o EXCEPT !.pc = "decide", !.cur = {c}, !.todo = @ \ {c}]
  <2>1. x \in Pass /\ x.snap = o.snap /\ x.cur = {c} /\ x.todo = o.todo \ {c}
    BY <1>1 DEF Pass
  <2>2. Go(p, x) /\ c \in o.todo
    BY <1>3 DEF StopOrphan
  <2>3. Moved
    <3> HIDE DEF x
    <3> QED BY <2>1, <2>2, MoveTyped
  <2>4. procs' \subseteq [sess: Launches, n: Launches]
    BY <1>3 DEF StopOrphan, TypeInv, TypeOK
  <2> QED BY <1>3, <2>3, <2>4 DEF StopOrphan, TypeInv, TypeOK, RunsNamed
<1>4. ASSUME NEW c \in Cards, Decide(p, c) PROVE TypeInv'
  <2> DEFINE seen == IF o.read THEN o.seen ELSE column
             x == [o EXCEPT !.read = TRUE, !.seen = seen,
                            !.pc = IF c \in seen THEN "scope" ELSE "drop"]
  <2>1. seen \subseteq Cards
    BY <1>1 DEF Pass, TypeInv, TypeOK
  <2>2. Go(p, x)
    BY <1>4 DEF Decide
  <2> HIDE DEF seen
  <2>3. x \in Pass /\ x.snap = o.snap /\ x.cur = o.cur /\ x.todo = o.todo
    BY <1>1, <2>1 DEF Pass
  <2>4. Moved
    <3> HIDE DEF x
    <3> QED BY <1>1, <2>2, <2>3, MoveTyped
  <2> QED BY <1>4, <2>4 DEF Decide, TypeInv, TypeOK, RunsNamed
<1>5. ASSUME NEW c \in Cards, Drop(p, c) PROVE TypeInv'
  <2>1. /\ trees' \subseteq Launches /\ branches' \subseteq Launches
        /\ journal' \in [Cards -> Entry] /\ EntriesNamed(journal')
    BY <1>5, CleanupTyped, ResolveTyped DEF Drop
  <2> QED BY <1>2, <1>5, <2>1 DEF Drop, TypeInv, TypeOK, RunsNamed
<1>6. ASSUME NEW c \in Cards, ProbeScope(p, c) PROVE TypeInv'
  <2> DEFINE x == [o EXCEPT !.pc = "resume"]
  <2>1. x \in Pass /\ x.snap = o.snap /\ x.cur = o.cur /\ x.todo = o.todo
    BY <1>1 DEF Pass
  <2>2. NextEntry(p) \/ Go(p, x)
    BY <1>6 DEF ProbeScope
  <2>3. Moved
    <3> HIDE DEF x
    <3> QED BY <1>1, <1>2, <2>1, <2>2, MoveTyped
  <2> QED BY <1>6, <2>3 DEF ProbeScope, TypeInv, TypeOK, RunsNamed
<1>7. ASSUME NEW c \in Cards, TreeMissing(p, c) PROVE TypeInv'
  <2>1. journal' \in [Cards -> Entry] /\ EntriesNamed(journal')
    BY <1>7, ResolveTyped DEF TreeMissing
  <2> QED BY <1>2, <1>7, <2>1 DEF TreeMissing, TypeInv, TypeOK, RunsNamed
<1>8. ASSUME NEW c \in Cards, Resume(p, c) PROVE TypeInv'
  <2> DEFINE e == o.snap[c]
             h == IF e.tree THEN "tree" ELSE "root"
  <2>1. e.sess \in Launches /\ e.n \in Launches
    BY <1>8 DEF Resume, TypeInv, PassNamed, Named
  <2>2. Launch(c, e.sess, h) /\ h \in {"new", "tree", "root"}
    BY <1>8 DEF Resume
  <2> HIDE DEF h
  <2>3. /\ born' \in 0..MaxLaunches /\ born + 1 \in Launches
        /\ eng' \in [Cards -> Run] /\ RunsNamed'
        /\ journal' \in [Cards -> Entry] /\ EntriesNamed(journal')
    BY <2>1, <2>2, LaunchTyped
  <2>4. heirs' \subseteq Launches \X Launches
    BY <1>8, <2>1, <2>3 DEF Resume, TypeInv, TypeOK
  <2> QED BY <1>2, <1>8, <2>3, <2>4 DEF Resume, TypeInv, TypeOK
<1>9. ASSUME NEW c \in Cards, ResumeRefused(p, c) PROVE TypeInv'
  <2>1. /\ trees' \subseteq Launches /\ branches' \subseteq Launches
        /\ journal' \in [Cards -> Entry] /\ EntriesNamed(journal')
    BY <1>9, CleanupTyped, ResolveTyped DEF ResumeRefused
  <2> QED BY <1>2, <1>9, <2>1 DEF ResumeRefused, TypeInv, TypeOK, RunsNamed
<1>10. CASE PassEnds(p)
  <2>1. Moved
    BY <1>10, BlanksTyped, GoTyped DEF PassEnds
  <2> QED BY <1>10, <2>1 DEF PassEnds, TypeInv, TypeOK, RunsNamed
<1> QED
  BY <1>3, <1>4, <1>5, <1>6, <1>7, <1>8, <1>9, <1>10 DEF Decides

LEMMA TypeStep == TypeInv /\ [Next]_vars => TypeInv'
<1> SUFFICES ASSUME TypeInv, [Next]_vars PROVE TypeInv'
  OBVIOUS
<1>1. CASE UNCHANGED vars
  BY <1>1 DEF vars, fleet, TypeInv, TypeOK, RunsNamed
<1>2. CASE Next
  BY <1>2, WorksTyped, WorldTyped, PassStartTyped, ReconcilesTyped,
     DecidesTyped DEF Next
<1> QED BY <1>1, <1>2

\* Every variable of journal, engine, disk and passes keeps its type.
THEOREM RecoveryTyped == Spec => []TypeOK
<1>1. TypeInv => TypeOK
  BY DEF TypeInv
<1> QED BY <1>1, TypeInit, TypeStep, PTL DEF Spec

-----------------------------------------------------------------------------
(* No pass resolves the entry of a run in flight.                          *)

\* A pass loads while nothing is in flight, so the run of a card that a pass
\* meets is a later launch than the entry it holds.
Numbered ==
  \A c \in Cards :
    /\ journal[c].n <= born /\ disk[c].n <= born
    /\ eng[c] # NoRun => eng[c].n <= born

SnapsNumbered == \A p \in Passes, c \in Cards : pass[p].snap[c].n <= born

SnapsStale ==
  \A p \in Passes, c \in Cards : eng[c] # NoRun => pass[p].snap[c].n # eng[c].n

\* Before the boot pass nothing runs, and without a service nothing at all.
BootIsIdle ==
  /\ service = "down" => InFlight = {} /\ \A p \in Passes : Off(p)
  /\ service = "booting" /\ (\A p \in Passes : Off(p)) => InFlight = {}

\* The entry of a card whose run is in flight is that run's.
EntryIsTheRuns == \A c \in Cards : eng[c] # NoRun => journal[c].n = eng[c].n

CoverInv ==
  TypeInv /\ Numbered /\ SnapsNumbered /\ SnapsStale /\ BootIsIdle
    /\ EntryIsTheRuns

LEMMA CoverInit == Init => CoverInv
<1> SUFFICES ASSUME Init PROVE CoverInv
  OBVIOUS
<1>1. InFlight = {}
  BY DEF Init, InFlight
<1>2. Numbered
  <2>1. \A c \in Cards : journal[c] = NoEntry /\ disk[c] = NoEntry
                        /\ eng[c] = NoRun
    BY DEF Init
  <2>2. 0 <= born /\ NoEntry.n = 0
    BY BlanksTyped DEF Init
  <2> QED BY <2>1, <2>2 DEF Numbered
<1>3. SnapsNumbered
  <2>1. \A p \in Passes : pass[p] = NoPass
    BY DEF Init
  <2>2. 0 <= born /\ \A c \in Cards : NoPass.snap[c].n = 0
    BY BlanksTyped DEF Init
  <2> QED BY <2>1, <2>2 DEF SnapsNumbered
<1>4. SnapsStale
  BY DEF Init, SnapsStale
<1>5. BootIsIdle
  BY DEF Init, BootIsIdle
<1>6. EntryIsTheRuns
  BY <1>1 DEF EntryIsTheRuns, InFlight
<1> QED BY TypeInit, <1>2, <1>3, <1>4, <1>5, <1>6 DEF CoverInv

\* The numbers of entries and runs are numbers.
LEMMA NumbersTyped ==
  ASSUME TypeInv
  PROVE  /\ born \in Nat
         /\ \A c \in Cards : journal[c].n \in Nat /\ disk[c].n \in Nat
                             /\ eng[c].n \in Nat
         /\ \A p \in Passes, c \in Cards : pass[p].snap[c].n \in Nat
<1>1. Launches \cup {0} \subseteq Nat
  BY LaunchesAreNat
<1>2. \A p \in Passes, c \in Cards : pass[p].snap[c] \in Entry
  BY DEF TypeInv, TypeOK, Pass
<1> QED BY <1>1, <1>2 DEF TypeInv, TypeOK, Entry, Run

\* A new launch of card c, by whoever asks.
LEMMA LaunchCovers ==
  ASSUME CoverInv, NEW c \in Cards, NEW sess, NEW tree, NEW unit, NEW ph,
         NEW home, born' = born + 1, UNCHANGED disk,
         eng' = [eng EXCEPT ![c] = [sess |-> sess, n |-> born + 1,
                                    phase |-> ph, home |-> home]],
         journal' = [journal EXCEPT ![c] =
                       Recorded(sess, born + 1, tree, unit)],
         \A p \in Passes, d \in Cards :
           pass'[p].snap[d].n \in {pass[p].snap[d].n, 0}
  PROVE  Numbered' /\ SnapsNumbered' /\ SnapsStale' /\ EntryIsTheRuns'
<1>1. /\ journal'[c].n = born + 1 /\ journal'[c].status = "running"
      /\ eng'[c].n = born + 1
  BY DEF CoverInv, TypeInv, TypeOK, Recorded
<1>2. \A d \in Cards \ {c} : journal'[d] = journal[d] /\ eng'[d] = eng[d]
  BY DEF CoverInv, TypeInv, TypeOK
<1>3. \A d \in Cards : eng[d] # NoRun => eng[d].n # 0
  BY LaunchesAreNat DEF CoverInv, TypeInv, RunsNamed, Named
<1>4. Numbered'
  BY <1>1, <1>2, NumbersTyped DEF CoverInv, Numbered
<1>5. SnapsNumbered'
  BY NumbersTyped DEF CoverInv, SnapsNumbered
<1>6. SnapsStale'
  BY <1>1, <1>2, <1>3, NumbersTyped DEF CoverInv, SnapsNumbered, SnapsStale
<1>7. EntryIsTheRuns'
  BY <1>1, <1>2 DEF CoverInv, EntryIsTheRuns, InFlight
<1> QED BY <1>4, <1>5, <1>6, <1>7

\* Steps that start no run, and change no entry of a card whose run goes on.
LEMMA QuietCovers ==
  ASSUME CoverInv, UNCHANGED <<born, disk>>,
         \A c \in Cards :
           /\ journal'[c].n = journal[c].n
           /\ eng'[c] # NoRun =>
                eng[c] # NoRun /\ eng'[c].n = eng[c].n,
         \A p \in Passes, c \in Cards :
           pass'[p].snap[c].n \in {pass[p].snap[c].n, 0}
  PROVE  Numbered' /\ SnapsNumbered' /\ SnapsStale' /\ EntryIsTheRuns'
<1>1. \A c \in Cards : eng[c] # NoRun => eng[c].n # 0
  BY LaunchesAreNat DEF CoverInv, TypeInv, RunsNamed, Named
<1>2. Numbered'
  BY DEF CoverInv, Numbered
<1>3. SnapsNumbered'
  BY NumbersTyped DEF CoverInv, SnapsNumbered
<1>4. SnapsStale'
  BY <1>1 DEF CoverInv, SnapsStale
<1>5. EntryIsTheRuns'
  BY DEF CoverInv, EntryIsTheRuns, InFlight
<1> QED BY <1>2, <1>3, <1>4, <1>5

\* Flipping an entry leaves its number, and the other entries.
LEMMA FinishKeeps ==
  ASSUME TypeInv, NEW c \in Cards, FinishEntry(c)
  PROVE  /\ \A d \in Cards : journal'[d].n = journal[d].n
         /\ \A d \in Cards \ {c} : journal'[d] = journal[d]
<1> DEFINE e == Finished(journal[c])
<1>1. e.n = journal[c].n
  BY FinishedEntry DEF TypeInv, TypeOK
<1>2. journal' = [journal EXCEPT ![c] = e]
  BY DEF FinishEntry, TypeInv, TypeOK
<1> HIDE DEF e
<1> QED BY <1>1, <1>2 DEF TypeInv, TypeOK

\* The compare-and-set spares a run in flight.
LEMMA ResolveCovers ==
  ASSUME CoverInv, NEW p \in Passes, NEW c \in Cards,
         Resolve(c, pass[p].snap[c])
  PROVE  \A d \in Cards :
           /\ journal'[d].n = journal[d].n
           /\ eng[d] # NoRun => journal'[d] = journal[d]
<1>1. eng[c] # NoRun => ~Same(journal[c], pass[p].snap[c])
  BY DEF CoverInv, EntryIsTheRuns, SnapsStale, Same
<1>2. CASE Same(journal[c], pass[p].snap[c])
  <2>1. TypeInv /\ FinishEntry(c)
    BY <1>2 DEF Resolve, CoverInv
  <2>2. /\ \A d \in Cards : journal'[d].n = journal[d].n
        /\ \A d \in Cards \ {c} : journal'[d] = journal[d]
    BY <2>1, FinishKeeps
  <2> QED BY <1>1, <1>2, <2>2
<1>3. CASE ~Same(journal[c], pass[p].snap[c])
  BY <1>3 DEF Resolve
<1> QED BY <1>2, <1>3

\* What the passes hold when one of them goes on to its next entry ...
LEMMA NextEntryMoves ==
  ASSUME TypeInv, NEW p \in Passes, NextEntry(p)
  PROVE  /\ \A q \in Passes, c \in Cards :
              pass'[q].snap[c].n \in {pass[q].snap[c].n, 0}
         /\ pass'[p].pc # "off"
<1> DEFINE s == [c \in Cards |-> IF c \in pass[p].cur THEN NoEntry
                                 ELSE pass[p].snap[c]]
           x == [pass[p] EXCEPT !.pc = "entry", !.cur = {}, !.snap = s]
<1>1. x.snap = s /\ x.pc = "entry"
  BY DEF TypeInv, TypeOK, Pass
<1>2. \A c \in Cards : s[c].n \in {pass[p].snap[c].n, 0}
  BY BlanksTyped
<1>3. Go(p, x)
  BY DEF NextEntry
<1> HIDE DEF x, s
<1> QED BY <1>1, <1>2, <1>3 DEF Go, TypeInv, TypeOK

\* ... and when it moves on within one.
LEMMA GoMoves ==
  ASSUME TypeInv, NEW p \in Passes, NEW x, Go(p, x), x.snap = pass[p].snap
  PROVE  /\ \A q \in Passes, c \in Cards :
              pass'[q].snap[c].n \in {pass[q].snap[c].n, 0}
         /\ pass'[p] = x
BY DEF Go, TypeInv, TypeOK

\* A pass that goes on keeps the boot idle.
LEMMA PassOn ==
  ASSUME CoverInv, NEW p \in Passes, pass[p].pc # "off", pass'[p].pc # "off",
         UNCHANGED service
  PROVE  BootIsIdle'
BY DEF CoverInv, BootIsIdle, Off

LEMMA WorksCovers ==
  ASSUME CoverInv, NEW c \in Cards, Works(c)
  PROVE  CoverInv'
<1> USE DEF fleet
<1> DEFINE Good == Numbered' /\ SnapsNumbered' /\ SnapsStale'
                     /\ EntryIsTheRuns'
<1>1. /\ eng[c].phase # "none" /\ UNCHANGED <<service, pass, disk>>
  BY DEF Works, MakeTree, TreeRecorded, Spawn, FinishOk, FinishFailed,
     OutOfTurns
<1>2. eng[c] # NoRun /\ journal[c].n = eng[c].n
  BY <1>1, RunKnown DEF CoverInv, EntryIsTheRuns, InFlight
<1>3. BootIsIdle'
  BY <1>1, <1>2 DEF CoverInv, BootIsIdle, InFlight, Off
<1>4. \A p \in Passes, d \in Cards :
         pass'[p].snap[d].n \in {pass[p].snap[d].n, 0}
  BY <1>1
<1>5. CASE MakeTree(c)
  <2>1. eng' = [eng EXCEPT ![c].phase = "creating"]
        /\ UNCHANGED <<born, journal>>
    BY <1>5 DEF MakeTree
  <2>2. \A d \in Cards : eng'[d].n = eng[d].n
                        /\ (d # c => eng'[d] = eng[d])
    BY <2>1 DEF CoverInv, TypeInv, TypeOK, Run
  <2>3. Good
    BY <1>1, <1>2, <1>4, <2>1, <2>2, QuietCovers
  <2> QED BY <1>3, <2>3, WorksTyped DEF CoverInv
<1>6. CASE TreeRecorded(c) \/ Spawn(c)
  <2>1. \E tree, unit, ph :
          /\ eng' = [eng EXCEPT ![c].phase = ph]
          /\ journal' = [journal EXCEPT
               ![c] = Recorded(eng[c].sess, eng[c].n, tree, unit)]
    BY <1>6 DEF TreeRecorded, Spawn
  <2>2. \A d \in Cards : eng'[d].n = eng[d].n
                        /\ (d # c => eng'[d] = eng[d])
    BY <2>1 DEF CoverInv, TypeInv, TypeOK, Run
  <2>3. \A d \in Cards : journal'[d].n = journal[d].n
    BY <1>2, <2>1 DEF CoverInv, TypeInv, TypeOK, Recorded
  <2>4. UNCHANGED born
    BY <1>6 DEF TreeRecorded, Spawn
  <2>5. Good
    BY <1>1, <1>2, <1>4, <2>2, <2>3, <2>4, QuietCovers
  <2> QED BY <1>3, <2>5, WorksTyped DEF CoverInv
<1>7. CASE FinishOk(c) \/ FinishFailed(c)
  <2>1. /\ eng' = [eng EXCEPT ![c] = NoRun] /\ UNCHANGED born
        /\ FinishEntry(c)
    BY <1>7 DEF FinishOk, FinishFailed
  <2>2. eng'[c] = NoRun /\ \A d \in Cards \ {c} : eng'[d] = eng[d]
    BY <2>1 DEF CoverInv, TypeInv, TypeOK
  <2>3. TypeInv /\ FinishEntry(c)
    BY <2>1 DEF CoverInv
  <2>4. \A d \in Cards : journal'[d].n = journal[d].n
    BY <2>3, FinishKeeps
  <2>5. Good
    BY <1>1, <1>4, <2>1, <2>2, <2>4, QuietCovers
  <2> QED BY <1>3, <2>5, WorksTyped DEF CoverInv
<1>8. CASE OutOfTurns(c)
  <2>1. CASE eng' = [eng EXCEPT ![c] = NoRun] /\ UNCHANGED <<born, journal>>
    <3>1. eng'[c] = NoRun /\ \A d \in Cards \ {c} : eng'[d] = eng[d]
      BY <2>1 DEF CoverInv, TypeInv, TypeOK
    <3>2. Good
      BY <1>1, <1>4, <2>1, <3>1, QuietCovers
    <3> QED BY <1>3, <3>2, WorksTyped DEF CoverInv
  <2>2. CASE ~(eng' = [eng EXCEPT ![c] = NoRun] /\ UNCHANGED <<born, journal>>)
    <3> DEFINE h == IF eng[c].home = "root" THEN "root" ELSE "tree"
    <3>1. /\ born' = born + 1
          /\ eng' = [eng EXCEPT ![c] =
               [sess |-> eng[c].sess, n |-> born + 1, phase |-> "queued",
                home |-> h]]
          /\ journal' = [journal EXCEPT
               ![c] = Recorded(eng[c].sess, born + 1, FALSE, 0)]
      BY <1>8, <2>2 DEF OutOfTurns
    <3> HIDE DEF h
    <3>2. Good
      BY <1>1, <1>4, <3>1, LaunchCovers
    <3> QED BY <1>3, <3>2, WorksTyped DEF CoverInv
  <2> QED BY <2>1, <2>2
<1> QED BY <1>5, <1>6, <1>7, <1>8 DEF Works

LEMMA WorldCovers ==
  ASSUME CoverInv,
         \/ \E c \in Cards : Enter(c)
         \/ \E c \in Cards, s \in Launches : HandsOver(c, s)
         \/ \E x \in procs : OrphanExits(x)
         \/ Flush \/ Crash \/ Restart
  PROVE  CoverInv'
<1> USE DEF fleet
<1>0. TypeInv'
  BY WorldTyped DEF CoverInv
<1>1. ASSUME NEW c \in Cards, Enter(c) PROVE CoverInv'
  <2> DEFINE h == IF c \in CodeCards THEN "new" ELSE "root"
  <2>1. Launch(c, born + 1, h) /\ UNCHANGED <<disk, pass, service>>
        /\ service = "up"
    BY <1>1 DEF Enter
  <2> HIDE DEF h
  <2>2. Numbered' /\ SnapsNumbered' /\ SnapsStale' /\ EntryIsTheRuns'
    BY <2>1, LaunchCovers DEF Launch
  <2>3. BootIsIdle'
    BY <2>1 DEF BootIsIdle
  <2> QED BY <1>0, <2>2, <2>3 DEF CoverInv
<1>2. ASSUME \/ \E c \in Cards, s \in Launches : HandsOver(c, s)
             \/ \E x \in procs : OrphanExits(x)
      PROVE  CoverInv'
  <2>1. UNCHANGED <<service, born, disk, eng, pass>>
    BY <1>2 DEF HandsOver, Detach, EnqueueMerge, NothingToMerge,
       MergeBackFails, OrphanExits
  <2>2. UNCHANGED journal \/ \E c \in Cards : FinishEntry(c)
    BY <1>2 DEF HandsOver, Detach, EnqueueMerge, NothingToMerge,
       MergeBackFails, OrphanExits
  <2>3. \A c \in Cards : journal'[c].n = journal[c].n
    <3>1. CASE UNCHANGED journal
      BY <3>1
    <3>2. ASSUME NEW c \in Cards, FinishEntry(c)
          PROVE  \A d \in Cards : journal'[d].n = journal[d].n
      <4>1. TypeInv
        BY DEF CoverInv
      <4> QED BY <3>2, <4>1, FinishKeeps
    <3> QED BY <2>2, <3>1, <3>2
  <2>4. Numbered' /\ SnapsNumbered' /\ SnapsStale' /\ EntryIsTheRuns'
    BY <2>1, <2>3, QuietCovers
  <2>5. BootIsIdle'
    BY <2>1 DEF CoverInv, BootIsIdle, Off, InFlight
  <2> QED BY <1>0, <2>4, <2>5 DEF CoverInv
<1>3. CASE Flush
  <2>1. UNCHANGED <<service, born, journal, eng, pass>> /\ disk' = journal
    BY <1>3 DEF Flush
  <2> QED BY <1>0, <2>1 DEF CoverInv, Numbered, SnapsNumbered, SnapsStale,
             BootIsIdle, Off, EntryIsTheRuns, InFlight
<1>4. CASE Crash
  <2>1. /\ \A c \in Cards : eng'[c] = NoRun /\ journal'[c] = NoEntry
        /\ \A p \in Passes : pass'[p] = NoPass
        /\ UNCHANGED <<born, disk>>
    BY <1>4 DEF Crash
  <2>2. InFlight' = {} /\ \A p \in Passes : Off(p)'
    BY <2>1, BlanksTyped DEF InFlight, Off
  <2>3. Numbered'
    <3>1. 0 <= born
      BY NumbersTyped DEF CoverInv
    <3> QED BY <2>1, <3>1, BlanksTyped DEF CoverInv, Numbered
  <2>4. SnapsNumbered'
    <3>1. 0 <= born
      BY NumbersTyped DEF CoverInv
    <3> QED BY <2>1, <3>1, BlanksTyped DEF SnapsNumbered
  <2>5. SnapsStale' /\ EntryIsTheRuns' /\ BootIsIdle'
    BY <2>1, <2>2 DEF SnapsStale, EntryIsTheRuns, BootIsIdle
  <2> QED BY <1>0, <2>3, <2>4, <2>5 DEF CoverInv
<1>5. CASE Restart
  <2>1. /\ UNCHANGED <<born, disk, eng, pass>> /\ journal' = disk
        /\ InFlight = {}
    BY <1>5 DEF Restart, CoverInv, BootIsIdle
  <2>2. InFlight' = {}
    BY <2>1 DEF InFlight
  <2>3. service' = "booting"
    BY <1>5 DEF Restart
  <2>4. Numbered' /\ SnapsNumbered' /\ SnapsStale'
    BY <2>1 DEF CoverInv, Numbered, SnapsNumbered, SnapsStale
  <2>5. EntryIsTheRuns' /\ BootIsIdle'
    BY <2>2, <2>3 DEF EntryIsTheRuns, BootIsIdle, InFlight
  <2> QED BY <1>0, <2>4, <2>5 DEF CoverInv
<1> QED BY <1>1, <1>2, <1>3, <1>4, <1>5

\* A pass starts: under the idle gate nothing is in flight when it loads.
LEMMA PassStartCovers ==
  ASSUME ~Starves, CoverInv, NEW p \in Passes, BootPass(p) \/ SweepPass(p)
  PROVE  CoverInv'
<1>1. /\ InFlight = {} /\ Load(p) /\ service # "down"
      /\ UNCHANGED <<service, born, journal, disk, eng>>
  BY DEF BootPass, SweepPass, CoverInv, BootIsIdle
<1>2. TypeInv'
  BY PassStartTyped DEF CoverInv
<1>3. \A c \in Cards : eng[c] = NoRun
  BY <1>1 DEF InFlight
<1>4. Numbered' /\ SnapsStale' /\ EntryIsTheRuns'
  BY <1>1, <1>3 DEF CoverInv, Numbered, SnapsStale, EntryIsTheRuns,
     InFlight
<1> DEFINE s == [c \in Cards |-> IF c \in Interrupted THEN journal[c]
                                 ELSE NoEntry]
           x == [NoPass EXCEPT !.pc = "loaded", !.todo = Interrupted,
                  !.snap = s,
                  !.keep = {journal[c].sess : c \in Interrupted} \cup queue]
<1>5. x.snap = s /\ x.pc = "loaded" /\ Go(p, x)
  BY <1>1 DEF Load, NoPass
<1>6. \A c \in Cards : s[c].n <= born
  <2>1. 0 <= born
    BY NumbersTyped DEF CoverInv
  <2> QED BY <2>1, BlanksTyped DEF CoverInv, Numbered
<1> HIDE DEF x, s
<1>7. pass'[p] = x /\ \A q \in Passes \ {p} : pass'[q] = pass[q]
  BY <1>5 DEF Go, CoverInv, TypeInv, TypeOK
<1>8. SnapsNumbered'
  BY <1>1, <1>5, <1>6, <1>7 DEF CoverInv, SnapsNumbered
<1>9. BootIsIdle'
  BY <1>1, <1>3, <1>5, <1>7 DEF BootIsIdle, InFlight
<1> QED BY <1>2, <1>4, <1>8, <1>9 DEF CoverInv

LEMMA ReconcilesCovers ==
  ASSUME CoverInv, NEW p \in Passes, Reconciles(p)
  PROVE  CoverInv'
<1>1. TypeInv'
  BY ReconcilesTyped DEF CoverInv
<1>2. /\ UNCHANGED <<service, born, journal, disk, eng>>
      /\ pass[p].pc # "off"
      /\ \E x : Go(p, x) /\ x.snap = pass[p].snap /\ x.pc # "off"
  <2> DEFINE o == pass[p]
  <2>1. o \in Pass
    BY DEF CoverInv, TypeInv, TypeOK
  <2>2. CASE ScanTrees(p)
    <3> DEFINE x == [o EXCEPT !.pc = "trees", !.dirs = trees,
                              !.doomed = trees \ o.keep]
    <3>1. Go(p, x) /\ x.snap = o.snap /\ x.pc # "off"
      BY <2>1, <2>2 DEF ScanTrees, Pass
    <3> QED BY <2>2, <3>1 DEF ScanTrees, fleet
  <2>3. CASE ScanBranches(p)
    <3> DEFINE x == [o EXCEPT !.pc = "branches",
                              !.doomed = branches \ (o.dirs \cup o.keep)]
    <3>1. Go(p, x) /\ x.snap = o.snap /\ x.pc # "off"
      BY <2>1, <2>3 DEF ScanBranches, Pass
    <3> QED BY <2>3, <3>1 DEF ScanBranches, fleet
  <2>4. CASE Reconciled(p)
    <3> DEFINE x == [o EXCEPT !.pc = "entry", !.dirs = {}, !.keep = {}]
    <3>1. Go(p, x) /\ x.snap = o.snap /\ x.pc # "off"
      BY <2>1, <2>4 DEF Reconciled, Pass
    <3> QED BY <2>4, <3>1 DEF Reconciled, fleet
  <2>5. CASE \E s \in Launches : PruneTree(p, s) \/ DisposeBranch(p, s)
    <3>1. PICK s \in Launches : PruneTree(p, s) \/ DisposeBranch(p, s)
      BY <2>5
    <3> DEFINE x == [o EXCEPT !.doomed = @ \ {s}]
    <3>2. Go(p, x) /\ o.pc # "off"
      BY <3>1 DEF PruneTree, DisposeBranch
    <3>3. x.snap = o.snap /\ x.pc # "off"
      BY <2>1, <3>2 DEF Pass
    <3> QED BY <3>1, <3>2, <3>3 DEF PruneTree, DisposeBranch
  <2> QED BY <2>2, <2>3, <2>4, <2>5 DEF Reconciles
<1>3. PICK x : Go(p, x) /\ x.snap = pass[p].snap /\ x.pc # "off"
  BY <1>2
<1>4. /\ \A q \in Passes, c \in Cards :
           pass'[q].snap[c].n \in {pass[q].snap[c].n, 0}
      /\ pass'[p].pc # "off"
  BY <1>3, GoMoves DEF CoverInv
<1>5. Numbered' /\ SnapsNumbered' /\ SnapsStale' /\ EntryIsTheRuns'
  BY <1>2, <1>4, QuietCovers
<1>6. BootIsIdle'
  BY <1>2, <1>4, PassOn
<1> QED BY <1>1, <1>5, <1>6 DEF CoverInv

LEMMA DecidesCovers ==
  ASSUME CoverInv, NEW p \in Passes, Decides(p)
  PROVE  CoverInv'
<1> USE DEF fleet
<1> DEFINE o == pass[p]
           Good == Numbered' /\ SnapsNumbered' /\ SnapsStale'
                     /\ EntryIsTheRuns'
           Moved == /\ \A q \in Passes, c \in Cards :
                         pass'[q].snap[c].n \in {pass[q].snap[c].n, 0}
                    /\ pass'[p].pc # "off"
<1>0. TypeInv'
  BY DecidesTyped DEF CoverInv
<1>1. o \in Pass
  BY DEF CoverInv, TypeInv, TypeOK
<1>2. NextEntry(p) => Moved
  BY NextEntryMoves DEF CoverInv
<1>3. ASSUME NEW x, Go(p, x), x.snap = o.snap, x.pc # "off" PROVE Moved
  BY <1>3, GoMoves DEF CoverInv
<1>4. ASSUME Moved, o.pc # "off",
             UNCHANGED <<service, born, journal, disk, eng>>
      PROVE  CoverInv'
  <2>1. Good
    BY <1>4, QuietCovers
  <2> QED BY <1>0, <1>4, <2>1, PassOn DEF CoverInv
<1>5. ASSUME NEW c \in Cards, Moved, o.pc # "off", Resolve(c, o.snap[c]),
             UNCHANGED <<service, born, disk, eng>>
      PROVE  CoverInv'
  <2>1. \A d \in Cards : /\ journal'[d].n = journal[d].n
                         /\ eng[d] # NoRun => journal'[d] = journal[d]
    BY <1>5, ResolveCovers
  <2>2. Good
    BY <1>5, <2>1, QuietCovers
  <2> QED BY <1>0, <1>5, <2>2, PassOn DEF CoverInv
<1>6. ASSUME NEW c \in Cards, StopOrphan(p, c) PROVE CoverInv'
  <2> DEFINE x == [o EXCEPT !.pc = "decide", !.cur = {c}, !.todo = @ \ {c}]
  <2>1. x.snap = o.snap /\ x.pc # "off" /\ Go(p, x) /\ o.pc # "off"
    BY <1>1, <1>6 DEF StopOrphan, Pass
  <2>2. Moved
    <3> HIDE DEF x
    <3> QED BY <1>3, <2>1
  <2> QED BY <1>4, <1>6, <2>1, <2>2 DEF StopOrphan
<1>7. ASSUME NEW c \in Cards, Decide(p, c) PROVE CoverInv'
  <2> DEFINE seen == IF o.read THEN o.seen ELSE column
             x == [o EXCEPT !.read = TRUE, !.seen = seen,
                            !.pc = IF c \in seen THEN "scope" ELSE "drop"]
  <2>1. Go(p, x) /\ o.pc # "off"
    BY <1>7 DEF Decide
  <2> HIDE DEF seen
  <2>2. x.snap = o.snap /\ x.pc # "off"
    BY <1>1 DEF Pass
  <2>3. Moved
    <3> HIDE DEF x
    <3> QED BY <1>3, <2>1, <2>2
  <2> QED BY <1>4, <1>7, <2>1, <2>3 DEF Decide
<1>8. ASSUME NEW c \in Cards, ProbeScope(p, c) PROVE CoverInv'
  <2> DEFINE x == [o EXCEPT !.pc = "resume"]
  <2>1. x.snap = o.snap /\ x.pc # "off"
    BY <1>1 DEF Pass
  <2>2. (NextEntry(p) \/ Go(p, x)) /\ o.pc # "off"
    BY <1>8 DEF ProbeScope
  <2>3. Moved
    <3> HIDE DEF x
    <3> QED BY <1>2, <1>3, <2>1, <2>2
  <2> QED BY <1>4, <1>8, <2>2, <2>3 DEF ProbeScope
<1>9. ASSUME NEW c \in Cards,
             Drop(p, c) \/ TreeMissing(p, c) \/ ResumeRefused(p, c)
      PROVE  CoverInv'
  <2>1. /\ NextEntry(p) /\ o.pc # "off" /\ Resolve(c, o.snap[c])
        /\ UNCHANGED <<service, born, disk, eng>>
    BY <1>9 DEF Drop, TreeMissing, ResumeRefused
  <2>2. Moved
    BY <1>2, <2>1
  <2> HIDE DEF Moved
  <2> QED BY <1>5, <2>1, <2>2
<1>10. ASSUME NEW c \in Cards, Resume(p, c) PROVE CoverInv'
  <2> DEFINE h == IF o.snap[c].tree THEN "tree" ELSE "root"
  <2>1. /\ NextEntry(p) /\ o.pc # "off" /\ Launch(c, o.snap[c].sess, h)
        /\ UNCHANGED <<service, disk>>
    BY <1>10 DEF Resume
  <2> HIDE DEF h
  <2>2. Moved
    BY <1>2, <2>1
  <2>3. Good
    BY <2>1, <2>2, LaunchCovers DEF Launch
  <2> QED BY <1>0, <2>1, <2>2, <2>3, PassOn DEF CoverInv
<1>11. CASE PassEnds(p)
  <2>1. /\ UNCHANGED <<born, journal, disk, eng>> /\ service' = "up"
        /\ Go(p, NoPass)
    BY <1>11 DEF PassEnds
  <2>2. \A q \in Passes, c \in Cards :
           pass'[q].snap[c].n \in {pass[q].snap[c].n, 0}
    BY <2>1, BlanksTyped DEF Go, CoverInv, TypeInv, TypeOK
  <2>3. Good
    BY <2>1, <2>2, QuietCovers
  <2>4. BootIsIdle'
    BY <2>1 DEF BootIsIdle
  <2> QED BY <1>0, <2>3, <2>4 DEF CoverInv
<1> QED
  BY <1>6, <1>7, <1>8, <1>9, <1>10, <1>11 DEF Decides

LEMMA CoverStep ==
  ASSUME ~Starves, CoverInv, [Next]_vars
  PROVE  CoverInv'
<1>1. CASE UNCHANGED vars
  <2>1. TypeInv'
    BY TypeStep DEF CoverInv
  <2> QED BY <1>1, <2>1 DEF vars, CoverInv, Numbered, SnapsNumbered,
             SnapsStale, BootIsIdle, Off, EntryIsTheRuns, InFlight
<1>2. CASE Next
  BY <1>2, WorksCovers, WorldCovers, PassStartCovers, ReconcilesCovers,
     DecidesCovers DEF Next
<1> QED BY <1>1, <1>2

\* What a pass decides leaves the entries of runs in flight alone.
LEMMA DecidesSpare ==
  ASSUME CoverInv, NEW p \in Passes, Decides(p), NEW c \in InFlight
  PROVE  journal'[c] = journal[c]
<1>1. c \in Cards /\ eng[c] # NoRun
  BY DEF InFlight
<1>2. ASSUME NEW d \in Cards, Resolve(d, pass[p].snap[d])
      PROVE  journal'[c] = journal[c]
  BY <1>1, <1>2, ResolveCovers
<1>3. ASSUME NEW d \in Cards, Resume(p, d) PROVE journal'[c] = journal[c]
  BY <1>1, <1>3 DEF Resume, Launch, CoverInv, TypeInv, TypeOK
<1>4. CASE UNCHANGED journal
  BY <1>4
<1> QED
  BY <1>2, <1>3, <1>4 DEF Decides, StopOrphan, Decide, Drop, ProbeScope,
     TreeMissing, ResumeRefused, PassEnds

\* recordFinish's compare-and-set: as long as sweeps wait for an idle engine,
\* no pass touches the entry of a run in flight, whatever it resolves and
\* however many passes overlap - so the next boot finds the run.
THEOREM PassesLeaveRunsAlone ==
  ASSUME ~Starves
  PROVE  Spec => PassesSpareEntries
<1> DEFINE Spare == \A p \in Passes :
                      Decides(p) => \A c \in InFlight : journal'[c] = journal[c]
<1>1. CoverInv /\ [Next]_vars => CoverInv'
  BY CoverStep
<1>2. CoverInv /\ [Next]_vars => [Spare]_vars
  BY DecidesSpare
<1>3. Spec => [][Spare]_vars
  BY CoverInit, <1>1, <1>2, PTL DEF Spec
<1> QED BY <1>3 DEF PassesSpareEntries
-----------------------------------------------------------------------------
(* Most steps are quiet: no launch begins, nothing is recorded as running, *)
(* passes only go on with what they loaded, and a child that is not the    *)
(* child of a run any more is gone.                                        *)

Ahead(p) == pass[p].todo \cup pass[p].cur

PassesShrink ==
  \A p \in Passes :
    /\ Ahead(p)' \subseteq Ahead(p)
    /\ \A c \in Cards : pass'[p].snap[c] \in {pass[p].snap[c], NoEntry}
    /\ \A c \in Ahead(p)' : pass'[p].snap[c] = pass[p].snap[c]

\* A pass comes to the resume of an entry past the probe of its scope.
Probed ==
  \A p \in Passes : pass'[p].pc = "resume" =>
    \A c \in pass'[p].cur :
      \/ pass[p].pc = "resume" /\ c \in pass[p].cur
      \/ ~Alive(pass[p].snap[c].sess, pass[p].snap[c].unit)

Flipped == \A c \in Cards : journal'[c] \in {journal[c], Finished(journal[c])}

RunsEnd ==
  \A c \in Cards :
    \/ eng'[c] = eng[c]
    \/ /\ eng[c].phase = "queued"
       /\ eng'[c] = [eng[c] EXCEPT !.phase = "creating"]
    \/ /\ eng'[c] = NoRun /\ eng[c].phase = "live"
       /\ [sess |-> eng[c].sess, n |-> eng[c].n] \notin procs'

Quiet ==
  /\ UNCHANGED <<born, disk, heirs>> /\ (service' = "down" => service = "down")
  /\ procs' \subseteq procs
  /\ Flipped /\ RunsEnd /\ PassesShrink /\ Probed

LEMMA GoShrinks ==
  ASSUME TypeInv, NEW p \in Passes, NEW x, Go(p, x), x.snap = pass[p].snap,
         x.todo \cup x.cur \subseteq Ahead(p)
  PROVE  PassesShrink /\ pass'[p] = x /\ \A q \in Passes \ {p} : pass'[q] = pass[q]
<1>1. pass'[p] = x /\ \A q \in Passes \ {p} : pass'[q] = pass[q]
  BY DEF Go, TypeInv, TypeOK
<1> QED BY <1>1 DEF PassesShrink, Ahead

LEMMA NextEntryShrinks ==
  ASSUME TypeInv, NEW p \in Passes, NextEntry(p)
  PROVE  /\ PassesShrink /\ pass'[p].pc = "entry"
         /\ Ahead(p)' = pass[p].todo /\ pass[p].todo \cap pass[p].cur = {}
         /\ \A q \in Passes \ {p} : pass'[q] = pass[q]
<1> DEFINE s == [c \in Cards |-> IF c \in pass[p].cur THEN NoEntry
                                 ELSE pass[p].snap[c]]
           x == [pass[p] EXCEPT !.pc = "entry", !.cur = {}, !.snap = s]
<1>1. pass[p] \in Pass /\ pass[p].todo \cap pass[p].cur = {}
  BY DEF TypeInv, TypeOK, PassNamed
<1>2. x.pc = "entry" /\ x.todo = pass[p].todo /\ x.cur = {} /\ x.snap = s
  BY <1>1 DEF Pass
<1>3. Go(p, x)
  BY DEF NextEntry
<1>4. \A c \in Cards : /\ s[c] \in {pass[p].snap[c], NoEntry}
                       /\ c \notin pass[p].cur => s[c] = pass[p].snap[c]
  OBVIOUS
<1>5. pass[p].todo \subseteq Cards
  BY <1>1 DEF Pass
<1> HIDE DEF x, s
<1>6. pass'[p] = x /\ \A q \in Passes \ {p} : pass'[q] = pass[q]
  BY <1>3 DEF Go, TypeInv, TypeOK
<1>7. Ahead(p)' = pass[p].todo
  BY <1>2, <1>6 DEF Ahead
<1>8. PassesShrink
  BY <1>1, <1>2, <1>4, <1>5, <1>6, <1>7 DEF PassesShrink, Ahead
<1> QED BY <1>1, <1>2, <1>6, <1>7, <1>8

LEMMA PassesRest ==
  ASSUME UNCHANGED pass
  PROVE  PassesShrink /\ Probed
BY DEF PassesShrink, Ahead, Probed

\* A step that flips an entry, or resolves one, flips.
LEMMA FinishFlips ==
  ASSUME TypeInv, NEW c \in Cards, FinishEntry(c)
  PROVE  Flipped
<1> DEFINE e == Finished(journal[c])
<1>1. journal' = [journal EXCEPT ![c] = e]
  BY DEF FinishEntry, TypeInv, TypeOK
<1> HIDE DEF e
<1>2. \A d \in Cards : journal'[d] \in {journal[d], IF d = c THEN e ELSE journal[d]}
  BY <1>1 DEF TypeInv, TypeOK
<1> QED BY <1>2 DEF Flipped, e

LEMMA ResolveFlips ==
  ASSUME TypeInv, NEW c \in Cards, NEW e, Resolve(c, e)
  PROVE  Flipped
<1>1. CASE UNCHANGED journal
  BY <1>1 DEF Flipped
<1> QED BY <1>1, FinishFlips DEF Resolve

LEMMA QuietWork ==
  ASSUME TypeInv, NEW c \in Cards,
         \/ MakeTree(c) \/ FinishOk(c) \/ FinishFailed(c)
         \/ OutOfTurns(c) /\ UNCHANGED born
  PROVE  Quiet
<1>1. PassesShrink /\ Probed
  BY PassesRest DEF MakeTree, FinishOk, FinishFailed, OutOfTurns
<1>2. CASE MakeTree(c)
  <2>1. UNCHANGED <<born, disk, heirs, service, procs, journal>>
    BY <1>2 DEF MakeTree
  <2>2. RunsEnd
    BY <1>2 DEF MakeTree, RunsEnd, TypeInv, TypeOK
  <2> QED BY <1>1, <2>1, <2>2 DEF Quiet, Flipped
<1>3. ASSUME eng[c].phase = "live", eng' = [eng EXCEPT ![c] = NoRun],
             procs' = procs \ {[sess |-> eng[c].sess, n |-> eng[c].n]},
             UNCHANGED <<born, disk, heirs, service>>,
             UNCHANGED journal \/ FinishEntry(c)
      PROVE  Quiet
  <2>1. RunsEnd
    BY <1>3 DEF RunsEnd, TypeInv, TypeOK
  <2>2. Flipped
    BY <1>3, FinishFlips DEF Flipped
  <2> QED BY <1>1, <1>3, <2>1, <2>2 DEF Quiet
<1>4. CASE FinishOk(c)
  BY <1>3, <1>4 DEF FinishOk
<1>5. CASE FinishFailed(c)
  BY <1>3, <1>5 DEF FinishFailed
<1>6. CASE OutOfTurns(c) /\ UNCHANGED born
  <2>1. born' # born + 1
    BY <1>6 DEF TypeInv, TypeOK
  <2> QED BY <1>3, <1>6, <2>1 DEF OutOfTurns
<1> QED BY <1>2, <1>4, <1>5, <1>6

LEMMA QuietWorld ==
  ASSUME TypeInv,
         \/ \E c \in Cards, s \in Launches : HandsOver(c, s)
         \/ \E x \in procs : OrphanExits(x)
         \/ UNCHANGED vars
  PROVE  Quiet
<1>1. /\ UNCHANGED <<born, disk, heirs, service, eng, pass>> /\ procs' \subseteq procs
      /\ UNCHANGED journal \/ \E c \in Cards : FinishEntry(c)
  BY DEF HandsOver, Detach, EnqueueMerge, NothingToMerge, MergeBackFails,
     OrphanExits, vars, fleet
<1>2. Flipped
  BY <1>1, FinishFlips DEF Flipped
<1> QED BY <1>1, <1>2, PassesRest DEF Quiet, RunsEnd

LEMMA QuietReconciles ==
  ASSUME TypeInv, NEW p \in Passes, Reconciles(p)
  PROVE  Quiet
<1> DEFINE o == pass[p]
<1>1. o \in Pass
  BY DEF TypeInv, TypeOK
<1>2. \E x : /\ Go(p, x) /\ x.snap = o.snap /\ x.todo = o.todo /\ x.cur = o.cur
             /\ x.pc # "resume"
  <2>1. CASE ScanTrees(p)
    <3> DEFINE x == [o EXCEPT !.pc = "trees", !.dirs = trees,
                              !.doomed = trees \ o.keep]
    <3>1. x.snap = o.snap /\ x.todo = o.todo /\ x.cur = o.cur /\ x.pc = "trees"
      BY <1>1 DEF Pass
    <3> QED BY <2>1, <3>1 DEF ScanTrees
  <2>2. CASE ScanBranches(p)
    <3> DEFINE x == [o EXCEPT !.pc = "branches",
                              !.doomed = branches \ (o.dirs \cup o.keep)]
    <3>1. x.snap = o.snap /\ x.todo = o.todo /\ x.cur = o.cur /\ x.pc = "branches"
      BY <1>1 DEF Pass
    <3> QED BY <2>2, <3>1 DEF ScanBranches
  <2>3. CASE Reconciled(p)
    <3> DEFINE x == [o EXCEPT !.pc = "entry", !.dirs = {}, !.keep = {}]
    <3>1. x.snap = o.snap /\ x.todo = o.todo /\ x.cur = o.cur /\ x.pc = "entry"
      BY <1>1 DEF Pass
    <3> QED BY <2>3, <3>1 DEF Reconciled
  <2>4. CASE \E s \in Launches : PruneTree(p, s) \/ DisposeBranch(p, s)
    <3>0. PICK s \in Launches : PruneTree(p, s) \/ DisposeBranch(p, s)
      BY <2>4
    <3> DEFINE x == [o EXCEPT !.doomed = @ \ {s}]
    <3>1. x.snap = o.snap /\ x.todo = o.todo /\ x.cur = o.cur /\ x.pc = o.pc
      BY <1>1 DEF Pass
    <3> QED BY <3>0, <3>1 DEF PruneTree, DisposeBranch
  <2> QED BY <2>1, <2>2, <2>3, <2>4 DEF Reconciles
<1>3. PICK x : /\ Go(p, x) /\ x.snap = o.snap /\ x.todo = o.todo /\ x.cur = o.cur
               /\ x.pc # "resume"
  BY <1>2
<1>4. /\ PassesShrink /\ pass'[p] = x
      /\ \A q \in Passes \ {p} : pass'[q] = pass[q]
  BY <1>3, GoShrinks DEF Ahead
<1>5. Probed
  BY <1>3, <1>4 DEF Probed
<1>6. UNCHANGED <<service, born, journal, disk, eng, procs, heirs>>
  BY DEF Reconciles, ScanTrees, ScanBranches, Reconciled, PruneTree, DisposeBranch,
     fleet
<1> QED BY <1>4, <1>5, <1>6 DEF Quiet, Flipped, RunsEnd

LEMMA QuietDecides ==
  ASSUME TypeInv, NEW p \in Passes, Decides(p), \A c \in Cards : ~Resume(p, c)
  PROVE  Quiet
<1> DEFINE o == pass[p]
<1>1. o \in Pass /\ \A c, d \in o.cur : c = d
  BY DEF TypeInv, TypeOK, PassNamed
<1>2. NextEntry(p) => PassesShrink /\ Probed
  BY NextEntryShrinks DEF Probed
<1>3. ASSUME NEW x, Go(p, x), x.snap = o.snap, x.todo \cup x.cur \subseteq Ahead(p),
             \/ x.pc # "resume"
             \/ \A c \in x.cur : ~Alive(o.snap[c].sess, o.snap[c].unit)
      PROVE  PassesShrink /\ Probed
  <2>1. /\ PassesShrink /\ pass'[p] = x
        /\ \A q \in Passes \ {p} : pass'[q] = pass[q]
    BY <1>3, GoShrinks
  <2> QED BY <1>3, <2>1 DEF Probed
<1>4. ASSUME NEW c \in Cards, StopOrphan(p, c) PROVE Quiet
  <2> DEFINE x == [o EXCEPT !.pc = "decide", !.cur = {c}, !.todo = @ \ {c}]
  <2>1. /\ x.snap = o.snap /\ x.todo \cup x.cur \subseteq Ahead(p) /\ x.pc = "decide"
        /\ Go(p, x)
    BY <1>1, <1>4 DEF StopOrphan, Pass, Ahead
  <2>2. PassesShrink /\ Probed
    <3> HIDE DEF x
    <3> QED BY <1>3, <2>1
  <2> QED BY <1>4, <2>2 DEF StopOrphan, Quiet, Flipped, RunsEnd
<1>5. ASSUME NEW c \in Cards, Decide(p, c) PROVE Quiet
  <2> DEFINE seen == IF o.read THEN o.seen ELSE column
             x == [o EXCEPT !.read = TRUE, !.seen = seen,
                            !.pc = IF c \in seen THEN "scope" ELSE "drop"]
  <2>1. Go(p, x)
    BY <1>5 DEF Decide
  <2> HIDE DEF seen
  <2>2. /\ x.snap = o.snap /\ x.todo \cup x.cur \subseteq Ahead(p) /\ x.pc # "resume"
    BY <1>1 DEF Pass, Ahead
  <2>3. PassesShrink /\ Probed
    <3> HIDE DEF x
    <3> QED BY <1>3, <2>1, <2>2
  <2> QED BY <1>5, <2>3 DEF Decide, Quiet, Flipped, RunsEnd, fleet
<1>6. ASSUME NEW c \in Cards, ProbeScope(p, c) PROVE Quiet
  <2> DEFINE x == [o EXCEPT !.pc = "resume"]
  <2>1. x.snap = o.snap /\ x.todo \cup x.cur \subseteq Ahead(p) /\ x.cur = {c}
    BY <1>1, <1>6 DEF Pass, Ahead, ProbeScope
  <2>2. \/ NextEntry(p)
        \/ Go(p, x) /\ ~Alive(o.snap[c].sess, o.snap[c].unit)
    BY <1>6 DEF ProbeScope
  <2>3. PassesShrink /\ Probed
    <3> HIDE DEF x
    <3> QED BY <1>2, <1>3, <2>1, <2>2
  <2> QED BY <1>6, <2>3 DEF ProbeScope, Quiet, Flipped, RunsEnd, fleet
<1>7. ASSUME NEW c \in Cards, Drop(p, c) \/ TreeMissing(p, c) \/ ResumeRefused(p, c)
      PROVE  Quiet
  <2>1. /\ NextEntry(p) /\ Resolve(c, o.snap[c])
        /\ UNCHANGED <<service, born, disk, eng, procs, heirs>>
    BY <1>7 DEF Drop, TreeMissing, ResumeRefused, fleet
  <2>2. Flipped
    BY <2>1, ResolveFlips
  <2> QED BY <1>2, <2>1, <2>2 DEF Quiet, RunsEnd
<1>8. CASE PassEnds(p)
  <2>1. pass'[p] = NoPass /\ \A q \in Passes \ {p} : pass'[q] = pass[q]
    BY <1>8 DEF PassEnds, Go, TypeInv, TypeOK
  <2>2. PassesShrink /\ Probed
    BY <2>1 DEF PassesShrink, Probed, Ahead, NoPass
  <2> QED BY <1>8, <2>2 DEF PassEnds, Quiet, Flipped, RunsEnd, fleet
<1> QED BY <1>4, <1>5, <1>6, <1>7, <1>8 DEF Decides

LEMMA KindsOfStep ==
  ASSUME TypeInv, [Next]_vars
  PROVE  \/ Quiet
         \/ \E p \in Passes : BootPass(p) \/ SweepPass(p)
         \/ \E c \in Cards : TreeRecorded(c) \/ Spawn(c)
         \/ \E c \in Cards : Enter(c) \/ (OutOfTurns(c) /\ ~UNCHANGED born)
         \/ \E p \in Passes, c \in Cards : Resume(p, c)
         \/ Flush \/ Crash \/ Restart
<1>1. CASE \E c \in Cards : Works(c)
  BY <1>1, QuietWork DEF Works
<1>2. CASE \E p \in Passes : Decides(p)
  BY <1>2, QuietDecides
<1> QED BY <1>1, <1>2, QuietWorld, QuietReconciles DEF Next

\* What a launch does, whoever asks for it.
Starts(c, sess, home) ==
  /\ born' = born + 1 /\ UNCHANGED <<disk, service>>
  /\ eng' = [eng EXCEPT ![c] = [sess |-> sess, n |-> born + 1,
                                phase |-> "queued", home |-> home]]
  /\ journal' = [journal EXCEPT ![c] = Recorded(sess, born + 1, FALSE, 0)]

\* A card enters, a session goes on, a session is resumed.
LEMMA WaysToStart ==
  ASSUME TypeInv, NEW c \in Cards
  PROVE  /\ Enter(c) =>
              /\ eng[c] = NoRun /\ UNCHANGED <<procs, pass, heirs>>
              /\ \E h : Starts(c, born + 1, h)
         /\ OutOfTurns(c) /\ ~UNCHANGED born =>
              /\ eng[c].phase = "live" /\ UNCHANGED pass
              /\ procs' = procs \ {[sess |-> eng[c].sess, n |-> eng[c].n]}
              /\ heirs' = heirs \cup {<<eng[c].n, born + 1>>}
              /\ \E h : Starts(c, eng[c].sess, h)
         /\ \A p \in Passes : Resume(p, c) =>
              /\ eng[c] = NoRun /\ UNCHANGED procs
              /\ pass[p].pc = "resume" /\ c \in pass[p].cur /\ NextEntry(p)
              /\ heirs' = heirs \cup {<<pass[p].snap[c].n, born + 1>>}
              /\ \E h : Starts(c, pass[p].snap[c].sess, h)
BY DEF Enter, OutOfTurns, Resume, Launch, Starts, fleet

-----------------------------------------------------------------------------
(* Sessions and launches belong to one card each, in the journal, on disk, *)
(* in the engine and in what the passes hold.                              *)

Names(c) ==
  {<<journal[c].sess, journal[c].n>>, <<disk[c].sess, disk[c].n>>,
   <<eng[c].sess, eng[c].n>>}
    \cup {<<pass[p].snap[c].sess, pass[p].snap[c].n>> : p \in Passes}

Apart ==
  \A c, d \in Cards : c # d =>
    \A a \in Names(c), b \in Names(d) :
      (a[1] = b[1] => a[1] = 0) /\ (a[2] = b[2] => a[2] = 0)

BornFirst ==
  /\ \A c \in Cards : \A a \in Names(c) : a[1] <= born /\ a[2] <= born
  /\ \A x \in procs : x.sess <= born

DownIsIdle ==
  service = "down" => InFlight = {} /\ \A p \in Passes : Ahead(p) = {}

ApartInv == Apart /\ BornFirst /\ DownIsIdle

LEMMA NamesTyped ==
  ASSUME TypeInv, NEW c \in Cards
  PROVE  Names(c) \subseteq Nat \X Nat /\ born \in Nat
<1>1. Launches \cup {0} \subseteq Nat
  BY LaunchesAreNat
<1>2. \A p \in Passes : pass[p].snap[c] \in Entry
  BY DEF TypeInv, TypeOK, Pass
<1> QED BY <1>1, <1>2 DEF TypeInv, TypeOK, Entry, Run, Names

LEMMA NamesOf ==
  ASSUME NEW c \in Cards
  PROVE  /\ <<journal[c].sess, journal[c].n>> \in Names(c)
         /\ <<disk[c].sess, disk[c].n>> \in Names(c)
         /\ <<eng[c].sess, eng[c].n>> \in Names(c)
         /\ \A p \in Passes :
              <<pass[p].snap[c].sess, pass[p].snap[c].n>> \in Names(c)
BY DEF Names

LEMMA BlankNames ==
  /\ NoEntry.sess = 0 /\ NoEntry.n = 0 /\ NoRun.sess = 0 /\ NoRun.n = 0
  /\ \A c \in Cards : NoPass.snap[c] = NoEntry
BY DEF NoEntry, NoRun, NoPass

\* No step but a launch names anything.
LEMMA NamesKept ==
  ASSUME TypeInv, TypeInv', Apart, BornFirst, born' = born,
         \A c \in Cards : Names(c)' \subseteq Names(c) \cup {<<0, 0>>},
         \A x \in procs' : x \in procs \/ \E c \in Cards : eng[c].sess = x.sess
  PROVE  Apart' /\ BornFirst'
<1>1. born \in Nat
  BY DEF TypeInv, TypeOK
<1>2. Apart'
  <2> SUFFICES ASSUME NEW c \in Cards, NEW d \in Cards, c # d,
                      NEW a \in Names(c)', NEW b \in Names(d)'
               PROVE  (a[1] = b[1] => a[1] = 0) /\ (a[2] = b[2] => a[2] = 0)
    BY DEF Apart
  <2>1. a \in Names(c) \/ a = <<0, 0>>
    OBVIOUS
  <2>2. b \in Names(d) \/ b = <<0, 0>>
    OBVIOUS
  <2> QED BY <2>1, <2>2 DEF Apart
<1>3. \A c \in Cards : \A a \in Names(c)' : a[1] <= born /\ a[2] <= born
  <2> SUFFICES ASSUME NEW c \in Cards, NEW a \in Names(c)'
               PROVE  a[1] <= born /\ a[2] <= born
    OBVIOUS
  <2>1. a \in Names(c) \/ a = <<0, 0>>
    OBVIOUS
  <2> QED BY <1>1, <2>1 DEF BornFirst
<1>4. \A x \in procs' : x.sess <= born
  BY NamesOf DEF BornFirst
<1> QED BY <1>2, <1>3, <1>4 DEF BornFirst

\* A launch names its card's next launch, and its session if that is new.
LEMMA NamesGrow ==
  ASSUME TypeInv, TypeInv', Apart, BornFirst, NEW k \in Cards,
         NEW sess, NEW h, Starts(k, sess, h), procs' \subseteq procs,
         PassesShrink, sess = born + 1 \/ \E a \in Names(k) : a[1] = sess
  PROVE  Apart' /\ BornFirst'
<1>1. born \in Nat /\ born' = born + 1
  BY DEF TypeInv, TypeOK, Starts
<1>2. \A c \in Cards \ {k} : Names(c)' \subseteq Names(c) \cup {<<0, 0>>}
  <2> SUFFICES ASSUME NEW c \in Cards \ {k}
               PROVE  Names(c)' \subseteq Names(c) \cup {<<0, 0>>}
    OBVIOUS
  <2>1. journal'[c] = journal[c] /\ eng'[c] = eng[c] /\ disk'[c] = disk[c]
    BY DEF Starts, TypeInv, TypeOK
  <2>2. \A p \in Passes : pass'[p].snap[c] \in {pass[p].snap[c], NoEntry}
    BY DEF PassesShrink
  <2> QED BY <2>1, <2>2, BlankNames DEF Names
<1>3. Names(k)' \subseteq Names(k) \cup {<<0, 0>>, <<sess, born + 1>>}
  <2>1. /\ journal'[k].sess = sess /\ journal'[k].n = born + 1
        /\ eng'[k].sess = sess /\ eng'[k].n = born + 1 /\ disk' = disk
    BY DEF Starts, TypeInv, TypeOK, Recorded
  <2>2. \A p \in Passes : pass'[p].snap[k] \in {pass[p].snap[k], NoEntry}
    BY DEF PassesShrink
  <2> QED BY <2>1, <2>2, BlankNames DEF Names
<1>4. \A c \in Cards : \A a \in Names(c) : a[1] \in Nat /\ a[2] \in Nat
  BY NamesTyped
<1>5. ASSUME NEW c \in Cards, NEW a \in Names(c)'
      PROVE  \/ a \in Names(c) \cup {<<0, 0>>}
             \/ c = k /\ a = <<sess, born + 1>>
  BY <1>2, <1>3, <1>5
<1>6. \A c \in Cards \ {k} : \A b \in Names(c) : b[1] # sess \/ sess = 0
  <2> TAKE c \in Cards \ {k}
  <2>1. \A b \in Names(c) : b[1] <= born /\ b[1] \in Nat
    BY <1>4 DEF BornFirst
  <2>2. CASE sess = born + 1
    BY <1>1, <2>1, <2>2
  <2>3. CASE \E a \in Names(k) : a[1] = sess
    BY <2>3 DEF Apart
  <2> QED BY <2>2, <2>3
<1>7. Apart'
  <2> SUFFICES ASSUME NEW c \in Cards, NEW d \in Cards, c # d,
                      NEW a \in Names(c)', NEW b \in Names(d)'
               PROVE  (a[1] = b[1] => a[1] = 0) /\ (a[2] = b[2] => a[2] = 0)
    BY DEF Apart
  <2>1. \/ a \in Names(c) \cup {<<0, 0>>}
        \/ c = k /\ a = <<sess, born + 1>>
    BY <1>5
  <2>2. \/ b \in Names(d) \cup {<<0, 0>>}
        \/ d = k /\ b = <<sess, born + 1>>
    BY <1>5
  <2>3. CASE a \in Names(c) \cup {<<0, 0>>} /\ b \in Names(d) \cup {<<0, 0>>}
    BY <2>3 DEF Apart
  <2>4. CASE c = k /\ a = <<sess, born + 1>> /\ b \in Names(d)
    <3>1. b[2] <= born /\ b[2] \in Nat
      BY <1>4, <2>4 DEF BornFirst
    <3> QED BY <1>1, <1>6, <2>4, <3>1
  <2>5. CASE d = k /\ b = <<sess, born + 1>> /\ a \in Names(c)
    <3>1. a[2] <= born /\ a[2] \in Nat
      BY <1>4, <2>5 DEF BornFirst
    <3> QED BY <1>1, <1>6, <2>5, <3>1
  <2>6. CASE c = k /\ a = <<sess, born + 1>> /\ b = <<0, 0>>
    BY <1>1, <2>6
  <2>7. CASE d = k /\ b = <<sess, born + 1>> /\ a = <<0, 0>>
    BY <1>1, <2>7
  <2> QED BY <2>1, <2>2, <2>3, <2>4, <2>5, <2>6, <2>7
<1>8. BornFirst'
  <2>1. sess <= born + 1
    BY <1>1, <1>4 DEF BornFirst
  <2>2. \A c \in Cards : \A a \in Names(c)' : a[1] <= born + 1 /\ a[2] <= born + 1
    <3> SUFFICES ASSUME NEW c \in Cards, NEW a \in Names(c)'
                 PROVE  a[1] <= born + 1 /\ a[2] <= born + 1
      OBVIOUS
    <3>1. CASE a \in Names(c)
      BY <1>1, <1>4, <3>1 DEF BornFirst
    <3>2. CASE a \in {<<0, 0>>, <<sess, born + 1>>}
      BY <1>1, <2>1, <3>2
    <3> QED BY <1>5, <3>1, <3>2
  <2>3. \A x \in procs' : x.sess <= born + 1
    <3> TAKE x \in procs'
    <3>1. x.sess \in Nat /\ x.sess <= born
      BY LaunchesAreNat DEF TypeInv, TypeOK, BornFirst
    <3> QED BY <1>1, <3>1
  <2> QED BY <1>1, <2>2, <2>3 DEF BornFirst
<1> QED BY <1>7, <1>8

\* What a pass loads, and what a run records as it goes on.
LEMMA LoadedWhat ==
  ASSUME TypeInv, NEW p \in Passes, BootPass(p) \/ SweepPass(p)
  PROVE  /\ service # "down" /\ Off(p)
         /\ UNCHANGED <<service, born, journal, disk, eng, procs, heirs>>
         /\ pass'[p].pc = "loaded" /\ Ahead(p)' = Interrupted
         /\ \A c \in Cards : pass'[p].snap[c] =
              IF c \in Interrupted THEN journal[c] ELSE NoEntry
         /\ \A q \in Passes \ {p} : pass'[q] = pass[q] /\ Ahead(q)' = Ahead(q)
<1> DEFINE s == [c \in Cards |-> IF c \in Interrupted THEN journal[c] ELSE NoEntry]
           k == {journal[c].sess : c \in Interrupted} \cup queue
           x == [NoPass EXCEPT !.pc = "loaded", !.todo = Interrupted, !.snap = s,
                               !.keep = k]
<1>1. Go(p, x)
  BY DEF BootPass, SweepPass, Load
<1>2. x.pc = "loaded" /\ x.todo = Interrupted /\ x.cur = {} /\ x.snap = s
  <2> HIDE DEF s, k
  <2> QED BY DEF NoPass
<1>3. \A c \in Cards : s[c] = IF c \in Interrupted THEN journal[c] ELSE NoEntry
  OBVIOUS
<1> HIDE DEF s, k, x
<1>4. pass'[p] = x /\ \A q \in Passes \ {p} : pass'[q] = pass[q]
  BY <1>1 DEF Go, TypeInv, TypeOK
<1>5. /\ Ahead(p)' = Interrupted
      /\ \A q \in Passes \ {p} : Ahead(q)' = Ahead(q)
  BY <1>2, <1>4 DEF Ahead
<1>6. service # "down" /\ Off(p)
  BY DEF BootPass, SweepPass
<1>7. UNCHANGED <<service, born, journal, disk, eng, procs, heirs>>
  BY DEF BootPass, SweepPass, fleet
<1> QED BY <1>2, <1>3, <1>4, <1>5, <1>6, <1>7

LEMMA RunGoesOn ==
  ASSUME TypeInv, NEW c \in Cards, TreeRecorded(c) \/ Spawn(c)
  PROVE  /\ eng[c] # NoRun /\ eng[c].phase # "live"
         /\ UNCHANGED <<service, born, disk, pass, heirs>>
         /\ eng'[c].sess = eng[c].sess /\ eng'[c].n = eng[c].n
         /\ journal'[c].sess = eng[c].sess /\ journal'[c].n = eng[c].n
         /\ \A d \in Cards \ {c} : eng'[d] = eng[d] /\ journal'[d] = journal[d]
         /\ \/ /\ eng'[c].phase = "ready" /\ journal'[c].unit = 0
               /\ UNCHANGED procs
            \/ /\ eng'[c].phase = "live" /\ journal'[c].unit = eng[c].n
               /\ procs' = procs \cup {[sess |-> eng[c].sess, n |-> eng[c].n]}
<1>1. CASE TreeRecorded(c)
  <2> DEFINE e == Recorded(eng[c].sess, eng[c].n, TRUE, 0)
             r == [eng[c] EXCEPT !.phase = "ready"]
  <2>1. e.sess = eng[c].sess /\ e.n = eng[c].n /\ e.unit = 0
    BY DEF Recorded
  <2>2. r.sess = eng[c].sess /\ r.n = eng[c].n /\ r.phase = "ready"
    BY DEF TypeInv, TypeOK, Run
  <2>3. journal' = [journal EXCEPT ![c] = e] /\ eng' = [eng EXCEPT ![c] = r]
    BY <1>1 DEF TreeRecorded, TypeInv, TypeOK
  <2> HIDE DEF e, r
  <2>4. /\ journal'[c] = e /\ eng'[c] = r
        /\ \A d \in Cards \ {c} : eng'[d] = eng[d] /\ journal'[d] = journal[d]
    BY <2>3 DEF TypeInv, TypeOK
  <2>5. eng[c] # NoRun /\ eng[c].phase # "live"
    BY <1>1 DEF TreeRecorded, NoRun
  <2> QED BY <1>1, <2>1, <2>2, <2>4, <2>5 DEF TreeRecorded, fleet
<1>2. CASE Spawn(c)
  <2> DEFINE e == Recorded(eng[c].sess, eng[c].n, eng[c].home # "root", eng[c].n)
             r == [eng[c] EXCEPT !.phase = "live"]
  <2>1. e.sess = eng[c].sess /\ e.n = eng[c].n /\ e.unit = eng[c].n
    BY Zenon DEF Recorded
  <2>2. r.sess = eng[c].sess /\ r.n = eng[c].n /\ r.phase = "live"
    BY DEF TypeInv, TypeOK, Run
  <2>3. journal' = [journal EXCEPT ![c] = e] /\ eng' = [eng EXCEPT ![c] = r]
    <3>1. eng' = [eng EXCEPT ![c] = r]
      BY <1>2 DEF Spawn, TypeInv, TypeOK
    <3> QED BY <1>2, <3>1, Zenon DEF Spawn
  <2> HIDE DEF e, r
  <2>4. /\ journal'[c] = e /\ eng'[c] = r
        /\ \A d \in Cards \ {c} : eng'[d] = eng[d] /\ journal'[d] = journal[d]
    BY <2>3 DEF TypeInv, TypeOK
  <2>5. eng[c] # NoRun /\ eng[c].phase # "live"
    BY <1>2 DEF Spawn, NoRun
  <2>6. /\ UNCHANGED <<service, born, disk, pass, heirs>>
        /\ procs' = procs \cup {[sess |-> eng[c].sess, n |-> eng[c].n]}
    BY <1>2, Zenon DEF Spawn
  <2> QED BY <2>1, <2>2, <2>4, <2>5, <2>6
<1> QED BY <1>1, <1>2

LEMMA WorldsWrite ==
  ASSUME Flush \/ Crash \/ Restart
  PROVE  /\ UNCHANGED <<born, procs, heirs>>
         /\ \/ /\ disk' = journal /\ service # "down"
               /\ UNCHANGED <<service, journal, eng, pass>>
            \/ /\ UNCHANGED disk /\ service' = "down" /\ (WritesLag \/ disk = journal)
               /\ journal' = [c \in Cards |-> NoEntry]
               /\ eng' = [c \in Cards |-> NoRun]
               /\ pass' = [q \in Passes |-> NoPass]
            \/ /\ UNCHANGED <<disk, eng, pass>> /\ journal' = disk
               /\ service = "down" /\ service' = "booting"
BY DEF Flush, Crash, Restart, fleet

LEMMA ApartInit == Init => ApartInv
<1> SUFFICES ASSUME Init PROVE ApartInv
  OBVIOUS
<1>1. \A c \in Cards : Names(c) \subseteq {<<0, 0>>}
  BY BlankNames DEF Init, Names
<1>2. Apart /\ BornFirst
  BY <1>1 DEF Apart, BornFirst, Init
<1> QED BY <1>2 DEF ApartInv, DownIsIdle, Init

LEMMA ApartStep == TypeInv /\ ApartInv /\ [Next]_vars => ApartInv'
<1> SUFFICES ASSUME TypeInv, ApartInv, [Next]_vars PROVE ApartInv'
  OBVIOUS
<1>0. TypeInv' /\ Apart /\ BornFirst /\ DownIsIdle
  BY TypeStep DEF ApartInv
<1>1. CASE Quiet
  <2>1. \A c \in Cards : Names(c)' \subseteq Names(c) \cup {<<0, 0>>}
    <3> SUFFICES ASSUME NEW c \in Cards
                 PROVE  Names(c)' \subseteq Names(c) \cup {<<0, 0>>}
      OBVIOUS
    <3>1. journal'[c].sess = journal[c].sess /\ journal'[c].n = journal[c].n
      BY <1>1 DEF Quiet, Flipped, Finished, TypeInv, TypeOK, Entry
    <3>2. \/ eng'[c].sess = eng[c].sess /\ eng'[c].n = eng[c].n
          \/ eng'[c] = NoRun
      BY <1>1 DEF Quiet, RunsEnd, TypeInv, TypeOK, Run
    <3>3. \A p \in Passes : pass'[p].snap[c] \in {pass[p].snap[c], NoEntry}
      BY <1>1 DEF Quiet, PassesShrink
    <3> QED BY <1>1, <3>1, <3>2, <3>3, BlankNames DEF Names, Quiet
  <2>2. Apart' /\ BornFirst'
    BY <1>0, <1>1, <2>1, NamesKept DEF Quiet
  <2>3. DownIsIdle'
    <3> SUFFICES ASSUME service' = "down"
                 PROVE  InFlight' = {} /\ \A p \in Passes : Ahead(p)' = {}
      BY DEF DownIsIdle
    <3>1. (\A c \in Cards : eng[c] = NoRun) /\ \A p \in Passes : Ahead(p) = {}
      BY <1>0, <1>1 DEF Quiet, DownIsIdle, InFlight
    <3>2. \A c \in Cards : eng'[c] = NoRun
      <4>1. NoRun.phase = "none"
        BY DEF NoRun
      <4> QED BY <1>1, <3>1, <4>1 DEF Quiet, RunsEnd
    <3>3. \A p \in Passes : Ahead(p)' \subseteq Ahead(p)
      BY <1>1 DEF Quiet, PassesShrink
    <3>4. InFlight' = {}
      BY <3>2 DEF InFlight
    <3> QED BY <3>1, <3>3, <3>4
  <2> QED BY <2>2, <2>3 DEF ApartInv
<1>2. ASSUME NEW p \in Passes, BootPass(p) \/ SweepPass(p) PROVE ApartInv'
  <2>1. \A c \in Cards : Names(c)' \subseteq Names(c) \cup {<<0, 0>>}
    <3> SUFFICES ASSUME NEW c \in Cards
                 PROVE  Names(c)' \subseteq Names(c) \cup {<<0, 0>>}
      OBVIOUS
    <3>1. \A q \in Passes :
            pass'[q].snap[c] \in {pass[q].snap[c], NoEntry, journal[c]}
      BY <1>2, LoadedWhat
    <3> QED BY <1>2, <3>1, LoadedWhat, BlankNames DEF Names
  <2>2. Apart' /\ BornFirst'
    BY <1>0, <1>2, <2>1, NamesKept, LoadedWhat
  <2>3. DownIsIdle'
    BY <1>2, LoadedWhat DEF DownIsIdle
  <2> QED BY <2>2, <2>3 DEF ApartInv
<1>3. ASSUME NEW k \in Cards, TreeRecorded(k) \/ Spawn(k) PROVE ApartInv'
  <2>1. \A c \in Cards : Names(c)' \subseteq Names(c) \cup {<<0, 0>>}
    BY <1>3, RunGoesOn DEF Names
  <2>2. \A x \in procs' : x \in procs \/ eng[k].sess = x.sess
    BY <1>3, RunGoesOn
  <2>3. Apart' /\ BornFirst'
    BY <1>0, <1>3, <2>1, <2>2, NamesKept, RunGoesOn
  <2>4. service # "down"
    BY <1>0, <1>3, RunGoesOn DEF DownIsIdle, InFlight
  <2> QED BY <1>3, <2>3, <2>4, RunGoesOn DEF ApartInv, DownIsIdle
<1>4. ASSUME NEW k \in Cards, NEW sess, NEW h, Starts(k, sess, h),
             procs' \subseteq procs, PassesShrink,
             sess = born + 1 \/ \E a \in Names(k) : a[1] = sess,
             service # "down"
      PROVE  ApartInv'
  BY <1>0, <1>4, NamesGrow DEF ApartInv, DownIsIdle, Starts
<1>5. ASSUME NEW k \in Cards, Enter(k) PROVE ApartInv'
  <2>1. service # "down" /\ PassesShrink
    BY <1>5, PassesRest, WaysToStart DEF Enter
  <2> QED BY <1>4, <1>5, <2>1, WaysToStart
<1>6. ASSUME NEW k \in Cards, OutOfTurns(k), ~UNCHANGED born PROVE ApartInv'
  <2>1. service # "down"
    BY <1>0, <1>6 DEF OutOfTurns, DownIsIdle, InFlight, NoRun
  <2>2. /\ PassesShrink /\ procs' \subseteq procs
        /\ \E h : Starts(k, eng[k].sess, h)
    BY <1>6, PassesRest, WaysToStart
  <2>3. \E a \in Names(k) : a[1] = eng[k].sess
    BY NamesOf
  <2> QED BY <1>4, <2>1, <2>2, <2>3
<1>7. ASSUME NEW p \in Passes, NEW k \in Cards, Resume(p, k) PROVE ApartInv'
  <2>1. /\ UNCHANGED procs /\ k \in pass[p].cur /\ NextEntry(p)
        /\ \E h : Starts(k, pass[p].snap[k].sess, h)
    BY <1>7, WaysToStart
  <2>2. service # "down" /\ PassesShrink
    BY <1>0, <2>1, NextEntryShrinks DEF DownIsIdle, Ahead
  <2>3. \E a \in Names(k) : a[1] = pass[p].snap[k].sess
    BY NamesOf
  <2> QED BY <1>4, <2>1, <2>2, <2>3
<1>8. CASE Flush \/ Crash \/ Restart
  <2>1. \A c \in Cards : Names(c)' \subseteq Names(c) \cup {<<0, 0>>}
    <3> SUFFICES ASSUME NEW c \in Cards
                 PROVE  Names(c)' \subseteq Names(c) \cup {<<0, 0>>}
      OBVIOUS
    <3>1. /\ journal'[c] \in {journal[c], disk[c], NoEntry}
          /\ disk'[c] \in {disk[c], journal[c]} /\ eng'[c] \in {eng[c], NoRun}
          /\ \A p \in Passes : pass'[p].snap[c] \in {pass[p].snap[c], NoEntry}
      <4>1. CASE Flush
        BY <4>1 DEF Flush
      <4>2. CASE Crash
        BY <4>2, BlankNames DEF Crash
      <4>3. CASE Restart
        BY <4>3 DEF Restart
      <4> QED BY <1>8, <4>1, <4>2, <4>3
    <3> QED BY <3>1, BlankNames DEF Names
  <2>2. Apart' /\ BornFirst'
    BY <1>0, <1>8, <2>1, NamesKept, WorldsWrite
  <2>3. DownIsIdle'
    BY <1>0, <1>8, WorldsWrite DEF DownIsIdle, InFlight, Ahead, NoPass
  <2> QED BY <2>2, <2>3 DEF ApartInv
<1> QED BY <1>1, <1>2, <1>3, <1>5, <1>6, <1>7, <1>8, KindsOfStep

-----------------------------------------------------------------------------
(* No pass still has an entry of a session that is in flight.              *)

OnePass == \A p, q \in Passes : p = q

NotInFlight ==
  \A p \in Passes : \A c \in Ahead(p) : \A d \in InFlight :
    eng[d].sess # pass[p].snap[c].sess

CleanInv == CoverInv /\ ApartInv /\ NotInFlight

LEMMA AheadTyped ==
  ASSUME TypeInv, NEW p \in Passes
  PROVE  /\ Ahead(p) \subseteq Cards
         /\ \A c \in Ahead(p) : Named(pass[p].snap[c]) /\ pass[p].snap[c] \in Entry
<1>1. pass[p] \in Pass /\ PassNamed(pass[p])
  BY DEF TypeInv, TypeOK
<1>2. Ahead(p) \subseteq Cards
  BY <1>1 DEF Ahead, Pass
<1> QED BY <1>1, <1>2 DEF Ahead, Pass, PassNamed

\* The run of a card that goes on, or ends, has the session it had.
LEMMA RunsKeepTheirNames ==
  ASSUME TypeInv, RunsEnd, NEW c \in Cards, eng'[c] # NoRun
  PROVE  eng[c] # NoRun /\ eng'[c].sess = eng[c].sess /\ eng'[c].n = eng[c].n
<1>1. NoRun.phase = "none" /\ eng[c] \in Run
  BY DEF NoRun, TypeInv, TypeOK
<1> QED BY <1>1 DEF RunsEnd, Run

\* A launch: the card's new run and entry, the other cards as they were.
LEMMA StartsWhat ==
  ASSUME TypeInv, NEW c \in Cards, NEW sess, NEW h, Starts(c, sess, h)
  PROVE  /\ eng'[c].sess = sess /\ eng'[c].n = born + 1 /\ eng'[c].phase = "queued"
         /\ journal'[c].sess = sess /\ journal'[c].n = born + 1
         /\ journal'[c].unit = 0 /\ journal'[c].status = "running"
         /\ \A d \in Cards \ {c} : eng'[d] = eng[d] /\ journal'[d] = journal[d]
         /\ UNCHANGED <<disk, service>> /\ born' = born + 1
BY DEF Starts, TypeInv, TypeOK, Recorded

LEMMA NoneInFlightAtLoad ==
  ASSUME ~Starves, CoverInv, NEW p \in Passes, BootPass(p) \/ SweepPass(p)
  PROVE  InFlight = {}
BY DEF BootPass, SweepPass, CoverInv, BootIsIdle

LEMMA NotInFlightStep ==
  ASSUME ~Starves, OnePass, CleanInv, [Next]_vars
  PROVE  NotInFlight'
<1>0. TypeInv /\ ApartInv /\ NotInFlight /\ CoverInv /\ TypeInv'
  BY TypeStep DEF CleanInv, CoverInv
<1>1. ASSUME PassesShrink,
             \A d \in InFlight' : d \in InFlight /\ eng'[d].sess = eng[d].sess
      PROVE  NotInFlight'
  <2> SUFFICES ASSUME NEW p \in Passes, NEW c \in Ahead(p)', NEW d \in InFlight'
               PROVE  eng'[d].sess # pass'[p].snap[c].sess
    BY DEF NotInFlight
  <2>1. c \in Ahead(p) /\ pass'[p].snap[c] = pass[p].snap[c]
    BY <1>1 DEF PassesShrink
  <2> QED BY <1>0, <1>1, <2>1 DEF NotInFlight
<1>2. CASE Quiet
  BY <1>0, <1>1, <1>2, RunsKeepTheirNames DEF Quiet, InFlight
<1>3. ASSUME NEW p \in Passes, BootPass(p) \/ SweepPass(p) PROVE NotInFlight'
  <2>1. InFlight' = {}
    BY <1>0, <1>3, NoneInFlightAtLoad, LoadedWhat DEF InFlight
  <2> QED BY <2>1 DEF NotInFlight
<1>4. ASSUME NEW k \in Cards, TreeRecorded(k) \/ Spawn(k) PROVE NotInFlight'
  <2>1. PassesShrink
    BY <1>0, <1>4, RunGoesOn, PassesRest
  <2>2. \A d \in InFlight' : d \in InFlight /\ eng'[d].sess = eng[d].sess
    BY <1>0, <1>4, RunGoesOn DEF InFlight
  <2> QED BY <1>1, <2>1, <2>2
<1>5. ASSUME NEW k \in Cards, NEW sess, NEW h, Starts(k, sess, h), PassesShrink,
             \A p \in Passes : \A c \in Ahead(p)' : pass[p].snap[c].sess # sess
      PROVE  NotInFlight'
  <2> SUFFICES ASSUME NEW p \in Passes, NEW c \in Ahead(p)', NEW d \in InFlight'
               PROVE  eng'[d].sess # pass'[p].snap[c].sess
    BY DEF NotInFlight
  <2>1. c \in Ahead(p) /\ pass'[p].snap[c] = pass[p].snap[c]
    BY <1>5 DEF PassesShrink
  <2>2. CASE d = k
    BY <1>0, <1>5, <2>1, <2>2, StartsWhat
  <2>3. CASE d # k
    <3>1. d \in InFlight /\ eng'[d] = eng[d]
      BY <1>0, <1>5, <2>3, StartsWhat DEF InFlight
    <3> QED BY <1>0, <2>1, <3>1 DEF NotInFlight
  <2> QED BY <2>2, <2>3
<1>6. ASSUME NEW k \in Cards, Enter(k) PROVE NotInFlight'
  <2>1. PassesShrink /\ \E h : Starts(k, born + 1, h)
    BY <1>0, <1>6, PassesRest, WaysToStart
  <2>2. ASSUME NEW p \in Passes, NEW c \in Ahead(p)'
        PROVE  pass[p].snap[c].sess # born + 1
    <3>1. c \in Cards
      BY <1>0, <2>1, AheadTyped DEF PassesShrink
    <3>2. pass[p].snap[c].sess <= born /\ pass[p].snap[c].sess \in Nat /\ born \in Nat
      BY <1>0, <3>1, NamesOf, NamesTyped DEF ApartInv, BornFirst
    <3> QED BY <3>2
  <2> QED BY <1>5, <2>1, <2>2
<1>7. ASSUME NEW k \in Cards, OutOfTurns(k), ~UNCHANGED born PROVE NotInFlight'
  <2>1. /\ PassesShrink /\ eng[k] # NoRun
        /\ \E h : Starts(k, eng[k].sess, h)
    BY <1>0, <1>7, PassesRest, WaysToStart DEF NoRun
  <2>2. \A p \in Passes : \A c \in Ahead(p)' : pass[p].snap[c].sess # eng[k].sess
    BY <1>0, <2>1 DEF PassesShrink, NotInFlight, InFlight
  <2> QED BY <1>5, <2>1, <2>2
<1>8. ASSUME NEW p \in Passes, NEW k \in Cards, Resume(p, k) PROVE NotInFlight'
  <2>1. /\ k \in pass[p].cur /\ NextEntry(p)
        /\ \E h : Starts(k, pass[p].snap[k].sess, h)
    BY <1>0, <1>8, WaysToStart
  <2>2. /\ PassesShrink /\ Ahead(p)' = pass[p].todo
        /\ pass[p].todo \cap pass[p].cur = {}
    BY <1>0, <2>1, NextEntryShrinks
  <2>3. ASSUME NEW q \in Passes, NEW c \in Ahead(q)'
        PROVE  pass[q].snap[c].sess # pass[p].snap[k].sess
    <3>1. q = p /\ c # k /\ c \in Ahead(p) /\ k \in Ahead(p)
      BY <2>1, <2>2 DEF OnePass, Ahead
    <3>2. c \in Cards /\ pass[p].snap[c].sess \in Launches
      BY <1>0, <3>1, AheadTyped DEF Named
    <3>3. pass[p].snap[c].sess # 0
      BY <3>2, LaunchesAreNat
    <3> QED BY <1>0, <3>1, <3>2, <3>3, NamesOf DEF ApartInv, Apart
  <2> QED BY <1>5, <2>1, <2>2, <2>3
<1>9. CASE Flush \/ Crash \/ Restart
  <2>1. CASE Crash
    BY <2>1 DEF Crash, NotInFlight, InFlight
  <2>2. CASE UNCHANGED <<eng, pass>>
    BY <1>0, <2>2 DEF NotInFlight, InFlight, Ahead
  <2> QED BY <1>9, <2>1, <2>2 DEF Flush, Restart
<1> QED BY <1>0, <1>2, <1>3, <1>4, <1>6, <1>7, <1>8, <1>9, KindsOfStep

LEMMA CleanInit == Init => CleanInv
BY CoverInit, ApartInit DEF CleanInv, NotInFlight, InFlight, Init

LEMMA CleanStep ==
  ASSUME ~Starves, OnePass, CleanInv, [Next]_vars
  PROVE  CleanInv'
BY CoverStep, ApartStep, NotInFlightStep DEF CleanInv, CoverInv

\* The reap of a dropped or refused entry: with sweeps that wait for an idle
\* engine and one pass at a time, it never takes the tree of a run in flight.
THEOREM ReapsSpareRuns ==
  ASSUME ~Starves, OnePass
  PROVE  Spec => CleanupSparesRuns
<1> DEFINE Spares == \A p \in Passes, c \in Cards :
                       Drop(p, c) \/ ResumeRefused(p, c) =>
                         \A d \in InFlight :
                           eng[d].sess \in trees => eng[d].sess \in trees'
<1>1. CleanInv /\ [Next]_vars => CleanInv'
  BY CleanStep
<1>2. CleanInv => Spares
  <2> SUFFICES ASSUME CleanInv, NEW p \in Passes, NEW c \in Cards,
                      Drop(p, c) \/ ResumeRefused(p, c), NEW d \in InFlight,
                      eng[d].sess \in trees
               PROVE  eng[d].sess \in trees'
    OBVIOUS
  <2>1. c \in Ahead(p) /\ Cleanup(pass[p].snap[c])
    BY DEF Drop, ResumeRefused, Ahead
  <2>2. eng[d].sess # pass[p].snap[c].sess
    BY <2>1 DEF CleanInv, NotInFlight
  <2> QED BY <2>1, <2>2 DEF Cleanup
<1>3. CleanInv /\ [Next]_vars => [Spares]_vars
  BY <1>2
<1>4. Spec => [][Spares]_vars
  BY CleanInit, <1>1, <1>3, PTL DEF Spec
<1> QED BY <1>4 DEF CleanupSparesRuns

-----------------------------------------------------------------------------
(* Two children never own one session, if no journal write is lost.        *)

\* An entry that says "running" names the scope of its session's child.
Knows(e) ==
  e.status = "running" => \A x \in procs : x.sess = e.sess => x.n = e.unit

EntriesKnow ==
  \A c \in Cards : Knows(journal[c]) /\ (service = "down" => Knows(disk[c]))

\* The session of a run has no child but the run's own.
RunOwns ==
  \A c \in InFlight : \A x \in procs :
    x.sess = eng[c].sess => x.n = eng[c].n /\ eng[c].phase = "live"

\* The child of a session that a pass has yet to decide about belongs to the
\* card's run, or it is in the scope the pass knows and will probe.
PassKnows ==
  \A p \in Passes : \A c \in Ahead(p) : \A x \in procs :
    x.sess = pass[p].snap[c].sess =>
      \/ eng[c].sess = x.sess
      \/ /\ x.n = pass[p].snap[c].unit
         /\ ~(pass[p].pc = "resume" /\ c \in pass[p].cur)

OwnInv == OneOwnerPerSession /\ EntriesKnow /\ RunOwns /\ PassKnows

LEMMA ChildTyped ==
  ASSUME TypeInv, NEW x \in procs
  PROVE  x = [sess |-> x.sess, n |-> x.n] /\ x.sess \in Launches /\ x.sess # 0
BY LaunchesAreNat DEF TypeInv, TypeOK

LEMMA OwnQuiet ==
  ASSUME TypeInv, OwnInv, Quiet
  PROVE  OwnInv'
<1>0. NoRun.phase = "none" /\ procs' \subseteq procs
  BY DEF NoRun, Quiet
<1>1. OneOwnerPerSession'
  BY <1>0 DEF OwnInv, OneOwnerPerSession
<1>2. EntriesKnow'
  <2> SUFFICES ASSUME NEW c \in Cards
               PROVE  Knows(journal[c])' /\ (service' = "down" => Knows(disk[c])')
    BY DEF EntriesKnow
  <2>1. Knows(journal[c]) /\ (service = "down" => Knows(disk[c]))
    BY DEF OwnInv, EntriesKnow
  <2>2. journal'[c] = journal[c] \/ journal'[c].status # "running"
    BY FinishedEntry DEF Quiet, Flipped, TypeInv, TypeOK
  <2>3. Knows(journal[c])'
    BY <1>0, <2>1, <2>2 DEF Knows
  <2>4. service' = "down" => Knows(disk[c])'
    BY <1>0, <2>1 DEF Knows, Quiet
  <2> QED BY <2>3, <2>4
<1>3. RunOwns'
  <2> SUFFICES ASSUME NEW c \in InFlight', NEW x \in procs', x.sess = eng'[c].sess
               PROVE  x.n = eng'[c].n /\ eng'[c].phase = "live"
    BY DEF RunOwns
  <2>1. /\ c \in InFlight /\ c \in Cards
        /\ eng'[c].sess = eng[c].sess /\ eng'[c].n = eng[c].n /\ eng'[c] # NoRun
    BY RunsKeepTheirNames DEF Quiet, InFlight
  <2>2. x.n = eng[c].n /\ eng[c].phase = "live"
    BY <1>0, <2>1 DEF OwnInv, RunOwns
  <2>3. eng'[c] = eng[c]
    BY <2>1, <2>2 DEF Quiet, RunsEnd
  <2> QED BY <2>2, <2>3
<1>4. PassKnows'
  <2> SUFFICES ASSUME NEW p \in Passes, NEW c \in Ahead(p)', NEW x \in procs',
                      x.sess = pass'[p].snap[c].sess, eng'[c].sess # x.sess
               PROVE  /\ x.n = pass'[p].snap[c].unit
                      /\ ~(pass'[p].pc = "resume" /\ c \in pass'[p].cur)
    BY DEF PassKnows
  <2>1. c \in Ahead(p) /\ pass'[p].snap[c] = pass[p].snap[c] /\ x \in procs
    BY <1>0 DEF Quiet, PassesShrink
  <2>2. c \in Cards
    BY <2>1, AheadTyped
  <2>3. eng[c].sess # x.sess
    <3> SUFFICES ASSUME eng[c].sess = x.sess PROVE FALSE
      OBVIOUS
    <3>1. eng[c] \in Run
      BY <2>2 DEF TypeInv, TypeOK
    <3>2. /\ eng[c].phase = "live"
          /\ [sess |-> eng[c].sess, n |-> eng[c].n] \notin procs'
      BY <2>2, <3>1 DEF Quiet, RunsEnd, Run
    <3>3. c \in InFlight
      BY <1>0, <2>2, <3>2 DEF InFlight
    <3>4. x.n = eng[c].n
      BY <2>1, <3>3 DEF OwnInv, RunOwns
    <3> QED BY <2>1, <3>2, <3>4, ChildTyped
  <2>4. x.n = pass[p].snap[c].unit /\ ~(pass[p].pc = "resume" /\ c \in pass[p].cur)
    BY <2>1, <2>3 DEF OwnInv, PassKnows
  <2>5. Alive(pass[p].snap[c].sess, pass[p].snap[c].unit)
    BY <2>1, <2>4, ChildTyped DEF Alive
  <2> QED BY <2>1, <2>4, <2>5 DEF Quiet, Probed
<1> QED BY <1>1, <1>2, <1>3, <1>4 DEF OwnInv

LEMMA OwnLoads ==
  ASSUME TypeInv, OwnInv, NEW p \in Passes, BootPass(p) \/ SweepPass(p)
  PROVE  OwnInv'
<1>1. OneOwnerPerSession' /\ EntriesKnow' /\ RunOwns'
  BY LoadedWhat DEF OwnInv, OneOwnerPerSession, EntriesKnow, Knows, RunOwns, InFlight
<1>2. PassKnows'
  <2> SUFFICES ASSUME NEW q \in Passes, NEW c \in Ahead(q)', NEW x \in procs',
                      x.sess = pass'[q].snap[c].sess
               PROVE  \/ eng'[c].sess = x.sess
                      \/ /\ x.n = pass'[q].snap[c].unit
                         /\ ~(pass'[q].pc = "resume" /\ c \in pass'[q].cur)
    BY DEF PassKnows
  <2>0. x \in procs /\ eng' = eng
    BY LoadedWhat
  <2>1. CASE q = p
    <3>1. c \in Interrupted /\ pass'[p].snap[c] = journal[c] /\ pass'[p].pc = "loaded"
      BY <2>1, LoadedWhat DEF Interrupted
    <3>2. Knows(journal[c]) /\ journal[c].status = "running"
      BY <3>1 DEF OwnInv, EntriesKnow, Interrupted
    <3> QED BY <2>0, <2>1, <3>1, <3>2 DEF Knows
  <2>2. CASE q # p
    <3>1. c \in Ahead(q) /\ pass'[q] = pass[q]
      BY <2>2, LoadedWhat
    <3> QED BY <2>0, <3>1 DEF OwnInv, PassKnows
  <2> QED BY <2>1, <2>2
<1> QED BY <1>1, <1>2 DEF OwnInv

LEMMA OwnGoesOn ==
  ASSUME TypeInv, ApartInv, OwnInv, NEW k \in Cards, TreeRecorded(k) \/ Spawn(k)
  PROVE  OwnInv'
<1> DEFINE s == eng[k].sess
<1>0. s \in Launches /\ s # 0 /\ k \in InFlight /\ service # "down"
  BY RunGoesOn, LaunchesAreNat DEF TypeInv, RunsNamed, Named, InFlight, ApartInv,
     DownIsIdle
<1>1. \A x \in procs : x.sess # s
  BY <1>0, RunGoesOn DEF OwnInv, RunOwns
<1>2. \A d \in Cards \ {k} :
        /\ journal[d].sess # s /\ eng[d].sess # s
        /\ \A p \in Passes : pass[p].snap[d].sess # s
  <2> TAKE d \in Cards \ {k}
  <2>1. \A a \in Names(d) : a[1] # s
    BY <1>0, NamesOf DEF ApartInv, Apart
  <2> QED BY <2>1, NamesOf
<1>3. \A x \in procs' : x \in procs \/ (x.sess = s /\ x.n = eng[k].n
                                       /\ eng'[k].phase = "live"
                                       /\ journal'[k].unit = eng[k].n)
  BY RunGoesOn
<1>4. /\ UNCHANGED <<service, pass>> /\ eng'[k].sess = s /\ journal'[k].sess = s
      /\ eng'[k].n = eng[k].n
      /\ \A d \in Cards \ {k} : eng'[d] = eng[d] /\ journal'[d] = journal[d]
  BY RunGoesOn
<1> HIDE DEF s
<1>5. OneOwnerPerSession'
  <2> SUFFICES ASSUME NEW x \in procs', NEW y \in procs', x.sess = y.sess
               PROVE  x = y
    BY DEF OneOwnerPerSession
  <2>1. CASE x \in procs /\ y \in procs
    BY <2>1 DEF OwnInv, OneOwnerPerSession
  <2>2. CASE x \notin procs /\ y \notin procs
    BY <2>2, RunGoesOn
  <2> QED BY <1>1, <1>3, <2>1, <2>2
<1>6. EntriesKnow'
  <2> SUFFICES ASSUME NEW c \in Cards PROVE Knows(journal[c])'
    BY <1>0, <1>4 DEF EntriesKnow
  <2>1. CASE c = k
    BY <1>1, <1>3, <1>4, <2>1 DEF Knows
  <2>2. CASE c # k
    <3>1. Knows(journal[c]) /\ journal'[c] = journal[c] /\ journal[c].sess # s
      BY <1>2, <1>4, <2>2 DEF OwnInv, EntriesKnow
    <3> QED BY <1>3, <3>1 DEF Knows
  <2> QED BY <2>1, <2>2
<1>7. RunOwns'
  <2> SUFFICES ASSUME NEW c \in InFlight', NEW x \in procs', x.sess = eng'[c].sess
               PROVE  x.n = eng'[c].n /\ eng'[c].phase = "live"
    BY DEF RunOwns
  <2>1. CASE c = k
    BY <1>1, <1>3, <1>4, <2>1
  <2>2. CASE c # k
    <3>1. c \in InFlight /\ eng'[c] = eng[c] /\ eng[c].sess # s
      BY <1>2, <1>4, <2>2 DEF InFlight
    <3> QED BY <1>3, <3>1 DEF OwnInv, RunOwns
  <2> QED BY <2>1, <2>2
<1>8. PassKnows'
  <2> SUFFICES ASSUME NEW p \in Passes, NEW c \in Ahead(p), NEW x \in procs',
                      x.sess = pass[p].snap[c].sess
               PROVE  \/ eng'[c].sess = x.sess
                      \/ /\ x.n = pass[p].snap[c].unit
                         /\ ~(pass[p].pc = "resume" /\ c \in pass[p].cur)
    BY <1>4 DEF PassKnows, Ahead
  <2>0. c \in Cards
    BY AheadTyped
  <2>1. CASE x \notin procs
    BY <1>2, <1>3, <1>4, <2>0, <2>1
  <2>2. CASE x \in procs
    <3>1. eng'[c].sess = eng[c].sess
      BY <1>4, <2>0 DEF s
    <3> QED BY <2>2, <3>1 DEF OwnInv, PassKnows
  <2> QED BY <2>1, <2>2
<1> QED BY <1>5, <1>6, <1>7, <1>8 DEF OwnInv

\* A launch in a session that no child owns.
LEMMA OwnStarts ==
  ASSUME TypeInv, OwnInv, NEW k \in Cards, NEW s, NEW h, Starts(k, s, h),
         procs' \subseteq procs, PassesShrink, Probed, service # "down",
         \A x \in procs' : x.sess # s /\ x.sess # eng[k].sess
  PROVE  OwnInv'
<1>1. OneOwnerPerSession'
  BY DEF OwnInv, OneOwnerPerSession
<1>2. EntriesKnow'
  <2> SUFFICES ASSUME NEW c \in Cards PROVE Knows(journal[c])'
    BY StartsWhat DEF EntriesKnow
  <2>1. CASE c = k
    BY <2>1, StartsWhat DEF Knows
  <2>2. CASE c # k
    <3>1. Knows(journal[c]) /\ journal'[c] = journal[c]
      BY <2>2, StartsWhat DEF OwnInv, EntriesKnow
    <3> QED BY <3>1 DEF Knows
  <2> QED BY <2>1, <2>2
<1>3. RunOwns'
  <2> SUFFICES ASSUME NEW c \in InFlight', NEW x \in procs', x.sess = eng'[c].sess
               PROVE  x.n = eng'[c].n /\ eng'[c].phase = "live"
    BY DEF RunOwns
  <2>1. c # k
    BY StartsWhat
  <2>2. c \in InFlight /\ eng'[c] = eng[c]
    BY <2>1, StartsWhat DEF InFlight
  <2> QED BY <2>2 DEF OwnInv, RunOwns
<1>4. PassKnows'
  <2> SUFFICES ASSUME NEW p \in Passes, NEW c \in Ahead(p)', NEW x \in procs',
                      x.sess = pass'[p].snap[c].sess, eng'[c].sess # x.sess
               PROVE  /\ x.n = pass'[p].snap[c].unit
                      /\ ~(pass'[p].pc = "resume" /\ c \in pass'[p].cur)
    BY DEF PassKnows
  <2>1. c \in Ahead(p) /\ pass'[p].snap[c] = pass[p].snap[c] /\ c \in Cards
    BY AheadTyped DEF PassesShrink
  <2>2. eng[c].sess # x.sess
    BY <2>1, StartsWhat
  <2>3. x.n = pass[p].snap[c].unit /\ ~(pass[p].pc = "resume" /\ c \in pass[p].cur)
    BY <2>1, <2>2 DEF OwnInv, PassKnows
  <2>4. Alive(pass[p].snap[c].sess, pass[p].snap[c].unit)
    BY <2>1, <2>3, ChildTyped DEF Alive
  <2> QED BY <2>1, <2>3, <2>4 DEF Probed
<1> QED BY <1>1, <1>2, <1>3, <1>4 DEF OwnInv

LEMMA OwnLaunches ==
  ASSUME TypeInv, ApartInv, OwnInv, NEW k \in Cards,
         \/ Enter(k) \/ (OutOfTurns(k) /\ ~UNCHANGED born)
         \/ \E p \in Passes : Resume(p, k)
  PROVE  OwnInv'
<1>0. NoRun.sess = 0 /\ NoRun.phase = "none"
  BY DEF NoRun
<1>1. CASE Enter(k)
  <2>1. /\ eng[k] = NoRun /\ UNCHANGED <<procs, pass>>
        /\ \E h : Starts(k, born + 1, h)
    BY <1>1, WaysToStart
  <2>2. \A x \in procs : x.sess # born + 1 /\ x.sess # 0
    <3> TAKE x \in procs
    <3>1. x.sess \in Nat /\ x.sess # 0
      BY ChildTyped, LaunchesAreNat
    <3>2. born \in Nat /\ x.sess <= born
      BY NumbersTyped DEF ApartInv, BornFirst
    <3> QED BY <3>1, <3>2
  <2>3. service # "down" /\ PassesShrink /\ Probed
    BY <1>1, <2>1, PassesRest DEF Enter
  <2> QED BY <1>0, <2>1, <2>2, <2>3, OwnStarts
<1>2. CASE OutOfTurns(k) /\ ~UNCHANGED born
  <2>1. /\ eng[k].phase = "live" /\ UNCHANGED pass
        /\ procs' = procs \ {[sess |-> eng[k].sess, n |-> eng[k].n]}
        /\ \E h : Starts(k, eng[k].sess, h)
    BY <1>2, WaysToStart
  <2>2. k \in InFlight /\ service # "down"
    BY <1>0, <2>1 DEF InFlight, ApartInv, DownIsIdle
  <2>3. \A x \in procs' : x.sess # eng[k].sess
    <3> TAKE x \in procs'
    <3>1. x \in procs /\ x # [sess |-> eng[k].sess, n |-> eng[k].n]
      BY <2>1
    <3> QED BY <2>2, <3>1, ChildTyped DEF OwnInv, RunOwns
  <2> QED BY <2>1, <2>2, <2>3, PassesRest, OwnStarts
<1>3. ASSUME NEW p \in Passes, Resume(p, k) PROVE OwnInv'
  <2> DEFINE s == pass[p].snap[k].sess
  <2>1. /\ eng[k] = NoRun /\ UNCHANGED procs /\ pass[p].pc = "resume"
        /\ k \in pass[p].cur /\ NextEntry(p) /\ \E h : Starts(k, s, h)
    BY <1>3, WaysToStart
  <2>2. PassesShrink /\ Probed
    BY <2>1, NextEntryShrinks DEF Probed
  <2>3. k \in Ahead(p) /\ service # "down"
    BY <2>1 DEF Ahead, ApartInv, DownIsIdle
  <2>4. \A x \in procs : x.sess # s /\ x.sess # 0
    BY <1>0, <2>1, <2>3, ChildTyped DEF OwnInv, PassKnows
  <2> HIDE DEF s
  <2> QED BY <1>0, <2>1, <2>2, <2>3, <2>4, OwnStarts
<1> QED BY <1>1, <1>2, <1>3

LEMMA OwnWorld ==
  ASSUME ~WritesLag, OwnInv, Flush \/ Crash \/ Restart
  PROVE  OwnInv'
<1>0. procs' = procs /\ NoEntry.status # "running"
  BY WorldsWrite, BlanksTyped
<1>1. CASE Flush
  BY <1>0, <1>1 DEF Flush, OwnInv, OneOwnerPerSession, EntriesKnow, Knows, RunOwns,
     PassKnows, InFlight, Ahead
<1>2. CASE Crash
  <2>1. \A c \in Cards : journal'[c] = NoEntry /\ eng'[c] = NoRun
    BY <1>2 DEF Crash
  <2>2. \A p \in Passes : Ahead(p)' = {}
    BY <1>2 DEF Crash, Ahead, NoPass
  <2>3. disk' = disk /\ disk = journal
    BY <1>2 DEF Crash
  <2>4. EntriesKnow'
    BY <1>0, <2>1, <2>3 DEF OwnInv, EntriesKnow, Knows
  <2>5. RunOwns' /\ PassKnows'
    BY <2>1, <2>2 DEF RunOwns, PassKnows, InFlight
  <2> QED BY <1>0, <2>4, <2>5 DEF OwnInv, OneOwnerPerSession
<1>3. CASE Restart
  <2>1. EntriesKnow'
    BY <1>0, <1>3 DEF Restart, OwnInv, EntriesKnow, Knows
  <2> QED BY <1>0, <1>3, <2>1 DEF Restart, OwnInv, OneOwnerPerSession, RunOwns,
             PassKnows, InFlight, Ahead
<1> QED BY <1>1, <1>2, <1>3

LEMMA OwnStep ==
  ASSUME ~WritesLag, TypeInv, ApartInv, OwnInv, [Next]_vars
  PROVE  OwnInv'
BY KindsOfStep, OwnQuiet, OwnLoads, OwnGoesOn, OwnLaunches, OwnWorld

\* "NEVER resume into a session a live orphan still owns": whatever survives a
\* crash, hangs in its scope or is resumed, by however many passes, and even
\* if sweeps run beside live runs - provided no crash loses a journal write.
THEOREM SessionsHaveOneOwner ==
  ASSUME ~WritesLag
  PROVE  Spec => []OneOwnerPerSession
<1> DEFINE IInv == TypeInv /\ ApartInv /\ OwnInv
<1>1. Init => IInv
  <2>1. Init => OwnInv
    BY BlanksTyped DEF Init, OwnInv, OneOwnerPerSession, EntriesKnow, Knows,
       RunOwns, PassKnows, InFlight
  <2> QED BY <2>1, TypeInit, ApartInit
<1>2. IInv /\ [Next]_vars => IInv'
  BY TypeStep, ApartStep, OwnStep
<1>3. IInv => OneOwnerPerSession
  BY DEF OwnInv
<1> QED BY <1>1, <1>2, <1>3, PTL DEF Spec

-----------------------------------------------------------------------------
(* A launch is taken up again at most once.                                *)

Heir(H, n) == \E x \in H : x[1] = n

\* Whatever may still be resumed - an entry, a run, what a pass has ahead -
\* has no heir yet.
HeirInv ==
  /\ \A c \in Cards :
       /\ journal[c].status = "running" => ~Heir(heirs, journal[c].n)
       /\ service = "down" /\ disk[c].status = "running" => ~Heir(heirs, disk[c].n)
       /\ eng[c] # NoRun => ~Heir(heirs, eng[c].n)
  /\ \A p \in Passes : \A c \in Ahead(p) : ~Heir(heirs, pass[p].snap[c].n)
  /\ \A x \in heirs : x[1] <= born
  /\ ResumedOnce

\* As long as nothing is taken up, what has no heir keeps having none.
LEMMA HeirsRest ==
  ASSUME TypeInv, HeirInv, UNCHANGED heirs, born' \in {born, born + 1},
         \A c \in Cards :
           /\ journal'[c].status = "running" => ~Heir(heirs, journal'[c].n)
           /\ service' = "down" /\ disk'[c].status = "running" => ~Heir(heirs, disk'[c].n)
           /\ eng'[c] # NoRun => ~Heir(heirs, eng'[c].n),
         \A p \in Passes : \A c \in Ahead(p)' : ~Heir(heirs, pass'[p].snap[c].n)
  PROVE  HeirInv'
<1>1. \A n : Heir(heirs', n) <=> Heir(heirs, n)
  BY DEF Heir
<1>2. \A x \in heirs : x[1] <= born'
  <2> TAKE x \in heirs
  <2>1. x[1] \in Nat /\ born \in Nat /\ x[1] <= born
    BY LaunchesAreNat, NumbersTyped DEF HeirInv, TypeInv, TypeOK
  <2> QED BY <2>1
<1> QED BY <1>1, <1>2, Zenon DEF HeirInv, ResumedOnce, Heir

\* A launch of card k takes up launch m, which nothing else could take up.
LEMMA HeirsGrow ==
  ASSUME TypeInv, ApartInv, HeirInv, NEW k \in Cards, NEW s, NEW h,
         Starts(k, s, h), PassesShrink, service # "down",
         NEW m \in Launches, m <= born, ~Heir(heirs, m), \E a \in Names(k) : a[2] = m,
         heirs' = heirs \cup {<<m, born + 1>>},
         \A p \in Passes : k \in Ahead(p)' => pass[p].snap[k].n # m
  PROVE  HeirInv'
<1>0. m # 0 /\ m \in Nat /\ born \in Nat
  BY LaunchesAreNat, NumbersTyped
<1>1. \A n : Heir(heirs', n) => Heir(heirs, n) \/ n = m
  BY DEF Heir
<1>2. \A c \in Cards \ {k} : \A a \in Names(c) : a[2] # m
  BY <1>0 DEF ApartInv, Apart
<1>3. ~Heir(heirs', born + 1)
  <2>1. \A x \in heirs : x[1] # born + 1
    <3> TAKE x \in heirs
    <3>1. x[1] \in Nat /\ x[1] <= born
      BY LaunchesAreNat DEF HeirInv, TypeInv, TypeOK
    <3> QED BY <1>0, <3>1
  <2> QED BY <1>0, <1>1, <2>1 DEF Heir
<1>4. ASSUME NEW c \in Cards
      PROVE  /\ journal'[c].status = "running" => ~Heir(heirs', journal'[c].n)
             /\ eng'[c] # NoRun => ~Heir(heirs', eng'[c].n)
  <2>1. CASE c = k
    BY <1>3, <2>1, StartsWhat
  <2>2. CASE c # k
    <3>1. journal'[c] = journal[c] /\ eng'[c] = eng[c]
      BY <2>2, StartsWhat
    <3>2. journal[c].n # m /\ eng[c].n # m
      <4>1. \A a \in Names(c) : a[2] # m
        BY <1>2, <2>2
      <4> QED BY <4>1, NamesOf
    <3> QED BY <1>1, <3>1, <3>2 DEF HeirInv
  <2> QED BY <2>1, <2>2
<1>5. ASSUME NEW p \in Passes, NEW c \in Ahead(p)'
      PROVE  ~Heir(heirs', pass'[p].snap[c].n)
  <2>1. c \in Ahead(p) /\ pass'[p].snap[c] = pass[p].snap[c] /\ c \in Cards
    BY AheadTyped DEF PassesShrink
  <2>2. pass[p].snap[c].n # m
    <3>1. CASE c # k
      <4>1. \A a \in Names(c) : a[2] # m
        BY <1>2, <2>1, <3>1
      <4> QED BY <2>1, <4>1, NamesOf
    <3> QED BY <3>1
  <2> QED BY <1>1, <2>1, <2>2 DEF HeirInv
<1>6. \A x \in heirs' : x[1] <= born'
  <2> TAKE x \in heirs'
  <2>1. CASE x = <<m, born + 1>>
    BY <1>0, <2>1, StartsWhat
  <2>2. CASE x \in heirs
    <3>1. x[1] \in Nat /\ x[1] <= born
      BY <2>2, LaunchesAreNat DEF HeirInv, TypeInv, TypeOK
    <3> QED BY <1>0, <3>1, StartsWhat
  <2> QED BY <2>1, <2>2
<1>7. ResumedOnce'
  BY DEF HeirInv, ResumedOnce, Heir
<1>8. service' # "down"
  BY StartsWhat
<1> QED BY <1>4, <1>5, <1>6, <1>7, <1>8 DEF HeirInv

LEMMA HeirQuiet ==
  ASSUME TypeInv, HeirInv, Quiet
  PROVE  HeirInv'
<1>1. ASSUME NEW c \in Cards
      PROVE  /\ journal'[c].status = "running" => ~Heir(heirs, journal'[c].n)
             /\ service' = "down" /\ disk'[c].status = "running" => ~Heir(heirs, disk'[c].n)
             /\ eng'[c] # NoRun => ~Heir(heirs, eng'[c].n)
  <2>1. journal'[c] = journal[c] \/ journal'[c].status # "running"
    BY FinishedEntry DEF Quiet, Flipped, TypeInv, TypeOK
  <2>2. eng'[c] # NoRun => eng[c] # NoRun /\ eng'[c].n = eng[c].n
    BY RunsKeepTheirNames DEF Quiet
  <2> QED BY <2>1, <2>2 DEF Quiet, HeirInv
<1>2. \A p \in Passes : \A c \in Ahead(p)' : ~Heir(heirs, pass'[p].snap[c].n)
  BY DEF Quiet, PassesShrink, HeirInv
<1> QED BY <1>1, <1>2, HeirsRest DEF Quiet

LEMMA HeirLoads ==
  ASSUME TypeInv, HeirInv, NEW p \in Passes, BootPass(p) \/ SweepPass(p)
  PROVE  HeirInv'
<1>1. UNCHANGED <<service, born, journal, disk, eng, heirs>>
  BY LoadedWhat
<1>2. ASSUME NEW q \in Passes, NEW c \in Ahead(q)'
      PROVE  ~Heir(heirs, pass'[q].snap[c].n)
  <2>1. CASE q = p
    <3>1. c \in Interrupted /\ pass'[p].snap[c] = journal[c]
      BY <1>2, <2>1, LoadedWhat DEF Interrupted
    <3> QED BY <2>1, <3>1 DEF Interrupted, HeirInv
  <2>2. CASE q # p
    BY <1>2, <2>2, LoadedWhat DEF HeirInv
  <2> QED BY <2>1, <2>2
<1> QED BY <1>1, <1>2, HeirsRest DEF HeirInv

LEMMA HeirGoesOn ==
  ASSUME TypeInv, HeirInv, NEW k \in Cards, TreeRecorded(k) \/ Spawn(k)
  PROVE  HeirInv'
<1>1. ASSUME NEW c \in Cards
      PROVE  /\ journal'[c].status = "running" => ~Heir(heirs, journal'[c].n)
             /\ service' = "down" /\ disk'[c].status = "running" => ~Heir(heirs, disk'[c].n)
             /\ eng'[c] # NoRun => ~Heir(heirs, eng'[c].n)
  BY RunGoesOn DEF HeirInv
<1>2. \A p \in Passes : \A c \in Ahead(p)' : ~Heir(heirs, pass'[p].snap[c].n)
  BY RunGoesOn DEF HeirInv, Ahead
<1> QED BY <1>1, <1>2, HeirsRest, RunGoesOn

LEMMA HeirLaunches ==
  ASSUME OnePass, CoverInv, ApartInv, HeirInv, NEW k \in Cards,
         \/ Enter(k) \/ (OutOfTurns(k) /\ ~UNCHANGED born)
         \/ \E p \in Passes : Resume(p, k)
  PROVE  HeirInv'
<1>0. TypeInv /\ NoRun.phase = "none" /\ born \in Nat
  BY NumbersTyped DEF NoRun, CoverInv
<1>1. CASE Enter(k)
  <2>1. /\ eng[k] = NoRun /\ UNCHANGED <<pass, heirs>>
        /\ \E h : Starts(k, born + 1, h)
    BY <1>0, <1>1, WaysToStart
  <2>2. ~Heir(heirs, born + 1)
    <3> SUFFICES ASSUME NEW x \in heirs PROVE x[1] # born + 1
      BY DEF Heir
    <3>1. x[1] \in Nat /\ x[1] <= born
      BY <1>0, LaunchesAreNat DEF HeirInv, TypeInv, TypeOK
    <3> QED BY <1>0, <3>1
  <2>3. ASSUME NEW c \in Cards
        PROVE  /\ journal'[c].status = "running" => ~Heir(heirs, journal'[c].n)
               /\ service' = "down" /\ disk'[c].status = "running" => ~Heir(heirs, disk'[c].n)
               /\ eng'[c] # NoRun => ~Heir(heirs, eng'[c].n)
    <3>1. UNCHANGED <<disk, service>>
      BY <1>0, <2>1, StartsWhat
    <3>2. CASE c = k
      BY <1>0, <2>1, <2>2, <3>1, <3>2, StartsWhat DEF HeirInv
    <3>3. CASE c # k
      <4>1. journal'[c] = journal[c] /\ eng'[c] = eng[c]
        BY <1>0, <2>1, <3>3, StartsWhat
      <4> QED BY <3>1, <4>1 DEF HeirInv
    <3> QED BY <3>2, <3>3
  <2>4. \A p \in Passes : \A c \in Ahead(p)' : ~Heir(heirs, pass'[p].snap[c].n)
    BY <2>1 DEF HeirInv, Ahead
  <2>5. born' = born + 1
    BY <1>0, <2>1, StartsWhat
  <2> QED BY <1>0, <2>1, <2>3, <2>4, <2>5, HeirsRest
<1>2. CASE OutOfTurns(k) /\ ~UNCHANGED born
  <2> DEFINE m == eng[k].n
  <2>1. /\ eng[k].phase = "live" /\ UNCHANGED pass
        /\ heirs' = heirs \cup {<<m, born + 1>>}
        /\ \E h : Starts(k, eng[k].sess, h)
    BY <1>0, <1>2, WaysToStart
  <2>2. eng[k] # NoRun /\ service # "down"
    BY <1>0, <2>1 DEF InFlight, ApartInv, DownIsIdle
  <2>3. m \in Launches /\ m <= born /\ ~Heir(heirs, m)
    BY <1>0, <2>2 DEF TypeInv, RunsNamed, Named, CoverInv, Numbered, HeirInv
  <2>4. \E a \in Names(k) : a[2] = m
    BY NamesOf
  <2>5. \A p \in Passes : pass[p].snap[k].n # m
    BY <2>2 DEF CoverInv, SnapsStale
  <2> HIDE DEF m
  <2> QED BY <1>0, <2>1, <2>2, <2>3, <2>4, <2>5, PassesRest, HeirsGrow
<1>3. ASSUME NEW p \in Passes, Resume(p, k) PROVE HeirInv'
  <2> DEFINE m == pass[p].snap[k].n
  <2>1. /\ k \in pass[p].cur /\ NextEntry(p)
        /\ heirs' = heirs \cup {<<m, born + 1>>}
        /\ \E h : Starts(k, pass[p].snap[k].sess, h)
    BY <1>0, <1>3, WaysToStart
  <2>2. /\ PassesShrink /\ Ahead(p)' = pass[p].todo
        /\ pass[p].todo \cap pass[p].cur = {}
    BY <1>0, <2>1, NextEntryShrinks
  <2>3. k \in Ahead(p) /\ service # "down"
    BY <2>1 DEF Ahead, ApartInv, DownIsIdle
  <2>4. m \in Launches /\ m <= born /\ ~Heir(heirs, m)
    <3>1. m \in Launches
      BY <1>0, <2>3, AheadTyped DEF Named
    <3>2. m <= born
      BY DEF CoverInv, SnapsNumbered
    <3> QED BY <2>3, <3>1, <3>2 DEF HeirInv
  <2>5. \E a \in Names(k) : a[2] = m
    BY NamesOf
  <2>6. \A q \in Passes : k \notin Ahead(q)'
    BY <2>1, <2>2 DEF OnePass
  <2> HIDE DEF m
  <2> QED BY <1>0, <2>1, <2>2, <2>3, <2>4, <2>5, <2>6, HeirsGrow
<1> QED BY <1>1, <1>2, <1>3

LEMMA HeirWorld ==
  ASSUME ~WritesLag, TypeInv, HeirInv, Flush \/ Crash \/ Restart
  PROVE  HeirInv'
<1>0. UNCHANGED <<born, heirs>> /\ NoEntry.status # "running"
  BY WorldsWrite, BlanksTyped
<1>1. ASSUME NEW c \in Cards
      PROVE  /\ journal'[c].status = "running" => ~Heir(heirs, journal'[c].n)
             /\ service' = "down" /\ disk'[c].status = "running" => ~Heir(heirs, disk'[c].n)
             /\ eng'[c] # NoRun => ~Heir(heirs, eng'[c].n)
  <2>1. CASE Flush
    BY <2>1 DEF Flush, HeirInv
  <2>2. CASE Crash
    <3>1. journal'[c] = NoEntry /\ eng'[c] = NoRun /\ disk' = disk /\ disk = journal
      BY <2>2 DEF Crash
    <3> QED BY <1>0, <3>1 DEF HeirInv
  <2>3. CASE Restart
    BY <2>3 DEF Restart, HeirInv
  <2> QED BY <2>1, <2>2, <2>3
<1>2. \A p \in Passes : \A c \in Ahead(p)' : ~Heir(heirs, pass'[p].snap[c].n)
  <2>1. CASE Crash
    BY <2>1 DEF Crash, Ahead, NoPass
  <2>2. CASE UNCHANGED pass
    BY <2>2 DEF HeirInv, Ahead
  <2> QED BY <2>1, <2>2 DEF Flush, Restart
<1> QED BY <1>0, <1>1, <1>2, HeirsRest

LEMMA HeirStep ==
  ASSUME ~WritesLag, OnePass, CoverInv, ApartInv, HeirInv, [Next]_vars
  PROVE  HeirInv'
<1>1. TypeInv
  BY DEF CoverInv
<1> QED BY <1>1, KindsOfStep, HeirQuiet, HeirLoads, HeirGoesOn, HeirLaunches,
           HeirWorld

\* Whatever is interrupted, by a crash or for want of turns, and whoever takes
\* it up, the engine or a pass: it is taken up at most once - provided sweeps
\* wait for an idle engine, passes take turns and no journal write is lost.
THEOREM InterruptedResumeOnce ==
  ASSUME ~Starves, ~WritesLag, OnePass
  PROVE  Spec => []ResumedOnce
<1> DEFINE IInv == CoverInv /\ ApartInv /\ HeirInv
<1>1. Init => IInv
  <2>1. Init => HeirInv
    BY BlanksTyped DEF Init, HeirInv, ResumedOnce, Ahead, Heir
  <2> QED BY <2>1, CoverInit, ApartInit
<1>2. IInv /\ [Next]_vars => IInv'
  BY CoverStep, ApartStep, HeirStep DEF CoverInv
<1>3. IInv => ResumedOnce
  BY DEF HeirInv
<1> QED BY <1>1, <1>2, <1>3, PTL DEF Spec

=============================================================================
