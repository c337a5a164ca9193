------------------------- MODULE MergeTrain_proofs -------------------------
(***************************************************************************)
(* Proofs about MergeTrain, for any jobs, gates, operators and bounds: the *)
(* train is typed, keeps the only copy of work that has not landed, stops  *)
(* while publication is held, implements Integration and integrates one    *)
(* entry at a time.                                                        *)
(*                                                                         *)
(* One invariant carries all but the last.  Its parts: entries keep their  *)
(* run and its work for good, in memory as in the file (Made, Kin,         *)
(* Recorded); what an entry is marked with has landed (MarksHold); and     *)
(* where the loop is says what has landed of its entry (Sound).  The last  *)
(* one has an invariant of its own (FlightInv): the entry in integration   *)
(* is the loop's, or one that recovery has still to look at.               *)
(***************************************************************************)
EXTENDS MergeTrain, TLAPS

Born == 1..born
Pcs == {"off", "head", "ref", "gate", "verdict", "blocker", "redrive", "split",
        "apply", "mark", "merge", "close", "emit"}

Work(t) == entry[t].work
Run(t) == entry[t].run

\* What is never written again once an entry was made.
SameWork ==
  \A t \in Ids : /\ entry'[t].run = entry[t].run
                 /\ entry'[t].work = entry[t].work
                 /\ entry'[t].card = entry[t].card
                 /\ entry'[t].drive = entry[t].drive

Made ==
  /\ listed \subseteq Born /\ closed \subseteq Born
  /\ loop.at \in Born \cup {0} /\ door.at \in Born \cup {0}
  /\ door.todo \subseteq Born /\ boot.todo \subseteq Born
  /\ boot.kept \subseteq Born /\ boot.told \subseteq Born
  /\ \A t \in Ids : IF t \in Born THEN Run(t) \in 1..t ELSE Run(t) = 0

\* The entries of a run carry the work of its first one.
Kin == \A t \in Born : Run(Run(t)) = Run(t) /\ Work(Run(t)) = Work(t)

Marked(e) == \A h \in e.marks \cap e.work : <<e.run, h>> \in landed
MarksHold == \A t \in Ids : Marked(entry[t]) /\ Marked(disk[t])

\* The file knows an entry as it was made.
Recorded ==
  \A t \in Ids : disk[t].st # "none" =>
    /\ t \in Born /\ disk[t].run = Run(t) /\ disk[t].work = Work(t)

\* Where the loop is, and what has landed of the entry it holds.
Sound ==
  /\ loop.at = 0 <=> loop.pc \in {"off", "head"}
  /\ loop.at # 0 =>
       /\ ~hold
       /\ loop.pc \in {"apply", "mark"} /\ loop.half = "data"
            => Landed(Run(me), Work(me) \cap {"code"})
       /\ loop.pc = "mark" => <<Run(me), loop.half>> \in landed
       /\ loop.pc = "merge" => ~staging
       /\ loop.pc \in {"close", "emit"} => Landed(Run(me), Work(me))
       /\ loop.pc = "redrive" => CanRedrive(entry[me])

ToldHaveLanded == \A r \in boot.told : Landed(r, Work(r))

Inv ==
  /\ TypeOK /\ Made /\ Kin /\ MarksHold /\ Recorded /\ Sound /\ ToldHaveLanded
  /\ WorkIsKept

-----------------------------------------------------------------------------
(* Helpers.                                                                *)

LEMMA AtIs ==
  ASSUME NEW pc \in Pcs, NEW t \in Ids \cup {0}, NEW half \in Halves,
         NEW park \in {"head", "off"}
  PROVE  /\ At(pc, t, half, park) \in Loop
         /\ At(pc, t, half, park).pc = pc /\ At(pc, t, half, park).at = t
         /\ At(pc, t, half, park).half = half
         /\ At(pc, t, half, park).park = park
  BY DEF At, Loop, Pcs

LEMMA RestIs ==
  /\ Off \in Loop /\ Off.pc = "off" /\ Off.at = 0
  /\ Head \in Loop /\ Head.pc = "head" /\ Head.at = 0
  BY DEF Off, Head, At, Loop, Halves

LEMMA BornIsId == TypeOK => Born \subseteq Ids /\ born \in Nat
  BY TrainAssumption DEF TypeOK, Born, Ids

LEMMA NoEntryTyped == NoEntry \in Entry
  BY TrainAssumption DEF NoEntry, Entry, Statuses, MaxInconclusive

LEMMA Restatus ==
  ASSUME TypeOK, NEW t \in Ids, NEW s \in Statuses,
         entry' = [entry EXCEPT ![t].st = s]
  PROVE  /\ entry' \in [Ids -> Entry] /\ SameWork
         /\ \A u \in Ids : u # t => entry'[u] = entry[u]
         /\ \A u \in Ids : entry'[u].marks = entry[u].marks
         /\ entry'[t].st = s
  BY DEF TypeOK, Entry, SameWork

\* Whoever leaves entries as they were made, and lands what he marks, has only
\* to say where the loop is and what became of branches and flights.
LEMMA Steady ==
  ASSUME Inv, TypeOK', born' = born, disk' = disk, SameWork,
         landed \subseteq landed',
         listed' \subseteq Born, loop'.at \in Born \cup {0},
         closed' \subseteq Born,
         door'.at \in Born \cup {0}, door'.todo \subseteq Born,
         boot'.todo \subseteq Born, boot'.kept \subseteq Born,
         boot'.told \subseteq Born,
         \A t \in Ids : \A h \in entry'[t].marks \ entry[t].marks :
           h \in Work(t) => <<Run(t), h>> \in landed',
         \A r \in boot'.told \ boot.told : Landed(r, Work(r))',
         Sound', WorkIsKept'
  PROVE  Inv'
  <1>a. Born \subseteq Ids /\ Born' = Born
    BY BornIsId DEF Inv, Born
  <1>1. Made'
    BY <1>a DEF Inv, Made, SameWork, Run
  <1>2. Kin'
    <2>1. \A t \in Born : Run(t) \in Ids
      BY <1>a, BornIsId DEF Inv, Made, Ids, Born
    <2> QED BY <1>a, <2>1 DEF Inv, Kin, SameWork, Run, Work
  <1>3. MarksHold'
    BY DEF Inv, MarksHold, Marked, SameWork, Work, Run
  <1>4. Recorded'
    BY <1>a DEF Inv, Recorded, SameWork, Run, Work
  <1>5. ToldHaveLanded'
    <2>1. \A r \in boot.told : r \in Ids
      BY <1>a DEF Inv, Made
    <2> QED BY <2>1 DEF Inv, ToldHaveLanded, Landed, SameWork, Work
  <1> QED BY <1>1, <1>2, <1>3, <1>4, <1>5 DEF Inv

\* A branch that stands, and a landing, are not undone by a step that says so.
LEMMA WorkStays ==
  ASSUME Inv, SameWork, landed \subseteq landed',
         \A r \in refs \ refs' : "code" \in Work(r) /\ Run(r) = r
                                   => <<r, "code">> \in landed'
  PROVE  WorkIsKept'
  BY DEF Inv, WorkIsKept, SameWork, Work, Run

\* A new entry: the first of its run, whose branch stands, or one more of a run
\* that has its first; the loop stays where it is, or goes to rest.
LEMMA Grows ==
  ASSUME Inv, TypeOK', born < MaxEntries, born' = born + 1,
         UNCHANGED <<staging, disk, landed, hold, closed>>,
         \A t \in Ids : t # born + 1 =>
           /\ entry'[t].run = Run(t) /\ entry'[t].work = Work(t)
           /\ entry'[t].card = entry[t].card /\ entry'[t].drive = entry[t].drive
           /\ entry'[t].marks = entry[t].marks,
         entry'[born + 1].marks = {},
         \/ entry'[born + 1].run = born + 1 /\ born + 1 \in refs'
         \/ \E r \in Born : /\ entry'[born + 1].run = r /\ Run(r) = r
                            /\ entry'[born + 1].work = Work(r),
         refs \subseteq refs', listed' \subseteq Born',
         door'.at \in Born' \cup {0}, door'.todo \subseteq Born',
         boot'.todo \subseteq Born', boot'.kept = boot.kept, boot'.told = boot.told,
         loop' = loop \/ (loop'.at = 0 /\ loop'.pc \in {"off", "head"})
  PROVE  Inv'
  <1>a. /\ Born \subseteq Ids /\ Born \subseteq Born' /\ Born' = Born \cup {born + 1}
        /\ born + 1 \notin Born /\ born + 1 \in Ids /\ born \in Nat
    BY BornIsId, TrainAssumption DEF Inv, Born, Ids
  <1>b. \A t \in Born : t \in Ids /\ t # born + 1 /\ Run(t) \in Born
    <2> TAKE t \in Born
    <2>1. Run(t) \in 1..t
      BY <1>a DEF Inv, Made
    <2> QED BY <1>a, <2>1 DEF Born
  <1>c. \A t \in Born : entry'[t].run = Run(t) /\ entry'[t].work = Work(t)
    BY <1>b
  <1>1. Made'
    <2>1. ASSUME NEW t \in Ids
          PROVE  IF t \in Born' THEN Run(t)' \in 1..t ELSE Run(t)' = 0
      <3>1. CASE t = born + 1
        BY <1>a, <3>1 DEF Run, Born
      <3>2. CASE t # born + 1
        <4>1. Run(t)' = Run(t) /\ (t \in Born' <=> t \in Born)
          BY <1>a, <3>2 DEF Run
        <4> QED BY <4>1 DEF Inv, Made
      <3> QED BY <3>1, <3>2
    <2>2. loop'.at \in Born' \cup {0}
      BY <1>a DEF Inv, Made
    <2> QED BY <1>a, <2>1, <2>2 DEF Inv, Made
  <1>2. Kin'
    <2>1. ASSUME NEW t \in Born'
          PROVE  LET r == entry'[t].run IN
                 entry'[r].run = r /\ entry'[r].work = entry'[t].work
      <3>1. CASE t \in Born
        BY <1>b, <1>c, <3>1 DEF Inv, Kin
      <3>2. CASE t = born + 1 /\ entry'[t].run = t
        BY <3>2
      <3>3. CASE /\ t = born + 1
                 /\ \E r \in Born : /\ entry'[t].run = r /\ Run(r) = r
                                    /\ entry'[t].work = Work(r)
        BY <1>c, <3>3
      <3> QED BY <1>a, <3>1, <3>2, <3>3
    <2> QED BY <2>1 DEF Kin, Run, Work
  <1>3. MarksHold'
    <2>1. ASSUME NEW t \in Ids PROVE Marked(entry[t])'
      BY DEF Inv, MarksHold, Marked, Run, Work
    <2> QED BY <2>1 DEF Inv, MarksHold, Marked
  <1>4. Recorded'
    BY <1>a, <1>b, <1>c DEF Inv, Recorded, Run, Work
  <1>5. Sound'
    <2>1. CASE loop' = loop /\ loop.at # 0
      <3>1. loop.at \in Born
        BY <2>1 DEF Inv, Made
      <3>2. /\ Run(me)' = Run(me) /\ Work(me)' = Work(me)
            /\ entry'[me].card = entry[me].card /\ entry'[me].drive = entry[me].drive
        BY <1>b, <1>c, <2>1, <3>1 DEF Run, Work, me
      <3>3. CanRedrive(entry[me]) => CanRedrive(entry[me])'
        BY <2>1, <3>2 DEF CanRedrive, me
      <3> QED BY <2>1, <3>2, <3>3 DEF Inv, Sound, Landed, me
    <2>2. CASE loop' = loop /\ loop.at = 0
      BY <2>2 DEF Inv, Sound
    <2>3. CASE loop'.at = 0 /\ loop'.pc \in {"off", "head"}
      BY <2>3 DEF Sound
    <2> QED BY <2>1, <2>2, <2>3
  <1>6. ToldHaveLanded'
    BY <1>a, <1>c DEF Inv, Made, ToldHaveLanded, Landed, Work
  <1>7. WorkIsKept'
    <2>1. ASSUME NEW r \in Ids, entry'[r].run = r, "code" \in entry'[r].work,
                 <<r, "code">> \notin landed
          PROVE  r \in refs'
      <3>1. CASE r = born + 1
        BY <1>a, <2>1, <3>1
      <3>2. CASE r # born + 1
        BY <2>1, <3>2 DEF Inv, WorkIsKept, Run, Work
      <3> QED BY <3>1, <3>2
    <2> QED BY <2>1 DEF WorkIsKept
  <1> QED BY <1>1, <1>2, <1>3, <1>4, <1>5, <1>6, <1>7 DEF Inv

-----------------------------------------------------------------------------
(* The loop.                                                               *)

USE DEF me

\* Where a step of the loop arrives fits what has landed by then.
Arrives ==
  /\ loop' \in Loop /\ loop'.at \in {0, me}
  /\ loop'.at = 0 <=> loop'.pc \in {"off", "head"}
  /\ loop'.at # 0 =>
       /\ ~hold'
       /\ loop'.pc \in {"apply", "mark"} /\ loop'.half = "data" =>
            ("code" \in Work(me) => <<Run(me), "code">> \in landed')
       /\ loop'.pc = "mark" => <<Run(me), loop'.half>> \in landed'
       /\ loop'.pc = "merge" => ~staging
       /\ loop'.pc \in {"close", "emit"} =>
            \A h \in Work(me) : <<Run(me), h>> \in landed'
       /\ loop'.pc = "redrive" => CanRedrive(entry[me])

\* A step at an entry that changes at most that entry.
LEMMA LoopMoves ==
  ASSUME Inv, me # 0, Arrives, TypeOK', SameWork,
         UNCHANGED <<staging, born, listed, disk, door, boot>>,
         closed' \subseteq Born,
         \A u \in Ids : u # me => entry'[u] = entry[u],
         landed \subseteq landed',
         \A h \in entry'[me].marks \ entry[me].marks :
           h \in Work(me) => <<Run(me), h>> \in landed',
         \/ refs' = refs
         \/ /\ refs' = refs \ {Run(me)}
            /\ \A h \in Work(me) : <<Run(me), h>> \in landed'
  PROVE  Inv'
  <1>a. /\ Born \subseteq Ids /\ me \in Born /\ me \in Ids /\ Run(me) \in Born
    <2>1. me \in Born /\ Born \subseteq Ids
      BY BornIsId DEF Inv, Made
    <2>2. Run(me) \in 1..me
      BY <2>1 DEF Inv, Made
    <2> QED BY <2>1, <2>2, BornIsId DEF Inv, Born
  <1>2. Sound'
    <2>1. /\ entry'[me].run = Run(me) /\ entry'[me].work = Work(me)
          /\ CanRedrive(entry'[me]) <=> CanRedrive(entry[me])
      BY <1>a DEF SameWork, Run, Work, CanRedrive
    <2>2. CASE loop'.at = 0
      BY <2>2 DEF Arrives, Sound
    <2>3. CASE loop'.at # 0
      <3>1. loop'.at = me /\ Run(me)' = Run(me) /\ Work(me)' = Work(me)
        BY <2>1, <2>3 DEF Arrives, Run, Work
      <3> QED BY <2>1, <2>3, <3>1 DEF Arrives, Sound, Landed
    <2> QED BY <2>2, <2>3
  <1>3. WorkIsKept'
    <2>1. \A r \in refs \ refs' : r = Run(me) /\ Run(r) = r /\ Work(r) = Work(me)
      BY <1>a DEF Inv, Kin
    <2> QED BY <2>1, WorkStays
  <1>4. \A t \in Ids : \A h \in entry'[t].marks \ entry[t].marks :
          h \in Work(t) => <<Run(t), h>> \in landed'
    BY <1>a
  <1>5. loop'.at \in Born \cup {0}
    BY <1>a DEF Arrives
  <1>6. /\ boot'.told \ boot.told = {} /\ listed' \subseteq Born
        /\ door'.at \in Born \cup {0} /\ door'.todo \subseteq Born
        /\ boot'.todo \subseteq Born /\ boot'.kept \subseteq Born
        /\ boot'.told \subseteq Born
    BY DEF Inv, Made
  <1> QED BY <1>2, <1>3, <1>4, <1>5, <1>6, Steady

\* What the loop knows of the entry it is at.
LEMMA AtEntry ==
  ASSUME Inv, me # 0
  PROVE  /\ me \in Ids /\ entry[me] \in Entry /\ loop \in Loop
         /\ ~hold /\ Run(me) \in Ids /\ OnCard(me) \subseteq Ids
         /\ Run(me) \in Born
  <1>1. me \in Born /\ Born \subseteq Ids /\ born \in Nat
    BY BornIsId DEF Inv, Made
  <1>2. Run(me) \in 1..me
    BY <1>1 DEF Inv, Made
  <1> QED BY <1>1, <1>2 DEF Inv, TypeOK, Sound, OnCard, Born, Run

LEMMA Onward ==
  ASSUME Inv, me # 0, NEW half \in Halves
  PROVE  LET l == ToGate(entry[me], half) IN
         /\ l \in Loop /\ l.at = me
         /\ l.pc \in {"gate", "split", "merge"}
         /\ l.pc = "merge" => ~staging
  BY AtEntry, AtIs DEF ToGate, Pcs, Halves

LEMMA Onwards ==
  ASSUME Inv, me # 0
  PROVE  /\ PastGate \in Loop /\ PastGate.at = me
         /\ PastGate.pc \in {"gate", "split", "merge"}
         /\ PastGate.pc = "merge" => ~staging
  <1>1. CASE loop.half = "code"
    BY <1>1, Onward DEF PastGate, Halves
  <1>2. CASE loop.half # "code"
    BY <1>2, AtEntry, AtIs DEF PastGate, Pcs, Halves
  <1> QED BY <1>1, <1>2

LEMMA PastHalfIs ==
  ASSUME Inv, me # 0
  PROVE  /\ PastHalf \in Loop /\ PastHalf.at = me
         /\ IF loop.half = "code"
            THEN PastHalf.pc = "apply" /\ PastHalf.half = "data"
            ELSE PastHalf.pc = "close"
  BY AtEntry, AtIs DEF PastHalf, Pcs, Halves

LEMMA LoopTyped ==
  ASSUME Inv, UNCHANGED <<staging, born, listed, disk, door, boot, vouched, limits>>,
         entry' \in [Ids -> Entry], loop' \in Loop, saved' \in BOOLEAN,
         landed' \subseteq Ids \X Halves, refs' \subseteq Ids,
         hold' \in BOOLEAN, blockers' \subseteq Ids,
         owed' \subseteq [card: {j.card : j \in Jobs}, work: SUBSET Halves,
                          drive: 0..MaxRedrives],
         closed' \subseteq Ids
  PROVE  TypeOK'
  BY DEF Inv, TypeOK, limits

\* A stop that says nothing of what has landed.
Plain(l) ==
  /\ l \in Loop /\ l.at \in {0, me}
  /\ l.at = 0 <=> l.pc \in {"off", "head"}
  /\ \/ l.pc \in {"off", "head", "ref", "gate", "verdict", "blocker", "split"}
     \/ l.pc = "merge" /\ ~staging

LEMMA PlainStep ==
  ASSUME Inv, me # 0, NEW l, loop' = l, Plain(l),
         UNCHANGED <<staging, born, listed, disk, git, owed, door, boot, closed,
                     vouched, limits>>,
         entry' \in [Ids -> Entry], SameWork, saved' \in BOOLEAN,
         \A u \in Ids : u # me => entry'[u] = entry[u],
         entry'[me].marks \subseteq entry[me].marks, blockers' \subseteq Ids
  PROVE  Inv'
  <1>1. TypeOK'
    BY LoopTyped DEF Inv, TypeOK, git, Plain
  <1>2. Arrives
    <2>1. ~hold' /\ loop' = l
      BY AtEntry DEF git
    <2>2. \/ loop'.pc \in {"off", "head", "ref", "gate", "verdict", "blocker", "split"}
          \/ loop'.pc = "merge" /\ ~staging
      BY <2>1 DEF Plain
    <2>3. /\ loop'.pc \notin {"apply", "mark", "close", "emit", "redrive"}
          /\ loop'.pc = "merge" => ~staging
      BY <2>2
    <2> QED BY <2>1, <2>3 DEF Arrives, Plain
  <1>3. /\ UNCHANGED <<staging, born, listed, disk, door, boot>>
        /\ landed' = landed
        /\ refs' = refs /\ closed' \subseteq Born
        /\ entry'[me].marks \ entry[me].marks = {}
    BY DEF git, Inv, Made
  <1> QED BY <1>1, <1>2, <1>3, LoopMoves

\* The usual step: a status, where the loop goes, and nothing else.
LEMMA PlainLeave ==
  ASSUME Inv, me # 0, NEW s \in Statuses, NEW l, Plain(l), Leaves(me, s, l),
         UNCHANGED <<staging, born, listed, disk, git, owed, door, boot, closed,
                     vouched, limits>>,
         blockers' \subseteq Ids
  PROVE  Inv'
  <1>1. /\ entry' = [entry EXCEPT ![me].st = s] /\ loop' = l /\ saved' = FALSE
        /\ entry[me].marks \in SUBSET Halves /\ me \in Ids /\ TypeOK
    BY AtEntry DEF Leaves, Entry, Inv
  <1>2. /\ entry' \in [Ids -> Entry] /\ SameWork
        /\ \A u \in Ids : u # me => entry'[u] = entry[u]
        /\ entry'[me].marks = entry[me].marks
    BY <1>1, Restatus
  <1> QED BY <1>1, <1>2, PlainStep

LEMMA PlainStops ==
  ASSUME Inv, me # 0
  PROVE  /\ Plain(Off) /\ Plain(Head)
         /\ \A half \in Halves : Plain(ToGate(entry[me], half))
         /\ Plain(PastGate)
         /\ \A park \in {"head", "off"}, pc \in {"ref", "gate", "verdict", "blocker", "split"},
               half \in Halves : Plain(At(pc, me, half, park))
         /\ \A park \in {"head", "off"} : Plain(At(park, 0, "code", "head"))
  <1>1. Plain(Off) /\ Plain(Head)
    BY RestIs DEF Plain
  <1>2. ASSUME NEW half \in Halves PROVE Plain(ToGate(entry[me], half))
    BY Onward DEF Plain
  <1>3. Plain(PastGate)
    BY Onwards DEF Plain
  <1>4. ASSUME NEW park \in {"head", "off"}, NEW half \in Halves,
               NEW pc \in {"ref", "gate", "verdict", "blocker", "split"}
        PROVE  Plain(At(pc, me, half, park))
    BY AtIs, AtEntry DEF Plain, Pcs
  <1>5. ASSUME NEW park \in {"head", "off"}
        PROVE  Plain(At(park, 0, "code", "head"))
    BY AtIs DEF Plain, Pcs, Halves
  <1> QED BY <1>1, <1>2, <1>3, <1>4, <1>5

\* A run is parked, a session gets its work back.
LEMMA Parks ==
  ASSUME Inv, me # 0, NEW park, Plain(park), parkOrReturn(me, park),
         UNCHANGED <<staging, born, listed, disk, git, owed, door, boot, closed,
                     vouched, limits>>,
         blockers' \subseteq Ids
  PROVE  Inv'
  <1>1. \/ Leaves(me, "returned-to-session", Head)
        \/ Leaves(me, "conflict", park)
    BY DEF parkOrReturn
  <1>2. {"returned-to-session", "conflict"} \subseteq Statuses
    BY DEF Statuses, Parked
  <1> QED BY <1>1, <1>2, PlainLeave, PlainStops

\* Where the loop stands at an entry, by its program counter.
LEMMA NotAtRest ==
  ASSUME Inv, loop.pc \notin {"off", "head"}
  PROVE  me # 0
  BY DEF Inv, Sound

LEMMA InvResolves == Inv /\ Resolves => Inv'
  <1> SUFFICES ASSUME Inv, Resolves PROVE Inv'
    OBVIOUS
  <1>a. me # 0 /\ blockers' \subseteq Ids
    BY NotAtRest DEF Resolves, Here, Inv, TypeOK
  <1>b. UNCHANGED <<staging, born, listed, disk, git, owed, door, boot, closed,
                    vouched, limits>>
    BY DEF Resolves
  <1>1. CASE Leaves(me, "failed", Head)
    BY <1>a, <1>b, <1>1, PlainLeave, PlainStops DEF Statuses
  <1>2. CASE /\ entry' = [entry EXCEPT ![me].pin = TRUE]
             /\ loop' = ToGate(entry[me], "code") /\ UNCHANGED saved
    <2>1. /\ entry' \in [Ids -> Entry] /\ SameWork
          /\ \A u \in Ids : u # me => entry'[u] = entry[u]
          /\ entry'[me].marks = entry[me].marks
      BY <1>a, <1>2, AtEntry DEF Inv, TypeOK, Entry, SameWork
    <2>2. saved' \in BOOLEAN /\ Plain(ToGate(entry[me], "code"))
      BY <1>a, <1>2, PlainStops DEF Inv, TypeOK, Halves
    <2> QED BY <1>a, <1>b, <1>2, <2>1, <2>2, PlainStep
  <1>3. CASE Landed(entry[me].run, entry[me].work)
               /\ Goes(At("close", me, "code", "head"))
    <2>1. /\ loop' = At("close", me, "code", "head") /\ entry' = entry
          /\ saved' = saved
      BY <1>3 DEF Goes
    <2>2. loop' \in Loop /\ loop'.pc = "close" /\ loop'.at = me
      BY <1>a, <2>1, AtEntry, AtIs DEF Pcs, Halves
    <2>3. Arrives
      <3>1. ~hold' /\ \A h \in Work(me) : <<Run(me), h>> \in landed'
        BY <1>a, <1>b, <1>3, AtEntry DEF Landed, Run, Work, git
      <3>2. /\ loop'.pc \notin {"off", "head", "apply", "mark", "redrive", "merge"}
            /\ loop'.at # 0
        BY <1>a, <2>2
      <3> QED BY <2>2, <3>1, <3>2 DEF Arrives
    <2>4. TypeOK'
      BY <1>a, <1>b, <2>1, <2>2, LoopTyped DEF Inv, TypeOK, git
    <2> QED BY <1>a, <1>b, <2>1, <2>3, <2>4, LoopMoves
            DEF git, Inv, Made, SameWork
  <1>4. CASE parkOrReturn(me, Off)
    BY <1>a, <1>b, <1>4, Parks, PlainStops
  <1> QED BY <1>1, <1>2, <1>3, <1>4 DEF Resolves

LEMMA InvGates ==
  Inv /\ (GateStarts \/ GatePasses \/ disposeRedGate \/ FilesBlocker) => Inv'
  <1> SUFFICES ASSUME Inv, GateStarts \/ GatePasses \/ disposeRedGate
                           \/ FilesBlocker
               PROVE  Inv'
    OBVIOUS
  <1>a. me # 0
    BY NotAtRest DEF GateStarts, GatePasses, disposeRedGate, FilesBlocker, Here
  <1>b. UNCHANGED <<staging, born, listed, disk, git, owed, door, boot, closed,
                    vouched, limits>>
    BY DEF GateStarts, GatePasses, disposeRedGate, FilesBlocker, queue
  <1>c. {"gate-running", "merging", "returned-to-session"} \subseteq Statuses
    BY DEF Statuses
  <1>1. CASE GateStarts
    <2>1. Plain([loop EXCEPT !.pc = "verdict"])
      BY <1>a, <1>1, AtEntry DEF Plain, Loop
    <2> QED BY <1>a, <1>b, <1>c, <1>1, <2>1, PlainLeave
            DEF GateStarts, Inv, TypeOK
  <1>2. CASE GatePasses
    BY <1>a, <1>b, <1>c, <1>2, PlainLeave, PlainStops
       DEF GatePasses, Inv, TypeOK
  <1>3. CASE disposeRedGate
    <2>a. blockers' \subseteq Ids
      BY <1>3 DEF disposeRedGate, Inv, TypeOK
    <2>1. CASE RetriesGate(entry[me]) /\ loop' = Head /\ saved' = FALSE
               /\ entry' = [entry EXCEPT ![me].st = "waiting",
                                         ![me].tries = @ + 1]
      <3>1. /\ entry' \in [Ids -> Entry] /\ SameWork
            /\ \A u \in Ids : u # me => entry'[u] = entry[u]
            /\ entry'[me].marks = entry[me].marks
        <4>1. entry[me].tries + 1 \in 0..MaxInconclusive
          BY <1>a, <2>1, AtEntry DEF RetriesGate, Entry, MaxInconclusive
        <4> QED BY <1>a, <2>1, <4>1, AtEntry
                DEF Inv, TypeOK, Entry, SameWork, Statuses
      <3> QED BY <1>a, <1>b, <2>a, <2>1, <3>1, PlainStep, PlainStops
    <2>2. CASE Leaves(me, "returned-to-session", Head)
      BY <1>a, <1>b, <1>c, <2>a, <2>2, PlainLeave, PlainStops
    <2>3. CASE /\ entry' = [entry EXCEPT ![me].st = "gate-failed"]
               /\ loop' = At("blocker", me, "code", "head")
               /\ UNCHANGED saved
      <3>1. /\ entry' \in [Ids -> Entry] /\ SameWork
            /\ \A u \in Ids : u # me => entry'[u] = entry[u]
            /\ entry'[me].marks = entry[me].marks
        BY <1>a, <2>3, AtEntry
           DEF Inv, TypeOK, Entry, SameWork, Statuses, Parked
      <3>2. saved' \in BOOLEAN /\ Plain(At("blocker", me, "code", "head"))
        BY <1>a, <2>3, PlainStops DEF Inv, TypeOK, Halves
      <3> QED BY <1>a, <1>b, <2>a, <2>3, <3>1, <3>2, PlainStep
    <2> QED BY <1>3, <2>1, <2>2, <2>3 DEF disposeRedGate
  <1>4. CASE FilesBlocker
    <2>1. blockers' \subseteq Ids /\ entry' = entry /\ loop' = Head
          /\ saved' = FALSE
      BY <1>a, <1>4, AtEntry DEF FilesBlocker, Inv, TypeOK, queue
    <2>2. entry' \in [Ids -> Entry] /\ SameWork
      BY <2>1 DEF Inv, TypeOK, SameWork
    <2> QED BY <1>a, <1>b, <2>1, <2>2, PlainStep, PlainStops
  <1> QED BY <1>1, <1>2, <1>3, <1>4

LEMMA InvRedrives ==
  ASSUME Inv, me # 0, NEW park \in {"head", "off"}, maybeRedrive(me, park),
         UNCHANGED <<staging, born, listed, disk, git, blockers, owed, door,
                     boot, closed, vouched, limits>>
  PROVE  Inv'
  <1>a. blockers' \subseteq Ids
    BY DEF Inv, TypeOK
  <1>1. CASE Leaves(me, "returned-to-session", Head)
    BY <1>a, <1>1, PlainLeave, PlainStops DEF Statuses
  <1>2. CASE CanRedrive(entry[me])
             /\ Leaves(me, "re-driving", At("redrive", me, "code", park))
    <2>1. /\ entry' = [entry EXCEPT ![me].st = "re-driving"] /\ saved' = FALSE
          /\ loop' = At("redrive", me, "code", park) /\ TypeOK /\ me \in Ids
      BY <1>2, AtEntry DEF Leaves, Inv
    <2>2. /\ loop' \in Loop /\ loop'.pc = "redrive" /\ loop'.at = me
      BY <2>1, AtIs DEF Pcs, Halves
    <2>3. /\ entry' \in [Ids -> Entry] /\ SameWork
          /\ \A u \in Ids : u # me => entry'[u] = entry[u]
          /\ entry'[me].marks = entry[me].marks
      BY <2>1, Restatus DEF Statuses
    <2>4. Arrives
      <3>1. ~hold' BY AtEntry DEF git
      <3> QED BY <1>2, <2>2, <3>1 DEF Arrives
    <2>5. TypeOK'
      BY <1>a, <2>1, <2>2, <2>3, LoopTyped DEF Inv, TypeOK, git
    <2> QED BY <2>3, <2>4, <2>5, LoopMoves DEF git, Inv, Made
  <1>3. CASE Leaves(me, "conflict", At(park, 0, "code", "head"))
    BY <1>a, <1>3, PlainLeave, PlainStops DEF Statuses, Parked
  <1> QED BY <1>1, <1>2, <1>3 DEF maybeRedrive

\* What a judge makes of an entry, and what he leaves of it.
LEMMA JudgedTyped ==
  ASSUME NEW e \in Entry, NEW r \in Ids
  PROVE  /\ [e EXCEPT !.st = "re-driving", !.judged = TRUE] \in Entry
         /\ [e EXCEPT !.run = r, !.st = "waiting", !.pin = FALSE, !.split = FALSE,
                      !.marks = {}, !.tries = 0, !.judged = TRUE] \in Entry
  <1>1. 0 \in 0..MaxInconclusive
    BY DEF MaxInconclusive
  <1>2. "waiting" \in Statuses /\ "re-driving" \in Statuses
    BY DEF Statuses
  <1>3. [e EXCEPT !.st = "re-driving", !.judged = TRUE] \in Entry
    BY <1>2 DEF Entry
  <1>4. [e EXCEPT !.run = r, !.st = "waiting", !.pin = FALSE, !.split = FALSE,
                  !.marks = {}, !.tries = 0, !.judged = TRUE] \in Entry
    BY <1>1, <1>2, Zenon DEF Entry
  <1> QED BY <1>3, <1>4

LEMMA InvConflicts == Inv /\ Conflicts => Inv'
  <1> SUFFICES ASSUME Inv, Conflicts PROVE Inv'
    OBVIOUS
  <1>a. me # 0
    BY NotAtRest DEF Conflicts, ToApply, Here
  <1>b. UNCHANGED <<staging, disk, landed, hold, blockers, owed, door, closed,
                    vouched, limits>>
    BY DEF Conflicts
  <1>1. CASE /\ \E park \in {"head", "off"} : maybeRedrive(me, park)
             /\ UNCHANGED <<born, listed, refs, boot>>
    BY <1>a, <1>b, <1>1, InvRedrives DEF git
  <1>2. CASE
      /\ born < MaxEntries /\ born' = born + 1
      /\ entry' = [entry EXCEPT
           ![me].st = "re-driving", ![me].judged = TRUE,
           ![born + 1] = [entry[me] EXCEPT
                            !.run = born + 1, !.st = "waiting", !.pin = FALSE,
                            !.split = FALSE, !.marks = {}, !.tries = 0,
                            !.judged = TRUE]]
      /\ listed' = listed \cup {born + 1} /\ refs' = refs \cup {born + 1}
      /\ boot' = IF boot.shared THEN [boot EXCEPT !.todo = @ \cup {born + 1}]
                                ELSE boot
      /\ loop' = Head /\ saved' = FALSE
    <2>a. /\ born + 1 \in Ids /\ born + 1 # me /\ me \in Ids /\ me \in Born
          /\ Born' = Born \cup {born + 1} /\ entry[me] \in Entry
      BY <1>a, <1>2, AtEntry, BornIsId, TrainAssumption DEF Inv, Made, Ids, Born
    <2>1. /\ entry' \in [Ids -> Entry]
          /\ entry'[born + 1].run = born + 1 /\ entry'[born + 1].marks = {}
          /\ \A t \in Ids : t # born + 1 =>
               /\ entry'[t].run = Run(t) /\ entry'[t].work = Work(t)
               /\ entry'[t].card = entry[t].card
               /\ entry'[t].drive = entry[t].drive
               /\ entry'[t].marks = entry[t].marks
      <3>3. entry \in [Ids -> Entry]
        BY DEF Inv, TypeOK
      <3>4. entry' \in [Ids -> Entry]
        BY <1>2, <2>a, <3>3, JudgedTyped
      <3>6. entry'[born + 1].run = born + 1 /\ entry'[born + 1].marks = {}
        BY <1>2, <2>a, <3>3 DEF Entry
      <3>5. ASSUME NEW t \in Ids, t # born + 1
            PROVE  /\ entry'[t].run = Run(t) /\ entry'[t].work = Work(t)
                   /\ entry'[t].card = entry[t].card
                   /\ entry'[t].drive = entry[t].drive
                   /\ entry'[t].marks = entry[t].marks
        <4>1. CASE t = me
          BY <1>2, <2>a, <3>3, <3>5, <4>1 DEF Run, Work, Entry
        <4>2. CASE t # me
          BY <1>2, <2>a, <3>3, <3>5, <4>2 DEF Run, Work
        <4> QED BY <4>1, <4>2
      <3> QED BY <3>4, <3>5, <3>6
    <2>2. /\ boot'.todo \subseteq Born' /\ boot'.kept = boot.kept
          /\ boot'.told = boot.told
          /\ boot' \in [pc: {"off", "due", "scan", "prune"}, todo: SUBSET Ids,
                        kept: SUBSET Ids, drops: BOOLEAN, shared: BOOLEAN,
                        told: SUBSET Ids]
      BY <1>2, <2>a DEF Inv, Made, TypeOK
    <2>3. TypeOK'
      <3>1. /\ born' \in 0..MaxEntries /\ listed' \subseteq Ids /\ refs' \subseteq Ids
            /\ loop' \in Loop /\ saved' \in BOOLEAN
        <4>1. born' \in 0..MaxEntries
          BY <1>2, TrainAssumption DEF Inv, TypeOK
        <4>2. listed' \subseteq Ids /\ refs' \subseteq Ids
          BY <1>2, <2>a DEF Inv, TypeOK
        <4>3. loop' \in Loop /\ saved' \in BOOLEAN
          BY <1>2, RestIs
        <4> QED BY <4>1, <4>2, <4>3
      <3> QED BY <1>b, <2>1, <2>2, <3>1 DEF Inv, TypeOK, limits
    <2>4. /\ listed' \subseteq Born' /\ door'.at \in Born' \cup {0}
          /\ door'.todo \subseteq Born'
      BY <1>2, <1>b, <2>a DEF Inv, Made
    <2> QED BY <1>2, <1>b, <2>1, <2>2, <2>3, <2>4, RestIs, Grows
  <1> QED BY <1>1, <1>2 DEF Conflicts

LEMMA InvRedriveAnswered == Inv /\ RedriveAnswered => Inv'
  <1> SUFFICES ASSUME Inv, RedriveAnswered PROVE Inv'
    OBVIOUS
  <1>a. me # 0
    BY NotAtRest DEF RedriveAnswered, Here
  <1>b. /\ UNCHANGED <<staging, born, listed, disk, git, blockers, door, boot,
                       closed, vouched, limits>>
        /\ loop.pc = "redrive" /\ blockers' \subseteq Ids
    BY DEF RedriveAnswered, Here, Inv, TypeOK
  <1>1. CASE /\ owed' = owed \cup {[card |-> entry[me].card, work |-> entry[me].work,
                                    drive |-> entry[me].drive + 1]}
             /\ Goes(Head)
    <2>1. entry' = entry /\ saved' = saved /\ loop' = Head
      BY <1>1 DEF Goes
    <2>2. [card |-> entry[me].card, work |-> entry[me].work,
           drive |-> entry[me].drive + 1]
            \in [card: {j.card : j \in Jobs}, work: SUBSET Halves,
                 drive: 0..MaxRedrives]
      <3>1. CanRedrive(entry[me])
        BY <1>a, <1>b DEF Inv, Sound
      <3> QED BY <1>a, <3>1, AtEntry, TrainAssumption DEF CanRedrive, Entry
    <2>3. TypeOK'
      BY <1>1, <1>b, <2>1, <2>2, RestIs, LoopTyped DEF Inv, TypeOK, git
    <2>4. Arrives
      BY <2>1, RestIs DEF Arrives
    <2> QED BY <1>a, <1>b, <2>1, <2>3, <2>4, LoopMoves
            DEF git, Inv, Made, SameWork
  <1>2. CASE /\ Leaves(me, "conflict", At(loop.park, 0, "code", "head"))
             /\ UNCHANGED owed
    <2>1. Plain(At(loop.park, 0, "code", "head"))
      BY <1>a, AtEntry, PlainStops DEF Loop
    <2> QED BY <1>a, <1>b, <1>2, <2>1, PlainLeave DEF Statuses, Parked
  <1> QED BY <1>1, <1>2 DEF RedriveAnswered


\* A step of the loop that writes no entry but its own, nor the branches.
LEMMA LoopWrites ==
  ASSUME Inv, me # 0, Arrives,
         UNCHANGED <<staging, born, listed, disk, refs, owed, door, boot,
                     vouched, limits>>,
         entry' \in [Ids -> Entry], SameWork, saved' \in BOOLEAN,
         \A u \in Ids : u # me => entry'[u] = entry[u],
         NEW hs \in SUBSET Halves, Lands(Run(me), hs) \/ landed' = landed,
         \A h \in entry'[me].marks \ entry[me].marks :
           h \in Work(me) => <<Run(me), h>> \in landed',
         hold' \in BOOLEAN, blockers' \subseteq Ids, closed' \subseteq Born
  PROVE  Inv'
  <1>1. landed \subseteq landed' /\ landed' \subseteq Ids \X Halves
    BY AtEntry DEF Lands, Inv, TypeOK
  <1>2. TypeOK'
    BY <1>1, LoopTyped, BornIsId DEF Inv, TypeOK, Arrives
  <1> QED BY <1>1, <1>2, LoopMoves

\* An entry is marked with the half the loop is at.
LEMMA MarkedTyped ==
  ASSUME Inv, me # 0,
         entry' = [entry EXCEPT ![me].marks = @ \cup {loop.half}]
  PROVE  /\ entry' \in [Ids -> Entry] /\ SameWork
         /\ \A u \in Ids : u # me => entry'[u] = entry[u]
         /\ entry'[me].marks \ entry[me].marks \subseteq {loop.half}
  BY AtEntry DEF Inv, TypeOK, Entry, SameWork, Loop

LEMMA SplitTyped ==
  ASSUME Inv, me # 0, entry' = [entry EXCEPT ![me].split = TRUE]
  PROVE  /\ entry' \in [Ids -> Entry] /\ SameWork
         /\ \A u \in Ids : u # me => entry'[u] = entry[u]
         /\ entry'[me].marks = entry[me].marks
  BY AtEntry DEF Inv, TypeOK, Entry, SameWork

LEMMA InvSplitBegins == Inv /\ SplitBegins => Inv'
  <1> SUFFICES ASSUME Inv, SplitBegins PROVE Inv'
    OBVIOUS
  <1>a. me # 0
    BY NotAtRest DEF SplitBegins, Here
  <1>b. /\ UNCHANGED <<staging, born, listed, disk, git, owed, door, boot,
                       closed, vouched, limits>>
        /\ blockers' \subseteq Ids
    BY DEF SplitBegins, Inv, TypeOK
  <1>1. CASE Leaves(me, "failed", Off)
    BY <1>a, <1>b, <1>1, PlainLeave, PlainStops DEF Statuses
  <1>2. CASE /\ entry' = [entry EXCEPT ![me].split = TRUE]
             /\ loop' = At("apply", me, "code", "head") /\ saved' = FALSE
    <2>1. /\ loop' \in Loop /\ loop'.pc = "apply" /\ loop'.at = me
          /\ loop'.half = "code" /\ ~hold'
      BY <1>a, <1>b, <1>2, AtEntry, AtIs DEF Pcs, Halves, git
    <2>2. Arrives
      BY <1>a, <2>1 DEF Arrives
    <2> QED BY <1>a, <1>b, <1>2, <2>2, SplitTyped, LoopWrites
            DEF git, Inv, TypeOK, Made
  <1> QED BY <1>1, <1>2 DEF SplitBegins

\* Past a half of which all that the run carries has landed.
LEMMA PastHalfArrives ==
  ASSUME Inv, me # 0, loop.pc \in {"apply", "mark"}, loop' = PastHalf,
         ~hold', landed \subseteq landed',
         loop.half \in Work(me) => <<Run(me), loop.half>> \in landed'
  PROVE  Arrives
  <1>1. CASE loop.half = "code"
    <2>1. /\ loop' \in Loop /\ loop'.at = me /\ loop'.pc = "apply"
      BY <1>1, PastHalfIs
    <2> QED BY <1>1, <2>1 DEF Arrives
  <1>2. CASE loop.half = "data"
    <2>1. /\ loop' \in Loop /\ loop'.at = me /\ loop'.pc = "close"
      BY <1>2, PastHalfIs
    <2>2. "code" \in Work(me) => <<Run(me), "code">> \in landed'
      BY <1>2 DEF Inv, Sound, Landed
    <2>3. \A h \in Work(me) : <<Run(me), h>> \in landed'
      BY <1>2, <2>2, AtEntry DEF Entry, Work, Halves
    <2> QED BY <2>1, <2>3 DEF Arrives
  <1> QED BY <1>1, <1>2, AtEntry DEF Loop, Halves

LEMMA InvApplySkips == Inv /\ ApplySkips => Inv'
  <1> SUFFICES ASSUME Inv, ApplySkips PROVE Inv'
    OBVIOUS
  <1>a. me # 0 /\ loop.pc = "apply" /\ loop' = PastHalf
    BY NotAtRest DEF ApplySkips, Here, Goes
  <1>b. UNCHANGED <<staging, born, listed, disk, landed, refs, hold, blockers,
                    owed, door, boot, closed, vouched, limits>>
    BY DEF ApplySkips, git
  <1>1. loop.half \in Work(me) => <<Run(me), loop.half>> \in landed'
    BY <1>a, <1>b, AtEntry
       DEF ApplySkips, Inv, MarksHold, Marked, Work, Run
  <1>2. Arrives
    BY <1>a, <1>b, <1>1, AtEntry, PastHalfArrives
  <1>3. CASE entry' = entry /\ saved' = saved
    <2>1. /\ entry' \in [Ids -> Entry] /\ SameWork /\ saved' \in BOOLEAN
          /\ entry'[me].marks \ entry[me].marks = {}
      BY <1>3 DEF Inv, TypeOK, SameWork
    <2> QED BY <1>a, <1>b, <1>2, <1>3, <2>1, LoopWrites DEF Inv, TypeOK, Made
  <1>4. CASE /\ entry' = [entry EXCEPT ![me].marks = @ \cup {loop.half}]
             /\ saved' = FALSE
    <2>1. \A h \in entry'[me].marks \ entry[me].marks :
            h \in Work(me) => <<Run(me), h>> \in landed'
      BY <1>a, <1>1, <1>4, MarkedTyped
    <2> QED BY <1>a, <1>b, <1>2, <1>4, <2>1, MarkedTyped, LoopWrites
            DEF Inv, TypeOK, Made
  <1> QED BY <1>3, <1>4 DEF ApplySkips, Goes

LEMMA InvApplyLands == Inv /\ ApplyLands => Inv'
  <1> SUFFICES ASSUME Inv, ApplyLands PROVE Inv'
    OBVIOUS
  <1>a. me # 0 /\ loop.pc = "apply"
    BY NotAtRest DEF ApplyLands, ToApply, Here
  <1>b. /\ UNCHANGED <<staging, born, listed, disk, refs, hold, blockers, owed,
                       door, boot, closed, vouched, limits>>
        /\ entry' = entry /\ saved' = saved
    BY DEF ApplyLands, queue
  <1>1. /\ loop' \in Loop /\ loop'.pc = "mark" /\ loop'.at = me
        /\ loop'.half = loop.half /\ loop.half \in Halves
    BY <1>a, AtEntry DEF ApplyLands, Loop
  <1>2. /\ Lands(Run(me), {loop.half}) /\ landed \subseteq landed'
        /\ <<Run(me), loop.half>> \in landed'
    BY DEF ApplyLands, Lands, Run
  <1>3. Arrives
    <2>1. /\ loop.half = "data" /\ "code" \in Work(me)
            => <<Run(me), "code">> \in landed'
      BY <1>a, <1>2 DEF Inv, Sound, Landed
    <2>2. ~hold'
      BY <1>a, <1>b, AtEntry
    <2> QED BY <1>a, <1>1, <1>2, <2>1, <2>2 DEF Arrives
  <1>4. /\ entry' \in [Ids -> Entry] /\ SameWork /\ saved' \in BOOLEAN
        /\ entry'[me].marks \ entry[me].marks = {}
    BY <1>b DEF Inv, TypeOK, SameWork
  <1> QED BY <1>a, <1>b, <1>1, <1>2, <1>3, <1>4, LoopWrites
          DEF Inv, TypeOK, Made

LEMMA InvMarks == Inv /\ Marks => Inv'
  <1> SUFFICES ASSUME Inv, Marks PROVE Inv'
    OBVIOUS
  <1>a. me # 0 /\ loop.pc = "mark" /\ loop' = PastHalf
    BY NotAtRest DEF Marks
  <1>b. /\ UNCHANGED <<staging, born, listed, disk, landed, refs, hold, blockers,
                       owed, door, boot, closed, vouched, limits>>
        /\ entry' = [entry EXCEPT ![me].marks = @ \cup {loop.half}]
        /\ saved' = FALSE
    BY DEF Marks, git
  <1>1. <<Run(me), loop.half>> \in landed'
    BY <1>a, <1>b DEF Inv, Sound
  <1>2. Arrives
    BY <1>a, <1>b, <1>1, AtEntry, PastHalfArrives
  <1> QED BY <1>a, <1>b, <1>1, <1>2, MarkedTyped, LoopWrites
          DEF Inv, TypeOK, Made

LEMMA InvMergeLands == Inv /\ MergeLands => Inv'
  <1> SUFFICES ASSUME Inv, MergeLands PROVE Inv'
    OBVIOUS
  <1>a. me # 0
    BY NotAtRest DEF MergeLands, Here
  <1>b. /\ UNCHANGED <<staging, born, listed, disk, refs, hold, blockers, owed,
                       door, boot, closed, vouched, limits>>
        /\ entry' = entry /\ saved' = saved
    BY DEF MergeLands, queue
  <1>1. /\ loop' \in Loop /\ loop'.pc = "close" /\ loop'.at = me /\ ~hold'
    BY <1>a, <1>b, AtEntry, AtIs DEF MergeLands, Pcs, Halves
  <1>2. /\ Lands(Run(me), Work(me)) /\ Work(me) \in SUBSET Halves
        /\ \A h \in Work(me) : <<Run(me), h>> \in landed'
    BY <1>a, AtEntry DEF MergeLands, Lands, Run, Work, Entry
  <1>3. Arrives
    BY <1>a, <1>1, <1>2 DEF Arrives
  <1>4. /\ entry' \in [Ids -> Entry] /\ SameWork /\ saved' \in BOOLEAN
        /\ entry'[me].marks \ entry[me].marks = {}
    BY <1>b DEF Inv, TypeOK, SameWork
  <1> QED BY <1>a, <1>b, <1>2, <1>3, <1>4, LoopWrites DEF Inv, TypeOK, Made

LEMMA InvLandingParks == Inv /\ LandingParks => Inv'
  <1> SUFFICES ASSUME Inv, LandingParks PROVE Inv'
    OBVIOUS
  <1>1. me # 0 /\ blockers' \subseteq Ids
    BY NotAtRest DEF LandingParks, ToApply, Here, Inv, TypeOK
  <1> QED BY <1>1, Parks, PlainStops DEF LandingParks

LEMMA InvSecretFound == Inv /\ SecretFound => Inv'
  <1> SUFFICES ASSUME Inv, SecretFound PROVE Inv'
    OBVIOUS
  <1>a. me # 0
    BY NotAtRest DEF SecretFound, ToApply, Here
  <1>b. /\ UNCHANGED <<staging, born, listed, disk, refs, owed, door, boot,
                       closed, vouched, limits>>
        /\ Leaves(me, "failed", Off) /\ blockers' = blockers \cup OnCard(me)
    BY DEF SecretFound
  <1>1. Arrives /\ saved' \in BOOLEAN
    BY <1>b, RestIs DEF Leaves, Arrives
  <1>2. /\ entry' \in [Ids -> Entry] /\ SameWork
        /\ \A u \in Ids : u # me => entry'[u] = entry[u]
        /\ entry'[me].marks = entry[me].marks
    BY <1>a, <1>b, AtEntry, Restatus DEF Leaves, Statuses, Inv
  <1>3. PICK hs \in SUBSET Halves :
          landed' = landed \/ Lands(Run(me), hs)
    <2>1. /\ {loop.half} \in SUBSET Halves /\ entry[me].work \in SUBSET Halves
      BY <1>a, AtEntry DEF Loop, Entry
    <2> QED BY <2>1 DEF SecretFound, Run
  <1>4. /\ hold' \in BOOLEAN /\ blockers' \subseteq Ids /\ closed' \subseteq Born
    BY <1>a, <1>b, AtEntry DEF SecretFound, Inv, TypeOK, Made
  <1> QED BY <1>a, <1>b, <1>1, <1>2, <1>3, <1>4, LoopWrites

LEMMA InvCloses == Inv /\ Closes => Inv'
  <1> SUFFICES ASSUME Inv, Closes PROVE Inv'
    OBVIOUS
  <1>a. me # 0 /\ loop.pc = "close"
    BY NotAtRest DEF Closes, Here
  <1>b. /\ UNCHANGED <<staging, born, listed, disk, landed, hold, blockers, owed,
                       door, boot, closed, vouched, limits>>
        /\ Leaves(me, "done", [loop EXCEPT !.pc = "emit"])
        /\ refs' = refs \/ refs' = refs \ {Run(me)}
    BY DEF Closes, deleteBranchAfterIntegration, Run
  <1>1. /\ loop' \in Loop /\ loop'.pc = "emit" /\ loop'.at = me /\ ~hold'
        /\ saved' \in BOOLEAN
    BY <1>a, <1>b, AtEntry DEF Leaves, Loop
  <1>2. \A h \in Work(me) : <<Run(me), h>> \in landed'
    BY <1>a, <1>b DEF Inv, Sound, Landed
  <1>3. Arrives
    BY <1>a, <1>1, <1>2 DEF Arrives
  <1>4. /\ entry' \in [Ids -> Entry] /\ SameWork
        /\ \A u \in Ids : u # me => entry'[u] = entry[u]
        /\ entry'[me].marks \ entry[me].marks = {}
    BY <1>a, <1>b, AtEntry, Restatus DEF Leaves, Statuses, Inv
  <1>5. TypeOK'
    BY <1>b, <1>1, <1>4, LoopTyped DEF Inv, TypeOK
  <1> QED BY <1>a, <1>b, <1>2, <1>3, <1>4, <1>5, LoopMoves DEF Inv, Made

LEMMA InvEmits == Inv /\ emitMergeDone => Inv'
  <1> SUFFICES ASSUME Inv, emitMergeDone PROVE Inv'
    OBVIOUS
  <1>a. me # 0
    BY NotAtRest DEF emitMergeDone, Here
  <1>b. /\ UNCHANGED <<staging, born, listed, disk, landed, refs, hold, owed,
                       door, boot, vouched, limits>>
        /\ entry' = entry /\ saved' = saved /\ loop' = Head
        /\ closed' = closed \cup {Run(me)} /\ blockers' \subseteq Ids
    BY DEF emitMergeDone, git, Goes, Run, Inv, TypeOK
  <1>1. Arrives
    BY <1>b, RestIs DEF Arrives
  <1>2. /\ entry' \in [Ids -> Entry] /\ SameWork /\ saved' \in BOOLEAN
        /\ entry'[me].marks \ entry[me].marks = {}
    BY <1>b DEF Inv, TypeOK, SameWork
  <1>3. closed' \subseteq Born
    BY <1>a, <1>b, AtEntry DEF Inv, Made
  <1> QED BY <1>a, <1>b, <1>1, <1>2, <1>3, LoopWrites DEF Inv, TypeOK

\* Only here the loop takes an entry.
LEMMA InvPicks == Inv /\ Picks => Inv'
  <1> SUFFICES ASSUME Inv, Picks PROVE Inv'
    OBVIOUS
  <1>a. /\ UNCHANGED <<staging, born, listed, disk, landed, refs, hold, blockers,
                       owed, door, boot, closed, vouched, limits>>
        /\ me = 0
    BY DEF Picks, git, Here, Inv, Sound
  <1>1. CASE Goes(Off)
    <2>1. entry' = entry /\ saved' = saved /\ loop' = Off
      BY <1>1 DEF Goes
    <2>2. TypeOK' /\ SameWork
      BY <1>a, <2>1, RestIs, LoopTyped DEF Inv, TypeOK, SameWork
    <2>3. Sound'
      BY <2>1, RestIs DEF Sound
    <2> QED BY <1>a, <2>1, <2>2, <2>3, RestIs, WorkStays, Steady DEF Inv, Made
  <1>2. CASE \E t \in Waiting :
               ~hold /\ Leaves(t, "merging", At("ref", t, "code", "head"))
    <2>1. PICK t \in Waiting :
            ~hold /\ Leaves(t, "merging", At("ref", t, "code", "head"))
      BY <1>2
    <2>2. t \in Born /\ t \in Ids /\ TypeOK
      BY BornIsId DEF Inv, Made, Waiting
    <2>3. /\ entry' \in [Ids -> Entry] /\ SameWork
          /\ \A u \in Ids : entry'[u].marks = entry[u].marks
      BY <2>1, <2>2, Restatus DEF Leaves, Statuses
    <2>4. /\ loop' \in Loop /\ loop'.pc = "ref" /\ loop'.at = t
          /\ saved' = FALSE /\ t # 0
      BY <2>1, <2>2, AtIs DEF Leaves, Pcs, Halves, Ids
    <2>5. TypeOK'
      BY <1>a, <2>3, <2>4, LoopTyped DEF Inv, TypeOK
    <2>6. Sound'
      <3>1. ~hold' BY <1>a, <2>1
      <3> QED BY <2>4, <3>1 DEF Sound
    <2> QED BY <1>a, <2>2, <2>3, <2>4, <2>5, <2>6, WorkStays, Steady
            DEF Inv, Made
  <1> QED BY <1>1, <1>2 DEF Picks, Takes, Lowest

LEMMA InvIntegrates == Inv /\ Integrates => Inv'
  BY InvPicks, InvResolves, InvGates, InvConflicts, InvRedriveAnswered,
     InvSplitBegins, InvApplySkips, InvApplyLands, InvMarks, InvMergeLands,
     InvLandingParks, InvSecretFound, InvCloses, InvEmits
  DEF Integrates

-----------------------------------------------------------------------------
(* Everybody else.                                                         *)

AtRest(l) == l \in Loop /\ l.at = 0 /\ l.pc \in {"off", "head"}
Door == [at: Ids \cup {0}, todo: SUBSET Ids]
Boot == [pc: {"off", "due", "scan", "prune"}, todo: SUBSET Ids,
         kept: SUBSET Ids, drops: BOOLEAN, shared: BOOLEAN, told: SUBSET Ids]

LEMMA WakeIs ==
  ASSUME Wake
  PROVE  loop' = loop \/ AtRest(loop')
  BY RestIs DEF Wake, AtRest

\* The loop is where it was or at rest, and what it stands on still holds.
LEMMA Elsewhere ==
  ASSUME Inv, SameWork, staging' = staging, landed \subseteq landed',
         hold' => hold, loop' = loop \/ AtRest(loop')
  PROVE  Sound'
  <1>1. CASE AtRest(loop')
    BY <1>1 DEF Sound, AtRest
  <1>2. CASE loop' = loop /\ loop.at = 0
    BY <1>2 DEF Inv, Sound
  <1>3. CASE loop' = loop /\ loop.at # 0
    <2>1. loop.at \in Ids
      BY <1>3, AtEntry
    <2>2. /\ Run(me)' = Run(me) /\ Work(me)' = Work(me)
          /\ entry'[me].card = entry[me].card /\ entry'[me].drive = entry[me].drive
      BY <1>3, <2>1 DEF SameWork, Run, Work
    <2>3. CanRedrive(entry[me]) => CanRedrive(entry[me])'
      BY <1>3, <2>2 DEF CanRedrive
    <2>4. ~hold'
      BY <1>3, AtEntry
    <2> QED BY <1>3, <2>2, <2>3, <2>4 DEF Inv, Sound, Landed
  <1> QED BY <1>1, <1>2, <1>3

\* A step beside the loop that lands nothing and deletes no branch.
LEMMA Aside ==
  ASSUME Inv, TypeOK', SameWork, hold' => hold,
         UNCHANGED <<staging, born, disk, landed, refs, closed>>,
         loop' = loop \/ AtRest(loop'),
         \A t \in Ids : entry'[t].marks = entry[t].marks,
         listed' \subseteq Born, door'.at \in Born \cup {0},
         door'.todo \subseteq Born, boot'.todo \subseteq Born,
         boot'.kept \subseteq Born, boot'.told \subseteq boot.told
  PROVE  Inv'
  <1>1. Sound' /\ WorkIsKept'
    BY Elsewhere, WorkStays
  <1>2. loop'.at \in Born \cup {0}
    BY DEF AtRest, Inv, Made
  <1> QED BY <1>1, <1>2, Steady DEF Inv, Made

\* The same, where all that changes is entries' statuses and the loop's sleep.
LEMMA Restates ==
  ASSUME Inv, entry' \in [Ids -> Entry], SameWork,
         UNCHANGED <<staging, born, listed, disk, saved, git, owed, boot,
                     closed, vouched>>,
         retries' \in Nat, throws' \in Nat, crashes' \in Nat,
         blockers' \subseteq Ids, loop' = loop \/ AtRest(loop'),
         door' \in Door, door'.at \in Born \cup {0}, door'.todo \subseteq Born,
         \A t \in Ids : entry'[t].marks = entry[t].marks
  PROVE  Inv'
  <1>1. TypeOK'
    BY DEF Inv, TypeOK, git, AtRest, Door
  <1> QED BY <1>1, Aside DEF git, Inv, Made

LEMMA InvSupersede == Inv /\ Supersede => Inv'
  <1> SUFFICES ASSUME Inv, Supersede PROVE Inv'
    OBVIOUS
  <1>1. PICK t \in door.todo :
          /\ entry' = [entry EXCEPT ![t].st = "failed"]
          /\ blockers' = blockers \ {entry[t].run}
          /\ door' = [door EXCEPT !.todo = @ \ {t}]
    BY DEF Supersede, Lowest
  <1>2. t \in Ids /\ TypeOK
    BY BornIsId DEF Inv, Made
  <1>3. /\ entry' \in [Ids -> Entry] /\ SameWork
        /\ \A u \in Ids : entry'[u].marks = entry[u].marks
    BY <1>1, <1>2, Restatus DEF Statuses
  <1>4. /\ door' \in Door /\ door'.at \in Born \cup {0}
        /\ door'.todo \subseteq Born
    BY <1>1 DEF Inv, TypeOK, Made, Door
  <1> QED BY <1>1, <1>3, <1>4, Restates DEF Supersede, Inv, TypeOK, limits

LEMMA InvInsert == Inv /\ Insert => Inv'
  <1> SUFFICES ASSUME Inv, Insert PROVE Inv'
    OBVIOUS
  <1> DEFINE t == door.at
  <1>1. /\ t \in Born /\ t \in Ids
        /\ entry' = [entry EXCEPT ![t].st = "waiting", ![t].pin = entry[t].run \in refs]
        /\ listed' = listed \cup {t} /\ door' = [at |-> 0, todo |-> {}]
        /\ boot' = IF boot.shared THEN [boot EXCEPT !.todo = @ \cup {t}] ELSE boot
        /\ Wake
        /\ UNCHANGED <<staging, born, disk, saved, git, blockers, owed, closed,
                       vouched, limits>>
    BY BornIsId DEF Insert, Inv, Made
  <1>2. /\ entry' \in [Ids -> Entry] /\ SameWork
        /\ \A u \in Ids : entry'[u].marks = entry[u].marks
    BY <1>1 DEF Inv, TypeOK, Entry, SameWork, Statuses
  <1>3. loop' = loop \/ AtRest(loop')
    BY <1>1, WakeIs
  <1>4. /\ boot' \in Boot /\ boot'.todo \subseteq Born
        /\ boot'.kept \subseteq Born /\ boot'.told \subseteq boot.told
    BY <1>1 DEF Boot, Inv, TypeOK, Made
  <1>5. /\ door' \in Door /\ door'.at \in Born \cup {0} /\ door'.todo \subseteq Born
        /\ listed' \subseteq Born /\ listed' \subseteq Ids
    BY <1>1 DEF Door, Inv, TypeOK, Made
  <1>6. TypeOK'
    BY <1>1, <1>2, <1>3, <1>4, <1>5
       DEF Inv, TypeOK, git, limits, AtRest, Door, Boot
  <1> QED BY <1>1, <1>2, <1>3, <1>4, <1>5, <1>6, Aside DEF git

\* An entry that was made, and the run it belongs to.
LEMMA BornIs ==
  ASSUME Inv, NEW t \in Born
  PROVE  /\ t \in Ids /\ entry[t] \in Entry /\ Run(t) \in Born /\ Run(t) \in Ids
         /\ Run(Run(t)) = Run(t) /\ Work(Run(t)) = Work(t)
  <1>1. t \in Ids
    BY BornIsId DEF Inv
  <1>2. Run(t) \in 1..t
    BY <1>1 DEF Inv, Made
  <1>3. Run(t) \in Born
    BY <1>1, <1>2, BornIsId DEF Inv, Born
  <1> QED BY <1>1, <1>3, BornIsId DEF Inv, TypeOK, Kin

LEMMA ListedIs ==
  ASSUME Inv, NEW t \in listed
  PROVE  /\ t \in Born /\ t \in Ids /\ entry[t] \in Entry /\ Run(t) \in Born
         /\ Run(Run(t)) = Run(t) /\ Work(Run(t)) = Work(t) /\ Run(t) \in Ids
  <1>1. t \in Born
    BY DEF Inv, Made
  <1> QED BY <1>1, BornIs

LEMMA InvResolvesMerged == Inv /\ (\E t \in Ids : ResolvesMerged(t)) => Inv'
  <1> SUFFICES ASSUME Inv, NEW t \in Ids, ResolvesMerged(t) PROVE Inv'
    OBVIOUS
  <1> DEFINE e == entry[t]
             hs == IF e.split THEN e.work \cap {"code"} ELSE e.work
  <1>a. /\ t \in listed /\ Lands(Run(t), hs)
        /\ entry' = [entry EXCEPT ![t].st = "done",
             ![t].marks = IF e.split THEN @ \cup {"code"} ELSE @]
        /\ refs' = refs \/ refs' = refs \ {Run(t)}
        /\ blockers' \subseteq Ids /\ closed' = closed \cup {Run(t)}
        /\ vouched' = vouched \cup {Run(t)} /\ Wake
        /\ UNCHANGED <<staging, born, listed, disk, saved, hold, owed, door,
                       boot, limits>>
    BY DEF ResolvesMerged, ByHand, deleteBranchAfterIntegration, Run, Inv, TypeOK
  <1>b. /\ t \in Born /\ e \in Entry /\ Run(t) \in Born /\ Run(t) \in Ids
        /\ Run(Run(t)) = Run(t) /\ Work(Run(t)) = Work(t)
    BY <1>a, ListedIs
  <1>1. /\ entry' \in [Ids -> Entry] /\ SameWork
        /\ \A u \in Ids : entry'[u].marks # entry[u].marks => u = t
        /\ entry'[t].marks = IF e.split THEN e.marks \cup {"code"} ELSE e.marks
    BY <1>a, <1>b DEF Inv, TypeOK, Entry, SameWork, Statuses, Halves
  <1>2. /\ landed \subseteq landed' /\ landed' \subseteq Ids \X Halves
        /\ "code" \in Work(t) => <<Run(t), "code">> \in landed'
    <2>1. /\ hs \subseteq Halves /\ ("code" \in Work(t) => "code" \in hs)
      BY <1>b DEF Entry, Work
    <2> QED BY <1>a, <1>b, <2>1 DEF Lands, Inv, TypeOK
  <1>3. loop' = loop \/ AtRest(loop')
    BY <1>a, WakeIs
  <1>4. TypeOK'
    BY <1>a, <1>b, <1>1, <1>2, <1>3 DEF Inv, TypeOK, limits, AtRest
  <1>5. Sound'
    BY <1>a, <1>1, <1>2, <1>3, Elsewhere
  <1>6. WorkIsKept'
    BY <1>a, <1>b, <1>1, <1>2, WorkStays
  <1>7. \A u \in Ids : \A h \in entry'[u].marks \ entry[u].marks :
          h \in Work(u) => <<Run(u), h>> \in landed'
    BY <1>1, <1>2
  <1>8. loop'.at \in Born \cup {0} /\ closed' \subseteq Born
    BY <1>a, <1>b, <1>3 DEF AtRest, Inv, Made
  <1> QED BY <1>a, <1>1, <1>2, <1>4, <1>5, <1>6, <1>7, <1>8, Steady
          DEF Inv, Made

LEMMA InvAborts == Inv /\ (\E t \in Ids : Aborts(t)) => Inv'
  <1> SUFFICES ASSUME Inv, NEW t \in Ids, Aborts(t) PROVE Inv'
    OBVIOUS
  <1>a. /\ t \in listed /\ entry' = [entry EXCEPT ![t].st = "failed"]
        /\ refs' = refs \/ (refs' = refs \ {Run(t)} /\ "code" \notin Work(t))
        /\ Wake
        /\ UNCHANGED <<staging, born, listed, disk, saved, landed, hold, blockers,
                       owed, door, boot, closed, vouched, limits>>
    BY DEF Aborts, ByHand, preserveAbortedBranch, Run, Work
  <1>b. Run(Run(t)) = Run(t) /\ Work(Run(t)) = Work(t) /\ TypeOK
    BY <1>a, ListedIs DEF Inv
  <1>1. /\ entry' \in [Ids -> Entry] /\ SameWork
        /\ \A u \in Ids : entry'[u].marks = entry[u].marks
    BY <1>a, <1>b, Restatus DEF Statuses
  <1>2. loop' = loop \/ AtRest(loop')
    BY <1>a, WakeIs
  <1>3. TypeOK'
    BY <1>a, <1>1, <1>2 DEF Inv, TypeOK, limits, AtRest
  <1>4. Sound' /\ WorkIsKept'
    BY <1>a, <1>b, <1>1, <1>2, Elsewhere, WorkStays
  <1>5. loop'.at \in Born \cup {0}
    BY <1>2 DEF AtRest, Inv, Made
  <1> QED BY <1>a, <1>1, <1>3, <1>4, <1>5, Steady DEF Inv, Made

LEMMA InvRetriesParked == Inv /\ (\E t \in Ids : RetriesParked(t)) => Inv'
  <1> SUFFICES ASSUME Inv, NEW t \in Ids, RetriesParked(t) PROVE Inv'
    OBVIOUS
  <1>a. /\ entry' = [entry EXCEPT ![t].st = "waiting"] /\ TypeOK
        /\ loop' = loop \/ AtRest(loop')
    BY WakeIs DEF RetriesParked, Inv
  <1>1. /\ entry' \in [Ids -> Entry] /\ SameWork
        /\ \A u \in Ids : entry'[u].marks = entry[u].marks
    BY <1>a, Restatus DEF Statuses
  <1>2. retries' \in Nat /\ throws' \in Nat /\ crashes' \in Nat
    BY <1>a DEF RetriesParked, TypeOK
  <1> QED BY <1>a, <1>1, <1>2, Restates
          DEF RetriesParked, Inv, TypeOK, Made, Door

\* Some entries get one status.
LEMMA ManyRestated ==
  ASSUME TypeOK, NEW S, NEW s \in Statuses,
         entry' = [t \in Ids |-> IF t \in S THEN [entry[t] EXCEPT !.st = s]
                                            ELSE entry[t]]
  PROVE  /\ entry' \in [Ids -> Entry] /\ SameWork
         /\ \A u \in Ids : entry'[u].marks = entry[u].marks
  <1>1. \A e \in Entry : /\ [e EXCEPT !.st = s] \in Entry
                         /\ [e EXCEPT !.st = s].run = e.run
                         /\ [e EXCEPT !.st = s].work = e.work
                         /\ [e EXCEPT !.st = s].card = e.card
                         /\ [e EXCEPT !.st = s].drive = e.drive
                         /\ [e EXCEPT !.st = s].marks = e.marks
    BY DEF Entry
  <1> QED BY <1>1 DEF TypeOK, SameWork

LEMMA InvReconciles == Inv /\ (\E j \in Jobs : ReconcilesCard(j.card)) => Inv'
  <1> SUFFICES ASSUME Inv, NEW c, ReconcilesCard(c) PROVE Inv'
    OBVIOUS
  <1>a. TypeOK /\ (loop' = loop \/ AtRest(loop'))
    BY WakeIs DEF ReconcilesCard, Inv
  <1>b. blockers' \subseteq Ids
    BY DEF ReconcilesCard, Inv, TypeOK
  <1>1. /\ entry' \in [Ids -> Entry] /\ SameWork
        /\ \A u \in Ids : entry'[u].marks = entry[u].marks
    <2>1. PICK S : entry' = [t \in Ids |-> IF t \in S
                                           THEN [entry[t] EXCEPT !.st = "failed"]
                                           ELSE entry[t]]
      BY DEF ReconcilesCard
    <2> QED BY <1>a, <2>1, ManyRestated DEF Statuses
  <1> QED BY <1>a, <1>b, <1>1, Restates
          DEF ReconcilesCard, Inv, TypeOK, Made, Door, limits

LEMMA InvSweeps == Inv /\ SweepsStuck => Inv'
  <1> SUFFICES ASSUME Inv, SweepsStuck PROVE Inv'
    OBVIOUS
  <1>a. TypeOK /\ (loop' = loop \/ AtRest(loop'))
    BY WakeIs DEF SweepsStuck, Inv
  <1>1. /\ entry' \in [Ids -> Entry] /\ SameWork
        /\ \A u \in Ids : entry'[u].marks = entry[u].marks
    BY <1>a, ManyRestated DEF SweepsStuck, Statuses
  <1> QED BY <1>a, <1>1, Restates
          DEF SweepsStuck, Inv, TypeOK, Made, Door, limits

LEMMA InvPumps == Inv /\ Pumps => Inv'
  <1> SUFFICES ASSUME Inv, Pumps PROVE Inv'
    OBVIOUS
  <1>1. TypeOK /\ (loop' = loop \/ AtRest(loop'))
    BY WakeIs DEF Pumps, Inv
  <1>2. entry' \in [Ids -> Entry] /\ SameWork /\ entry' = entry
    BY <1>1 DEF Pumps, queue, TypeOK, SameWork
  <1> QED BY <1>1, <1>2, Restates
          DEF Pumps, queue, Inv, TypeOK, Made, Door, limits

LEMMA InvReleases == Inv /\ Releases => Inv'
  <1> SUFFICES ASSUME Inv, Releases PROVE Inv'
    OBVIOUS
  <1>1. /\ hold' = FALSE
        /\ UNCHANGED <<staging, born, entry, listed, disk, loop, saved, landed,
                       refs, blockers, owed, door, boot, closed, vouched, limits>>
    BY DEF Releases, queue
  <1>2. TypeOK' /\ SameWork
    BY <1>1 DEF Inv, TypeOK, limits, SameWork
  <1> QED BY <1>1, <1>2, Aside DEF Inv, Made

LEMMA InvThrows == Inv /\ LoopThrows => Inv'
  <1> SUFFICES ASSUME Inv, LoopThrows PROVE Inv'
    OBVIOUS
  <1>1. /\ loop' = Off /\ AtRest(loop') /\ saved' = TRUE /\ throws' \in Nat
        /\ UNCHANGED <<staging, born, entry, listed, disk, landed, refs, hold,
                       blockers, owed, door, boot, closed, vouched, retries,
                       crashes>>
    BY RestIs DEF LoopThrows, queue, git, AtRest, Inv, TypeOK
  <1>2. TypeOK' /\ SameWork
    BY <1>1 DEF Inv, TypeOK, SameWork, AtRest
  <1> QED BY <1>1, <1>2, Aside DEF Inv, Made


\* What the door makes: one entry more, not listed yet.
Opened(run, work) ==
  /\ born < MaxEntries /\ born' = born + 1 /\ born' \in 0..MaxEntries
  /\ entry' \in [Ids -> Entry]
  /\ entry'[born + 1].run = run /\ entry'[born + 1].work = work
  /\ entry'[born + 1].marks = {}
  /\ \A t \in Ids : t # born + 1 =>
       /\ entry'[t].run = Run(t) /\ entry'[t].work = Work(t)
       /\ entry'[t].card = entry[t].card /\ entry'[t].drive = entry[t].drive
       /\ entry'[t].marks = entry[t].marks
  /\ \A t \in Ids : entry'[t].st \in {"none", entry[t].st}
  /\ door' \in Door /\ door'.at \in Born' \cup {0} /\ door'.todo \subseteq Born'
  /\ Born' = Born \cup {born + 1}

LEMMA DoorOpens ==
  ASSUME Inv, NEW run \in Born \cup {born + 1},
         NEW card \in {j.card : j \in Jobs} \cup {NoCard},
         NEW kind \in {"run", "session"}, NEW work \in SUBSET Halves,
         NEW drive \in 0..MaxRedrives, OpenDoor(run, card, kind, work, drive)
  PROVE  Opened(run, work)
  <1> DEFINE e == [NoEntry EXCEPT !.run = run, !.card = card, !.kind = kind,
                                  !.work = work, !.drive = drive]
  <1>1. /\ born < MaxEntries /\ born' = born + 1
        /\ entry' = [entry EXCEPT ![born + 1] = e]
        /\ door' = [at |-> born + 1, todo |-> Rivals(card, run)]
    BY DEF OpenDoor
  <1>2. /\ born + 1 \in Ids /\ born' \in 0..MaxEntries /\ Born \subseteq Ids
        /\ Born' = Born \cup {born + 1} /\ entry \in [Ids -> Entry]
    BY <1>1, BornIsId, TrainAssumption DEF Inv, TypeOK, Ids, Born
  <1>4. /\ e \in Entry /\ e.run = run /\ e.work = work /\ e.marks = {}
        /\ e.st = "none"
    <2>1. run \in Ids
      BY <1>2
    <2>2. e \in Entry
      BY <2>1, NoEntryTyped, Zenon DEF Entry
    <2>3. /\ e.run = run /\ e.work = work /\ e.marks = NoEntry.marks
          /\ e.st = NoEntry.st
      BY NoEntryTyped DEF Entry
    <2> QED BY <2>2, <2>3 DEF NoEntry
  <1>5. Rivals(card, run) \subseteq Born
    BY DEF Rivals, Inv, Made
  <1> HIDE DEF e
  <1>6. /\ entry' \in [Ids -> Entry] /\ entry'[born + 1] = e
        /\ \A t \in Ids : t # born + 1 => entry'[t] = entry[t]
    BY <1>1, <1>2, <1>4
  <1>7. /\ door' \in Door /\ door'.at \in Born' \cup {0}
        /\ door'.todo \subseteq Born'
    BY <1>1, <1>2, <1>5 DEF Door
  <1> QED BY <1>1, <1>2, <1>4, <1>6, <1>7 DEF Opened, Run, Work

\* A job, or a re-drive that comes back, is a new run with its work.
LEMMA DoorKnocks ==
  ASSUME Inv, (\E j \in Jobs : Submit(j)) \/ (\E o \in owed : ComesBack(o))
  PROVE  \E card \in {j.card : j \in Jobs}, kind \in {"run", "session"},
            work \in SUBSET Halves, drive \in 0..MaxRedrives :
           OpenDoor(born + 1, card, kind, work, drive)
  <1>1. CASE \E j \in Jobs : Submit(j)
    <2>1. PICK j \in Jobs : OpenDoor(born + 1, j.card, j.kind, j.work, 0)
      BY <1>1 DEF Submit
    <2>2. /\ j.card \in {i.card : i \in Jobs} /\ j.kind \in {"run", "session"}
          /\ j.work \in SUBSET Halves /\ 0 \in 0..MaxRedrives
      BY TrainAssumption
    <2> QED BY <2>1, <2>2
  <1>2. CASE \E o \in owed : ComesBack(o)
    <2>1. PICK o \in owed : OpenDoor(born + 1, o.card, "run", o.work, o.drive)
      BY <1>2 DEF ComesBack
    <2>2. /\ o.card \in {j.card : j \in Jobs} /\ o.work \in SUBSET Halves
          /\ o.drive \in 0..MaxRedrives
      BY DEF Inv, TypeOK
    <2> QED BY <2>1, <2>2
  <1> QED BY <1>1, <1>2

LEMMA InvSubmits ==
  Inv /\ ((\E j \in Jobs : Submit(j)) \/ (\E o \in owed : ComesBack(o))) => Inv'
  <1> SUFFICES ASSUME Inv, (\E j \in Jobs : Submit(j)) \/ (\E o \in owed : ComesBack(o))
               PROVE  Inv'
    OBVIOUS
  <1>1. PICK card \in {j.card : j \in Jobs}, kind \in {"run", "session"},
             work \in SUBSET Halves, drive \in 0..MaxRedrives :
          OpenDoor(born + 1, card, kind, work, drive)
    BY DoorKnocks
  <1>2. /\ refs' = refs \cup {born + 1} /\ owed' \subseteq owed
        /\ UNCHANGED <<staging, listed, disk, loop, saved, landed, hold, blockers,
                       boot, closed, vouched, limits>>
    BY DEF Submit, ComesBack
  <1>3. \E w \in SUBSET Halves : Opened(born + 1, w)
    BY <1>1, DoorOpens
  <1>4. born + 1 \in Ids
    BY <1>3, BornIsId, TrainAssumption DEF Opened, Inv, Ids
  <1>5. TypeOK'
    BY <1>2, <1>3, <1>4 DEF Opened, Inv, TypeOK, limits, Door
  <1> QED BY <1>2, <1>3, <1>5, Grows DEF Opened, Inv, Made

LEMMA InvRequeues == Inv /\ (\E t \in Ids : Requeue(t)) => Inv'
  <1> SUFFICES ASSUME Inv, NEW t \in Ids, Requeue(t) PROVE Inv'
    OBVIOUS
  <1>1. /\ t \in listed /\ listed' = listed \ {t} /\ retries' = retries + 1
        /\ OpenDoor(Run(t), entry[t].card, "run", Work(t), entry[t].drive)
        /\ boot' = [boot EXCEPT !.shared = FALSE]
        /\ UNCHANGED <<staging, disk, loop, saved, landed, refs, hold, blockers,
                       owed, closed, vouched, throws, crashes>>
    BY DEF Requeue, git, Run, Work
  <1>2. /\ Run(t) \in Born /\ Run(Run(t)) = Run(t) /\ Work(Run(t)) = Work(t)
        /\ entry[t].card \in {j.card : j \in Jobs} \cup {NoCard}
        /\ Work(t) \in SUBSET Halves /\ entry[t].drive \in 0..MaxRedrives
    BY <1>1, ListedIs DEF Entry, Work
  <1>3. Opened(Run(t), Work(t))
    BY <1>1, <1>2, DoorOpens
  <1>4. /\ boot' \in Boot /\ boot'.todo = boot.todo /\ boot'.kept = boot.kept
        /\ boot'.told = boot.told
    BY <1>1 DEF Boot, Inv, TypeOK
  <1>5. TypeOK'
    BY <1>1, <1>3, <1>4 DEF Opened, Inv, TypeOK, Door, Boot
  <1> QED BY <1>1, <1>2, <1>3, <1>4, <1>5, Grows DEF Opened, Inv, Made

-----------------------------------------------------------------------------
(* The file, the crash, the recovery.                                      *)

LEMMA InvFlushes == Inv /\ Flush => Inv'
  <1> SUFFICES ASSUME Inv, Flush PROVE Inv'
    OBVIOUS
  <1>1. /\ disk' = Kept(Memory, crashes) /\ saved' = TRUE
        /\ boot' = [boot EXCEPT !.shared = FALSE]
        /\ UNCHANGED <<staging, born, entry, listed, loop, landed, refs, hold,
                       blockers, owed, door, closed, vouched, limits>>
    BY DEF Flush, queue, git
  <1>2. \A t \in Ids : \/ disk'[t] = NoEntry
                       \/ t \in listed /\ disk'[t] = entry[t]
    BY <1>1 DEF Kept, Memory
  <1>3. disk' \in [Ids -> Entry]
    BY <1>1, NoEntryTyped DEF Kept, Memory, Inv, TypeOK
  <1>4. /\ boot' \in Boot /\ boot'.todo = boot.todo /\ boot'.kept = boot.kept
        /\ boot'.told = boot.told
    BY <1>1 DEF Boot, Inv, TypeOK
  <1>5. TypeOK'
    BY <1>1, <1>3, <1>4 DEF Inv, TypeOK, Boot, limits
  <1>6. MarksHold'
    <2>1. Marked(NoEntry)'
      BY DEF Marked, NoEntry
    <2> QED BY <1>1, <1>2, <2>1 DEF Inv, MarksHold, Marked
  <1>7. Recorded'
    <2>1. NoEntry.st = "none"
      BY DEF NoEntry
    <2> QED BY <1>1, <1>2, <2>1 DEF Inv, Made, Recorded, Run, Work, Born
  <1>8. /\ Made' /\ Kin' /\ Sound' /\ ToldHaveLanded' /\ WorkIsKept'
    BY <1>1, <1>4 DEF Inv, Made, Kin, Sound, ToldHaveLanded, WorkIsKept, Run, Work, Born, Landed
  <1> QED BY <1>5, <1>6, <1>7, <1>8 DEF Inv

LEMMA LoadIs ==
  ASSUME NEW d \in [Ids -> Entry], NEW t \in Ids
  PROVE  /\ load(d)[t] \in Entry /\ load(d)[t].run = d[t].run
         /\ load(d)[t].work = d[t].work /\ load(d)[t].marks = d[t].marks
  BY DEF load, Entry, Statuses

LEMMA ForgottenIs ==
  ASSUME NEW e \in Entry
  PROVE  /\ Forgotten(e) \in Entry /\ Forgotten(e).run = e.run
         /\ Forgotten(e).work = e.work /\ Forgotten(e).marks = {}
  <1>1. /\ Forgotten(e).run = e.run /\ Forgotten(e).work = e.work
        /\ Forgotten(e).marks = NoEntry.marks
    BY NoEntryTyped DEF Forgotten, Entry
  <1>2. Forgotten(e) \in Entry
    BY NoEntryTyped, Zenon DEF Forgotten, Entry
  <1> QED BY <1>1, <1>2 DEF NoEntry

\* What an entry was survives a crash, in the file or for the properties.
LEMMA CrashKeeps ==
  ASSUME Inv, Crash, NEW t \in Ids
  PROVE  entry'[t].run = Run(t) /\ entry'[t].work = Work(t) /\ Marked(entry[t])'
  <1>1. /\ listed' = {u \in Ids : disk[u].st # "none"} /\ landed' = landed
        /\ entry' = [u \in Ids |-> IF u \in listed' THEN load(disk)[u]
                                                    ELSE Forgotten(entry[u])]
        /\ disk \in [Ids -> Entry] /\ entry \in [Ids -> Entry]
    BY DEF Crash, git, Inv, TypeOK
  <1>2. CASE t \in listed'
    <2>1. disk[t].run = Run(t) /\ disk[t].work = Work(t) /\ Marked(disk[t])
      BY <1>1, <1>2 DEF Inv, Recorded, MarksHold
    <2>2. /\ entry'[t].run = disk[t].run /\ entry'[t].work = disk[t].work
          /\ entry'[t].marks = disk[t].marks
      BY <1>1, <1>2, LoadIs
    <2> QED BY <1>1, <2>1, <2>2 DEF Marked
  <1>3. CASE t \notin listed'
    <2>1. /\ entry'[t].run = Run(t) /\ entry'[t].work = Work(t)
          /\ entry'[t].marks = {}
      BY <1>1, <1>3, ForgottenIs DEF Run, Work
    <2> QED BY <2>1 DEF Marked
  <1> QED BY <1>2, <1>3

LEMMA InvCrashes == Inv /\ Crash => Inv'
  <1> SUFFICES ASSUME Inv, Crash PROVE Inv'
    OBVIOUS
  <1>1. /\ crashes' = crashes + 1 /\ listed' = {t \in Ids : disk[t].st # "none"}
        /\ entry' = [t \in Ids |-> IF t \in listed' THEN load(disk)[t]
                                                    ELSE Forgotten(entry[t])]
        /\ disk' = Kept(disk, crashes + 1) /\ loop' = Off /\ saved' = TRUE
        /\ door' = [at |-> 0, todo |-> {}] /\ boot' = [NoBoot EXCEPT !.pc = "due"]
        /\ UNCHANGED <<staging, born, landed, refs, hold, blockers, owed, closed,
                       vouched, retries, throws>>
    BY DEF Crash, git
  <1>a. /\ Born \subseteq Ids /\ Born' = Born /\ disk \in [Ids -> Entry]
        /\ entry \in [Ids -> Entry]
    BY <1>1, BornIsId DEF Inv, TypeOK, Born
  <1>2. listed' \subseteq Born
    BY <1>1 DEF Inv, Recorded
  <1>3. entry' \in [Ids -> Entry]
    BY <1>1, <1>a, LoadIs, ForgottenIs
  <1>4. \A t \in Ids : /\ entry'[t].run = Run(t) /\ entry'[t].work = Work(t)
                       /\ Marked(entry[t])'
    BY CrashKeeps
  <1>5. \A t \in Ids : disk'[t] = NoEntry \/ disk'[t] = disk[t]
    BY <1>1 DEF Kept
  <1>6. /\ NoEntry.st = "none" /\ Marked(NoEntry)'
    BY DEF NoEntry, Marked
  <1>7. MarksHold'
    BY <1>1, <1>4, <1>5, <1>6 DEF Inv, MarksHold, Marked
  <1>8. Recorded'
    BY <1>a, <1>4, <1>5, <1>6 DEF Inv, Recorded, Run, Work
  <1>9. /\ boot' \in Boot /\ boot'.todo = {} /\ boot'.kept = {}
        /\ boot'.told = {}
    BY <1>1 DEF Boot, NoBoot
  <1>10. Made'
    <2>1. \A t \in Ids : IF t \in Born' THEN Run(t)' \in 1..t ELSE Run(t)' = 0
      BY <1>a, <1>4 DEF Inv, Made, Run
    <2> QED BY <1>1, <1>2, <1>a, <1>9, <2>1, RestIs DEF Inv, Made
  <1>11. Kin'
    <2>1. \A t \in Born : Run(t) \in Ids
      <3> TAKE t \in Born
      <3>1. Run(t) \in 1..t /\ t \in Ids
        BY <1>a DEF Inv, Made
      <3> QED BY <3>1, TrainAssumption DEF Ids
    <2> QED BY <1>4, <1>a, <2>1 DEF Inv, Kin, Run, Work
  <1>12. /\ Sound' /\ ToldHaveLanded'
    BY <1>1, <1>9, RestIs DEF Sound, ToldHaveLanded
  <1>13. WorkIsKept'
    BY <1>1, <1>4 DEF Inv, WorkIsKept, Run, Work
  <1>14. TypeOK'
    <2>1. disk' \in [Ids -> Entry]
      BY <1>1, <1>a, NoEntryTyped DEF Kept
    <2> QED BY <1>1, <1>2, <1>3, <1>a, <1>9, <2>1, RestIs
            DEF Inv, TypeOK, Boot
  <1> QED BY <1>7, <1>8, <1>10, <1>11, <1>12, <1>13, <1>14 DEF Inv


\* What recovery calls all landed has landed.
LEMMA AllLandedIs ==
  ASSUME Inv, NEW t \in Born, AllLanded(entry[t])
  PROVE  Landed(Run(t), Work(t))
  <1>1. t \in Ids /\ Work(t) \subseteq Halves
    BY BornIs DEF Entry, Work
  <1>2. CASE entry[t].split
    BY <1>1, <1>2 DEF AllLanded, Inv, MarksHold, Marked, Landed, Work, Run
  <1>3. CASE ~entry[t].split
    BY <1>3 DEF AllLanded, Work, Run
  <1> QED BY <1>2, <1>3

LEMMA InvScans == Inv /\ Scans => Inv'
  <1> SUFFICES ASSUME Inv, Scans PROVE Inv'
    OBVIOUS
  <1>1. PICK t \in boot.todo : ScansEntry(t)
    BY DEF Scans, Lowest
  <1>2. t \in Born
    BY DEF Inv, Made
  <1>3. PICK s \in Statuses, told \in {{}, {Run(t)}} :
          /\ Scanned(t, s, told)
          /\ told # {} => AllLanded(entry[t])
    <2>1. /\ {"done", "waiting", "conflict", "gate-failed"} \subseteq Statuses
          /\ entry[t].st \in Statuses
      BY <1>2, BornIs DEF Statuses, Parked, Entry
    <2> QED BY <1>1, <2>1 DEF ScansEntry, Run
  <1>a. /\ entry' = [entry EXCEPT ![t].st = s]
        /\ boot' = [boot EXCEPT !.todo = @ \ {t}, !.told = @ \cup told]
        /\ refs' = refs \/ (told # {} /\ refs' = refs \ {Run(t)})
        /\ UNCHANGED <<staging, born, listed, disk, loop, saved, landed, hold,
                       blockers, owed, door, closed, vouched, limits>>
    BY <1>3 DEF Scanned, Scans, deleteBranchAfterIntegration, Run
  <1>b. /\ t \in Ids /\ Run(t) \in Born /\ Run(t) \in Ids /\ TypeOK
        /\ Run(Run(t)) = Run(t) /\ Work(Run(t)) = Work(t)
    BY <1>2, BornIs DEF Inv
  <1>4. /\ entry' \in [Ids -> Entry] /\ SameWork
        /\ \A u \in Ids : entry'[u].marks = entry[u].marks
    BY <1>a, <1>b, Restatus
  <1>5. told # {} => Landed(Run(t), Work(t))
    BY <1>2, <1>3, AllLandedIs
  <1>6. /\ boot' \in Boot /\ boot'.todo \subseteq Born
        /\ boot'.kept \subseteq Born /\ boot'.told \subseteq Born
        /\ boot'.told \ boot.told \subseteq told
    BY <1>a, <1>b DEF Boot, Inv, TypeOK, Made
  <1>7. TypeOK'
    BY <1>a, <1>4, <1>6 DEF Inv, TypeOK, Boot, limits
  <1>8. Sound' /\ WorkIsKept'
    <2>1. \A r \in refs \ refs' : r = Run(t) /\ Landed(Run(t), Work(t))
      BY <1>a, <1>5
    <2>2. \A r \in refs \ refs' : "code" \in Work(r) /\ Run(r) = r
                                    => <<r, "code">> \in landed'
      BY <1>a, <1>b, <2>1 DEF Landed
    <2> QED BY <1>a, <1>4, <2>2, Elsewhere, WorkStays
  <1>9. \A r \in boot'.told \ boot.told : Landed(r, Work(r))'
    <2>1. \A r \in boot'.told \ boot.told : r = Run(t) /\ Landed(Run(t), Work(t))
      BY <1>5, <1>6
    <2> QED BY <1>a, <1>b, <1>4, <2>1 DEF Landed, SameWork, Work
  <1> QED BY <1>a, <1>4, <1>6, <1>7, <1>8, <1>9, Steady DEF Inv, Made

LEMMA InvRecovers == Inv /\ Recovers => Inv'
  <1> SUFFICES ASSUME Inv, Recovers PROVE Inv'
    OBVIOUS
  <1>1. CASE RecoverBegins \/ PruneBegins \/ Prunes
    <2>1. UNCHANGED <<staging, born, entry, listed, disk, loop, saved, landed,
                      refs, hold, blockers, owed, door, closed, vouched, limits>>
      BY <1>1 DEF RecoverBegins, PruneBegins, Prunes, queue, git
    <2>2. /\ boot' \in Boot /\ boot'.todo \subseteq Born
          /\ boot'.kept \subseteq Born /\ boot'.told \subseteq boot.told
      <3>1. CASE RecoverBegins
        BY <3>1 DEF RecoverBegins, NoBoot, Boot, Inv, TypeOK, Made
      <3>2. CASE PruneBegins
        BY <3>2 DEF PruneBegins, Boot, Inv, TypeOK, Made
      <3>3. CASE Prunes
        <4>1. PICK t \in boot.todo :
                boot' = [boot EXCEPT !.todo = @ \ {t},
                                     !.kept = IF Dropped(t) THEN @ ELSE @ \cup {t},
                                     !.drops = @ \/ Dropped(t)]
          BY <3>3 DEF Prunes, Lowest
        <4>2. boot.drops \/ Dropped(t) \in BOOLEAN
          BY DEF Inv, TypeOK, Dropped
        <4> QED BY <4>1, <4>2 DEF Boot, Inv, TypeOK, Made
      <3> QED BY <1>1, <3>1, <3>2, <3>3
    <2>3. TypeOK' /\ SameWork
      BY <2>1, <2>2 DEF Inv, TypeOK, Boot, SameWork, limits
    <2> QED BY <2>1, <2>2, <2>3, Aside DEF Inv, Made
  <1>2. CASE Recovered
    <2>1. /\ listed' = (IF boot.drops THEN boot.kept ELSE listed)
          /\ closed' = closed \cup boot.told /\ boot' = NoBoot
          /\ loop' = loop \/ AtRest(loop')
          /\ UNCHANGED <<staging, born, entry, disk, saved, landed, refs, hold,
                         blockers, owed, door, vouched, limits>>
      BY <1>2, WakeIs DEF Recovered, git
    <2>2. /\ boot' \in Boot /\ boot'.todo = {} /\ boot'.kept = {}
          /\ boot'.told = {} /\ listed' \subseteq Born /\ closed' \subseteq Born
      BY <2>1 DEF NoBoot, Boot, Inv, Made
    <2>3. TypeOK' /\ SameWork
      BY <2>1, <2>2, BornIsId DEF Inv, TypeOK, Boot, SameWork, AtRest, limits
    <2>4. Sound' /\ WorkIsKept' /\ loop'.at \in Born \cup {0}
      BY <2>1, <2>3, Elsewhere, WorkStays DEF AtRest, Inv, Made
    <2> QED BY <2>1, <2>2, <2>3, <2>4, Steady DEF Inv, Made
  <1> QED BY <1>1, <1>2, InvScans DEF Recovers

-----------------------------------------------------------------------------
(* The theorems.                                                           *)

LEMMA InvInit == Init => Inv
  <1> SUFFICES ASSUME Init PROVE Inv
    OBVIOUS
  <1>1. TypeOK
    <2>1. /\ boot \in Boot /\ door \in Door
      BY DEF Init, NoBoot, Boot, Door
    <2>2. /\ entry \in [Ids -> Entry] /\ disk \in [Ids -> Entry] /\ loop \in Loop
          /\ born \in 0..MaxEntries
      BY NoEntryTyped, RestIs, TrainAssumption DEF Init
    <2> QED BY <2>1, <2>2 DEF Init, TypeOK, Boot, Door
  <1>2. Born = {}
    BY DEF Init, Born
  <1>3. Made /\ Kin /\ ToldHaveLanded
    BY <1>2, RestIs DEF Init, Made, Kin, ToldHaveLanded, NoEntry, NoBoot, Run
  <1>4. MarksHold /\ Recorded
    BY DEF Init, MarksHold, Marked, Recorded, NoEntry
  <1>5. Sound /\ WorkIsKept
    BY RestIs DEF Init, Sound, WorkIsKept, NoEntry
  <1> QED BY <1>1, <1>3, <1>4, <1>5 DEF Inv

LEMMA InvStutters == Inv /\ UNCHANGED vars => Inv'
  <1> SUFFICES ASSUME Inv, UNCHANGED vars PROVE Inv'
    OBVIOUS
  <1>1. UNCHANGED <<staging, born, entry, listed, disk, loop, saved, landed, refs,
                    hold, blockers, owed, door, boot, closed, vouched, retries,
                    throws, crashes>>
    BY DEF vars, queue, git, limits
  <1>2. TypeOK' /\ SameWork
    BY <1>1 DEF Inv, TypeOK, SameWork
  <1> QED BY <1>1, <1>2, Aside DEF Inv, Made

LEMMA InvNext == Inv /\ [Next]_vars => Inv'
  <1> SUFFICES ASSUME Inv, Next PROVE Inv'
    BY InvStutters
  <1>1. CASE Operates
    BY <1>1, InvResolvesMerged, InvAborts, InvRetriesParked, InvRequeues,
       InvReconciles, InvReleases DEF Operates
  <1> QED BY <1>1, InvSubmits, InvSupersede, InvInsert, InvIntegrates,
             InvRecovers, InvSweeps, InvPumps, InvFlushes, InvCrashes, InvThrows
          DEF Next, Enqueues

LEMMA InvHolds == Spec => []Inv
  BY InvInit, InvNext, PTL DEF Spec

\* Every variable is typed, whatever is enqueued and whoever fails.
THEOREM TrainTyped == Spec => []TypeOK
  BY InvHolds, PTL DEF Inv

\* No path - landing, abort, recovery - deletes the only copy of code that has
\* not landed.
THEOREM WorkKept == Spec => []WorkIsKept
  BY InvHolds, PTL DEF Inv

\* While publication is held the loop lands nothing.
THEOREM HoldStops == Spec => HoldStopsTheTrain
  <1>1. ASSUME Inv, Next, hold, landed' # landed
        PROVE  \E t \in Ids : ResolvesMerged(t)
    <2>1. me = 0
      BY <1>1 DEF Inv, Sound
    <2>2. ~ApplyLands /\ ~MergeLands /\ ~SecretFound
      BY <1>1, <2>1, NotAtRest
         DEF ApplyLands, MergeLands, SecretFound, ToApply, Here
    <2>3. ~Integrates
      BY <1>1, <2>2
         DEF Integrates, Picks, Resolves, GateStarts, GatePasses, disposeRedGate,
             FilesBlocker, Conflicts, RedriveAnswered, SplitBegins, ApplySkips,
             Marks, LandingParks, Closes, emitMergeDone, git
    <2>4. ~Recovers
      BY <1>1 DEF Recovers, RecoverBegins, Scans, PruneBegins, Prunes, Recovered, git
    <2>5. /\ ~(\E j \in Jobs : Submit(j)) /\ ~(\E o \in owed : ComesBack(o))
          /\ ~Enqueues /\ ~SweepsStuck /\ ~Pumps /\ ~Flush /\ ~Crash /\ ~LoopThrows
      BY <1>1 DEF Submit, ComesBack, Enqueues, Supersede, Insert, SweepsStuck,
                  Pumps, Flush, Crash, LoopThrows, git
    <2>6. Operates
      BY <1>1, <2>3, <2>4, <2>5 DEF Next
    <2> QED BY <1>1, <2>6
            DEF Operates, Aborts, RetriesParked, Requeue, ReconcilesCard,
                Releases, git
  <1>2. Inv /\ [Next]_vars =>
          [hold /\ hold' => landed' = landed \/ \E t \in Ids : ResolvesMerged(t)]_vars
    BY <1>1
  <1> QED BY <1>2, InvHolds, PTL DEF Spec, HoldStopsTheTrain

-----------------------------------------------------------------------------
(* The train implements Integration: what it holds in git and has announced *)
(* is, for a client, a run's work landing, code before data.                *)

Need == [r \in Ids |-> IF entry[r].run = r THEN entry[r].work ELSE {}]
OnTarget == [r \in Ids |-> {h \in Halves : <<r, h>> \in landed}]

KeepsWork == \A t \in Ids : entry'[t].run = Run(t) /\ entry'[t].work = Work(t)
Quiet == /\ KeepsWork /\ landed' = landed /\ closed' = closed
         /\ vouched' = vouched

LEMMA NeedKept ==
  ASSUME KeepsWork
  PROVE  Need' = Need
  BY DEF KeepsWork, Need, Run, Work

LEMMA QuietStutters ==
  ASSUME Quiet
  PROVE  UNCHANGED <<Need, OnTarget, vouched, closed>>
  BY NeedKept DEF Quiet, OnTarget

\* A run's first entry is made.
LEMMA TakesRun ==
  ASSUME Inv, born + 1 \in Ids, NEW w \in SUBSET Halves,
         entry'[born + 1].run = born + 1, entry'[born + 1].work = w,
         \A t \in Ids : t # born + 1 => /\ entry'[t].run = Run(t)
                                        /\ entry'[t].work = Work(t),
         landed' = landed, closed' = closed, vouched' = vouched
  PROVE  \E r \in Ids, hs \in SUBSET Halves : Promise!Take(r, hs)
  <1>a. PICK r \in Ids : r = born + 1
    OBVIOUS
  <1>1. born \in Nat /\ born + 1 \notin Born
    BY BornIsId DEF Inv, Born
  <1>2. entry[r].run = 0 /\ r # 0 /\ r \notin closed
    BY <1>a, <1>1 DEF Inv, Made, Run
  <1>3. Need[r] = {}
    BY <1>2 DEF Need
  <1>4. Need' = [Need EXCEPT ![r] = w]
    BY <1>a DEF Need, Run, Work
  <1>5. OnTarget' = OnTarget
    BY DEF OnTarget
  <1>6. Promise!Take(r, w)
    BY <1>2, <1>3, <1>4, <1>5 DEF Promise!Take, Need, OnTarget
  <1> QED BY <1>6

\* The loop lands halves of its entry, the code among them or before them.
LEMMA LandsHalves ==
  ASSUME Inv, me # 0, KeepsWork, NEW hs, hs \subseteq Work(me),
         landed' = landed \cup {<<Run(me), h>> : h \in hs},
         closed' = closed, vouched' = vouched,
         "code" \in Work(me) => "code" \in hs \/ <<Run(me), "code">> \in landed
  PROVE  \E r \in Ids, w \in SUBSET Halves : Promise!Land(r, w)
  <1>1. /\ Run(me) \in Ids /\ Work(me) \subseteq Halves
        /\ Run(Run(me)) = Run(me) /\ Work(Run(me)) = Work(me)
    <2>1. me \in Born
      BY DEF Inv, Made
    <2> QED BY <2>1, BornIs, AtEntry DEF Entry, Work
  <1>a. PICK r \in Ids : r = Run(me)
    BY <1>1
  <1>2. Need' = Need /\ Need[r] = Work(me)
    BY <1>1, <1>a, NeedKept DEF Need, Run, Work
  <1>3. OnTarget' = [OnTarget EXCEPT ![r] = @ \cup hs]
    BY <1>1, <1>a DEF OnTarget
  <1>4. "code" \in Work(me) => "code" \in OnTarget'[r]
    BY <1>1, <1>a DEF OnTarget, Halves
  <1>5. /\ hs \subseteq Need[r]
        /\ "data" \in OnTarget'[r] /\ "code" \in Need[r] => "code" \in OnTarget'[r]
    BY <1>2, <1>4
  <1>6. Promise!Land(r, hs)
    BY <1>2, <1>3, <1>5 DEF Promise!Land, Need, OnTarget
  <1> QED BY <1>1, <1>6

\* Runs are announced as merged whose work has landed.
LEMMA ClosesRuns ==
  ASSUME Inv, KeepsWork, NEW S \in SUBSET Ids, closed' = closed \cup S,
         landed' = landed, vouched' = vouched,
         \A r \in S : Landed(r, Work(r))
  PROVE  Promise!Close(S)
  <1>1. Need' = Need /\ OnTarget' = OnTarget
    BY NeedKept DEF OnTarget
  <1>2. \A r \in S : Need[r] \subseteq OnTarget[r]
    BY DEF Need, OnTarget, Landed, Work, Inv, TypeOK, Entry
  <1> QED BY <1>1, <1>2 DEF Promise!Close, Need, OnTarget

LEMMA VouchesFor ==
  ASSUME KeepsWork, NEW r \in Ids, NEW hs \in SUBSET Halves, Lands(r, hs),
         closed' = closed \cup {r}, vouched' = vouched \cup {r}
  PROVE  Promise!Vouch(r, hs)
  <1>1. Need' = Need
    BY NeedKept
  <1>2. OnTarget' = [OnTarget EXCEPT ![r] = @ \cup hs]
    BY DEF OnTarget, Lands
  <1> QED BY <1>1, <1>2 DEF Promise!Vouch, Need, OnTarget

\* The loop applies a half that is code, or whose code is there.
LEMMA CodeFirst ==
  ASSUME Inv, me # 0, loop.pc = "apply"
  PROVE  "code" \in Work(me) => "code" \in {loop.half}
                                  \/ <<Run(me), "code">> \in landed
  <1>1. loop.half = "data" => Landed(Run(me), Work(me) \cap {"code"})
    BY DEF Inv, Sound
  <1>2. loop.half \in Halves
    BY AtEntry DEF Loop
  <1> QED BY <1>1, <1>2 DEF Landed, Halves

\* Entries that change otherwise than in run and work.
LEMMA WritesKeep ==
  ASSUME TypeOK, NEW t, NEW x,
         \/ entry' = [entry EXCEPT ![t].st = x]
         \/ entry' = [entry EXCEPT ![t].pin = x]
         \/ entry' = [entry EXCEPT ![t].split = x]
         \/ entry' = [entry EXCEPT ![t].marks = @ \cup {x}]
         \/ entry' = [entry EXCEPT ![t].st = x, ![t].tries = @ + 1]
  PROVE  KeepsWork
  <1> USE DEF KeepsWork, TypeOK, Entry, Run, Work
  <1>1. CASE entry' = [entry EXCEPT ![t].st = x]
    BY <1>1
  <1>2. CASE entry' = [entry EXCEPT ![t].pin = x]
    BY <1>2
  <1>3. CASE entry' = [entry EXCEPT ![t].split = x]
    BY <1>3
  <1>4. CASE entry' = [entry EXCEPT ![t].marks = @ \cup {x}]
    BY <1>4
  <1>5. CASE entry' = [entry EXCEPT ![t].st = x, ![t].tries = @ + 1]
    BY <1>5
  <1> QED BY <1>1, <1>2, <1>3, <1>4, <1>5

LEMMA QuietLoop ==
  ASSUME TypeOK,
         \/ Picks \/ Resolves \/ GateStarts \/ GatePasses \/ disposeRedGate
         \/ FilesBlocker \/ RedriveAnswered \/ SplitBegins \/ ApplySkips
         \/ Marks \/ LandingParks \/ Closes
  PROVE  Quiet
  <1>1. landed' = landed /\ closed' = closed /\ vouched' = vouched
    BY DEF Picks, Resolves, GateStarts, GatePasses, disposeRedGate, FilesBlocker,
           RedriveAnswered, SplitBegins, ApplySkips, Marks, LandingParks, Closes, git
  <1>2. ASSUME NEW t, NEW s, NEW l, Leaves(t, s, l) PROVE KeepsWork
    BY <1>2 DEF Leaves, KeepsWork, TypeOK, Entry, Run, Work
  <1>3. ASSUME entry' = entry PROVE KeepsWork
    BY <1>3 DEF KeepsWork, Run, Work
  <1>4. CASE Picks \/ GateStarts \/ GatePasses \/ FilesBlocker \/ RedriveAnswered
             \/ LandingParks \/ Closes
    <2>1. entry' = entry \/ \E t, s, l : Leaves(t, s, l)
      BY <1>4 DEF Picks, GateStarts, GatePasses, FilesBlocker, RedriveAnswered,
                  LandingParks, Closes, parkOrReturn, Goes, queue
    <2> QED BY <1>1, <1>2, <1>3, <2>1 DEF Quiet
  <1>5. CASE Resolves \/ disposeRedGate \/ SplitBegins \/ ApplySkips \/ Marks
    <2>1. \/ entry' = entry \/ \E t, s, l : Leaves(t, s, l)
          \/ entry' = [entry EXCEPT ![me].pin = TRUE]
          \/ entry' = [entry EXCEPT ![me].split = TRUE]
          \/ entry' = [entry EXCEPT ![me].marks = @ \cup {loop.half}]
          \/ entry' = [entry EXCEPT ![me].st = "waiting", ![me].tries = @ + 1]
          \/ entry' = [entry EXCEPT ![me].st = "gate-failed"]
      BY <1>5 DEF Resolves, disposeRedGate, SplitBegins, ApplySkips, Marks,
                  parkOrReturn, Goes
    <2> QED BY <1>1, <1>2, <1>3, <2>1, WritesKeep DEF Quiet
  <1> QED BY <1>4, <1>5


LEMMA IntegratesPromised ==
  ASSUME Inv, Integrates
  PROVE  \/ Quiet
         \/ \E r \in Ids, hs \in SUBSET Halves :
              Promise!Take(r, hs) \/ Promise!Land(r, hs)
         \/ \E S \in SUBSET Ids : Promise!Close(S)
  <1>a. TypeOK
    BY DEF Inv
  <1>b. ASSUME NEW t, NEW s, NEW l, Leaves(t, s, l) PROVE KeepsWork
    BY <1>a, <1>b DEF Leaves, KeepsWork, TypeOK, Entry, Run, Work
  <1>c. ASSUME entry' = entry PROVE KeepsWork
    BY <1>c DEF KeepsWork, Run, Work
  <1>d. me # 0 => /\ Run(me) \in Ids /\ Work(me) \in SUBSET Halves
                  /\ loop.half \in Halves
    BY AtEntry DEF Entry, Work, Loop
  <1>1. CASE \/ Picks \/ Resolves \/ GateStarts \/ GatePasses \/ disposeRedGate
             \/ FilesBlocker \/ RedriveAnswered \/ SplitBegins \/ ApplySkips
             \/ Marks \/ LandingParks \/ Closes
    BY <1>a, <1>1, QuietLoop
  <1>2. CASE Conflicts
    <2>a. /\ me # 0 /\ me \in Born
          /\ landed' = landed /\ closed' = closed /\ vouched' = vouched
      BY <1>2, NotAtRest DEF Conflicts, ToApply, Here, Inv, Made
    <2>1. CASE \E park : maybeRedrive(me, park)
      <3>1. \E s, l : Leaves(me, s, l)
        BY <2>1 DEF maybeRedrive
      <3> QED BY <1>b, <2>a, <3>1 DEF Quiet
    <2>2. CASE /\ born < MaxEntries
               /\ entry' = [entry EXCEPT
                    ![me].st = "re-driving", ![me].judged = TRUE,
                    ![born + 1] = [entry[me] EXCEPT
                                     !.run = born + 1, !.st = "waiting",
                                     !.pin = FALSE, !.split = FALSE, !.marks = {},
                                     !.tries = 0, !.judged = TRUE]]
      <3>1. /\ born + 1 \in Ids /\ born + 1 # me /\ me \in Ids
            /\ entry[me] \in Entry /\ entry \in [Ids -> Entry]
        <4>1. born + 1 \in Ids /\ born + 1 # me
          BY <2>a, <2>2, BornIsId, TrainAssumption DEF Inv, Ids, Born
        <4> QED BY <2>a, <4>1, AtEntry DEF Inv, TypeOK
      <3>2. entry'[born + 1].run = born + 1 /\ entry'[born + 1].work = Work(me)
        BY <2>2, <3>1 DEF Entry, Work
      <3>3. ASSUME NEW t \in Ids, t # born + 1
            PROVE  entry'[t].run = Run(t) /\ entry'[t].work = Work(t)
        <4>1. CASE t = me
          BY <2>2, <3>1, <3>3, <4>1 DEF Entry, Run, Work
        <4>2. CASE t # me
          BY <2>2, <3>1, <3>3, <4>2 DEF Run, Work
        <4> QED BY <4>1, <4>2
      <3>4. PICK w \in SUBSET Halves : w = Work(me)
        BY <1>d, <2>a
      <3>5. entry'[born + 1].run = born + 1 /\ entry'[born + 1].work = w
        BY <3>2, <3>4
      <3> QED BY <2>a, <3>1, <3>3, <3>5, TakesRun
    <2> QED BY <1>2, <2>1, <2>2 DEF Conflicts
  <1>3. CASE ApplyLands
    <2>1. /\ me # 0 /\ loop.pc = "apply" /\ loop.half \in Work(me)
          /\ entry' = entry
          /\ landed' = landed \cup {<<Run(me), h>> : h \in {loop.half}}
          /\ closed' = closed /\ vouched' = vouched
      BY <1>3, NotAtRest DEF ApplyLands, ToApply, Here, queue, Run, Work, Lands
    <2> QED BY <1>c, <2>1, CodeFirst, LandsHalves
  <1>4. CASE MergeLands
    <2>1. /\ me # 0 /\ entry' = entry
          /\ landed' = landed \cup {<<Run(me), h>> : h \in Work(me)}
          /\ closed' = closed /\ vouched' = vouched
      BY <1>4, NotAtRest DEF MergeLands, Here, queue, Run, Work, Lands
    <2> QED BY <1>c, <2>1, LandsHalves
  <1>5. CASE SecretFound
    <2>1. /\ me # 0 /\ KeepsWork /\ closed' = closed /\ vouched' = vouched
          /\ loop.pc \in {"apply", "merge"}
          /\ loop.pc = "apply" => loop.half \in Work(me)
      BY <1>5, <1>b, NotAtRest DEF SecretFound, ToApply, Here, Work
    <2>2. CASE landed' = landed
      BY <2>1, <2>2 DEF Quiet
    <2>3. CASE /\ loop.pc = "apply" /\ staging
               /\ landed' = landed \cup {<<Run(me), h>> : h \in {loop.half}}
      BY <2>1, <2>3, CodeFirst, LandsHalves
    <2>4. CASE landed' = landed \cup {<<Run(me), h>> : h \in Work(me)}
      BY <2>1, <2>4, LandsHalves
    <2>5. \/ landed' = landed
          \/ staging /\ landed' = landed \cup {<<Run(me), h>> : h \in {loop.half}}
          \/ ~staging /\ landed' = landed \cup {<<Run(me), h>> : h \in Work(me)}
      BY <1>5 DEF SecretFound, Run, Work, Lands
    <2>6. loop.pc = "merge" => ~staging
      BY <2>1 DEF Inv, Sound
    <2> QED BY <2>1, <2>2, <2>3, <2>4, <2>5, <2>6
  <1>6. CASE emitMergeDone
    <2>1. /\ me # 0 /\ entry' = entry /\ closed' = closed \cup {Run(me)}
          /\ landed' = landed /\ vouched' = vouched
          /\ Landed(Run(me), Work(me))
      BY <1>6, NotAtRest DEF emitMergeDone, Here, Goes, git, Run, Inv, Sound
    <2>2. me \in Born
      BY <2>1 DEF Inv, Made
    <2>3. PICK S \in SUBSET Ids : S = {Run(me)}
      BY <1>d, <2>1
    <2>4. \A r \in S : Landed(r, Work(r))
      BY <2>1, <2>2, <2>3, BornIs DEF Landed
    <2> QED BY <1>c, <2>1, <2>3, <2>4, ClosesRuns
  <1> QED BY <1>1, <1>2, <1>3, <1>4, <1>5, <1>6 DEF Integrates

LEMMA OthersPromised ==
  ASSUME Inv, Next, ~Integrates
  PROVE  \/ Quiet
         \/ \E r \in Ids, hs \in SUBSET Halves :
              Promise!Take(r, hs) \/ Promise!Vouch(r, hs)
         \/ \E S \in SUBSET Ids : Promise!Close(S)
  <1>a. TypeOK
    BY DEF Inv
  <1>c. ASSUME entry' = entry PROVE KeepsWork
    BY <1>c DEF KeepsWork, Run, Work
  <1>1. CASE (\E j \in Jobs : Submit(j)) \/ (\E o \in owed : ComesBack(o))
    <2>1. \E card \in {j.card : j \in Jobs}, kind \in {"run", "session"},
             work \in SUBSET Halves, drive \in 0..MaxRedrives :
            OpenDoor(born + 1, card, kind, work, drive)
      BY <1>1, DoorKnocks
    <2>2. PICK w \in SUBSET Halves : Opened(born + 1, w)
      BY <2>1, DoorOpens
    <2>3. born + 1 \in Ids
      BY <2>2, BornIsId, TrainAssumption DEF Opened, Inv, Ids
    <2>4. landed' = landed /\ closed' = closed /\ vouched' = vouched
      BY <1>1 DEF Submit, ComesBack
    <2> QED BY <2>2, <2>3, <2>4, TakesRun DEF Opened
  <1>2. CASE \E t \in Ids : Requeue(t)
    <2>1. PICK t \in listed :
            OpenDoor(Run(t), entry[t].card, "run", Work(t), entry[t].drive)
      BY <1>2 DEF Requeue, Run, Work
    <2>2. /\ Run(t) \in Born /\ Work(t) \in SUBSET Halves
          /\ entry[t].card \in {j.card : j \in Jobs} \cup {NoCard}
          /\ entry[t].drive \in 0..MaxRedrives
      BY <2>1, ListedIs DEF Entry, Work
    <2>3. Opened(Run(t), Work(t))
      BY <2>1, <2>2, DoorOpens
    <2>4. landed' = landed /\ closed' = closed /\ vouched' = vouched
      BY <1>2 DEF Requeue, git
    <2>5. /\ born + 1 \in Ids /\ Run(t) # born + 1 /\ Run(born + 1) = 0
          /\ born + 1 # 0
      BY <2>2, <2>3, BornIsId, TrainAssumption DEF Opened, Inv, Made, Ids, Born
    <2>6. Need' = Need /\ OnTarget' = OnTarget
      BY <2>3, <2>4, <2>5 DEF Opened, Need, OnTarget, Run, Work
    <2>7. Promise!Close({})
      BY <2>4, <2>6 DEF Promise!Close, Need, OnTarget
    <2> QED BY <2>7
  <1>3. CASE \E t \in Ids : ResolvesMerged(t)
    <2>1. PICK t \in Ids : ResolvesMerged(t)
      BY <1>3
    <2>2. t \in listed /\ Run(t) \in Ids /\ Work(t) \in SUBSET Halves
      BY <2>1, ListedIs DEF ResolvesMerged, ByHand, Entry, Work
    <2>3. PICK hs \in SUBSET Halves : Lands(Run(t), hs)
      BY <2>1, <2>2 DEF ResolvesMerged, Run, Work
    <2>4. KeepsWork
      BY <1>a, <2>1 DEF ResolvesMerged, KeepsWork, TypeOK, Entry, Run, Work
    <2>5. closed' = closed \cup {Run(t)} /\ vouched' = vouched \cup {Run(t)}
      BY <2>1 DEF ResolvesMerged, Run
    <2> QED BY <2>2, <2>3, <2>4, <2>5, VouchesFor
  <1>4. CASE Recovered
    <2>1. /\ entry' = entry /\ closed' = closed \cup boot.told
          /\ landed' = landed /\ vouched' = vouched /\ boot.told \in SUBSET Ids
      BY <1>a, <1>4 DEF Recovered, git, TypeOK
    <2> QED BY <1>c, <2>1, ClosesRuns DEF Inv, ToldHaveLanded
  <1>5. CASE \/ Enqueues \/ SweepsStuck \/ Pumps \/ Flush \/ LoopThrows \/ Scans
             \/ RecoverBegins \/ PruneBegins \/ Prunes \/ Releases
             \/ \E t \in Ids : Aborts(t) \/ RetriesParked(t)
             \/ \E j \in Jobs : ReconcilesCard(j.card)
    <2>1. landed' = landed /\ closed' = closed /\ vouched' = vouched
      BY <1>5 DEF Enqueues, Supersede, Insert, SweepsStuck, Pumps, Flush,
           LoopThrows, Scans, RecoverBegins, PruneBegins, Prunes, Releases, Aborts,
           RetriesParked, ReconcilesCard, git
    <2>2. \/ entry' = entry
          \/ \E t, s : entry' = [entry EXCEPT ![t].st = s]
          \/ \E t, b : entry' = [entry EXCEPT ![t].st = "waiting", ![t].pin = b]
          \/ \E S : entry' = [t \in Ids |-> IF t \in S
                                            THEN [entry[t] EXCEPT !.st = "failed"]
                                            ELSE entry[t]]
      <3>1. CASE Enqueues
        BY <3>1 DEF Enqueues, Supersede, Insert
      <3>2. CASE Scans
        BY <3>2 DEF Scans, ScansEntry, Scanned
      <3>3. CASE SweepsStuck
        BY <3>3 DEF SweepsStuck
      <3>4. CASE \E j \in Jobs : ReconcilesCard(j.card)
        BY <3>4 DEF ReconcilesCard
      <3> QED BY <1>5, <3>1, <3>2, <3>3, <3>4
              DEF Pumps, Flush, LoopThrows, RecoverBegins, PruneBegins, Prunes,
                  Releases, Aborts, RetriesParked, queue
    <2>3. KeepsWork
      <3>1. CASE \E t, s : entry' = [entry EXCEPT ![t].st = s]
        BY <1>a, <3>1 DEF KeepsWork, TypeOK, Entry, Run, Work
      <3>2. CASE \E t, b : entry' = [entry EXCEPT ![t].st = "waiting", ![t].pin = b]
        BY <1>a, <3>2 DEF KeepsWork, TypeOK, Entry, Run, Work
      <3>3. CASE \E S : entry' = [t \in Ids |-> IF t \in S
                                     THEN [entry[t] EXCEPT !.st = "failed"]
                                     ELSE entry[t]]
        <4>1. \A t \in Ids : /\ [entry[t] EXCEPT !.st = "failed"].run = Run(t)
                             /\ [entry[t] EXCEPT !.st = "failed"].work = Work(t)
          BY <1>a DEF TypeOK, Entry, Run, Work
        <4> QED BY <3>3, <4>1 DEF KeepsWork, Run, Work
      <3> QED BY <1>c, <2>2, <3>1, <3>2, <3>3
    <2> QED BY <2>1, <2>3 DEF Quiet
  <1>6. CASE Crash
    <2>1. landed' = landed /\ closed' = closed /\ vouched' = vouched
      BY <1>6 DEF Crash, git
    <2> QED BY <1>6, <2>1, CrashKeeps DEF Quiet, KeepsWork
  <1> QED BY <1>1, <1>2, <1>3, <1>4, <1>5, <1>6 DEF Next, Operates, Recovers

\* Whatever the train does is a step of Integration, or none.
THEOREM Implements == Spec => KeepsPromise
  <1> DEFINE pvars == <<Need, OnTarget, vouched, closed>>
  <1>1. Init => Promise!Init
    <2> SUFFICES ASSUME Init PROVE Promise!Init
      OBVIOUS
    <2>1. /\ \A r \in Ids : entry[r].work = {}
          /\ landed = {} /\ vouched = {} /\ closed = {}
      BY DEF Init, NoEntry
    <2> QED BY <2>1 DEF Promise!Init
  <1>2. ASSUME Inv, [Next]_vars
        PROVE  [Promise!Next]_pvars
    <2>1. CASE UNCHANGED vars
      <3>1. Quiet
        BY <2>1 DEF vars, queue, git, Quiet, KeepsWork, Run, Work
      <3> QED BY <3>1, QuietStutters
    <2>2. CASE Next
      <3>1. CASE Quiet
        BY <3>1, QuietStutters
      <3>2. CASE \E r \in Ids, hs \in SUBSET Halves :
                   \/ Promise!Take(r, hs) \/ Promise!Land(r, hs)
                   \/ Promise!Vouch(r, hs)
        BY <3>2 DEF Promise!Next, Promise!Halves, Halves
      <3>3. CASE \E S \in SUBSET Ids : Promise!Close(S)
        BY <3>3 DEF Promise!Next
      <3> QED BY <1>2, <2>2, <3>1, <3>2, <3>3, IntegratesPromised, OthersPromised
    <2> QED BY <1>2, <2>1, <2>2
  <1> QED BY <1>1, <1>2, InvHolds, PTL
          DEF Spec, KeepsPromise, Promise!Spec, pvars, Need, OnTarget

-----------------------------------------------------------------------------
(* One at a time.  Whatever is being integrated is what the loop holds,    *)
(* save what a crash or a throw left behind - at most one listed entry,    *)
(* which the loop does not pass by and the scan of a recovery rewrites.    *)
(*                                                                         *)
(* A throw may also leave one behind that is not listed: superseded and    *)
(* requeued while the loop had it.  No operator reaches it any more, but   *)
(* the prune of a recovery puts back the list it began with, so the        *)
(* theorem supposes that no throw falls into a recovery: with one the      *)
(* formula does not hold.                                                  *)

Aloft == {"merging", "gate-running"}
Flying == {t \in Ids : entry[t].st \in Aloft}

\* Stops of the loop that have already said what became of the entry.
Over == {"blocker", "redrive", "emit"}

LoopHasIt ==
  /\ loop.at # 0 => InFlight \subseteq {loop.at}
  /\ loop.pc \in Over => loop.at \notin Flying

\* What a recovery has yet to rewrite is ahead of it.
RecoveryFindsIt ==
  /\ boot.pc = "due" => Flying \subseteq listed \cup {loop.at}
  /\ boot.pc = "scan" => Flying \subseteq (boot.todo \cap listed) \cup {loop.at}
  /\ boot.pc = "prune" => Flying \subseteq {loop.at}

OneOnDisk ==
  \A t, u \in Ids : disk[t].st \in Aloft /\ disk[u].st \in Aloft => t = u

FlightInv == OneAtATime /\ LoopHasIt /\ RecoveryFindsIt /\ OneOnDisk

\* An entry stops being integrated, or it is the one the loop goes on with.
LEMMA FewerFly ==
  ASSUME TypeOK, FlightInv, disk' = disk, loop'.at \in Ids \cup {0},
         \A t \in Ids : entry'[t].st \in Aloft =>
                          entry[t].st \in Aloft \/ t = loop'.at,
         loop'.at = loop.at \/ (loop'.at = 0 /\ loop.at \notin Flying'),
         loop'.pc \in Over => loop'.at \notin Flying',
         listed' \cap Flying' \subseteq listed \cup {loop'.at},
         listed \cap Flying' \subseteq listed',
         boot'.pc = boot.pc, boot.todo \cap Flying' \subseteq boot'.todo,
         listed' \subseteq Ids
  PROVE  FlightInv'
<1>0. 0 \notin Ids /\ listed \subseteq Ids
  BY TrainAssumption DEF Ids, TypeOK
<1>1. /\ InFlight = listed \cap Flying /\ InFlight' = listed' \cap Flying'
      /\ Flying' \subseteq Flying \cup {loop'.at} /\ Flying' \subseteq Ids
  BY <1>0 DEF InFlight, Flying, Aloft
<1>2. CASE loop'.at = loop.at /\ loop.at # 0
  <2>1. InFlight' \subseteq {loop'.at}
    BY <1>1, <1>2 DEF FlightInv, LoopHasIt
  <2> QED BY <1>1, <1>2, <2>1
          DEF FlightInv, OneAtATime, LoopHasIt, RecoveryFindsIt, OneOnDisk
<1>3. CASE loop'.at = 0 /\ loop.at \notin Flying'
  <2>1. Flying' \subseteq Flying \ {loop.at} /\ InFlight' \subseteq InFlight
    BY <1>0, <1>1, <1>3
  <2>2. OneAtATime' /\ LoopHasIt' /\ OneOnDisk'
    BY <1>0, <1>1, <1>3, <2>1 DEF FlightInv, OneAtATime, LoopHasIt, OneOnDisk
  <2>3. RecoveryFindsIt'
    BY <1>1, <1>3, <2>1 DEF FlightInv, RecoveryFindsIt
  <2> QED BY <2>2, <2>3 DEF FlightInv
<1> QED BY <1>0, <1>1, <1>2, <1>3

\* A step of the loop at its entry.
LEMMA FliesOn ==
  ASSUME Inv, FlightInv, me # 0, disk' = disk, boot'.pc = boot.pc,
         boot.todo \subseteq boot'.todo,
         \A t \in Ids \ {me} : entry'[t].st \in Aloft => entry[t].st \in Aloft,
         listed \subseteq listed', listed' \subseteq Ids,
         \A t \in listed' \ listed : entry'[t].st \notin Aloft,
         \/ loop'.at = me /\ loop'.pc \notin Over
         \/ loop'.at \in {0, me} /\ entry'[me].st \notin Aloft
  PROVE  FlightInv'
<1>1. me \in Ids
  BY AtEntry
<1>2. loop'.at = 0 => me \notin Flying'
  BY <1>1, TrainAssumption DEF Flying, Ids
<1>3. loop'.pc \in Over => loop'.at \notin Flying'
  BY <1>1, TrainAssumption DEF Flying, Ids
<1>4. \A t \in Ids : entry'[t].st \in Aloft => entry[t].st \in Aloft \/ t = loop'.at
  BY <1>1
<1>5. listed' \cap Flying' \subseteq listed
  BY DEF Flying
<1> QED BY <1>1, <1>2, <1>3, <1>4, <1>5, FewerFly DEF Inv

\* A step beside the loop, which starts nothing.
LEMMA FliesNone ==
  ASSUME Inv, FlightInv, disk' = disk, loop' = loop \/ Wake,
         \A t \in Ids : entry'[t].st \in Aloft => entry[t].st \in Aloft,
         listed' \subseteq Ids,
         \A t \in listed' \ listed : entry'[t].st \notin Aloft,
         \A t \in listed \ listed' : entry'[t].st \notin Aloft,
         boot'.pc = boot.pc,
         \A t \in boot.todo \ boot'.todo : entry'[t].st \notin Aloft
  PROVE  FlightInv'
<1>1. loop'.at = loop.at /\ (loop'.pc = loop.pc \/ loop'.pc = "head")
  BY RestIs DEF Wake
<1>2. Flying' \subseteq Flying /\ loop.at \in Ids \cup {0}
  BY DEF Flying, Inv, TypeOK, Loop
<1>3. loop'.pc \in Over => loop'.at \notin Flying'
  BY <1>1, <1>2 DEF FlightInv, LoopHasIt, Over
<1>4. /\ listed' \cap Flying' \subseteq listed /\ listed \cap Flying' \subseteq listed'
      /\ boot.todo \cap Flying' \subseteq boot'.todo
  BY DEF Flying
<1> QED BY <1>1, <1>2, <1>3, <1>4, FewerFly DEF Inv

\* What a leaving writes, and where it goes.
LEMMA LeavesIs ==
  ASSUME Inv, NEW t \in Ids, NEW s, NEW l, Leaves(t, s, l)
  PROVE  /\ loop' = l /\ entry'[t].st = s
         /\ \A u \in Ids \ {t} : entry'[u] = entry[u]
  BY DEF Leaves, Inv, TypeOK, Entry

LEMMA GatesFly ==
  Inv /\ FlightInv /\ (GateStarts \/ GatePasses \/ disposeRedGate) => FlightInv'
<1> SUFFICES ASSUME Inv, FlightInv, GateStarts \/ GatePasses \/ disposeRedGate
             PROVE  FlightInv'
  OBVIOUS
<1>1. me # 0 /\ UNCHANGED <<disk, boot, listed>> /\ listed \subseteq Ids /\ me \in Ids
  BY NotAtRest, AtEntry DEF GateStarts, GatePasses, disposeRedGate, Here, Inv, TypeOK
<1>2. CASE GateStarts
  <2>1. Leaves(me, "gate-running", [loop EXCEPT !.pc = "verdict"])
    BY <1>2 DEF GateStarts
  <2>2. loop'.at = me /\ loop'.pc \notin Over
    BY <1>1, <2>1, AtEntry DEF Leaves, Loop, Over
  <2> QED BY <1>1, <2>1, <2>2, LeavesIs, FliesOn
<1>3. CASE GatePasses
  <2>1. Leaves(me, "merging", PastGate)
    BY <1>3 DEF GatePasses
  <2>2. loop'.at = me /\ loop'.pc \notin Over
    BY <1>1, <2>1, Onwards DEF Leaves, Over
  <2> QED BY <1>1, <2>1, <2>2, LeavesIs, FliesOn
<1>4. CASE disposeRedGate
  <2>1. CASE /\ entry' = [entry EXCEPT ![me].st = "waiting", ![me].tries = @ + 1]
             /\ loop' = Head
    <3>1. /\ entry'[me].st = "waiting"
          /\ \A u \in Ids \ {me} : entry'[u] = entry[u]
      BY <1>1, <2>1 DEF Inv, TypeOK, Entry
    <3> QED BY <1>1, <2>1, <3>1, RestIs, FliesOn DEF Aloft
  <2>2. CASE Leaves(me, "returned-to-session", Head)
    BY <1>1, <2>2, LeavesIs, RestIs, FliesOn DEF Aloft
  <2>3. CASE /\ entry' = [entry EXCEPT ![me].st = "gate-failed"]
             /\ loop' = At("blocker", me, "code", "head")
    <3>1. /\ entry'[me].st = "gate-failed"
          /\ \A u \in Ids \ {me} : entry'[u] = entry[u]
      BY <1>1, <2>3 DEF Inv, TypeOK, Entry
    <3> QED BY <1>1, <2>3, <3>1, FliesOn DEF Aloft, At
  <2> QED BY <1>4, <2>1, <2>2, <2>3 DEF disposeRedGate
<1> QED BY <1>2, <1>3, <1>4

\* Handing an entry back, parking it and driving it again all put it down.
LEMMA PutsDown ==
  ASSUME Inv, me # 0, NEW park \in {"head", "off"},
         parkOrReturn(me, Off) \/ maybeRedrive(me, park)
  PROVE  /\ loop'.at \in {0, me} /\ entry'[me].st \notin Aloft
         /\ \A u \in Ids \ {me} : entry'[u] = entry[u]
<1>1. me \in Ids
  BY AtEntry
<1>2. PICK s \in {"returned-to-session", "conflict", "re-driving"},
           l \in {Off, Head, At("redrive", me, "code", park),
                  At(park, 0, "code", "head")} :
        Leaves(me, s, l)
  BY DEF parkOrReturn, maybeRedrive
<1>3. l.at \in {0, me}
  BY <1>2, RestIs DEF At
<1> QED BY <1>1, <1>2, <1>3, LeavesIs DEF Aloft

LEMMA ConflictsFly == Inv /\ FlightInv /\ Conflicts => FlightInv'
<1> SUFFICES ASSUME Inv, FlightInv, Conflicts PROVE FlightInv'
  OBVIOUS
<1>1. me # 0 /\ UNCHANGED disk /\ listed \subseteq Ids /\ me \in Ids
  BY NotAtRest, AtEntry DEF Conflicts, Here, ToApply, Inv, TypeOK
<1>2. CASE \E park \in {"head", "off"} :
             maybeRedrive(me, park) /\ UNCHANGED <<listed, boot>>
  BY <1>1, <1>2, PutsDown, FliesOn
<1>3. CASE /\ born < MaxEntries
           /\ entry' = [entry EXCEPT
                ![me].st = "re-driving", ![me].judged = TRUE,
                ![born + 1] = [entry[me] EXCEPT !.run = born + 1, !.st = "waiting",
                                 !.pin = FALSE, !.split = FALSE, !.marks = {},
                                 !.tries = 0, !.judged = TRUE]]
           /\ listed' = listed \cup {born + 1}
           /\ boot' = IF boot.shared THEN [boot EXCEPT !.todo = @ \cup {born + 1}]
                                     ELSE boot
           /\ loop' = Head
  <2>1. /\ born + 1 \in Ids /\ born + 1 # me
        /\ entry \in [Ids -> Entry] /\ boot \in Boot
    <3>1. me \in 1..born
      BY <1>1 DEF Inv, Made, Born
    <3> QED BY <1>3, <3>1, TrainAssumption DEF Inv, TypeOK, Ids, Boot
  <2>2. entry'[me].st = "re-driving"
    BY <1>1, <1>3, <2>1 DEF Entry
  <2>3. entry'[born + 1].st = "waiting"
    BY <1>1, <1>3, <2>1 DEF Entry
  <2>4. \A u \in Ids \ {me, born + 1} : entry'[u] = entry[u]
    BY <1>3, <2>1
  <2>5. boot'.pc = boot.pc /\ boot.todo \subseteq boot'.todo
    BY <1>3, <2>1 DEF Boot
  <2>6. \A t \in Ids \ {me} : entry'[t].st \in Aloft => entry[t].st \in Aloft
    BY <2>3, <2>4 DEF Aloft
  <2>7. /\ listed \subseteq listed' /\ listed' \subseteq Ids
        /\ \A t \in listed' \ listed : entry'[t].st \notin Aloft
        /\ loop'.at = 0 /\ entry'[me].st \notin Aloft
    BY <1>1, <1>3, <2>1, <2>2, <2>3, RestIs DEF Aloft
  <2> QED BY <1>1, <2>5, <2>6, <2>7, FliesOn
<1>4. \/ \E park \in {"head", "off"} :
           maybeRedrive(me, park) /\ UNCHANGED <<listed, boot>>
      \/ /\ born < MaxEntries
         /\ entry' = [entry EXCEPT
              ![me].st = "re-driving", ![me].judged = TRUE,
              ![born + 1] = [entry[me] EXCEPT !.run = born + 1, !.st = "waiting",
                               !.pin = FALSE, !.split = FALSE, !.marks = {},
                               !.tries = 0, !.judged = TRUE]]
         /\ listed' = listed \cup {born + 1}
         /\ boot' = IF boot.shared THEN [boot EXCEPT !.todo = @ \cup {born + 1}]
                                   ELSE boot
         /\ loop' = Head
  BY DEF Conflicts
<1> QED BY <1>2, <1>3, <1>4

\* Over is over: the entry was put down before the loop came here.
LEMMA OversFly ==
  Inv /\ FlightInv /\ (FilesBlocker \/ RedriveAnswered \/ emitMergeDone)
    => FlightInv'
<1> SUFFICES ASSUME Inv, FlightInv, FilesBlocker \/ RedriveAnswered \/ emitMergeDone
             PROVE  FlightInv'
  OBVIOUS
<1>1. /\ loop.pc \in Over /\ me # 0 /\ me \in Ids
      /\ UNCHANGED <<disk, boot, listed>> /\ listed \subseteq Ids
  BY NotAtRest, AtEntry DEF FilesBlocker, RedriveAnswered, emitMergeDone, Here,
     Over, Inv, TypeOK, queue
<1>2. entry[me].st \notin Aloft
  BY <1>1 DEF FlightInv, LoopHasIt, Flying
<1>3. CASE entry' = entry /\ loop' = Head
  BY <1>1, <1>2, <1>3, RestIs, FliesOn
<1>4. CASE Leaves(me, "conflict", At(loop.park, 0, "code", "head"))
  BY <1>1, <1>4, LeavesIs, FliesOn DEF Aloft, At
<1>5. \/ entry' = entry /\ loop' = Head
      \/ Leaves(me, "conflict", At(loop.park, 0, "code", "head"))
  BY DEF FilesBlocker, RedriveAnswered, emitMergeDone, Goes, queue
<1> QED BY <1>3, <1>4, <1>5

\* The gates and the landing: the entry goes on with the loop or is put down.
LEMMA LandingsFly ==
  /\ Inv /\ FlightInv
  /\ \/ Resolves \/ SplitBegins \/ ApplySkips \/ ApplyLands \/ Marks \/ MergeLands
     \/ LandingParks \/ SecretFound \/ Closes
  => FlightInv'
<1> SUFFICES ASSUME Inv, FlightInv,
                    \/ Resolves \/ SplitBegins \/ ApplySkips \/ ApplyLands
                    \/ Marks \/ MergeLands \/ LandingParks \/ SecretFound
                    \/ Closes
             PROVE  FlightInv'
  OBVIOUS
<1>1. /\ me # 0 /\ me \in Ids
      /\ UNCHANGED <<disk, boot, listed>> /\ listed \subseteq Ids
      /\ loop \in Loop /\ entry \in [Ids -> Entry]
  BY NotAtRest, AtEntry DEF Resolves, SplitBegins, ApplySkips, ApplyLands, Marks,
     MergeLands, LandingParks, SecretFound, Closes, ToApply, Here, Inv, TypeOK, queue
<1>2. CASE \E s \in {"failed", "done"} : \E l : Leaves(me, s, l) /\ l.at \in {0, me}
  <2>1. PICK s \in {"failed", "done"} : \E l : Leaves(me, s, l) /\ l.at \in {0, me}
    BY <1>2
  <2>2. PICK l : Leaves(me, s, l) /\ l.at \in {0, me}
    BY <2>1
  <2>3. /\ loop'.at \in {0, me} /\ entry'[me].st \notin Aloft
        /\ \A u \in Ids \ {me} : entry'[u] = entry[u]
    BY <1>1, <2>1, <2>2, LeavesIs DEF Aloft
  <2> QED BY <1>1, <2>3, FliesOn
<1>3. CASE /\ loop'.at = me /\ loop'.pc \notin Over
           /\ \A u \in Ids \ {me} : entry'[u] = entry[u]
  BY <1>1, <1>3, FliesOn
<1>4. CASE parkOrReturn(me, Off)
  BY <1>1, <1>4, PutsDown, FliesOn
<1>5. PastHalf.at = me /\ PastHalf.pc \notin Over
  BY <1>1, PastHalfIs DEF Over
<1>6. CASE Resolves
  <2>1. ToGate(entry[me], "code").at = me /\ ToGate(entry[me], "code").pc \notin Over
    BY <1>1, Onward DEF Over, Halves
  <2>2. CASE Leaves(me, "failed", Head)
    BY <1>2, <2>2, RestIs
  <2>3. CASE /\ entry' = [entry EXCEPT ![me].pin = TRUE]
             /\ loop' = ToGate(entry[me], "code")
    BY <1>1, <1>3, <2>1, <2>3
  <2>4. CASE Goes(At("close", me, "code", "head"))
    BY <1>3, <2>4 DEF Goes, At, Over
  <2> QED BY <1>4, <1>6, <2>2, <2>3, <2>4 DEF Resolves
<1>7. CASE SplitBegins
  <2>1. CASE Leaves(me, "failed", Off)
    BY <1>2, <2>1, RestIs
  <2>2. CASE /\ entry' = [entry EXCEPT ![me].split = TRUE]
             /\ loop' = At("apply", me, "code", "head")
    BY <1>1, <1>3, <2>2 DEF At, Over
  <2> QED BY <1>7, <2>1, <2>2 DEF SplitBegins
<1>8. CASE ApplySkips
  BY <1>1, <1>3, <1>5, <1>8 DEF ApplySkips, Goes
<1>9. CASE ApplyLands
  BY <1>1, <1>3, <1>9 DEF ApplyLands, queue, Loop, Over
<1>10. CASE Marks
  BY <1>1, <1>3, <1>5, <1>10 DEF Marks
<1>11. CASE MergeLands
  BY <1>3, <1>11 DEF MergeLands, queue, At, Over
<1>12. CASE LandingParks
  BY <1>4, <1>12 DEF LandingParks
<1>13. CASE SecretFound
  BY <1>2, <1>13, RestIs DEF SecretFound
<1>14. CASE Closes
  <2>1. Leaves(me, "done", [loop EXCEPT !.pc = "emit"])
    BY <1>14 DEF Closes
  <2>2. [loop EXCEPT !.pc = "emit"].at = me
    BY <1>1 DEF Loop
  <2> QED BY <1>2, <2>1, <2>2
<1> QED BY <1>6, <1>7, <1>8, <1>9, <1>10, <1>11, <1>12, <1>13, <1>14

\* Only here one starts, and it starts alone.
LEMMA PicksFly == Inv /\ FlightInv /\ Picks => FlightInv'
<1> SUFFICES ASSUME Inv, FlightInv, Picks PROVE FlightInv'
  OBVIOUS
<1>1. /\ me = 0 /\ loop.pc = "head" /\ 0 \notin Ids
      /\ UNCHANGED <<disk, boot, listed>> /\ listed \subseteq Ids
  BY TrainAssumption DEF Picks, Here, Inv, Sound, TypeOK, Ids
<1>2. CASE Goes(Off)
  <2>1. entry' = entry /\ loop'.at = 0 /\ loop'.pc = "off"
    BY <1>2, RestIs DEF Goes
  <2> QED BY <1>1, <2>1, FewerFly DEF Inv, Flying, Over
<1>3. CASE \E t \in Waiting :
             /\ InFlight = {}
             /\ Leaves(t, "merging", At("ref", t, "code", "head"))
  <2>1. PICK t \in Waiting :
          /\ InFlight = {}
          /\ Leaves(t, "merging", At("ref", t, "code", "head"))
    BY <1>3
  <2>2. t \in listed /\ t \in Ids
    BY <1>1 DEF Waiting
  <2>3. /\ loop'.at = t /\ loop'.pc = "ref"
        /\ \A u \in Ids \ {t} : entry'[u] = entry[u]
    BY <2>1, <2>2, LeavesIs DEF At
  <2>4. Flying' \subseteq Flying \cup {t} /\ InFlight' \subseteq {t}
    BY <1>1, <2>1, <2>2, <2>3 DEF Flying, InFlight, Aloft
  <2>5. boot.pc # "off" => Flying \subseteq InFlight
    <3>1. Flying \cap listed \subseteq InFlight /\ 0 \notin Flying
      BY <1>1 DEF Flying, InFlight, Aloft
    <3> QED BY <1>1, <3>1 DEF FlightInv, RecoveryFindsIt, Inv, TypeOK
  <2>6. RecoveryFindsIt'
    BY <1>1, <2>1, <2>3, <2>4, <2>5 DEF RecoveryFindsIt
  <2> QED BY <1>1, <2>3, <2>4, <2>6 DEF FlightInv, OneAtATime, LoopHasIt,
          OneOnDisk, Over
<1> QED BY <1>2, <1>3 DEF Picks, Takes, Lowest

LEMMA RestatedFlies ==
  ASSUME Inv, FlightInv, NEW S \in SUBSET Ids,
         NEW s \in {"failed", "done", "waiting"},
         entry' = [t \in Ids |-> IF t \in S THEN [entry[t] EXCEPT !.st = s]
                                            ELSE entry[t]],
         UNCHANGED <<listed, disk, boot>>, Wake
  PROVE  FlightInv'
<1>1. \A t \in Ids : entry'[t].st \in Aloft => entry[t].st \in Aloft
  BY DEF Aloft, Inv, TypeOK, Entry
<1> QED BY <1>1, FliesNone DEF Inv, TypeOK

LEMMA OperatesFly == Inv /\ FlightInv /\ Operates => FlightInv'
<1> SUFFICES ASSUME Inv, FlightInv, Operates PROVE FlightInv'
  OBVIOUS
<1>0. entry \in [Ids -> Entry] /\ listed \subseteq Ids /\ boot \in Boot
  BY DEF Inv, TypeOK, Boot
<1>1. ASSUME NEW t \in Ids, ResolvesMerged(t) \/ Aborts(t) \/ RetriesParked(t)
      PROVE  FlightInv'
  <2>1. /\ UNCHANGED <<listed, disk, boot>> /\ Wake
        /\ \A u \in Ids : u # t => entry'[u] = entry[u]
        /\ entry'[t].st \notin Aloft
    BY <1>0, <1>1 DEF ResolvesMerged, Aborts, RetriesParked, Aloft, Entry
  <2>2. \A u \in Ids : entry'[u].st \in Aloft => entry[u].st \in Aloft
    BY <2>1
  <2> QED BY <1>0, <2>1, <2>2, FliesNone
<1>2. ASSUME NEW t \in Ids, Requeue(t) PROVE FlightInv'
  <2>1. /\ t \in listed /\ listed' = listed \ {t} /\ entry[t].st \in {"failed", "done"}
        /\ OpenDoor(Run(t), entry[t].card, "run", Work(t), entry[t].drive)
        /\ boot' = [boot EXCEPT !.shared = FALSE] /\ UNCHANGED <<disk, loop>>
    BY <1>2 DEF Requeue, Run, Work
  <2>2. /\ Run(t) \in Born /\ entry[t].drive \in 0..MaxRedrives
        /\ entry[t].card \in {j.card : j \in Jobs} \cup {NoCard}
        /\ Work(t) \in SUBSET Halves
    BY <2>1, ListedIs DEF Entry, Work
  <2>3. Opened(Run(t), Work(t))
    BY <2>1, <2>2, DoorOpens
  <2>4. \A u \in Ids : entry'[u].st \in Aloft => entry[u].st \in Aloft
    BY <2>3 DEF Opened, Aloft
  <2>5. entry'[t].st \notin Aloft
    BY <2>1, <2>4 DEF Aloft
  <2>6. boot'.pc = boot.pc /\ boot'.todo = boot.todo
    BY <1>0, <2>1 DEF Boot
  <2> QED BY <1>0, <2>1, <2>4, <2>5, <2>6, FliesNone
<1>3. ASSUME NEW c, ReconcilesCard(c) PROVE FlightInv'
  <2> DEFINE old == {t \in listed : /\ c # NoCard /\ entry[t].card = c
                                    /\ entry[t].st \in Parked}
  <2>1. /\ entry' = [t \in Ids |-> IF t \in old THEN [entry[t] EXCEPT !.st = "failed"]
                                                ELSE entry[t]]
        /\ UNCHANGED <<listed, disk, boot>> /\ Wake
    BY <1>3 DEF ReconcilesCard
  <2>2. old \subseteq Ids
    BY <1>0
  <2> HIDE DEF old
  <2> QED BY <2>1, <2>2, RestatedFlies
<1>4. CASE Releases
  BY <1>0, <1>4, FliesNone DEF Releases, queue
<1> QED BY <1>1, <1>2, <1>3, <1>4 DEF Operates

LEMMA OthersFly ==
  /\ Inv /\ FlightInv
  /\ \/ \E j \in Jobs : Submit(j)
     \/ \E o \in owed : ComesBack(o)
     \/ Enqueues \/ SweepsStuck \/ Pumps
  => FlightInv'
<1> SUFFICES ASSUME Inv, FlightInv,
                    \/ \E j \in Jobs : Submit(j)
                    \/ \E o \in owed : ComesBack(o)
                    \/ Enqueues \/ SweepsStuck \/ Pumps
             PROVE  FlightInv'
  OBVIOUS
<1>0. entry \in [Ids -> Entry] /\ listed \subseteq Ids /\ boot \in Boot
  BY DEF Inv, TypeOK, Boot
<1>1. CASE (\E j \in Jobs : Submit(j)) \/ (\E o \in owed : ComesBack(o))
  <2>1. PICK card \in {j.card : j \in Jobs}, kind \in {"run", "session"},
             work \in SUBSET Halves, drive \in 0..MaxRedrives :
          OpenDoor(born + 1, card, kind, work, drive)
    BY <1>1, DoorKnocks
  <2>2. Opened(born + 1, work)
    BY <2>1, DoorOpens
  <2>3. UNCHANGED <<listed, disk, loop, boot>>
    BY <1>1 DEF Submit, ComesBack
  <2>4. \A u \in Ids : entry'[u].st \in Aloft => entry[u].st \in Aloft
    BY <2>2 DEF Opened, Aloft
  <2> QED BY <1>0, <2>3, <2>4, FliesNone
<1>2. CASE Supersede
  <2>1. PICK t \in door.todo : entry' = [entry EXCEPT ![t].st = "failed"]
    BY <1>2 DEF Supersede, Lowest
  <2>2. \A u \in Ids : entry'[u].st \in Aloft => entry[u].st \in Aloft
    BY <1>0, <2>1 DEF Aloft, Entry
  <2> QED BY <1>0, <1>2, <2>2, FliesNone DEF Supersede
<1>3. CASE Insert
  <2> DEFINE t == door.at
  <2>1. /\ t \in Ids /\ listed' = listed \cup {t} /\ Wake /\ UNCHANGED disk
        /\ entry' = [entry EXCEPT ![t].st = "waiting", ![t].pin = entry[t].run \in refs]
        /\ boot' = IF boot.shared THEN [boot EXCEPT !.todo = @ \cup {t}] ELSE boot
    BY <1>3, BornIsId DEF Insert, Inv, Made
  <2>2. /\ \A u \in Ids : u # t => entry'[u] = entry[u]
        /\ entry'[t].st = "waiting"
    BY <1>0, <2>1 DEF Entry
  <2>3. \A u \in Ids : entry'[u].st \in Aloft => entry[u].st \in Aloft
    BY <2>2 DEF Aloft
  <2>4. boot'.pc = boot.pc /\ boot.todo \subseteq boot'.todo
    BY <1>0, <2>1 DEF Boot
  <2> QED BY <1>0, <2>1, <2>2, <2>3, <2>4, FliesNone DEF Aloft
<1>4. CASE SweepsStuck
  BY <1>0, <1>4, RestatedFlies DEF SweepsStuck, InFlight
<1>5. CASE Pumps
  BY <1>0, <1>5, FliesNone DEF Pumps, queue
<1> QED BY <1>1, <1>2, <1>3, <1>4, <1>5 DEF Enqueues

\* The file is a copy of the queue; the queue after a crash one of the file,
\* and the recovery meets in it whatever was in flight.
LEMMA CrashesFly == Inv /\ FlightInv /\ (Flush \/ Crash) => FlightInv'
<1> SUFFICES ASSUME Inv, FlightInv, Flush \/ Crash PROVE FlightInv'
  OBVIOUS
<1>0. /\ entry \in [Ids -> Entry] /\ listed \subseteq Ids /\ boot \in Boot
      /\ disk \in [Ids -> Entry]
  BY DEF Inv, TypeOK, Boot
<1>1. NoEntry.st = "none" /\ "none" \notin Aloft
  BY DEF NoEntry, Aloft
<1>2. CASE Flush
  <2>1. /\ disk' = Kept(Memory, crashes) /\ UNCHANGED <<entry, listed, loop>>
        /\ boot'.pc = boot.pc /\ boot'.todo = boot.todo
    BY <1>0, <1>2 DEF Flush, queue, Boot
  <2>2. \A t \in Ids : disk'[t].st \in Aloft => t \in InFlight
    BY <1>1, <2>1 DEF Kept, Memory, InFlight, Aloft
  <2>3. OneOnDisk'
    BY <2>2 DEF FlightInv, OneAtATime, OneOnDisk
  <2> QED BY <2>1, <2>3 DEF FlightInv, OneAtATime, LoopHasIt, RecoveryFindsIt,
          InFlight, Flying
<1>3. CASE Crash
  <2>1. /\ listed' = {t \in Ids : disk[t].st # "none"}
        /\ entry' = [t \in Ids |-> IF t \in listed' THEN load(disk)[t]
                                                    ELSE Forgotten(entry[t])]
        /\ disk' = Kept(disk, crashes + 1) /\ loop' = Off
        /\ boot'.pc = "due"
    BY <1>3 DEF Crash, NoBoot
  <2>2. ASSUME NEW t \in Ids, entry'[t].st \in Aloft
        PROVE  t \in listed' /\ disk[t].st \in Aloft
    <3>1. t \notin listed' => entry'[t].st = "none"
      <4>1. Forgotten(entry[t]).st = NoEntry.st
        BY NoEntryTyped DEF Forgotten, Entry
      <4> QED BY <1>1, <2>1, <4>1
    <3>2. load(disk)[t].st \in Aloft => disk[t].st \in Aloft
      BY <1>0 DEF load, Aloft, Entry
    <3> QED BY <1>1, <2>1, <2>2, <3>1, <3>2
  <2>3. OneAtATime' /\ Flying' \subseteq listed'
    <3>1. \A t \in InFlight' : t \in Ids /\ disk[t].st \in Aloft
      BY <2>1, <2>2 DEF InFlight, Aloft
    <3>2. \A t, u \in Ids : disk[t].st \in Aloft /\ disk[u].st \in Aloft => t = u
      BY DEF FlightInv, OneOnDisk
    <3> QED BY <2>2, <3>1, <3>2 DEF OneAtATime, Flying
  <2>4. OneOnDisk'
    BY <1>1, <2>1 DEF Kept, FlightInv, OneOnDisk
  <2>5. LoopHasIt' /\ RecoveryFindsIt'
    BY <2>1, <2>3, RestIs DEF LoopHasIt, RecoveryFindsIt, Over
  <2> QED BY <2>3, <2>4, <2>5 DEF FlightInv
<1> QED BY <1>2, <1>3

\* What the scan reaches it puts down, so that nothing is in flight beside the
\* loop once it is through - when the survivors become the queue.
LEMMA RecoversFly == Inv /\ FlightInv /\ Recovers => FlightInv'
<1> SUFFICES ASSUME Inv, FlightInv, Recovers PROVE FlightInv'
  OBVIOUS
<1>0. /\ entry \in [Ids -> Entry] /\ listed \subseteq Ids /\ boot \in Boot
      /\ 0 \notin Ids
  BY TrainAssumption DEF Inv, TypeOK, Boot, Ids
<1>1. CASE RecoverBegins
  BY <1>0, <1>1 DEF RecoverBegins, queue, NoBoot, FlightInv, OneAtATime, LoopHasIt,
     RecoveryFindsIt, OneOnDisk, InFlight, Flying
<1>2. CASE Scans
  <2>1. PICK t \in boot.todo : ScansEntry(t)
    BY <1>2 DEF Scans, Lowest
  <2>2. PICK s \in Statuses, told \in {{}, {entry[t].run}} :
          Scanned(t, s, told) /\ s \notin Aloft
    <3>1. /\ {"done", "waiting", "conflict", "gate-failed"} \subseteq Statuses \ Aloft
          /\ entry[t].st \in Statuses
      BY <1>0 DEF Statuses, Parked, Entry, Aloft, Boot
    <3>2. entry[t].st \notin {"merging", "gate-running"} => entry[t].st \notin Aloft
      BY DEF Aloft
    <3> QED BY <2>1, <3>1, <3>2 DEF ScansEntry
  <2>3. /\ \A u \in Ids : u # t => entry'[u] = entry[u]
        /\ entry'[t].st \notin Aloft
        /\ boot'.pc = boot.pc /\ boot'.todo = boot.todo \ {t}
        /\ UNCHANGED <<listed, disk, loop>>
    BY <1>0, <1>2, <2>2 DEF Scanned, Entry, Boot, Scans
  <2> QED BY <1>0, <2>3, FliesNone
<1>3. CASE PruneBegins
  <2>1. /\ boot.pc = "scan" /\ boot.todo = {} /\ boot'.pc = "prune"
        /\ UNCHANGED <<entry, listed, disk, loop>>
    BY <1>0, <1>3 DEF PruneBegins, queue, Boot
  <2> QED BY <2>1 DEF FlightInv, OneAtATime, LoopHasIt, RecoveryFindsIt, OneOnDisk,
          InFlight, Flying
<1>4. CASE Prunes
  <2>1. /\ boot.pc = "prune" /\ boot'.pc = "prune"
        /\ UNCHANGED <<entry, listed, disk, loop>>
    BY <1>0, <1>4 DEF Prunes, queue, Boot
  <2> QED BY <2>1 DEF FlightInv, OneAtATime, LoopHasIt, RecoveryFindsIt, OneOnDisk,
          InFlight, Flying
<1>5. CASE Recovered
  <2>1. /\ boot.pc = "prune" /\ boot'.pc = "off" /\ Wake /\ UNCHANGED <<entry, disk>>
    BY <1>5 DEF Recovered, NoBoot
  <2>2. loop'.at = loop.at /\ (loop'.pc = loop.pc \/ loop'.pc = "head")
    BY <2>1, RestIs DEF Wake
  <2>3. Flying' = Flying /\ Flying \subseteq {loop.at} /\ InFlight' \subseteq Flying'
    <3>1. listed' \subseteq Ids
      BY <1>0, <1>5 DEF Recovered, Boot
    <3> QED BY <2>1, <3>1 DEF FlightInv, RecoveryFindsIt, Flying, InFlight, Aloft
  <2> QED BY <2>1, <2>2, <2>3 DEF FlightInv, OneAtATime, LoopHasIt, RecoveryFindsIt,
          OneOnDisk, Over
<1> QED BY <1>1, <1>2, <1>3, <1>4, <1>5 DEF Recovers

\* A loop that throws leaves its entry as it is.
LEMMA ThrowsFly ==
  Inv /\ FlightInv /\ LoopThrows /\ boot.pc = "off" => FlightInv'
<1> SUFFICES ASSUME Inv, FlightInv, LoopThrows, boot.pc = "off" PROVE FlightInv'
  OBVIOUS
<1>1. UNCHANGED <<entry, listed, disk, boot>> /\ loop'.at = 0 /\ loop'.pc = "off"
  BY RestIs DEF LoopThrows, queue
<1> QED BY <1>1 DEF FlightInv, OneAtATime, LoopHasIt, RecoveryFindsIt, OneOnDisk,
        InFlight, Flying, Over

LEMMA FlightStep ==
  Inv /\ FlightInv /\ [Next]_vars /\ (LoopThrows => boot.pc = "off") => FlightInv'
<1> SUFFICES ASSUME Inv, FlightInv, [Next]_vars, LoopThrows => boot.pc = "off"
             PROVE  FlightInv'
  OBVIOUS
<1>1. CASE Integrates
  BY <1>1, PicksFly, GatesFly, ConflictsFly, OversFly, LandingsFly DEF Integrates
<1>2. CASE UNCHANGED vars
  BY <1>2, FliesNone DEF vars, queue, Inv, TypeOK
<1> QED BY <1>1, <1>2, OthersFly, OperatesFly, RecoversFly, CrashesFly, ThrowsFly
        DEF Next

\* Strictly serial: the queue never lists two entries that are being
\* integrated, whatever crashes, supersedes, sweeps and recovers, and wherever
\* the loop throws but while a recovery is under way.
THEOREM OneIsIntegrated ==
  Spec /\ [][LoopThrows => boot.pc = "off"]_vars => []OneAtATime
<1>1. Init => FlightInv
  BY RestIs DEF Init, FlightInv, OneAtATime, LoopHasIt, RecoveryFindsIt, OneOnDisk,
     InFlight, Flying, NoEntry, NoBoot, Aloft, Over
<1>2. Inv /\ FlightInv /\ [Next]_vars /\ [LoopThrows => boot.pc = "off"]_vars
        => FlightInv'
  <2>1. ASSUME Inv, FlightInv, UNCHANGED vars PROVE FlightInv'
    BY <2>1, FliesNone DEF vars, queue, Inv, TypeOK
  <2> QED BY <2>1, FlightStep
<1>3. FlightInv => OneAtATime
  BY DEF FlightInv
<1> QED BY <1>1, <1>2, <1>3, InvHolds, PTL DEF Spec

=============================================================================
