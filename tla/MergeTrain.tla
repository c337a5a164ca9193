----------------------------- MODULE MergeTrain -----------------------------
(***************************************************************************)
(* The merge train (runner/merge-queue.ts): a durable FIFO of finished     *)
(* runs and submitted sessions, one loop that takes them one at a time     *)
(* through the gates and integrates them, and the handlers that change the *)
(* same entries meanwhile: enqueue and supersede, the operator's verdicts, *)
(* the recovery at boot, the sweep.                                        *)
(*                                                                         *)
(* With staging on, an entry's code lands on `stage` and then its data on  *)
(* main, each with a marker written after the fact; with staging off the   *)
(* whole branch is merged.  What git holds (landed work, branches) is kept *)
(* apart from what the entries say of it.  Entries are numbered in the     *)
(* order they were made, which is their order in the queue; a run is named *)
(* after its first entry.  Every loop step but the first after a persist   *)
(* waits until that persist is on disk.                                    *)
(***************************************************************************)
EXTENDS Naturals

CONSTANTS
  Jobs,           \* what may be submitted: [card, kind, work]
  NoCard,         \* the card of work that belongs to none
  FinishedCards,  \* cards that sit in a terminal column
  Modes,          \* values staging may have
  DataUnits,      \* is a gate declared for the data half
  Judge,          \* is semantic resolution on
  MaxRedrives,    \* autorun.mergeTrain.maxRedrives
  MaxEntries,     \* bound: entries
  MaxRetries,     \* bound: retries and requeues by hand
  MaxThrows,      \* bound: throws of the loop
  MaxCrashes      \* bound: crashes

Halves == {"code", "data"}
Ids == 1..MaxEntries
MaxInconclusive == 1

ASSUME TrainAssumption ==
  /\ \A j \in Jobs : j.kind \in {"run", "session"} /\ j.work \subseteq Halves
  /\ Modes \subseteq BOOLEAN /\ DataUnits \in BOOLEAN /\ Judge \in BOOLEAN
  /\ MaxRedrives \in Nat /\ MaxEntries \in Nat
  /\ MaxRetries \in Nat /\ MaxThrows \in Nat /\ MaxCrashes \in Nat

Parked == {"gate-failed", "conflict"}
Statuses == {"none", "waiting", "gate-running", "merging", "re-driving", "done",
             "failed", "returned-to-session"} \cup Parked

\* `marks` are the halves the entry believes landed, `split` that it began.
Entry == [run: Ids \cup {0}, card: {j.card : j \in Jobs} \cup {NoCard},
          kind: {"run", "session"}, work: SUBSET Halves, st: Statuses,
          pin: BOOLEAN, split: BOOLEAN, marks: SUBSET Halves,
          drive: 0..MaxRedrives, tries: 0..MaxInconclusive, judged: BOOLEAN]
NoEntry == [run |-> 0, card |-> NoCard, kind |-> "run", work |-> {},
            st |-> "none", pin |-> FALSE, split |-> FALSE, marks |-> {},
            drive |-> 0, tries |-> 0, judged |-> FALSE]

VARIABLES
  staging,   \* is staged release on
  born,      \* how many entries were made
  entry,     \* the entries; one the loop holds may not be listed any more
  listed,    \* the entries in the queue
  disk,      \* merge-queue.json
  loop,      \* where the loop is: pc, its entry, the half, where a park leads
  saved,     \* has the loop's last persist reached the disk
  landed,    \* git: <<run, half>> on its target
  refs,      \* git: runs whose branch stands, under whatever name
  hold,      \* is publication held back by a commit that was not undone
  blockers,  \* runs with an open gate or secret blocker on their card
  owed,      \* re-drives admitted by the engine, not yet back
  door,      \* the enqueue in progress: its entry, the rivals to supersede
  boot,      \* the recovery in progress
  closed,    \* runs announced as merged
  vouched,   \* runs the operator said he integrated
  retries, throws, crashes

queue == <<entry, listed>>
git == <<landed, refs, hold>>
limits == <<retries, throws, crashes>>
vars == <<staging, born, queue, disk, loop, saved, git, blockers, owed, door,
          boot, closed, vouched, limits>>

-----------------------------------------------------------------------------
Lowest(S) == {t \in S : \A u \in S : t <= u}

Waiting == {t \in listed : entry[t].st = "waiting"}
InFlight == {t \in listed : entry[t].st \in {"merging", "gate-running"}}

Landed(r, w) == \A h \in w : <<r, h>> \in landed
Lands(r, w) == landed' = landed \cup {<<r, h>> : h \in w}

At(pc, t, half, park) == [pc |-> pc, at |-> t, half |-> half, park |-> park]
Off == At("off", 0, "code", "head")
Head == At("head", 0, "code", "head")

Wake == loop' = IF loop = Off THEN Head ELSE loop

Memory == [t \in Ids |-> IF t \in listed THEN entry[t] ELSE NoEntry]

\* Bound: a file that no crash will read any more is not kept.
Kept(d, n) == IF n < MaxCrashes THEN d ELSE [t \in Ids |-> NoEntry]

\* A persist writes the queue as it is when its turn comes; the list it leaves
\* in memory is a new one.
Flush ==
  /\ ~saved \/ (disk # Memory /\ crashes < MaxCrashes)
  /\ disk' = Kept(Memory, crashes) /\ saved' = TRUE
  /\ boot' = [boot EXCEPT !.shared = FALSE]
  /\ UNCHANGED <<staging, born, queue, loop, git, blockers, owed, door, closed,
                 vouched, limits>>

-----------------------------------------------------------------------------
(* Enqueue: one live entry per run, one pending entry per card.            *)

Rivals(card, run) ==
  {t \in listed : /\ card # NoCard /\ entry[t].card = card
                  /\ entry[t].run # run
                  /\ entry[t].st \in Parked \cup {"waiting"}}

OpenDoor(run, card, kind, work, drive) ==
  /\ door.at = 0 /\ born < MaxEntries
  /\ born' = born + 1
  /\ entry' = [entry EXCEPT ![born + 1] =
       [NoEntry EXCEPT !.run = run, !.card = card, !.kind = kind,
                       !.work = work, !.drive = drive]]
  /\ door' = [at |-> born + 1, todo |-> Rivals(card, run)]

\* A run settles, or a session submits.
Submit(j) ==
  /\ OpenDoor(born + 1, j.card, j.kind, j.work, 0)
  /\ refs' = refs \cup {born + 1}
  /\ UNCHANGED <<staging, listed, disk, loop, saved, landed, hold, blockers,
                 owed, boot, closed, vouched, limits>>

\* The run a re-drive asked for settles.
ComesBack(o) ==
  /\ o \in owed
  /\ OpenDoor(born + 1, o.card, "run", o.work, o.drive)
  /\ owed' = owed \ {o} /\ refs' = refs \cup {born + 1}
  /\ UNCHANGED <<staging, listed, disk, loop, saved, landed, hold, blockers,
                 boot, closed, vouched, limits>>

\* Requeue by hand, from the branch that still stands: the entry is built
\* anew, without markers, pin or kind.
Requeue(t) ==
  /\ t \in listed /\ entry[t].st \in {"failed", "done"}
  /\ entry[t].run \in refs /\ retries < MaxRetries
  /\ OpenDoor(entry[t].run, entry[t].card, "run", entry[t].work, entry[t].drive)
  /\ listed' = listed \ {t} /\ retries' = retries + 1
  /\ boot' = [boot EXCEPT !.shared = FALSE]
  /\ UNCHANGED <<staging, disk, loop, saved, git, blockers, owed, closed,
                 vouched, throws, crashes>>

\* The rivals were listed before this call awaited anything: by now the loop
\* may have taken the one it fails.
Supersede ==
  /\ door.at # 0
  /\ \E t \in Lowest(door.todo) :
       /\ entry' = [entry EXCEPT ![t].st = "failed"]
       /\ blockers' = blockers \ {entry[t].run}
       /\ door' = [door EXCEPT !.todo = @ \ {t}]
  /\ UNCHANGED <<staging, born, listed, disk, loop, saved, git, owed, boot,
                 closed, vouched, limits>>

Insert ==
  LET t == door.at IN
  /\ t # 0 /\ door.todo = {}
  /\ entry' = [entry EXCEPT ![t].st = "waiting",
                            ![t].pin = entry[t].run \in refs]
  /\ listed' = listed \cup {t}
  /\ door' = [at |-> 0, todo |-> {}]
  /\ boot' = IF boot.shared THEN [boot EXCEPT !.todo = @ \cup {t}] ELSE boot
  /\ Wake
  /\ UNCHANGED <<staging, born, disk, saved, git, blockers, owed, closed,
                 vouched, limits>>

-----------------------------------------------------------------------------
(* The loop                                                                *)

me == loop.at
Here(pc) == loop.pc = pc /\ saved

Goes(l) == loop' = l /\ UNCHANGED <<entry, saved>>

Leaves(t, s, l) ==
  /\ entry' = [entry EXCEPT ![t].st = s]
  /\ loop' = l /\ saved' = FALSE

\* Mutant: nobody looks whether something is in flight.
TakesBesides == ~hold /\ Waiting # {}

\* Mutant: nobody looks whether publication is held.
TakesThoughHeld == InFlight = {} /\ Waiting # {}

\* Mutant: a parked head stops the queue.
TakesUnlessParked ==
  /\ ~hold /\ InFlight = {} /\ Waiting # {}
  /\ \A t \in listed : entry[t].st \notin Parked

Takes == ~hold /\ InFlight = {} /\ Waiting # {}

Picks ==
  /\ Here("head")
  /\ IF Takes
       THEN \E t \in Lowest(Waiting) :
              Leaves(t, "merging", At("ref", t, "code", "head"))
       ELSE Goes(Off)
  /\ UNCHANGED <<staging, born, listed, disk, git, blockers, owed, door, boot,
                 closed, vouched, limits>>

parkOrReturn(t, park) ==
  IF entry[t].kind = "session"
    THEN Leaves(t, "returned-to-session", Head)
    ELSE Leaves(t, "conflict", park)

CanRedrive(e) == e.card # NoCard /\ e.drive < MaxRedrives

\* A session gets its work back; a run is driven again if it may, in which case
\* the engine has yet to admit that; else it is parked.
maybeRedrive(t, park) ==
  IF entry[t].kind = "session"
    THEN Leaves(t, "returned-to-session", Head)
    ELSE IF CanRedrive(entry[t])
           THEN Leaves(t, "re-driving", At("redrive", t, "code", park))
           ELSE Leaves(t, "conflict", At(park, 0, "code", "head"))

Gated(e, half) ==
  /\ half \in e.work
  /\ half = "data" => staging /\ DataUnits /\ "data" \notin e.marks

\* The next stop past a half's gate: the next gate, or the landing.
ToGate(e, half) ==
  IF Gated(e, half) THEN At("gate", me, half, "head")
    ELSE IF half = "code" /\ Gated(e, "data") THEN At("gate", me, "data", "head")
      ELSE At(IF staging THEN "split" ELSE "merge", me, "code", "head")

\* Is there anything left to read the work from?
Readable(e) == e.pin \/ e.run \in refs

\* The branch may be gone, the work already merged, the checkout dirty.
Resolves ==
  LET e == entry[me] IN
  /\ Here("ref")
  /\ \/ ~Readable(e) /\ Leaves(me, "failed", Head)
     \/ /\ Readable(e) /\ (staging \/ ~Landed(e.run, e.work))
        /\ entry' = [entry EXCEPT ![me].pin = TRUE]
        /\ loop' = ToGate(e, "code")
        /\ UNCHANGED saved
     \/ /\ Readable(e) /\ ~staging /\ Landed(e.run, e.work)
        /\ Goes(At("close", me, "code", "head"))
     \/ /\ Readable(e) /\ ~staging /\ ~Landed(e.run, e.work)
        /\ parkOrReturn(me, Off)
  /\ UNCHANGED <<staging, born, listed, disk, git, blockers, owed, door, boot,
                 closed, vouched, limits>>

PastGate ==
  IF loop.half = "code" THEN ToGate(entry[me], "data")
    ELSE At(IF staging THEN "split" ELSE "merge", me, "code", "head")

GateStarts ==
  /\ Here("gate")
  /\ Leaves(me, "gate-running", [loop EXCEPT !.pc = "verdict"])
  /\ UNCHANGED <<staging, born, listed, disk, git, blockers, owed, door, boot,
                 closed, vouched, limits>>

GatePasses ==
  /\ Here("verdict")
  /\ Leaves(me, "merging", PastGate)
  /\ UNCHANGED <<staging, born, listed, disk, git, blockers, owed, door, boot,
                 closed, vouched, limits>>

RetriesGate(e) == e.tries < MaxInconclusive

\* No verdict once is a retry; a red gate gives a session its work back and
\* parks a run, whose blocker is filed next.
disposeRedGate ==
  LET e == entry[me] IN
  /\ Here("verdict")
  /\ \/ /\ RetriesGate(e)
        /\ entry' = [entry EXCEPT ![me].st = "waiting", ![me].tries = @ + 1]
        /\ loop' = Head /\ saved' = FALSE
     \/ /\ e.kind = "session"
        /\ Leaves(me, "returned-to-session", Head)
     \/ /\ e.kind = "run"
        /\ entry' = [entry EXCEPT ![me].st = "gate-failed"]
        /\ loop' = At("blocker", me, "code", "head")
        /\ UNCHANGED saved
  /\ UNCHANGED <<staging, born, listed, disk, git, blockers, owed, door, boot,
                 closed, vouched, limits>>

OnCard(t) == IF entry[t].card = NoCard THEN {} ELSE {entry[t].run}

FilesBlocker ==
  /\ loop.pc = "blocker"
  /\ blockers' = blockers \cup OnCard(me)
  /\ loop' = Head /\ saved' = FALSE
  /\ UNCHANGED <<staging, born, queue, disk, git, owed, door, boot, closed,
                 vouched, limits>>

ToApply == /\ Here("apply") /\ loop.half \in entry[me].work
           /\ loop.half \notin entry[me].marks

\* A text conflict, in the gate or on stage: a judge may resolve it once, and
\* what he wrote is a new entry; else the entry is driven again or parked.
Conflicts ==
  LET e == entry[me]
      park == IF loop.pc = "verdict" THEN "head" ELSE "off" IN
  /\ Here("verdict") \/ (ToApply /\ loop.half = "code") \/ Here("merge")
  /\ \/ /\ maybeRedrive(me, park)
        /\ UNCHANGED <<born, listed, refs, boot>>
     \/ /\ Judge /\ staging /\ e.kind = "run" /\ ~e.judged /\ loop.half = "code"
        /\ born < MaxEntries
        /\ born' = born + 1
        /\ entry' = [entry EXCEPT
             ![me].st = "re-driving", ![me].judged = TRUE,
             ![born + 1] = [e EXCEPT !.run = born + 1, !.st = "waiting",
                              !.pin = FALSE, !.split = FALSE, !.marks = {},
                              !.tries = 0, !.judged = TRUE]]
        /\ listed' = listed \cup {born + 1} /\ refs' = refs \cup {born + 1}
        /\ boot' = IF boot.shared THEN [boot EXCEPT !.todo = @ \cup {born + 1}]
                                  ELSE boot
        /\ loop' = Head /\ saved' = FALSE
  /\ UNCHANGED <<staging, disk, landed, hold, blockers, owed, door, closed,
                 vouched, limits>>

RedriveAnswered ==
  LET e == entry[me] IN
  /\ Here("redrive")
  /\ \/ /\ owed' = owed \cup {[card |-> e.card, work |-> e.work,
                               drive |-> e.drive + 1]}
        /\ Goes(Head)
     \/ /\ Leaves(me, "conflict", At(loop.park, 0, "code", "head"))
        /\ UNCHANGED owed
  /\ UNCHANGED <<staging, born, listed, disk, git, blockers, door, boot, closed,
                 vouched, limits>>

-----------------------------------------------------------------------------
(* integrateSplit, and the merge of the whole branch                       *)

\* The diff that says what is code and what is data may be unreadable.
SplitBegins ==
  /\ Here("split")
  /\ \/ Leaves(me, "failed", Off)
     \/ /\ entry' = [entry EXCEPT ![me].split = TRUE]
        /\ loop' = At("apply", me, "code", "head") /\ saved' = FALSE
  /\ UNCHANGED <<staging, born, listed, disk, git, blockers, owed, door, boot,
                 closed, vouched, limits>>

PastHalf ==
  IF loop.half = "code" THEN At("apply", me, "data", "head")
                        ELSE At("close", me, "code", "head")

\* A half that is marked is skipped, one that carries nothing is marked.
ApplySkips ==
  /\ Here("apply")
  /\ loop.half \in entry[me].marks \/ loop.half \notin entry[me].work
  /\ IF loop.half \in entry[me].marks
       THEN Goes(PastHalf)
       ELSE /\ entry' = [entry EXCEPT ![me].marks = @ \cup {loop.half}]
            /\ loop' = PastHalf /\ saved' = FALSE
  /\ UNCHANGED <<staging, born, listed, disk, git, blockers, owed, door, boot,
                 closed, vouched, limits>>

\* The patch is applied and committed - or had been, by an earlier attempt.
ApplyLands ==
  /\ ToApply
  /\ Lands(entry[me].run, {loop.half})
  /\ loop' = [loop EXCEPT !.pc = "mark"]
  /\ UNCHANGED <<staging, born, queue, disk, saved, refs, hold, blockers, owed,
                 door, boot, closed, vouched, limits>>

Marks ==
  /\ loop.pc = "mark"
  /\ entry' = [entry EXCEPT ![me].marks = @ \cup {loop.half}]
  /\ loop' = PastHalf /\ saved' = FALSE
  /\ UNCHANGED <<staging, born, listed, disk, git, blockers, owed, door, boot,
                 closed, vouched, limits>>

MergeLands ==
  /\ Here("merge")
  /\ Lands(entry[me].run, entry[me].work)
  /\ loop' = At("close", me, "code", "head")
  /\ UNCHANGED <<staging, born, queue, disk, saved, refs, hold, blockers, owed,
                 door, boot, closed, vouched, limits>>

\* The patch does not apply, the commit fails, the merge is no ancestor: the
\* rest of the queue waits for somebody to call the loop again.
LandingParks ==
  /\ ToApply \/ Here("merge")
  /\ parkOrReturn(me, Off)
  /\ UNCHANGED <<staging, born, listed, disk, git, blockers, owed, door, boot,
                 closed, vouched, limits>>

\* The scan finds a secret in what was just committed: the commit is undone,
\* or else it stays and holds all publication back.
SecretFound ==
  LET half == IF staging THEN {loop.half} ELSE entry[me].work IN
  /\ ToApply \/ Here("merge")
  /\ \/ UNCHANGED <<landed, hold>>
     \/ Lands(entry[me].run, half) /\ hold' = TRUE
  /\ blockers' = blockers \cup OnCard(me)
  /\ Leaves(me, "failed", Off)
  /\ UNCHANGED <<staging, born, listed, disk, refs, owed, door, boot, closed,
                 vouched, limits>>

deleteBranchAfterIntegration(e) ==
  refs' = IF e.kind = "session" THEN refs ELSE refs \ {e.run}

Closes ==
  /\ Here("close")
  /\ deleteBranchAfterIntegration(entry[me])
  /\ Leaves(me, "done", [loop EXCEPT !.pc = "emit"])
  /\ UNCHANGED <<staging, born, listed, disk, landed, hold, blockers, owed,
                 door, boot, closed, vouched, limits>>

emitMergeDone ==
  /\ Here("emit")
  /\ blockers' = blockers \ OnCard(me)
  /\ closed' = closed \cup {entry[me].run}
  /\ Goes(Head)
  /\ UNCHANGED <<staging, born, listed, disk, git, owed, door, boot, vouched,
                 limits>>

-----------------------------------------------------------------------------
(* The operator                                                            *)

ByHand(t, parked) == t \in listed /\ entry[t].st \in parked

\* "I merged it": of a split the operator brought the code to stage himself;
\* of a whole branch the train sees for itself that it is on main.
ResolvesMerged(t) ==
  LET e == entry[t] IN
  /\ ByHand(t, {"conflict"})
  /\ Lands(e.run, IF e.split THEN e.work \cap {"code"} ELSE e.work)
  /\ entry' = [entry EXCEPT
       ![t].st = "done",
       ![t].marks = IF e.split THEN @ \cup {"code"} ELSE @]
  /\ deleteBranchAfterIntegration(e)
  /\ blockers' = blockers \ OnCard(t)
  /\ closed' = closed \cup {e.run} /\ vouched' = vouched \cup {e.run}
  /\ Wake
  /\ UNCHANGED <<staging, born, listed, disk, saved, hold, owed, door, boot,
                 limits>>

\* Mutant: an abort deletes the branch.
DeletesAborted(e) == refs' = refs \ {e.run}

\* A branch that carries code survives the abort.
preserveAbortedBranch(e) ==
  refs' = IF e.kind = "run" /\ "code" \notin e.work THEN refs \ {e.run} ELSE refs

Aborts(t) ==
  LET e == entry[t] IN
  /\ ByHand(t, Parked)
  /\ entry' = [entry EXCEPT ![t].st = "failed"]
  /\ preserveAbortedBranch(e)
  /\ Wake
  /\ UNCHANGED <<staging, born, listed, disk, saved, landed, hold, blockers,
                 owed, door, boot, closed, vouched, limits>>

\* Back into the queue, where it stood: only the counters of its line stay.
RetriesParked(t) ==
  /\ ByHand(t, Parked) /\ retries < MaxRetries
  /\ retries' = retries + 1
  /\ entry' = [entry EXCEPT ![t].st = "waiting"]
  /\ Wake
  /\ UNCHANGED <<staging, born, listed, disk, saved, git, blockers, owed, door,
                 boot, closed, vouched, throws, crashes>>

\* The card was moved: its parked entries are given up.
ReconcilesCard(c) ==
  LET old == {t \in listed : c # NoCard /\ entry[t].card = c /\ entry[t].st \in Parked} IN
  /\ old # {}
  /\ entry' = [t \in Ids |-> IF t \in old THEN [entry[t] EXCEPT !.st = "failed"]
                                          ELSE entry[t]]
  /\ blockers' = blockers \ {entry[t].run : t \in old}
  /\ Wake
  /\ UNCHANGED <<staging, born, listed, disk, saved, git, owed, door, boot,
                 closed, vouched, limits>>

\* The commit that held publication back is out of the way.
Releases ==
  /\ hold /\ hold' = FALSE
  /\ UNCHANGED <<staging, born, queue, disk, loop, saved, landed, refs, blockers,
                 owed, door, boot, closed, vouched, limits>>

-----------------------------------------------------------------------------
(* The sweep                                                               *)

SweepsStuck ==
  /\ loop = Off /\ boot.pc = "off" /\ InFlight # {}
  /\ entry' = [t \in Ids |-> IF t \in InFlight THEN [entry[t] EXCEPT !.st = "failed"]
                                               ELSE entry[t]]
  /\ Wake
  /\ UNCHANGED <<staging, born, listed, disk, saved, git, blockers, owed, door,
                 boot, closed, vouched, limits>>

Pumps ==
  /\ loop = Off /\ boot.pc = "off" /\ ~hold /\ InFlight = {} /\ Waiting # {}
  /\ Wake
  /\ UNCHANGED <<staging, born, queue, disk, saved, git, blockers, owed, door,
                 boot, closed, vouched, limits>>

-----------------------------------------------------------------------------
(* Faults, and the recovery at boot                                        *)

NoBoot == [pc |-> "off", todo |-> {}, kept |-> {}, drops |-> FALSE,
           shared |-> FALSE, told |-> {}]

\* What load() makes of the file: a re-drive does not survive a restart.
load(d) ==
  [t \in Ids |-> IF d[t].st = "re-driving" THEN [d[t] EXCEPT !.st = "failed"]
                                           ELSE d[t]]

\* Of an entry that is lost only what its run was remains, for the properties.
Forgotten(e) ==
  [NoEntry EXCEPT !.run = e.run, !.card = e.card, !.kind = e.kind, !.work = e.work]

Crash ==
  /\ crashes < MaxCrashes
  /\ crashes' = crashes + 1
  /\ listed' = {t \in Ids : disk[t].st # "none"}
  /\ entry' = [t \in Ids |-> IF t \in listed' THEN load(disk)[t]
                                              ELSE Forgotten(entry[t])]
  /\ disk' = Kept(disk, crashes + 1)
  /\ loop' = Off /\ saved' = TRUE
  /\ door' = [at |-> 0, todo |-> {}]
  /\ boot' = [NoBoot EXCEPT !.pc = "due"]
  /\ UNCHANGED <<staging, born, git, blockers, owed, closed, vouched,
                 retries, throws>>

\* runLoop rejects: the entry stays as it is, and nobody has it.
LoopThrows ==
  /\ loop.at # 0 /\ throws < MaxThrows
  /\ throws' = throws + 1
  /\ loop' = Off /\ saved' = TRUE
  /\ UNCHANGED <<staging, born, queue, disk, git, blockers, owed, door, boot,
                 closed, vouched, retries, crashes>>

RecoverBegins ==
  /\ boot.pc = "due"
  /\ boot' = [NoBoot EXCEPT !.pc = "scan", !.todo = listed, !.shared = TRUE]
  /\ UNCHANGED <<staging, born, queue, disk, loop, saved, git, blockers, owed,
                 door, closed, vouched, limits>>

\* An entry that was being merged: all of it landed, or it starts over, or -
\* the whole branch over a dirty tree - a human looks.  One that was in the
\* gate is parked.
Scanned(t, s, told) ==
  /\ entry' = [entry EXCEPT ![t].st = s]
  /\ boot' = [boot EXCEPT !.todo = @ \ {t}, !.told = @ \cup told]
  /\ IF told = {} THEN UNCHANGED refs ELSE deleteBranchAfterIntegration(entry[t])

\* Mutant: one half is enough.
HalfLanded(e) == IF e.split THEN e.marks # {} ELSE ~staging /\ Landed(e.run, e.work)

AllLanded(e) == IF e.split THEN e.marks = Halves ELSE ~staging /\ Landed(e.run, e.work)

ScansEntry(t) ==
  LET e == entry[t] IN
  \/ e.st = "merging" /\ AllLanded(e) /\ Scanned(t, "done", {e.run})
  \/ e.st = "merging" /\ ~AllLanded(e) /\ Scanned(t, "waiting", {})
  \/ e.st = "merging" /\ ~AllLanded(e) /\ ~e.split /\ Scanned(t, "conflict", {})
  \/ e.st = "gate-running" /\ Scanned(t, "gate-failed", {})
  \/ e.st \notin {"merging", "gate-running"} /\ Scanned(t, e.st, {})

Scans ==
  /\ boot.pc = "scan"
  /\ \E t \in Lowest(boot.todo) : ScansEntry(t)
  /\ UNCHANGED <<staging, born, listed, disk, loop, saved, landed, hold,
                 blockers, owed, door, closed, vouched, limits>>

PruneBegins ==
  /\ boot.pc = "scan" /\ boot.todo = {}
  /\ boot' = [boot EXCEPT !.pc = "prune", !.todo = listed]
  /\ UNCHANGED <<staging, born, queue, disk, loop, saved, git, blockers, owed,
                 door, closed, vouched, limits>>

\* Nothing to integrate: no branch, merged another way, a finished card, or
\* nothing but board data.
Superseded(e) ==
  \/ ~Readable(e)
  \/ ~staging /\ Landed(e.run, e.work)
  \/ e.card \in FinishedCards
  \/ e.work = {"data"}

Dropped(t) ==
  entry[t].st \in Parked \cup {"waiting"} /\ Superseded(entry[t])

Prunes ==
  /\ boot.pc = "prune"
  /\ \E t \in Lowest(boot.todo) :
       boot' = [boot EXCEPT !.todo = @ \ {t},
                            !.kept = IF Dropped(t) THEN @ ELSE @ \cup {t},
                            !.drops = @ \/ Dropped(t)]
  /\ UNCHANGED <<staging, born, queue, disk, loop, saved, git, blockers, owed,
                 door, closed, vouched, limits>>

\* If anything was dropped the survivors become the queue.
Recovered ==
  /\ boot.pc = "prune" /\ boot.todo = {}
  /\ listed' = IF boot.drops THEN boot.kept ELSE listed
  /\ closed' = closed \cup boot.told
  /\ boot' = NoBoot
  /\ Wake
  /\ UNCHANGED <<staging, born, entry, disk, saved, git, blockers, owed, door,
                 vouched, limits>>

-----------------------------------------------------------------------------
Init ==
  /\ staging \in Modes /\ born = 0
  /\ entry = [t \in Ids |-> NoEntry] /\ listed = {} /\ disk = entry
  /\ loop = Off /\ saved = TRUE
  /\ landed = {} /\ refs = {} /\ hold = FALSE
  /\ blockers = {} /\ owed = {} /\ closed = {} /\ vouched = {}
  /\ door = [at |-> 0, todo |-> {}] /\ boot = NoBoot
  /\ retries = 0 /\ throws = 0 /\ crashes = 0

Enqueues == Supersede \/ Insert

Integrates ==
  \/ Picks \/ Resolves \/ GateStarts \/ GatePasses \/ disposeRedGate
  \/ FilesBlocker \/ Conflicts \/ RedriveAnswered \/ SplitBegins \/ ApplySkips
  \/ ApplyLands \/ Marks \/ MergeLands \/ LandingParks \/ SecretFound \/ Closes
  \/ emitMergeDone

Recovers == RecoverBegins \/ Scans \/ PruneBegins \/ Prunes \/ Recovered

Operates ==
  \/ \E t \in Ids : ResolvesMerged(t) \/ Aborts(t) \/ RetriesParked(t) \/ Requeue(t)
  \/ \E j \in Jobs : ReconcilesCard(j.card)
  \/ Releases

Next ==
  \/ \E j \in Jobs : Submit(j)
  \/ \E o \in owed : ComesBack(o)
  \/ Enqueues \/ Integrates \/ Operates \/ Recovers
  \/ SweepsStuck \/ Pumps \/ Flush \/ Crash \/ LoopThrows

Spec == Init /\ [][Next]_vars

\* Every call goes on to its end, and the sweep's timer re-arms.
Fairness ==
  /\ WF_vars(Flush) /\ WF_vars(Enqueues) /\ WF_vars(Integrates)
  /\ WF_vars(Recovers) /\ WF_vars(SweepsStuck) /\ WF_vars(Pumps)

LiveSpec == Spec /\ Fairness

-----------------------------------------------------------------------------
Loop == [pc: {"off", "head", "ref", "gate", "verdict", "blocker", "redrive",
              "split", "apply", "mark", "merge", "close", "emit"},
         at: Ids \cup {0}, half: Halves, park: {"head", "off"}]

TypeOK ==
  /\ staging \in Modes /\ born \in 0..MaxEntries
  /\ entry \in [Ids -> Entry] /\ listed \subseteq Ids /\ disk \in [Ids -> Entry]
  /\ loop \in Loop /\ saved \in BOOLEAN
  /\ landed \subseteq Ids \X Halves /\ refs \subseteq Ids /\ hold \in BOOLEAN
  /\ blockers \subseteq Ids
  /\ owed \subseteq [card: {j.card : j \in Jobs}, work: SUBSET Halves,
                     drive: 0..MaxRedrives]
  /\ door \in [at: Ids \cup {0}, todo: SUBSET Ids]
  /\ boot \in [pc: {"off", "due", "scan", "prune"}, todo: SUBSET Ids,
               kept: SUBSET Ids, drops: BOOLEAN, shared: BOOLEAN,
               told: SUBSET Ids]
  /\ closed \subseteq Ids /\ vouched \subseteq Ids
  /\ retries \in Nat /\ throws \in Nat /\ crashes \in Nat

\* "Strictly serial": whatever recovery and supersede do to the entries, the
\* queue never holds two that are being integrated.
OneAtATime == \A t, u \in InFlight : t = u

\* The work of a run whose code has not landed can still be read: no path
\* deletes its branch.
WorkIsKept ==
  \A r \in Ids :
     entry[r].run = r /\ "code" \in entry[r].work /\ <<r, "code">> \notin landed
       => r \in refs

\* The train as a client sees it, stated by Integration.
Promise == INSTANCE Integration WITH
  Runs <- Ids,
  need <- [r \in Ids |-> IF entry[r].run = r THEN entry[r].work ELSE {}],
  landed <- [r \in Ids |-> {h \in Halves : <<r, h>> \in landed}]
KeepsPromise == Promise!Spec

\* "Piling commits on a poisoned one": while publication is held nothing lands
\* but what the operator says he merged by hand.
HoldStopsTheTrain ==
  [][hold /\ hold' =>
       landed' = landed \/ \E t \in Ids : ResolvesMerged(t)]_vars

\* Nobody waits for good: not behind a parked head, a pause, a loop that died
\* or a crash - unless publication is held.
NoneWaitsForever ==
  \A t \in Ids : t \in Waiting ~> t \notin Waiting \/ hold

-----------------------------------------------------------------------------
(* What the comments promise and the code does not keep.                   *)

\* "the data already landed on main": an entry that is done has landed.
DoneMeansLanded ==
  \A r \in closed : Landed(r, entry[r].work)

\* "re-process resumes the missing step": what recovery drops has landed.
RestartKeepsWork ==
  [][Recovered => \A t \in listed \ listed' :
        entry[t].st = "none" \/ Landed(entry[t].run, entry[t].work)
          \/ entry[t].card \in FinishedCards]_vars

\* "never merging/gate-running": a supersede spares what is being integrated.
SupersedeSparesInFlight ==
  [][Supersede => \A t \in InFlight : entry'[t].st = entry[t].st]_vars

\* "do not re-drive": no run is driven again whose code has landed.
NoRedriveOnceStaged ==
  [][\A t \in Ids : entry[t].st # "re-driving" /\ entry'[t].st = "re-driving"
        => <<entry[t].run, "code">> \notin landed]_vars

\* "a session never waits for a human": the train parks no session's work.
SessionNeverParks ==
  \A t \in listed : entry[t].st \in Parked => entry[entry[t].run].kind = "run"

=============================================================================
