----------------------------- MODULE LockedExec -----------------------------
(***************************************************************************)
(* Approved execution (runner/locked-exec-service.ts): an agent proposes a *)
(* command the host's lock refuses to agents, the owner approves exactly   *)
(* that, and the service runs it once, verifies it and undoes it if the    *)
(* verification fails.                                                     *)
(*                                                                         *)
(* Each request is a file (`rec`); a process reads, decides and writes one *)
(* request at a time (`turn`, its `serial` chain).  An execution is a task *)
(* in the background (`job`) that needs an approval in the memory of its   *)
(* own process (`grants`) and a claim file made with O_EXCL (`claimed`).   *)
(* What the commands did to the world is in `mains`, `undos` and `effect`. *)
(***************************************************************************)
EXTENDS Naturals, FiniteSets

CONSTANTS
  Procs,        \* processes of the service that share the state directory
  NoProc,
  Asks,         \* what may be proposed: [card, undo]
  NoAsk,
  BootFirst,    \* nothing is asked of a process before its recovery is over
  MaxPerCard,   \* LOCKED_EXEC_MAX_PENDING_PER_CARD
  MaxPerBoard,  \* LOCKED_EXEC_MAX_PENDING_PER_BOARD
  MaxRequests,  \* bound: requests
  MaxCrashes,   \* bound: crashes
  MaxFaults     \* bound: writes that fail

Ids == 1..MaxRequests
Kinds == {"run", "undo"}
Decisions == {"approve", "reject", "explain", "undo", "keep", "ack"}

ASSUME LockedExecAssumption ==
  /\ NoProc \notin Procs /\ NoAsk \notin Asks
  /\ \A a \in Asks : a.undo \in BOOLEAN
  /\ BootFirst \in BOOLEAN
  /\ MaxPerCard \in Nat /\ MaxPerBoard \in Nat
  /\ MaxRequests \in Nat /\ MaxCrashes \in Nat /\ MaxFaults \in Nat

Final == {"failed", "undone", "rejected", "expired", "stale", "kept"}
Status == {"none", "pending", "approved", "running", "done"} \cup Final

\* `by` approved it, `undoing` is running with phase undo.
NoRecord == [ask |-> NoAsk, st |-> "none", by |-> NoProc, undoing |-> FALSE,
             acked |-> FALSE]
NoTurn == [op |-> "none", id |-> 0, row |-> NoRecord]
Idle == [pc |-> "idle", out |-> "none"]
NoBoot == [pc |-> "off", todo |-> {}, rows |-> {}]

VARIABLES
  made,         \* how many requests there are
  rec,          \* <id>.json
  claimed,      \* ids with an <id>.claim
  undoClaimed,  \* ids with an <id>.undo.claim
  mains, undos, \* how often the command and its undo were started
  effect,       \* is what the command does in place: "no", "yes", "unknown"
  late,         \* <<p, id>>: the time p gave the approval of id is over
  up,           \* processes that are alive
  grants,       \* per process: approvals in its memory
  turn,         \* per process: the read-decide-write in progress
  job,          \* per process, kind and id: the task in the background
  boot,         \* per process: recoverOnBoot
  crashes, faults

world == <<mains, undos, effect>>
files == <<made, rec, claimed, undoClaimed>>
vars == <<files, world, late, up, grants, turn, job, boot, crashes, faults>>

-----------------------------------------------------------------------------
Free(p) == turn[p] = NoTurn

\* A task is in flight from its first line to its last.
InFlight(p) == {id \in Ids : \E k \in Kinds : job[p][k][id].pc \notin {"idle", "asked"}}

Task(pc, out) == [pc |-> pc, out |-> out]
At(p, k, id, pc) == p \in up /\ job[p][k][id].pc = pc
Goes(p, k, id, pc) == job' = [job EXCEPT ![p][k][id] = Task(pc, "none")]
Ends(p, k, id, out) == job' = [job EXCEPT ![p][k][id] = Task("settle", out)]
Drops(p, k, id) == job' = [job EXCEPT ![p][k][id] = Idle]

Serves(p) == p \in up /\ (BootFirst => boot[p].pc = "off")

-----------------------------------------------------------------------------
(* The agent proposes, the owner decides: read, then write.                *)

Pending == {id \in Ids : rec[id].st = "pending"}

RoomFor(a) ==
  /\ Cardinality({id \in Pending : rec[id].ask.card = a.card}) < MaxPerCard
  /\ Cardinality(Pending) < MaxPerBoard

\* The same request that is pending already is answered, not written again.
Proposes(p, a) ==
  /\ Serves(p) /\ Free(p) /\ made < MaxRequests
  /\ \A id \in Pending : rec[id].ask # a
  /\ RoomFor(a)
  /\ turn' = [turn EXCEPT ![p] =
       [op |-> "propose", id |-> made + 1,
        row |-> [NoRecord EXCEPT !.ask = a, !.st = "pending"]]]
  /\ made' = made + 1
  /\ UNCHANGED <<rec, claimed, undoClaimed, world, late, up, grants, job, boot,
                 crashes, faults>>

\* Mutant: whether the request is in flight is not asked.
AllowedInFlight(p, op, id) ==
  \/ op \in {"approve", "reject"} /\ rec[id].st = "pending"
  \/ op = "explain" /\ rec[id].st = "rejected"
  \/ op = "undo" /\ rec[id].st = "done" /\ rec[id].ask.undo
  \/ op = "keep" /\ rec[id].st = "done"
  \/ op = "ack" /\ rec[id].st \in Final \ {"kept"} /\ ~rec[id].acked

\* Mutant: an approval that expired can be given anew.
AllowedAnew(p, op, id) ==
  \/ op \in {"approve", "reject"} /\ rec[id].st \in {"pending", "expired"}
  \/ op = "explain" /\ rec[id].st = "rejected"
  \/ op = "undo" /\ rec[id].st = "done" /\ rec[id].ask.undo /\ id \notin InFlight(p)
  \/ op = "keep" /\ rec[id].st = "done"
  \/ op = "ack" /\ rec[id].st \in Final \ {"kept"} /\ ~rec[id].acked

Allowed(p, op, id) ==
  \/ op \in {"approve", "reject"} /\ rec[id].st = "pending"
  \/ op = "explain" /\ rec[id].st = "rejected"
  \/ /\ op = "undo" /\ rec[id].st = "done" /\ rec[id].ask.undo
     /\ id \notin InFlight(p)
  \/ op = "keep" /\ rec[id].st = "done"
  \/ op = "ack" /\ rec[id].st \in Final \ {"kept"} /\ ~rec[id].acked

Decides(p, op, id) ==
  /\ Serves(p) /\ Free(p) /\ Allowed(p, op, id)
  /\ turn' = [turn EXCEPT ![p] = [op |-> op, id |-> id, row |-> rec[id]]]
  /\ UNCHANGED <<files, world, late, up, grants, job, boot, crashes, faults>>

\* What the write makes of the row that was read; an explanation adds its words only.
Written(p, op, row) ==
  CASE op = "propose" -> row
    [] op = "approve" -> [row EXCEPT !.st = "approved", !.by = p]
    [] op = "reject"  -> [row EXCEPT !.st = "rejected", !.acked = TRUE]
    [] op = "explain" -> row
    [] op = "undo"    -> [row EXCEPT !.st = "running", !.undoing = TRUE]
    [] op = "keep"    -> [row EXCEPT !.st = "kept", !.acked = TRUE]
    [] op = "ack"     -> [row EXCEPT !.acked = TRUE]
    [] op = "claim"   -> [row EXCEPT !.st = "running"]

\* An approval is in memory only once it is on disk; what was asked for starts
\* after the turn.
Writes(p) ==
  LET op == turn[p].op  id == turn[p].id IN
  /\ p \in up /\ ~Free(p)
  /\ rec' = [rec EXCEPT ![id] = Written(p, op, turn[p].row)]
  /\ turn' = [turn EXCEPT ![p] = NoTurn]
  /\ grants' = IF op = "approve" THEN [grants EXCEPT ![p] = @ \cup {id}] ELSE grants
  /\ CASE op = "approve" -> Goes(p, "run", id, "asked")
       [] op = "undo" -> Goes(p, "undo", id, "asked")
       [] op = "claim" -> Goes(p, "run", id, "recheck")
       [] OTHER -> UNCHANGED job
  /\ UNCHANGED <<made, claimed, undoClaimed, world, late, up, boot, crashes, faults>>

\* The disk fails: the turn is over, and the caller or the task hears of it.
WriteFails(p) ==
  /\ p \in up /\ ~Free(p) /\ faults < MaxFaults
  /\ faults' = faults + 1
  /\ turn' = [turn EXCEPT ![p] = NoTurn]
  /\ IF turn[p].op = "claim" THEN Goes(p, "run", turn[p].id, "unsaved")
                             ELSE UNCHANGED job
  /\ UNCHANGED <<files, world, late, up, grants, boot, crashes>>

\* Fifteen minutes are over.
TimePasses(p, id) ==
  /\ id \in grants[p] \/ rec[id].by = p
  /\ rec[id].st = "approved" /\ <<p, id>> \notin late
  /\ late' = late \cup {<<p, id>>}
  /\ UNCHANGED <<files, world, up, grants, turn, job, boot, crashes, faults>>

-----------------------------------------------------------------------------
(* execute                                                                 *)

\* A task that finds another one of its request in flight is dropped.
Starts(p, k, id) ==
  /\ At(p, k, id, "asked")
  /\ IF id \in InFlight(p) \/ (k = "run" /\ id \notin grants[p])
       THEN Drops(p, k, id) ELSE Goes(p, k, id, "queued")
  /\ UNCHANGED <<files, world, late, up, grants, turn, boot, crashes, faults>>

\* Mutant: the claim file is made without O_EXCL.
WinsAnyway(id, claims) == TRUE

Wins(id, claims) == id \notin claims

\* Is the approval's time over, by the process's own clock or by the file?
TooLate(p, id) == <<p, id>> \in late \/ <<rec[id].by, id>> \in late

\* The approval is used up, whether anything runs or not.
Claims(p, id) ==
  /\ At(p, "run", id, "queued") /\ Free(p)
  /\ IF rec[id].st # "approved"
       THEN Drops(p, "run", id) /\ UNCHANGED <<grants, claimed, turn>>
       ELSE /\ grants' = [grants EXCEPT ![p] = @ \ {id}]
            /\ \/ /\ TooLate(p, id) /\ Ends(p, "run", id, "expired")
                  /\ UNCHANGED <<claimed, turn>>
               \/ /\ ~TooLate(p, id) /\ ~Wins(id, claimed) /\ Drops(p, "run", id)
                  /\ UNCHANGED <<claimed, turn>>
               \/ /\ ~TooLate(p, id) /\ Wins(id, claimed)
                  /\ claimed' = claimed \cup {id}
                  /\ turn' = [turn EXCEPT ![p] =
                                [op |-> "claim", id |-> id, row |-> rec[id]]]
                  /\ Goes(p, "run", id, "claiming")
  /\ UNCHANGED <<made, rec, undoClaimed, world, late, up, boot, crashes, faults>>

\* The lock, the programs, the checks and the preflight may have changed.
Rechecks(p, id) ==
  /\ At(p, "run", id, "recheck")
  /\ Goes(p, "run", id, "ready") \/ Ends(p, "run", id, "stale")
  /\ UNCHANGED <<files, world, late, up, grants, turn, boot, crashes, faults>>

Runs(p, id) ==
  /\ At(p, "run", id, "ready")
  /\ mains' = [mains EXCEPT ![id] = @ + 1]
  /\ effect' = [effect EXCEPT ![id] = "unknown"]
  /\ Goes(p, "run", id, "running")
  /\ UNCHANGED <<files, undos, late, up, grants, turn, boot, crashes, faults>>

\* An argument names a file that exists: the command is not run after all.
RunIsBlocked(p, id) ==
  /\ At(p, "run", id, "ready")
  /\ Ends(p, "run", id, "stale")
  /\ UNCHANGED <<files, world, late, up, grants, turn, boot, crashes, faults>>

\* Mutant: a command that failed is undone like one whose check failed.
UndoesFailure(p, id) == Goes(p, "run", id, "revert")

\* What did not happen is not undone.
CommandFailed(p, id) == Ends(p, "run", id, "failed")

RunEnds(p, id) ==
  /\ At(p, "run", id, "running")
  /\ \/ effect' = [effect EXCEPT ![id] = "yes"] /\ Goes(p, "run", id, "verify")
     \/ CommandFailed(p, id) /\ UNCHANGED effect
  /\ UNCHANGED <<files, mains, undos, late, up, grants, turn, boot, crashes, faults>>

Verifies(p, id) ==
  /\ At(p, "run", id, "verify")
  /\ \/ Ends(p, "run", id, "done")
     \/ ~rec[id].ask.undo /\ Ends(p, "run", id, "failed")
     \/ rec[id].ask.undo /\ Goes(p, "run", id, "revert")
  /\ UNCHANGED <<files, world, late, up, grants, turn, boot, crashes, faults>>

\* No directory for the step, or a classifier that breaks.
StepThrows(p, k, id) ==
  /\ p \in up /\ job[p][k][id].pc \in {"recheck", "ready", "verify", "revert"}
  /\ faults < MaxFaults /\ faults' = faults + 1
  /\ Goes(p, k, id, "unsaved")
  /\ UNCHANGED <<files, world, late, up, grants, turn, boot, crashes>>

-----------------------------------------------------------------------------
(* executeUndo, and the undo of a command whose verification failed        *)

UndoBegins(p, id) ==
  /\ At(p, "undo", id, "queued")
  /\ \/ /\ ~(rec[id].st = "running" /\ rec[id].undoing) /\ Drops(p, "undo", id)
     \/ /\ rec[id].st = "running" /\ rec[id].undoing
        /\ Goes(p, "undo", id, "recheck") \/ Ends(p, "undo", id, "failed")
  /\ UNCHANGED <<files, world, late, up, grants, turn, boot, crashes, faults>>

UndoClaims(p, id) ==
  /\ At(p, "undo", id, "recheck")
  /\ IF Wins(id, undoClaimed)
       THEN undoClaimed' = undoClaimed \cup {id} /\ Goes(p, "undo", id, "revert")
       ELSE Drops(p, "undo", id) /\ UNCHANGED undoClaimed
  /\ UNCHANGED <<made, rec, claimed, world, late, up, grants, turn, boot, crashes,
                 faults>>

Reverts(p, k, id) ==
  /\ At(p, k, id, "revert")
  /\ \/ /\ undos' = [undos EXCEPT ![id] = @ + 1]
        /\ effect' = [effect EXCEPT ![id] = "unknown"]
        /\ Goes(p, k, id, "reverting")
     \/ Ends(p, k, id, "failed") /\ UNCHANGED <<undos, effect>>
  /\ UNCHANGED <<files, mains, late, up, grants, turn, boot, crashes, faults>>

RevertEnds(p, k, id) ==
  /\ At(p, k, id, "reverting")
  /\ \/ effect' = [effect EXCEPT ![id] = "no"] /\ Ends(p, k, id, "undone")
     \/ Ends(p, k, id, "failed") /\ UNCHANGED effect
  /\ UNCHANGED <<files, mains, undos, late, up, grants, turn, boot, crashes, faults>>

-----------------------------------------------------------------------------
(* settle, and what is left when it fails                                  *)

Closed(row, out) == [row EXCEPT !.st = out, !.undoing = FALSE, !.acked = FALSE]

Settles(p, k, id) ==
  /\ p \in up /\ job[p][k][id].pc \in {"settle", "lastly"} /\ Free(p)
  /\ rec' = [rec EXCEPT ![id] = Closed(@, job[p][k][id].out)]
  /\ Goes(p, k, id, "ending")
  /\ UNCHANGED <<made, claimed, undoClaimed, world, late, up, grants, turn, boot,
                 crashes, faults>>

SettleFails(p, k, id) ==
  /\ p \in up /\ job[p][k][id].pc \in {"settle", "lastly"} /\ Free(p)
  /\ faults < MaxFaults /\ faults' = faults + 1
  /\ Goes(p, k, id, IF job[p][k][id].pc = "settle" THEN "unsaved" ELSE "ending")
  /\ UNCHANGED <<files, world, late, up, grants, turn, boot, crashes>>

\* Only a request that reads as running is written down as failed.
failSafe(p, k, id) ==
  /\ At(p, k, id, "unsaved")
  /\ IF rec[id].st = "running"
       THEN job' = [job EXCEPT ![p][k][id] = Task("lastly", "failed")]
       ELSE Goes(p, k, id, "ending")
  /\ UNCHANGED <<files, world, late, up, grants, turn, boot, crashes, faults>>

TaskEnds(p, k, id) ==
  /\ At(p, k, id, "ending") /\ Drops(p, k, id)
  /\ UNCHANGED <<files, world, late, up, grants, turn, boot, crashes, faults>>

-----------------------------------------------------------------------------
(* A process dies, another one recovers what it left. Nothing is run.      *)

Crash(p) ==
  /\ p \in up /\ crashes < MaxCrashes
  /\ crashes' = crashes + 1 /\ up' = up \ {p}
  /\ grants' = [grants EXCEPT ![p] = {}]
  /\ turn' = [turn EXCEPT ![p] = NoTurn]
  /\ job' = [job EXCEPT ![p] = [k \in Kinds |-> [id \in Ids |-> Idle]]]
  /\ boot' = [boot EXCEPT ![p] = NoBoot]
  /\ UNCHANGED <<files, world, late, faults>>

Boots(p) ==
  /\ p \notin up /\ up' = up \cup {p}
  /\ boot' = [boot EXCEPT ![p] = [NoBoot EXCEPT !.pc = "due"]]
  /\ UNCHANGED <<files, world, late, grants, turn, job, crashes, faults>>

BootLists(p) ==
  /\ p \in up /\ boot[p].pc = "due"
  /\ boot' = [boot EXCEPT ![p].pc = "list", ![p].todo = {id \in Ids : rec[id].st # "none"}]
  /\ UNCHANGED <<files, world, late, up, grants, turn, job, crashes, faults>>

\* list() reads one file after the other, and then what it read is acted upon.
BootReads(p) ==
  /\ p \in up /\ boot[p].pc = "list"
  /\ \E id \in boot[p].todo :
       boot' = [boot EXCEPT ![p].todo = @ \ {id},
                            ![p].rows = IF rec[id].st \in {"approved", "running"}
                                          THEN @ \cup {<<id, rec[id].st>>} ELSE @]
  /\ UNCHANGED <<files, world, late, up, grants, turn, job, crashes, faults>>

\* Mutant: a request that was running is taken for one that never started.
AllExpire(st) == "expired"

\* A request that was approved has to be approved anew; of one that was running
\* nobody knows how far it got.
RecoversAs(st) == IF st = "approved" THEN "expired" ELSE "failed"

BootSettles(p) ==
  /\ p \in up /\ boot[p].pc = "list" /\ boot[p].todo = {} /\ Free(p)
  /\ \E row \in boot[p].rows :
       /\ \A other \in boot[p].rows : row[1] <= other[1]
       /\ rec' = [rec EXCEPT ![row[1]] = Closed(@, RecoversAs(row[2]))]
       /\ boot' = [boot EXCEPT ![p].rows = @ \ {row}]
  /\ UNCHANGED <<made, claimed, undoClaimed, world, late, up, grants, turn, job,
                 crashes, faults>>

\* One write that fails ends the recovery.
BootFails(p) ==
  /\ p \in up /\ boot[p].pc = "list" /\ boot[p].todo = {} /\ boot[p].rows # {}
  /\ Free(p) /\ faults < MaxFaults /\ faults' = faults + 1
  /\ boot' = [boot EXCEPT ![p] = NoBoot]
  /\ UNCHANGED <<files, world, late, up, grants, turn, job, crashes>>

BootEnds(p) ==
  /\ p \in up /\ boot[p].pc = "list" /\ boot[p].todo = {} /\ boot[p].rows = {}
  /\ boot' = [boot EXCEPT ![p] = NoBoot]
  /\ UNCHANGED <<files, world, late, up, grants, turn, job, crashes, faults>>

-----------------------------------------------------------------------------
Init ==
  /\ made = 0 /\ rec = [id \in Ids |-> NoRecord]
  /\ claimed = {} /\ undoClaimed = {}
  /\ mains = [id \in Ids |-> 0] /\ undos = [id \in Ids |-> 0]
  /\ effect = [id \in Ids |-> "no"]
  /\ late = {} /\ up = {} /\ grants = [p \in Procs |-> {}]
  /\ turn = [p \in Procs |-> NoTurn]
  /\ job = [p \in Procs |-> [k \in Kinds |-> [id \in Ids |-> Idle]]]
  /\ boot = [p \in Procs |-> NoBoot]
  /\ crashes = 0 /\ faults = 0

Executes(p, id) ==
  \/ Claims(p, id) \/ Rechecks(p, id) \/ Runs(p, id) \/ RunIsBlocked(p, id)
  \/ RunEnds(p, id) \/ Verifies(p, id) \/ UndoBegins(p, id) \/ UndoClaims(p, id)
  \/ \E k \in Kinds : \/ Starts(p, k, id) \/ Reverts(p, k, id)
                      \/ RevertEnds(p, k, id) \/ Settles(p, k, id)
                      \/ failSafe(p, k, id) \/ TaskEnds(p, k, id)

Recovers(p) == BootLists(p) \/ BootReads(p) \/ BootSettles(p) \/ BootEnds(p)

Next ==
  \E p \in Procs :
    \/ \E a \in Asks : Proposes(p, a)
    \/ \E id \in Ids :
         \/ \E op \in Decisions : Decides(p, op, id)
         \/ TimePasses(p, id) \/ Executes(p, id)
         \/ \E k \in Kinds : SettleFails(p, k, id) \/ StepThrows(p, k, id)
    \/ Writes(p) \/ WriteFails(p) \/ Recovers(p) \/ BootFails(p)
    \/ Crash(p) \/ Boots(p)

Spec == Init /\ [][Next]_vars

\* Children have a timeout, a turn is taken in the order it was asked for, and
\* systemd restarts the service.
Fairness ==
  \A p \in Procs :
    /\ WF_vars(Writes(p)) /\ WF_vars(Recovers(p)) /\ WF_vars(Boots(p))
    /\ \A id \in Ids : SF_vars(Executes(p, id))

LiveSpec == Spec /\ Fairness

-----------------------------------------------------------------------------
Records == [ask: Asks \cup {NoAsk}, st: Status, by: Procs \cup {NoProc},
            undoing: BOOLEAN, acked: BOOLEAN]
Ops == Decisions \cup {"none", "propose", "claim"}
Tasks == [pc: {"idle", "asked", "queued", "claiming", "recheck", "ready", "running",
               "verify", "revert", "reverting", "settle", "unsaved", "lastly", "ending"},
          out: Status]

TypeOK ==
  /\ made \in 0..MaxRequests /\ rec \in [Ids -> Records]
  /\ claimed \subseteq Ids /\ undoClaimed \subseteq Ids
  /\ mains \in [Ids -> Nat] /\ undos \in [Ids -> Nat]
  /\ effect \in [Ids -> {"no", "yes", "unknown"}]
  /\ late \subseteq Procs \X Ids /\ up \subseteq Procs
  /\ grants \in [Procs -> SUBSET Ids]
  /\ turn \in [Procs -> [op: Ops, id: Ids \cup {0}, row: Records]]
  /\ job \in [Procs -> [Kinds -> [Ids -> Tasks]]]
  /\ boot \in [Procs -> [pc: {"off", "due", "list"}, todo: SUBSET Ids,
                         rows: SUBSET (Ids \X {"approved", "running"})]]
  /\ crashes \in Nat /\ faults \in Nat

\* "Runs that command ONCE": whatever was approved in how many processes, and
\* whichever of them died, a command is started at most once, and so is its undo.
RunsOnce == \A id \in Ids : mains[id] <= 1 /\ undos[id] <= 1

\* "What did not happen is not undone": an undo is started only of a command
\* that is known to have succeeded.
UndoesWhatRan ==
  [][\A id \in Ids : undos'[id] # undos[id] => effect[id] = "yes"]_vars

\* The owner decides on what the record says: what it says of the world is true.
RecordTells ==
  \A id \in Ids :
    /\ rec[id].st \in {"done", "kept"} => effect[id] = "yes"
    /\ rec[id].st = "undone" => mains[id] = 1 /\ effect[id] = "no"
    /\ rec[id].st \in {"pending", "approved", "rejected", "expired", "stale"}
         => mains[id] = 0

\* A final outcome is never replaced by another one.
FinalStays ==
  [][\A id \in Ids : rec[id].st \in Final => rec'[id].st = rec[id].st]_vars

\* What the owner approved, or asked to be undone, comes to an end, unless the
\* disk or a step fails (ApprovalEnds).
DecidedSettles ==
  \A id \in Ids : rec[id].st \in {"approved", "running"}
                    ~> rec[id].st \notin {"approved", "running"} \/ faults > 0

-----------------------------------------------------------------------------
(* What the comments promise and the code does not keep.                   *)

\* "What the owner approved and the previous process did not get to run is run
\* now; what is out of time expires" (instrumentation.ts).
RestartRunsApproved ==
  [][\A id \in Ids : rec[id].st = "approved" /\ rec'[id].st = "expired"
       => <<rec[id].by, id>> \in late]_vars

\* "approved -> expired (did not start in time)": an approval does not stand for
\* good - not even when the disk failed as it was about to start.
ApprovalEnds ==
  \A id \in Ids : rec[id].st = "approved" ~> rec[id].st # "approved"
=============================================================================
