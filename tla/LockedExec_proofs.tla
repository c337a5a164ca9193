------------------------ MODULE LockedExec_proofs ------------------------
(***************************************************************************)
(* Proofs about approved execution, for any processes, requests, crashes   *)
(* and faults: a command and its undo are started at most once, and an     *)
(* undo only of a command known to have succeeded.  And for one process    *)
(* that recovers before it serves: records are true, outcomes are final.   *)
(***************************************************************************)
EXTENDS LockedExec, TLAPS

-----------------------------------------------------------------------------
(* Type correctness.                                                       *)

\* A turn that is taken is about a request.
Addressed == \A p \in Procs : turn[p] # NoTurn => turn[p].op # "none" /\ turn[p].id \in Ids

Typed == TypeOK /\ Addressed

LEMMA NoRecordTyped == NoRecord \in Records
  BY LockedExecAssumption DEF NoRecord, Records, Status, Final

LEMMA NoTurnTyped == NoTurn \in [op: Ops, id: Ids \cup {0}, row: Records]
  BY NoRecordTyped DEF NoTurn, Ops

LEMMA IdleTyped == Idle \in Tasks
  BY DEF Idle, Tasks, Status

LEMMA WrittenTyped ==
  ASSUME NEW p \in Procs, NEW op \in Ops \ {"none"}, NEW row \in Records
  PROVE  Written(p, op, row) \in Records
  BY DEF Written, Ops, Decisions, Records, Status, Final

LEMMA ClosedTyped ==
  ASSUME NEW row \in Records, NEW out \in Status
  PROVE  Closed(row, out) \in Records
  BY DEF Closed, Records

Pcs == {"idle", "asked", "queued", "claiming", "recheck", "ready", "running", "verify",
        "revert", "reverting", "settle", "unsaved", "lastly", "ending"}

LEMMA TaskTyped ==
  /\ \A pc \in Pcs, out \in Status : Task(pc, out) \in Tasks /\ Task(pc, out).pc = pc /\ Task(pc, out).out = out
  /\ "none" \in Status
  BY DEF Task, Tasks, Status, Pcs

\* Every task but one is where it was, and that one is at pc with the outcome out.
Moved(p, k, id, pc, out) ==
  /\ job' \in [Procs -> [Kinds -> [Ids -> Tasks]]]
  /\ job'[p][k][id].pc = pc /\ job'[p][k][id].out = out
  /\ \A q \in Procs, l \in Kinds, i \in Ids :
       ~(q = p /\ l = k /\ i = id) => job'[q][l][i] = job[q][l][i]

\* What a step that sends one task somewhere does to every task.
LEMMA GoesTyped ==
  ASSUME Typed, NEW p \in Procs, NEW k \in Kinds, NEW id \in Ids,
         NEW pc \in Pcs,
         NEW out \in Status, job' = [job EXCEPT ![p][k][id] = Task(pc, out)]
  PROVE  Moved(p, k, id, pc, out)
  <1> DEFINE t == Task(pc, out)
  <1>1. t \in Tasks /\ t.pc = pc /\ t.out = out
    BY TaskTyped
  <1>2. job \in [Procs -> [Kinds -> [Ids -> Tasks]]]
    BY DEF Typed, TypeOK
  <1>3. job' = [job EXCEPT ![p] = [job[p] EXCEPT ![k] = [job[p][k] EXCEPT ![id] = t]]]
    BY <1>2
  <1> HIDE DEF t
  <1>4. job[p] \in [Kinds -> [Ids -> Tasks]] /\ job[p][k] \in [Ids -> Tasks]
    BY <1>2
  <1>5. [job[p][k] EXCEPT ![id] = t] \in [Ids -> Tasks]
    BY <1>1, <1>4
  <1>6. [job[p] EXCEPT ![k] = [job[p][k] EXCEPT ![id] = t]] \in [Kinds -> [Ids -> Tasks]]
    BY <1>4, <1>5
  <1>7. job' \in [Procs -> [Kinds -> [Ids -> Tasks]]] /\ job'[p][k][id] = t
    BY <1>2, <1>3, <1>4, <1>5, <1>6
  <1>8. \A q \in Procs, l \in Kinds, i \in Ids :
          ~(q = p /\ l = k /\ i = id) => job'[q][l][i] = job[q][l][i]
    BY <1>2, <1>3, <1>4, <1>5, <1>6
  <1> QED BY <1>1, <1>7, <1>8 DEF Moved

LEMMA TypeInit == Init => Typed
  <1> SUFFICES ASSUME Init PROVE Typed
    OBVIOUS
  <1>1. rec \in [Ids -> Records] /\ turn \in [Procs -> [op: Ops, id: Ids \cup {0}, row: Records]]
    BY NoRecordTyped, NoTurnTyped DEF Init
  <1>2. job \in [Procs -> [Kinds -> [Ids -> Tasks]]]
    BY IdleTyped DEF Init
  <1>3. TypeOK
    BY <1>1, <1>2, LockedExecAssumption DEF Init, TypeOK, NoBoot
  <1> QED BY <1>3 DEF Init, Typed, Addressed

LEMMA DecisionsTyped ==
  ASSUME Typed, NEW p \in Procs,
         \/ \E a \in Asks : Proposes(p, a)
         \/ \E id \in Ids, op \in Decisions : Decides(p, op, id)
  PROVE  Typed'
  <1>1. ASSUME NEW a \in Asks, Proposes(p, a) PROVE Typed'
    <2>1. made + 1 \in Ids /\ made' \in 0..MaxRequests
      <3>1. made < MaxRequests /\ made' = made + 1
        BY <1>1 DEF Proposes
      <3>2. made \in 0..MaxRequests
        BY DEF Typed, TypeOK
      <3> QED BY <3>1, <3>2, LockedExecAssumption DEF Ids
    <2>2. [NoRecord EXCEPT !.ask = a, !.st = "pending"] \in Records
      BY NoRecordTyped DEF Records, Status
    <2> DEFINE t == [op |-> "propose", id |-> made + 1,
                     row |-> [NoRecord EXCEPT !.ask = a, !.st = "pending"]]
    <2>3. t \in [op: Ops, id: Ids \cup {0}, row: Records] /\ t.op = "propose" /\ t.id \in Ids
      BY <2>1, <2>2 DEF Ops
    <2>4. turn' = [turn EXCEPT ![p] = t]
      BY <1>1 DEF Proposes
    <2> HIDE DEF t
    <2>5. turn' \in [Procs -> [op: Ops, id: Ids \cup {0}, row: Records]]
      BY <2>3, <2>4 DEF Typed, TypeOK
    <2>6. Addressed'
      BY <2>3, <2>4 DEF Typed, TypeOK, Addressed
    <2>7. TypeOK'
      BY <1>1, <2>1, <2>5 DEF Proposes, Typed, TypeOK, world
    <2> QED BY <2>6, <2>7 DEF Typed
  <1>2. ASSUME NEW id \in Ids, NEW op \in Decisions,
               Decides(p, op, id)
        PROVE  Typed'
    <2> DEFINE t == [op |-> op, id |-> id, row |-> rec[id]]
    <2>1. t \in [op: Ops, id: Ids \cup {0}, row: Records] /\ t.op # "none" /\ t.id \in Ids
      BY DEF Ops, Decisions, Typed, TypeOK
    <2>2. turn' = [turn EXCEPT ![p] = t]
      BY <1>2 DEF Decides
    <2> HIDE DEF t
    <2>3. turn' \in [Procs -> [op: Ops, id: Ids \cup {0}, row: Records]] /\ Addressed'
      BY <2>1, <2>2 DEF Typed, TypeOK, Addressed
    <2> QED BY <1>2, <2>3 DEF Decides, Typed, TypeOK, files, world
  <1> QED BY <1>1, <1>2

LEMMA FreedTyped ==
  ASSUME Typed, NEW p \in Procs, turn' = [turn EXCEPT ![p] = NoTurn]
  PROVE  turn' \in [Procs -> [op: Ops, id: Ids \cup {0}, row: Records]] /\ Addressed'
  BY NoTurnTyped DEF Typed, TypeOK, Addressed

LEMMA WritesTyped ==
  ASSUME Typed, NEW p \in Procs, Writes(p) \/ WriteFails(p)
  PROVE  Typed'
  <1>1. ~Free(p) /\ turn' = [turn EXCEPT ![p] = NoTurn]
    BY DEF Writes, WriteFails
  <1>2. turn[p].op \in Ops \ {"none"} /\ turn[p].id \in Ids /\ turn[p].row \in Records
    BY <1>1 DEF Typed, TypeOK, Addressed, Free
  <1>3. job' \in [Procs -> [Kinds -> [Ids -> Tasks]]]
    <2>1. ASSUME NEW k \in Kinds, NEW pc \in {"asked", "recheck", "unsaved"},
                 Goes(p, k, turn[p].id, pc)
          PROVE  job' \in [Procs -> [Kinds -> [Ids -> Tasks]]]
      <3>1. job' = [job EXCEPT ![p][k][turn[p].id] = Task(pc, "none")]
        BY <2>1 DEF Goes
      <3> DEFINE id == turn[p].id
      <3>2. id \in Ids /\ job' = [job EXCEPT ![p][k][id] = Task(pc, "none")]
        BY <1>2, <3>1
      <3> HIDE DEF id
      <3> QED BY <2>1, <3>2, GoesTyped, TaskTyped DEF Pcs, Moved
    <2>2. CASE UNCHANGED job
      BY <2>2 DEF Typed, TypeOK
    <2>3. \/ UNCHANGED job
          \/ \E k \in Kinds, pc \in {"asked", "recheck", "unsaved"} : Goes(p, k, turn[p].id, pc)
      <3>1. CASE Writes(p)
        BY <3>1 DEF Writes, Kinds
      <3>2. CASE WriteFails(p)
        BY <3>2 DEF WriteFails, Kinds
      <3> QED BY <3>1, <3>2
    <2> QED BY <2>1, <2>2, <2>3
  <1>4. rec' \in [Ids -> Records]
    <2>1. rec \in [Ids -> Records]
      BY DEF Typed, TypeOK
    <2>2. CASE Writes(p)
      <3> DEFINE w == Written(p, turn[p].op, turn[p].row)
      <3>1. rec' = [rec EXCEPT ![turn[p].id] = w]
        BY <2>2 DEF Writes
      <3>2. w \in Records
        BY <1>2, WrittenTyped
      <3> HIDE DEF w
      <3> QED BY <2>1, <3>1, <3>2
    <2>3. CASE WriteFails(p)
      BY <2>1, <2>3 DEF WriteFails, files
    <2> QED BY <2>2, <2>3
  <1>5. grants' \in [Procs -> SUBSET Ids]
    <2>1. grants \in [Procs -> SUBSET Ids]
      BY DEF Typed, TypeOK
    <2>2. \/ grants' = [grants EXCEPT ![p] = @ \cup {turn[p].id}]
          \/ grants' = grants
      BY DEF Writes, WriteFails
    <2> QED BY <1>2, <2>1, <2>2
  <1>6. faults' \in Nat
    BY DEF Writes, WriteFails, Typed, TypeOK
  <1>7. TypeOK'
    BY <1>1, <1>3, <1>4, <1>5, <1>6, FreedTyped DEF Writes, WriteFails, Typed, TypeOK, files, world
  <1> QED BY <1>1, <1>7, FreedTyped DEF Typed

LEMMA GoesMoves ==
  ASSUME Typed, NEW p \in Procs, NEW k \in Kinds, NEW id \in Ids, NEW pc \in Pcs,
         Goes(p, k, id, pc)
  PROVE  Moved(p, k, id, pc, "none")
  <1> DEFINE out == "none"
  <1>1. job' = [job EXCEPT ![p][k][id] = Task(pc, out)] /\ out \in Status
    BY TaskTyped DEF Goes
  <1> HIDE DEF out
  <1>2. Moved(p, k, id, pc, out)
    BY <1>1, GoesTyped
  <1> QED BY <1>2 DEF out

LEMMA EndsMoves ==
  ASSUME Typed, NEW p \in Procs, NEW k \in Kinds, NEW id \in Ids,
         NEW out \in Status, Ends(p, k, id, out)
  PROVE  Moved(p, k, id, "settle", out)
  <1>1. job' = [job EXCEPT ![p][k][id] = Task("settle", out)]
    BY DEF Ends
  <1> QED BY <1>1, GoesTyped DEF Pcs

LEMMA DropsMoves ==
  ASSUME Typed, NEW p \in Procs, NEW k \in Kinds, NEW id \in Ids, Drops(p, k, id)
  PROVE  Moved(p, k, id, "idle", "none")
  <1>1. job' = [job EXCEPT ![p][k][id] = Task("idle", "none")] /\ "none" \in Status
    BY TaskTyped DEF Drops, Idle, Task
  <1> QED BY <1>1, GoesTyped DEF Pcs

Outcomes == {"done", "failed", "undone", "expired", "stale"}

LEMMA OutcomesTyped == Outcomes \subseteq Status
  BY DEF Outcomes, Status, Final

\* Where each action of a task can send it.
LEMMA Claims_Moves ==
  ASSUME Typed, NEW p \in Procs, NEW id \in Ids, Claims(p, id)
  PROVE  \/ Moved(p, "run", id, "idle", "none") /\ UNCHANGED <<claimed, turn>>
         \/ Moved(p, "run", id, "settle", "expired") /\ UNCHANGED <<claimed, turn>>
         \/ /\ Moved(p, "run", id, "claiming", "none")
            /\ id \notin claimed /\ claimed' = claimed \cup {id}
            /\ turn' = [turn EXCEPT ![p] = [op |-> "claim", id |-> id, row |-> rec[id]]]
  <1>1. "run" \in Kinds /\ "expired" \in Status
    BY DEF Kinds, Status, Final
  <1>2. CASE Drops(p, "run", id) /\ UNCHANGED <<claimed, turn>>
    BY <1>1, <1>2, DropsMoves
  <1>3. CASE Ends(p, "run", id, "expired") /\ UNCHANGED <<claimed, turn>>
    BY <1>1, <1>3, EndsMoves
  <1>4. CASE /\ id \notin claimed /\ claimed' = claimed \cup {id}
             /\ turn' = [turn EXCEPT ![p] = [op |-> "claim", id |-> id, row |-> rec[id]]]
             /\ Goes(p, "run", id, "claiming")
    BY <1>1, <1>4, GoesMoves DEF Pcs
  <1> QED BY <1>2, <1>3, <1>4 DEF Claims, Wins

LEMMA Rechecks_Moves ==
  ASSUME Typed, NEW p \in Procs, NEW id \in Ids, Rechecks(p, id)
  PROVE  Moved(p, "run", id, "ready", "none") \/ Moved(p, "run", id, "settle", "stale")
  BY GoesMoves, EndsMoves DEF Pcs, Rechecks, Kinds, Status, Final

LEMMA Runs_Moves ==
  ASSUME Typed, NEW p \in Procs, NEW id \in Ids, Runs(p, id)
  PROVE  Moved(p, "run", id, "running", "none")
  BY GoesMoves DEF Pcs, Runs, Kinds

LEMMA RunIsBlocked_Moves ==
  ASSUME Typed, NEW p \in Procs, NEW id \in Ids, RunIsBlocked(p, id)
  PROVE  Moved(p, "run", id, "settle", "stale")
  BY EndsMoves DEF RunIsBlocked, Kinds, Status, Final

LEMMA RunEnds_Moves ==
  ASSUME Typed, NEW p \in Procs, NEW id \in Ids, RunEnds(p, id)
  PROVE  \/ /\ Moved(p, "run", id, "verify", "none")
            /\ effect' = [effect EXCEPT ![id] = "yes"]
         \/ Moved(p, "run", id, "settle", "failed") /\ UNCHANGED effect
  BY GoesMoves, EndsMoves DEF Pcs, RunEnds, CommandFailed, Kinds, Status, Final

LEMMA Verifies_Moves ==
  ASSUME Typed, NEW p \in Procs, NEW id \in Ids, Verifies(p, id)
  PROVE  \/ Moved(p, "run", id, "settle", "done")
         \/ Moved(p, "run", id, "settle", "failed")
         \/ Moved(p, "run", id, "revert", "none")
  BY GoesMoves, EndsMoves DEF Pcs, Verifies, Kinds, Status, Final

LEMMA StepThrows_Moves ==
  ASSUME Typed, NEW p \in Procs, NEW k \in Kinds, NEW id \in Ids, StepThrows(p, k, id)
  PROVE  Moved(p, k, id, "unsaved", "none")
  BY GoesMoves DEF Pcs, StepThrows

LEMMA UndoBegins_Moves ==
  ASSUME Typed, NEW p \in Procs, NEW id \in Ids, UndoBegins(p, id)
  PROVE  \/ Moved(p, "undo", id, "idle", "none")
         \/ rec[id].undoing /\ Moved(p, "undo", id, "recheck", "none")
         \/ Moved(p, "undo", id, "settle", "failed")
  BY GoesMoves, EndsMoves, DropsMoves DEF Pcs, UndoBegins, Kinds, Status, Final

LEMMA UndoClaims_Moves ==
  ASSUME Typed, NEW p \in Procs, NEW id \in Ids, UndoClaims(p, id)
  PROVE  \/ /\ Moved(p, "undo", id, "revert", "none")
            /\ id \notin undoClaimed /\ undoClaimed' = undoClaimed \cup {id}
         \/ Moved(p, "undo", id, "idle", "none") /\ UNCHANGED undoClaimed
  BY GoesMoves, DropsMoves DEF Pcs, UndoClaims, Wins, Kinds

LEMMA Starts_Moves ==
  ASSUME Typed, NEW p \in Procs, NEW k \in Kinds, NEW id \in Ids, Starts(p, k, id)
  PROVE  Moved(p, k, id, "idle", "none") \/ Moved(p, k, id, "queued", "none")
  BY GoesMoves, DropsMoves DEF Pcs, Starts

LEMMA Reverts_Moves ==
  ASSUME Typed, NEW p \in Procs, NEW k \in Kinds, NEW id \in Ids, Reverts(p, k, id)
  PROVE  \/ /\ Moved(p, k, id, "reverting", "none")
            /\ undos' = [undos EXCEPT ![id] = @ + 1]
            /\ effect' = [effect EXCEPT ![id] = "unknown"]
         \/ Moved(p, k, id, "settle", "failed") /\ UNCHANGED <<undos, effect>>
  BY GoesMoves, EndsMoves DEF Pcs, Reverts, Status, Final

LEMMA RevertEnds_Moves ==
  ASSUME Typed, NEW p \in Procs, NEW k \in Kinds, NEW id \in Ids, RevertEnds(p, k, id)
  PROVE  \/ Moved(p, k, id, "settle", "undone") /\ effect' = [effect EXCEPT ![id] = "no"]
         \/ Moved(p, k, id, "settle", "failed") /\ UNCHANGED effect
  BY EndsMoves DEF RevertEnds, Status, Final

LEMMA Settles_Moves ==
  ASSUME Typed, NEW p \in Procs, NEW k \in Kinds, NEW id \in Ids, Settles(p, k, id)
  PROVE  Moved(p, k, id, "ending", "none")
  BY GoesMoves DEF Pcs, Settles

LEMMA SettleFails_Moves ==
  ASSUME Typed, NEW p \in Procs, NEW k \in Kinds, NEW id \in Ids, SettleFails(p, k, id)
  PROVE  Moved(p, k, id, "unsaved", "none") \/ Moved(p, k, id, "ending", "none")
  BY GoesMoves DEF Pcs, SettleFails

LEMMA failSafe_Moves ==
  ASSUME Typed, NEW p \in Procs, NEW k \in Kinds, NEW id \in Ids, failSafe(p, k, id)
  PROVE  Moved(p, k, id, "lastly", "failed") \/ Moved(p, k, id, "ending", "none")
  <1>1. CASE job' = [job EXCEPT ![p][k][id] = Task("lastly", "failed")]
    <2>1. "failed" \in Status
      BY DEF Status, Final
    <2> QED BY <1>1, <2>1, GoesTyped DEF Pcs
  <1>2. CASE Goes(p, k, id, "ending")
    BY <1>2, GoesMoves DEF Pcs
  <1> QED BY <1>1, <1>2 DEF failSafe

LEMMA TaskEnds_Moves ==
  ASSUME Typed, NEW p \in Procs, NEW k \in Kinds, NEW id \in Ids, TaskEnds(p, k, id)
  PROVE  Moved(p, k, id, "idle", "none")
  BY DropsMoves DEF TaskEnds

\* A step of one task changes little else.
LEMMA TaskStepTyped ==
  ASSUME Typed, NEW p \in Procs, NEW id \in Ids, Executes(p, id)
  PROVE  Typed'
  <1>0. /\ job \in [Procs -> [Kinds -> [Ids -> Tasks]]] /\ rec \in [Ids -> Records]
        /\ effect \in [Ids -> {"no", "yes", "unknown"}]
        /\ mains \in [Ids -> Nat] /\ undos \in [Ids -> Nat]
    BY DEF Typed, TypeOK
  <1>1. CASE Claims(p, id)
    <2>1. job' \in [Procs -> [Kinds -> [Ids -> Tasks]]]
      BY <1>1, Claims_Moves DEF Moved
    <2>2. claimed' \subseteq Ids
      BY <1>1, Claims_Moves DEF Typed, TypeOK
    <2>3. turn' \in [Procs -> [op: Ops, id: Ids \cup {0}, row: Records]] /\ Addressed'
      <3>1. CASE UNCHANGED turn
        BY <3>1 DEF Typed, TypeOK, Addressed
      <3>2. CASE turn' = [turn EXCEPT ![p] = [op |-> "claim", id |-> id, row |-> rec[id]]]
        <4> DEFINE t == [op |-> "claim", id |-> id, row |-> rec[id]]
        <4>1. t \in [op: Ops, id: Ids \cup {0}, row: Records] /\ t.op # "none" /\ t.id \in Ids
          BY <1>0 DEF Ops
        <4>2. turn' = [turn EXCEPT ![p] = t]
          BY <3>2
        <4> HIDE DEF t
        <4> QED BY <4>1, <4>2 DEF Typed, TypeOK, Addressed
      <3> QED BY <1>1, <3>1, <3>2, Claims_Moves
    <2>4. grants' \in [Procs -> SUBSET Ids]
      <3>1. grants' = grants \/ grants' = [grants EXCEPT ![p] = @ \ {id}]
        BY <1>1 DEF Claims
      <3>2. grants \in [Procs -> SUBSET Ids]
        BY DEF Typed, TypeOK
      <3> QED BY <3>1, <3>2
    <2>5. UNCHANGED <<made, rec, undoClaimed, mains, undos, effect, late, up, boot, crashes, faults>>
      BY <1>1 DEF Claims, world
    <2> QED BY <2>1, <2>2, <2>3, <2>4, <2>5 DEF Typed, TypeOK
  <1>2. ASSUME UNCHANGED <<files, world, late, up, grants, turn, boot, crashes, faults>>,
               job' \in [Procs -> [Kinds -> [Ids -> Tasks]]]
        PROVE  Typed'
    BY <1>2 DEF Typed, TypeOK, Addressed, files, world
  <1>3. CASE Rechecks(p, id)
    BY <1>2, <1>3, Rechecks_Moves DEF Rechecks, Moved
  <1>4. CASE Runs(p, id)
    <2>1. mains' \in [Ids -> Nat] /\ effect' \in [Ids -> {"no", "yes", "unknown"}]
      BY <1>0, <1>4 DEF Runs
    <2>2. job' \in [Procs -> [Kinds -> [Ids -> Tasks]]]
      BY <1>4, Runs_Moves DEF Moved
    <2> QED BY <1>4, <2>1, <2>2 DEF Runs, Typed, TypeOK, Addressed, files
  <1>5. CASE RunIsBlocked(p, id)
    BY <1>2, <1>5, RunIsBlocked_Moves DEF RunIsBlocked, Moved
  <1>6. CASE RunEnds(p, id)
    <2>1. effect' \in [Ids -> {"no", "yes", "unknown"}]
      BY <1>0, <1>6, RunEnds_Moves
    <2>2. job' \in [Procs -> [Kinds -> [Ids -> Tasks]]]
      BY <1>6, RunEnds_Moves DEF Moved
    <2> QED BY <1>6, <2>1, <2>2 DEF RunEnds, Typed, TypeOK, Addressed, files
  <1>7. CASE Verifies(p, id)
    BY <1>2, <1>7, Verifies_Moves DEF Verifies, Moved
  <1>8. CASE UndoBegins(p, id)
    BY <1>2, <1>8, UndoBegins_Moves DEF UndoBegins, Moved
  <1>9. CASE UndoClaims(p, id)
    <2>1. undoClaimed' \subseteq Ids
      BY <1>9, UndoClaims_Moves DEF Typed, TypeOK
    <2>2. job' \in [Procs -> [Kinds -> [Ids -> Tasks]]]
      BY <1>9, UndoClaims_Moves DEF Moved
    <2> QED BY <1>9, <2>1, <2>2 DEF UndoClaims, Typed, TypeOK, Addressed, world
  <1>10. ASSUME NEW k \in Kinds, Starts(p, k, id) PROVE Typed'
    BY <1>2, <1>10, Starts_Moves DEF Starts, Moved
  <1>11. ASSUME NEW k \in Kinds, Reverts(p, k, id) PROVE Typed'
    <2>1. undos' \in [Ids -> Nat] /\ effect' \in [Ids -> {"no", "yes", "unknown"}]
      <3>1. CASE UNCHANGED <<undos, effect>>
        BY <1>0, <3>1
      <3>2. CASE /\ undos' = [undos EXCEPT ![id] = @ + 1]
                 /\ effect' = [effect EXCEPT ![id] = "unknown"]
        BY <1>0, <3>2
      <3> QED BY <1>11, <3>1, <3>2, Reverts_Moves
    <2>2. job' \in [Procs -> [Kinds -> [Ids -> Tasks]]]
      BY <1>11, Reverts_Moves DEF Moved
    <2> QED BY <1>11, <2>1, <2>2 DEF Reverts, Typed, TypeOK, Addressed, files
  <1>12. ASSUME NEW k \in Kinds, RevertEnds(p, k, id) PROVE Typed'
    <2>1. effect' \in [Ids -> {"no", "yes", "unknown"}]
      BY <1>0, <1>12, RevertEnds_Moves
    <2>2. job' \in [Procs -> [Kinds -> [Ids -> Tasks]]]
      BY <1>12, RevertEnds_Moves DEF Moved
    <2> QED BY <1>12, <2>1, <2>2 DEF RevertEnds, Typed, TypeOK, Addressed, files
  <1>13. ASSUME NEW k \in Kinds, Settles(p, k, id) PROVE Typed'
    <2> DEFINE c == Closed(rec[id], job[p][k][id].out)
    <2>1. c \in Records
      BY <1>0, ClosedTyped DEF Tasks
    <2>2. rec' = [rec EXCEPT ![id] = c]
      BY <1>13 DEF Settles
    <2> HIDE DEF c
    <2>3. rec' \in [Ids -> Records]
      BY <1>0, <2>1, <2>2
    <2>4. job' \in [Procs -> [Kinds -> [Ids -> Tasks]]]
      BY <1>13, Settles_Moves DEF Moved
    <2> QED BY <1>13, <2>3, <2>4 DEF Settles, Typed, TypeOK, Addressed, world
  <1>14. ASSUME NEW k \in Kinds, failSafe(p, k, id) PROVE Typed'
    BY <1>2, <1>14, failSafe_Moves DEF failSafe, Moved
  <1>15. ASSUME NEW k \in Kinds, TaskEnds(p, k, id) PROVE Typed'
    BY <1>2, <1>15, TaskEnds_Moves DEF TaskEnds, Moved
  <1> QED BY <1>1, <1>3, <1>4, <1>5, <1>6, <1>7, <1>8, <1>9, <1>10, <1>11, <1>12, <1>13,
             <1>14, <1>15 DEF Executes

LEMMA FaultsTyped ==
  ASSUME Typed, NEW p \in Procs, NEW k \in Kinds, NEW id \in Ids,
         SettleFails(p, k, id) \/ StepThrows(p, k, id)
  PROVE  Typed'
  <1>1. job' \in [Procs -> [Kinds -> [Ids -> Tasks]]]
    BY SettleFails_Moves, StepThrows_Moves DEF Moved
  <1>2. faults' \in Nat
    BY DEF SettleFails, StepThrows, Typed, TypeOK
  <1> QED BY <1>1, <1>2 DEF SettleFails, StepThrows, Typed, TypeOK, Addressed, files, world

BootType == [pc: {"off", "due", "list"}, todo: SUBSET Ids,
             rows: SUBSET (Ids \X {"approved", "running"})]

LEMMA NoBootTyped == NoBoot \in BootType /\ [NoBoot EXCEPT !.pc = "due"] \in BootType
  BY DEF NoBoot, BootType

LEMMA BootTyped ==
  ASSUME Typed, NEW p \in Procs, Recovers(p) \/ BootFails(p) \/ Crash(p) \/ Boots(p)
  PROVE  Typed'
  <1>0. boot \in [Procs -> BootType] /\ boot[p] \in BootType /\ rec \in [Ids -> Records]
    BY DEF Typed, TypeOK, BootType
  <1>1. ASSUME NEW b \in BootType, boot' = [boot EXCEPT ![p] = b],
               UNCHANGED <<made, claimed, undoClaimed, world, late, up, grants, turn, job>>,
               rec' \in [Ids -> Records], crashes' \in Nat, faults' \in Nat
        PROVE  Typed'
    <2>1. boot' \in [Procs -> BootType]
      BY <1>0, <1>1
    <2> QED BY <1>1, <2>1 DEF Typed, TypeOK, Addressed, BootType, world
  <1>2. CASE BootLists(p)
    <2> DEFINE b == [boot[p] EXCEPT !.pc = "list", !.todo = {id \in Ids : rec[id].st # "none"}]
    <2>1. b \in BootType
      BY <1>0 DEF BootType
    <2>2. boot' = [boot EXCEPT ![p] = b]
      BY <1>0, <1>2 DEF BootLists
    <2> HIDE DEF b
    <2> QED BY <1>0, <1>1, <1>2, <2>1, <2>2 DEF BootLists, files, Typed, TypeOK
  <1>3. CASE BootReads(p)
    <2>1. PICK id \in boot[p].todo :
            boot' = [boot EXCEPT ![p].todo = @ \ {id},
                                 ![p].rows = IF rec[id].st \in {"approved", "running"}
                                               THEN @ \cup {<<id, rec[id].st>>} ELSE @]
      BY <1>3 DEF BootReads
    <2> DEFINE rows == IF rec[id].st \in {"approved", "running"}
                         THEN boot[p].rows \cup {<<id, rec[id].st>>} ELSE boot[p].rows
               b == [boot[p] EXCEPT !.todo = @ \ {id}, !.rows = rows]
    <2>2. id \in Ids
      BY <1>0 DEF BootType
    <2>3. rows \in SUBSET (Ids \X {"approved", "running"})
      BY <1>0, <2>2 DEF BootType
    <2>4. boot' = [boot EXCEPT ![p] = b]
      BY <1>0, <2>1
    <2>5. b \in BootType
      <3> HIDE DEF rows
      <3> QED BY <1>0, <2>3 DEF BootType
    <2> HIDE DEF b
    <2> QED BY <1>0, <1>1, <1>3, <2>4, <2>5 DEF BootReads, files, Typed, TypeOK
  <1>4. CASE BootSettles(p)
    <2>1. PICK row \in boot[p].rows :
            /\ rec' = [rec EXCEPT ![row[1]] = Closed(@, RecoversAs(row[2]))]
            /\ boot' = [boot EXCEPT ![p].rows = @ \ {row}]
      BY <1>4 DEF BootSettles
    <2> DEFINE b == [boot[p] EXCEPT !.rows = @ \ {row}]
               c == Closed(rec[row[1]], RecoversAs(row[2]))
    <2>2. row[1] \in Ids
      BY <1>0 DEF BootType
    <2>3. RecoversAs(row[2]) \in Status
      BY DEF RecoversAs, Status, Final
    <2>4. c \in Records /\ rec' = [rec EXCEPT ![row[1]] = c]
      BY <1>0, <2>1, <2>2, <2>3, ClosedTyped
    <2>5. b \in BootType /\ boot' = [boot EXCEPT ![p] = b]
      BY <1>0, <2>1 DEF BootType
    <2> HIDE DEF b, c
    <2>6. rec' \in [Ids -> Records]
      BY <1>0, <2>2, <2>4
    <2> QED BY <1>1, <1>4, <2>5, <2>6 DEF BootSettles, Typed, TypeOK
  <1>5. CASE BootFails(p) \/ BootEnds(p)
    BY <1>0, <1>1, <1>5, NoBootTyped DEF BootFails, BootEnds, files, Typed, TypeOK
  <1>6. CASE Crash(p)
    <2>1. boot' \in [Procs -> BootType]
      BY <1>0, <1>6, NoBootTyped DEF Crash
    <2>2. turn' \in [Procs -> [op: Ops, id: Ids \cup {0}, row: Records]] /\ Addressed'
      BY <1>6, FreedTyped DEF Crash
    <2>3. job' \in [Procs -> [Kinds -> [Ids -> Tasks]]]
      BY <1>6, IdleTyped DEF Crash, Typed, TypeOK
    <2>4. grants' \in [Procs -> SUBSET Ids] /\ up' \subseteq Procs /\ crashes' \in Nat
      BY <1>6 DEF Crash, Typed, TypeOK
    <2> QED BY <1>6, <2>1, <2>2, <2>3, <2>4 DEF Crash, Typed, TypeOK, BootType, files, world
  <1>7. CASE Boots(p)
    <2>1. boot' \in [Procs -> BootType]
      BY <1>0, <1>7, NoBootTyped DEF Boots
    <2> QED BY <1>7, <2>1 DEF Boots, Typed, TypeOK, Addressed, BootType, files, world
  <1> QED BY <1>2, <1>3, <1>4, <1>5, <1>6, <1>7 DEF Recovers

LEMMA TypeNext == Typed /\ [Next]_vars => Typed'
  <1> SUFFICES ASSUME Typed, [Next]_vars PROVE Typed'
    OBVIOUS
  <1>1. CASE UNCHANGED vars
    BY <1>1 DEF vars, files, world, Typed, TypeOK, Addressed
  <1>2. ASSUME NEW p \in Procs, NEW id \in Ids, TimePasses(p, id) PROVE Typed'
    BY <1>2 DEF TimePasses, Typed, TypeOK, Addressed, files, world
  <1> QED BY <1>1, <1>2, DecisionsTyped, TaskStepTyped, FaultsTyped, WritesTyped, BootTyped
          DEF Next

\* Type correctness of approved execution, for any processes and bounds.
THEOREM ApprovalTyped == Spec => []TypeOK
  <1>1. Spec => []Typed
    BY TypeInit, TypeNext, PTL DEF Spec
  <1>2. Typed => TypeOK
    BY DEF Typed
  <1> QED BY <1>1, <1>2, PTL

-----------------------------------------------------------------------------
(* At most once.                                                           *)

\* Between the claim and the last line of runSteps; and before the command is started.
Main == {"claiming", "recheck", "ready", "running", "verify", "revert", "reverting"}
Early == {"claiming", "recheck", "ready"}

Running(p, id) == job[p]["run"][id].pc \in Main
Undoing(p, id) == job[p]["undo"][id].pc \in {"revert", "reverting"}

\* Something says that the command succeeded: the record, a row that was read, a
\* task about to say so, an undo under way.
Succeeded(id) ==
  \/ rec[id].st = "done" \/ rec[id].undoing
  \/ \E p \in Procs : turn[p].id = id /\ (turn[p].row.st = "done" \/ turn[p].row.undoing)
  \/ \E p \in Procs, k \in Kinds : job[p][k][id].out = "done"
  \/ \E p \in Procs : job[p]["undo"][id].pc \in {"recheck", "revert", "reverting"}

\* What a turn will write is what it was taken for.
TurnsMatch ==
  \A p \in Procs :
    /\ turn[p].op = "undo" => turn[p].row.st = "done"
    /\ turn[p].op = "claim" => job[p]["run"][turn[p].id].pc = "claiming"

\* One execution has the claim, and what it did is counted.
RunIsClaimed(id) ==
  /\ \A p \in Procs : Running(p, id) => id \in claimed
  /\ \A p, q \in Procs : Running(p, id) /\ Running(q, id) => p = q
  /\ id \notin claimed => mains[id] = 0 /\ undos[id] = 0
  /\ \A p \in Procs :
       /\ job[p]["run"][id].pc \in Early => mains[id] = 0
       /\ Running(p, id) /\ job[p]["run"][id].pc # "reverting" => undos[id] = 0
       /\ job[p]["run"][id].pc \in {"verify", "revert"} => effect[id] = "yes"

\* What succeeded is no longer being executed, and it was not undone on the way.
SuccessIsOver(id) ==
  Succeeded(id) =>
    /\ id \in claimed /\ \A p \in Procs : ~Running(p, id)
    /\ id \notin undoClaimed => undos[id] = 0 /\ effect[id] = "yes"

\* One undo has the undo's claim.
UndoIsClaimed(id) ==
  /\ \A p \in Procs : Undoing(p, id) => id \in undoClaimed
  /\ \A p, q \in Procs : Undoing(p, id) /\ Undoing(q, id) => p = q
  /\ \A p \in Procs : job[p]["undo"][id].pc = "revert" => undos[id] = 0 /\ effect[id] = "yes"

OnceAt(id) ==
  /\ RunIsClaimed(id) /\ SuccessIsOver(id) /\ UndoIsClaimed(id)
  /\ mains[id] <= 1 /\ undos[id] <= 1

OnceInv == TurnsMatch /\ \A id \in Ids : OnceAt(id)

LEMMA KindsAre == "run" \in Kinds /\ "undo" \in Kinds
  BY DEF Kinds

LEMMA OnceInit == Init => OnceInv
  <1> SUFFICES ASSUME Init PROVE OnceInv
    OBVIOUS
  <1>1. \A p \in Procs, k \in Kinds, id \in Ids :
          job[p][k][id].pc = "idle" /\ job[p][k][id].out = "none"
    BY DEF Init, Idle
  <1>2. \A p \in Procs : /\ turn[p].op = "none" /\ turn[p].id = 0
                         /\ turn[p].row.st = "none" /\ turn[p].row.undoing = FALSE
    BY DEF Init, NoTurn, NoRecord
  <1>3. ASSUME NEW id \in Ids PROVE OnceAt(id)
    <2>1. /\ rec[id].st = "none" /\ rec[id].undoing = FALSE
          /\ mains[id] = 0 /\ undos[id] = 0 /\ id \notin claimed
      BY <1>3 DEF Init, NoRecord
    <2>2. \A p \in Procs : ~Running(p, id) /\ ~Undoing(p, id)
                           /\ job[p]["run"][id].pc = "idle" /\ job[p]["undo"][id].pc = "idle"
      BY <1>1, KindsAre DEF Running, Undoing, Main
    <2>3. ~Succeeded(id)
      BY <1>1, <1>2, <2>1, <2>2 DEF Succeeded
    <2> QED BY <2>1, <2>2, <2>3 DEF OnceAt, RunIsClaimed, SuccessIsOver, UndoIsClaimed, Early
  <1>4. TurnsMatch
    BY <1>2 DEF TurnsMatch
  <1> QED BY <1>3, <1>4 DEF OnceInv

\* A step that starts nothing, and after which nothing new says that a command
\* succeeded, keeps the invariant.
LEMMA Keeps ==
  ASSUME OnceInv, UNCHANGED <<world, claimed, undoClaimed>>, TurnsMatch',
         \A p \in Procs, i \in Ids :
           \/ ~Running(p, i)'
           \/ job'[p]["run"][i].pc = job[p]["run"][i].pc
           \/ job'[p]["run"][i].pc \in Early /\ job[p]["run"][i].pc \in Early,
         \A p \in Procs, i \in Ids :
           ~Undoing(p, i)' \/ job'[p]["undo"][i].pc = job[p]["undo"][i].pc,
         \A i \in Ids : Succeeded(i)' => Succeeded(i)
  PROVE  OnceInv'
  <1> SUFFICES ASSUME NEW i \in Ids PROVE OnceAt(i)'
    BY DEF OnceInv
  <1>1. OnceAt(i)
    BY DEF OnceInv
  <1>2. \A p \in Procs : Running(p, i)' => Running(p, i)
    BY DEF Running, Main, Early
  <1>3. \A p \in Procs : Undoing(p, i)' => Undoing(p, i)
    BY DEF Undoing
  <1>4. /\ mains'[i] = mains[i] /\ undos'[i] = undos[i] /\ effect'[i] = effect[i]
        /\ claimed' = claimed /\ undoClaimed' = undoClaimed
    BY DEF world
  <1>5. RunIsClaimed(i)'
    BY <1>1, <1>2, <1>4 DEF OnceAt, RunIsClaimed, Running, Main, Early
  <1>6. SuccessIsOver(i)'
    BY <1>1, <1>2, <1>4 DEF OnceAt, SuccessIsOver
  <1>7. UndoIsClaimed(i)'
    BY <1>1, <1>3, <1>4 DEF OnceAt, UndoIsClaimed, Undoing
  <1> QED BY <1>1, <1>4, <1>5, <1>6, <1>7 DEF OnceAt

\* A task that leaves for a place where nothing is executed, with nothing to say
\* of success, keeps the invariant.
LEMMA Retires ==
  ASSUME Typed, OnceInv, NEW p \in Procs, NEW k \in Kinds, NEW id \in Ids,
         NEW pc \in Pcs \ (Main \cup {"recheck"}), NEW out \in Status \ {"done"},
         Moved(p, k, id, pc, out), job[p][k][id].pc # "claiming",
         UNCHANGED <<rec, turn, world, claimed, undoClaimed>>
  PROVE  OnceInv'
  <1>1. TurnsMatch'
    <2> SUFFICES ASSUME NEW q \in Procs, turn[q].op = "claim"
                 PROVE  job'[q]["run"][turn[q].id].pc = "claiming"
      BY DEF TurnsMatch, OnceInv
    <2>1. turn[q].id \in Ids
      BY DEF Typed, Addressed, NoTurn
    <2>2. job[q]["run"][turn[q].id].pc = "claiming"
      BY DEF OnceInv, TurnsMatch
    <2>3. ~(q = p /\ "run" = k /\ turn[q].id = id)
      BY <2>2
    <2> QED BY <2>1, <2>2, <2>3, KindsAre DEF Moved
  <1>2. ASSUME NEW q \in Procs, NEW i \in Ids, Running(q, i)'
        PROVE  job'[q]["run"][i].pc = job[q]["run"][i].pc
    <2>1. ~(q = p /\ "run" = k /\ i = id)
      BY <1>2 DEF Moved, Running
    <2> QED BY <2>1, KindsAre DEF Moved
  <1>3. ASSUME NEW q \in Procs, NEW i \in Ids, Undoing(q, i)'
        PROVE  job'[q]["undo"][i].pc = job[q]["undo"][i].pc
    <2>1. ~(q = p /\ "undo" = k /\ i = id)
      BY <1>3 DEF Moved, Undoing, Main
    <2> QED BY <2>1, KindsAre DEF Moved
  <1>4. ASSUME NEW i \in Ids, Succeeded(i)' PROVE Succeeded(i)
    <2>1. CASE \/ rec'[i].st = "done" \/ rec'[i].undoing
               \/ \E q \in Procs : turn'[q].id = i /\ (turn'[q].row.st = "done" \/ turn'[q].row.undoing)
      BY <2>1 DEF Succeeded
    <2>2. CASE \E q \in Procs, l \in Kinds : job'[q][l][i].out = "done"
      <3>1. PICK q \in Procs, l \in Kinds : job'[q][l][i].out = "done"
        BY <2>2
      <3>2. ~(q = p /\ l = k /\ i = id)
        BY <3>1 DEF Moved
      <3>3. job[q][l][i].out = "done"
        BY <3>1, <3>2 DEF Moved
      <3> QED BY <3>3 DEF Succeeded
    <2>3. CASE \E q \in Procs : job'[q]["undo"][i].pc \in {"recheck", "revert", "reverting"}
      <3>1. PICK q \in Procs : job'[q]["undo"][i].pc \in {"recheck", "revert", "reverting"}
        BY <2>3
      <3>2. ~(q = p /\ "undo" = k /\ i = id)
        BY <3>1 DEF Moved, Main
      <3>3. job'[q]["undo"][i] = job[q]["undo"][i]
        BY <3>2, KindsAre DEF Moved
      <3> QED BY <3>1, <3>3 DEF Succeeded
    <2> QED BY <1>4, <2>1, <2>2, <2>3 DEF Succeeded
  <1> QED BY <1>1, <1>2, <1>3, <1>4, Keeps DEF world

\* A task's step leaves every other request alone.
LEMMA Elsewhere ==
  ASSUME OnceInv, NEW p \in Procs, NEW k \in Kinds, NEW id \in Ids, NEW pc, NEW out,
         Moved(p, k, id, pc, out), NEW i \in Ids \ {id},
         rec'[i] = rec[i], mains'[i] = mains[i], undos'[i] = undos[i],
         effect'[i] = effect[i], i \in claimed' <=> i \in claimed,
         i \in undoClaimed' <=> i \in undoClaimed,
         \A q \in Procs : turn'[q] = turn[q] \/ turn'[q].id # i
  PROVE  OnceAt(i)'
  <1>1. OnceAt(i)
    BY DEF OnceInv
  <1>2. \A q \in Procs, l \in Kinds : job'[q][l][i] = job[q][l][i]
    BY DEF Moved
  <1>3. \A q \in Procs : /\ Running(q, i)' <=> Running(q, i)
                         /\ Undoing(q, i)' <=> Undoing(q, i)
                         /\ job'[q]["run"][i] = job[q]["run"][i]
                         /\ job'[q]["undo"][i] = job[q]["undo"][i]
    BY <1>2, KindsAre DEF Running, Undoing
  <1>4. Succeeded(i)' => Succeeded(i)
    BY <1>2, <1>3 DEF Succeeded
  <1>5. RunIsClaimed(i)'
    BY <1>1, <1>3 DEF OnceAt, RunIsClaimed
  <1>6. SuccessIsOver(i)'
    BY <1>1, <1>3, <1>4 DEF OnceAt, SuccessIsOver
  <1>7. UndoIsClaimed(i)'
    BY <1>1, <1>3 DEF OnceAt, UndoIsClaimed
  <1> QED BY <1>1, <1>5, <1>6, <1>7 DEF OnceAt

\* A turn that claims is that of a task that is claiming.
LEMMA TurnsStay ==
  ASSUME Typed, OnceInv, NEW p \in Procs, NEW k \in Kinds, NEW id \in Ids, NEW pc, NEW out,
         Moved(p, k, id, pc, out), job[p][k][id].pc # "claiming", UNCHANGED turn
  PROVE  TurnsMatch'
  <1> SUFFICES ASSUME NEW q \in Procs, turn[q].op = "claim"
               PROVE  job'[q]["run"][turn[q].id].pc = "claiming"
    BY DEF TurnsMatch, OnceInv
  <1>1. turn[q].id \in Ids
    BY DEF Typed, Addressed, NoTurn
  <1>2. job[q]["run"][turn[q].id].pc = "claiming"
    BY DEF OnceInv, TurnsMatch
  <1>3. ~(q = p /\ "run" = k /\ turn[q].id = id)
    BY <1>2
  <1> QED BY <1>1, <1>2, <1>3, KindsAre DEF Moved

LEMMA ClaimsOnce ==
  ASSUME Typed, OnceInv, NEW p \in Procs, NEW id \in Ids, Claims(p, id)
  PROVE  OnceInv'
  <1>0. job[p]["run"][id].pc = "queued" /\ UNCHANGED <<rec, undoClaimed, world>>
    BY DEF Claims, At
  <1>1. CASE Moved(p, "run", id, "idle", "none") /\ UNCHANGED <<claimed, turn>>
    BY <1>0, <1>1, Retires, KindsAre DEF Pcs, Main, Status
  <1>2. CASE Moved(p, "run", id, "settle", "expired") /\ UNCHANGED <<claimed, turn>>
    BY <1>0, <1>2, Retires, KindsAre DEF Pcs, Main, Status, Final
  <1>3. CASE /\ Moved(p, "run", id, "claiming", "none")
             /\ id \notin claimed /\ claimed' = claimed \cup {id}
             /\ turn' = [turn EXCEPT ![p] = [op |-> "claim", id |-> id, row |-> rec[id]]]
    <2>0. OnceAt(id) /\ TurnsMatch
      BY DEF OnceInv
    <2>1. /\ turn'[p].op = "claim" /\ turn'[p].id = id /\ turn'[p].row = rec[id]
          /\ \A q \in Procs \ {p} : turn'[q] = turn[q]
      BY <1>3 DEF Typed, TypeOK
    <2>2. ~Succeeded(id) /\ \A q \in Procs : ~Running(q, id)
      BY <1>3, <2>0 DEF OnceAt, SuccessIsOver, RunIsClaimed
    <2>3. \A q \in Procs : Running(q, id)' => q = p
      BY <1>3, <2>2, KindsAre DEF Moved, Running
    <2>4. \A q \in Procs : /\ job'[q]["undo"][id] = job[q]["undo"][id]
                           /\ Undoing(q, id)' <=> Undoing(q, id)
      BY <1>3, KindsAre DEF Moved, Undoing
    <2>5. ~Succeeded(id)'
      <3>1. ~(rec'[id].st = "done") /\ ~rec'[id].undoing
        BY <1>0, <2>2 DEF Succeeded
      <3>2. ASSUME NEW q \in Procs, turn'[q].id = id
            PROVE  ~(turn'[q].row.st = "done") /\ ~turn'[q].row.undoing
        BY <1>0, <2>1, <2>2, <3>1, <3>2 DEF Succeeded
      <3>3. ASSUME NEW q \in Procs, NEW l \in Kinds PROVE job'[q][l][id].out # "done"
        BY <1>3, <2>2 DEF Succeeded, Moved
      <3>4. ASSUME NEW q \in Procs
            PROVE  job'[q]["undo"][id].pc \notin {"recheck", "revert", "reverting"}
        BY <2>2, <2>4 DEF Succeeded
      <3> QED BY <3>1, <3>2, <3>3, <3>4 DEF Succeeded
    <2>6. mains'[id] = 0 /\ undos'[id] = 0 /\ UNCHANGED <<mains, undos, effect>>
      BY <1>0, <1>3, <2>0 DEF OnceAt, RunIsClaimed, world
    <2>7. RunIsClaimed(id)'
      <3>1. job'[p]["run"][id].pc = "claiming" /\ id \in claimed'
        BY <1>3 DEF Moved
      <3> QED BY <2>3, <2>6, <3>1 DEF RunIsClaimed, Running, Main
    <2>8. UndoIsClaimed(id)'
      BY <1>0, <2>0, <2>4, <2>6 DEF OnceAt, UndoIsClaimed
    <2>9. OnceAt(id)'
      BY <2>5, <2>6, <2>7, <2>8 DEF OnceAt, SuccessIsOver
    <2>10. ASSUME NEW i \in Ids \ {id} PROVE OnceAt(i)'
      BY <1>0, <1>3, <2>1, <2>6, Elsewhere, KindsAre
    <2>11. TurnsMatch'
      <3>1. ASSUME NEW q \in Procs \ {p}, turn[q].op = "claim"
            PROVE  job'[q]["run"][turn[q].id].pc = "claiming"
        <4>1. turn[q].id \in Ids
          BY <3>1 DEF Typed, Addressed, NoTurn
        <4> QED BY <1>3, <2>0, <3>1, <4>1, KindsAre DEF TurnsMatch, Moved
      <3>2. job'[p]["run"][id].pc = "claiming"
        BY <1>3 DEF Moved
      <3> QED BY <2>0, <2>1, <3>1, <3>2 DEF TurnsMatch
    <2> QED BY <2>9, <2>10, <2>11 DEF OnceInv
  <1> QED BY <1>1, <1>2, <1>3, Claims_Moves

LEMMA RechecksOnce ==
  ASSUME Typed, OnceInv, NEW p \in Procs, NEW id \in Ids, Rechecks(p, id)
  PROVE  OnceInv'
  <1>0. job[p]["run"][id].pc = "recheck"
        /\ UNCHANGED <<rec, turn, world, claimed, undoClaimed>>
    BY DEF Rechecks, At, files
  <1>1. CASE Moved(p, "run", id, "settle", "stale")
    BY <1>0, <1>1, Retires, KindsAre DEF Pcs, Main, Status, Final
  <1>2. CASE Moved(p, "run", id, "ready", "none")
    <2>1. TurnsMatch'
      BY <1>0, <1>2, TurnsStay, KindsAre
    <2>2. ASSUME NEW q \in Procs, NEW i \in Ids
          PROVE  \/ job'[q]["run"][i].pc = job[q]["run"][i].pc
                 \/ job'[q]["run"][i].pc \in Early /\ job[q]["run"][i].pc \in Early
      BY <1>0, <1>2, KindsAre DEF Moved, Early
    <2>3. ASSUME NEW q \in Procs, NEW i \in Ids
          PROVE  job'[q]["undo"][i].pc = job[q]["undo"][i].pc
      BY <1>2, KindsAre DEF Moved
    <2>4. ASSUME NEW i \in Ids, Succeeded(i)' PROVE Succeeded(i)
      <3>1. ASSUME NEW q \in Procs, NEW l \in Kinds, job'[q][l][i].out = "done"
            PROVE  job[q][l][i].out = "done"
        BY <1>2, <3>1 DEF Moved
      <3> QED BY <1>0, <2>3, <2>4, <3>1 DEF Succeeded
    <2> QED BY <1>0, <2>1, <2>2, <2>3, <2>4, Keeps
  <1> QED BY <1>1, <1>2, Rechecks_Moves

\* The run of p is the only one of the request, and nothing says it succeeded.
LEMMA Alone ==
  ASSUME OnceInv, NEW p \in Procs, NEW id \in Ids, Running(p, id)
  PROVE  /\ id \in claimed /\ ~Succeeded(id)
         /\ \A q \in Procs : Running(q, id) => q = p
         /\ \A q \in Procs : ~Undoing(q, id)
  BY DEF OnceInv, OnceAt, RunIsClaimed, SuccessIsOver, Undoing, Succeeded

\* What the only run of a request does, as long as it says nothing of success.
LEMMA RunGoesOn ==
  ASSUME Typed, OnceInv, NEW p \in Procs, NEW id \in Ids, Running(p, id),
         job[p]["run"][id].pc # "claiming",
         NEW pc \in Pcs, NEW out \in Status \ {"done"}, Moved(p, "run", id, pc, out),
         UNCHANGED <<rec, turn, claimed, undoClaimed>>,
         mains'[id] \in {0, 1}, undos'[id] \in {0, 1},
         pc \in Early => mains'[id] = 0,
         pc \in Main \ {"reverting"} => undos'[id] = 0,
         pc \in {"verify", "revert"} => effect'[id] = "yes",
         \A i \in Ids \ {id} : /\ mains'[i] = mains[i] /\ undos'[i] = undos[i]
                              /\ effect'[i] = effect[i]
  PROVE  OnceInv'
  <1>1. /\ id \in claimed /\ ~Succeeded(id)
        /\ \A q \in Procs : Running(q, id) => q = p
        /\ \A q \in Procs : ~Undoing(q, id)
    BY Alone
  <1>2. job'[p]["run"][id].pc = pc /\ job'[p]["run"][id].out = out
    BY DEF Moved
  <1>3. \A q \in Procs \ {p} : job'[q]["run"][id] = job[q]["run"][id]
    BY KindsAre DEF Moved
  <1>4. \A q \in Procs : job'[q]["undo"][id] = job[q]["undo"][id]
    BY KindsAre DEF Moved
  <1>5. \A q \in Procs : Running(q, id)' => q = p
    BY <1>1, <1>3 DEF Running
  <1>6. RunIsClaimed(id)'
    <2>1. \A q \in Procs :
            /\ job'[q]["run"][id].pc \in Early => mains'[id] = 0
            /\ Running(q, id)' /\ job'[q]["run"][id].pc # "reverting" => undos'[id] = 0
            /\ job'[q]["run"][id].pc \in {"verify", "revert"} => effect'[id] = "yes"
      BY <1>2, <1>5 DEF Running, Main, Early
    <2> QED BY <1>1, <1>5, <2>1 DEF RunIsClaimed
  <1>7. ~Succeeded(id)'
    <2>1. ~(rec'[id].st = "done") /\ ~rec'[id].undoing
      BY <1>1 DEF Succeeded
    <2>2. ASSUME NEW q \in Procs, turn'[q].id = id
          PROVE  ~(turn'[q].row.st = "done") /\ ~turn'[q].row.undoing
      BY <1>1, <2>2 DEF Succeeded
    <2>3. ASSUME NEW q \in Procs, NEW l \in Kinds PROVE job'[q][l][id].out # "done"
      BY <1>1 DEF Succeeded, Moved
    <2>4. ASSUME NEW q \in Procs
          PROVE  job'[q]["undo"][id].pc \notin {"recheck", "revert", "reverting"}
      BY <1>1, <1>4 DEF Succeeded
    <2> QED BY <2>1, <2>2, <2>3, <2>4 DEF Succeeded
  <1>8. UndoIsClaimed(id)'
    BY <1>1, <1>4 DEF UndoIsClaimed, Undoing
  <1>9. OnceAt(id)'
    BY <1>6, <1>7, <1>8 DEF OnceAt, SuccessIsOver
  <1>10. ASSUME NEW i \in Ids \ {id} PROVE OnceAt(i)'
    BY KindsAre, Elsewhere
  <1>11. TurnsMatch'
    BY KindsAre, TurnsStay
  <1> QED BY <1>9, <1>10, <1>11 DEF OnceInv

LEMMA RunsOnceStep ==
  ASSUME Typed, OnceInv, NEW p \in Procs, NEW id \in Ids,
         Runs(p, id) \/ RunEnds(p, id)
  PROVE  OnceInv'
  <1>0. /\ mains \in [Ids -> Nat] /\ undos \in [Ids -> Nat]
        /\ effect \in [Ids -> {"no", "yes", "unknown"}]
    BY DEF Typed, TypeOK
  <1>a. RunIsClaimed(id) /\ mains[id] <= 1 /\ undos[id] <= 1
    BY DEF OnceInv, OnceAt
  <1>b. mains[id] \in {0, 1} /\ undos[id] \in {0, 1}
    BY <1>0, <1>a
  <1>1. CASE Runs(p, id)
    <2>1. job[p]["run"][id].pc = "ready" /\ Moved(p, "run", id, "running", "none")
          /\ UNCHANGED <<rec, turn, claimed, undoClaimed, undos>>
      BY <1>1, Runs_Moves DEF Runs, At, files
    <2>2. mains[id] = 0 /\ undos[id] = 0 /\ Running(p, id)
      BY <1>a, <2>1 DEF RunIsClaimed, Early, Running, Main
    <2>3. mains'[id] = 1 /\ \A i \in Ids \ {id} : mains'[i] = mains[i] /\ effect'[i] = effect[i]
      BY <1>0, <1>1, <2>2 DEF Runs
    <2> QED BY <2>1, <2>2, <2>3, RunGoesOn DEF Pcs, Status, Early
  <1>2. CASE RunEnds(p, id)
    <2>1. job[p]["run"][id].pc = "running"
          /\ UNCHANGED <<rec, turn, claimed, undoClaimed, undos, mains>>
      BY <1>2 DEF RunEnds, At, files
    <2>2. undos[id] = 0 /\ Running(p, id)
      BY <1>a, <2>1 DEF RunIsClaimed, Running, Main
    <2>3. CASE Moved(p, "run", id, "verify", "none") /\ effect' = [effect EXCEPT ![id] = "yes"]
      <3>1. effect'[id] = "yes" /\ \A i \in Ids \ {id} : effect'[i] = effect[i]
        BY <1>0, <2>3
      <3> QED BY <1>b, <2>1, <2>2, <2>3, <3>1, RunGoesOn DEF Pcs, Status, Early
    <2>4. CASE Moved(p, "run", id, "settle", "failed") /\ UNCHANGED effect
      BY <2>1, <2>4, Retires, KindsAre DEF Pcs, Main, Status, Final, world
    <2> QED BY <1>2, <2>3, <2>4, RunEnds_Moves
  <1> QED BY <1>1, <1>2

LEMMA VerifiesOnce ==
  ASSUME Typed, OnceInv, NEW p \in Procs, NEW id \in Ids, Verifies(p, id)
  PROVE  OnceInv'
  <1>0. job[p]["run"][id].pc = "verify"
        /\ UNCHANGED <<rec, turn, claimed, undoClaimed, world>>
    BY DEF Verifies, At, files
  <1>a. OnceAt(id)
    BY DEF OnceInv
  <1>b. /\ Running(p, id) /\ undos[id] = 0 /\ effect[id] = "yes" /\ mains[id] <= 1
    BY <1>0, <1>a DEF OnceAt, RunIsClaimed, Running, Main
  <1>c. mains[id] \in {0, 1} /\ UNCHANGED <<mains, undos, effect>>
    <2>1. mains[id] \in Nat
      BY DEF Typed, TypeOK
    <2> QED BY <1>0, <1>b, <2>1 DEF world
  <1>1. CASE Moved(p, "run", id, "settle", "failed")
    BY <1>0, <1>1, Retires, KindsAre DEF Pcs, Main, Status, Final
  <1>2. CASE Moved(p, "run", id, "revert", "none")
    BY <1>0, <1>2, <1>b, <1>c, RunGoesOn DEF Pcs, Status, Early
  <1>3. CASE Moved(p, "run", id, "settle", "done")
    <2>1. /\ id \in claimed /\ ~Succeeded(id)
          /\ \A q \in Procs : Running(q, id) => q = p
          /\ \A q \in Procs : ~Undoing(q, id)
      BY <1>b, Alone
    <2>2. /\ job'[p]["run"][id].pc = "settle"
          /\ \A q \in Procs \ {p} : job'[q]["run"][id] = job[q]["run"][id]
          /\ \A q \in Procs : job'[q]["undo"][id] = job[q]["undo"][id]
      BY <1>3, KindsAre DEF Moved
    <2>3. \A q \in Procs : ~Running(q, id)' /\ ~Undoing(q, id)'
      BY <2>1, <2>2 DEF Running, Undoing, Main
    <2>4. RunIsClaimed(id)'
      BY <1>0, <2>1, <2>3 DEF RunIsClaimed, Running, Main, Early
    <2>5. SuccessIsOver(id)'
      BY <1>0, <1>b, <1>c, <2>1, <2>3 DEF SuccessIsOver
    <2>6. UndoIsClaimed(id)'
      BY <2>3 DEF UndoIsClaimed, Undoing
    <2>7. OnceAt(id)'
      BY <1>b, <1>c, <2>4, <2>5, <2>6 DEF OnceAt
    <2>8. ASSUME NEW i \in Ids \ {id} PROVE OnceAt(i)'
      BY <1>0, <1>3, <1>c, KindsAre, Elsewhere
    <2>9. TurnsMatch'
      BY <1>0, <1>3, KindsAre, TurnsStay
    <2> QED BY <2>7, <2>8, <2>9 DEF OnceInv
  <1> QED BY <1>1, <1>2, <1>3, Verifies_Moves

\* What an undo the owner asked for does.
LEMMA UndoGoesOn ==
  ASSUME Typed, OnceInv, NEW p \in Procs, NEW id \in Ids, Succeeded(id),
         NEW pc \in Pcs, NEW out \in Status \ {"done"}, Moved(p, "undo", id, pc, out),
         job[p]["undo"][id].pc # "claiming",
         UNCHANGED <<rec, turn, claimed, mains>>, undos'[id] <= 1,
         undoClaimed \subseteq undoClaimed', undoClaimed' \subseteq undoClaimed \cup {id},
         pc \in {"revert", "reverting"} =>
           id \in undoClaimed' /\ \A q \in Procs : Undoing(q, id) => q = p,
         pc = "revert" => undos'[id] = 0 /\ effect'[id] = "yes",
         id \notin undoClaimed' => undos'[id] = 0 /\ effect'[id] = "yes",
         ~Undoing(p, id) => undos'[id] = undos[id] /\ effect'[id] = effect[id],
         \A i \in Ids \ {id} : undos'[i] = undos[i] /\ effect'[i] = effect[i]
  PROVE  OnceInv'
  <1>0. OnceAt(id)
    BY DEF OnceInv
  <1>1. id \in claimed /\ \A q \in Procs : ~Running(q, id)
    BY <1>0 DEF OnceAt, SuccessIsOver
  <1>2. /\ job'[p]["undo"][id].pc = pc
        /\ \A q \in Procs : job'[q]["run"][id] = job[q]["run"][id]
        /\ \A q \in Procs \ {p} : job'[q]["undo"][id] = job[q]["undo"][id]
    BY KindsAre DEF Moved
  <1>3. \A q \in Procs : ~Running(q, id)'
    BY <1>1, <1>2 DEF Running
  <1>4. RunIsClaimed(id)'
    BY <1>1, <1>3 DEF RunIsClaimed, Running, Main, Early
  <1>5. SuccessIsOver(id)'
    BY <1>1, <1>3 DEF SuccessIsOver
  <1>6. UndoIsClaimed(id)'
    <2>1. ASSUME NEW q \in Procs, Undoing(q, id)' PROVE id \in undoClaimed'
      BY <1>0, <1>2, <2>1 DEF OnceAt, UndoIsClaimed, Undoing
    <2>2. ASSUME NEW q \in Procs, NEW r \in Procs, Undoing(q, id)', Undoing(r, id)'
          PROVE  q = r
      <3>1. CASE Undoing(p, id)'
        BY <1>2, <2>2, <3>1 DEF Undoing
      <3>2. CASE ~Undoing(p, id)'
        BY <1>0, <1>2, <2>2, <3>2 DEF OnceAt, UndoIsClaimed, Undoing
      <3> QED BY <3>1, <3>2
    <2>3. ASSUME NEW q \in Procs, job'[q]["undo"][id].pc = "revert"
          PROVE  undos'[id] = 0 /\ effect'[id] = "yes"
      <3>1. CASE q = p
        BY <1>2, <2>3, <3>1
      <3>2. CASE q # p
        <4>1. job[q]["undo"][id].pc = "revert" /\ Undoing(q, id)
          BY <1>2, <2>3, <3>2 DEF Undoing
        <4>2. ~Undoing(p, id)
          BY <1>0, <3>2, <4>1 DEF OnceAt, UndoIsClaimed
        <4> QED BY <1>0, <4>1, <4>2 DEF OnceAt, UndoIsClaimed
      <3> QED BY <3>1, <3>2
    <2> QED BY <2>1, <2>2, <2>3 DEF UndoIsClaimed
  <1>7. OnceAt(id)'
    BY <1>0, <1>4, <1>5, <1>6 DEF OnceAt
  <1>8. ASSUME NEW i \in Ids \ {id} PROVE OnceAt(i)'
    BY KindsAre, Elsewhere
  <1>9. TurnsMatch'
    BY KindsAre, TurnsStay
  <1> QED BY <1>7, <1>8, <1>9 DEF OnceInv

LEMMA UndoBeginsOnce ==
  ASSUME Typed, OnceInv, NEW p \in Procs, NEW id \in Ids, UndoBegins(p, id)
  PROVE  OnceInv'
  <1>0. job[p]["undo"][id].pc = "queued"
        /\ UNCHANGED <<rec, turn, claimed, undoClaimed, world>>
    BY DEF UndoBegins, At, files
  <1>1. CASE Moved(p, "undo", id, "idle", "none")
    BY <1>0, <1>1, Retires, KindsAre DEF Pcs, Main, Status, Final
  <1>2. CASE Moved(p, "undo", id, "settle", "failed")
    BY <1>0, <1>2, Retires, KindsAre DEF Pcs, Main, Status, Final
  <1>3. CASE rec[id].undoing /\ Moved(p, "undo", id, "recheck", "none")
    <2>1. Succeeded(id)
      BY <1>3 DEF Succeeded
    <2>2. OnceAt(id) /\ UNCHANGED <<mains, undos, effect>>
      BY <1>0 DEF OnceInv, world
    <2> QED BY <1>0, <1>3, <2>1, <2>2, UndoGoesOn
            DEF OnceAt, SuccessIsOver, Pcs, Status
  <1> QED BY <1>1, <1>2, <1>3, UndoBegins_Moves

LEMMA UndoClaimsOnce ==
  ASSUME Typed, OnceInv, NEW p \in Procs, NEW id \in Ids, UndoClaims(p, id)
  PROVE  OnceInv'
  <1>0. job[p]["undo"][id].pc = "recheck" /\ UNCHANGED <<rec, turn, claimed, world>>
    BY DEF UndoClaims, At
  <1>1. CASE Moved(p, "undo", id, "idle", "none") /\ UNCHANGED undoClaimed
    BY <1>0, <1>1, Retires, KindsAre DEF Pcs, Main, Status, Final
  <1>2. CASE /\ Moved(p, "undo", id, "revert", "none")
             /\ id \notin undoClaimed /\ undoClaimed' = undoClaimed \cup {id}
    <2>1. Succeeded(id)
      BY <1>0 DEF Succeeded
    <2>2. OnceAt(id) /\ UNCHANGED <<mains, undos, effect>>
      BY <1>0 DEF OnceInv, world
    <2>3. /\ undos[id] = 0 /\ effect[id] = "yes"
          /\ \A q \in Procs : ~Undoing(q, id)
      BY <1>2, <2>1, <2>2 DEF OnceAt, SuccessIsOver, UndoIsClaimed
    <2> QED BY <1>0, <1>2, <2>1, <2>2, <2>3, UndoGoesOn DEF Pcs, Status
  <1> QED BY <1>1, <1>2, UndoClaims_Moves

LEMMA CountsAre ==
  ASSUME Typed, OnceInv, NEW id \in Ids
  PROVE  mains[id] \in {0, 1} /\ undos[id] \in {0, 1}
  <1>1. mains[id] \in Nat /\ undos[id] \in Nat
    BY DEF Typed, TypeOK
  <1>2. mains[id] <= 1 /\ undos[id] <= 1
    BY DEF OnceInv, OnceAt
  <1> QED BY <1>1, <1>2

LEMMA RunRevertsOnce ==
  ASSUME Typed, OnceInv, NEW p \in Procs, NEW id \in Ids,
         job[p]["run"][id].pc = "revert", Moved(p, "run", id, "reverting", "none"),
         undos'[id] = undos[id] + 1, UNCHANGED <<rec, turn, claimed, undoClaimed, mains>>,
         \A i \in Ids \ {id} : undos'[i] = undos[i] /\ effect'[i] = effect[i]
  PROVE  OnceInv'
  <1>1. Running(p, id) /\ undos[id] = 0
    BY DEF OnceInv, OnceAt, RunIsClaimed, Running, Main
  <1>2. undos'[id] = 1 /\ mains'[id] \in {0, 1}
    BY <1>1, CountsAre
  <1> QED BY <1>1, <1>2, RunGoesOn DEF Pcs, Status, Early

LEMMA RunRevertEndsOnce ==
  ASSUME Typed, OnceInv, NEW p \in Procs, NEW id \in Ids,
         job[p]["run"][id].pc = "reverting", Moved(p, "run", id, "settle", "undone"),
         UNCHANGED <<rec, turn, claimed, undoClaimed, mains, undos>>,
         \A i \in Ids \ {id} : effect'[i] = effect[i]
  PROVE  OnceInv'
  <1>1. Running(p, id)
    BY DEF Running, Main
  <1>2. undos'[id] \in {0, 1} /\ mains'[id] \in {0, 1}
    BY CountsAre
  <1> QED BY <1>1, <1>2, RunGoesOn DEF Pcs, Status, Final, Early, Main

LEMMA UndoRevertsOnce ==
  ASSUME Typed, OnceInv, NEW p \in Procs, NEW id \in Ids,
         job[p]["undo"][id].pc = "revert", Moved(p, "undo", id, "reverting", "none"),
         undos'[id] = undos[id] + 1, UNCHANGED <<rec, turn, claimed, undoClaimed, mains>>,
         \A i \in Ids \ {id} : undos'[i] = undos[i] /\ effect'[i] = effect[i]
  PROVE  OnceInv'
  <1>1. /\ Undoing(p, id) /\ Succeeded(id) /\ undos[id] = 0 /\ id \in undoClaimed
        /\ \A q \in Procs : Undoing(q, id) => q = p
    BY DEF OnceInv, OnceAt, UndoIsClaimed, Undoing, Succeeded
  <1>2. /\ undos'[id] <= 1 /\ id \in undoClaimed' /\ job[p]["undo"][id].pc # "claiming"
        /\ undoClaimed \subseteq undoClaimed' /\ undoClaimed' \subseteq undoClaimed \cup {id}
    BY <1>1
  <1>3. "reverting" \in Pcs /\ "none" \in Status \ {"done"}
    BY DEF Pcs, Status
  <1> DEFINE pc == "reverting"
             out == "none"
  <1>4. /\ pc \in Pcs /\ out \in Status \ {"done"} /\ Moved(p, "undo", id, pc, out)
        /\ pc # "revert"
    BY <1>3
  <1> HIDE DEF pc, out
  <1> QED BY <1>1, <1>2, <1>4, UndoGoesOn

LEMMA UndoRevertEndsOnce ==
  ASSUME Typed, OnceInv, NEW p \in Procs, NEW id \in Ids,
         job[p]["undo"][id].pc = "reverting", Moved(p, "undo", id, "settle", "undone"),
         UNCHANGED <<rec, turn, claimed, undoClaimed, mains, undos>>,
         \A i \in Ids \ {id} : effect'[i] = effect[i]
  PROVE  OnceInv'
  <1>1. Undoing(p, id) /\ Succeeded(id) /\ undos[id] <= 1 /\ id \in undoClaimed
    BY DEF OnceInv, OnceAt, UndoIsClaimed, Undoing, Succeeded
  <1>2. /\ undos'[id] <= 1 /\ id \in undoClaimed' /\ job[p]["undo"][id].pc # "claiming"
        /\ undoClaimed \subseteq undoClaimed' /\ undoClaimed' \subseteq undoClaimed \cup {id}
        /\ \A i \in Ids \ {id} : undos'[i] = undos[i]
    BY <1>1
  <1> DEFINE pc == "settle"
             out == "undone"
  <1>3. /\ pc \in Pcs /\ out \in Status \ {"done"} /\ Moved(p, "undo", id, pc, out)
        /\ pc \notin {"revert", "reverting"}
    BY DEF Pcs, Status, Final
  <1> HIDE DEF pc, out
  <1> QED BY <1>1, <1>2, <1>3, UndoGoesOn

LEMMA RevertsOnce ==
  ASSUME Typed, OnceInv, NEW p \in Procs, NEW k \in Kinds, NEW id \in Ids, Reverts(p, k, id)
  PROVE  OnceInv'
  <1>0. /\ job[p][k][id].pc = "revert"
        /\ UNCHANGED <<rec, turn, claimed, undoClaimed, mains>>
    BY DEF Reverts, At, files
  <1>1. CASE Moved(p, k, id, "settle", "failed") /\ UNCHANGED <<undos, effect>>
    BY <1>0, <1>1, Retires DEF Pcs, Main, Status, Final, world
  <1>2. CASE /\ Moved(p, k, id, "reverting", "none")
             /\ undos' = [undos EXCEPT ![id] = @ + 1]
             /\ effect' = [effect EXCEPT ![id] = "unknown"]
    <2>1. undos'[id] = undos[id] + 1
          /\ \A i \in Ids \ {id} : undos'[i] = undos[i] /\ effect'[i] = effect[i]
      BY <1>2 DEF Typed, TypeOK
    <2>3. CASE k = "run"
      <3>1. job[p]["run"][id].pc = "revert" /\ Moved(p, "run", id, "reverting", "none")
        BY <1>0, <1>2, <2>3
      <3> QED BY <1>0, <2>1, <3>1, RunRevertsOnce
    <2>4. CASE k = "undo"
      <3>1. job[p]["undo"][id].pc = "revert" /\ Moved(p, "undo", id, "reverting", "none")
        BY <1>0, <1>2, <2>4
      <3> QED BY <1>0, <2>1, <3>1, UndoRevertsOnce
    <2> QED BY <2>3, <2>4 DEF Kinds
  <1> QED BY <1>1, <1>2, Reverts_Moves

LEMMA RevertEndsOnce ==
  ASSUME Typed, OnceInv, NEW p \in Procs, NEW k \in Kinds, NEW id \in Ids,
         RevertEnds(p, k, id)
  PROVE  OnceInv'
  <1>0. /\ job[p][k][id].pc = "reverting"
        /\ UNCHANGED <<rec, turn, claimed, undoClaimed, mains, undos>>
    BY DEF RevertEnds, At, files
  <1>1. CASE Moved(p, k, id, "settle", "failed") /\ UNCHANGED effect
    BY <1>0, <1>1, Retires DEF Pcs, Main, Status, Final, world
  <1>2. CASE Moved(p, k, id, "settle", "undone") /\ effect' = [effect EXCEPT ![id] = "no"]
    <2>1. \A i \in Ids \ {id} : effect'[i] = effect[i]
      BY <1>2 DEF Typed, TypeOK
    <2>3. CASE k = "run"
      <3>1. job[p]["run"][id].pc = "reverting" /\ Moved(p, "run", id, "settle", "undone")
        BY <1>0, <1>2, <2>3
      <3> QED BY <1>0, <2>1, <3>1, RunRevertEndsOnce
    <2>4. CASE k = "undo"
      <3>1. job[p]["undo"][id].pc = "reverting" /\ Moved(p, "undo", id, "settle", "undone")
        BY <1>0, <1>2, <2>4
      <3> QED BY <1>0, <2>1, <3>1, UndoRevertEndsOnce
    <2> QED BY <2>3, <2>4 DEF Kinds
  <1> QED BY <1>1, <1>2, RevertEnds_Moves

LEMMA SettlesOnce ==
  ASSUME Typed, OnceInv, NEW p \in Procs, NEW k \in Kinds, NEW id \in Ids, Settles(p, k, id)
  PROVE  OnceInv'
  <1>0. /\ job[p][k][id].pc \in {"settle", "lastly"} /\ Moved(p, k, id, "ending", "none")
        /\ UNCHANGED <<turn, claimed, undoClaimed, world>>
    BY Settles_Moves DEF Settles
  <1>a. rec'[id].st = job[p][k][id].out /\ rec'[id].undoing = FALSE
        /\ \A i \in Ids \ {id} : rec'[i] = rec[i]
    BY DEF Settles, Closed, Typed, TypeOK, Records
  <1>1. TurnsMatch'
    BY <1>0, TurnsStay
  <1>2. \A q \in Procs, i \in Ids : Running(q, i)' => job'[q]["run"][i].pc = job[q]["run"][i].pc
    BY <1>0, KindsAre DEF Moved, Running, Main
  <1>3. \A q \in Procs, i \in Ids : Undoing(q, i)' => job'[q]["undo"][i].pc = job[q]["undo"][i].pc
    BY <1>0, KindsAre DEF Moved, Undoing, Main
  <1>4. ASSUME NEW i \in Ids, Succeeded(i)' PROVE Succeeded(i)
    <2>1. CASE rec'[i].st = "done" \/ rec'[i].undoing
      BY <1>a, <2>1 DEF Succeeded
    <2>2. CASE \E q \in Procs : turn'[q].id = i /\ (turn'[q].row.st = "done" \/ turn'[q].row.undoing)
      BY <1>0, <2>2 DEF Succeeded
    <2>3. CASE \E q \in Procs, l \in Kinds : job'[q][l][i].out = "done"
      <3>1. PICK q \in Procs, l \in Kinds : job'[q][l][i].out = "done"
        BY <2>3
      <3>2. ~(q = p /\ l = k /\ i = id)
        BY <1>0, <3>1 DEF Moved
      <3>3. job[q][l][i].out = "done"
        BY <1>0, <3>1, <3>2 DEF Moved
      <3> QED BY <3>3 DEF Succeeded
    <2>4. CASE \E q \in Procs : job'[q]["undo"][i].pc \in {"recheck", "revert", "reverting"}
      <3>1. PICK q \in Procs : job'[q]["undo"][i].pc \in {"recheck", "revert", "reverting"}
        BY <2>4
      <3>2. ~(q = p /\ "undo" = k /\ i = id)
        BY <1>0, <3>1 DEF Moved
      <3>3. job'[q]["undo"][i] = job[q]["undo"][i]
        BY <1>0, <3>2, KindsAre DEF Moved
      <3> QED BY <3>1, <3>3 DEF Succeeded
    <2> QED BY <1>4, <2>1, <2>2, <2>3, <2>4 DEF Succeeded
  <1> QED BY <1>0, <1>1, <1>2, <1>3, <1>4, Keeps

\* The other steps of a task, and those that fail.
LEMMA OthersOnce ==
  ASSUME Typed, OnceInv, NEW p \in Procs, NEW k \in Kinds, NEW id \in Ids,
         \/ RunIsBlocked(p, id) \/ Starts(p, k, id) \/ StepThrows(p, k, id)
         \/ SettleFails(p, k, id) \/ failSafe(p, k, id) \/ TaskEnds(p, k, id)
  PROVE  OnceInv'
  <1>1. CASE RunIsBlocked(p, id)
    BY <1>1, RunIsBlocked_Moves, Retires, KindsAre
       DEF RunIsBlocked, At, files, Pcs, Main, Status, Final
  <1>2. CASE Starts(p, k, id)
    BY <1>2, Starts_Moves, Retires DEF Starts, At, files, Pcs, Main, Status
  <1>3. CASE StepThrows(p, k, id)
    BY <1>3, StepThrows_Moves, Retires DEF StepThrows, At, files, Pcs, Main, Status
  <1>4. CASE SettleFails(p, k, id)
    BY <1>4, SettleFails_Moves, Retires DEF SettleFails, files, Pcs, Main, Status
  <1>5. CASE failSafe(p, k, id)
    BY <1>5, failSafe_Moves, Retires DEF failSafe, At, files, Pcs, Main, Status, Final
  <1>6. CASE TaskEnds(p, k, id)
    BY <1>6, TaskEnds_Moves, Retires DEF TaskEnds, At, files, Pcs, Main, Status
  <1> QED BY <1>1, <1>2, <1>3, <1>4, <1>5, <1>6

\* A step that touches no task and no file of the world keeps the invariant if it
\* brings no new word of success.
LEMMA Quiet ==
  ASSUME OnceInv, UNCHANGED <<world, claimed, undoClaimed, job>>, TurnsMatch',
         \A i \in Ids : rec'[i].st = "done" => rec[i].st = "done" \/ Succeeded(i),
         \A i \in Ids : rec'[i].undoing => Succeeded(i),
         \A i \in Ids, q \in Procs :
           turn'[q].id = i /\ (turn'[q].row.st = "done" \/ turn'[q].row.undoing) => Succeeded(i)
  PROVE  OnceInv'
  <1>1. ASSUME NEW i \in Ids, Succeeded(i)' PROVE Succeeded(i)
    BY <1>1 DEF Succeeded
  <1>2. \A q \in Procs, i \in Ids : /\ job'[q]["run"][i] = job[q]["run"][i]
                                   /\ job'[q]["undo"][i] = job[q]["undo"][i]
    OBVIOUS
  <1> QED BY <1>1, <1>2, Keeps

LEMMA DecisionsOnce ==
  ASSUME Typed, OnceInv, NEW p \in Procs,
         \/ \E a \in Asks : Proposes(p, a)
         \/ \E id \in Ids, op \in Decisions : Decides(p, op, id)
  PROVE  OnceInv'
  <1>0. turn \in [Procs -> [op: Ops, id: Ids \cup {0}, row: Records]]
    BY DEF Typed, TypeOK
  <1>1. ASSUME NEW a \in Asks, Proposes(p, a) PROVE OnceInv'
    <2>1. /\ turn'[p].op = "propose" /\ turn'[p].row.st = "pending"
          /\ turn'[p].row.undoing = FALSE /\ \A q \in Procs \ {p} : turn'[q] = turn[q]
          /\ UNCHANGED <<rec, world, claimed, undoClaimed, job>>
      <3>1. /\ [NoRecord EXCEPT !.ask = a, !.st = "pending"].st = "pending"
            /\ [NoRecord EXCEPT !.ask = a, !.st = "pending"].undoing = FALSE
        BY DEF NoRecord
      <3> DEFINE r == [NoRecord EXCEPT !.ask = a, !.st = "pending"]
      <3>2. turn' = [turn EXCEPT ![p] = [op |-> "propose", id |-> made + 1, row |-> r]]
            /\ UNCHANGED <<rec, world, claimed, undoClaimed, job>>
        BY <1>1 DEF Proposes
      <3> HIDE DEF r
      <3>3. r.st = "pending" /\ r.undoing = FALSE
        BY <3>1 DEF r
      <3> QED BY <1>0, <3>2, <3>3
    <2>2. TurnsMatch'
      BY <2>1 DEF OnceInv, TurnsMatch
    <2>3. ASSUME NEW i \in Ids, NEW q \in Procs, turn'[q].id = i,
                 turn'[q].row.st = "done" \/ turn'[q].row.undoing
          PROVE  Succeeded(i)
      BY <2>1, <2>3 DEF Succeeded
    <2> QED BY <2>1, <2>2, <2>3, Quiet DEF Succeeded
  <1>2. ASSUME NEW id \in Ids, NEW op \in Decisions,
               Decides(p, op, id)
        PROVE  OnceInv'
    <2>1. /\ turn'[p].op = op /\ turn'[p].id = id /\ turn'[p].row = rec[id]
          /\ \A q \in Procs \ {p} : turn'[q] = turn[q]
          /\ UNCHANGED <<rec, world, claimed, undoClaimed, job>>
      BY <1>0, <1>2 DEF Decides, files
    <2>2. op = "undo" => rec[id].st = "done"
      BY <1>2 DEF Decides, Allowed
    <2>3. TurnsMatch'
      BY <2>1, <2>2 DEF OnceInv, TurnsMatch, Decisions
    <2>4. ASSUME NEW i \in Ids, NEW q \in Procs, turn'[q].id = i,
                 turn'[q].row.st = "done" \/ turn'[q].row.undoing
          PROVE  Succeeded(i)
      BY <2>1, <2>4 DEF Succeeded
    <2> QED BY <2>1, <2>3, <2>4, Quiet DEF Succeeded
  <1> QED BY <1>1, <1>2

\* A turn that ends: its request's record may change, and one task of its process.
LEMMA TurnEndsOnce ==
  ASSUME Typed, OnceInv, NEW p \in Procs, turn' = [turn EXCEPT ![p] = NoTurn],
         UNCHANGED <<world, claimed, undoClaimed>>,
         \A i \in Ids : rec'[i].st = "done" \/ rec'[i].undoing => Succeeded(i),
         \A q \in Procs \ {p}, l \in Kinds, i \in Ids : job'[q][l][i] = job[q][l][i],
         \A l \in Kinds, i \in Ids :
           \/ job'[p][l][i] = job[p][l][i]
           \/ job'[p][l][i].out = "none" /\ job'[p][l][i].pc \in {"asked", "unsaved"}
           \/ /\ l = "run" /\ job'[p][l][i].out = "none"
              /\ job'[p][l][i].pc \in Early /\ job[p][l][i].pc \in Early
  PROVE  OnceInv'
  <1>0. /\ \A q \in Procs \ {p} : turn'[q] = turn[q]
        /\ turn'[p].op = "none" /\ turn'[p].row.st = "none" /\ turn'[p].row.undoing = FALSE
    BY DEF Typed, TypeOK, NoTurn, NoRecord
  <1>1. TurnsMatch'
    <2> SUFFICES ASSUME NEW q \in Procs \ {p}, turn[q].op = "claim"
                 PROVE  job'[q]["run"][turn[q].id].pc = "claiming"
      BY <1>0 DEF TurnsMatch, OnceInv
    <2>1. turn[q].id \in Ids
      BY DEF Typed, Addressed, NoTurn
    <2> QED BY <2>1, KindsAre DEF OnceInv, TurnsMatch
  <1>2. ASSUME NEW q \in Procs, NEW i \in Ids, Running(q, i)'
        PROVE  \/ job'[q]["run"][i].pc = job[q]["run"][i].pc
               \/ job'[q]["run"][i].pc \in Early /\ job[q]["run"][i].pc \in Early
    <2>1. job'[q]["run"][i].pc \notin {"asked", "unsaved"}
      BY <1>2 DEF Running, Main
    <2> QED BY <2>1, KindsAre
  <1>3. ASSUME NEW q \in Procs, NEW i \in Ids,
               job'[q]["undo"][i].pc \in {"recheck", "revert", "reverting"}
        PROVE  job'[q]["undo"][i].pc = job[q]["undo"][i].pc
    BY <1>3, KindsAre
  <1>4. ASSUME NEW i \in Ids, Succeeded(i)' PROVE Succeeded(i)
    <2>1. CASE rec'[i].st = "done" \/ rec'[i].undoing
      BY <2>1
    <2>2. CASE \E q \in Procs : turn'[q].id = i /\ (turn'[q].row.st = "done" \/ turn'[q].row.undoing)
      BY <1>0, <2>2 DEF Succeeded
    <2>3. CASE \E q \in Procs, l \in Kinds : job'[q][l][i].out = "done"
      <3>1. PICK q \in Procs, l \in Kinds : job'[q][l][i].out = "done"
        BY <2>3
      <3>2. job'[q][l][i] = job[q][l][i]
        BY <3>1
      <3> QED BY <3>1, <3>2 DEF Succeeded
    <2>4. CASE \E q \in Procs : job'[q]["undo"][i].pc \in {"recheck", "revert", "reverting"}
      BY <1>3, <2>4 DEF Succeeded
    <2> QED BY <1>4, <2>1, <2>2, <2>3, <2>4 DEF Succeeded
  <1>5. \A q \in Procs, i \in Ids :
          ~Undoing(q, i)' \/ job'[q]["undo"][i].pc = job[q]["undo"][i].pc
    BY <1>3 DEF Undoing
  <1> QED BY <1>1, <1>2, <1>4, <1>5, Keeps

LEMMA WriteFailsOnce ==
  ASSUME Typed, OnceInv, NEW p \in Procs, WriteFails(p)
  PROVE  OnceInv'
  <1>0. /\ turn' = [turn EXCEPT ![p] = NoTurn] /\ turn[p].id \in Ids
        /\ UNCHANGED <<rec, world, claimed, undoClaimed>>
    BY DEF WriteFails, Typed, Addressed, Free, files
  <1>1. \/ UNCHANGED job
        \/ Moved(p, "run", turn[p].id, "unsaved", "none")
    BY <1>0, GoesMoves, KindsAre DEF WriteFails, Pcs
  <1>2. \A q \in Procs \ {p}, l \in Kinds, i \in Ids : job'[q][l][i] = job[q][l][i]
    BY <1>1 DEF Moved
  <1>3. \A l \in Kinds, i \in Ids :
          \/ job'[p][l][i] = job[p][l][i]
          \/ job'[p][l][i].out = "none" /\ job'[p][l][i].pc \in {"asked", "unsaved"}
    BY <1>0, <1>1 DEF Moved
  <1>4. \A i \in Ids : rec'[i].st = "done" \/ rec'[i].undoing => Succeeded(i)
    BY <1>0 DEF Succeeded
  <1> QED BY <1>0, <1>2, <1>3, <1>4, TurnEndsOnce

LEMMA WritesOnce ==
  ASSUME Typed, OnceInv, NEW p \in Procs, Writes(p)
  PROVE  OnceInv'
  <1> DEFINE id == turn[p].id
             op == turn[p].op
             row == turn[p].row
             w == Written(p, op, row)
  <1>0. /\ turn' = [turn EXCEPT ![p] = NoTurn] /\ id \in Ids /\ op \in Ops \ {"none"}
        /\ row \in Records /\ UNCHANGED <<world, claimed, undoClaimed>>
    BY DEF Writes, Typed, TypeOK, Addressed, Free
  <1>1. \/ UNCHANGED job
        \/ \E k \in Kinds : Moved(p, k, id, "asked", "none")
        \/ op = "claim" /\ Moved(p, "run", id, "recheck", "none")
    <2>1. \/ UNCHANGED job
          \/ \E k \in Kinds : Goes(p, k, id, "asked")
          \/ op = "claim" /\ Goes(p, "run", id, "recheck")
      BY KindsAre DEF Writes
    <2>2. "asked" \in Pcs /\ "recheck" \in Pcs
      BY DEF Pcs
    <2> QED BY <1>0, <2>1, <2>2, GoesMoves, KindsAre
  <1>2. op = "claim" => job[p]["run"][id].pc = "claiming"
    BY DEF OnceInv, TurnsMatch
  <1>3. \A q \in Procs \ {p}, l \in Kinds, i \in Ids : job'[q][l][i] = job[q][l][i]
    BY <1>1 DEF Moved
  <1>4. \A l \in Kinds, i \in Ids :
          \/ job'[p][l][i] = job[p][l][i]
          \/ job'[p][l][i].out = "none" /\ job'[p][l][i].pc \in {"asked", "unsaved"}
          \/ /\ l = "run" /\ job'[p][l][i].out = "none"
             /\ job'[p][l][i].pc \in Early /\ job[p][l][i].pc \in Early
    <2>1. CASE UNCHANGED job
      BY <2>1
    <2>2. ASSUME NEW k \in Kinds, Moved(p, k, id, "asked", "none")
          PROVE  \A l \in Kinds, i \in Ids :
                   \/ job'[p][l][i] = job[p][l][i]
                   \/ job'[p][l][i].out = "none" /\ job'[p][l][i].pc \in {"asked", "unsaved"}
      BY <1>0, <2>2 DEF Moved
    <2>3. CASE op = "claim" /\ Moved(p, "run", id, "recheck", "none")
      BY <1>0, <1>2, <2>3 DEF Moved, Early
    <2> QED BY <1>1, <2>1, <2>2, <2>3
  <1>5. ASSUME NEW i \in Ids, rec'[i].st = "done" \/ rec'[i].undoing
        PROVE  Succeeded(i)
    <2>1. rec' = [rec EXCEPT ![id] = w] /\ rec \in [Ids -> Records]
      BY DEF Writes, Typed, TypeOK
    <2>2. op = "undo" => row.st = "done"
      BY DEF OnceInv, TurnsMatch
    <2>3. w.st = "done" \/ w.undoing => row.st = "done" \/ row.undoing
      BY <1>0, <2>2 DEF Written, Ops, Decisions, Records
    <2> HIDE DEF w
    <2>4. CASE i = id
      <3>1. rec'[i] = w
        BY <2>1, <2>4
      <3> QED BY <1>5, <2>3, <2>4, <3>1 DEF Succeeded
    <2>5. CASE i # id
      BY <1>5, <2>1, <2>5 DEF Succeeded
    <2> QED BY <2>4, <2>5
  <1> HIDE DEF w
  <1> QED BY <1>0, <1>3, <1>4, <1>5, TurnEndsOnce

LEMMA BootOnce ==
  ASSUME Typed, OnceInv, NEW p \in Procs, Recovers(p) \/ BootFails(p) \/ Boots(p)
  PROVE  OnceInv'
  <1>1. UNCHANGED <<turn, job, world, claimed, undoClaimed>>
    BY DEF Recovers, BootLists, BootReads, BootSettles, BootEnds, BootFails, Boots, files
  <1>2. ASSUME NEW i \in Ids, rec'[i].st = "done" \/ rec'[i].undoing PROVE Succeeded(i)
    <2>1. CASE UNCHANGED rec
      BY <1>2, <2>1 DEF Succeeded
    <2>2. CASE BootSettles(p)
      <3>1. PICK row \in boot[p].rows :
              rec' = [rec EXCEPT ![row[1]] = Closed(@, RecoversAs(row[2]))]
        BY <2>2 DEF BootSettles
      <3>2. rec \in [Ids -> Records]
        BY DEF Typed, TypeOK
      <3>3. /\ Closed(rec[i], RecoversAs(row[2])).st # "done"
            /\ Closed(rec[i], RecoversAs(row[2])).undoing = FALSE
        BY <3>2 DEF Closed, RecoversAs, Records
      <3>4. rec'[i] = rec[i]
        BY <1>2, <3>1, <3>2, <3>3
      <3> QED BY <1>2, <3>4 DEF Succeeded
    <2> QED BY <2>1, <2>2
            DEF Recovers, BootLists, BootReads, BootEnds, BootFails, Boots, files
  <1>3. TurnsMatch'
    BY <1>1 DEF OnceInv, TurnsMatch
  <1> QED BY <1>1, <1>2, <1>3, Quiet DEF Succeeded

LEMMA CrashOnce ==
  ASSUME Typed, OnceInv, NEW p \in Procs, Crash(p)
  PROVE  OnceInv'
  <1>1. /\ turn' = [turn EXCEPT ![p] = NoTurn]
        /\ UNCHANGED <<rec, world, claimed, undoClaimed>>
        /\ \A q \in Procs \ {p} : job'[q] = job[q]
        /\ \A l \in Kinds, i \in Ids : job'[p][l][i].pc = "idle" /\ job'[p][l][i].out = "none"
    BY DEF Crash, files, Typed, TypeOK, Idle
  <1>0. /\ \A q \in Procs \ {p} : turn'[q] = turn[q]
        /\ turn'[p].op = "none" /\ turn'[p].row.st = "none" /\ turn'[p].row.undoing = FALSE
    BY <1>1 DEF Typed, TypeOK, NoTurn, NoRecord
  <1>2. TurnsMatch'
    BY <1>0, <1>1 DEF OnceInv, TurnsMatch
  <1>3. ASSUME NEW q \in Procs, NEW i \in Ids
        PROVE  /\ ~Running(q, i)' \/ job'[q]["run"][i].pc = job[q]["run"][i].pc
               /\ ~Undoing(q, i)' \/ job'[q]["undo"][i].pc = job[q]["undo"][i].pc
    BY <1>1, KindsAre DEF Running, Undoing, Main
  <1>4. ASSUME NEW i \in Ids, Succeeded(i)' PROVE Succeeded(i)
    <2>1. CASE rec'[i].st = "done" \/ rec'[i].undoing
      BY <1>1, <2>1 DEF Succeeded
    <2>2. CASE \E q \in Procs : turn'[q].id = i /\ (turn'[q].row.st = "done" \/ turn'[q].row.undoing)
      BY <1>0, <2>2 DEF Succeeded
    <2>3. CASE \E q \in Procs, l \in Kinds : job'[q][l][i].out = "done"
      BY <1>1, <2>3 DEF Succeeded
    <2>4. CASE \E q \in Procs : job'[q]["undo"][i].pc \in {"recheck", "revert", "reverting"}
      BY <1>1, <2>4, KindsAre DEF Succeeded
    <2> QED BY <1>4, <2>1, <2>2, <2>3, <2>4 DEF Succeeded
  <1> QED BY <1>1, <1>2, <1>3, <1>4, Keeps

LEMMA OnceNext == Typed /\ OnceInv /\ [Next]_vars => OnceInv'
  <1> SUFFICES ASSUME Typed, OnceInv, [Next]_vars PROVE OnceInv'
    OBVIOUS
  <1>1. ASSUME UNCHANGED <<rec, turn, job, world, claimed, undoClaimed>> PROVE OnceInv'
    <2>1. TurnsMatch'
      BY <1>1 DEF OnceInv, TurnsMatch
    <2> QED BY <1>1, <2>1, Quiet DEF Succeeded
  <1>2. CASE UNCHANGED vars
    BY <1>1, <1>2 DEF vars, files
  <1>3. ASSUME NEW p \in Procs, NEW id \in Ids, TimePasses(p, id) PROVE OnceInv'
    BY <1>1, <1>3 DEF TimePasses, files
  <1>4. ASSUME NEW p \in Procs, NEW id \in Ids, Executes(p, id) PROVE OnceInv'
    BY <1>4, KindsAre, ClaimsOnce, RechecksOnce, RunsOnceStep, VerifiesOnce, UndoBeginsOnce,
       UndoClaimsOnce, RevertsOnce, RevertEndsOnce, SettlesOnce, OthersOnce DEF Executes
  <1>5. ASSUME NEW p \in Procs, NEW id \in Ids, NEW k \in Kinds,
               SettleFails(p, k, id) \/ StepThrows(p, k, id)
        PROVE  OnceInv'
    BY <1>5, OthersOnce
  <1> QED BY <1>2, <1>3, <1>4, <1>5, DecisionsOnce, WritesOnce, WriteFailsOnce, BootOnce,
             CrashOnce DEF Next

LEMMA Safe == Spec => [](Typed /\ OnceInv)
  BY TypeInit, TypeNext, OnceInit, OnceNext, PTL DEF Spec

\* However many processes share the directory, whenever they die and whichever
\* write fails, a command and its undo are each started at most once.
THEOREM StartedOnce == Spec => []RunsOnce
  <1>1. OnceInv => RunsOnce
    BY DEF OnceInv, OnceAt, RunsOnce
  <1> QED BY <1>1, Safe, PTL

\* An undo is started only of a command that is known to have succeeded and has
\* not been undone.
THEOREM UndoneIfDone == Spec => UndoesWhatRan
  <1>1. ASSUME Typed, OnceInv, [Next]_vars
        PROVE  [\A id \in Ids : undos'[id] # undos[id] => effect[id] = "yes"]_vars
    <2> SUFFICES ASSUME NEW id \in Ids, undos'[id] # undos[id] PROVE effect[id] = "yes"
      OBVIOUS
    <2>1. UNCHANGED undos \/ \E p \in Procs, i \in Ids, k \in Kinds : Reverts(p, k, i)
      <3>1. CASE UNCHANGED vars
        BY <3>1 DEF vars, world
      <3>2. ASSUME NEW p \in Procs,
                   \/ \E a \in Asks : Proposes(p, a)
                   \/ \E i \in Ids : \E op \in Decisions :
                        Decides(p, op, i)
                   \/ \E i \in Ids : TimePasses(p, i)
                   \/ \E i \in Ids, k \in Kinds : SettleFails(p, k, i) \/ StepThrows(p, k, i)
                   \/ Writes(p) \/ WriteFails(p) \/ BootFails(p) \/ Crash(p) \/ Boots(p)
            PROVE  UNCHANGED undos
        BY <3>2 DEF Proposes, Decides, TimePasses, SettleFails, StepThrows, Writes,
                    WriteFails, BootFails, Crash, Boots, world
      <3>3. ASSUME NEW p \in Procs, Recovers(p) PROVE UNCHANGED undos
        BY <3>3 DEF Recovers, BootLists, BootReads, BootSettles, BootEnds, world
      <3>4. ASSUME NEW p \in Procs, NEW i \in Ids, Executes(p, i)
            PROVE  UNCHANGED undos \/ \E k \in Kinds : Reverts(p, k, i)
        <4>1. CASE \/ Claims(p, i) \/ Rechecks(p, i) \/ Runs(p, i) \/ RunIsBlocked(p, i)
                   \/ RunEnds(p, i) \/ Verifies(p, i) \/ UndoBegins(p, i) \/ UndoClaims(p, i)
          BY <4>1 DEF Claims, Rechecks, Runs, RunIsBlocked, RunEnds, Verifies, UndoBegins,
                      UndoClaims, world
        <4>2. CASE \E k \in Kinds : \/ Starts(p, k, i) \/ RevertEnds(p, k, i)
                                    \/ Settles(p, k, i) \/ failSafe(p, k, i)
                                    \/ TaskEnds(p, k, i)
          BY <4>2 DEF Starts, RevertEnds, Settles, failSafe, TaskEnds, world
        <4> QED BY <3>4, <4>1, <4>2 DEF Executes
      <3> QED BY <1>1, <3>1, <3>2, <3>3, <3>4 DEF Next
    <2>2. PICK p \in Procs, i \in Ids, k \in Kinds : Reverts(p, k, i)
      BY <2>1
    <2>3. i = id
      <3>1. undos \in [Ids -> Nat]
        BY <1>1 DEF Typed, TypeOK
      <3>2. undos' = [undos EXCEPT ![i] = @ + 1] \/ undos' = undos
        BY <2>2 DEF Reverts
      <3> QED BY <3>1, <3>2
    <2>4. job[p]["run"][id].pc = "revert" \/ job[p]["undo"][id].pc = "revert"
      BY <2>2, <2>3 DEF Reverts, At, Kinds
    <2> QED BY <1>1, <2>4 DEF OnceInv, OnceAt, RunIsClaimed, UndoIsClaimed
  <1> QED BY <1>1, Safe, PTL DEF Spec, UndoesWhatRan

-----------------------------------------------------------------------------
(* What the record says of the world is true, and a final outcome stays -  *)
(* with one process over the directory that recovers before it serves.     *)

OneProc == BootFirst /\ \A p, q \in Procs : p = q

\* What a status says of the command, and of what it did.
Tells(st, m, e) ==
  /\ st \in {"none", "pending", "approved", "rejected", "expired", "stale"} => m = 0
  /\ st \in {"done", "kept"} => m = 1 /\ e = "yes"
  /\ st = "undone" => m = 1 /\ e = "no"

\* A record says what is so, and is being undone only after the command ran.
RecFits(id) ==
  /\ Tells(rec[id].st, mains[id], effect[id])
  /\ rec[id].undoing => rec[id].st = "running" /\ mains[id] = 1
  /\ id > made => rec[id].st = "none"

\* The execution at (pc, out) of a request with record s.
RunFits(pc, out, s, m, e) ==
  /\ pc \in {"asked", "queued", "claiming"} => s.st = "approved"
  /\ pc \in {"recheck", "ready", "running", "verify", "revert", "reverting", "lastly"}
       => s.st = "running"
  /\ pc = "unsaved" => s.st \in {"approved", "running"}
  /\ pc = "settle" => s.st = IF out = "expired" THEN "approved" ELSE "running"
  /\ pc \notin {"idle", "ending"} => ~s.undoing
  /\ pc \in {"recheck", "ready"} => m = 0
  /\ pc \in {"running", "verify", "revert", "reverting"} => m = 1
  /\ pc = "verify" => e = "yes"
  /\ pc \in {"settle", "lastly"} => out \in Outcomes /\ Tells(out, m, e)

\* The undo at (pc, out) of a request with record s.
UndoFits(pc, out, s, m, e) ==
  /\ pc \notin {"idle", "ending"} => s.undoing
  /\ pc \notin {"claiming", "ready", "running", "verify"}
  /\ pc \in {"settle", "lastly"} => out \in {"failed", "undone"} /\ Tells(out, m, e)

TasksFit(p, id) ==
  /\ RunFits(job[p]["run"][id].pc, job[p]["run"][id].out, rec[id], mains[id], effect[id])
  /\ UndoFits(job[p]["undo"][id].pc, job[p]["undo"][id].out, rec[id], mains[id], effect[id])

\* What a turn read is what the record still says.
TurnFits(p) ==
  LET id == turn[p].id  row == turn[p].row  op == turn[p].op IN
  turn[p] # NoTurn =>
    /\ id <= made
    /\ op = "propose" => rec[id].st = "none" /\ row.st = "pending" /\ ~row.undoing
    /\ op # "propose" => row = rec[id]
    /\ op \in {"approve", "reject"} => row.st = "pending"
    /\ op = "explain" => row.st = "rejected"
    /\ op \in {"undo", "keep"} => row.st = "done"
    /\ op = "ack" => row.st \in Final \ {"kept"}
    /\ op = "claim" => row.st = "approved"

\* Nothing is under way while the process recovers what another one left.
BootFits(p) ==
  /\ p \notin up \/ boot[p].pc # "off" =>
       /\ turn[p] = NoTurn
       /\ \A k \in Kinds, id \in Ids : job[p][k][id].pc = "idle"
  /\ boot[p].pc = "off" => boot[p].rows = {}
  /\ \A row \in boot[p].rows : rec[row[1]].st = row[2]

TellInv ==
  /\ \A id \in Ids : RecFits(id)
  /\ \A p \in Procs : /\ TurnFits(p) /\ BootFits(p)
                      /\ \A id \in Ids : TasksFit(p, id)

LEMMA TellInit == Init => TellInv
  <1> SUFFICES ASSUME Init PROVE TellInv
    OBVIOUS
  <1>1. ASSUME NEW id \in Ids PROVE RecFits(id)
    <2>1. rec[id].st = "none" /\ rec[id].undoing = FALSE /\ mains[id] = 0
      BY <1>1 DEF Init, NoRecord
    <2> QED BY <2>1 DEF RecFits, Tells
  <1>2. ASSUME NEW p \in Procs PROVE TurnFits(p) /\ BootFits(p)
    BY <1>2 DEF Init, TurnFits, BootFits, NoBoot, Idle
  <1>3. ASSUME NEW p \in Procs, NEW id \in Ids PROVE TasksFit(p, id)
    <2>1. job[p]["run"][id].pc = "idle" /\ job[p]["undo"][id].pc = "idle"
      BY <1>3, KindsAre DEF Init, Idle
    <2> QED BY <2>1 DEF TasksFit, RunFits, UndoFits
  <1> QED BY <1>1, <1>2, <1>3 DEF TellInv

\* A step of a serving process that touches one request only.
LEMMA RequestTells ==
  ASSUME OneProc, TellInv, NEW p \in Procs, NEW id \in Ids,
         p \in up, boot[p].pc = "off", UNCHANGED <<made, up, boot>>,
         \A l \in Kinds, i \in Ids \ {id} : job'[p][l][i] = job[p][l][i],
         \A i \in Ids \ {id} : rec'[i] = rec[i] /\ mains'[i] = mains[i]
                               /\ effect'[i] = effect[i],
         TurnFits(p)', RecFits(id)', TasksFit(p, id)'
  PROVE  TellInv'
  <1>1. \A i \in Ids : RecFits(i)'
    BY DEF TellInv, RecFits
  <1>2. BootFits(p)'
    BY DEF TellInv, BootFits
  <1>3. ASSUME NEW i \in Ids \ {id} PROVE TasksFit(p, i)'
    <2>1. job'[p]["run"][i] = job[p]["run"][i] /\ job'[p]["undo"][i] = job[p]["undo"][i]
      BY KindsAre
    <2> QED BY <2>1 DEF TellInv, TasksFit
  <1>4. \A q \in Procs : q = p
    BY DEF OneProc
  <1> QED BY <1>1, <1>2, <1>3, <1>4 DEF TellInv

LEMMA TaskTells ==
  ASSUME OneProc, TellInv, NEW p \in Procs, NEW k \in Kinds, NEW id \in Ids,
         NEW pc, NEW out, Moved(p, k, id, pc, out),
         p \in up, job[p][k][id].pc # "idle", UNCHANGED <<made, up, boot>>,
         \A i \in Ids \ {id} : rec'[i] = rec[i] /\ mains'[i] = mains[i]
                               /\ effect'[i] = effect[i],
         TurnFits(p)', RecFits(id)', TasksFit(p, id)'
  PROVE  TellInv'
  <1>1. boot[p].pc = "off"
    BY DEF TellInv, BootFits
  <1>2. \A l \in Kinds, i \in Ids \ {id} : job'[p][l][i] = job[p][l][i]
    BY DEF Moved
  <1> QED BY <1>1, <1>2, RequestTells

\* The execution of a request excludes its undo, and the other way round.
LEMMA OneKind ==
  ASSUME Typed, TellInv, NEW p \in Procs, NEW id \in Ids
  PROVE  /\ job[p]["run"][id].pc \notin {"idle", "ending"} =>
              ~rec[id].undoing /\ job[p]["undo"][id].pc \in {"idle", "ending"}
         /\ job[p]["undo"][id].pc \notin {"idle", "ending"} =>
              /\ rec[id].st = "running" /\ rec[id].undoing /\ mains[id] = 1
              /\ job[p]["run"][id].pc \in {"idle", "ending"}
         /\ rec[id].st \notin {"approved", "running"} =>
              /\ ~rec[id].undoing
              /\ job[p]["run"][id].pc \in {"idle", "ending"}
              /\ job[p]["undo"][id].pc \in {"idle", "ending"}
  <1>1. RecFits(id) /\ TasksFit(p, id)
    BY DEF TellInv
  <1>2. job[p]["run"][id].pc \notin {"idle", "ending"} => ~rec[id].undoing
    BY <1>1 DEF TasksFit, RunFits
  <1>3. job[p]["undo"][id].pc \notin {"idle", "ending"} => rec[id].undoing
    BY <1>1 DEF TasksFit, UndoFits
  <1>4. rec[id].undoing => rec[id].st = "running" /\ mains[id] = 1
    BY <1>1 DEF RecFits
  <1>5. job[p]["run"][id].pc \notin {"idle", "ending"} => rec[id].st \in {"approved", "running"}
    <2>1. job[p]["run"][id].pc \in Pcs
      BY KindsAre DEF Typed, TypeOK, Tasks, Pcs
    <2> QED BY <1>1, <2>1 DEF TasksFit, RunFits, Pcs
  <1> QED BY <1>2, <1>3, <1>4, <1>5

LEMMA RunTells ==
  ASSUME OneProc, Typed, TellInv, NEW p \in Procs, NEW id \in Ids,
         NEW pc, NEW out, Moved(p, "run", id, pc, out),
         p \in up, job[p]["run"][id].pc # "idle", UNCHANGED <<made, up, boot>>,
         \A i \in Ids \ {id} : rec'[i] = rec[i] /\ mains'[i] = mains[i]
                               /\ effect'[i] = effect[i],
         TurnFits(p)', RecFits(id)', job[p]["undo"][id].pc \in {"idle", "ending"},
         RunFits(pc, out, rec'[id], mains'[id], effect'[id])
  PROVE  TellInv'
  <1>1. /\ job'[p]["run"][id].pc = pc /\ job'[p]["run"][id].out = out
        /\ job'[p]["undo"][id] = job[p]["undo"][id]
    BY KindsAre DEF Moved
  <1>2. UndoFits(job'[p]["undo"][id].pc, job'[p]["undo"][id].out,
                 rec'[id], mains'[id], effect'[id])
    BY <1>1 DEF UndoFits
  <1>3. TasksFit(p, id)'
    BY <1>1, <1>2 DEF TasksFit
  <1> QED BY <1>3, TaskTells, KindsAre

LEMMA UndoTells ==
  ASSUME OneProc, Typed, TellInv, NEW p \in Procs, NEW id \in Ids,
         NEW pc, NEW out, Moved(p, "undo", id, pc, out),
         p \in up, job[p]["undo"][id].pc # "idle", UNCHANGED <<made, up, boot>>,
         \A i \in Ids \ {id} : rec'[i] = rec[i] /\ mains'[i] = mains[i]
                               /\ effect'[i] = effect[i],
         TurnFits(p)', RecFits(id)', job[p]["run"][id].pc \in {"idle", "ending"},
         UndoFits(pc, out, rec'[id], mains'[id], effect'[id])
  PROVE  TellInv'
  <1>1. /\ job'[p]["undo"][id].pc = pc /\ job'[p]["undo"][id].out = out
        /\ job'[p]["run"][id] = job[p]["run"][id]
    BY KindsAre DEF Moved
  <1>2. RunFits(job'[p]["run"][id].pc, job'[p]["run"][id].out,
                rec'[id], mains'[id], effect'[id])
    BY <1>1 DEF RunFits
  <1>3. TasksFit(p, id)'
    BY <1>1, <1>2 DEF TasksFit
  <1> QED BY <1>3, TaskTells, KindsAre

LEMMA TurnRests ==
  ASSUME TellInv, NEW p \in Procs, UNCHANGED <<turn, rec, made>>
  PROVE  TurnFits(p)'
  BY DEF TellInv, TurnFits

\* A step of the execution that leaves the files and the world as they are.
LEMMA RunMovesTell ==
  ASSUME OneProc, Typed, TellInv, NEW p \in Procs, NEW id \in Ids,
         NEW pc, NEW out, Moved(p, "run", id, pc, out),
         p \in up, job[p]["run"][id].pc \notin {"idle", "ending"},
         UNCHANGED <<made, rec, up, boot, mains, effect>>, TurnFits(p)',
         RunFits(pc, out, rec[id], mains[id], effect[id])
  PROVE  TellInv'
  <1>1. RecFits(id)'
    BY DEF TellInv, RecFits
  <1>2. job[p]["undo"][id].pc \in {"idle", "ending"}
    BY OneKind
  <1> QED BY <1>1, <1>2, RunTells

LEMMA UndoMovesTell ==
  ASSUME OneProc, Typed, TellInv, NEW p \in Procs, NEW id \in Ids,
         NEW pc, NEW out, Moved(p, "undo", id, pc, out),
         p \in up, job[p]["undo"][id].pc \notin {"idle", "ending"},
         UNCHANGED <<made, rec, up, boot, mains, effect>>, TurnFits(p)',
         UndoFits(pc, out, rec[id], mains[id], effect[id])
  PROVE  TellInv'
  <1>1. RecFits(id)'
    BY DEF TellInv, RecFits
  <1>2. job[p]["run"][id].pc \in {"idle", "ending"}
    BY OneKind
  <1> QED BY <1>1, <1>2, UndoTells

LEMMA ExecutionTells ==
  ASSUME OneProc, Typed, TellInv, NEW p \in Procs, NEW id \in Ids,
         \/ Claims(p, id) \/ Rechecks(p, id) \/ RunIsBlocked(p, id) \/ Verifies(p, id)
         \/ Runs(p, id) \/ RunEnds(p, id)
  PROVE  TellInv'
  <1> DEFINE m == mains[id]  e == effect[id]  s == rec[id]
  <1>0. /\ RunFits(job[p]["run"][id].pc, job[p]["run"][id].out, s, m, e) /\ RecFits(id)
        /\ m \in Nat
    BY DEF TellInv, TasksFit, Typed, TypeOK
  <1>1. CASE Claims(p, id)
    <2>0. /\ p \in up /\ job[p]["run"][id].pc = "queued" /\ Free(p)
          /\ UNCHANGED <<made, rec, up, boot, mains, effect>>
      BY <1>1 DEF Claims, At, world
    <2>1. s.st = "approved" /\ ~s.undoing /\ m = 0
      BY <1>0, <2>0 DEF RunFits, RecFits, Tells
    <2>2. CASE Moved(p, "run", id, "idle", "none") /\ UNCHANGED <<claimed, turn>>
      <3>1. RunFits("idle", "none", s, m, e)
        BY DEF RunFits
      <3> QED BY <2>0, <2>2, <3>1, TurnRests, RunMovesTell
    <2>3. CASE Moved(p, "run", id, "settle", "expired") /\ UNCHANGED <<claimed, turn>>
      <3>1. RunFits("settle", "expired", s, m, e)
        BY <2>1 DEF RunFits, Tells, Outcomes
      <3> QED BY <2>0, <2>3, <3>1, TurnRests, RunMovesTell
    <2>4. CASE /\ Moved(p, "run", id, "claiming", "none")
               /\ turn' = [turn EXCEPT ![p] = [op |-> "claim", id |-> id, row |-> rec[id]]]
      <3>1. RunFits("claiming", "none", s, m, e)
        BY <2>1 DEF RunFits
      <3>2. turn'[p] = [op |-> "claim", id |-> id, row |-> rec[id]]
        BY <2>4 DEF Typed, TypeOK
      <3>3. id <= made
        BY <1>0, <2>1 DEF RecFits, Ids, Typed, TypeOK
      <3>4. TurnFits(p)'
        BY <2>0, <2>1, <3>2, <3>3 DEF TurnFits
      <3> QED BY <2>0, <2>4, <3>1, <3>4, RunMovesTell
    <2> QED BY <1>1, <2>2, <2>3, <2>4, Claims_Moves
  <1>2. ASSUME Rechecks(p, id) \/ RunIsBlocked(p, id) \/ Verifies(p, id) PROVE TellInv'
    <2>0. /\ p \in up /\ job[p]["run"][id].pc \in {"recheck", "ready", "verify"}
          /\ UNCHANGED <<made, rec, up, boot, mains, effect, turn>>
      BY <1>2 DEF Rechecks, RunIsBlocked, Verifies, At, world, files
    <2>1. PICK pc \in {"ready", "revert", "settle"}, out \in {"none", "stale", "done", "failed"} :
            /\ Moved(p, "run", id, pc, out)
            /\ pc = "settle" => out # "none"
            /\ Verifies(p, id) => pc # "ready" /\ out # "stale"
            /\ ~Verifies(p, id) => pc # "revert" /\ out \notin {"done", "failed"}
                                   /\ job[p]["run"][id].pc \in {"recheck", "ready"}
      BY <1>2, Rechecks_Moves, RunIsBlocked_Moves, Verifies_Moves
         DEF Rechecks, RunIsBlocked, Verifies, At
    <2>2. s.st = "running" /\ ~s.undoing
      BY <1>0, <2>0 DEF RunFits
    <2>3. CASE Verifies(p, id)
      <3>1. m = 1 /\ e = "yes"
        BY <1>0, <2>3 DEF RunFits, Verifies, At
      <3>2. RunFits(pc, out, s, m, e)
        BY <2>1, <2>2, <2>3, <3>1 DEF RunFits, Tells, Outcomes
      <3> QED BY <2>0, <2>1, <3>2, TurnRests, RunMovesTell
    <2>4. CASE ~Verifies(p, id)
      <3>1. m = 0
        BY <1>0, <2>1, <2>4 DEF RunFits
      <3>2. RunFits(pc, out, s, m, e)
        BY <2>1, <2>2, <2>4, <3>1 DEF RunFits, Tells, Outcomes
      <3> QED BY <2>0, <2>1, <3>2, TurnRests, RunMovesTell
    <2> QED BY <2>3, <2>4
  <1>3. ASSUME Runs(p, id) \/ RunEnds(p, id) PROVE TellInv'
    <2>0. /\ p \in up /\ job[p]["run"][id].pc \in {"ready", "running"}
          /\ UNCHANGED <<made, rec, up, boot, turn>>
          /\ \A i \in Ids \ {id} : mains'[i] = mains[i] /\ effect'[i] = effect[i]
      BY <1>3 DEF Runs, RunEnds, At, files, Typed, TypeOK
    <2>1. s.st = "running" /\ ~s.undoing
      BY <1>0, <2>0 DEF RunFits
    <2>2. RecFits(id)'
      BY <1>0, <2>0, <2>1 DEF RecFits, Tells
    <2>3. job[p]["undo"][id].pc \in {"idle", "ending"}
      BY <2>0, OneKind
    <2>4. CASE Runs(p, id)
      <3>1. Moved(p, "run", id, "running", "none")
        BY <2>4, Runs_Moves
      <3>2. m = 0 /\ mains'[id] = 1
        BY <1>0, <2>4 DEF RunFits, Runs, At, Typed, TypeOK
      <3>3. RunFits("running", "none", rec'[id], mains'[id], effect'[id])
        BY <2>0, <2>1, <3>2 DEF RunFits
      <3> QED BY <2>0, <2>2, <2>3, <3>1, <3>3, TurnRests, RunTells
    <2>5. CASE RunEnds(p, id)
      <3>1. m = 1 /\ mains' = mains
        BY <1>0, <2>5 DEF RunFits, RunEnds, At
      <3>2. CASE /\ Moved(p, "run", id, "verify", "none")
                 /\ effect' = [effect EXCEPT ![id] = "yes"]
        <4>1. effect'[id] = "yes"
          BY <3>2 DEF Typed, TypeOK
        <4>2. RunFits("verify", "none", rec'[id], mains'[id], effect'[id])
          BY <2>0, <2>1, <3>1, <4>1 DEF RunFits
        <4> QED BY <2>0, <2>2, <2>3, <3>2, <4>2, TurnRests, RunTells
      <3>3. CASE Moved(p, "run", id, "settle", "failed") /\ UNCHANGED effect
        <4>1. RunFits("settle", "failed", rec'[id], mains'[id], effect'[id])
          BY <2>0, <2>1, <3>1 DEF RunFits, Tells, Outcomes
        <4> QED BY <2>0, <2>2, <2>3, <3>3, <4>1, TurnRests, RunTells
      <3> QED BY <2>5, <3>2, <3>3, RunEnds_Moves
    <2> QED BY <1>3, <2>4, <2>5
  <1> QED BY <1>1, <1>2, <1>3

\* The steps of either kind of task that leave the files and the world alone.
LEMMA OthersTell ==
  ASSUME OneProc, Typed, TellInv, NEW p \in Procs, NEW k \in Kinds, NEW id \in Ids,
         \/ Starts(p, k, id) \/ StepThrows(p, k, id) \/ SettleFails(p, k, id)
         \/ failSafe(p, k, id) \/ TaskEnds(p, k, id)
  PROVE  TellInv'
  <1> DEFINE m == mains[id]  e == effect[id]  s == rec[id]
             o == job[p][k][id].pc
  <1>0. /\ p \in up /\ o # "idle" /\ UNCHANGED <<made, rec, up, boot, mains, effect, turn>>
    BY DEF Starts, StepThrows, SettleFails, failSafe, TaskEnds, At, world, files
  <1>1. PICK pc \in {"idle", "queued", "unsaved", "lastly", "ending"},
             out \in {"none", "failed"} :
          /\ Moved(p, k, id, pc, out)
          /\ pc = "queued" => o = "asked"
          /\ pc = "unsaved" => o \in {"recheck", "ready", "verify", "revert", "settle"}
          /\ pc = "lastly" => o = "unsaved" /\ s.st = "running" /\ out = "failed"
          /\ o = "ending" => pc = "idle"
    <2>1. CASE Starts(p, k, id)
      BY <2>1, Starts_Moves DEF Starts, At
    <2>2. CASE StepThrows(p, k, id)
      BY <2>2, StepThrows_Moves DEF StepThrows
    <2>3. CASE SettleFails(p, k, id)
      <3>1. CASE o = "settle"
        BY <2>3, <3>1, SettleFails_Moves DEF SettleFails
      <3>2. CASE o = "lastly"
        <4>1. Goes(p, k, id, "ending")
          BY <2>3, <3>2 DEF SettleFails
        <4>2. Moved(p, k, id, "ending", "none")
          BY <4>1, GoesMoves DEF Pcs
        <4> QED BY <3>2, <4>2
      <3> QED BY <2>3, <3>1, <3>2 DEF SettleFails
    <2>4. CASE failSafe(p, k, id)
      <3>1. CASE s.st = "running"
        BY <2>4, <3>1, failSafe_Moves DEF failSafe, At
      <3>2. CASE s.st # "running"
        <4>1. Goes(p, k, id, "ending")
          BY <2>4, <3>2 DEF failSafe
        <4>2. Moved(p, k, id, "ending", "none")
          BY <4>1, GoesMoves DEF Pcs
        <4> QED BY <2>4, <4>2 DEF failSafe, At
      <3> QED BY <3>1, <3>2
    <2>5. CASE TaskEnds(p, k, id)
      BY <2>5, TaskEnds_Moves DEF TaskEnds, At
    <2> QED BY <2>1, <2>2, <2>3, <2>4, <2>5
  <1>2. TurnFits(p)' /\ RecFits(id)' /\ TasksFit(p, id)
    BY <1>0, TurnRests DEF TellInv, RecFits
  <1>3. CASE o = "ending"
    <2>1. pc = "idle"
      BY <1>1, <1>3
    <2>2. TasksFit(p, id)'
      <3>1. CASE k = "run"
        <4>1. job'[p]["run"][id].pc = "idle" /\ job'[p]["undo"][id] = job[p]["undo"][id]
          BY <1>1, <2>1, <3>1, KindsAre DEF Moved
        <4>2. UndoFits(job'[p]["undo"][id].pc, job'[p]["undo"][id].out,
                       rec'[id], mains'[id], effect'[id])
          BY <1>0, <1>2, <4>1 DEF TasksFit
        <4> QED BY <4>1, <4>2 DEF TasksFit, RunFits
      <3>2. CASE k = "undo"
        <4>1. job'[p]["undo"][id].pc = "idle" /\ job'[p]["run"][id] = job[p]["run"][id]
          BY <1>1, <2>1, <3>2, KindsAre DEF Moved
        <4>2. RunFits(job'[p]["run"][id].pc, job'[p]["run"][id].out,
                      rec'[id], mains'[id], effect'[id])
          BY <1>0, <1>2, <4>1 DEF TasksFit
        <4> QED BY <4>1, <4>2 DEF TasksFit, UndoFits
      <3> QED BY <3>1, <3>2 DEF Kinds
    <2> QED BY <1>0, <1>1, <1>2, <2>2, TaskTells
  <1>4. CASE o # "ending" /\ k = "run"
    <2>1. RunFits(o, job[p]["run"][id].out, s, m, e)
      BY <1>2, <1>4 DEF TasksFit
    <2>2. RunFits(pc, out, s, m, e)
      BY <1>0, <1>1, <1>4, <2>1 DEF RunFits, Tells, Outcomes
    <2> QED BY <1>0, <1>1, <1>2, <1>4, <2>2, RunMovesTell
  <1>5. CASE o # "ending" /\ k = "undo"
    <2>1. UndoFits(o, job[p]["undo"][id].out, s, m, e)
      BY <1>2, <1>5 DEF TasksFit
    <2>2. UndoFits(pc, out, s, m, e)
      BY <1>0, <1>1, <1>5, <2>1 DEF UndoFits, Tells
    <2> QED BY <1>0, <1>1, <1>2, <1>5, <2>2, UndoMovesTell
  <1> QED BY <1>3, <1>4, <1>5 DEF Kinds

LEMMA UndoStepsTell ==
  ASSUME OneProc, Typed, TellInv, NEW p \in Procs, NEW id \in Ids,
         UndoBegins(p, id) \/ UndoClaims(p, id)
  PROVE  TellInv'
  <1>0. /\ p \in up /\ job[p]["undo"][id].pc \in {"queued", "recheck"}
        /\ UNCHANGED <<made, rec, up, boot, mains, effect, turn>>
    BY DEF UndoBegins, UndoClaims, At, world, files
  <1>1. PICK pc \in {"idle", "recheck", "revert", "settle"}, out \in {"none", "failed"} :
          Moved(p, "undo", id, pc, out) /\ (pc = "settle" => out = "failed")
    BY UndoBegins_Moves, UndoClaims_Moves
  <1>2. rec[id].undoing
    BY <1>0, OneKind
  <1>3. UndoFits(pc, out, rec[id], mains[id], effect[id])
    BY <1>1, <1>2 DEF UndoFits, Tells
  <1> QED BY <1>0, <1>1, <1>3, TurnRests, UndoMovesTell

LEMMA RevertsTell ==
  ASSUME OneProc, Typed, TellInv, NEW p \in Procs, NEW k \in Kinds, NEW id \in Ids,
         Reverts(p, k, id) \/ RevertEnds(p, k, id)
  PROVE  TellInv'
  <1> DEFINE s == rec[id]
  <1>0. /\ p \in up /\ job[p][k][id].pc \in {"revert", "reverting"}
        /\ UNCHANGED <<made, rec, up, boot, mains, turn>>
        /\ \A i \in Ids \ {id} : effect'[i] = effect[i]
    BY DEF Reverts, RevertEnds, At, world, files, Typed, TypeOK
  <1>1. TurnFits(p)' /\ RecFits(id) /\ TasksFit(p, id)
    BY <1>0, TurnRests DEF TellInv
  <1>2. s.st = "running" /\ mains[id] = 1
    <2>1. CASE k = "run"
      BY <1>0, <1>1, <2>1 DEF TasksFit, RunFits
    <2>2. CASE k = "undo"
      BY <1>0, <2>2, OneKind
    <2> QED BY <2>1, <2>2 DEF Kinds
  <1>3. RecFits(id)'
    BY <1>0, <1>1, <1>2 DEF RecFits, Tells
  <1>4. PICK pc \in {"reverting", "settle"}, out \in {"none", "failed", "undone"} :
          /\ Moved(p, k, id, pc, out) /\ (pc = "settle" => out # "none")
          /\ out = "undone" => effect'[id] = "no"
    <2>1. CASE Reverts(p, k, id)
      BY <2>1, Reverts_Moves
    <2>2. CASE RevertEnds(p, k, id)
      <3>1. CASE Moved(p, k, id, "settle", "undone") /\ effect' = [effect EXCEPT ![id] = "no"]
        <4>1. effect'[id] = "no"
          BY <3>1 DEF Typed, TypeOK
        <4> QED BY <3>1, <4>1
      <3>2. CASE Moved(p, k, id, "settle", "failed")
        BY <3>2
      <3> QED BY <2>2, <3>1, <3>2, RevertEnds_Moves
    <2> QED BY <2>1, <2>2
  <1>5. CASE k = "run"
    <2>1. ~s.undoing /\ job[p]["undo"][id].pc \in {"idle", "ending"}
      BY <1>0, <1>5, OneKind
    <2>2. RunFits(pc, out, rec'[id], mains'[id], effect'[id])
      BY <1>0, <1>2, <1>4, <2>1 DEF RunFits, Tells, Outcomes
    <2> QED BY <1>0, <1>1, <1>3, <1>4, <1>5, <2>1, <2>2, RunTells
  <1>6. CASE k = "undo"
    <2>1. s.undoing /\ job[p]["run"][id].pc \in {"idle", "ending"}
      BY <1>0, <1>6, OneKind
    <2>2. UndoFits(pc, out, rec'[id], mains'[id], effect'[id])
      BY <1>0, <1>2, <1>4, <2>1 DEF UndoFits, Tells
    <2> QED BY <1>0, <1>1, <1>3, <1>4, <1>6, <2>1, <2>2, UndoTells
  <1> QED BY <1>5, <1>6 DEF Kinds

LEMMA SettlesTell ==
  ASSUME OneProc, Typed, TellInv, NEW p \in Procs, NEW k \in Kinds, NEW id \in Ids,
         Settles(p, k, id)
  PROVE  TellInv'
  <1> DEFINE out == job[p][k][id].out
  <1>0. /\ p \in up /\ job[p][k][id].pc \in {"settle", "lastly"} /\ turn[p] = NoTurn
        /\ UNCHANGED <<made, up, boot, mains, effect, turn>>
    BY DEF Settles, Free, world
  <1>1. /\ rec'[id].st = out /\ rec'[id].undoing = FALSE
        /\ \A i \in Ids \ {id} : rec'[i] = rec[i]
    BY DEF Settles, Closed, Typed, TypeOK, Records
  <1>2. Moved(p, k, id, "ending", "none")
    BY Settles_Moves
  <1>3. TasksFit(p, id) /\ RecFits(id)
    BY DEF TellInv
  <1>4. Tells(out, mains[id], effect[id])
    <2>1. CASE k = "run"
      BY <1>0, <1>3, <2>1 DEF TasksFit, RunFits
    <2>2. CASE k = "undo"
      BY <1>0, <1>3, <2>2 DEF TasksFit, UndoFits
    <2> QED BY <2>1, <2>2 DEF Kinds
  <1>5. rec[id].st # "none"
    <2>1. CASE k = "run"
      BY <1>0, <1>3, <2>1 DEF TasksFit, RunFits
    <2>2. CASE k = "undo"
      BY <1>0, <2>2, OneKind
    <2> QED BY <2>1, <2>2 DEF Kinds
  <1>6. RecFits(id)'
    BY <1>0, <1>1, <1>3, <1>4, <1>5 DEF RecFits
  <1>7. TurnFits(p)'
    BY <1>0 DEF TurnFits
  <1>8. RunFits("ending", "none", rec'[id], mains'[id], effect'[id])
        /\ UndoFits("ending", "none", rec'[id], mains'[id], effect'[id])
    BY DEF RunFits, UndoFits
  <1>9. CASE k = "run"
    BY <1>0, <1>1, <1>2, <1>6, <1>7, <1>8, <1>9, OneKind, RunTells
  <1>10. CASE k = "undo"
    BY <1>0, <1>1, <1>2, <1>6, <1>7, <1>8, <1>10, OneKind, UndoTells
  <1> QED BY <1>9, <1>10 DEF Kinds

\* A turn is taken up by a process that serves.
LEMMA TakingTurnsTells ==
  ASSUME OneProc, Typed, TellInv, NEW p \in Procs,
         \/ \E a \in Asks : Proposes(p, a)
         \/ \E id \in Ids, op \in Decisions : Decides(p, op, id)
  PROVE  TellInv'
  <1>0. /\ UNCHANGED <<rec, mains, effect, up, job, boot>> /\ p \in up /\ boot[p].pc = "off"
        /\ made \in Nat /\ made' \in {made, made + 1}
    <2>1. made \in Nat
      BY DEF Typed, TypeOK
    <2> QED BY <2>1 DEF Proposes, Decides, Serves, OneProc, world, files
  <1>1. \A id \in Ids : RecFits(id)' /\ TasksFit(p, id)'
    <2> SUFFICES ASSUME NEW id \in Ids PROVE RecFits(id)' /\ TasksFit(p, id)'
      OBVIOUS
    <2>1. RecFits(id) /\ TasksFit(p, id) /\ id \in Nat
      BY DEF TellInv, Ids
    <2>2. id > made' => id > made
      BY <1>0, <2>1
    <2> QED BY <1>0, <2>1, <2>2 DEF RecFits, TasksFit
  <1>2. BootFits(p)'
    BY <1>0 DEF TellInv, BootFits
  <1>3. TurnFits(p)'
    <2>1. ASSUME NEW a \in Asks, Proposes(p, a) PROVE TurnFits(p)'
      <3> DEFINE r == [NoRecord EXCEPT !.ask = a, !.st = "pending"]
      <3>1. r.st = "pending" /\ ~r.undoing
        BY DEF NoRecord
      <3>2. /\ turn' = [turn EXCEPT ![p] = [op |-> "propose", id |-> made + 1, row |-> r]]
            /\ made' = made + 1 /\ made < MaxRequests
        BY <2>1 DEF Proposes
      <3> HIDE DEF r
      <3>3. turn'[p] = [op |-> "propose", id |-> made + 1, row |-> r]
        BY <3>2 DEF Typed, TypeOK
      <3>4. rec[made + 1].st = "none"
        <4>1. made + 1 \in Ids /\ made + 1 > made
          BY <1>0, <3>2, LockedExecAssumption DEF Ids
        <4> QED BY <4>1 DEF TellInv, RecFits
      <3> QED BY <1>0, <3>1, <3>2, <3>3, <3>4 DEF TurnFits
    <2>2. ASSUME NEW id \in Ids, NEW op \in Decisions, Decides(p, op, id)
          PROVE  TurnFits(p)'
      <3>1. turn'[p] = [op |-> op, id |-> id, row |-> rec[id]] /\ made' = made
        BY <2>2 DEF Decides, files, Typed, TypeOK
      <3>2. Allowed(p, op, id)
        BY <2>2 DEF Decides
      <3>3. rec[id].st # "none"
        BY <3>2 DEF Allowed, Final
      <3>4. id <= made
        BY <1>0, <3>3 DEF TellInv, RecFits, Ids
      <3> QED BY <1>0, <3>1, <3>2, <3>4 DEF TurnFits, Allowed, Decisions
    <2> QED BY <2>1, <2>2
  <1>4. \A q \in Procs : q = p
    BY DEF OneProc
  <1> QED BY <1>1, <1>2, <1>3, <1>4 DEF TellInv

\* What the write of a turn makes of a record that fits.
LEMMA WrittenTells ==
  ASSUME Typed, OnceInv, TellInv, NEW p \in Procs, turn[p] # NoTurn,
         NEW w, w = Written(p, turn[p].op, turn[p].row)
  PROVE  LET id == turn[p].id  op == turn[p].op  s == rec[id] IN
         /\ id \in Ids /\ id <= made /\ op \in Ops \ {"none"}
         /\ Tells(w.st, mains[id], effect[id])
         /\ w.undoing => w.st = "running" /\ mains[id] = 1
         /\ op = "claim" => w.st = "running" /\ ~w.undoing /\ mains[id] = 0
         /\ op = "approve" => w.st = "approved" /\ ~w.undoing
         /\ op = "undo" => w.undoing
         /\ op # "claim" => s.st \notin {"approved", "running"}
         /\ s.st \in Final => w.st = s.st
  <1> DEFINE id == turn[p].id  op == turn[p].op  s == rec[id]  row == turn[p].row
  <1>1. id \in Ids /\ op \in Ops \ {"none"} /\ row \in Records /\ TurnFits(p) /\ RecFits(id)
    BY DEF Typed, TypeOK, Addressed, TellInv
  <1>2. mains[id] = 0 \/ s.st \notin {"none", "pending", "approved", "rejected"}
    BY <1>1 DEF RecFits, Tells
  <1>3. s.undoing => s.st = "running"
    BY <1>1 DEF RecFits
  <1>4. CASE op = "propose"
    BY <1>1, <1>2, <1>4 DEF TurnFits, Written, Tells, Final
  <1>5. CASE op \in {"approve", "reject"}
    BY <1>1, <1>2, <1>3, <1>5 DEF TurnFits, Written, Tells, Final, Records
  <1>6. CASE op = "explain"
    BY <1>1, <1>2, <1>3, <1>6 DEF TurnFits, Written, Tells, Final, Records
  <1>7. CASE op \in {"undo", "keep"}
    <2>1. s.st = "done" /\ mains[id] = 1 /\ effect[id] = "yes" /\ row = s
      BY <1>1, <1>7 DEF TurnFits, RecFits, Tells
    <2> QED BY <1>1, <1>3, <1>7, <2>1 DEF TurnFits, Written, Tells, Final, Records
  <1>8. CASE op = "ack"
    <2>1. row = s /\ w.st = s.st /\ w.undoing = s.undoing /\ s.st \in Final
      BY <1>1, <1>8 DEF TurnFits, Written, Records
    <2> QED BY <1>1, <1>3, <1>8, <2>1 DEF RecFits, TurnFits, Final
  <1>9. CASE op = "claim"
    BY <1>1, <1>2, <1>3, <1>9 DEF TurnFits, Written, Tells, Final, Records
  <1> QED BY <1>1, <1>4, <1>5, <1>6, <1>7, <1>8, <1>9 DEF Ops, Decisions

LEMMA TurnEndsTell ==
  ASSUME OneProc, Typed, OnceInv, TellInv, NEW p \in Procs, Writes(p) \/ WriteFails(p),
         NEW id \in Ids, turn[p].id = id
  PROVE  TellInv'
  <1> DEFINE op == turn[p].op  w == Written(p, op, turn[p].row)
             m == mains[id]  e == effect[id]
  <1>0. /\ p \in up /\ turn[p] # NoTurn /\ turn'[p] = NoTurn
        /\ UNCHANGED <<made, mains, effect, up, boot>>
    BY DEF Writes, WriteFails, Free, Typed, TypeOK, Addressed, world, files
  <1>1. boot[p].pc = "off" /\ TurnFits(p)' /\ RecFits(id) /\ TasksFit(p, id) /\ TurnFits(p)
    BY <1>0 DEF TellInv, BootFits, TurnFits
  <1>2. ASSUME NEW k \in Kinds, NEW pc, NEW out, Moved(p, k, id, pc, out)
        PROVE  /\ \A l \in Kinds, i \in Ids \ {id} : job'[p][l][i] = job[p][l][i]
               /\ k = "run" => /\ job'[p]["run"][id].pc = pc /\ job'[p]["run"][id].out = out
                              /\ job'[p]["undo"][id] = job[p]["undo"][id]
               /\ k = "undo" => /\ job'[p]["undo"][id].pc = pc /\ job'[p]["undo"][id].out = out
                               /\ job'[p]["run"][id] = job[p]["run"][id]
    BY <1>0, <1>2, KindsAre DEF Moved
  <1>3. CASE WriteFails(p)
    <2>1. UNCHANGED rec
      BY <1>3 DEF WriteFails, files
    <2>2. RecFits(id)'
      BY <1>0, <1>1, <2>1 DEF RecFits
    <2>3. CASE op = "claim"
      <3>1. Moved(p, "run", id, "unsaved", "none")
        BY <1>0, <1>3, <2>3, GoesMoves, KindsAre DEF WriteFails, Pcs
      <3>2. rec[id].st = "approved" /\ ~rec[id].undoing
        BY <1>0, <1>1, <2>3 DEF TurnFits, RecFits
      <3>3. job[p]["undo"][id].pc \in {"idle", "ending"}
        BY <1>0, <3>2, OneKind
      <3>4. RunFits("unsaved", "none", rec'[id], mains'[id], effect'[id])
        BY <2>1, <3>2 DEF RunFits
      <3>5. UndoFits(job[p]["undo"][id].pc, job[p]["undo"][id].out,
                     rec'[id], mains'[id], effect'[id])
        BY <3>3 DEF UndoFits
      <3>6. TasksFit(p, id)'
        BY <1>2, <3>1, <3>4, <3>5, KindsAre DEF TasksFit
      <3> QED BY <1>0, <1>1, <1>2, <2>1, <2>2, <3>1, <3>6, RequestTells, KindsAre
    <2>4. CASE op # "claim"
      <3>1. UNCHANGED job
        BY <1>3, <2>4 DEF WriteFails
      <3>2. TasksFit(p, id)'
        BY <1>0, <1>1, <2>1, <3>1 DEF TasksFit
      <3> QED BY <1>0, <1>1, <2>1, <2>2, <3>1, <3>2, RequestTells
    <2> QED BY <2>3, <2>4
  <1>4. CASE Writes(p)
    <2>1. rec'[id] = w /\ \A i \in Ids \ {id} : rec'[i] = rec[i]
      BY <1>0, <1>4 DEF Writes, Typed, TypeOK
    <2>2. /\ id <= made /\ op \in Ops \ {"none"} /\ Tells(w.st, m, e)
          /\ w.undoing => w.st = "running" /\ m = 1
          /\ op = "claim" => w.st = "running" /\ ~w.undoing /\ m = 0
          /\ op = "approve" => w.st = "approved" /\ ~w.undoing
          /\ op = "undo" => w.undoing
          /\ op # "claim" => rec[id].st \notin {"approved", "running"}
      BY <1>0, WrittenTells
    <2> HIDE DEF w
    <2>3. RecFits(id)'
      <3>1. ~(id > made)
        BY <1>0, <2>2 DEF Ids, Typed, TypeOK
      <3> QED BY <1>0, <2>1, <2>2, <3>1 DEF RecFits
    <2>4. CASE op = "claim"
      <3>1. Moved(p, "run", id, "recheck", "none")
        BY <1>0, <1>4, <2>4, GoesMoves, KindsAre DEF Writes, Pcs
      <3>2. rec[id].st = "approved"
        BY <1>0, <1>1, <2>4 DEF TurnFits
      <3>3. job[p]["undo"][id].pc \in {"idle", "ending"}
        BY <1>0, <1>1, <3>2, OneKind
      <3>4. RunFits("recheck", "none", rec'[id], mains'[id], effect'[id])
        BY <1>0, <2>1, <2>2, <2>4 DEF RunFits
      <3>5. UndoFits(job[p]["undo"][id].pc, job[p]["undo"][id].out,
                     rec'[id], mains'[id], effect'[id])
        BY <3>3 DEF UndoFits
      <3>6. TasksFit(p, id)'
        BY <1>2, <3>1, <3>4, <3>5, KindsAre DEF TasksFit
      <3> QED BY <1>0, <1>1, <1>2, <2>1, <2>3, <3>1, <3>6, RequestTells, KindsAre
    <2>5. CASE op # "claim"
      <3>0. job[p]["run"][id].pc \in {"idle", "ending"} /\ job[p]["undo"][id].pc \in {"idle", "ending"}
        BY <1>0, <2>2, <2>5, OneKind
      <3>1. RunFits(job[p]["run"][id].pc, job[p]["run"][id].out,
                    rec'[id], mains'[id], effect'[id])
        BY <3>0 DEF RunFits
      <3>2. UndoFits(job[p]["undo"][id].pc, job[p]["undo"][id].out,
                     rec'[id], mains'[id], effect'[id])
        BY <3>0 DEF UndoFits
      <3>3. CASE op = "approve"
        <4>1. Moved(p, "run", id, "asked", "none")
          BY <1>0, <1>4, <3>3, GoesMoves, KindsAre DEF Writes, Pcs
        <4>2. RunFits("asked", "none", rec'[id], mains'[id], effect'[id])
          BY <2>1, <2>2, <3>3 DEF RunFits
        <4>3. TasksFit(p, id)'
          BY <1>2, <3>2, <4>1, <4>2, KindsAre DEF TasksFit
        <4> QED BY <1>0, <1>1, <1>2, <2>1, <2>3, <4>1, <4>3, RequestTells, KindsAre
      <3>4. CASE op = "undo"
        <4>1. Moved(p, "undo", id, "asked", "none")
          BY <1>0, <1>4, <3>4, GoesMoves, KindsAre DEF Writes, Pcs
        <4>2. UndoFits("asked", "none", rec'[id], mains'[id], effect'[id])
          BY <2>1, <2>2, <3>4 DEF UndoFits
        <4>3. TasksFit(p, id)'
          BY <1>2, <3>1, <4>1, <4>2, KindsAre DEF TasksFit
        <4> QED BY <1>0, <1>1, <1>2, <2>1, <2>3, <4>1, <4>3, RequestTells, KindsAre
      <3>5. CASE op \notin {"approve", "undo"}
        <4>1. UNCHANGED job
          BY <1>4, <2>5, <3>5 DEF Writes
        <4>2. TasksFit(p, id)'
          BY <3>1, <3>2, <4>1 DEF TasksFit
        <4> QED BY <1>0, <1>1, <2>1, <2>3, <4>1, <4>2, RequestTells
      <3> QED BY <3>3, <3>4, <3>5
    <2> QED BY <2>4, <2>5
  <1> QED BY <1>3, <1>4

\* A process that dies leaves records that fit; the next one recovers them
\* before it serves.
LEMMA RecoveryTells ==
  ASSUME OneProc, Typed, TellInv, NEW p \in Procs,
         Recovers(p) \/ BootFails(p) \/ Boots(p) \/ Crash(p)
  PROVE  TellInv'
  <1>0. UNCHANGED <<made, mains, effect>> /\ \A q \in Procs : q = p
    BY DEF Recovers, BootLists, BootReads, BootSettles, BootEnds, BootFails, Boots, Crash,
           world, files, OneProc
  <1>a. boot \in [Procs -> [pc: {"off", "due", "list"}, todo: SUBSET Ids,
                            rows: SUBSET (Ids \X {"approved", "running"})]]
    BY DEF Typed, TypeOK
  <1>b. BootFits(p) /\ TurnFits(p) /\ \A id \in Ids : RecFits(id) /\ TasksFit(p, id)
    BY DEF TellInv
  <1>1. ASSUME UNCHANGED rec, BootFits(p)', turn'[p] = turn[p] \/ turn'[p] = NoTurn,
               \/ UNCHANGED job
               \/ \A k \in Kinds, id \in Ids : job'[p][k][id].pc = "idle"
        PROVE  TellInv'
    <2>1. TurnFits(p)' /\ \A id \in Ids : RecFits(id)'
      BY <1>0, <1>1, <1>b DEF TurnFits, RecFits
    <2>2. ASSUME NEW id \in Ids PROVE TasksFit(p, id)'
      <3>1. CASE UNCHANGED job
        BY <1>0, <1>1, <1>b, <3>1 DEF TasksFit
      <3>2. CASE \A k \in Kinds, i \in Ids : job'[p][k][i].pc = "idle"
        <4>1. job'[p]["run"][id].pc = "idle" /\ job'[p]["undo"][id].pc = "idle"
          BY <3>2, KindsAre
        <4> QED BY <4>1 DEF TasksFit, RunFits, UndoFits
      <3> QED BY <1>1, <3>1, <3>2
    <2> QED BY <1>0, <1>1, <2>1, <2>2 DEF TellInv
  <1>2. CASE BootLists(p)
    <2>1. boot'[p].rows = boot[p].rows
      BY <1>2, <1>a DEF BootLists
    <2>2. boot[p].pc = "due" /\ boot'[p].pc = "list" /\ UNCHANGED <<rec, turn, job, up>>
      BY <1>2, <1>a DEF BootLists, files
    <2>3. BootFits(p)'
      BY <1>b, <2>1, <2>2 DEF BootFits
    <2> QED BY <1>1, <2>2, <2>3
  <1>3. CASE BootReads(p)
    <2>1. PICK id \in boot[p].todo :
            boot' = [boot EXCEPT ![p].todo = @ \ {id},
                                 ![p].rows = IF rec[id].st \in {"approved", "running"}
                                               THEN @ \cup {<<id, rec[id].st>>} ELSE @]
      BY <1>3 DEF BootReads
    <2>2. /\ boot'[p].pc = boot[p].pc
          /\ boot'[p].rows \subseteq boot[p].rows \cup {<<id, rec[id].st>>}
      BY <1>a, <2>1
    <2>3. boot[p].pc = "list" /\ UNCHANGED <<rec, turn, job, up>>
      BY <1>3 DEF BootReads, files
    <2>4. BootFits(p)'
      BY <1>b, <2>2, <2>3 DEF BootFits
    <2> QED BY <1>1, <2>3, <2>4
  <1>4. CASE BootSettles(p)
    <2>1. PICK row \in boot[p].rows :
            /\ rec' = [rec EXCEPT ![row[1]] = Closed(@, RecoversAs(row[2]))]
            /\ boot' = [boot EXCEPT ![p].rows = @ \ {row}]
      BY <1>4 DEF BootSettles
    <2> DEFINE w == Closed(rec[row[1]], RecoversAs(row[2]))
    <2>2. /\ row[1] \in Ids /\ row[2] \in {"approved", "running"} /\ row = <<row[1], row[2]>>
          /\ rec[row[1]].st = row[2]
      BY <1>a, <1>b DEF BootFits
    <2>3. /\ w.undoing = FALSE /\ (row[2] = "approved" => w.st = "expired")
          /\ (row[2] = "running" => w.st = "failed")
      BY <2>2 DEF Closed, RecoversAs, Typed, TypeOK, Records
    <2>4. rec'[row[1]] = w /\ \A i \in Ids \ {row[1]} : rec'[i] = rec[i]
      BY <2>1, <2>2 DEF Typed, TypeOK
    <2> HIDE DEF w
    <2>5. /\ boot[p].pc = "list" /\ turn[p] = NoTurn /\ UNCHANGED <<turn, job, up>>
          /\ \A k \in Kinds, id \in Ids : job[p][k][id].pc = "idle"
      BY <1>4, <1>b DEF BootSettles, BootFits
    <2>6. ASSUME NEW id \in Ids PROVE RecFits(id)'
      <3>1. CASE id = row[1]
        <4>1. row[2] = "approved" => mains[id] = 0
          BY <1>b, <2>2, <3>1 DEF RecFits, Tells
        <4>2. ~(id > made)
          BY <1>b, <2>2, <3>1 DEF RecFits
        <4> QED BY <1>0, <2>2, <2>3, <2>4, <3>1, <4>1, <4>2 DEF RecFits, Tells
      <3>2. CASE id # row[1]
        BY <1>0, <1>b, <2>4, <3>2 DEF RecFits
      <3> QED BY <3>1, <3>2
    <2>7. ASSUME NEW id \in Ids PROVE TasksFit(p, id)'
      <3>1. job'[p]["run"][id].pc = "idle" /\ job'[p]["undo"][id].pc = "idle"
        BY <2>5, KindsAre
      <3> QED BY <3>1 DEF TasksFit, RunFits, UndoFits
    <2>8. BootFits(p)'
      <3>1. boot'[p].pc = "list" /\ boot'[p].rows = boot[p].rows \ {row}
        BY <1>a, <2>1, <2>5
      <3>2. ASSUME NEW r \in boot[p].rows \ {row} PROVE rec'[r[1]].st = r[2]
        <4>1. r[1] \in Ids /\ r = <<r[1], r[2]>> /\ rec[r[1]].st = r[2]
          BY <1>a, <1>b DEF BootFits
        <4>2. r[1] # row[1]
          BY <2>2, <4>1
        <4> QED BY <2>4, <4>1, <4>2
      <3> QED BY <2>5, <3>1, <3>2 DEF BootFits
    <2>9. TurnFits(p)'
      BY <2>5 DEF TurnFits
    <2> QED BY <1>0, <2>6, <2>7, <2>8, <2>9 DEF TellInv
  <1>5. ASSUME BootEnds(p) \/ BootFails(p) PROVE TellInv'
    <2>1. /\ boot'[p] = NoBoot /\ p \in up /\ UNCHANGED <<rec, turn, job, up>>
      BY <1>5, <1>a DEF BootEnds, BootFails, files
    <2>2. BootFits(p)'
      BY <2>1 DEF BootFits, NoBoot
    <2> QED BY <1>1, <2>1, <2>2
  <1>6. CASE Boots(p)
    <2>1. /\ boot'[p].pc = "due" /\ boot'[p].rows = {} /\ p \notin up
          /\ UNCHANGED <<rec, turn, job>>
      BY <1>6, <1>a DEF Boots, NoBoot, files
    <2>2. BootFits(p)'
      BY <1>b, <2>1 DEF BootFits
    <2> QED BY <1>1, <2>1, <2>2
  <1>7. CASE Crash(p)
    <2>1. /\ boot'[p] = NoBoot /\ turn'[p] = NoTurn /\ UNCHANGED rec
          /\ \A k \in Kinds, id \in Ids : job'[p][k][id].pc = "idle"
      BY <1>7, <1>a DEF Crash, files, Idle, Typed, TypeOK
    <2>2. BootFits(p)'
      BY <2>1 DEF BootFits, NoBoot
    <2> QED BY <1>1, <2>1, <2>2
  <1> QED BY <1>2, <1>3, <1>4, <1>5, <1>6, <1>7 DEF Recovers

LEMMA TellNext ==
  ASSUME OneProc, Typed, OnceInv, TellInv, [Next]_vars
  PROVE  TellInv'
  <1>1. ASSUME UNCHANGED <<made, rec, mains, effect, turn, job, up, boot>> PROVE TellInv'
    BY <1>1 DEF TellInv, RecFits, TurnFits, BootFits, TasksFit
  <1>2. CASE UNCHANGED vars
    BY <1>1, <1>2 DEF vars, files, world
  <1>3. ASSUME NEW p \in Procs, NEW id \in Ids, TimePasses(p, id) PROVE TellInv'
    BY <1>1, <1>3 DEF TimePasses, files, world
  <1>4. ASSUME NEW p \in Procs, NEW id \in Ids, Executes(p, id) PROVE TellInv'
    BY <1>4, ExecutionTells, UndoStepsTell, RevertsTell, SettlesTell, OthersTell DEF Executes
  <1>5. ASSUME NEW p \in Procs, NEW id \in Ids, NEW k \in Kinds,
               SettleFails(p, k, id) \/ StepThrows(p, k, id)
        PROVE  TellInv'
    BY <1>5, OthersTell
  <1>6. ASSUME NEW p \in Procs, Writes(p) \/ WriteFails(p) PROVE TellInv'
    <2>1. turn[p].id \in Ids
      BY <1>6 DEF Writes, WriteFails, Free, Typed, Addressed
    <2> QED BY <1>6, <2>1, TurnEndsTell
  <1> QED BY <1>2, <1>3, <1>4, <1>5, <1>6, TakingTurnsTells, RecoveryTells DEF Next

\* One process, recovered before it serves: what a record says of the command is
\* so, whichever step failed and whenever the process died.
THEOREM RecordsAreTrue ==
  ASSUME OneProc
  PROVE  Spec => []RecordTells
  <1>1. TellInv => RecordTells
    <2> SUFFICES ASSUME TellInv, NEW id \in Ids
                 PROVE  /\ rec[id].st \in {"done", "kept"} => effect[id] = "yes"
                        /\ rec[id].st = "undone" => mains[id] = 1 /\ effect[id] = "no"
                        /\ rec[id].st \in {"pending", "approved", "rejected", "expired", "stale"}
                             => mains[id] = 0
      BY DEF RecordTells
    <2> QED BY DEF TellInv, RecFits, Tells
  <1>2. TellInv /\ (Typed /\ OnceInv) /\ [Next]_vars => TellInv'
    BY TellNext
  <1> QED BY <1>1, <1>2, TellInit, Safe, PTL DEF Spec

\* Whatever the owner, a task or a recovery writes under the same conditions, it
\* never replaces an outcome that is final by another one.
THEOREM FinalsStay ==
  ASSUME OneProc
  PROVE  Spec => FinalStays
  <1> DEFINE Stays == \A id \in Ids : rec[id].st \in Final => rec'[id].st = rec[id].st
  <1>1. ASSUME Typed, OnceInv, TellInv, [Next]_vars PROVE Stays
    <2> SUFFICES ASSUME NEW id \in Ids, rec[id].st \in Final
                 PROVE  rec'[id].st = rec[id].st
      OBVIOUS
    <2>0. rec[id].st \notin {"approved", "running"} /\ rec \in [Ids -> Records]
      BY <1>1 DEF Final, Typed, TypeOK
    <2>1. ASSUME NEW p \in Procs, Writes(p) PROVE rec'[id].st = rec[id].st
      <3>1. turn[p] # NoTurn /\ turn[p].id \in Ids
            /\ rec' = [rec EXCEPT ![turn[p].id] = Written(p, turn[p].op, turn[p].row)]
        BY <1>1, <2>1 DEF Writes, Free, Typed, Addressed
      <3>2. rec[turn[p].id].st \in Final =>
              Written(p, turn[p].op, turn[p].row).st = rec[turn[p].id].st
        BY <1>1, <3>1, WrittenTells
      <3>3. CASE turn[p].id = id
        BY <2>0, <3>1, <3>2, <3>3
      <3>4. CASE turn[p].id # id
        BY <2>0, <3>1, <3>4
      <3> QED BY <3>3, <3>4
    <2>2. ASSUME NEW p \in Procs, NEW k \in Kinds, NEW i \in Ids, Settles(p, k, i)
          PROVE  rec'[id].st = rec[id].st
      <3>1. job[p][k][i].pc \notin {"idle", "ending"}
        BY <2>2 DEF Settles
      <3>2. rec[i].st \in {"approved", "running"}
        BY <1>1, <3>1, OneKind DEF Kinds
      <3>3. rec'[id] = rec[id]
        BY <2>0, <2>2, <3>2 DEF Settles
      <3> QED BY <3>3
    <2>3. ASSUME NEW p \in Procs, BootSettles(p) PROVE rec'[id].st = rec[id].st
      <3>1. PICK row \in boot[p].rows :
              rec' = [rec EXCEPT ![row[1]] = Closed(@, RecoversAs(row[2]))]
        BY <2>3 DEF BootSettles
      <3>2. row[2] \in {"approved", "running"} /\ rec[row[1]].st = row[2]
        BY <1>1 DEF Typed, TypeOK, TellInv, BootFits
      <3>3. rec'[id] = rec[id]
        BY <2>0, <3>1, <3>2
      <3> QED BY <3>3
    <2>4. CASE UNCHANGED rec
      BY <2>4
    <2>5. ASSUME NEW p \in Procs, NEW i \in Ids, Executes(p, i),
                 \A k \in Kinds : ~Settles(p, k, i)
          PROVE  UNCHANGED rec
      BY <2>5 DEF Executes, Claims, Rechecks, Runs, RunIsBlocked, RunEnds, Verifies,
                  UndoBegins, UndoClaims, Starts, Reverts, RevertEnds, failSafe, TaskEnds, files
    <2>6. ASSUME NEW p \in Procs, Recovers(p), ~BootSettles(p) PROVE UNCHANGED rec
      BY <2>6 DEF Recovers, BootLists, BootReads, BootEnds, files
    <2>7. ASSUME NEW p \in Procs,
                 \/ \E a \in Asks : Proposes(p, a)
                 \/ \E i \in Ids : \E op \in Decisions : Decides(p, op, i)
                 \/ \E i \in Ids : TimePasses(p, i)
                 \/ \E i \in Ids, k \in Kinds : SettleFails(p, k, i) \/ StepThrows(p, k, i)
                 \/ WriteFails(p) \/ BootFails(p) \/ Crash(p) \/ Boots(p)
          PROVE  UNCHANGED rec
      BY <2>7 DEF Proposes, Decides, TimePasses, SettleFails, StepThrows, WriteFails,
                  BootFails, Crash, Boots, files
    <2>8. CASE UNCHANGED vars
      BY <2>8 DEF vars, files
    <2> QED BY <1>1, <2>1, <2>2, <2>3, <2>4, <2>5, <2>6, <2>7, <2>8 DEF Next
  <1>2. TellInv /\ (Typed /\ OnceInv) /\ [Next]_vars => TellInv'
    BY TellNext
  <1>3. (Typed /\ OnceInv) /\ TellInv /\ [Next]_vars => [Stays]_vars
    BY <1>1
  <1>4. Spec => [][Stays]_vars
    BY <1>2, <1>3, TellInit, Safe, PTL DEF Spec
  <1> QED BY <1>4 DEF FinalStays
=============================================================================
