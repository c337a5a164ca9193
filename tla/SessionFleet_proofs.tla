------------------------ MODULE SessionFleet_proofs ------------------------
(***************************************************************************)
(* What holds of the fleet of agent sessions for every number of agents,   *)
(* cards and recycles: no registry row is lost, a refused spawn leaves     *)
(* nothing behind, and - while sweeps keep clear of births and swaps, and  *)
(* no restart cut one short - one process per tree and sweeps that spare   *)
(* the living.                                                             *)
(***************************************************************************)
EXTENDS SessionFleet, TLAPS

USE FleetAssumption

-----------------------------------------------------------------------------
(* Types.                                                                  *)

LEMMA NoRowsTyped == NoRow \in Row /\ NoRows \in [Sessions -> Row]
BY DEF NoRow, Row, NoRows

\* What the registry's writers write.
LEMMA RowsTyped ==
  ASSUME TypeOK
  PROVE  /\ Present \in [Sessions -> Row]
         /\ \A s \in Sessions, row \in Row :
               Patched(s, row) \in [Sessions -> Row]
         /\ \A s \in Sessions, n \in 0..MaxRecycles :
               Stamped(rows[s], n) \in Row
<1>1. rows \in [Sessions -> Row]
  BY DEF TypeOK
<1>2. Present \in [Sessions -> Row]
  BY <1>1, NoRowsTyped DEF Present
<1>3. \A s \in Sessions, row \in Row : Patched(s, row) \in [Sessions -> Row]
  BY <1>1 DEF Patched
<1>4. ASSUME NEW s \in Sessions, NEW n \in 0..MaxRecycles
      PROVE  Stamped(rows[s], n) \in Row
  <2>1. rows[s] \in Row /\ {n} \in {{}} \cup {{m} : m \in 0..MaxRecycles}
    BY <1>1
  <2> QED BY <2>1 DEF Stamped, Row
<1> QED BY <1>2, <1>3, <1>4

\* A call that goes on keeps its cards until it comes to rest.
LEMMA GoesTo ==
  ASSUME TypeOK, NEW s \in Sessions,
         NEW pc \in {"claiming", "starting", "proving", "stamping",
                     "releasing", "discarding", "refused", "stuck", "idle"},
         Goes(s, pc)
  PROVE  /\ act' \in [Sessions -> Call]
         /\ act'[s].pc = pc
         /\ pc \notin Resting => act'[s].cards = act[s].cards
         /\ \A t \in Sessions : t # s => act'[t] = act[t]
<1>1. act \in [Sessions -> Call]
  BY DEF TypeOK
<1>2. /\ At(s, pc) \in Call /\ At(s, pc).pc = pc
      /\ pc \notin Resting => At(s, pc).cards = act[s].cards
  BY <1>1, NoRowsTyped DEF At, Call
<1> QED BY <1>1, <1>2 DEF Goes

\* claim_card renews, or goes on to bind the card.
LEMMA ClaimsGoesTo ==
  ASSUME TypeOK, NEW s \in Sessions, NEW k \in Cards, ClaimsCard(s, k)
  PROVE  /\ act' \in [Sessions -> Call]
         /\ act'[s] = act[s] \/ act'[s].pc = "binding"
         /\ \A t \in Sessions : t # s => act'[t] = act[t]
<1>1. act \in [Sessions -> Call] /\ act[s] \in Call
  BY DEF TypeOK
<1>2. CASE rows[s].cards = {}
  <2> DEFINE call == [act[s] EXCEPT !.pc = "binding", !.cards = {k}]
  <2>1. call \in Call /\ call.pc = "binding"
    BY <1>1 DEF Call
  <2>2. act' = [act EXCEPT ![s] = call]
    BY <1>1, <1>2 DEF ClaimsCard, Call
  <2> HIDE DEF call
  <2> QED BY <1>1, <2>1, <2>2
<1>3. CASE rows[s].cards # {}
  BY <1>1, <1>3 DEF ClaimsCard
<1> QED BY <1>2, <1>3

LEMMA InitTyped == Init => TypeOK
<1> SUFFICES ASSUME Init PROVE TypeOK
  OBVIOUS
<1>1. setting \in Settings /\ crashes \in 0..setting.restarts
  BY DEF Init
<1>2. act \in [Sessions -> Call]
  BY NoRowsTyped DEF Init, Call
<1>3. recycle \in [Recycles -> Swap]
  <2>1. NoRecycle("new") \in Swap
    BY DEF NoRecycle, Swap
  <2> QED BY <2>1 DEF Init
<1>4. /\ rows \in [Sessions -> Row]
      /\ lock \subseteq Sessions \X {"open", "discard"}
      /\ trees \subseteq Sessions /\ alive \subseteq Terminals
      /\ claims \subseteq Cards \X Sessions
      /\ sweep \in [pc: {"idle", "probed"}, live: SUBSET Terminals]
  BY NoRowsTyped DEF Init
<1> QED BY <1>1, <1>2, <1>3, <1>4 DEF TypeOK

\* The steps of a spawn, a claim or a discard.
LEMMA CallTyped ==
  ASSUME TypeOK, NEW s \in Sessions,
         \/ \E K \in SUBSET Cards : Opens(s, K)
         \/ Discards(s) \/ DiscardEnds(s) \/ Continues(s)
         \/ \E k \in Cards : ClaimsCard(s, k)
  PROVE  TypeOK'
<1>0. /\ act \in [Sessions -> Call] /\ rows \in [Sessions -> Row]
      /\ act[s] \in Call /\ act[s].cards \in SUBSET Cards
      /\ act[s].rows \in [Sessions -> Row] /\ rows[s] \in Row
      /\ lock \subseteq Sessions \X {"open", "discard"}
      /\ trees \subseteq Sessions /\ alive \subseteq Terminals
      /\ claims \subseteq Cards \X Sessions
  BY DEF TypeOK, Call
<1>1. ASSUME NEW K \in SUBSET Cards, Opens(s, K)
      PROVE  TypeOK'
  <2>1. act' \in [Sessions -> Call]
    <3>1. [pc |-> "opening", cards |-> K, rows |-> Present] \in Call
      BY RowsTyped DEF Call
    <3> QED BY <1>0, <1>1, <3>1 DEF Opens
  <2>2. lock' \subseteq Sessions \X {"open", "discard"}
    BY <1>0, <1>1 DEF Opens
  <2>3. trees' \subseteq Sessions /\ rows' \in [Sessions -> Row]
    BY <1>0, <1>1, RowsTyped DEF Opens
  <2> QED BY <1>1, <2>1, <2>2, <2>3 DEF Opens, TypeOK
<1>2. CASE OpenEnds(s)
  <2>1. /\ [NoRow EXCEPT !.reg = TRUE, !.tree = TRUE, !.cards = act[s].cards]
             \in Row
    BY <1>0, NoRowsTyped DEF Row, NoRow
  <2>2. rows' \in [Sessions -> Row]
    BY <1>0, <1>2, <2>1 DEF OpenEnds
  <2>3. act' \in [Sessions -> Call]
    BY <1>2, GoesTo DEF OpenEnds
  <2> QED BY <1>0, <1>2, <2>2, <2>3 DEF OpenEnds, TypeOK, world
<1>3. CASE OpenFails(s)
  <2>1. act' \in [Sessions -> Call]
    BY <1>3, GoesTo DEF OpenFails
  <2> QED BY <1>0, <1>3, <2>1 DEF OpenFails, TypeOK
<1>4. CASE Discards(s)
  BY <1>0, <1>4 DEF Discards, TypeOK
<1>5. CASE DiscardEnds(s)
  <2>1. act' \in [Sessions -> Call]
    BY <1>0, <1>5, GoesTo DEF DiscardEnds
  <2>2. rows' \in [Sessions -> Row]
    BY <1>0, <1>5, NoRowsTyped DEF DiscardEnds
  <2> QED BY <1>0, <1>5, <2>1, <2>2 DEF DiscardEnds, TypeOK, world
<1>6. CASE Reserves(s)
  <2>1. act' \in [Sessions -> Call]
    BY <1>6, GoesTo DEF Reserves
  <2>2. claims' \subseteq Cards \X Sessions
    BY <1>0, <1>6 DEF Reserves
  <2> QED BY <1>0, <1>6, <2>1, <2>2 DEF Reserves, TypeOK
<1>7. CASE StartFails(s) \/ Proves(s) \/ NothingToDiscard(s)
  <2>1. act' \in [Sessions -> Call]
    BY <1>7, GoesTo DEF StartFails, Proves, NothingToDiscard
  <2> QED
    BY <1>0, <1>7, <2>1 DEF StartFails, Proves, NothingToDiscard, TypeOK, world
<1>8. CASE Starts(s)
  <2>1. act' \in [Sessions -> Call]
    BY <1>8, GoesTo DEF Starts
  <2>2. alive' \subseteq Terminals
    BY <1>0, <1>8 DEF Starts, Terminals
  <2> QED BY <1>0, <1>8, <2>1, <2>2 DEF Starts, TypeOK
<1>9. CASE Stamps(s)
  <2>1. act' \in [Sessions -> Call]
    BY <1>9, GoesTo DEF Stamps
  <2>2. rows' \in [Sessions -> Row]
    BY <1>9, RowsTyped DEF Stamps
  <2> QED BY <1>0, <1>9, <2>1, <2>2 DEF Stamps, TypeOK, world
<1>10. CASE RollsBack(s)
  <2>1. act' \in [Sessions -> Call]
    BY <1>10, GoesTo DEF RollsBack
  <2> QED BY <1>0, <1>10, <2>1 DEF RollsBack, Unreserved, TypeOK
<1>11. ASSUME NEW k \in Cards, ClaimsCard(s, k)
       PROVE  TypeOK'
  <2>1. act' \in [Sessions -> Call]
    BY <1>0, <1>11, ClaimsGoesTo
  <2> QED BY <1>0, <1>11, <2>1 DEF ClaimsCard, TypeOK
<1>12. CASE BindsCard(s)
  <2>1. act' \in [Sessions -> Call]
    BY <1>12, GoesTo DEF BindsCard
  <2>2. [rows[s] EXCEPT !.cards = act[s].cards] \in Row
    BY <1>0 DEF Row
  <2>3. rows' \in [Sessions -> Row]
    BY <1>12, <2>2, RowsTyped DEF BindsCard
  <2> QED BY <1>0, <1>12, <2>1, <2>3 DEF BindsCard, TypeOK, world
<1> QED BY <1>1, <1>2, <1>3, <1>4, <1>5, <1>6, <1>7, <1>8, <1>9, <1>10, <1>11,
           <1>12 DEF Continues

LEMMA RecycleTyped ==
  ASSUME TypeOK, NEW n \in Recycles,
         RecycleContinues(n) \/ \E s \in Sessions : RecycleStarts(n, s)
  PROVE  TypeOK'
<1>0. /\ recycle \in [Recycles -> Swap] /\ recycle[n] \in Swap
      /\ recycle[n].s \in Sessions /\ rows \in [Sessions -> Row]
      /\ n \in 0..MaxRecycles /\ alive \subseteq Terminals
  BY DEF TypeOK, Swap, Recycles
<1>1. ASSUME NEW s \in Sessions, RecycleStarts(n, s)
      PROVE  TypeOK'
  <2>1. rows[s].tmux \subseteq 0..MaxRecycles
    BY <1>0 DEF Row
  <2>2. HostedBy(s, rows[s]) \subseteq Terminals
    BY <2>1 DEF HostedBy, Terminals
  <2>3. recycle' \in [Recycles -> Swap]
    BY <1>0, <1>1, <2>2 DEF RecycleStarts, Swap
  <2>4. alive' \subseteq Terminals
    BY <1>0, <1>1 DEF RecycleStarts, Terminals
  <2> QED BY <1>1, <2>3, <2>4 DEF RecycleStarts, TypeOK
<1>2. Swapped(n) => recycle' \in [Recycles -> Swap]
  <2>1. NoRecycle("idle") \in Swap
    BY DEF NoRecycle, Swap
  <2> QED BY <1>0, <2>1 DEF Swapped
<1>3. CASE RecycleFails(n)
  BY <1>2, <1>3 DEF RecycleFails, TypeOK, world
<1>4. CASE RecycleSwaps(n)
  <2>1. recycle' \in [Recycles -> Swap]
    BY <1>0, <1>4 DEF RecycleSwaps, Swap
  <2> QED BY <1>4, <2>1 DEF RecycleSwaps, KillsOld, TypeOK
<1>5. CASE RecycleStamps(n)
  <2>1. rows' \in [Sessions -> Row]
    BY <1>0, <1>5, RowsTyped DEF RecycleStamps
  <2> QED BY <1>2, <1>5, <2>1 DEF RecycleStamps, TypeOK, world
<1> QED BY <1>1, <1>3, <1>4, <1>5 DEF RecycleContinues

LEMMA SweepTyped ==
  ASSUME TypeOK, Probes \/ \E ok \in BOOLEAN : Sweeps(ok)
  PROVE  TypeOK'
<1>1. CASE Probes
  BY <1>1 DEF Probes, ProbeAnswers, TypeOK, world
<1>2. ASSUME NEW ok \in BOOLEAN, Sweeps(ok)
      PROVE  TypeOK'
  <2>1. rows' \in [Sessions -> Row]
    <3> SUFFICES ASSUME NEW s \in Sessions
                 PROVE  [rows[s] EXCEPT !.ended = ~Found(s) /\ Buried(s, ok)]
                          \in Row
      BY <1>2 DEF Sweeps
    <3>1. rows[s] \in Row /\ (~Found(s) /\ Buried(s, ok)) \in BOOLEAN
      BY DEF TypeOK
    <3> QED BY <3>1 DEF Row
  <2> QED BY <1>2, <2>1 DEF Sweeps, TypeOK
<1> QED BY <1>1, <1>2

LEMMA RestTyped ==
  ASSUME TypeOK,
         \/ \E s \in Sessions, k \in Cards : GivesBack(k, s) \/ Lapses(k, s)
         \/ \E t \in Terminals : Exits(t)
         \/ Restarts \/ UNCHANGED vars
  PROVE  TypeOK'
<1>1. CASE \E s \in Sessions, k \in Cards : GivesBack(k, s) \/ Lapses(k, s)
  BY <1>1 DEF GivesBack, Lapses, TypeOK
<1>2. CASE \E t \in Terminals : Exits(t)
  BY <1>2 DEF Exits, TypeOK
<1>3. CASE Restarts
  <2>1. act' \in [Sessions -> Call]
    <3> SUFFICES ASSUME NEW s \in Sessions PROVE At(s, "idle") \in Call
      BY <1>3 DEF Restarts, TypeOK
    <3> QED BY NoRowsTyped DEF At, Call, Resting
  <2>2. recycle' \in [Recycles -> Swap]
    BY <1>3 DEF Restarts, NoRecycle, Swap
  <2>3. crashes' \in 0..setting.restarts
    BY <1>3 DEF Restarts, TypeOK
  <2> QED BY <1>3, <2>1, <2>2, <2>3 DEF Restarts, TypeOK, world
<1>4. CASE UNCHANGED vars
  BY <1>4 DEF vars, world, TypeOK
<1> QED BY <1>1, <1>2, <1>3, <1>4

\* Next, as the proofs below go through it.
LEMMA StepCases ==
  ASSUME [Next]_vars
  PROVE  \/ \E s \in Sessions :
              \/ \E K \in SUBSET Cards : Opens(s, K)
              \/ Discards(s) \/ DiscardEnds(s) \/ Continues(s)
              \/ \E k \in Cards : ClaimsCard(s, k)
         \/ \E n \in Recycles :
              RecycleContinues(n) \/ \E s \in Sessions : RecycleStarts(n, s)
         \/ Probes \/ \E ok \in BOOLEAN : Sweeps(ok)
         \/ \E s \in Sessions, k \in Cards : GivesBack(k, s) \/ Lapses(k, s)
         \/ \E t \in Terminals : Exits(t)
         \/ Restarts \/ UNCHANGED vars
BY DEF Next

LEMMA TypeStep == TypeOK /\ [Next]_vars => TypeOK'
BY StepCases, CallTyped, RecycleTyped, SweepTyped, RestTyped

\* The registry, the claims and the calls under way keep their shape.
THEOREM TypeCorrect == Spec => []TypeOK
<1>1. Init => TypeOK
  BY InitTyped
<1>2. TypeOK /\ [Next]_vars => TypeOK'
  BY TypeStep
<1> QED BY <1>1, <1>2, PTL DEF Spec

-----------------------------------------------------------------------------
(* The registry.  Whoever holds the lock across an await finds the registry *)
(* as it loaded it; a tree has a row, unless it is being cut or a restart    *)
(* came between the two.                                                    *)

TreeRows == {s \in Sessions : rows[s].tree}

OneHolder == \A x, y \in lock : x = y
OpeningHoldsLock ==
  \A s \in Sessions : act[s].pc = "opening" <=> <<s, "open">> \in lock
RowsAreWhole ==
  \A s \in Sessions : (rows[s].reg /\ rows[s].tree) \/ rows[s] = NoRow
LoadedIsCurrent ==
  \A s \in Sessions : act[s].pc = "opening" => act[s].rows = rows
UnbornHasNoRow ==
  \A s \in Sessions : act[s].pc \in {"unborn", "opening"} => rows[s] = NoRow
TreeHasRow ==
  \A s \in Sessions :
    /\ s \in trees => rows[s].reg \/ act[s].pc \in {"opening", "idle"}
    /\ act[s].pc = "refused" => s \notin trees /\ ~rows[s].reg

\* Before the first restart the trees on disk are the listed ones, but for
\* the tree the holder of the lock is cutting or removing.
TreesKnown ==
  crashes = 0 =>
    /\ lock = {} => trees = TreeRows
    /\ \A s \in Sessions : <<s, "open">> \in lock => trees = TreeRows \cup {s}
    /\ \A s \in Sessions : <<s, "discard">> \in lock =>
         trees \subseteq TreeRows /\ TreeRows \subseteq trees \cup {s}

RegistryInv ==
  /\ OneHolder /\ OpeningHoldsLock
  /\ RowsAreWhole /\ LoadedIsCurrent /\ UnbornHasNoRow
  /\ TreeHasRow /\ TreesKnown

\* A step without the lock: calls move on past their opening, and a row is
\* patched only while nobody holds the registry.
LEMMA RegistryKept ==
  ASSUME TypeOK, RegistryInv, UNCHANGED <<lock, trees, crashes>>,
         \A s \in Sessions :
            \/ act'[s] = act[s]
            \/ /\ act[s].pc \notin {"unborn", "opening"}
               /\ act'[s].pc \notin {"unborn", "opening", "refused"}
               /\ act[s].pc = "idle" => rows[s].reg,
         \/ rows' = rows
         \/ /\ lock = {}
            /\ \A s \in Sessions : /\ rows'[s].reg = rows[s].reg
                                   /\ rows'[s].tree = rows[s].tree
                                   /\ rows[s] = NoRow => rows'[s] = NoRow
  PROVE  RegistryInv'
<1>1. \A s \in Sessions : /\ rows'[s].reg = rows[s].reg
                          /\ rows'[s].tree = rows[s].tree
                          /\ rows[s] = NoRow => rows'[s] = NoRow
  OBVIOUS
<1>2. TreeRows' = TreeRows
  BY <1>1 DEF TreeRows
<1>3. OneHolder' /\ OpeningHoldsLock'
  BY DEF RegistryInv, OneHolder, OpeningHoldsLock
<1>4. RowsAreWhole' /\ UnbornHasNoRow'
  BY <1>1 DEF RegistryInv, RowsAreWhole, UnbornHasNoRow
<1>5. LoadedIsCurrent'
  BY DEF RegistryInv, LoadedIsCurrent, OpeningHoldsLock
<1>6. TreeHasRow'
  BY <1>1 DEF RegistryInv, TreeHasRow
<1>7. TreesKnown'
  BY <1>2 DEF RegistryInv, TreesKnown
<1> QED BY <1>3, <1>4, <1>5, <1>6, <1>7 DEF RegistryInv

\* openSessionWorktree, from the lock to the row.
LEMMA OpenKeepsRegistry ==
  ASSUME TypeOK, RegistryInv, NEW s \in Sessions,
         (\E K \in SUBSET Cards : Opens(s, K)) \/ OpenEnds(s) \/ OpenFails(s)
  PROVE  RegistryInv'
<1>0. /\ act \in [Sessions -> Call] /\ rows \in [Sessions -> Row]
      /\ lock \subseteq Sessions \X {"open", "discard"}
      /\ trees \subseteq Sessions
  BY DEF TypeOK
<1> USE DEF RegistryInv
<1>1. ASSUME NEW K \in SUBSET Cards, Opens(s, K)
      PROVE  RegistryInv'
  <2>1. /\ act[s].pc = "unborn" /\ lock = {} /\ lock' = {<<s, "open">>}
        /\ rows' = Present /\ trees' = trees \cup {s} /\ crashes' = crashes
        /\ act'[s].pc = "opening" /\ act'[s].rows = Present
        /\ \A t \in Sessions : t # s => act'[t] = act[t]
    BY <1>0, <1>1 DEF Opens, Free
  <2>2. \A t \in Sessions :
           \/ rows'[t] = rows[t]
           \/ t \notin trees /\ rows[t].tree /\ rows'[t] = NoRow
    BY <2>1 DEF Present
  <2>3. crashes = 0 => TreeRows' = TreeRows /\ trees = TreeRows
    <3>1. crashes = 0 => trees = TreeRows
      BY <2>1 DEF TreesKnown
    <3> QED BY <2>2, <3>1 DEF TreeRows
  <2>4. NoRow.reg = FALSE
    BY DEF NoRow
  <2>5. OneHolder' /\ OpeningHoldsLock'
    BY <2>1 DEF OneHolder, OpeningHoldsLock
  <2>6. RowsAreWhole' /\ UnbornHasNoRow'
    BY <2>1, <2>2 DEF RowsAreWhole, UnbornHasNoRow
  <2>7. LoadedIsCurrent'
    BY <2>1 DEF LoadedIsCurrent, OpeningHoldsLock
  <2>8. TreeHasRow'
    BY <2>1, <2>2, <2>4 DEF TreeHasRow
  <2>9. TreesKnown'
    BY <2>1, <2>3 DEF TreesKnown
  <2> QED BY <2>5, <2>6, <2>7, <2>8, <2>9
<1>2. CASE OpenEnds(s)
  <2> DEFINE row == [NoRow EXCEPT !.reg = TRUE, !.tree = TRUE,
                                  !.cards = act[s].cards]
  <2>1. /\ act[s].pc = "opening" /\ lock = {<<s, "open">>} /\ lock' = {}
        /\ act[s].rows = rows /\ rows[s] = NoRow
        /\ trees' = trees /\ crashes' = crashes
    BY <1>2 DEF OpenEnds, OneHolder, OpeningHoldsLock, LoadedIsCurrent,
                UnbornHasNoRow, world
  <2>2. row.reg = TRUE /\ row.tree = TRUE
    BY DEF NoRow
  <2>3. rows' = [rows EXCEPT ![s] = row]
    BY <1>2, <2>1 DEF OpenEnds
  <2> HIDE DEF row
  <2>4. rows'[s] = row /\ \A t \in Sessions : t # s => rows'[t] = rows[t]
    BY <1>0, <2>3
  <2>5. /\ act'[s].pc \in {"idle", "claiming"}
        /\ \A t \in Sessions : t # s => act'[t] = act[t]
    BY <1>2, GoesTo DEF OpenEnds
  <2>6. \A t \in Sessions : t # s => act[t].pc # "opening"
    BY <2>1 DEF OpeningHoldsLock
  <2>7. TreeRows' = TreeRows \cup {s}
    BY <2>2, <2>4 DEF TreeRows
  <2>8. OneHolder' /\ OpeningHoldsLock' /\ LoadedIsCurrent'
    BY <2>1, <2>5, <2>6 DEF OneHolder, OpeningHoldsLock, LoadedIsCurrent
  <2>9. RowsAreWhole' /\ UnbornHasNoRow' /\ TreeHasRow'
    BY <2>1, <2>2, <2>4, <2>5 DEF RowsAreWhole, UnbornHasNoRow, TreeHasRow
  <2>10. TreesKnown'
    BY <2>1, <2>7 DEF TreesKnown
  <2> QED BY <2>8, <2>9, <2>10
<1>3. CASE OpenFails(s)
  <2>1. /\ act[s].pc = "opening" /\ lock = {<<s, "open">>} /\ lock' = {}
        /\ rows[s] = NoRow /\ rows' = rows
        /\ trees' = trees \ {s} /\ crashes' = crashes
    BY <1>3 DEF OpenFails, OneHolder, OpeningHoldsLock, UnbornHasNoRow
  <2>2. /\ act'[s].pc = "refused"
        /\ \A t \in Sessions : t # s => act'[t] = act[t]
    BY <1>3, GoesTo DEF OpenFails
  <2>3. \A t \in Sessions : t # s => act[t].pc # "opening"
    BY <2>1 DEF OpeningHoldsLock
  <2>4. ~rows[s].reg /\ ~rows[s].tree
    BY <2>1 DEF NoRow
  <2>5. TreeRows' = TreeRows /\ s \notin TreeRows
    BY <2>1, <2>4 DEF TreeRows
  <2>6. OneHolder' /\ OpeningHoldsLock' /\ LoadedIsCurrent'
    BY <2>1, <2>2, <2>3 DEF OneHolder, OpeningHoldsLock, LoadedIsCurrent
  <2>7. RowsAreWhole' /\ UnbornHasNoRow' /\ TreeHasRow'
    BY <2>1, <2>2, <2>4 DEF RowsAreWhole, UnbornHasNoRow, TreeHasRow
  <2>8. TreesKnown'
    BY <2>1, <2>5 DEF TreesKnown, TreeRows
  <2> QED BY <2>6, <2>7, <2>8
<1> QED BY <1>1, <1>2, <1>3

\* discardSessionWorktree, from the lock to the row.
LEMMA DiscardKeepsRegistry ==
  ASSUME TypeOK, RegistryInv, NEW s \in Sessions,
         Discards(s) \/ DiscardEnds(s)
  PROVE  RegistryInv'
<1>0. /\ act \in [Sessions -> Call] /\ rows \in [Sessions -> Row]
      /\ trees \subseteq Sessions
  BY DEF TypeOK
<1> USE DEF RegistryInv
<1>1. CASE Discards(s)
  <2>1. /\ lock = {} /\ lock' = {<<s, "discard">>} /\ rows[s].reg
        /\ trees' \subseteq trees /\ trees \subseteq trees' \cup {s}
        /\ UNCHANGED <<rows, act, crashes>>
    BY <1>1 DEF Discards, Free
  <2>2. TreeRows' = TreeRows
    BY <2>1 DEF TreeRows
  <2>3. /\ OneHolder' /\ OpeningHoldsLock' /\ RowsAreWhole' /\ LoadedIsCurrent'
        /\ UnbornHasNoRow'
    BY <2>1 DEF OneHolder, OpeningHoldsLock, RowsAreWhole, LoadedIsCurrent,
                UnbornHasNoRow
  <2>4. TreeHasRow'
    BY <2>1 DEF TreeHasRow
  <2>5. TreesKnown'
    BY <2>1, <2>2 DEF TreesKnown
  <2> QED BY <2>3, <2>4, <2>5
<1>2. CASE DiscardEnds(s)
  <2>1. /\ lock = {<<s, "discard">>} /\ lock' = {}
        /\ rows' = IF s \in trees THEN rows ELSE [rows EXCEPT ![s] = NoRow]
        /\ UNCHANGED <<trees, crashes>>
    BY <1>2 DEF DiscardEnds, OneHolder, world
  <2>2. /\ \A t \in Sessions : t # s => rows'[t] = rows[t]
        /\ s \in trees => rows' = rows
        /\ s \notin trees => rows'[s] = NoRow
    BY <1>0, <2>1
  <2>3. /\ \A t \in Sessions : t # s => act'[t] = act[t]
        /\ \/ act'[s] = act[s] /\ act[s].pc # "discarding"
           \/ /\ act[s].pc = "discarding"
              /\ act'[s].pc = IF s \in trees THEN "stuck" ELSE "refused"
    BY <1>2, GoesTo DEF DiscardEnds
  <2>4. \A t \in Sessions : act[t].pc # "opening"
    BY <2>1 DEF OpeningHoldsLock
  <2>5. NoRow.reg = FALSE /\ NoRow.tree = FALSE
    BY DEF NoRow
  <2>6. OneHolder' /\ OpeningHoldsLock' /\ LoadedIsCurrent'
    BY <2>1, <2>3, <2>4 DEF OneHolder, OpeningHoldsLock, LoadedIsCurrent
  <2>7. RowsAreWhole' /\ UnbornHasNoRow'
    BY <2>2, <2>3 DEF RowsAreWhole, UnbornHasNoRow
  <2>8. TreeHasRow'
    BY <2>1, <2>2, <2>3, <2>4, <2>5 DEF TreeHasRow
  <2>9. TreesKnown'
    <3>1. CASE s \in trees
      <4>1. TreeRows' = TreeRows
        BY <2>2, <3>1 DEF TreeRows
      <4> QED BY <2>1, <3>1, <4>1 DEF TreesKnown
    <3>2. CASE s \notin trees
      <4>1. TreeRows' = TreeRows \ {s}
        BY <2>2, <2>5, <3>2 DEF TreeRows
      <4> QED BY <2>1, <3>2, <4>1 DEF TreesKnown
    <3> QED BY <3>1, <3>2
  <2> QED BY <2>6, <2>7, <2>8, <2>9
<1> QED BY <1>1, <1>2

\* A row patched under the lock keeps its place in the registry.
LEMMA PatchKeepsPlace ==
  ASSUME TypeOK, RegistryInv, NEW s \in Sessions, NEW row,
         row.reg = rows[s].reg, row.tree = rows[s].tree
  PROVE  \A t \in Sessions : /\ Patched(s, row)[t].reg = rows[t].reg
                             /\ Patched(s, row)[t].tree = rows[t].tree
                             /\ rows[t] = NoRow => Patched(s, row)[t] = NoRow
<1>1. rows \in [Sessions -> Row]
  BY DEF TypeOK
<1>2. NoRow.reg = FALSE
  BY DEF NoRow
<1> QED BY <1>1, <1>2 DEF Patched

LEMMA RegistryStep == TypeOK /\ RegistryInv /\ [Next]_vars => RegistryInv'
<1> SUFFICES ASSUME TypeOK, RegistryInv, [Next]_vars PROVE RegistryInv'
  OBVIOUS
<1>0. /\ act \in [Sessions -> Call] /\ rows \in [Sessions -> Row]
      /\ recycle \in [Recycles -> Swap]
  BY DEF TypeOK
<1>1. ASSUME NEW s \in Sessions,
             \/ \E K \in SUBSET Cards : Opens(s, K)
             \/ Discards(s) \/ DiscardEnds(s) \/ Continues(s)
             \/ \E k \in Cards : ClaimsCard(s, k)
      PROVE  RegistryInv'
  <2>1. CASE \/ (\E K \in SUBSET Cards : Opens(s, K)) \/ OpenEnds(s)
             \/ OpenFails(s)
    BY <2>1, OpenKeepsRegistry
  <2>2. CASE Discards(s) \/ DiscardEnds(s)
    BY <2>2, DiscardKeepsRegistry
  <2>3. CASE Reserves(s) \/ StartFails(s) \/ Starts(s) \/ Proves(s)
             \/ RollsBack(s)
    <3>1. UNCHANGED <<lock, trees, crashes, rows>>
      BY <2>3 DEF Reserves, StartFails, Starts, Proves, RollsBack, world
    <3>2. /\ act[s].pc \in {"claiming", "starting", "proving", "releasing"}
          /\ act'[s].pc \in {"discarding", "starting", "releasing", "proving",
                             "stamping"}
          /\ \A t \in Sessions : t # s => act'[t] = act[t]
      BY <2>3, GoesTo DEF Reserves, StartFails, Starts, Proves, RollsBack
    <3> QED BY <3>1, <3>2, RegistryKept
  <2>4. CASE Stamps(s)
    <3> DEFINE row == Stamped(rows[s], 0)
    <3>1. row.reg = rows[s].reg /\ row.tree = rows[s].tree
      BY <1>0 DEF Stamped, Row
    <3>2. /\ UNCHANGED <<lock, trees, crashes>> /\ lock = {}
          /\ rows' = Patched(s, row)
      BY <2>4 DEF Stamps, Free, world
    <3>3. /\ act[s].pc = "stamping" /\ act'[s].pc = "idle"
          /\ \A t \in Sessions : t # s => act'[t] = act[t]
      BY <2>4, GoesTo DEF Stamps
    <3> HIDE DEF row
    <3>4. \A t \in Sessions : /\ rows'[t].reg = rows[t].reg
                              /\ rows'[t].tree = rows[t].tree
                              /\ rows[t] = NoRow => rows'[t] = NoRow
      BY <3>1, <3>2, PatchKeepsPlace
    <3> QED BY <3>2, <3>3, <3>4, RegistryKept
  <2>5. CASE BindsCard(s)
    <3> DEFINE row == [rows[s] EXCEPT !.cards = act[s].cards]
    <3>1. row.reg = rows[s].reg /\ row.tree = rows[s].tree
      BY <1>0 DEF Row
    <3>2. /\ UNCHANGED <<lock, trees, crashes>> /\ lock = {}
          /\ rows' = Patched(s, row)
      BY <2>5 DEF BindsCard, Free, world
    <3>3. /\ act[s].pc = "binding" /\ act'[s].pc = "idle"
          /\ \A t \in Sessions : t # s => act'[t] = act[t]
      BY <2>5, GoesTo DEF BindsCard
    <3> HIDE DEF row
    <3>4. \A t \in Sessions : /\ rows'[t].reg = rows[t].reg
                              /\ rows'[t].tree = rows[t].tree
                              /\ rows[t] = NoRow => rows'[t] = NoRow
      BY <3>1, <3>2, PatchKeepsPlace
    <3> QED BY <3>2, <3>3, <3>4, RegistryKept
  <2>6. CASE NothingToDiscard(s)
    <3>1. /\ act[s].pc = "discarding" /\ ~rows[s].reg
          /\ UNCHANGED <<rows, lock, trees, crashes>>
      BY <2>6 DEF NothingToDiscard, world
    <3>2. /\ act'[s].pc = "refused"
          /\ \A t \in Sessions : t # s => act'[t] = act[t]
      BY <2>6, GoesTo DEF NothingToDiscard
    <3>3. s \notin trees
      BY <3>1 DEF RegistryInv, TreeHasRow
    <3>4. OneHolder' /\ OpeningHoldsLock' /\ LoadedIsCurrent'
      BY <3>1, <3>2 DEF RegistryInv, OneHolder, OpeningHoldsLock,
                        LoadedIsCurrent
    <3>5. RowsAreWhole' /\ UnbornHasNoRow' /\ TreeHasRow' /\ TreesKnown'
      BY <3>1, <3>2, <3>3
         DEF RegistryInv, RowsAreWhole, UnbornHasNoRow, TreeHasRow, TreesKnown,
             TreeRows
    <3> QED BY <3>4, <3>5 DEF RegistryInv
  <2>7. ASSUME NEW k \in Cards, ClaimsCard(s, k)
        PROVE  RegistryInv'
    <3>1. /\ act[s].pc = "idle" /\ rows[s].reg
          /\ UNCHANGED <<rows, lock, trees, crashes>>
      BY <2>7 DEF ClaimsCard
    <3> QED BY <2>7, <3>1, ClaimsGoesTo, RegistryKept
  <2> QED BY <1>1, <2>1, <2>2, <2>3, <2>4, <2>5, <2>6, <2>7 DEF Continues
<1>2. ASSUME NEW n \in Recycles,
             RecycleContinues(n) \/ \E s \in Sessions : RecycleStarts(n, s)
      PROVE  RegistryInv'
  <2>1. CASE RecycleStamps(n)
    <3> DEFINE s == recycle[n].s
               row == Stamped(rows[s], n)
    <3>1. s \in Sessions
      BY <1>0 DEF Swap
    <3>2. row.reg = rows[s].reg /\ row.tree = rows[s].tree
      BY <1>0, <3>1 DEF Stamped, Row
    <3>3. /\ UNCHANGED <<lock, trees, crashes, act>> /\ lock = {}
          /\ rows' = Patched(s, row)
      BY <2>1 DEF RecycleStamps, Free, world
    <3> HIDE DEF s, row
    <3>4. \A t \in Sessions : /\ rows'[t].reg = rows[t].reg
                              /\ rows'[t].tree = rows[t].tree
                              /\ rows[t] = NoRow => rows'[t] = NoRow
      BY <3>1, <3>2, <3>3, PatchKeepsPlace
    <3> QED BY <3>3, <3>4, RegistryKept
  <2>2. CASE ~RecycleStamps(n)
    <3>1. UNCHANGED <<rows, lock, trees, crashes, act>>
      BY <1>2, <2>2 DEF RecycleContinues, RecycleStarts, RecycleFails,
                        RecycleSwaps, world
    <3> QED BY <3>1, RegistryKept
  <2> QED BY <2>1, <2>2
<1>3. ASSUME NEW ok \in BOOLEAN, Sweeps(ok)
      PROVE  RegistryInv'
  <2>1. UNCHANGED <<lock, trees, crashes, act>> /\ lock = {}
    BY <1>3 DEF Sweeps, Free
  <2>2. ASSUME NEW s \in Sessions
        PROVE  /\ rows'[s].reg = rows[s].reg /\ rows'[s].tree = rows[s].tree
               /\ rows[s] = NoRow => rows'[s] = NoRow
    <3>1. rows'[s] = [rows[s] EXCEPT !.ended = ~Found(s) /\ Buried(s, ok)]
      BY <1>3 DEF Sweeps
    <3>2. rows'[s].reg = rows[s].reg /\ rows'[s].tree = rows[s].tree
      BY <1>0, <3>1 DEF Row
    <3>3. rows[s] = NoRow => ~Buried(s, ok)
      BY DEF NoRow, Buried, Dead
    <3>4. rows[s] = NoRow => rows'[s] = NoRow
      <4> SUFFICES ASSUME rows[s] = NoRow PROVE rows'[s] = NoRow
        OBVIOUS
      <4>1. (~Found(s) /\ Buried(s, ok)) = FALSE
        BY <3>3
      <4>2. rows'[s] = [NoRow EXCEPT !.ended = FALSE]
        BY <3>1, <4>1
      <4> QED BY <4>2 DEF NoRow
    <3> QED BY <3>2, <3>4
  <2> QED BY <2>1, <2>2, RegistryKept
<1>4. CASE \/ Probes
           \/ \E s \in Sessions, k \in Cards : GivesBack(k, s) \/ Lapses(k, s)
           \/ \E t \in Terminals : Exits(t)
           \/ UNCHANGED vars
  <2>1. UNCHANGED <<rows, lock, trees, crashes, act>>
    BY <1>4 DEF Probes, GivesBack, Lapses, Exits, vars, world
  <2> QED BY <2>1, RegistryKept
<1>5. CASE Restarts
  <2>1. /\ lock' = {} /\ UNCHANGED <<rows, trees>> /\ crashes' = crashes + 1
        /\ crashes \in Nat
    BY <1>5 DEF Restarts, world, TypeOK
  <2>2. \A s \in Sessions :
           \/ act'[s] = act[s] /\ act[s].pc \in Resting
           \/ act[s].pc \notin Resting /\ act'[s].pc = "idle"
    BY <1>5 DEF Restarts, At
  <2>3. OneHolder' /\ OpeningHoldsLock' /\ LoadedIsCurrent'
    BY <2>1, <2>2 DEF OneHolder, OpeningHoldsLock, LoadedIsCurrent, Resting
  <2>4. RowsAreWhole' /\ UnbornHasNoRow' /\ TreeHasRow'
    BY <2>1, <2>2 DEF RegistryInv, RowsAreWhole, UnbornHasNoRow, TreeHasRow,
                      Resting
  <2>5. TreesKnown'
    BY <2>1 DEF TreesKnown
  <2> QED BY <2>3, <2>4, <2>5 DEF RegistryInv
<1> QED BY <1>1, <1>2, <1>3, <1>4, <1>5, StepCases

LEMMA RegistryAlways == Spec => [](TypeOK /\ RegistryInv)
<1>1. Init => TypeOK /\ RegistryInv
  <2> SUFFICES ASSUME Init PROVE RegistryInv
    BY InitTyped
  <2>1. \A s \in Sessions : rows[s] = NoRow /\ act[s].pc = "unborn"
    BY DEF Init, NoRows
  <2>2. NoRow.tree = FALSE
    BY DEF NoRow
  <2>3. TreeRows = {}
    BY <2>1, <2>2 DEF TreeRows
  <2> QED
    BY <2>1, <2>3 DEF Init, RegistryInv, OneHolder, OpeningHoldsLock,
       RowsAreWhole, LoadedIsCurrent, UnbornHasNoRow, TreeHasRow, TreesKnown
<1>2. (TypeOK /\ RegistryInv) /\ [Next]_vars => (TypeOK /\ RegistryInv)'
  BY TypeStep, RegistryStep
<1> QED BY <1>1, <1>2, PTL DEF Spec

\* Two sessions opened or discarded at once lose no row: while nobody holds
\* the registry's lock, the trees on disk are the ones it lists.
THEOREM EveryTreeHasARow == Spec => []TreesAreRegistered
<1>1. RegistryInv => TreesAreRegistered
  BY DEF RegistryInv, TreesKnown, TreesAreRegistered, TreeRows
<1> QED BY <1>1, RegistryAlways, PTL

-----------------------------------------------------------------------------
(* Terminals and reservations of a session, by how far its birth has gone.  *)

Hostless == {"unborn", "opening", "claiming", "starting", "releasing",
             "discarding", "refused", "stuck"}
Claimless == {"unborn", "opening", "claiming", "discarding", "refused",
              "stuck"}

HostsOf(s) ==
  /\ act[s].pc \in Hostless => Of(s) = {}
  /\ act[s].pc \in {"proving", "stamping"} => Of(s) \subseteq {<<s, 0>>}
  /\ act[s].pc \in Claimless => \A k \in Cards : <<k, s>> \notin claims
  /\ act[s].pc \in {"starting", "proving", "stamping", "releasing"} =>
       \A k \in Cards : <<k, s>> \in claims => k \in act[s].cards

HostsInv == \A s \in Sessions : HostsOf(s)

\* A session that stands still and gains neither terminal nor card.
LEMMA HostsKept ==
  ASSUME NEW s \in Sessions, HostsOf(s), act'[s] = act[s],
         Of(s)' \subseteq Of(s),
         \A k \in Cards : <<k, s>> \in claims' => <<k, s>> \in claims
  PROVE  HostsOf(s)'
BY DEF HostsOf

LEMMA FewerTerminals ==
  ASSUME NEW s \in Sessions, alive' \subseteq alive
  PROVE  Of(s)' \subseteq Of(s)
BY DEF Of

\* A terminal born for another session.
LEMMA OthersTerminal ==
  ASSUME NEW s \in Sessions, NEW t \in Sessions, NEW n, s # t,
         alive' = alive \cup {<<t, n>>}
  PROVE  Of(s)' = Of(s)
BY DEF Of

LEMMA OwnTerminal ==
  ASSUME NEW s \in Sessions, NEW n, alive' = alive \cup {<<s, n>>}
  PROVE  Of(s)' = Of(s) \cup {<<s, n>>}
BY DEF Of

\* A session's call goes on; what it changes of terminals and claims is its
\* own.
LEMMA CallKeepsHosts ==
  ASSUME TypeOK, HostsInv, NEW s \in Sessions,
         \/ \E K \in SUBSET Cards : Opens(s, K)
         \/ Discards(s) \/ DiscardEnds(s) \/ Continues(s)
         \/ \E k \in Cards : ClaimsCard(s, k)
  PROVE  HostsInv'
<1>0. /\ act \in [Sessions -> Call] /\ act[s].cards \subseteq Cards
      /\ alive \subseteq Terminals /\ claims \subseteq Cards \X Sessions
  BY DEF TypeOK, Call
<1> USE DEF Hostless, Claimless, Resting
<1>1. ASSUME UNCHANGED <<alive, claims>>,
             HostsOf(s)', \A t \in Sessions : t # s => act'[t] = act[t]
      PROVE  HostsInv'
  BY <1>1, HostsKept, FewerTerminals DEF HostsInv
<1>2. ASSUME NEW K \in SUBSET Cards, Opens(s, K)
      PROVE  HostsInv'
  <2>1. /\ act[s].pc = "unborn" /\ act'[s].pc = "opening"
        /\ \A t \in Sessions : t # s => act'[t] = act[t]
        /\ UNCHANGED <<alive, claims>>
    BY <1>0, <1>2 DEF Opens
  <2> QED BY <1>1, <2>1 DEF HostsInv, HostsOf, Of
<1>3. CASE OpenEnds(s)
  <2>1. /\ act[s].pc = "opening" /\ act'[s].pc \in {"idle", "claiming"}
        /\ \A t \in Sessions : t # s => act'[t] = act[t]
        /\ UNCHANGED <<alive, claims>>
    BY <1>3, GoesTo DEF OpenEnds, world
  <2> QED BY <1>1, <2>1 DEF HostsInv, HostsOf, Of
<1>4. CASE OpenFails(s)
  <2>1. /\ act[s].pc = "opening" /\ act'[s].pc = "refused"
        /\ \A t \in Sessions : t # s => act'[t] = act[t]
        /\ UNCHANGED <<alive, claims>>
    BY <1>4, GoesTo DEF OpenFails
  <2> QED BY <1>1, <2>1 DEF HostsInv, HostsOf, Of
<1>5. CASE Discards(s) \/ DiscardEnds(s)
  <2>1. /\ \/ act'[s] = act[s]
           \/ /\ act[s].pc = "discarding"
              /\ act'[s].pc \in {"stuck", "refused"}
        /\ \A t \in Sessions : t # s => act'[t] = act[t]
        /\ UNCHANGED <<alive, claims>>
    BY <1>5, GoesTo DEF Discards, DiscardEnds, world
  <2> QED BY <1>1, <2>1 DEF HostsInv, HostsOf, Of
<1>6. CASE Reserves(s)
  <2>1. /\ act[s].pc = "claiming"
        /\ \A t \in Sessions : t # s => act'[t] = act[t]
        /\ alive' = alive
        /\ \/ act'[s].pc = "discarding" /\ claims' = claims
           \/ /\ act'[s].pc = "starting" /\ act'[s].cards = act[s].cards
              /\ claims' = claims \cup (act[s].cards \X {s})
    BY <1>6, GoesTo DEF Reserves
  <2>2. HostsOf(s)'
    BY <2>1 DEF HostsInv, HostsOf, Of
  <2>3. \A t \in Sessions, k \in Cards :
           t # s /\ <<k, t>> \in claims' => <<k, t>> \in claims
    BY <2>1
  <2> QED BY <2>1, <2>2, <2>3, HostsKept, FewerTerminals DEF HostsInv
<1>7. CASE StartFails(s) \/ Proves(s)
  <2>1. /\ act'[s].pc \in {"releasing", "stamping"}
        /\ act'[s].cards = act[s].cards
        /\ \A t \in Sessions : t # s => act'[t] = act[t]
        /\ UNCHANGED <<alive, claims>>
        /\ act[s].pc \in {"starting", "proving"}
        /\ act'[s].pc = "stamping" => act[s].pc = "proving"
        /\ act'[s].pc = "releasing" /\ act[s].pc = "proving" =>
             <<s, 0>> \notin alive
    BY <1>7, GoesTo DEF StartFails, Proves, world
  <2>2. act[s].pc = "proving" /\ <<s, 0>> \notin alive => Of(s) = {}
    BY DEF HostsInv, HostsOf, Of
  <2>3. HostsOf(s)'
    BY <2>1, <2>2 DEF HostsInv, HostsOf, Of
  <2> QED BY <1>1, <2>1, <2>3
<1>8. CASE Starts(s)
  <2>1. /\ act[s].pc = "starting" /\ act'[s].pc = "proving"
        /\ act'[s].cards = act[s].cards
        /\ \A t \in Sessions : t # s => act'[t] = act[t]
        /\ alive' = alive \cup {<<s, 0>>} /\ claims' = claims
    BY <1>8, GoesTo DEF Starts
  <2>2. Of(s)' = Of(s) \cup {<<s, 0>>}
    BY <2>1, OwnTerminal
  <2>3. HostsOf(s)'
    BY <2>1, <2>2 DEF HostsInv, HostsOf
  <2>4. \A t \in Sessions : t # s => Of(t)' = Of(t)
    BY <2>1, OthersTerminal
  <2> QED BY <2>1, <2>3, <2>4, HostsKept DEF HostsInv
<1>9. CASE Stamps(s) \/ BindsCard(s)
  <2>1. /\ act'[s].pc = "idle"
        /\ \A t \in Sessions : t # s => act'[t] = act[t]
        /\ UNCHANGED <<alive, claims>>
    BY <1>9, GoesTo DEF Stamps, BindsCard, world
  <2> QED BY <1>1, <2>1 DEF HostsOf
<1>10. CASE RollsBack(s)
  <2>1. /\ act[s].pc = "releasing" /\ act'[s].pc = "discarding"
        /\ \A t \in Sessions : t # s => act'[t] = act[t]
        /\ alive' = alive /\ claims' = claims \ (act[s].cards \X {s})
    BY <1>10, GoesTo DEF RollsBack, Unreserved
  <2>2. HostsOf(s)'
    <3>1. Of(s)' = Of(s) /\ Of(s) = {}
      BY <2>1 DEF HostsInv, HostsOf, Of
    <3>2. \A k \in Cards : <<k, s>> \notin claims'
      BY <2>1 DEF HostsInv, HostsOf
    <3> QED BY <2>1, <3>1, <3>2 DEF HostsOf
  <2> QED BY <2>1, <2>2, HostsKept, FewerTerminals DEF HostsInv
<1>11. CASE NothingToDiscard(s)
  <2>1. /\ act[s].pc = "discarding" /\ act'[s].pc = "refused"
        /\ \A t \in Sessions : t # s => act'[t] = act[t]
        /\ UNCHANGED <<alive, claims>>
    BY <1>11, GoesTo DEF NothingToDiscard, world
  <2> QED BY <1>1, <2>1 DEF HostsInv, HostsOf, Of
<1>12. ASSUME NEW k \in Cards, ClaimsCard(s, k)
       PROVE  HostsInv'
  <2>1. /\ act'[s].pc \in {"idle", "binding"}
        /\ \A t \in Sessions : t # s => act'[t] = act[t]
        /\ alive' = alive /\ claims' = claims \cup {<<k, s>>}
    BY <1>12, ClaimsGoesTo DEF ClaimsCard
  <2>2. HostsOf(s)'
    BY <2>1 DEF HostsOf
  <2>3. \A t \in Sessions, c \in Cards :
           t # s /\ <<c, t>> \in claims' => <<c, t>> \in claims
    BY <2>1
  <2> QED BY <2>1, <2>2, <2>3, HostsKept, FewerTerminals DEF HostsInv
<1> QED BY <1>2, <1>3, <1>4, <1>5, <1>6, <1>7, <1>8, <1>9, <1>10, <1>11, <1>12
        DEF Continues

LEMMA HostsStep == TypeOK /\ HostsInv /\ [Next]_vars => HostsInv'
<1> SUFFICES ASSUME TypeOK, HostsInv, [Next]_vars PROVE HostsInv'
  OBVIOUS
<1>1. ASSUME NEW s \in Sessions,
             \/ \E K \in SUBSET Cards : Opens(s, K)
             \/ Discards(s) \/ DiscardEnds(s) \/ Continues(s)
             \/ \E k \in Cards : ClaimsCard(s, k)
      PROVE  HostsInv'
  BY <1>1, CallKeepsHosts
<1>2. ASSUME NEW n \in Recycles, NEW s \in Sessions, RecycleStarts(n, s)
      PROVE  HostsInv'
  <2>1. /\ act[s].pc = "idle" /\ UNCHANGED <<act, claims>>
        /\ alive' = alive \cup {<<s, n>>}
    BY <1>2 DEF RecycleStarts
  <2>2. HostsOf(s)'
    BY <2>1 DEF HostsOf, Hostless, Claimless
  <2>3. \A t \in Sessions : t # s => Of(t)' = Of(t)
    BY <2>1, OthersTerminal
  <2> QED BY <2>1, <2>2, <2>3, HostsKept DEF HostsInv
<1>3. CASE \/ \E n \in Recycles : RecycleContinues(n)
           \/ Probes \/ \E ok \in BOOLEAN : Sweeps(ok)
           \/ \E s \in Sessions, k \in Cards : GivesBack(k, s) \/ Lapses(k, s)
           \/ \E t \in Terminals : Exits(t)
           \/ UNCHANGED vars
  <2>1. /\ act' = act /\ alive' \subseteq alive /\ claims' \subseteq claims
    BY <1>3 DEF RecycleContinues, RecycleFails, RecycleSwaps, RecycleStamps,
       KillsOld, Probes, Sweeps, GivesBack, Lapses, Exits, vars, world
  <2> QED BY <2>1, HostsKept, FewerTerminals DEF HostsInv
<1>4. CASE Restarts
  <2>1. UNCHANGED <<alive, claims>>
    BY <1>4 DEF Restarts, world
  <2>2. ASSUME NEW s \in Sessions PROVE HostsOf(s)'
    <3>1. CASE act'[s] = act[s]
      BY <2>1, <3>1, HostsKept, FewerTerminals DEF HostsInv
    <3>2. CASE act'[s].pc = "idle"
      BY <3>2 DEF HostsOf, Hostless, Claimless
    <3> QED BY <1>4, <3>1, <3>2 DEF Restarts, At
  <2> QED BY <2>2 DEF HostsInv
<1> QED BY <1>1, <1>2, <1>3, <1>4, StepCases

LEMMA HostsAlways == Spec => [](TypeOK /\ HostsInv)
<1>1. Init => TypeOK /\ HostsInv
  BY InitTyped DEF Init, HostsInv, HostsOf, Of
<1>2. (TypeOK /\ HostsInv) /\ [Next]_vars => (TypeOK /\ HostsInv)'
  BY TypeStep, HostsStep
<1> QED BY <1>1, <1>2, PTL DEF Spec

\* Whatever made spawnWorkSession refuse - no base ref, a taken card, a tmux
\* that failed, a terminal that died young - nothing of the session is left.
THEOREM RefusalLeavesNothing == Spec => []RefusedLeavesNothing
<1>1. RegistryInv /\ HostsInv => RefusedLeavesNothing
  BY DEF RegistryInv, TreeHasRow, HostsInv, HostsOf, Hostless, Claimless,
         RefusedLeavesNothing
<1> QED BY <1>1, RegistryAlways, HostsAlways, PTL

-----------------------------------------------------------------------------
(* Swaps of terminals, while sweeps keep clear of them and before the first *)
(* restart: one at a time, on a session at rest, and what runs is what the  *)
(* row names or the newborn.  A probe sees everything that runs.            *)

SwapsAway == {n \in Recycles : recycle[n].pc \in {"proving", "stamping"}}
Clear == ~setting.overlap /\ crashes = 0

OneSwap == \A n, m \in SwapsAway : n = m
SwapsAtRest ==
  \A n \in SwapsAway : act[recycle[n].s].pc \in {"idle", "binding"}

\* The terminals of a session whose swap n is under way.
SwapHosts(n, s) ==
  IF recycle[n].pc = "proving"
  THEN /\ recycle[n].old = HostedBy(s, rows[s])
       /\ Of(s) \subseteq HostedBy(s, rows[s]) \cup {<<s, n>>}
  ELSE Of(s) \subseteq {<<s, n>>}

SwapsHost ==
  \A n \in SwapsAway : rows[recycle[n].s].reg => SwapHosts(n, recycle[n].s)
RestHosts ==
  \A s \in Sessions :
    /\ act[s].pc \in {"idle", "binding"} /\ rows[s].reg
    /\ \A n \in SwapsAway : recycle[n].s # s
    => Of(s) \subseteq HostedBy(s, rows[s])
ProbeSees == sweep.pc = "probed" => ~Swapping /\ alive \subseteq sweep.live

SwapInv ==
  Clear => OneSwap /\ SwapsAtRest /\ SwapsHost /\ RestHosts /\ ProbeSees

\* A step that starts no terminal and leaves swaps and sweep alone: a session
\* keeps its terminals' numbers or loses its row, or comes to rest with no
\* more terminals than its row names.
LEMMA SwapKept ==
  ASSUME TypeOK, SwapInv, UNCHANGED <<setting, crashes, recycle, sweep>>,
         alive' \subseteq alive,
         \A s \in Sessions :
            \/ /\ act'[s].pc = act[s].pc
               /\ rows'[s].reg => rows[s].reg /\ rows'[s].tmux = rows[s].tmux
            \/ /\ act[s].pc = "idle" /\ act'[s].pc = "binding"
               /\ rows'[s] = rows[s]
            \/ /\ act[s].pc \notin {"idle", "binding"}
               /\ rows'[s].reg /\ act'[s].pc \in {"idle", "binding"} =>
                    Of(s) \subseteq HostedBy(s, rows'[s])
               /\ act'[s].pc \in {"proving", "stamping"} =>
                    act[s].pc \in {"proving", "stamping"}
            \/ /\ act[s].pc = "binding" /\ act'[s].pc = "idle"
               /\ rows'[s].reg => rows[s].reg /\ rows'[s].tmux = rows[s].tmux
  PROVE  SwapInv'
<1> SUFFICES ASSUME Clear
             PROVE  OneSwap' /\ SwapsAtRest' /\ SwapsHost' /\ RestHosts'
                      /\ ProbeSees'
  BY DEF SwapInv, Clear
<1>1. SwapsAway' = SwapsAway /\ \A s \in Sessions : Of(s)' \subseteq Of(s)
  BY FewerTerminals DEF SwapsAway
<1>2. recycle \in [Recycles -> Swap] /\ \A n \in Recycles :
         recycle[n].s \in Sessions
  BY DEF TypeOK, Swap
<1>3. OneSwap' /\ SwapsAtRest'
  BY <1>1, <1>2 DEF SwapInv, OneSwap, SwapsAtRest, SwapsAway
<1>4. SwapsHost'
  <2> SUFFICES ASSUME NEW n \in SwapsAway, NEW s \in Sessions,
                      s = recycle[n].s, rows'[s].reg
               PROVE  SwapHosts(n, s)'
    BY <1>1, <1>2 DEF SwapsHost, SwapsAway
  <2>1. act[s].pc \in {"idle", "binding"}
    BY DEF SwapInv, SwapsAtRest
  <2>2. rows[s].reg /\ rows'[s].tmux = rows[s].tmux
    BY <2>1
  <2>3. HostedBy(s, rows'[s]) = HostedBy(s, rows[s])
    BY <2>2 DEF HostedBy
  <2>4. SwapHosts(n, s)
    BY <2>2 DEF SwapInv, SwapsHost
  <2> QED BY <1>1, <2>3, <2>4 DEF SwapHosts
<1>5. RestHosts'
  <2> SUFFICES ASSUME NEW s \in Sessions,
                      act'[s].pc \in {"idle", "binding"}, rows'[s].reg,
                      \A n \in SwapsAway : recycle[n].s # s
               PROVE  Of(s)' \subseteq HostedBy(s, rows'[s])
    BY <1>1 DEF RestHosts
  <2>1. CASE act[s].pc \notin {"idle", "binding"}
    BY <1>1, <2>1
  <2>2. CASE act[s].pc \in {"idle", "binding"}
    <3>1. rows[s].reg /\ rows'[s].tmux = rows[s].tmux
      BY <2>2
    <3>2. Of(s) \subseteq HostedBy(s, rows[s])
      BY <2>2, <3>1 DEF SwapInv, RestHosts
    <3> QED BY <1>1, <3>1, <3>2 DEF HostedBy
  <2> QED BY <2>1, <2>2
<1>6. ProbeSees'
  <2>1. sweep.pc = "probed" => ~Swapping'
    BY DEF SwapInv, ProbeSees, Swapping
  <2> QED BY <2>1 DEF SwapInv, ProbeSees
<1> QED BY <1>3, <1>4, <1>5, <1>6

\* A call under way, but for the birth of its terminal.
LEMMA CallKeepsSwaps ==
  ASSUME TypeOK, RegistryInv, HostsInv, SwapInv, NEW s \in Sessions,
         \/ \E K \in SUBSET Cards : Opens(s, K)
         \/ Discards(s) \/ DiscardEnds(s) \/ Continues(s)
         \/ \E k \in Cards : ClaimsCard(s, k)
  PROVE  SwapInv'
<1>0. /\ act \in [Sessions -> Call] /\ rows \in [Sessions -> Row]
      /\ NoRow.reg = FALSE
  BY DEF TypeOK, NoRow
<1>1. ASSUME NEW K \in SUBSET Cards, Opens(s, K)
      PROVE  SwapInv'
  <2>1. /\ UNCHANGED <<setting, crashes, recycle, sweep, alive>>
        /\ act[s].pc = "unborn" /\ act'[s].pc = "opening"
        /\ \A t \in Sessions : t # s => act'[t] = act[t]
        /\ rows' = Present
    BY <1>0, <1>1 DEF Opens
  <2>2. \A t \in Sessions : rows'[t].reg => rows'[t] = rows[t]
    BY <1>0, <2>1 DEF Present
  <2> QED BY <2>1, <2>2, SwapKept
<1>2. CASE OpenEnds(s)
  <2>1. /\ UNCHANGED <<setting, crashes, recycle, sweep, alive>>
        /\ act[s].pc = "opening" /\ act'[s].pc \in {"idle", "claiming"}
        /\ \A t \in Sessions : t # s => act'[t] = act[t]
    BY <1>2, GoesTo DEF OpenEnds, world
  <2>2. \A t \in Sessions : t # s => rows'[t] = rows[t]
    BY <1>0, <1>2, <2>1 DEF OpenEnds, RegistryInv, LoadedIsCurrent
  <2>3. Of(s) = {}
    BY <2>1 DEF HostsInv, HostsOf, Hostless
  <2> QED BY <2>1, <2>2, <2>3, SwapKept
<1>3. CASE \/ OpenFails(s) \/ Reserves(s) \/ StartFails(s) \/ Proves(s)
           \/ RollsBack(s) \/ NothingToDiscard(s)
  <2>1. /\ UNCHANGED <<setting, crashes, recycle, sweep, alive, rows>>
        /\ act[s].pc \notin {"idle", "binding"}
        /\ act'[s].pc \notin {"idle", "binding"}
        /\ act'[s].pc \in {"proving", "stamping"} =>
             act[s].pc \in {"proving", "stamping"}
        /\ \A t \in Sessions : t # s => act'[t] = act[t]
    BY <1>3, GoesTo
       DEF OpenFails, Reserves, StartFails, Proves, RollsBack,
           NothingToDiscard, world
  <2> QED BY <2>1, SwapKept
<1>4. CASE Discards(s) \/ DiscardEnds(s)
  <2>1. /\ UNCHANGED <<setting, crashes, recycle, sweep, alive>>
        /\ \/ act'[s] = act[s]
           \/ act[s].pc = "discarding" /\ act'[s].pc \in {"stuck", "refused"}
        /\ \A t \in Sessions : t # s => act'[t] = act[t]
    BY <1>4, GoesTo DEF Discards, DiscardEnds, world
  <2>2. \A t \in Sessions : rows'[t].reg => rows'[t] = rows[t]
    BY <1>0, <1>4 DEF Discards, DiscardEnds
  <2> QED BY <2>1, <2>2, SwapKept
<1>5. CASE Starts(s)
  <2> SUFFICES ASSUME Clear
               PROVE  OneSwap' /\ SwapsAtRest' /\ SwapsHost' /\ RestHosts'
                        /\ ProbeSees'
    BY <1>5 DEF Starts, SwapInv, Clear
  <2>1. /\ UNCHANGED <<setting, crashes, recycle, sweep, rows>>
        /\ act[s].pc = "starting" /\ act'[s].pc = "proving"
        /\ alive' = alive \cup {<<s, 0>>}
        /\ \A t \in Sessions : t # s => act'[t] = act[t]
        /\ sweep.pc = "idle"
    BY <1>5, GoesTo DEF Starts, Clear
  <2>2. \A t \in Sessions : t # s => Of(t)' = Of(t)
    BY <2>1, OthersTerminal
  <2>3. /\ SwapsAway' = SwapsAway
        /\ \A n \in SwapsAway : recycle[n].s \in Sessions /\ recycle[n].s # s
    BY <2>1 DEF SwapsAway, SwapInv, SwapsAtRest, TypeOK, Swap
  <2>4. OneSwap' /\ SwapsAtRest' /\ ProbeSees'
    BY <2>1, <2>3 DEF SwapInv, OneSwap, SwapsAtRest, ProbeSees
  <2>5. SwapsHost'
    BY <2>1, <2>2, <2>3 DEF SwapInv, SwapsHost, SwapHosts
  <2>6. RestHosts'
    BY <2>1, <2>2, <2>3 DEF SwapInv, RestHosts
  <2> QED BY <2>4, <2>5, <2>6
<1>6. CASE Stamps(s)
  <2>1. /\ UNCHANGED <<setting, crashes, recycle, sweep, alive>>
        /\ act[s].pc = "stamping" /\ act'[s].pc = "idle"
        /\ \A t \in Sessions : t # s => act'[t] = act[t]
        /\ rows' = Patched(s, Stamped(rows[s], 0))
    BY <1>6, GoesTo DEF Stamps, world
  <2>2. \A t \in Sessions : t # s => rows'[t] = rows[t]
    BY <1>0, <2>1 DEF Patched
  <2>3. rows'[s].reg => Of(s) \subseteq HostedBy(s, rows'[s])
    <3>1. Of(s) \subseteq {<<s, 0>>}
      BY <2>1 DEF HostsInv, HostsOf
    <3>2. Stamped(rows[s], 0).tmux = {0}
      BY <1>0 DEF Stamped, Row
    <3>3. rows'[s].reg => rows'[s] = Stamped(rows[s], 0)
      BY <1>0, <2>1 DEF Patched
    <3> QED BY <3>1, <3>2, <3>3 DEF HostedBy
  <2> QED BY <2>1, <2>2, <2>3, SwapKept
<1>7. CASE BindsCard(s)
  <2>1. /\ UNCHANGED <<setting, crashes, recycle, sweep, alive>>
        /\ act[s].pc = "binding" /\ act'[s].pc = "idle"
        /\ \A t \in Sessions : t # s => act'[t] = act[t]
        /\ rows' = Patched(s, [rows[s] EXCEPT !.cards = act[s].cards])
    BY <1>7, GoesTo DEF BindsCard, world
  <2>2. /\ \A t \in Sessions : t # s => rows'[t] = rows[t]
        /\ rows'[s].reg = rows[s].reg /\ rows'[s].tmux = rows[s].tmux
    BY <1>0, <2>1 DEF Patched, Row
  <2> QED BY <2>1, <2>2, SwapKept
<1>8. ASSUME NEW k \in Cards, ClaimsCard(s, k)
      PROVE  SwapInv'
  <2>1. /\ UNCHANGED <<setting, crashes, recycle, sweep, alive, rows>>
        /\ act[s].pc = "idle"
    BY <1>8 DEF ClaimsCard
  <2> QED BY <1>8, <2>1, ClaimsGoesTo, SwapKept
<1> QED BY <1>1, <1>2, <1>3, <1>4, <1>5, <1>6, <1>7, <1>8 DEF Continues

\* A recycle: the newborn, the death of one of the two, the stamp.
LEMMA RecycleKeepsSwaps ==
  ASSUME TypeOK, SwapInv, NEW n \in Recycles,
         RecycleContinues(n) \/ \E s \in Sessions : RecycleStarts(n, s)
  PROVE  SwapInv'
<1>0. /\ recycle \in [Recycles -> Swap] /\ recycle[n].s \in Sessions
      /\ rows \in [Sessions -> Row]
      /\ \A m \in Recycles : recycle[m].s \in Sessions
  BY DEF TypeOK, Swap
<1> SUFFICES ASSUME Clear
             PROVE  OneSwap' /\ SwapsAtRest' /\ SwapsHost' /\ RestHosts'
                      /\ ProbeSees'
  BY DEF SwapInv, Clear, RecycleContinues, RecycleStarts, RecycleFails,
         RecycleSwaps, RecycleStamps, world
<1>1. OneSwap /\ SwapsAtRest /\ SwapsHost /\ RestHosts /\ ProbeSees
  BY DEF SwapInv
<1>2. ASSUME NEW s \in Sessions, RecycleStarts(n, s)
      PROVE  OneSwap' /\ SwapsAtRest' /\ SwapsHost' /\ RestHosts' /\ ProbeSees'
  <2>1. /\ UNCHANGED <<rows, act, sweep>> /\ act[s].pc = "idle" /\ rows[s].reg
        /\ alive' = alive \cup {<<s, n>>} /\ sweep.pc = "idle"
        /\ SwapsAway = {}
    BY <1>2 DEF RecycleStarts, Clear, SwapsAway
  <2>2. /\ recycle'[n] = [pc |-> "proving", s |-> s,
                          old |-> HostedBy(s, rows[s])]
        /\ \A m \in Recycles : m # n => recycle'[m] = recycle[m]
    BY <1>0, <1>2 DEF RecycleStarts
  <2>3. SwapsAway' = {n}
    BY <2>1, <2>2 DEF SwapsAway
  <2>4. Of(s)' = Of(s) \cup {<<s, n>>}
    BY <2>1, OwnTerminal
  <2>5. \A t \in Sessions : t # s => Of(t)' = Of(t)
    BY <2>1, OthersTerminal
  <2>6. Of(s) \subseteq HostedBy(s, rows[s])
    BY <1>1, <2>1 DEF RestHosts
  <2>7. OneSwap' /\ SwapsAtRest' /\ ProbeSees'
    BY <2>1, <2>2, <2>3 DEF OneSwap, SwapsAtRest, ProbeSees
  <2>8. SwapsHost'
    BY <2>1, <2>2, <2>3, <2>4, <2>6 DEF SwapsHost, SwapHosts
  <2>9. RestHosts'
    BY <1>1, <2>1, <2>2, <2>3, <2>5 DEF RestHosts
  <2> QED BY <2>7, <2>8, <2>9
<1> DEFINE s == recycle[n].s
<1>3. ASSUME recycle[n].pc \in {"proving", "stamping"}
      PROVE  /\ SwapsAway = {n} /\ sweep.pc # "probed"
             /\ act[s].pc \in {"idle", "binding"}
             /\ rows[s].reg => SwapHosts(n, s)
             /\ \A t \in Sessions : act[t].pc \in {"idle", "binding"}
                  /\ rows[t].reg /\ t # s => Of(t) \subseteq HostedBy(t, rows[t])
  <2>1. n \in SwapsAway
    BY <1>3 DEF SwapsAway
  <2>2. SwapsAway = {n}
    BY <1>1, <2>1 DEF OneSwap
  <2>3. sweep.pc # "probed"
    BY <1>1, <1>3 DEF ProbeSees, Swapping
  <2> QED BY <1>1, <2>1, <2>2, <2>3 DEF SwapsAtRest, SwapsHost, RestHosts
<1>4. ASSUME Swapped(n)
      PROVE  /\ recycle'[n].pc = "idle"
             /\ \A m \in Recycles : m # n => recycle'[m] = recycle[m]
  BY <1>0, <1>4 DEF Swapped, NoRecycle
<1>5. CASE RecycleFails(n)
  <2>1. /\ recycle[n].pc = "proving" /\ <<s, n>> \notin alive /\ Swapped(n)
        /\ UNCHANGED <<rows, alive, act, sweep>>
    BY <1>5 DEF RecycleFails, world
  <2>2. SwapsAway' = {}
    BY <1>3, <1>4, <2>1 DEF SwapsAway
  <2>3. OneSwap' /\ SwapsAtRest' /\ SwapsHost' /\ ProbeSees'
    BY <1>3, <2>1, <2>2 DEF OneSwap, SwapsAtRest, SwapsHost, ProbeSees
  <2>4. RestHosts'
    <3> SUFFICES ASSUME NEW t \in Sessions,
                        act[t].pc \in {"idle", "binding"}, rows[t].reg
                 PROVE  Of(t) \subseteq HostedBy(t, rows[t])
      BY <2>1 DEF RestHosts, Of
    <3>1. CASE t = s
      <4>1. SwapHosts(n, t)
        BY <1>3, <2>1, <3>1
      <4>2. <<t, n>> \notin Of(t)
        BY <2>1, <3>1 DEF Of
      <4> QED BY <2>1, <4>1, <4>2 DEF SwapHosts
    <3>2. CASE t # s
      BY <1>3, <2>1, <3>2
    <3> QED BY <3>1, <3>2
  <2> QED BY <2>3, <2>4
<1>6. CASE RecycleSwaps(n)
  <2>1. /\ recycle[n].pc = "proving" /\ alive' = alive \ recycle[n].old
        /\ UNCHANGED <<rows, act, sweep>>
        /\ recycle'[n].pc = "stamping" /\ recycle'[n].s = s
        /\ \A m \in Recycles : m # n => recycle'[m] = recycle[m]
    BY <1>0, <1>6 DEF RecycleSwaps, KillsOld, Swap
  <2>2. SwapsAway' = {n}
    BY <1>3, <2>1 DEF SwapsAway
  <2>3. \A t \in Sessions : Of(t)' = Of(t) \ recycle[n].old
    BY <2>1 DEF Of
  <2>4. OneSwap' /\ SwapsAtRest' /\ ProbeSees'
    BY <1>3, <2>1, <2>2 DEF OneSwap, SwapsAtRest, ProbeSees
  <2>5. SwapsHost'
    <3>1. rows[s].reg => Of(s)' \subseteq {<<s, n>>}
      BY <1>0, <1>3, <2>1, <2>3 DEF SwapHosts
    <3>2. rows'[s].reg => SwapHosts(n, s)'
      BY <2>1, <3>1 DEF SwapHosts
    <3> QED BY <2>1, <2>2, <3>2, <1>0, <3>1 DEF SwapsHost, SwapHosts
  <2>6. RestHosts'
    BY <1>3, <2>1, <2>2, <2>3 DEF RestHosts
  <2> QED BY <2>4, <2>5, <2>6
<1>7. CASE RecycleStamps(n)
  <2>1. /\ recycle[n].pc = "stamping" /\ Swapped(n)
        /\ rows' = Patched(s, Stamped(rows[s], n))
        /\ UNCHANGED <<alive, act, sweep>>
    BY <1>7 DEF RecycleStamps, world
  <2>2. SwapsAway' = {}
    BY <1>3, <1>4, <2>1 DEF SwapsAway
  <2>3. OneSwap' /\ SwapsAtRest' /\ SwapsHost' /\ ProbeSees'
    BY <1>3, <2>1, <2>2 DEF OneSwap, SwapsAtRest, SwapsHost, ProbeSees
  <2>4. RestHosts'
    <3> SUFFICES ASSUME NEW t \in Sessions,
                        act[t].pc \in {"idle", "binding"}, rows'[t].reg
                 PROVE  Of(t) \subseteq HostedBy(t, rows'[t])
      BY <2>1 DEF RestHosts, Of
    <3>1. CASE t = s
      <4>1. Stamped(rows[s], n).tmux = {n}
        BY <1>0 DEF Stamped, Row
      <4>2. rows[s].reg /\ rows'[s] = Stamped(rows[s], n)
        BY <1>0, <2>1, <3>1 DEF Patched
      <4>3. Of(t) \subseteq {<<t, n>>}
        BY <1>3, <2>1, <3>1, <4>2 DEF SwapHosts
      <4> QED BY <3>1, <4>1, <4>2, <4>3 DEF HostedBy
    <3>2. CASE t # s
      <4>1. rows'[t] = rows[t]
        BY <1>0, <2>1, <3>2 DEF Patched
      <4> QED BY <1>3, <2>1, <3>2, <4>1
    <3> QED BY <3>1, <3>2
  <2> QED BY <2>3, <2>4
<1> QED BY <1>2, <1>5, <1>6, <1>7 DEF RecycleContinues

LEMMA SwapStep ==
  TypeOK /\ RegistryInv /\ HostsInv /\ SwapInv /\ [Next]_vars => SwapInv'
<1> SUFFICES ASSUME TypeOK, RegistryInv, HostsInv, SwapInv, [Next]_vars
             PROVE  SwapInv'
  OBVIOUS
<1>1. CASE \E s \in Sessions :
              \/ \E K \in SUBSET Cards : Opens(s, K)
              \/ Discards(s) \/ DiscardEnds(s) \/ Continues(s)
              \/ \E k \in Cards : ClaimsCard(s, k)
  BY <1>1, CallKeepsSwaps
<1>2. CASE \E n \in Recycles :
              RecycleContinues(n) \/ \E s \in Sessions : RecycleStarts(n, s)
  BY <1>2, RecycleKeepsSwaps
<1>3. CASE Probes
  <2>1. /\ UNCHANGED <<setting, rows, act, recycle, crashes, alive>>
        /\ sweep'.live = alive
        /\ setting.overlap \/ ~Swapping
    BY <1>3 DEF Probes, ProbeAnswers, world
  <2> QED
    BY <2>1 DEF SwapInv, Clear, OneSwap, SwapsAtRest, SwapsHost, SwapHosts,
                RestHosts, ProbeSees, Swapping, SwapsAway, Of
<1>4. ASSUME NEW ok \in BOOLEAN, Sweeps(ok)
      PROVE  SwapInv'
  <2>1. /\ UNCHANGED <<setting, act, recycle, crashes, alive>>
        /\ sweep'.pc = "idle"
    BY <1>4 DEF Sweeps
  <2>2. \A s \in Sessions : /\ rows'[s].reg = rows[s].reg
                            /\ rows'[s].tmux = rows[s].tmux
    BY <1>4 DEF Sweeps, TypeOK, Row
  <2>3. /\ SwapsAway' = SwapsAway
        /\ \A s \in Sessions : Of(s)' = Of(s)
        /\ \A s \in Sessions : HostedBy(s, rows'[s]) = HostedBy(s, rows[s])
        /\ \A n \in SwapsAway : recycle[n].s \in Sessions
    BY <2>1, <2>2 DEF SwapsAway, Of, HostedBy, TypeOK, Swap
  <2>4. Clear => OneSwap' /\ SwapsAtRest' /\ ProbeSees'
    BY <2>1, <2>3 DEF SwapInv, Clear, OneSwap, SwapsAtRest, ProbeSees
  <2>5. Clear => SwapsHost'
    BY <2>1, <2>2, <2>3 DEF SwapInv, SwapsHost, SwapHosts
  <2>6. Clear => RestHosts'
    BY <2>1, <2>2, <2>3 DEF SwapInv, RestHosts
  <2> QED BY <2>1, <2>4, <2>5, <2>6 DEF SwapInv, Clear
<1>5. CASE \/ \E s \in Sessions, k \in Cards : GivesBack(k, s) \/ Lapses(k, s)
           \/ \E t \in Terminals : Exits(t)
           \/ UNCHANGED vars
  <2>1. /\ UNCHANGED <<setting, rows, act, recycle, crashes, sweep>>
        /\ alive' \subseteq alive
    BY <1>5 DEF GivesBack, Lapses, Exits, vars, world
  <2> QED BY <2>1, SwapKept
<1>6. CASE Restarts
  <2>1. crashes' = crashes + 1 /\ crashes \in Nat
    BY <1>6 DEF Restarts, TypeOK
  <2> QED BY <2>1 DEF SwapInv, Clear
<1> QED BY <1>1, <1>2, <1>3, <1>4, <1>5, <1>6, StepCases

LEMMA SwapAlways == Spec => [](TypeOK /\ RegistryInv /\ HostsInv /\ SwapInv)
<1>1. Init => SwapInv
  <2> SUFFICES ASSUME Init PROVE SwapInv
    OBVIOUS
  <2>1. /\ SwapsAway = {} /\ sweep.pc = "idle"
        /\ \A s \in Sessions : act[s].pc = "unborn"
    BY DEF Init, SwapsAway, NoRecycle
  <2> QED
    BY <2>1 DEF SwapInv, OneSwap, SwapsAtRest, SwapsHost, RestHosts, ProbeSees
<1>2. TypeOK /\ RegistryInv /\ HostsInv /\ SwapInv /\ [Next]_vars => SwapInv'
  BY SwapStep
<1> QED BY <1>1, <1>2, RegistryAlways, HostsAlways, PTL DEF Spec

\* One process per tree: once no birth or swap is under way, all that runs for
\* a registered agent is the terminal its row names.
THEOREM OneProcessPerTree == Spec => []OneProcess
<1>1. TypeOK /\ RegistryInv /\ HostsInv /\ SwapInv => OneProcess
  <2> SUFFICES ASSUME TypeOK, RegistryInv, HostsInv, SwapInv, Clear,
                      NEW s \in Sessions, rows[s].reg, ~Busy(s)
               PROVE  Of(s) \subseteq HostedBy(s, rows[s])
    BY DEF OneProcess, Clear, TypeOK
  <2>1. act[s].pc \in Resting /\ \A n \in SwapsAway : recycle[n].s # s
    BY DEF Busy, SwapsAway
  <2>2. act[s].pc # "idle" => Of(s) = {}
    BY <2>1 DEF Resting, HostsInv, HostsOf, Hostless
  <2>3. act[s].pc = "idle" => Of(s) \subseteq HostedBy(s, rows[s])
    BY <2>1 DEF SwapInv, RestHosts
  <2> QED BY <2>2, <2>3
<1> QED BY <1>1, SwapAlways, PTL

\* A sweep that kept clear of births and swaps frees no card of an agent that
\* has a process: the probe saw every terminal, and each is in its row.
LEMMA SweptAreGone ==
  ASSUME TypeOK, HostsInv, SwapInv, Clear, NEW ok \in BOOLEAN, Sweeps(ok),
         NEW s \in Dead
  PROVE  Of(s) = {}
<1>1. /\ s \in Sessions /\ rows[s].reg
      /\ HostedBy(s, rows[s]) \cap sweep.live = {}
  BY DEF Dead, Found
<1>2. ~Swapping /\ alive \subseteq sweep.live
  BY DEF Sweeps, SwapInv, ProbeSees
<1>3. Of(s) \subseteq HostedBy(s, rows[s])
  <2>1. act[s].pc \notin {"proving", "stamping"} /\ SwapsAway = {}
    BY <1>1, <1>2 DEF Swapping, SwapsAway
  <2>2. CASE act[s].pc \in {"idle", "binding"}
    BY <1>1, <2>1, <2>2 DEF SwapInv, RestHosts
  <2>3. CASE act[s].pc \notin {"idle", "binding"}
    BY <1>1, <2>1, <2>3 DEF HostsInv, HostsOf, Hostless, TypeOK, Call
  <2> QED BY <2>2, <2>3
<1>4. Of(s) \subseteq alive
  BY DEF Of
<1> QED BY <1>1, <1>2, <1>3, <1>4

\* What ends a sweep is the sweep or a restart, and a restart frees nothing.
THEOREM SweepsSpareTheLiving == Spec => SweepSparesLive
<1>1. ASSUME TypeOK, HostsInv, SwapInv, [Next]_vars,
             SweepEnds, ~setting.overlap, crashes = 0,
             NEW k \in Cards, NEW s \in Sessions, <<k, s>> \in claims \ claims'
      PROVE  Of(s) = {}
  <2>1. PICK ok \in BOOLEAN : Sweeps(ok)
    <3>1. sweep.pc # sweep'.pc /\ sweep.pc = "probed"
      BY <1>1 DEF SweepEnds
    <3>2. claims' # claims
      BY <1>1
    <3>3. ASSUME NEW t \in Sessions,
                 \/ \E K \in SUBSET Cards : Opens(t, K)
                 \/ Discards(t) \/ DiscardEnds(t) \/ Continues(t)
                 \/ \E c \in Cards : ClaimsCard(t, c)
          PROVE  sweep' = sweep
      BY <3>3 DEF Opens, Discards, DiscardEnds, Continues, ClaimsCard,
         OpenEnds, OpenFails, Reserves, StartFails, Starts, Proves, Stamps,
         RollsBack, NothingToDiscard, BindsCard
    <3>4. ASSUME NEW n \in Recycles,
                 \/ RecycleContinues(n)
                 \/ \E t \in Sessions : RecycleStarts(n, t)
          PROVE  sweep' = sweep
      BY <3>4 DEF RecycleContinues, RecycleStarts, RecycleFails, RecycleSwaps,
         RecycleStamps
    <3>5. ~Probes /\ ~Restarts /\ ~UNCHANGED vars
      BY <3>1, <3>2 DEF Probes, Restarts, vars, world
    <3>6. ASSUME \/ \E t \in Sessions, c \in Cards :
                       GivesBack(c, t) \/ Lapses(c, t)
                 \/ \E t \in Terminals : Exits(t)
          PROVE  sweep' = sweep
      BY <3>6 DEF GivesBack, Lapses, Exits
    <3> QED BY <1>1, <3>1, <3>3, <3>4, <3>5, <3>6, StepCases
  <2>2. s \in Dead
    BY <1>1, <2>1 DEF Sweeps
  <2> QED BY <1>1, <2>1, <2>2, SweptAreGone DEF Clear
<1>2. TypeOK /\ HostsInv /\ SwapInv /\ [Next]_vars
        => [SweepEnds /\ ~setting.overlap /\ crashes = 0 =>
              \A k \in Cards, s \in Sessions :
                <<k, s>> \in claims \ claims' => Of(s) = {}]_vars
  BY <1>1
<1> QED BY <1>2, SwapAlways, PTL DEF Spec, SweepSparesLive

=============================================================================
