---------------------------- MODULE SessionFleet ----------------------------
(***************************************************************************)
(* The fleet of agent sessions (runner/session-worktree.ts,                *)
(* session-spawn.ts, session-claims.ts).  A registry row says which tree,  *)
(* cards and tmux terminal an agent has; every change of the registry is a *)
(* load and a write of the whole file under one lock.  Terminals live and  *)
(* die outside the service and survive its restarts.  A sweep asks tmux    *)
(* which terminals exist, waits for the lock, and frees the cards of the   *)
(* agents whose terminal is gone.                                          *)
(*                                                                         *)
(* Sessions do code work, so at most one of them may hold a card; claims   *)
(* are what CardClaims keeps in memory, renewed by each sweep.  Terminal 0 *)
(* of an agent is the one it is born in, terminal n that of recycle n.     *)
(***************************************************************************)
EXTENDS Naturals

CONSTANTS
  Sessions,
  Cards,
  Settings,     \* values setting may have
  MaxRecycles   \* bound: recycles

ASSUME FleetAssumption ==
  /\ Settings \subseteq [overlap: BOOLEAN, restarts: Nat]
  /\ MaxRecycles \in Nat
  /\ Sessions # {}

Recycles == 1..MaxRecycles
Terminals == Sessions \X (0..MaxRecycles)

\* A row of sessions.json; `tmux` holds the number of the terminal, if any.
Row == [reg: BOOLEAN, tree: BOOLEAN, cards: SUBSET Cards,
        tmux: {{}} \cup {{n} : n \in 0..MaxRecycles}, ended: BOOLEAN]
NoRow == [reg |-> FALSE, tree |-> FALSE, cards |-> {}, tmux |-> {},
          ended |-> FALSE]

VARIABLES
  setting,  \* may a sweep overlap the birth or the swap of a terminal, and
            \* the bound on restarts of the service
  rows,     \* the registry
  lock,     \* who holds the registry's lock across awaits
  trees,    \* the worktrees on disk
  alive,    \* the terminals tmux has
  claims,   \* <<card, session>> in force
  act,      \* per session: the spawn or claim under way
  recycle,  \* per recycle: pc, the session, the terminal it replaces
  sweep,    \* the reconciliation: pc, the terminals the probe named
  crashes

world == <<trees, alive, claims>>
vars == <<setting, rows, lock, world, act, recycle, sweep, crashes>>

Of(s) == {t \in alive : t[1] = s}
HostedBy(s, row) == {s} \X row.tmux

-----------------------------------------------------------------------------
(* The registry.                                                           *)

\* Mutant: the registry has no lock.
FreeForAll == TRUE

Free == lock = {}

Resting == {"unborn", "idle", "refused", "stuck"}

NoRows == [s \in Sessions |-> NoRow]

\* What the call under way for s knows, once it has gone as far as pc.
At(s, pc) == [pc |-> pc, rows |-> NoRows,
              cards |-> IF pc \in Resting THEN {} ELSE act[s].cards]

Goes(s, pc) == act' = [act EXCEPT ![s] = At(s, pc)]

\* updateSession: patches a row, and does nothing when it is gone.
Patched(s, row) == IF rows[s].reg THEN [rows EXCEPT ![s] = row] ELSE rows

\* A row whose tree was removed behind the registry's back is dropped.
Present ==
  [s \in Sessions |-> IF rows[s].tree /\ s \notin trees THEN NoRow ELSE rows[s]]

\* openSessionWorktree takes the lock, heals the registry and cuts the tree:
\* for a spawn on a free card, or (K = {}) for worktree_open.
Opens(s, K) ==
  /\ act[s].pc = "unborn" /\ Free
  /\ \A k \in K, t \in Sessions : <<k, t>> \notin claims
  /\ lock' = lock \cup {<<s, "open">>}
  /\ rows' = Present
  /\ trees' = trees \cup {s}
  /\ act' = [act EXCEPT ![s] = [pc |-> "opening", cards |-> K,
                                rows |-> Present]]
  /\ UNCHANGED <<setting, alive, claims, recycle, sweep, crashes>>

\* The row joins the list as it was loaded.
OpenEnds(s) ==
  /\ act[s].pc = "opening"
  /\ rows' = [act[s].rows EXCEPT
                ![s] = [NoRow EXCEPT !.reg = TRUE, !.tree = TRUE,
                                     !.cards = act[s].cards]]
  /\ lock' = lock \ {<<s, "open">>}
  /\ Goes(s, IF act[s].cards = {} THEN "idle" ELSE "claiming")
  /\ UNCHANGED <<setting, world, recycle, sweep, crashes>>

\* No base ref, no tree.
OpenFails(s) ==
  /\ act[s].pc = "opening"
  /\ trees' = trees \ {s}
  /\ lock' = lock \ {<<s, "open">>}
  /\ Goes(s, "refused")
  /\ UNCHANGED <<setting, rows, alive, claims, recycle, sweep, crashes>>

\* discardSessionWorktree: asked for by the agent, the operator, the garbage
\* collector or the rollback of a spawn.
Discards(s) ==
  /\ rows[s].reg /\ Free
  /\ lock' = lock \cup {<<s, "discard">>}
  /\ \E gone \in {{}, {s}} : trees' = trees \ gone
  /\ UNCHANGED <<setting, rows, alive, claims, act, recycle, sweep, crashes>>

\* A teardown that failed keeps the row.
DiscardEnds(s) ==
  /\ <<s, "discard">> \in lock
  /\ lock' = lock \ {<<s, "discard">>}
  /\ rows' = IF s \in trees THEN rows ELSE [rows EXCEPT ![s] = NoRow]
  /\ IF act[s].pc = "discarding"
     THEN Goes(s, IF s \in trees THEN "stuck" ELSE "refused")
     ELSE UNCHANGED act
  /\ UNCHANGED <<setting, world, recycle, sweep, crashes>>

-----------------------------------------------------------------------------
(* spawnWorkSession, from the reservation on.                              *)

Taken(s, K) == \E k \in K, t \in Sessions \ {s} : <<k, t>> \in claims

Reserves(s) ==
  /\ act[s].pc = "claiming"
  /\ IF Taken(s, act[s].cards)
     THEN Goes(s, "discarding") /\ UNCHANGED claims
     ELSE Goes(s, "starting") /\ claims' = claims \cup (act[s].cards \X {s})
  /\ UNCHANGED <<setting, rows, lock, trees, alive, recycle, sweep, crashes>>

\* The name is taken or tmux refuses.
StartFails(s) ==
  /\ act[s].pc = "starting"
  /\ Goes(s, "releasing")
  /\ UNCHANGED <<setting, rows, lock, world, recycle, sweep, crashes>>

Starts(s) ==
  /\ act[s].pc = "starting"
  /\ setting.overlap \/ sweep.pc = "idle"
  /\ alive' = alive \cup {<<s, 0>>}
  /\ Goes(s, "proving")
  /\ UNCHANGED <<setting, rows, lock, trees, claims, recycle, sweep, crashes>>

\* survives(): the terminal is still there after five seconds, or it is not.
Proves(s) ==
  /\ act[s].pc = "proving"
  /\ Goes(s, IF <<s, 0>> \in alive THEN "stamping" ELSE "releasing")
  /\ UNCHANGED <<setting, rows, lock, world, recycle, sweep, crashes>>

\* Mutant: the new terminal is added to the row.
StampedBeside(row, n) == [row EXCEPT !.tmux = @ \cup {n}]

Stamped(row, n) == [row EXCEPT !.tmux = {n}]

Stamps(s) ==
  /\ act[s].pc = "stamping" /\ Free
  /\ rows' = Patched(s, Stamped(rows[s], 0))
  /\ Goes(s, "idle")
  /\ UNCHANGED <<setting, lock, world, recycle, sweep, crashes>>

\* Mutant: the rollback forgets the reservation.
KeepsReservation(s) == claims

Unreserved(s) == claims \ (act[s].cards \X {s})

\* rollback(claimed): first the reservation, then the tree and the row.
RollsBack(s) ==
  /\ act[s].pc = "releasing"
  /\ claims' = Unreserved(s)
  /\ Goes(s, "discarding")
  /\ UNCHANGED <<setting, rows, lock, trees, alive, recycle, sweep, crashes>>

NothingToDiscard(s) ==
  /\ act[s].pc = "discarding" /\ ~rows[s].reg /\ Free
  /\ Goes(s, "refused")
  /\ UNCHANGED <<setting, rows, lock, world, recycle, sweep, crashes>>

-----------------------------------------------------------------------------
(* The session's own reservation.                                          *)

\* claim_card: one card per session; its own card is renewed.
ClaimsCard(s, k) ==
  /\ act[s].pc = "idle" /\ rows[s].reg
  /\ rows[s].cards \subseteq {k} /\ ~Taken(s, {k})
  /\ claims' = claims \cup {<<k, s>>}
  /\ IF rows[s].cards = {}
     THEN act' = [act EXCEPT ![s].pc = "binding", ![s].cards = {k}]
     ELSE UNCHANGED act
  /\ UNCHANGED <<setting, rows, lock, trees, alive, recycle, sweep, crashes>>

BindsCard(s) ==
  /\ act[s].pc = "binding" /\ Free
  /\ rows' = Patched(s, [rows[s] EXCEPT !.cards = act[s].cards])
  /\ Goes(s, "idle")
  /\ UNCHANGED <<setting, lock, world, recycle, sweep, crashes>>

\* release_claim, or the operator's button.
GivesBack(k, s) ==
  /\ <<k, s>> \in claims
  /\ claims' = claims \ {<<k, s>>}
  /\ UNCHANGED <<setting, rows, lock, trees, alive, act, recycle, sweep,
                 crashes>>

Busy(s) ==
  \/ act[s].pc \notin Resting
  \/ \E n \in Recycles : recycle[n].pc # "idle" /\ recycle[n].s = s

\* What no sweep renews lapses; a birth or a swap is shorter than a lease, and
\* sweeps are more frequent.
Lapses(k, s) ==
  /\ <<k, s>> \in claims /\ ~Busy(s)
  /\ ~(/\ rows[s].reg /\ k \in rows[s].cards
       /\ rows[s].tmux # {} /\ HostedBy(s, rows[s]) \subseteq alive)
  /\ claims' = claims \ {<<k, s>>}
  /\ UNCHANGED <<setting, rows, lock, trees, alive, act, recycle, sweep,
                 crashes>>

-----------------------------------------------------------------------------
(* recycleSession: a new terminal for the same agent.                      *)

NoRecycle(pc) == [pc |-> pc, s |-> CHOOSE s \in Sessions : TRUE, old |-> {}]

Swapped(n) == recycle' = [recycle EXCEPT ![n] = NoRecycle("idle")]

RecycleStarts(n, s) ==
  /\ recycle[n].pc = "new" /\ rows[s].reg /\ act[s].pc = "idle"
  /\ \/ setting.overlap
     \/ /\ sweep.pc = "idle"
        /\ \A m \in Recycles : recycle[m].pc \in {"new", "idle"}
  /\ alive' = alive \cup {<<s, n>>}
  /\ recycle' = [recycle EXCEPT ![n] = [pc |-> "proving", s |-> s,
                                        old |-> HostedBy(s, rows[s])]]
  /\ UNCHANGED <<setting, rows, lock, trees, claims, act, sweep, crashes>>

\* A newborn that did not survive changes nothing: the old one is still there.
RecycleFails(n) ==
  /\ recycle[n].pc = "proving" /\ <<recycle[n].s, n>> \notin alive
  /\ Swapped(n)
  /\ UNCHANGED <<setting, rows, lock, world, act, sweep, crashes>>

\* Mutant: the old terminal is left running.
KillsNothing(n) == alive

KillsOld(n) == alive \ recycle[n].old

RecycleSwaps(n) ==
  /\ recycle[n].pc = "proving" /\ <<recycle[n].s, n>> \in alive
  /\ alive' = KillsOld(n)
  /\ recycle' = [recycle EXCEPT ![n].pc = "stamping"]
  /\ UNCHANGED <<setting, rows, lock, trees, claims, act, sweep, crashes>>

RecycleStamps(n) ==
  /\ recycle[n].pc = "stamping" /\ Free
  /\ LET s == recycle[n].s IN rows' = Patched(s, Stamped(rows[s], n))
  /\ Swapped(n)
  /\ UNCHANGED <<setting, lock, world, act, sweep, crashes>>

-----------------------------------------------------------------------------
(* The sweep.                                                              *)

\* Mutant: tmux that did not answer is taken for tmux without terminals.
SilenceIsDeath == {alive, {}}

\* A probe that got no answer ends the sweep (reconcileFleet's null).
ProbeAnswers == {alive}

Swapping ==
  \/ \E s \in Sessions : act[s].pc \in {"proving", "stamping"}
  \/ \E n \in Recycles : recycle[n].pc \in {"proving", "stamping"}

Probes ==
  /\ sweep.pc = "idle"
  /\ setting.overlap \/ ~Swapping
  /\ \E live \in ProbeAnswers : sweep' = [pc |-> "probed", live |-> live]
  /\ UNCHANGED <<setting, rows, lock, world, act, recycle, crashes>>

Found(s) == HostedBy(s, rows[s]) \cap sweep.live # {}

\* Whose terminal is gone, and was not already known to be.
Dead == {s \in Sessions : /\ rows[s].reg /\ rows[s].tmux # {} /\ ~Found(s)
                          /\ ~rows[s].ended}

\* Mutant: a death is recorded although its cards could not be freed.
BuriedAnyway(s, ok) == rows[s].ended \/ s \in Dead

Buried(s, ok) == rows[s].ended \/ (ok /\ s \in Dead)

\* reconcileFleet, under the lock; ~ok: the claim store refused the sweep.
Sweeps(ok) ==
  /\ sweep.pc = "probed" /\ Free
  /\ claims' = IF ok THEN claims \ (Cards \X Dead) ELSE claims
  /\ rows' = [s \in Sessions |->
                [rows[s] EXCEPT !.ended = ~Found(s) /\ Buried(s, ok)]]
  /\ sweep' = [pc |-> "idle", live |-> {}]
  /\ UNCHANGED <<setting, lock, trees, alive, act, recycle, crashes>>

-----------------------------------------------------------------------------
(* The rest of the system.                                                 *)

\* The agent ends, or its terminal is killed.
Exits(t) ==
  /\ t \in alive
  /\ alive' = alive \ {t}
  /\ UNCHANGED <<setting, rows, lock, trees, claims, act, recycle, sweep,
                 crashes>>

\* Whatever was under way is gone; terminals and claims stay.
Restarts ==
  /\ crashes < setting.restarts /\ crashes' = crashes + 1
  /\ lock' = {}
  /\ act' = [s \in Sessions |->
               IF act[s].pc \in Resting THEN act[s] ELSE At(s, "idle")]
  /\ recycle' = [n \in Recycles |->
                   NoRecycle(IF recycle[n].pc = "new" THEN "new" ELSE "idle")]
  /\ sweep' = [pc |-> "idle", live |-> {}]
  /\ UNCHANGED <<setting, rows, world>>

-----------------------------------------------------------------------------
Init ==
  /\ setting \in Settings
  /\ rows = NoRows /\ lock = {}
  /\ trees = {} /\ alive = {} /\ claims = {}
  /\ act = [s \in Sessions |-> [pc |-> "unborn", cards |-> {},
                                rows |-> NoRows]]
  /\ recycle = [n \in Recycles |-> NoRecycle("new")]
  /\ sweep = [pc |-> "idle", live |-> {}] /\ crashes = 0

\* What a spawn, a claim or a discard that was started does next.
Continues(s) ==
  \/ OpenEnds(s) \/ OpenFails(s)
  \/ Reserves(s) \/ StartFails(s) \/ Starts(s) \/ Proves(s) \/ Stamps(s)
  \/ RollsBack(s) \/ NothingToDiscard(s) \/ BindsCard(s)

RecycleContinues(n) ==
  RecycleFails(n) \/ RecycleSwaps(n) \/ RecycleStamps(n)

Next ==
  \/ \E s \in Sessions :
       \/ \E K \in SUBSET Cards : Opens(s, K)
       \/ Discards(s) \/ DiscardEnds(s) \/ Continues(s)
       \/ \E k \in Cards : ClaimsCard(s, k) \/ GivesBack(k, s) \/ Lapses(k, s)
       \/ \E n \in Recycles : RecycleStarts(n, s)
  \/ \E n \in Recycles : RecycleContinues(n)
  \/ Probes \/ \E ok \in BOOLEAN : Sweeps(ok)
  \/ \E t \in Terminals : Exits(t)
  \/ Restarts

Spec == Init /\ [][Next]_vars

\* Awaits end, the lock is first come first served, the tick of the fleet
\* comes back, and the claim store does not refuse every sweep.
LiveSpec ==
  /\ Spec
  /\ \A s \in Sessions : SF_vars(Continues(s)) /\ WF_vars(DiscardEnds(s))
  /\ \A n \in Recycles : SF_vars(RecycleContinues(n))
  /\ SF_vars(Probes) /\ SF_vars(Sweeps(TRUE))

-----------------------------------------------------------------------------
\* A spawn or claim under way, and a swap of terminals under way.
Call == [pc: {"unborn", "opening", "claiming", "starting", "proving",
              "stamping", "releasing", "discarding", "refused", "stuck",
              "idle", "binding"},
         cards: SUBSET Cards, rows: [Sessions -> Row]]
Swap == [pc: {"new", "proving", "stamping", "idle"}, s: Sessions,
         old: SUBSET Terminals]

TypeOK ==
  /\ setting \in Settings /\ crashes \in 0..setting.restarts
  /\ rows \in [Sessions -> Row]
  /\ lock \subseteq Sessions \X {"open", "discard"}
  /\ trees \subseteq Sessions /\ alive \subseteq Terminals
  /\ claims \subseteq Cards \X Sessions
  /\ act \in [Sessions -> Call] /\ recycle \in [Recycles -> Swap]
  /\ sweep \in [pc: {"idle", "probed"}, live: SUBSET Terminals]

\* No row is lost: while nobody holds the registry, the trees on disk are the
\* trees it lists (two sessions opened at once once left one listed,
\* session-worktree.ts:475) - unless a restart fell between tree and row.
TreesAreRegistered ==
  crashes = 0 /\ lock = {} => trees = {s \in Sessions : rows[s].tree}

\* A spawn that was refused leaves neither reservation nor process, and no row
\* nor tree unless the teardown failed ("half-born session is worse than none").
RefusedLeavesNothing ==
  \A s \in Sessions :
    /\ act[s].pc \in {"refused", "stuck"} =>
         Of(s) = {} /\ \A k \in Cards : <<k, s>> \notin claims
    /\ act[s].pc = "refused" => s \notin trees /\ ~rows[s].reg

\* One process per tree: once no birth or swap is under way, the terminals of a
\* registered agent are at most the one its row names - unless two recycles
\* overlapped or a restart fell in the middle of one.
OneProcess ==
  setting.overlap \/ crashes > 0 \/
    \A s \in Sessions : rows[s].reg /\ ~Busy(s) =>
      Of(s) \subseteq HostedBy(s, rows[s])

SweepEnds == sweep.pc = "probed" /\ sweep'.pc = "idle"

\* A sweep never takes the card of an agent that has a process, whatever tmux
\* fails to answer - unless it overlapped a birth or a swap, or a restart cut
\* one short.
SweepSparesLive ==
  [][SweepEnds /\ ~setting.overlap /\ crashes = 0 =>
       \A k \in Cards, s \in Sessions :
         <<k, s>> \in claims \ claims' => Of(s) = {}]_vars

\* An agent found dead loses its cards to the queue without waiting for their
\* lease: a sweep that could not free them must not record the death.
DeadIsFreed ==
  \A k \in Cards, s \in Sessions :
    LET held == /\ <<k, s>> \in claims /\ rows[s].reg /\ rows[s].tmux # {}
                /\ HostedBy(s, rows[s]) \cap alive = {}
    IN (held /\ ~rows[s].ended) ~> ~held

\* recycleSession: "the tree, the branch, the base-ref, the card and the claim
\* all stay exactly where they are".  Does not hold: a sweep between the kill of
\* the old terminal and the stamp of the new one takes the agent for dead.
RecycleKeepsClaim ==
  [][SweepEnds =>
       \A k \in Cards, s \in Sessions :
         <<k, s>> \in claims \ claims' => Of(s) = {}]_vars
=============================================================================
