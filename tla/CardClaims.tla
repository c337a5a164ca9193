----------------------------- MODULE CardClaims -----------------------------
(***************************************************************************)
(* The card-claim registry (runner/claims.ts): who reserved which card,    *)
(* for what, until when.  The set in memory arbitrates; every change also  *)
(* chains a write of the whole set to disk that nobody awaits, so a crash  *)
(* finds some earlier set there.                                           *)
(*                                                                         *)
(* A method runs under withKeyedLock("claims") and awaits nothing once the *)
(* set is loaded: it is one action.  A claim that was given back becomes a *)
(* tombstone that no decision reads (capReleased keeps the unreleased ones *)
(* in front, where renew()'s find meets them first); the model drops it.   *)
(***************************************************************************)
EXTENDS Naturals, Sequences

CONSTANTS
  Cards,
  RunActors,      \* "run:<sessionId>": the engine's runs
  SessionActors,  \* "session:<agentId>": agents that outlive the service
  Requests,       \* what may be asked: [actor, kind, code]
  Ttl,            \* [actor -> length of its lease]
  MaxTime,        \* bound: how far the clock goes
  MaxPending,     \* bound: how many writes are chained at once
  MaxCrashes      \* bound: how often the service dies

Actors == RunActors \cup SessionActors

ASSUME ClaimsAssumption ==
  /\ RunActors \cap SessionActors = {}
  /\ \A q \in Requests : q.actor \in Actors /\ q.code \in BOOLEAN
  /\ Ttl \in [Actors -> Nat]
  /\ MaxTime \in Nat /\ MaxPending \in Nat /\ MaxCrashes \in Nat

Kinds == {q.kind : q \in Requests}

\* An unreleased claim.  `code` is the card-exclusive scope (code, both).
Claim == [card: Cards, actor: Actors, kind: Kinds, code: BOOLEAN,
          expires: Nat]

VARIABLES
  now,       \* the wall clock
  service,   \* "down", "booting" (before releaseRunClaimsOnBoot) or "up"
  claims,    \* the set in memory
  pending,   \* writeChain: the sets still to be written, oldest first
  disk,      \* claims.json
  crashes,   \* history: how often the service died
  taken,     \* history: claims acquired by the life that is up
  freed      \* history: <<card, actor>> given back and not taken again

vars == <<now, service, claims, pending, disk, crashes, taken, freed>>

-----------------------------------------------------------------------------
Live(c) == c.expires > now

\* claimConflicts: one code claim per card, one claim per kind; the holder
\* asking again never conflicts with itself.
Conflicts(c, q) ==
  /\ c.actor # q.actor
  /\ \/ c.code /\ q.code
     \/ c.kind = q.kind

Holders(k, q) == {c \in claims : c.card = k /\ Live(c) /\ Conflicts(c, q)}

Of(k, a) == {c \in claims : c.card = k /\ c.actor = a}

\* Swap the set in memory and chain the write of it.
Commit(next) ==
  /\ claims' = next
  /\ pending' = Append(pending, next)

Serving == service = "up" /\ Len(pending) < MaxPending

-----------------------------------------------------------------------------
Granted(k, q) ==
  [card |-> k, actor |-> q.actor, kind |-> q.kind, code |-> q.code,
   expires |-> now + Ttl[q.actor]]

\* Mutant: the holder's earlier claim stays beside the new one.
AcquireBeside(k, q) ==
  /\ Serving
  /\ Holders(k, q) = {}
  /\ Commit(claims \cup {Granted(k, q)})
  /\ taken' = taken \cup {<<k, q.actor>>}
  /\ freed' = freed \ {<<k, q.actor>>}
  /\ UNCHANGED <<now, service, disk, crashes>>

\* The same actor asking again replaces its claim, of whatever kind it was.
Acquire(k, q) ==
  /\ Serving
  /\ Holders(k, q) = {}
  /\ Commit((claims \ Of(k, q.actor)) \cup {Granted(k, q)})
  /\ taken' = taken \cup {<<k, q.actor>>}
  /\ freed' = freed \ {<<k, q.actor>>}
  /\ UNCHANGED <<now, service, disk, crashes>>

\* Mutant: a lapsed claim is brought back to life.
RenewLapsed(c) ==
  /\ Serving /\ c \in claims
  /\ Commit((claims \ {c}) \cup {[c EXCEPT !.expires = now + Ttl[c.actor]]})
  /\ UNCHANGED <<now, service, disk, crashes, taken, freed>>

\* A heartbeat; a lapsed claim is not renewed, its actor must acquire again.
Renew(c) ==
  /\ Serving /\ c \in claims /\ Live(c)
  /\ Commit((claims \ {c}) \cup {[c EXCEPT !.expires = now + Ttl[c.actor]]})
  /\ UNCHANGED <<now, service, disk, crashes, taken, freed>>

Give(gone) ==
  /\ gone # {}
  /\ Commit(claims \ gone)
  /\ freed' = freed \cup {<<c.card, c.actor>> : c \in gone}

Release(k, a) ==
  /\ Serving
  /\ Give(Of(k, a))
  /\ UNCHANGED <<now, service, disk, crashes, taken>>

\* Mutant: only the holders the fleet declares dead are swept.
SweepDead(dead) ==
  /\ Serving
  /\ Give({c \in claims : c.actor \in dead})
  /\ UNCHANGED <<now, service, disk, crashes, taken>>

\* sweepExpired: what lapsed, and what the fleet probe says nobody holds.
SweepExpired(dead) ==
  /\ Serving
  /\ Give({c \in claims : ~Live(c) \/ c.actor \in dead})
  /\ UNCHANGED <<now, service, disk, crashes, taken>>

-----------------------------------------------------------------------------
\* The next write of the chain lands, or fails and is logged.
Persist(ok) ==
  /\ pending # <<>>
  /\ disk' = IF ok THEN Head(pending) ELSE disk
  /\ pending' = Tail(pending)
  /\ UNCHANGED <<now, service, claims, crashes, taken, freed>>

Crash ==
  /\ service # "down" /\ crashes < MaxCrashes
  /\ service' = "down"
  /\ claims' = {} /\ pending' = <<>> /\ taken' = {}
  /\ crashes' = crashes + 1
  /\ UNCHANGED <<now, disk, freed>>

\* ensureLoaded, on the first call of the boot.
Load ==
  /\ service = "down"
  /\ service' = "booting"
  /\ claims' = disk
  /\ UNCHANGED <<now, pending, disk, crashes, taken, freed>>

\* Mutant: only the lapsed reservations of the previous life are freed.
BootSweeps ==
  /\ service = "booting"
  /\ service' = "up"
  /\ LET gone == {c \in claims : c.actor \in RunActors /\ ~Live(c)}
     IN IF gone = {} THEN UNCHANGED <<claims, pending, freed>> ELSE Give(gone)
  /\ UNCHANGED <<now, disk, crashes, taken>>

\* releaseRunClaimsOnBoot, before recovery hands any run to the engine.
ReleaseRunClaimsOnBoot ==
  /\ service = "booting"
  /\ service' = "up"
  /\ LET gone == {c \in claims : c.actor \in RunActors}
     IN IF gone = {} THEN UNCHANGED <<claims, pending, freed>> ELSE Give(gone)
  /\ UNCHANGED <<now, disk, crashes, taken>>

Tick ==
  /\ now < MaxTime
  /\ now' = now + 1
  /\ UNCHANGED <<service, claims, pending, disk, crashes, taken, freed>>

Init ==
  /\ now = 0 /\ service = "down"
  /\ claims = {} /\ pending = <<>> /\ disk = {}
  /\ crashes = 0 /\ taken = {} /\ freed = {}

Next ==
  \/ \E k \in Cards, q \in Requests : Acquire(k, q)
  \/ \E c \in claims : Renew(c)
  \/ \E k \in Cards, a \in Actors : Release(k, a)
  \/ \E dead \in SUBSET SessionActors : SweepExpired(dead)
  \/ \E ok \in BOOLEAN : Persist(ok)
  \/ Crash \/ Load \/ ReleaseRunClaimsOnBoot \/ Tick

Spec == Init /\ [][Next]_vars

\* A sweep is a timer (SF: the bound on chained writes disables it at times,
\* nothing in the code does); a write that was chained is attempted; a service
\* that died is started again.
Fairness ==
  /\ SF_vars(\E dead \in SUBSET SessionActors : SweepExpired(dead))
  /\ WF_vars(\E ok \in BOOLEAN : Persist(ok))
  /\ WF_vars(Load) /\ WF_vars(ReleaseRunClaimsOnBoot) /\ WF_vars(Tick)

FairSpec == Spec /\ Fairness

-----------------------------------------------------------------------------
TypeOK ==
  /\ now \in Nat /\ crashes \in Nat
  /\ service \in {"down", "booting", "up"}
  /\ claims \in SUBSET Claim /\ disk \in SUBSET Claim
  /\ pending \in Seq(SUBSET Claim)
  /\ taken \subseteq Cards \X Actors /\ freed \subseteq Cards \X Actors

\* Two implementers of a card, or two actors at the same kind of work on it.
Clash(c, d) ==
  /\ c.card = d.card /\ c.actor # d.actor
  /\ (c.code /\ d.code) \/ c.kind = d.kind

\* No two reservations in force exclude each other, in memory and in every
\* set a restart may find: neither a renewal after a lapse nor an old file
\* gives a card to two implementers.
Exclusive(S) == \A c, d \in S : Live(c) /\ Live(d) => ~Clash(c, d)

ReservationsExclude ==
  /\ Exclusive(claims) /\ Exclusive(disk)
  /\ \A i \in 1..Len(pending) : Exclusive(pending[i])

\* An actor has one claim per card, so a release gives the card back whole.
OnePerActor ==
  \A c, d \in claims : c.card = d.card /\ c.actor = d.actor => c = d

\* Once the service is up, a run's reservation belongs to a run of this life.
RunClaimsAreOfThisLife ==
  service = "up" =>
    \A c \in claims : c.actor \in RunActors => <<c.card, c.actor>> \in taken

\* A reservation ends: a claim that lapses leaves the set, crash or no crash.
LapsedIsFreed ==
  \A k \in Cards, a \in Actors :
     (\E c \in Of(k, a) : ~Live(c)) ~> (\A c \in Of(k, a) : Live(c))

-----------------------------------------------------------------------------
(* What the comments promise and the code does not keep.                   *)

\* claims.ts: "a crash between the swap and the flush loses at most a
\* reservation" - one that was given back does not come back.
NothingResurrected ==
  service = "up" => \A c \in claims : <<c.card, c.actor>> \notin freed
=============================================================================
