------------------------- MODULE CardClaims_proofs -------------------------
(***************************************************************************)
(* Proofs about the card-claim registry, for every set of cards, actors,   *)
(* requests and leases.  What makes ReservationsExclude and OnePerActor    *)
(* inductive is that they are properties of ONE set of claims, kept by     *)
(* every operation on the set in memory, and that every set on its way to  *)
(* the disk was that set once: time only takes reservations out of force.  *)
(***************************************************************************)
EXTENDS CardClaims, TLAPS

-----------------------------------------------------------------------------
(* What one set of claims satisfies at time t.                             *)

OneEach(S) ==
  \A c, d \in S : c.card = d.card /\ c.actor = d.actor => c = d

Sound(t, S) ==
  /\ \A c, d \in S : c.expires > t /\ d.expires > t => ~Clash(c, d)
  /\ OneEach(S)

\* The inductive invariant: every set a restart may find is Sound.
ChainSound == \A i \in 1..Len(pending) : Sound(now, pending[i])

ClaimsInv == TypeOK /\ Sound(now, claims) /\ Sound(now, disk) /\ ChainSound

\* An exclusion holds in both directions, and between parts of a set.
LEMMA ClashSymmetric ==
  ASSUME NEW c, NEW d
  PROVE  Clash(c, d) <=> Clash(d, c)
  BY DEF Clash, Conflicts

LEMMA SoundSubset ==
  ASSUME NEW t, NEW S, NEW T \in SUBSET S, Sound(t, S)
  PROVE  Sound(t, T)
  BY DEF Sound, OneEach

\* Time takes reservations out of force and brings none back.
LEMMA SoundLater ==
  ASSUME NEW t \in Nat, NEW S \in SUBSET Claim, Sound(t, S)
  PROVE  Sound(t + 1, S)
  <1>1. \A c \in S : c.expires > t + 1 => c.expires > t
    BY DEF Claim
  <1> QED BY <1>1 DEF Sound

-----------------------------------------------------------------------------
(* Type correctness.                                                       *)

LEMMA CommitTyped ==
  ASSUME TypeOK, NEW next \in SUBSET Claim, Commit(next)
  PROVE  claims' \in SUBSET Claim /\ pending' \in Seq(SUBSET Claim)
  BY DEF TypeOK, Commit

LEMMA GrantedIsClaim ==
  ASSUME TypeOK, NEW k \in Cards, NEW q \in Requests
  PROVE  Granted(k, q) \in Claim
  BY ClaimsAssumption DEF TypeOK, Granted, Claim, Kinds

LEMMA RenewedIsClaim ==
  ASSUME TypeOK, NEW c \in claims
  PROVE  [c EXCEPT !.expires = now + Ttl[c.actor]] \in Claim
  BY ClaimsAssumption DEF TypeOK, Claim

LEMMA GivenIsTyped ==
  ASSUME TypeOK, NEW gone \in SUBSET claims, Give(gone)
  PROVE  /\ claims' \in SUBSET Claim /\ pending' \in Seq(SUBSET Claim)
         /\ freed' \subseteq Cards \X Actors
  <1>1. claims \ gone \in SUBSET Claim
    BY DEF TypeOK
  <1>2. claims' \in SUBSET Claim /\ pending' \in Seq(SUBSET Claim)
    BY <1>1, CommitTyped DEF Give
  <1>3. \A c \in gone : <<c.card, c.actor>> \in Cards \X Actors
    BY DEF TypeOK, Claim
  <1>4. freed' \subseteq Cards \X Actors
    BY <1>3 DEF Give, TypeOK
  <1> QED BY <1>2, <1>4

LEMMA TypeStep == TypeOK /\ [Next]_vars => TypeOK'
  <1> SUFFICES ASSUME TypeOK, [Next]_vars PROVE TypeOK'
    OBVIOUS
  <1>1. ASSUME NEW k \in Cards, NEW q \in Requests, Acquire(k, q)
        PROVE  TypeOK'
    <2>1. (claims \ Of(k, q.actor)) \cup {Granted(k, q)} \in SUBSET Claim
      BY GrantedIsClaim DEF TypeOK
    <2>2. claims' \in SUBSET Claim /\ pending' \in Seq(SUBSET Claim)
      BY <1>1, <2>1, CommitTyped DEF Acquire
    <2>3. taken' \subseteq Cards \X Actors /\ freed' \subseteq Cards \X Actors
      BY <1>1, ClaimsAssumption DEF Acquire, TypeOK
    <2> QED BY <1>1, <2>2, <2>3 DEF Acquire, TypeOK
  <1>2. ASSUME NEW c \in claims, Renew(c) PROVE TypeOK'
    <2>1. (claims \ {c}) \cup {[c EXCEPT !.expires = now + Ttl[c.actor]]}
            \in SUBSET Claim
      BY RenewedIsClaim DEF TypeOK
    <2>2. claims' \in SUBSET Claim /\ pending' \in Seq(SUBSET Claim)
      BY <1>2, <2>1, CommitTyped DEF Renew
    <2> QED BY <1>2, <2>2 DEF Renew, TypeOK
  <1>3. ASSUME NEW k \in Cards, NEW a \in Actors, Release(k, a)
        PROVE  TypeOK'
    BY <1>3, GivenIsTyped DEF Release, Of, TypeOK
  <1>4. ASSUME NEW dead \in SUBSET SessionActors, SweepExpired(dead)
        PROVE  TypeOK'
    BY <1>4, GivenIsTyped DEF SweepExpired, TypeOK
  <1>5. ASSUME NEW ok \in BOOLEAN, Persist(ok) PROVE TypeOK'
    <2>1. Head(pending) \in SUBSET Claim /\ Tail(pending) \in Seq(SUBSET Claim)
      BY <1>5 DEF Persist, TypeOK
    <2> QED BY <1>5, <2>1 DEF Persist, TypeOK
  <1>6. ASSUME Crash PROVE TypeOK'
    BY <1>6 DEF Crash, TypeOK
  <1>7. ASSUME Load PROVE TypeOK'
    BY <1>7 DEF Load, TypeOK
  <1>8. ASSUME ReleaseRunClaimsOnBoot PROVE TypeOK'
    <2> DEFINE gone == {c \in claims : c.actor \in RunActors}
    <2>1. CASE gone = {}
      BY <1>8, <2>1 DEF ReleaseRunClaimsOnBoot, TypeOK
    <2>2. CASE gone # {}
      <3>1. Give(gone)
        BY <1>8, <2>2 DEF ReleaseRunClaimsOnBoot
      <3>2. /\ claims' \in SUBSET Claim /\ pending' \in Seq(SUBSET Claim)
            /\ freed' \subseteq Cards \X Actors
        BY <3>1, GivenIsTyped
      <3> QED BY <1>8, <3>2 DEF ReleaseRunClaimsOnBoot, TypeOK
    <2> QED BY <2>1, <2>2
  <1>9. ASSUME Tick PROVE TypeOK'
    BY <1>9 DEF Tick, TypeOK
  <1>10. CASE UNCHANGED vars
    BY <1>10 DEF vars, TypeOK
  <1> QED
    BY <1>1, <1>2, <1>3, <1>4, <1>5, <1>6, <1>7, <1>8, <1>9, <1>10 DEF Next

-----------------------------------------------------------------------------
(* Every set of claims stays Sound.                                        *)

\* Granting a request that meets no holder, in place of the actor's claim.
LEMMA AcquireSound ==
  ASSUME TypeOK, Sound(now, claims), NEW k \in Cards, NEW q \in Requests,
         Holders(k, q) = {}
  PROVE  Sound(now, (claims \ Of(k, q.actor)) \cup {Granted(k, q)})
  <1> DEFINE g == Granted(k, q)
             kept == claims \ Of(k, q.actor)
  <1>1. g.card = k /\ g.actor = q.actor /\ g.kind = q.kind /\ g.code = q.code
    BY DEF Granted
  <1> HIDE DEF g
  <1>2. \A c \in kept : c.expires > now => ~Clash(c, g)
    BY <1>1 DEF Holders, Live, Clash, Conflicts
  <1>3. ~Clash(g, g)
    BY DEF Clash, Conflicts
  <1>4. \A c \in kept : ~(c.card = g.card /\ c.actor = g.actor)
    BY <1>1 DEF Of
  <1>5. Sound(now, kept)
    BY SoundSubset
  <1>6. Sound(now, kept \cup {g})
    BY <1>2, <1>3, <1>4, <1>5, ClashSymmetric DEF Sound, OneEach
  <1> QED BY <1>6 DEF g

\* Extending a claim that is in force.
LEMMA RenewSound ==
  ASSUME TypeOK, Sound(now, claims), NEW c \in claims, Live(c)
  PROVE  Sound(now, (claims \ {c}) \cup
                    {[c EXCEPT !.expires = now + Ttl[c.actor]]})
  <1> DEFINE r == [c EXCEPT !.expires = now + Ttl[c.actor]]
             kept == claims \ {c}
  <1>1. /\ r.card = c.card /\ r.actor = c.actor
        /\ r.kind = c.kind /\ r.code = c.code
    BY DEF TypeOK, Claim
  <1> HIDE DEF r
  <1>2. \A d \in kept : d.expires > now => ~Clash(d, c)
    BY DEF Sound, Live
  <1>3. \A d \in kept : Clash(d, r) => Clash(d, c)
    BY <1>1 DEF Clash, Conflicts
  <1>4. ~Clash(r, r)
    BY DEF Clash, Conflicts
  <1>5. \A d \in kept : ~(d.card = r.card /\ d.actor = r.actor)
    BY <1>1 DEF Sound, OneEach
  <1>6. Sound(now, kept)
    BY SoundSubset
  <1>7. Sound(now, kept \cup {r})
    BY <1>2, <1>3, <1>4, <1>5, <1>6, ClashSymmetric DEF Sound, OneEach
  <1> QED BY <1>7 DEF r

\* Swapping in a sound set keeps everything that is on its way to the disk.
LEMMA CommitSound ==
  ASSUME ClaimsInv, NEW next \in SUBSET Claim, Sound(now, next),
         Commit(next), now' = now, disk' = disk
  PROVE  Sound(now', claims') /\ Sound(now', disk') /\ ChainSound'
  <1>1. \A i \in 1..Len(pending') :
           pending'[i] = IF i = Len(pending) + 1 THEN next ELSE pending[i]
    BY DEF ClaimsInv, TypeOK, Commit
  <1>2. \A i \in 1..Len(pending') :
           i # Len(pending) + 1 => i \in 1..Len(pending)
    BY DEF ClaimsInv, TypeOK, Commit
  <1> QED BY <1>1, <1>2 DEF ClaimsInv, ChainSound, Commit

LEMMA GiveSound ==
  ASSUME ClaimsInv, NEW gone \in SUBSET claims, Give(gone),
         now' = now, disk' = disk
  PROVE  Sound(now', claims') /\ Sound(now', disk') /\ ChainSound'
  <1>1. claims \ gone \in SUBSET Claim /\ Sound(now, claims \ gone)
    BY SoundSubset DEF ClaimsInv, TypeOK
  <1> QED BY <1>1, CommitSound DEF Give

LEMMA ClaimsStep == ClaimsInv /\ [Next]_vars => ClaimsInv'
  <1> SUFFICES ASSUME ClaimsInv, [Next]_vars
               PROVE  Sound(now', claims') /\ Sound(now', disk') /\ ChainSound'
    BY TypeStep DEF ClaimsInv
  <1>0. TypeOK /\ Sound(now, claims)
    BY DEF ClaimsInv
  <1> DEFINE Goal == Sound(now', claims') /\ Sound(now', disk') /\ ChainSound'
  <1>1. ASSUME NEW k \in Cards, NEW q \in Requests, Acquire(k, q) PROVE Goal
    <2>1. (claims \ Of(k, q.actor)) \cup {Granted(k, q)} \in SUBSET Claim
      BY <1>0, GrantedIsClaim DEF TypeOK
    <2>2. Sound(now, (claims \ Of(k, q.actor)) \cup {Granted(k, q)})
      BY <1>0, <1>1, AcquireSound DEF Acquire
    <2> QED BY <1>1, <2>1, <2>2, CommitSound DEF Acquire
  <1>2. ASSUME NEW c \in claims, Renew(c) PROVE Goal
    <2> DEFINE next == (claims \ {c}) \cup
                       {[c EXCEPT !.expires = now + Ttl[c.actor]]}
    <2>1. next \in SUBSET Claim
      BY <1>0, RenewedIsClaim DEF TypeOK
    <2>2. Sound(now, next)
      BY <1>0, <1>2, RenewSound DEF Renew
    <2>3. Commit(next) /\ now' = now /\ disk' = disk
      BY <1>2 DEF Renew
    <2> HIDE DEF next
    <2> QED BY <2>1, <2>2, <2>3, CommitSound
  <1>3. ASSUME NEW k \in Cards, NEW a \in Actors, Release(k, a) PROVE Goal
    BY <1>3, GiveSound DEF Release, Of
  <1>4. ASSUME NEW dead \in SUBSET SessionActors, SweepExpired(dead) PROVE Goal
    BY <1>4, GiveSound DEF SweepExpired
  <1>5. ASSUME NEW ok \in BOOLEAN, Persist(ok) PROVE Goal
    <2>1. Len(pending) >= 1 /\ Head(pending) = pending[1]
      BY <1>0, <1>5 DEF Persist, TypeOK
    <2>2. Sound(now, Head(pending))
      BY <2>1, <1>0 DEF ClaimsInv, ChainSound, TypeOK
    <2>3. \A i \in 1..Len(Tail(pending)) :
             i + 1 \in 1..Len(pending) /\ Tail(pending)[i] = pending[i + 1]
      BY <1>0, <1>5 DEF Persist, TypeOK
    <2>4. ChainSound'
      BY <1>5, <2>3 DEF Persist, ClaimsInv, ChainSound
    <2> QED BY <1>5, <2>2, <2>4 DEF Persist, ClaimsInv
  <1>6. ASSUME Crash PROVE Goal
    BY <1>6 DEF Crash, ClaimsInv, ChainSound, Sound, OneEach
  <1>7. ASSUME Load PROVE Goal
    BY <1>7 DEF Load, ClaimsInv, ChainSound
  <1>8. ASSUME ReleaseRunClaimsOnBoot PROVE Goal
    <2> DEFINE gone == {c \in claims : c.actor \in RunActors}
    <2>1. CASE gone = {}
      BY <1>8, <2>1 DEF ReleaseRunClaimsOnBoot, ClaimsInv, ChainSound
    <2>2. CASE gone # {}
      BY <1>8, <2>2, GiveSound DEF ReleaseRunClaimsOnBoot
    <2> QED BY <2>1, <2>2
  <1>9. ASSUME Tick PROVE Goal
    <2>1. \A i \in 1..Len(pending) : pending[i] \in SUBSET Claim
      BY <1>0 DEF TypeOK
    <2>2. now \in Nat /\ now' = now + 1
      BY <1>0, <1>9 DEF Tick, TypeOK
    <2>3. Sound(now', claims) /\ Sound(now', disk)
      BY <2>2, SoundLater DEF ClaimsInv, TypeOK
    <2>4. \A i \in 1..Len(pending) : Sound(now', pending[i])
      BY <2>1, <2>2, SoundLater DEF ClaimsInv, ChainSound
    <2> QED BY <1>9, <2>3, <2>4 DEF Tick, ChainSound
  <1>10. CASE UNCHANGED vars
    BY <1>10 DEF vars, ClaimsInv, ChainSound
  <1> QED
    BY <1>1, <1>2, <1>3, <1>4, <1>5, <1>6, <1>7, <1>8, <1>9, <1>10 DEF Next

LEMMA ClaimsInit == Init => ClaimsInv
  BY DEF Init, ClaimsInv, TypeOK, ChainSound, Sound, OneEach

LEMMA ClaimsInvariant == Spec => []ClaimsInv
  BY ClaimsInit, ClaimsStep, PTL DEF Spec

-----------------------------------------------------------------------------
(* A run's reservation is of the life that is up.                          *)

\* Giving back and renewing keep whose claims there are; a crash empties the
\* set, and what a load brings back is swept before the service is up.
LEMMA LifeStep ==
  TypeOK /\ RunClaimsAreOfThisLife /\ [Next]_vars => RunClaimsAreOfThisLife'
  <1> SUFFICES ASSUME TypeOK, RunClaimsAreOfThisLife, [Next]_vars
               PROVE  RunClaimsAreOfThisLife'
    OBVIOUS
  <1> USE DEF RunClaimsAreOfThisLife
  <1>1. ASSUME NEW k \in Cards, NEW q \in Requests, Acquire(k, q)
        PROVE  RunClaimsAreOfThisLife'
    BY <1>1 DEF Acquire, Commit, Serving, Granted
  <1>2. ASSUME NEW c \in claims, Renew(c) PROVE RunClaimsAreOfThisLife'
    <2> DEFINE r == [c EXCEPT !.expires = now + Ttl[c.actor]]
    <2>1. r.card = c.card /\ r.actor = c.actor
      BY DEF TypeOK, Claim
    <2>2. claims' = (claims \ {c}) \cup {r}
      BY <1>2 DEF Renew, Commit
    <2> HIDE DEF r
    <2> QED BY <1>2, <2>1, <2>2 DEF Renew, Serving
  <1>3. ASSUME NEW k \in Cards, NEW a \in Actors, Release(k, a)
        PROVE  RunClaimsAreOfThisLife'
    BY <1>3 DEF Release, Give, Commit, Serving
  <1>4. ASSUME NEW dead \in SUBSET SessionActors, SweepExpired(dead)
        PROVE  RunClaimsAreOfThisLife'
    BY <1>4 DEF SweepExpired, Give, Commit, Serving
  <1>5. ASSUME NEW ok \in BOOLEAN, Persist(ok) PROVE RunClaimsAreOfThisLife'
    BY <1>5 DEF Persist
  <1>6. ASSUME Crash PROVE RunClaimsAreOfThisLife'
    BY <1>6 DEF Crash
  <1>7. ASSUME Load PROVE RunClaimsAreOfThisLife'
    BY <1>7 DEF Load
  <1>8. ASSUME ReleaseRunClaimsOnBoot PROVE RunClaimsAreOfThisLife'
    BY <1>8 DEF ReleaseRunClaimsOnBoot, Give, Commit
  <1>9. ASSUME Tick PROVE RunClaimsAreOfThisLife'
    BY <1>9 DEF Tick
  <1>10. CASE UNCHANGED vars
    BY <1>10 DEF vars
  <1> QED
    BY <1>1, <1>2, <1>3, <1>4, <1>5, <1>6, <1>7, <1>8, <1>9, <1>10 DEF Next

-----------------------------------------------------------------------------
\* Every variable of the registry keeps its type.
THEOREM ClaimsTyped == Spec => []TypeOK
  <1>1. ClaimsInv => TypeOK
    BY DEF ClaimsInv
  <1> QED BY <1>1, ClaimsInvariant, PTL

\* claimConflicts decides: no two reservations in force exclude each other,
\* in memory, on disk and in every write on its way there.
THEOREM ReservationsNeverClash == Spec => []ReservationsExclude
  <1>1. ClaimsInv => ReservationsExclude
    BY DEF ClaimsInv, ChainSound, Sound, ReservationsExclude, Exclusive, Live
  <1> QED BY <1>1, ClaimsInvariant, PTL

\* acquire replaces: an actor has at most one claim on a card.
THEOREM ActorsHoldOneClaim == Spec => []OnePerActor
  <1>1. ClaimsInv => OnePerActor
    BY DEF ClaimsInv, Sound, OneEach, OnePerActor
  <1> QED BY <1>1, ClaimsInvariant, PTL

\* releaseRunClaimsOnBoot: no run inherits a reservation across a restart.
THEOREM NoInheritedRunClaim == Spec => []RunClaimsAreOfThisLife
  <1>1. Init => RunClaimsAreOfThisLife
    BY DEF Init, RunClaimsAreOfThisLife
  <1> QED BY <1>1, LifeStep, ClaimsTyped, PTL DEF Spec
=============================================================================
