------------------------ MODULE PublishQueue_proofs ------------------------
(***************************************************************************)
(* Proofs about the publish queue, for any boards, callers and bounds.     *)
(* The file, the rows the drain holds and the rows each caller loaded are  *)
(* snapshots of one history: what makes PublishedIsOnMain inductive is     *)
(* that any two of them agree on the board of a request, so that the       *)
(* promotion whose answer is stamped was one of the request's own board.   *)
(***************************************************************************)
EXTENDS PublishQueue, TLAPS

-----------------------------------------------------------------------------
(* Type correctness.                                                       *)

LEMMA SomeBoardTyped == SomeBoard \in Boards
  <1>1. \E b : b \in Boards
    BY PublishAssumption
  <1> QED BY <1>1 DEF SomeBoard

LEMMA NoRowsTyped == NoRows \in Rows
  BY SomeBoardTyped, PublishAssumption DEF NoRows, Rows, Request, Shas, Statuses

LEMMA PatchTyped ==
  ASSUME NEW rows \in Rows, NEW t \in Ids, NEW st \in Statuses
  PROVE  Patch(rows, t, st) \in Rows
  BY DEF Patch, Rows, Request

LEMMA SupersedesTyped ==
  ASSUME NEW rows \in Rows, NEW S
  PROVE  Supersedes(rows, S) \in Rows
  BY DEF Supersedes, Rows, Request, Statuses

LEMMA ReapedTyped ==
  ASSUME NEW rows \in Rows
  PROVE  Reaped(rows) \in Rows
  BY DEF Reaped, Rows, Request, Statuses

LEMMA StampedTyped ==
  ASSUME TypeOK, NEW t \in Ids
  PROVE  Stamped(drain.rows, t) \in Rows
  <1>1. drain.rows \in Rows /\ drain.sha \in Shas
        /\ drain.answer \in {"landed", "deferred", "failed"}
    BY DEF TypeOK, Drain
  <1>2. CASE drain.answer = "landed"
    BY <1>1, <1>2 DEF Stamped, Rows, Request, Statuses
  <1>3. CASE drain.answer = "deferred"
    BY <1>1, <1>3, PatchTyped DEF Stamped, Statuses
  <1>4. CASE drain.answer = "failed"
    BY <1>1, <1>4, PatchTyped DEF Stamped, Statuses
  <1> QED BY <1>1, <1>2, <1>3, <1>4

\* A call under way and a promotion name a request.
Addressed ==
  /\ \A c \in Callers : caller[c].pc # "idle" => caller[c].id \in Ids
  /\ drain.pc \in {"promoting", "stamping"} => drain.at \in Ids

Typed == TypeOK /\ Addressed

LEMMA NoCallTyped == NoCall \in Call
  BY SomeBoardTyped, NoRowsTyped, PublishAssumption DEF NoCall, Call, Shas

LEMMA OffTyped == Off \in Drain
  BY NoRowsTyped, PublishAssumption DEF Off, Drain, Shas

LEMMA WritingTyped ==
  ASSUME NEW skip \in SUBSET Ids
  PROVE  Writing(skip) \in Drain
  BY OffTyped DEF Writing, Drain

LEMMA NothingAt ==
  ASSUME NEW skip
  PROVE  Off.pc = "off" /\ Writing(skip).pc = "reloading"
  BY DEF Off, Writing

LEMMA TypeInit == Init => Typed
  <1> SUFFICES ASSUME Init PROVE Typed
    OBVIOUS
  <1>1. caller \in [Callers -> Call] /\ drain \in Drain /\ disk \in Rows
    BY NoCallTyped, OffTyped, NoRowsTyped DEF Init
  <1>2. TypeOK
    BY <1>1, PublishAssumption DEF Init, TypeOK, Shas
  <1> QED BY <1>2 DEF Init, Typed, Addressed, NoCall, Off

LEMMA AnswersTyped ==
  ASSUME Typed, NEW c \in Callers, NEW rows \in Rows, Answers(c, rows),
         accepted' \subseteq Ids, revoked' \subseteq Ids
  PROVE  Typed'
  <1>1. caller' \in [Callers -> Call]
    BY NoCallTyped DEF Answers, Typed, TypeOK
  <1>2. TypeOK'
    BY <1>1 DEF Answers, Typed, TypeOK
  <1> QED BY <1>2 DEF Answers, Typed, TypeOK, Addressed, NoCall

LEMMA AsksTyped ==
  ASSUME Typed, NEW c \in Callers, NEW a \in Call, a.id \in Ids, Asks(c, a)
  PROVE  Typed'
  <1>1. caller' \in [Callers -> Call]
    BY DEF Asks, Typed, TypeOK
  <1>2. asks' \in 0..MaxAsks
    BY PublishAssumption DEF Asks, Typed, TypeOK
  <1>3. TypeOK'
    BY <1>1, <1>2 DEF Asks, Typed, TypeOK, files, history
  <1> QED BY <1>3 DEF Asks, Typed, TypeOK, Addressed

LEMMA CallsTyped == Typed /\ Calls => Typed'
  <1> SUFFICES ASSUME Typed, NEW c \in Callers,
                      \/ \E b \in Boards, newer \in BOOLEAN : AsksFor(c, b, newer)
                      \/ \E t \in Ids : AsksToCancel(c, t)
                      \/ Locks(c) \/ Upgrades(c) \/ Enqueues(c) \/ Cancels(c)
               PROVE  Typed'
    BY DEF Calls
  <1>a. caller[c] \in Call /\ disk \in Rows
    BY DEF Typed, TypeOK
  <1>1. ASSUME NEW b \in Boards, NEW newer \in BOOLEAN, AsksFor(c, b, newer)
        PROVE  Typed'
    <2> DEFINE a == [NoCall EXCEPT !.pc = "asked", !.op = "enqueue",
                                   !.board = b, !.newer = newer, !.sha = stage,
                                   !.id = asks + 1]
    <2>1. asks + 1 \in Ids
      <3>1. asks \in 0..MaxAsks
        BY DEF Typed, TypeOK
      <3>2. asks < MaxAsks
        BY <1>1 DEF AsksFor, Asks
      <3> QED BY <3>1, <3>2, PublishAssumption DEF Ids
    <2>2. a \in Call /\ a.id \in Ids
      BY <2>1, NoCallTyped DEF Call, Typed, TypeOK
    <2>3. Asks(c, a)
      BY <1>1 DEF AsksFor
    <2> HIDE DEF a
    <2> QED BY <2>2, <2>3, AsksTyped
  <1>2. ASSUME NEW t \in Ids, AsksToCancel(c, t) PROVE Typed'
    <2> DEFINE a == [NoCall EXCEPT !.pc = "asked", !.id = t]
    <2>1. a \in Call /\ a.id \in Ids
      BY NoCallTyped DEF Call
    <2>2. Asks(c, a)
      BY <1>2 DEF AsksToCancel
    <2> HIDE DEF a
    <2> QED BY <2>1, <2>2, AsksTyped
  <1>3. CASE Locks(c)
    <2>1. caller' \in [Callers -> Call]
      BY <1>3 DEF Locks, Typed, TypeOK, Call
    <2>2. TypeOK'
      BY <1>3, <2>1 DEF Locks, Typed, TypeOK, files, history
    <2> QED BY <1>3, <2>2 DEF Locks, Typed, TypeOK, Addressed
  <1>4. CASE Upgrades(c)
    <2>1. PICK t \in Ids :
            /\ Answers(c, IF caller[c].newer /\ ~caller[c].rows[t].newer
                           THEN [caller[c].rows EXCEPT ![t].newer = TRUE]
                           ELSE disk)
            /\ accepted' = accepted \cup {t}
      BY <1>4 DEF Upgrades, Duplicates
    <2>2. [caller[c].rows EXCEPT ![t].newer = TRUE] \in Rows
      BY <1>a DEF Call, Rows, Request
    <2>3. (IF caller[c].newer /\ ~caller[c].rows[t].newer
           THEN [caller[c].rows EXCEPT ![t].newer = TRUE] ELSE disk) \in Rows
      BY <1>a, <2>2
    <2>4. accepted' \subseteq Ids /\ revoked' \subseteq Ids
      BY <1>4, <2>1 DEF Upgrades, Typed, TypeOK
    <2> QED BY <2>1, <2>3, <2>4, AnswersTyped
  <1>5. CASE Enqueues(c)
    <2> DEFINE a == caller[c]
               old == Supersedes(a.rows, StalePeers(a.rows, a.board, a.sha))
               new == [st |-> "waiting", board |-> a.board, sha |-> a.sha,
                       newer |-> a.newer, out |-> 0]
    <2>1. old \in Rows
      BY <1>a, SupersedesTyped DEF Call
    <2>2. new \in Request
      BY <1>a, PublishAssumption DEF Call, Request, Statuses, Shas
    <2>3. [old EXCEPT ![a.id] = new] \in Rows
      BY <2>1, <2>2 DEF Rows
    <2>4. accepted' = accepted \cup {a.id} /\ revoked' = revoked
          /\ Answers(c, [old EXCEPT ![a.id] = new])
      BY <1>5 DEF Enqueues
    <2>5. a.id \in Ids
      BY <1>5 DEF Enqueues, Typed, Addressed
    <2>6. accepted' \subseteq Ids /\ revoked' \subseteq Ids
      BY <2>4, <2>5 DEF Typed, TypeOK
    <2> HIDE DEF a, old, new
    <2> QED BY <2>3, <2>4, <2>6, AnswersTyped
  <1>6. CASE Cancels(c)
    <2> DEFINE rows == IF caller[c].rows[caller[c].id].st = "waiting"
                       THEN Patch(caller[c].rows, caller[c].id, "cancelled")
                       ELSE disk
    <2>1. Answers(c, rows) /\ caller[c].id \in Ids
      BY <1>6 DEF Cancels, Typed, Addressed
    <2>2. rows \in Rows
      BY <1>a, <2>1, PatchTyped DEF Call, Statuses
    <2>3. accepted' \subseteq Ids /\ revoked' \subseteq Ids
      BY <1>6, <2>1 DEF Cancels, Typed, TypeOK
    <2> HIDE DEF rows
    <2> QED BY <2>1, <2>2, <2>3, AnswersTyped
  <1> QED BY <1>1, <1>2, <1>3, <1>4, <1>5, <1>6

LEMMA DrainsTyped == Typed /\ Drains => Typed'
  <1> SUFFICES ASSUME Typed, Drains PROVE Typed'
    OBVIOUS
  <1> USE DEF Typed
  <1>a. drain \in Drain /\ disk \in Rows /\ drain.rows \in Rows
        /\ drain.skip \in SUBSET Ids
    BY DEF TypeOK, Drain
  <1>1. CASE DrainStarts
    <2>1. drain' \in Drain
      BY <1>1, <1>a, OffTyped DEF DrainStarts, Drain
    <2> QED BY <1>1, <2>1, OffTyped
            DEF DrainStarts, TypeOK, Addressed, files, history, Drain
  <1>2. CASE ProbesBusy \/ NoneLeft
    <2>1. drain' = Off
      BY <1>2 DEF ProbesBusy, NoneLeft
    <2>2. drain' \in Drain /\ drain'.pc = "off"
      BY <2>1, OffTyped, NothingAt
    <2> QED BY <1>2, <2>2
            DEF ProbesBusy, NoneLeft, TypeOK, Addressed, files, history
  <1>3. CASE ProbesIdle
    <2>1. drain' \in Drain
      BY <1>3, <1>a DEF ProbesIdle, Drain
    <2> QED BY <1>3, <1>a, <2>1
            DEF ProbesIdle, TypeOK, Addressed, files, history, Drain
  <1>4. CASE Reloads
    <2>1. drain' \in Drain
      BY <1>4, <1>a DEF Reloads, Drain
    <2> QED BY <1>4, <1>a, <2>1
            DEF Reloads, TypeOK, Addressed, files, history, Drain
  <1>5. ASSUME NEW moves \in BOOLEAN,
               NEW answer \in {"landed", "deferred", "failed"},
               Promoted(moves, answer)
        PROVE  Typed'
    <2>1. drain' \in Drain
      BY <1>5, <1>a DEF Promoted, Drain
    <2>2. main' \in [Boards -> Shas]
      BY <1>5 DEF Promoted, TypeOK
    <2>3. drain'.at = drain.at /\ drain.at \in Ids
      BY <1>5, <1>a DEF Promoted, Addressed, Drain
    <2> QED BY <1>5, <2>1, <2>2, <2>3 DEF Promoted, TypeOK, Addressed, history
  <1>6. CASE Stamps
    <2>1. drain.at \in Ids
      BY <1>6 DEF Stamps, Addressed
    <2>2. disk' \in Rows
      BY <1>6, <2>1, StampedTyped DEF Stamps
    <2>3. drain' \in Drain /\ drain'.pc \notin {"promoting", "stamping"}
      <3>1. drain.skip \cup {drain.at} \in SUBSET Ids
        BY <1>a, <2>1
      <3>2. CASE drain.answer = "deferred"
        BY <1>6, <3>1, <3>2, WritingTyped, NothingAt DEF Stamps
      <3>3. CASE drain.answer # "deferred"
        BY <1>6, <3>3, OffTyped, NothingAt DEF Stamps
      <3> QED BY <3>2, <3>3
    <2>4. spent' \subseteq Ids
      BY <1>6 DEF Stamps, TypeOK
    <2> QED BY <1>6, <2>2, <2>3, <2>4 DEF Stamps, TypeOK, Addressed
  <1>7. ASSUME NEW t \in Ids, Holds(t) \/ SupersedesPending(t)
        PROVE  Typed'
    <2>1. disk' \in Rows
      BY <1>7, <1>a, PatchTyped DEF Holds, SupersedesPending, Statuses
    <2>2. drain' \in Drain /\ drain'.pc \notin {"promoting", "stamping"}
      <3>1. drain.skip \cup {t} \in SUBSET Ids
        BY <1>a
      <3> QED BY <1>7, <1>a, <3>1, WritingTyped, NothingAt
              DEF Holds, SupersedesPending
    <2> QED BY <1>7, <2>1, <2>2
            DEF Holds, SupersedesPending, TypeOK, Addressed, history
  <1>8. ASSUME NEW t \in Ids, Publishes(t) PROVE Typed'
    <2>1. disk' \in Rows
      BY <1>8, <1>a, PatchTyped DEF Publishes, Statuses
    <2>2. drain' \in Drain /\ drain'.at = t
      BY <1>8, <1>a DEF Publishes, Drain, TypeOK
    <2> QED BY <1>8, <2>1, <2>2 DEF Publishes, TypeOK, Addressed
  <1> QED BY <1>1, <1>2, <1>3, <1>4, <1>5, <1>6, <1>7, <1>8
          DEF Drains, Promotes

LEMMA TypeStep == Typed /\ [Next]_vars => Typed'
  <1> SUFFICES ASSUME Typed, [Next]_vars PROVE Typed'
    OBVIOUS
  <1>1. CASE StageMoves
    <2>1. stage' \in Shas
      BY <1>1, PublishAssumption DEF StageMoves, Typed, TypeOK, Shas
    <2> QED BY <1>1, <2>1 DEF StageMoves, Typed, TypeOK, Addressed, history
  <1>2. CASE Restarts
    <2>1. disk' \in Rows /\ drain' \in Drain /\ caller' \in [Callers -> Call]
          /\ crashes' \in 0..MaxCrashes
      BY <1>2, ReapedTyped, OffTyped, NoCallTyped, PublishAssumption
         DEF Restarts, Typed, TypeOK
    <2> QED BY <1>2, <2>1
            DEF Restarts, Typed, TypeOK, Addressed, history, NoCall, Off
  <1>3. CASE UNCHANGED vars
    BY <1>3 DEF vars, files, history, Typed, TypeOK, Addressed
  <1> QED BY <1>1, <1>2, <1>3, CallsTyped, DrainsTyped DEF Next

\* File, calls and drain keep their types, for any boards, callers and bounds.
THEOREM PublishTyped == Spec => []TypeOK
  <1>1. Typed => TypeOK
    BY DEF Typed
  <1> QED BY TypeInit, TypeStep, <1>1, PTL DEF Spec
-----------------------------------------------------------------------------
(* PublishedIsOnMain, and what makes it inductive.                         *)

Snaps == {disk, drain.rows} \cup {caller[c].rows : c \in Callers}

Asking(c) == caller[c].pc # "idle" /\ caller[c].op = "enqueue"

\* Numbers no request bears yet, or whose request was not written yet.
Unborn(t) == t > asks \/ \E c \in Callers : Asking(c) /\ caller[c].id = t

OnMain(R, m) ==
  \A t \in Ids : R[t].st = "published" => R[t].out <= m[R[t].board]

Agree(R, S) ==
  \A t \in Ids : R[t].st # "none" /\ S[t].st # "none" => R[t].board = S[t].board

Told == \A R \in Snaps : OnMain(R, main)
Agreed == \A R, S \in Snaps : Agree(R, S)
Fresh == \A R \in Snaps, t \in Ids : Unborn(t) => R[t].st = "none"

OwnIds ==
  /\ \A c \in Callers : Asking(c) => caller[c].id <= asks
  /\ \A c, d \in Callers :
       Asking(c) /\ Asking(d) /\ caller[c].id = caller[d].id => c = d

Behind == drain.sha <= stage /\ \A b \in Boards : main[b] <= stage

Promotion ==
  /\ drain.pc = "promoting" => drain.rows[drain.at].st = "waiting"
  /\ drain.pc = "stamping" /\ drain.answer = "landed" =>
       \/ drain.rows[drain.at].st = "none"
       \/ drain.sha <= main[drain.rows[drain.at].board]

Inv == Typed /\ Told /\ Agreed /\ Fresh /\ OwnIds /\ Behind /\ Promotion

\* N is made from S, save for requests no snapshot had.
From(N, S) ==
  \A t \in Ids : N[t].st # "none" =>
    \/ S[t].st # "none" /\ N[t].board = S[t].board
    \/ ~Unborn(t)' /\ \A R \in Snaps : R[t].st = "none"

Grows == \A b \in Boards : main[b] <= main'[b]

\* A step that adds one set of rows, made from one there was.
LEMMA SnapStep ==
  ASSUME Inv, Typed', NEW N \in Rows, NEW S \in Snaps, From(N, S),
         OnMain(N, main'), Grows, Snaps' \subseteq Snaps \cup {N, NoRows},
         \A t \in Ids : Unborn(t)' => Unborn(t)
  PROVE  Told' /\ Agreed' /\ Fresh'
  <1>1. \A R \in Snaps : R \in Rows
    BY DEF Inv, Typed, TypeOK, Snaps, Call, Drain
  <1>2. \A t \in Ids : NoRows[t].st = "none"
    BY DEF NoRows
  <1>3. ASSUME NEW R \in Snaps PROVE OnMain(R, main')
    <2>1. OnMain(R, main)
      BY DEF Inv, Told
    <2>2. ASSUME NEW t \in Ids, R[t].st = "published"
          PROVE  R[t].out <= main'[R[t].board]
      <3>1. R[t].board \in Boards /\ R[t].out \in Shas
        BY <1>1 DEF Rows, Request
      <3>2. R[t].out <= main[R[t].board]
        BY <2>1, <2>2 DEF OnMain
      <3>3. main[R[t].board] \in Shas /\ main'[R[t].board] \in Shas
        BY <3>1 DEF Inv, Typed, TypeOK
      <3> QED BY <3>1, <3>2, <3>3, PublishAssumption DEF Grows, Shas
    <2> QED BY <2>2 DEF OnMain
  <1>4. Told'
    <2>1. OnMain(NoRows, main')
      BY <1>2 DEF OnMain
    <2>2. ASSUME NEW R \in Snaps' PROVE OnMain(R, main')
      BY <1>3, <2>1
    <2> QED BY <2>2 DEF Told
  <1>5. \A R \in Snaps : Agree(N, R) /\ Agree(R, N)
    BY DEF From, Agree, Inv, Agreed
  <1>6. Agreed'
    <2>1. ASSUME NEW R \in Snaps', NEW Q \in Snaps' PROVE Agree(R, Q)
      <3>1. CASE R = NoRows \/ Q = NoRows
        BY <1>2, <3>1 DEF Agree
      <3>2. CASE R \in Snaps \/ Q \in Snaps
        BY <1>2, <1>5, <3>2 DEF Agree, Inv, Agreed
      <3>3. CASE R = N /\ Q = N
        BY <3>3 DEF Agree
      <3> QED BY <3>1, <3>2, <3>3
    <2> QED BY <2>1 DEF Agreed, Agree
  <1>7. \A t \in Ids : Unborn(t)' => N[t].st = "none"
    BY DEF From, Inv, Fresh
  <1>8. Fresh'
    <2>1. ASSUME NEW R \in Snaps', NEW t \in Ids, Unborn(t)'
          PROVE  R[t].st = "none"
      BY <1>2, <1>7, <2>1 DEF Inv, Fresh
    <2> QED BY <2>1 DEF Fresh
  <1> QED BY <1>4, <1>6, <1>8

\* A step that adds no rows.
LEMMA SnapSame ==
  ASSUME Inv, Typed', Grows, Snaps' \subseteq Snaps \cup {NoRows},
         \A t \in Ids : Unborn(t)' => Unborn(t)
  PROVE  Told' /\ Agreed' /\ Fresh'
  <1>1. disk \in Snaps /\ disk \in Rows
    BY DEF Snaps, Inv, Typed, TypeOK
  <1>2. From(disk, disk)
    BY DEF From
  <1>3. OnMain(disk, main')
    <2>1. ASSUME NEW t \in Ids, disk[t].st = "published"
          PROVE  disk[t].out <= main'[disk[t].board]
      <3>1. disk[t].board \in Boards /\ disk[t].out \in Shas
        BY <1>1 DEF Rows, Request
      <3>2. disk[t].out <= main[disk[t].board]
        BY <1>1, <2>1 DEF OnMain, Inv, Told
      <3>3. main[disk[t].board] \in Shas /\ main'[disk[t].board] \in Shas
        BY <3>1 DEF Inv, Typed, TypeOK
      <3> QED BY <3>1, <3>2, <3>3, PublishAssumption DEF Grows, Shas
    <2> QED BY <2>1 DEF OnMain
  <1> QED BY <1>1, <1>2, <1>3, SnapStep

LEMMA SameMain ==
  ASSUME Typed, main' = main PROVE Grows
  BY PublishAssumption DEF Grows, Typed, TypeOK, Shas

LEMMA PatchKeeps ==
  ASSUME NEW rows \in Rows, NEW t \in Ids, NEW m, OnMain(rows, m),
         NEW st \in Statuses \ {"none", "published"}
  PROVE  From(Patch(rows, t, st), rows) /\ OnMain(Patch(rows, t, st), m)
  BY DEF Patch, From, OnMain, Rows, Request

LEMMA InvInit == Init => Inv
  <1> SUFFICES ASSUME Init PROVE Inv
    OBVIOUS
  <1>1. Typed
    BY TypeInit
  <1>2. \A R \in Snaps : R = NoRows
    BY DEF Init, Snaps, NoCall, Off
  <1>3. \A t \in Ids : NoRows[t].st = "none"
    BY DEF NoRows
  <1>4. Told /\ Agreed /\ Fresh
    BY <1>2, <1>3 DEF Told, OnMain, Agreed, Agree, Fresh
  <1>5. OwnIds /\ Behind /\ Promotion
    BY DEF Init, OwnIds, Asking, NoCall, Behind, Off, Promotion
  <1> QED BY <1>1, <1>4, <1>5 DEF Inv

\* A call starts.
LEMMA InvAsks ==
  ASSUME Inv, Typed', NEW c \in Callers, NEW a, Asks(c, a), a.rows = NoRows,
         a.op = "enqueue" => a.id = asks + 1
  PROVE  Inv'
  <1>1. /\ asks \in Nat /\ asks' = asks + 1 /\ disk' = disk /\ drain' = drain
        /\ main' = main /\ stage' = stage /\ caller[c].pc = "idle"
        /\ caller' = [caller EXCEPT ![c] = a]
    BY DEF Asks, Inv, Typed, TypeOK, files, history
  <1>2. \A d \in Callers : caller'[d] = IF d = c THEN a ELSE caller[d]
    BY <1>1 DEF Inv, Typed, TypeOK
  <1>3. Snaps' \subseteq Snaps \cup {NoRows}
    BY <1>1, <1>2 DEF Snaps
  <1>4. ASSUME NEW t \in Ids, Unborn(t)' PROVE Unborn(t)
    <2>1. t \in Nat
      BY DEF Ids
    <2>2. CASE t > asks'
      BY <1>1, <2>1, <2>2 DEF Unborn
    <2>3. ASSUME NEW d \in Callers, Asking(d)', caller'[d].id = t
          PROVE  Unborn(t)
      <3>1. CASE d = c
        BY <1>1, <1>2, <2>1, <2>3, <3>1 DEF Asking, Unborn
      <3>2. CASE d # c
        BY <1>2, <2>3, <3>2 DEF Asking, Unborn
      <3> QED BY <3>1, <3>2
    <2> QED BY <1>4, <2>2, <2>3 DEF Unborn
  <1>5. Told' /\ Agreed' /\ Fresh'
    BY <1>1, <1>3, <1>4, SnapSame, SameMain DEF Inv
  <1>6. OwnIds'
    <2>1. ASSUME NEW d \in Callers, Asking(d)'
          PROVE  \/ d = c /\ caller'[d].id = asks + 1
                 \/ d # c /\ Asking(d) /\ caller'[d].id = caller[d].id
                    /\ caller[d].id \in Nat /\ caller[d].id <= asks
      <3>1. CASE d = c
        BY <1>2, <2>1, <3>1 DEF Asking
      <3>2. CASE d # c
        <4>1. Asking(d) /\ caller'[d].id = caller[d].id
          BY <1>2, <2>1, <3>2 DEF Asking
        <4>2. caller[d].id \in Ids
          BY <4>1 DEF Asking, Inv, Typed, Addressed
        <4> QED BY <3>2, <4>1, <4>2 DEF Inv, OwnIds, Ids
      <3> QED BY <3>1, <3>2
    <2>2. \A d \in Callers : Asking(d)' => caller'[d].id <= asks'
      BY <1>1, <2>1
    <2>3. ASSUME NEW d \in Callers, NEW e \in Callers, Asking(d)', Asking(e)',
                 caller'[d].id = caller'[e].id
          PROVE  d = e
      BY <1>1, <2>1, <2>3 DEF Inv, OwnIds
    <2> QED BY <2>2, <2>3 DEF OwnIds, Asking
  <1>7. Behind' /\ Promotion'
    BY <1>1 DEF Inv, Behind, Promotion
  <1> QED BY <1>5, <1>6, <1>7 DEF Inv

\* A call answers with rows made from those it loaded.
LEMMA InvAnswers ==
  ASSUME Inv, Typed', NEW c \in Callers, NEW N \in Rows, NEW S \in Snaps,
         Answers(c, N), OnMain(N, main),
         \A t \in Ids : N[t].st # "none" =>
           \/ S[t].st # "none" /\ N[t].board = S[t].board
           \/ Asking(c) /\ t = caller[c].id
  PROVE  Inv'
  <1>1. /\ asks \in Nat /\ asks' = asks /\ disk' = N /\ drain' = drain
        /\ main' = main /\ stage' = stage
        /\ caller' = [caller EXCEPT ![c] = NoCall]
    BY DEF Answers, Inv, Typed, TypeOK
  <1>2. \A d \in Callers : caller'[d] = IF d = c THEN NoCall ELSE caller[d]
    BY <1>1 DEF Inv, Typed, TypeOK
  <1>3. NoCall.rows = NoRows /\ NoCall.pc = "idle"
    BY DEF NoCall
  <1>4. Snaps' \subseteq Snaps \cup {N, NoRows}
    BY <1>1, <1>2, <1>3 DEF Snaps
  <1>5. \A d \in Callers : Asking(d)' => d # c /\ Asking(d)
                                         /\ caller'[d].id = caller[d].id
    BY <1>2, <1>3 DEF Asking
  <1>6. \A t \in Ids : Unborn(t)' => Unborn(t)
    BY <1>1, <1>5 DEF Unborn
  <1>7. From(N, S)
    <2>1. ASSUME NEW t \in Ids, Asking(c), t = caller[c].id
          PROVE  ~Unborn(t)' /\ \A R \in Snaps : R[t].st = "none"
      <3>1. t <= asks /\ t \in Nat
        BY <2>1 DEF Inv, OwnIds, Ids
      <3>2. ~Unborn(t)'
        BY <1>1, <1>5, <2>1, <3>1 DEF Unborn, Inv, OwnIds
      <3>3. Unborn(t)
        BY <2>1 DEF Unborn
      <3> QED BY <3>2, <3>3 DEF Inv, Fresh
    <2> QED BY <2>1 DEF From
  <1>8. Told' /\ Agreed' /\ Fresh'
    BY <1>1, <1>4, <1>6, <1>7, SnapStep, SameMain DEF Inv
  <1>9. OwnIds'
    BY <1>1, <1>5 DEF Inv, OwnIds
  <1>10. Behind' /\ Promotion'
    BY <1>1 DEF Inv, Behind, Promotion
  <1> QED BY <1>8, <1>9, <1>10 DEF Inv

LEMMA InvCalls == Inv /\ Typed' /\ Calls => Inv'
  <1> SUFFICES ASSUME Inv, Typed', NEW c \in Callers,
                      \/ \E b \in Boards, newer \in BOOLEAN : AsksFor(c, b, newer)
                      \/ \E t \in Ids : AsksToCancel(c, t)
                      \/ Locks(c) \/ Upgrades(c) \/ Enqueues(c) \/ Cancels(c)
               PROVE  Inv'
    BY DEF Calls
  <1>a. /\ caller[c] \in Call /\ disk \in Rows /\ disk \in Snaps
        /\ caller[c].rows \in Rows /\ caller[c].rows \in Snaps
        /\ OnMain(disk, main) /\ OnMain(caller[c].rows, main)
    BY DEF Inv, Typed, TypeOK, Call, Snaps, Told
  <1>1. ASSUME NEW b \in Boards, NEW newer \in BOOLEAN, AsksFor(c, b, newer)
        PROVE  Inv'
    <2> DEFINE a == [NoCall EXCEPT !.pc = "asked", !.op = "enqueue",
                                   !.board = b, !.newer = newer, !.sha = stage,
                                   !.id = asks + 1]
    <2>1. a.rows = NoRows /\ a.id = asks + 1 /\ Asks(c, a)
      BY <1>1 DEF AsksFor, NoCall
    <2> HIDE DEF a
    <2> QED BY <2>1, InvAsks
  <1>2. ASSUME NEW t \in Ids, AsksToCancel(c, t) PROVE Inv'
    <2> DEFINE a == [NoCall EXCEPT !.pc = "asked", !.id = t]
    <2>1. a.rows = NoRows /\ a.op = "cancel" /\ Asks(c, a)
      BY <1>2 DEF AsksToCancel, NoCall
    <2> HIDE DEF a
    <2> QED BY <2>1, InvAsks
  <1>3. CASE Locks(c)
    <2>1. /\ asks' = asks /\ disk' = disk /\ drain' = drain
          /\ main' = main /\ stage' = stage /\ caller[c].pc = "asked"
          /\ caller' = [caller EXCEPT ![c].pc = "holds", ![c].rows = disk]
      BY <1>3 DEF Locks, files, history
    <2>2. \A d \in Callers :
            /\ caller'[d].id = caller[d].id /\ Asking(d)' = Asking(d)
            /\ caller'[d].rows \in {caller[d].rows, disk}
      BY <2>1 DEF Inv, Typed, TypeOK, Call, Asking
    <2>3. Snaps' \subseteq Snaps \cup {NoRows}
      BY <2>1, <2>2 DEF Snaps
    <2>4. \A t \in Ids : Unborn(t)' => Unborn(t)
      BY <2>1, <2>2 DEF Unborn
    <2>5. Told' /\ Agreed' /\ Fresh'
      BY <2>1, <2>3, <2>4, SnapSame, SameMain DEF Inv
    <2>6. OwnIds'
      BY <2>1, <2>2 DEF Inv, OwnIds
    <2>7. Behind' /\ Promotion'
      BY <2>1 DEF Inv, Behind, Promotion
    <2> QED BY <2>5, <2>6, <2>7 DEF Inv
  <1>4. CASE Upgrades(c)
    <2>1. PICK t \in Ids :
            Answers(c, IF caller[c].newer /\ ~caller[c].rows[t].newer
                       THEN [caller[c].rows EXCEPT ![t].newer = TRUE]
                       ELSE disk)
      BY <1>4 DEF Upgrades, Duplicates
    <2> DEFINE N == [caller[c].rows EXCEPT ![t].newer = TRUE]
    <2>2. /\ N \in Rows /\ OnMain(N, main)
          /\ \A u \in Ids : /\ N[u].st = caller[c].rows[u].st
                            /\ N[u].board = caller[c].rows[u].board
      BY <1>a DEF Rows, Request, OnMain
    <2> HIDE DEF N
    <2>3. CASE Answers(c, N)
      BY <1>a, <2>2, <2>3, InvAnswers
    <2>4. CASE Answers(c, disk)
      BY <1>a, <2>4, InvAnswers
    <2> QED BY <2>1, <2>3, <2>4 DEF N
  <1>5. CASE Enqueues(c)
    <2> DEFINE a == caller[c]
               S == StalePeers(a.rows, a.board, a.sha)
               old == Supersedes(a.rows, S)
               new == [st |-> "waiting", board |-> a.board, sha |-> a.sha,
                       newer |-> a.newer, out |-> 0]
               N == [old EXCEPT ![a.id] = new]
    <2>1. Answers(c, N) /\ Asking(c) /\ a.id \in Ids
      BY <1>5 DEF Enqueues, Asking, Inv, Typed, Addressed
    <2>2. N \in Rows
      BY <2>1 DEF Answers, Typed, TypeOK
    <2>3. \A t \in Ids : /\ t # a.id => N[t] = old[t]
                         /\ N[a.id].st = "waiting"
      BY <1>a, <2>1 DEF Supersedes
    <2>4. \A t \in Ids : /\ old[t].board = a.rows[t].board
                         /\ old[t].out = a.rows[t].out
                         /\ old[t].st \in {a.rows[t].st, "superseded"}
                         /\ t \notin S => old[t] = a.rows[t]
      BY <1>a DEF Supersedes, Rows, Request
    <2>5. \A t \in S : a.rows[t].st = "waiting"
      BY DEF StalePeers
    <2> HIDE DEF S, old, new, N
    <2>6. OnMain(N, main)
      BY <1>a, <2>1, <2>3, <2>4 DEF OnMain
    <2>7. \A t \in Ids : N[t].st # "none" =>
            \/ a.rows[t].st # "none" /\ N[t].board = a.rows[t].board
            \/ Asking(c) /\ t = a.id
      BY <2>1, <2>3, <2>4, <2>5
    <2> QED BY <1>a, <2>1, <2>2, <2>6, <2>7, InvAnswers
  <1>6. CASE Cancels(c)
    <2> DEFINE N == Patch(caller[c].rows, caller[c].id, "cancelled")
    <2>1. caller[c].id \in Ids /\ (Answers(c, N) \/ Answers(c, disk))
      BY <1>6 DEF Cancels, Inv, Typed, Addressed
    <2>2. N \in Rows
      BY <1>a, <2>1, PatchTyped DEF Statuses
    <2>3. /\ OnMain(N, main)
          /\ \A t \in Ids : N[t].st # "none" =>
               caller[c].rows[t].st # "none" /\ N[t].board = caller[c].rows[t].board
      BY <1>a DEF Patch, OnMain, Rows, Request
    <2> HIDE DEF N
    <2>4. CASE Answers(c, N)
      BY <1>a, <2>2, <2>3, <2>4, InvAnswers
    <2>5. CASE Answers(c, disk)
      BY <1>a, <2>5, InvAnswers
    <2> QED BY <2>1, <2>4, <2>5
  <1> QED BY <1>1, <1>2, <1>3, <1>4, <1>5, <1>6

\* The drain changes nothing of the calls.
LEMMA DrainSame ==
  ASSUME Inv, asks' = asks, caller' = caller
  PROVE  OwnIds' /\ \A t \in Ids : Unborn(t)' => Unborn(t)
  BY DEF Inv, OwnIds, Asking, Unborn

\* A step of the drain that writes rows made from those it holds.
LEMMA DrainWrites ==
  ASSUME Inv, Typed', NEW N \in Rows, From(N, drain.rows), OnMain(N, main),
         asks' = asks, caller' = caller, main' = main, disk' = N,
         drain'.rows \in {NoRows, drain.rows}
  PROVE  Told' /\ Agreed' /\ Fresh' /\ OwnIds'
  <1>1. Snaps' \subseteq Snaps \cup {N, NoRows} /\ drain.rows \in Snaps
    BY DEF Snaps
  <1> QED BY <1>1, SnapStep, SameMain, DrainSame DEF Inv

\* And one that writes none.
LEMMA DrainReads ==
  ASSUME Inv, Typed', Grows, asks' = asks, caller' = caller, disk' = disk,
         drain'.rows \in {NoRows, drain.rows, disk}
  PROVE  Told' /\ Agreed' /\ Fresh' /\ OwnIds'
  <1>1. Snaps' \subseteq Snaps \cup {NoRows}
    BY DEF Snaps
  <1> QED BY <1>1, SnapSame, DrainSame DEF Inv

LEMMA OffIs ==
  ASSUME NEW skip
  PROVE  /\ Off.pc = "off" /\ Off.rows = NoRows /\ Off.sha = 0
         /\ Writing(skip).pc = "reloading" /\ Writing(skip).rows = NoRows
         /\ Writing(skip).sha = 0
  BY DEF Off, Writing

LEMMA InvDrains == Inv /\ Typed' /\ Drains => Inv'
  <1> SUFFICES ASSUME Inv, Typed', Drains PROVE Inv'
    OBVIOUS
  <1>a. /\ drain \in Drain /\ drain.rows \in Rows /\ disk \in Rows
        /\ OnMain(drain.rows, main) /\ OnMain(disk, main)
        /\ stage \in Nat /\ main \in [Boards -> Shas] /\ drain.sha \in Nat
        /\ drain.rows \in Snaps /\ disk \in Snaps
    BY PublishAssumption DEF Inv, Typed, TypeOK, Drain, Snaps, Told, Shas
  <1>b. From(drain.rows, drain.rows)
    BY DEF From
  <1>1. CASE DrainStarts
    <2>1. /\ asks' = asks /\ caller' = caller /\ disk' = disk /\ main' = main
          /\ stage' = stage
          /\ drain' = [Off EXCEPT !.pc = "probing", !.rows = disk]
      BY <1>1 DEF DrainStarts, files, history
    <2>2. drain'.rows = disk /\ drain'.pc = "probing" /\ drain'.sha = 0
      BY <2>1 DEF Off
    <2>3. Told' /\ Agreed' /\ Fresh' /\ OwnIds'
      BY <2>1, <2>2, DrainReads, SameMain DEF Inv
    <2>4. Behind' /\ Promotion'
      BY <1>a, <2>1, <2>2 DEF Inv, Behind, Promotion
    <2> QED BY <2>3, <2>4 DEF Inv
  <1>2. CASE ProbesBusy \/ NoneLeft
    <2>1. /\ asks' = asks /\ caller' = caller /\ disk' = disk /\ main' = main
          /\ stage' = stage /\ drain' = Off
      BY <1>2 DEF ProbesBusy, NoneLeft, files, history
    <2>2. drain'.rows = NoRows /\ drain'.pc = "off" /\ drain'.sha = 0
      BY <2>1, OffIs
    <2>3. Told' /\ Agreed' /\ Fresh' /\ OwnIds'
      BY <2>1, <2>2, DrainReads, SameMain DEF Inv
    <2>4. Behind' /\ Promotion'
      BY <1>a, <2>1, <2>2 DEF Inv, Behind, Promotion
    <2> QED BY <2>3, <2>4 DEF Inv
  <1>3. CASE ProbesIdle \/ Reloads
    <2>1. /\ asks' = asks /\ caller' = caller /\ disk' = disk /\ main' = main
          /\ stage' = stage
          /\ \/ drain' = [drain EXCEPT !.pc = "picking"]
             \/ drain' = [drain EXCEPT !.pc = "picking", !.rows = disk]
      BY <1>3 DEF ProbesIdle, Reloads, files, history
    <2>2. /\ drain'.rows \in {drain.rows, disk} /\ drain'.pc = "picking"
          /\ drain'.sha = drain.sha
      BY <1>a, <2>1 DEF Drain
    <2>3. Told' /\ Agreed' /\ Fresh' /\ OwnIds'
      BY <2>1, <2>2, DrainReads, SameMain DEF Inv
    <2>4. Behind' /\ Promotion'
      BY <2>1, <2>2 DEF Inv, Behind, Promotion
    <2> QED BY <2>3, <2>4 DEF Inv
  <1>4. ASSUME NEW moves \in BOOLEAN,
               NEW answer \in {"landed", "deferred", "failed"},
               Promoted(moves, answer)
        PROVE  Inv'
    <2> DEFINE b == drain.rows[drain.at].board
    <2>1. /\ asks' = asks /\ caller' = caller /\ disk' = disk /\ stage' = stage
          /\ drain' = [drain EXCEPT !.pc = "stamping", !.rows = disk,
                                    !.answer = answer]
          /\ main' = IF moves THEN [main EXCEPT ![b] = stage] ELSE main
          /\ drain.pc = "promoting" /\ (answer = "landed" => moves)
      BY <1>4 DEF Promoted, history
    <2>2. /\ drain'.rows = disk /\ drain'.pc = "stamping"
          /\ drain'.sha = drain.sha /\ drain'.at = drain.at
          /\ drain'.answer = answer
      BY <1>a, <2>1 DEF Drain
    <2>3. drain.at \in Ids /\ b \in Boards
      BY <1>a, <2>1 DEF Inv, Typed, Addressed, Rows, Request
    <2>4. \A c \in Boards : /\ main[c] \in Nat /\ main'[c] \in {main[c], stage}
                            /\ main[c] <= stage
      BY <1>a, <2>1, PublishAssumption DEF Inv, Behind, Shas
    <2>5. Grows
      BY <1>a, <2>4 DEF Grows
    <2>6. Told' /\ Agreed' /\ Fresh' /\ OwnIds'
      BY <2>1, <2>2, <2>5, DrainReads
    <2>7. Behind'
      BY <1>a, <2>1, <2>2, <2>4 DEF Inv, Behind
    <2>8. Promotion'
      <3>1. SUFFICES ASSUME answer = "landed", disk[drain.at].st # "none"
                     PROVE  drain.sha <= main'[disk[drain.at].board]
        BY <2>1, <2>2 DEF Promotion
      <3>2. drain.rows[drain.at].st # "none"
        BY <2>1 DEF Inv, Promotion
      <3>3. disk[drain.at].board = b
        BY <1>a, <2>3, <3>1, <3>2 DEF Inv, Agreed, Agree
      <3>4. main'[b] = stage
        BY <1>a, <2>1, <2>3, <3>1
      <3> HIDE DEF b
      <3> QED BY <3>3, <3>4 DEF Inv, Behind
    <2> QED BY <2>6, <2>7, <2>8 DEF Inv
  <1>5. CASE Stamps
    <2> DEFINE N == Stamped(drain.rows, drain.at)
    <2>1. /\ asks' = asks /\ caller' = caller /\ disk' = N /\ main' = main
          /\ stage' = stage /\ drain.pc = "stamping" /\ drain.at \in Ids
          /\ drain' = Writing(drain.skip \cup {drain.at}) \/ drain' = Off
      BY <1>5 DEF Stamps, Inv, Typed, Addressed
    <2>2. N \in Rows
      BY <2>1, StampedTyped DEF Inv, Typed
    <2>3. /\ drain'.rows = NoRows /\ drain'.sha = 0
          /\ drain'.pc \in {"reloading", "off"}
      BY <2>1, OffIs
    <2>4. From(N, drain.rows) /\ OnMain(N, main)
      <3>1. CASE drain.answer = "landed"
        <4>1. N = IF drain.rows[drain.at].st = "none" THEN drain.rows
                  ELSE [drain.rows EXCEPT ![drain.at].st = "published",
                                          ![drain.at].out = drain.sha]
          BY <3>1 DEF Stamped
        <4>2. CASE drain.rows[drain.at].st = "none"
          BY <1>a, <1>b, <4>1, <4>2
        <4>3. CASE drain.rows[drain.at].st # "none"
          <5>1. drain.sha <= main[drain.rows[drain.at].board]
            BY <2>1, <3>1, <4>3 DEF Inv, Promotion
          <5>2. \A t \in Ids :
                  /\ N[t].board = drain.rows[t].board
                  /\ t # drain.at => N[t] = drain.rows[t]
                  /\ N[drain.at].out = drain.sha
            BY <1>a, <2>1, <4>1, <4>3 DEF Rows, Request
          <5> HIDE DEF N
          <5>3. From(N, drain.rows)
            BY <4>3, <5>2 DEF From
          <5>4. OnMain(N, main)
            BY <1>a, <2>1, <5>1, <5>2 DEF OnMain
          <5> QED BY <5>3, <5>4
        <4> QED BY <4>2, <4>3
      <3>2. CASE drain.answer = "deferred"
        <4>1. N = Patch(drain.rows, drain.at, "waiting")
          BY <3>2 DEF Stamped
        <4> QED BY <1>a, <2>1, <4>1, PatchKeeps DEF Statuses
      <3>3. CASE drain.answer = "failed"
        <4>1. N = Patch(drain.rows, drain.at, "failed")
          BY <3>3 DEF Stamped
        <4> QED BY <1>a, <2>1, <4>1, PatchKeeps DEF Statuses
      <3> QED BY <1>a, <3>1, <3>2, <3>3 DEF Drain
    <2> HIDE DEF N
    <2>5. Told' /\ Agreed' /\ Fresh' /\ OwnIds'
      BY <2>1, <2>2, <2>3, <2>4, DrainWrites
    <2>6. Behind' /\ Promotion'
      BY <1>a, <2>1, <2>3 DEF Inv, Behind, Promotion
    <2> QED BY <2>5, <2>6 DEF Inv
  <1>6. ASSUME NEW t \in Ids, Holds(t) PROVE Inv'
    <2>1. /\ asks' = asks /\ caller' = caller /\ disk' = drain.rows
          /\ main' = main /\ stage' = stage
          /\ drain' = Writing(drain.skip \cup {t})
      BY <1>6 DEF Holds, history
    <2>2. drain'.rows = NoRows /\ drain'.pc = "reloading" /\ drain'.sha = 0
      BY <2>1, OffIs
    <2>3. Told' /\ Agreed' /\ Fresh' /\ OwnIds'
      BY <1>a, <1>b, <2>1, <2>2, DrainWrites
    <2>4. Behind' /\ Promotion'
      BY <1>a, <2>1, <2>2 DEF Inv, Behind, Promotion
    <2> QED BY <2>3, <2>4 DEF Inv
  <1>7. ASSUME NEW t \in Ids, SupersedesPending(t) PROVE Inv'
    <2> DEFINE N == Patch(drain.rows, t, "superseded")
    <2>1. /\ asks' = asks /\ caller' = caller /\ disk' = N
          /\ main' = main /\ stage' = stage /\ drain' = Writing(drain.skip)
      BY <1>7 DEF SupersedesPending, history
    <2>2. drain'.rows = NoRows /\ drain'.pc = "reloading" /\ drain'.sha = 0
      BY <2>1, OffIs
    <2>3. N \in Rows /\ From(N, drain.rows) /\ OnMain(N, main)
      BY <1>a, PatchTyped, PatchKeeps DEF Statuses
    <2> HIDE DEF N
    <2>4. Told' /\ Agreed' /\ Fresh' /\ OwnIds'
      BY <2>1, <2>2, <2>3, DrainWrites
    <2>5. Behind' /\ Promotion'
      BY <1>a, <2>1, <2>2 DEF Inv, Behind, Promotion
    <2> QED BY <2>4, <2>5 DEF Inv
  <1>8. ASSUME NEW t \in Ids, Publishes(t) PROVE Inv'
    <2> DEFINE N == Patch(drain.rows, t, "publishing")
    <2>1. /\ asks' = asks /\ caller' = caller /\ disk' = N
          /\ main' = main /\ stage' = stage
          /\ drain' = [drain EXCEPT !.pc = "promoting", !.at = t, !.sha = stage]
      BY <1>8 DEF Publishes
    <2>2. /\ drain'.rows = drain.rows /\ drain'.pc = "promoting"
          /\ drain'.sha = stage /\ drain'.at = t
      BY <1>a, <2>1 DEF Drain
    <2>3. N \in Rows /\ From(N, drain.rows) /\ OnMain(N, main)
      BY <1>a, PatchTyped, PatchKeeps DEF Statuses
    <2> HIDE DEF N
    <2>4. Told' /\ Agreed' /\ Fresh' /\ OwnIds'
      BY <2>1, <2>2, <2>3, DrainWrites
    <2>5. drain.rows[t].st = "waiting"
      BY <1>8 DEF Publishes, Pending, Waiting
    <2>6. Behind' /\ Promotion'
      BY <1>a, <2>1, <2>2, <2>5 DEF Inv, Behind, Promotion
    <2> QED BY <2>4, <2>6 DEF Inv
  <1> QED BY <1>1, <1>2, <1>3, <1>4, <1>5, <1>6, <1>7, <1>8
          DEF Drains, Promotes

LEMMA InvStep == Inv /\ [Next]_vars => Inv'
  <1> SUFFICES ASSUME Inv, [Next]_vars PROVE Inv'
    OBVIOUS
  <1>a. Typed'
    BY TypeStep DEF Inv
  <1>1. CASE StageMoves
    <2>1. /\ asks' = asks /\ caller' = caller /\ disk' = disk /\ main' = main
          /\ stage' = stage + 1 /\ drain' = drain
      BY <1>1 DEF StageMoves, history
    <2>2. Told' /\ Agreed' /\ Fresh' /\ OwnIds'
      BY <1>a, <2>1, DrainReads, SameMain DEF Inv
    <2>3. /\ stage \in Nat /\ drain.sha \in Nat
          /\ \A b \in Boards : main[b] \in Nat
      BY PublishAssumption DEF Inv, Typed, TypeOK, Drain, Shas
    <2>4. Behind'
      BY <2>1, <2>3 DEF Inv, Behind
    <2> QED BY <1>a, <2>1, <2>2, <2>4 DEF Inv, Promotion
  <1>2. CASE Restarts
    <2>1. /\ asks' = asks /\ disk' = Reaped(disk) /\ main' = main
          /\ stage' = stage /\ drain' = Off
          /\ caller' = [c \in Callers |-> NoCall]
      BY <1>2 DEF Restarts, history
    <2>2. /\ disk \in Rows /\ Reaped(disk) \in Rows /\ disk \in Snaps
          /\ OnMain(disk, main) /\ stage \in Nat
      BY ReapedTyped, PublishAssumption
         DEF Inv, Typed, TypeOK, Snaps, Told, Shas
    <2>3. From(Reaped(disk), disk) /\ OnMain(Reaped(disk), main)
      BY <2>2 DEF Reaped, From, OnMain, Rows, Request
    <2>4. \A c \in Callers : caller'[c].rows = NoRows /\ ~Asking(c)'
      BY <2>1 DEF NoCall, Asking
    <2>5. Snaps' \subseteq Snaps \cup {Reaped(disk), NoRows}
      BY <2>1, <2>4, OffIs DEF Snaps
    <2>6. \A t \in Ids : Unborn(t)' => Unborn(t)
      BY <2>1, <2>4 DEF Unborn
    <2>7. Told' /\ Agreed' /\ Fresh'
      BY <1>a, <2>1, <2>2, <2>3, <2>5, <2>6, SnapStep, SameMain DEF Inv
    <2>8. OwnIds' /\ Behind' /\ Promotion'
      BY <2>1, <2>2, <2>4, OffIs DEF OwnIds, Behind, Promotion, Inv
    <2> QED BY <1>a, <2>7, <2>8 DEF Inv
  <1>3. CASE UNCHANGED vars
    BY <1>3 DEF vars, files, history, Inv, Typed, TypeOK, Addressed, Told,
                Agreed, Fresh, Snaps, Unborn, Asking, OwnIds, Behind, Promotion
  <1> QED BY <1>a, <1>1, <1>2, <1>3, InvCalls, InvDrains DEF Next

\* What reads `published` is on main, whatever overlaps and whenever the
\* service restarts: stamps come from the promotion's own word.
THEOREM PublishedLanded == Spec => []PublishedIsOnMain
  <1>1. Inv => PublishedIsOnMain
    BY DEF Inv, Told, OnMain, Snaps, PublishedIsOnMain
  <1> QED BY InvInit, InvStep, <1>1, PTL DEF Spec

-----------------------------------------------------------------------------
(* CallsAreKept and NeverAgain: as long as calls and drains take turns, the *)
(* file is what its one writer holds, up to the mark it has just made.      *)

Holding(c) == caller[c].pc = "holds"

OneHolder == \A c, d \in Callers : Holding(c) /\ Holding(d) => c = d

TakeTurns ==
  \A c \in Callers : Holding(c) => drain.pc = "off" /\ caller[c].rows = disk

DrainKnows ==
  /\ drain.pc \in {"probing", "picking", "stamping"} => drain.rows = disk
  /\ drain.pc = "promoting" => disk = Patch(drain.rows, drain.at, "publishing")
  /\ drain.pc = "stamping" => disk[drain.at].st = "publishing"

Kept ==
  /\ \A t \in accepted : disk[t].st # "none"
  /\ \A t \in revoked : disk[t].st = "cancelled"
  /\ \A t \in spent : disk[t].st \notin {"none", "waiting"}

Serial == OneHolder /\ (overlap \/ (TakeTurns /\ DrainKnows /\ Kept))

LEMMA SerialInit == Init => Serial
  BY DEF Init, Serial, OneHolder, Holding, NoCall, Off, TakeTurns, DrainKnows,
         Kept

\* N resolves nothing anew of what is in force: a step that writes it keeps
\* what was accepted listed and what was cancelled or spent as it is.
Follows(N) ==
  \A t \in Ids :
    /\ disk[t].st # "none" => N[t].st # "none"
    /\ disk[t].st = "cancelled" => N[t].st = "cancelled"
    /\ disk[t].st \notin {"none", "waiting"} => N[t].st \notin {"none", "waiting"}

LEMMA StillKept ==
  ASSUME Typed, Kept, NEW N, Follows(N), disk' = N,
         \A t \in accepted' \ accepted : N[t].st # "none",
         \A t \in revoked' \ revoked : N[t].st = "cancelled",
         \A t \in spent' \ spent : N[t].st \notin {"none", "waiting"}
  PROVE  Kept'
  BY DEF Typed, TypeOK, Kept, Follows

LEMMA SerialAsks ==
  ASSUME Serial, Typed, NEW c \in Callers, NEW a, a.pc = "asked", Asks(c, a)
  PROVE  Serial'
  <1>1. /\ overlap' = overlap /\ disk' = disk /\ drain' = drain
        /\ accepted' = accepted /\ revoked' = revoked /\ spent' = spent
        /\ caller' = [caller EXCEPT ![c] = a]
    BY DEF Asks, files, history
  <1>2. \A d \in Callers : Holding(d)' => Holding(d) /\ caller'[d] = caller[d]
    BY <1>1 DEF Typed, TypeOK, Holding
  <1>3. OneHolder'
    BY <1>2 DEF Serial, OneHolder
  <1>4. CASE overlap
    BY <1>1, <1>3, <1>4 DEF Serial
  <1>5. CASE ~overlap
    <2>1. TakeTurns'
      BY <1>1, <1>2, <1>5 DEF Serial, TakeTurns
    <2>2. DrainKnows' /\ Kept'
      BY <1>1, <1>5 DEF Serial, DrainKnows, Kept
    <2> QED BY <1>3, <2>1, <2>2 DEF Serial
  <1> QED BY <1>4, <1>5

LEMMA SerialAnswers ==
  ASSUME Serial, Typed, NEW c \in Callers, NEW N, Holding(c), Answers(c, N),
         overlap \/ /\ Follows(N)
                    /\ \A t \in accepted' \ accepted : N[t].st # "none"
                    /\ \A t \in revoked' \ revoked : N[t].st = "cancelled"
  PROVE  Serial'
  <1>1. /\ overlap' = overlap /\ disk' = N /\ drain' = drain /\ spent' = spent
        /\ caller' = [caller EXCEPT ![c] = NoCall]
    BY DEF Answers
  <1>2. \A d \in Callers : Holding(d)' => Holding(d) /\ d # c
    BY <1>1 DEF Typed, TypeOK, Holding, NoCall
  <1>3. \A d \in Callers : ~Holding(d)'
    BY <1>2 DEF Serial, OneHolder
  <1>4. OneHolder' /\ TakeTurns'
    BY <1>3 DEF OneHolder, TakeTurns
  <1>5. CASE ~overlap
    <2>1. DrainKnows'
      BY <1>1, <1>5 DEF Serial, TakeTurns, DrainKnows
    <2>2. Kept'
      BY <1>1, <1>5, StillKept DEF Serial
    <2> QED BY <1>4, <2>1, <2>2 DEF Serial
  <1> QED BY <1>1, <1>4, <1>5 DEF Serial

LEMMA SerialCalls == Serial /\ Inv /\ Calls => Serial'
  <1> SUFFICES ASSUME Serial, Inv, NEW c \in Callers,
                      \/ \E b \in Boards, newer \in BOOLEAN : AsksFor(c, b, newer)
                      \/ \E t \in Ids : AsksToCancel(c, t)
                      \/ Locks(c) \/ Upgrades(c) \/ Enqueues(c) \/ Cancels(c)
               PROVE  Serial'
    BY DEF Calls
  <1>a. /\ Typed /\ caller[c] \in Call /\ disk \in Rows /\ disk \in Snaps
        /\ caller[c].rows \in Rows
    BY DEF Inv, Typed, TypeOK, Call, Snaps
  <1>b. Holding(c) => overlap \/ caller[c].rows = disk
    BY DEF Serial, TakeTurns
  <1>1. ASSUME NEW b \in Boards, NEW newer \in BOOLEAN, AsksFor(c, b, newer)
        PROVE  Serial'
    <2> DEFINE a == [NoCall EXCEPT !.pc = "asked", !.op = "enqueue",
                                   !.board = b, !.newer = newer, !.sha = stage,
                                   !.id = asks + 1]
    <2>1. a.pc = "asked" /\ Asks(c, a)
      BY <1>1 DEF AsksFor, NoCall
    <2> HIDE DEF a
    <2> QED BY <1>a, <2>1, SerialAsks
  <1>2. ASSUME NEW t \in Ids, AsksToCancel(c, t) PROVE Serial'
    <2> DEFINE a == [NoCall EXCEPT !.pc = "asked", !.id = t]
    <2>1. a.pc = "asked" /\ Asks(c, a)
      BY <1>2 DEF AsksToCancel, NoCall
    <2> HIDE DEF a
    <2> QED BY <1>a, <2>1, SerialAsks
  <1>3. CASE Locks(c)
    <2>1. /\ overlap' = overlap /\ disk' = disk /\ drain' = drain
          /\ accepted' = accepted /\ revoked' = revoked /\ spent' = spent
          /\ caller' = [caller EXCEPT ![c].pc = "holds", ![c].rows = disk]
          /\ \A d \in Callers : ~Holding(d)
          /\ overlap \/ drain.pc = "off"
      BY <1>3 DEF Locks, files, history, Holding
    <2>2. \A d \in Callers : Holding(d)' => d = c
      BY <2>1 DEF Holding, Typed, TypeOK, Inv
    <2>3. caller'[c].rows = disk
      BY <1>a, <2>1 DEF Inv, Typed, TypeOK, Call
    <2> QED BY <2>1, <2>2, <2>3
            DEF Serial, OneHolder, TakeTurns, DrainKnows, Kept
  <1>4. CASE Upgrades(c)
    <2>1. Holding(c) /\ revoked' = revoked
      BY <1>4 DEF Upgrades, Holding
    <2>2. PICK t \in Duplicates(caller[c].rows, caller[c].board, caller[c].sha) :
            /\ Answers(c, IF caller[c].newer /\ ~caller[c].rows[t].newer
                          THEN [caller[c].rows EXCEPT ![t].newer = TRUE]
                          ELSE disk)
            /\ accepted' = accepted \cup {t}
      BY <1>4 DEF Upgrades
    <2>3. t \in Ids /\ caller[c].rows[t].st # "none"
      BY <2>2 DEF Duplicates, Open
    <2> DEFINE N == [caller[c].rows EXCEPT ![t].newer = TRUE]
    <2>4. \A u \in Ids : N[u].st = caller[c].rows[u].st
      BY <1>a, <2>3 DEF Rows, Request
    <2> HIDE DEF N
    <2>5. CASE Answers(c, N)
      BY <1>a, <1>b, <2>1, <2>2, <2>3, <2>4, <2>5, SerialAnswers DEF Follows
    <2>6. CASE Answers(c, disk)
      BY <1>a, <1>b, <2>1, <2>2, <2>3, <2>6, SerialAnswers DEF Follows
    <2> QED BY <2>2, <2>5, <2>6 DEF N
  <1>5. CASE Enqueues(c)
    <2> DEFINE a == caller[c]
               S == StalePeers(a.rows, a.board, a.sha)
               old == Supersedes(a.rows, S)
               new == [st |-> "waiting", board |-> a.board, sha |-> a.sha,
                       newer |-> a.newer, out |-> 0]
               N == [old EXCEPT ![a.id] = new]
    <2>1. /\ Answers(c, N) /\ Asking(c) /\ Holding(c) /\ a.id \in Ids
          /\ accepted' = accepted \cup {a.id} /\ revoked' = revoked
      BY <1>5 DEF Enqueues, Asking, Holding, Inv, Typed, Addressed
    <2>2. disk[a.id].st = "none"
      BY <1>a, <2>1 DEF Inv, Fresh, Unborn
    <2>3. \A t \in Ids : /\ t # a.id => N[t] = old[t]
                         /\ N[a.id].st = "waiting"
      BY <1>a, <2>1 DEF Supersedes
    <2>4. \A t \in Ids :
            /\ a.rows[t].st # "waiting" => old[t].st = a.rows[t].st
            /\ a.rows[t].st = "waiting" => old[t].st \in {"waiting", "superseded"}
      BY <1>a DEF Supersedes, Rows, Request, StalePeers
    <2> HIDE DEF S, old, new, N
    <2>5. a.rows = disk => Follows(N)
      BY <2>1, <2>2, <2>3, <2>4 DEF Follows
    <2> QED BY <1>a, <1>b, <2>1, <2>3, <2>5, SerialAnswers
  <1>6. CASE Cancels(c)
    <2> DEFINE N == Patch(caller[c].rows, caller[c].id, "cancelled")
    <2>1. caller[c].id \in Ids /\ Holding(c) /\ accepted' = accepted
      BY <1>6 DEF Cancels, Holding, Inv, Typed, Addressed
    <2>2. CASE caller[c].rows[caller[c].id].st = "waiting"
      <3>1. Answers(c, N) /\ revoked' = revoked \cup {caller[c].id}
        BY <1>6, <2>2 DEF Cancels
      <3>2. /\ N[caller[c].id].st = "cancelled"
            /\ \A t \in Ids : t # caller[c].id => N[t] = caller[c].rows[t]
        BY <1>a, <2>1, <2>2 DEF Patch, Rows, Request
      <3> HIDE DEF N
      <3>3. caller[c].rows = disk => Follows(N)
        BY <2>1, <2>2, <3>2 DEF Follows
      <3> QED BY <1>a, <1>b, <2>1, <3>1, <3>2, <3>3, SerialAnswers
    <2>3. CASE caller[c].rows[caller[c].id].st # "waiting"
      <3>1. Answers(c, disk) /\ revoked' = revoked
        BY <1>6, <2>3 DEF Cancels
      <3> QED BY <1>a, <2>1, <3>1, SerialAnswers DEF Follows
    <2> QED BY <2>2, <2>3
  <1> QED BY <1>1, <1>2, <1>3, <1>4, <1>5, <1>6

\* The drain at work: nobody holds the lock, and what it writes is Kept.
LEMMA SerialDrain ==
  ASSUME Serial, Typed, overlap' = overlap, caller' = caller,
         overlap \/ drain.pc # "off",
         overlap \/ (DrainKnows' /\ Kept')
  PROVE  Serial'
  <1>1. OneHolder'
    BY DEF Serial, OneHolder, Holding
  <1>2. CASE overlap
    BY <1>1, <1>2 DEF Serial
  <1>3. CASE ~overlap
    <2>1. TakeTurns'
      BY <1>3 DEF Serial, TakeTurns, Holding
    <2> QED BY <1>1, <1>3, <2>1 DEF Serial
  <1> QED BY <1>2, <1>3

LEMMA SerialDrains == Serial /\ Inv /\ Drains => Serial'
  <1> SUFFICES ASSUME Serial, Inv, Drains PROVE Serial'
    OBVIOUS
  <1>a. /\ Typed /\ drain \in Drain /\ drain.rows \in Rows /\ disk \in Rows
        /\ overlap' = overlap /\ caller' = caller
    BY DEF Inv, Typed, TypeOK, Drain, Drains, DrainStarts, ProbesBusy,
           ProbesIdle, NoneLeft, Reloads, Promotes, Promoted, Stamps, Holds,
           SupersedesPending, Publishes
  <1>b. CASE overlap
    BY <1>a, <1>b, SerialDrain
  <1>c. SUFFICES ASSUME ~overlap PROVE Serial'
    BY <1>b
  <1>d. TakeTurns /\ DrainKnows /\ Kept
    BY <1>c DEF Serial
  <1>1. CASE DrainStarts
    <2>1. /\ disk' = disk /\ accepted' = accepted /\ revoked' = revoked
          /\ spent' = spent /\ \A c \in Callers : ~Holding(c)
          /\ drain' = [Off EXCEPT !.pc = "probing", !.rows = disk]
      BY <1>1, <1>c DEF DrainStarts, files, history, Holding
    <2>2. drain'.rows = disk /\ drain'.pc = "probing"
      BY <2>1 DEF Off
    <2>3. OneHolder' /\ TakeTurns'
      BY <1>a, <2>1 DEF OneHolder, TakeTurns, Holding
    <2>4. DrainKnows' /\ Kept'
      BY <1>d, <2>1, <2>2 DEF DrainKnows, Kept
    <2> QED BY <2>3, <2>4 DEF Serial
  <1>2. CASE ProbesBusy \/ NoneLeft
    <2>1. /\ disk' = disk /\ accepted' = accepted /\ revoked' = revoked
          /\ spent' = spent /\ drain' = Off /\ drain.pc # "off"
      BY <1>2 DEF ProbesBusy, NoneLeft, files, history
    <2>2. DrainKnows' /\ Kept'
      BY <1>d, <2>1, OffIs DEF DrainKnows, Kept
    <2> QED BY <1>a, <2>1, <2>2, SerialDrain
  <1>3. CASE ProbesIdle \/ Reloads
    <2>1. /\ disk' = disk /\ accepted' = accepted /\ revoked' = revoked
          /\ spent' = spent /\ drain.pc # "off"
          /\ \/ /\ drain.pc = "probing"
                /\ drain' = [drain EXCEPT !.pc = "picking"]
             \/ drain' = [drain EXCEPT !.pc = "picking", !.rows = disk]
      BY <1>3 DEF ProbesIdle, Reloads, files, history
    <2>2. drain'.pc = "picking" /\ drain'.rows = disk
      BY <1>a, <1>d, <2>1 DEF Drain, DrainKnows
    <2>3. DrainKnows' /\ Kept'
      BY <1>d, <2>1, <2>2 DEF DrainKnows, Kept
    <2> QED BY <1>a, <2>1, <2>3, SerialDrain
  <1>4. CASE Promotes
    <2>1. PICK moves \in BOOLEAN, answer \in {"landed", "deferred", "failed"} :
            Promoted(moves, answer)
      BY <1>4 DEF Promotes
    <2>2. /\ disk' = disk /\ accepted' = accepted /\ revoked' = revoked
          /\ spent' = spent /\ drain.pc = "promoting"
          /\ drain' = [drain EXCEPT !.pc = "stamping", !.rows = disk,
                                    !.answer = answer]
      BY <2>1 DEF Promoted, history
    <2>3. drain'.pc = "stamping" /\ drain'.rows = disk /\ drain'.at = drain.at
      BY <1>a, <2>2 DEF Drain
    <2>4. disk[drain.at].st = "publishing"
      <3>1. drain.at \in Ids /\ drain.rows[drain.at].st = "waiting"
        BY <2>2 DEF Inv, Typed, Addressed, Promotion
      <3> QED BY <1>a, <1>d, <2>2, <3>1 DEF DrainKnows, Patch, Rows, Request
    <2>5. DrainKnows' /\ Kept'
      BY <1>d, <2>2, <2>3, <2>4 DEF DrainKnows, Kept
    <2> QED BY <1>a, <2>2, <2>5, SerialDrain
  <1>5. CASE Stamps
    <2> DEFINE N == Stamped(drain.rows, drain.at)
    <2>1. /\ drain.pc = "stamping" /\ drain.at \in Ids /\ disk' = N
          /\ accepted' = accepted /\ revoked' = revoked
          /\ spent' = IF drain.answer = "deferred" THEN spent \ {drain.at}
                                                   ELSE spent
          /\ drain' = Writing(drain.skip \cup {drain.at}) \/ drain' = Off
      BY <1>5 DEF Stamps, Inv, Typed, Addressed
    <2>2. drain.rows = disk /\ disk[drain.at].st = "publishing"
      BY <1>d, <2>1 DEF DrainKnows
    <2>3. /\ \A t \in Ids : t # drain.at => N[t] = disk[t]
          /\ N[drain.at].st \in {"published", "failed", "waiting"}
          /\ drain.answer # "deferred" => N[drain.at].st # "waiting"
      BY <1>a, <2>1, <2>2 DEF Stamped, Patch, Rows, Request, Drain
    <2> HIDE DEF N
    <2>4. Kept'
      BY <1>a, <1>d, <2>1, <2>2, <2>3 DEF Kept, Typed, TypeOK
    <2>5. DrainKnows'
      BY <2>1, OffIs DEF DrainKnows
    <2> QED BY <1>a, <2>1, <2>4, <2>5, SerialDrain
  <1>6. ASSUME NEW t \in Ids, Pending(t) PROVE drain.pc = "picking" /\
                 drain.rows = disk /\ disk[t].st = "waiting"
    BY <1>6, <1>d DEF Pending, Waiting, DrainKnows
  <1>7. ASSUME NEW t \in Ids, Holds(t) PROVE Serial'
    <2>1. /\ Pending(t) /\ disk' = drain.rows /\ accepted' = accepted
          /\ revoked' = revoked /\ spent' = spent
          /\ drain' = Writing(drain.skip \cup {t})
      BY <1>7 DEF Holds, history
    <2>2. drain.pc = "picking" /\ drain.rows = disk
      BY <1>6, <2>1
    <2>3. DrainKnows' /\ Kept'
      BY <1>d, <2>1, <2>2, OffIs DEF DrainKnows, Kept
    <2> QED BY <1>a, <2>2, <2>3, SerialDrain
  <1>8. ASSUME NEW t \in Ids, SupersedesPending(t) PROVE Serial'
    <2> DEFINE N == Patch(drain.rows, t, "superseded")
    <2>1. /\ Pending(t) /\ disk' = N /\ accepted' = accepted
          /\ revoked' = revoked /\ spent' = spent
          /\ drain' = Writing(drain.skip)
      BY <1>8 DEF SupersedesPending, history
    <2>2. drain.pc = "picking" /\ drain.rows = disk /\ disk[t].st = "waiting"
      BY <1>6, <2>1
    <2>3. Follows(N)
      BY <1>a, <2>2 DEF Follows, Patch, Rows, Request
    <2> HIDE DEF N
    <2>4. DrainKnows' /\ Kept'
      BY <1>a, <1>d, <2>1, <2>3, OffIs, StillKept DEF DrainKnows
    <2> QED BY <1>a, <2>2, <2>4, SerialDrain
  <1>9. ASSUME NEW t \in Ids, Publishes(t) PROVE Serial'
    <2> DEFINE N == Patch(drain.rows, t, "publishing")
    <2>1. /\ Pending(t) /\ disk' = N /\ accepted' = accepted
          /\ revoked' = revoked /\ spent' = spent \cup {t}
          /\ drain' = [drain EXCEPT !.pc = "promoting", !.at = t, !.sha = stage]
      BY <1>9 DEF Publishes
    <2>2. drain.pc = "picking" /\ drain.rows = disk /\ disk[t].st = "waiting"
      BY <1>6, <2>1
    <2>3. Follows(N) /\ N[t].st = "publishing"
      BY <1>a, <2>2 DEF Follows, Patch, Rows, Request
    <2>4. drain'.pc = "promoting" /\ drain'.at = t /\ drain'.rows = drain.rows
      BY <1>a, <2>1 DEF Drain
    <2>5. DrainKnows'
      BY <2>1, <2>4 DEF DrainKnows
    <2> HIDE DEF N
    <2>6. Kept'
      BY <1>a, <1>d, <2>1, <2>3, StillKept
    <2> QED BY <1>a, <2>2, <2>5, <2>6, SerialDrain
  <1> QED BY <1>1, <1>2, <1>3, <1>4, <1>5, <1>7, <1>8, <1>9 DEF Drains

LEMMA SerialStep == Serial /\ Inv /\ [Next]_vars => Serial'
  <1> SUFFICES ASSUME Serial, Inv, [Next]_vars PROVE Serial'
    OBVIOUS
  <1>1. CASE StageMoves \/ UNCHANGED vars
    <2>1. /\ overlap' = overlap /\ disk' = disk /\ caller' = caller
          /\ drain' = drain /\ accepted' = accepted /\ revoked' = revoked
          /\ spent' = spent
      BY <1>1 DEF StageMoves, vars, files, history
    <2> QED BY <2>1
            DEF Serial, OneHolder, TakeTurns, Holding, DrainKnows, Kept
  <1>2. CASE Restarts
    <2>1. /\ overlap' = overlap /\ disk' = Reaped(disk) /\ drain' = Off
          /\ caller' = [c \in Callers |-> NoCall]
          /\ accepted' = accepted /\ revoked' = revoked /\ spent' = spent
      BY <1>2 DEF Restarts, history
    <2>2. \A c \in Callers : ~Holding(c)'
      BY <2>1 DEF Holding, NoCall
    <2>3. OneHolder' /\ TakeTurns' /\ DrainKnows'
      BY <2>1, <2>2, OffIs DEF OneHolder, TakeTurns, DrainKnows
    <2>4. Follows(Reaped(disk))
      BY DEF Follows, Reaped, Inv, Typed, TypeOK, Rows, Request
    <2>5. Kept => Kept'
      BY <2>1, <2>4, StillKept DEF Inv
    <2> QED BY <2>1, <2>3, <2>5 DEF Serial
  <1> QED BY <1>1, <1>2, SerialCalls, SerialDrains DEF Next

LEMMA SerialAlways == Spec => [](Inv /\ Serial)
  BY InvInit, InvStep, SerialInit, SerialStep, PTL DEF Spec

\* As long as calls and drains take turns, what a caller was told stays in the
\* file, whatever the drain writes back and whenever the service restarts.
THEOREM CallsKept == Spec => []CallsAreKept
  <1>1. Serial => CallsAreKept
    BY DEF Serial, Kept, CallsAreKept
  <1> QED BY SerialAlways, <1>1, PTL

\* As long as calls and drains take turns, no drain takes a request whose
\* publication was started before and not put off.
THEOREM NotTwice == Spec => NeverAgain
  <1> DEFINE Takes == ~overlap /\ drain.pc # "promoting"
                        /\ drain'.pc = "promoting"
  <1>1. ASSUME Inv, Serial, Next, Takes PROVE drain'.at \notin spent
    <2>1. PICK t \in Ids : Publishes(t)
      <3>1. ASSUME NEW c \in Callers,
                   \/ \E b \in Boards, newer \in BOOLEAN : AsksFor(c, b, newer)
                   \/ \E t \in Ids : AsksToCancel(c, t)
                   \/ Locks(c) \/ Upgrades(c) \/ Enqueues(c) \/ Cancels(c)
            PROVE  drain' = drain
        BY <3>1 DEF AsksFor, AsksToCancel, Asks, Locks, Upgrades, Enqueues,
                    Cancels, Answers
      <3>2. Calls \/ StageMoves => drain' = drain
        BY <3>1 DEF Calls, StageMoves
      <3>3. Restarts \/ ProbesBusy \/ NoneLeft => drain'.pc = "off"
        BY OffIs DEF Restarts, ProbesBusy, NoneLeft
      <3>4. /\ DrainStarts => drain'.pc = "probing"
            /\ ProbesIdle \/ Reloads => drain'.pc = "picking"
            /\ Promotes => drain'.pc = "stamping"
        BY <1>1 DEF Inv, Typed, TypeOK, Drain, DrainStarts, Off, ProbesIdle,
                    Reloads, Promotes, Promoted
      <3>5. /\ Stamps => drain'.pc \in {"off", "reloading"}
            /\ \A t \in Ids : Holds(t) \/ SupersedesPending(t)
                                => drain'.pc = "reloading"
        BY OffIs DEF Stamps, Holds, SupersedesPending
      <3> QED BY <1>1, <3>2, <3>3, <3>4, <3>5 DEF Next, Drains
    <2>2. drain'.at = t /\ drain.pc = "picking" /\ drain.rows[t].st = "waiting"
      BY <1>1, <2>1
         DEF Publishes, Pending, Waiting, Inv, Typed, TypeOK, Drain
    <2>3. drain.rows = disk /\ Kept
      BY <1>1, <2>2 DEF Serial, DrainKnows
    <2> QED BY <2>2, <2>3 DEF Kept
  <1>2. Inv /\ Serial /\ [Next]_vars
          => [Takes => drain'.at \notin spent]_vars
    BY <1>1
  <1> QED BY SerialAlways, <1>2, PTL DEF Spec, NeverAgain
=============================================================================
