---------------------------- MODULE PublishQueue ----------------------------
(***************************************************************************)
(* The publish queue (runner/publish-queue.ts): "publish this commit of    *)
(* stage when the pipeline is idle".  Callers enqueue and cancel under a   *)
(* lock, each a load and a write of the whole file.  One drain at a time   *)
(* walks the waiting requests in order of arrival, asks where stage is,    *)
(* and supersedes, holds or publishes; it does not take the lock, and      *)
(* writes back the rows it loaded.  Publishing promotes whatever stage     *)
(* holds by then and may restart the service; at boot what was being       *)
(* published is marked as interrupted.                                     *)
(*                                                                         *)
(* Commits of stage are numbered, requests too, in the order they are      *)
(* made; main[b] is the last commit of stage promoted for the board.       *)
(***************************************************************************)
EXTENDS Naturals

CONSTANTS
  Boards,      \* boards with a package to publish
  Clear,       \* boards whose promotion nothing holds back
  Callers,     \* actors that ask for or cancel a publication
  Overlaps,    \* values overlap may have
  MaxPushes,   \* bound: commits on stage
  MaxAsks,     \* bound: calls
  MaxCrashes   \* bound: restarts

ASSUME PublishAssumption ==
  /\ Boards # {} /\ Clear \subseteq Boards /\ Overlaps \subseteq BOOLEAN
  /\ MaxPushes \in Nat /\ MaxAsks \in Nat /\ MaxCrashes \in Nat

Ids == 1..MaxAsks
Shas == 0..MaxPushes

Statuses == {"none", "waiting", "publishing", "published", "superseded",
             "interrupted", "failed", "cancelled"}
Open == {"waiting", "publishing"}

\* A request as the file has it; `newer` is allowNewer, `out` publishedSha.
Request == [st: Statuses, board: Boards, sha: Shas, newer: BOOLEAN, out: Shas]
Rows == [Ids -> Request]
SomeBoard == CHOOSE b \in Boards : TRUE
NoRows == [t \in Ids |-> [st |-> "none", board |-> SomeBoard, sha |-> 0,
                         newer |-> FALSE, out |-> 0]]

VARIABLES
  overlap,   \* may a call and a drain overlap
  stage,     \* the tip of stage
  main,      \* per board, the commit of stage promoted last
  disk,      \* publish-queue.json
  caller,    \* the call of each actor: pc, what it asks, the rows it loaded
  drain,     \* the drain: pc, the rows it holds, those it skips, the request
  asks,      \* calls made so far
  accepted,  \* requests a caller was told of
  revoked,   \* requests a caller was told are cancelled
  spent,     \* requests whose publication was started and not put off
  crashes

files == <<disk, main, stage>>
history == <<accepted, revoked, spent>>
vars == <<overlap, files, caller, drain, asks, history, crashes>>

Patch(rows, t, st) ==
  IF rows[t].st = "none" THEN rows ELSE [rows EXCEPT ![t].st = st]

-----------------------------------------------------------------------------
(* Calls.                                                                  *)

NoCall == [pc |-> "idle", op |-> "cancel", id |-> 0, sha |-> 0,
           board |-> SomeBoard, newer |-> FALSE, rows |-> NoRows]

\* A call starts: a request pins the tip of stage as it is now.
Asks(c, a) ==
  /\ caller[c].pc = "idle" /\ asks < MaxAsks
  /\ asks' = asks + 1
  /\ caller' = [caller EXCEPT ![c] = a]
  /\ UNCHANGED <<overlap, files, drain, history, crashes>>

AsksFor(c, b, newer) ==
  Asks(c, [NoCall EXCEPT !.pc = "asked", !.op = "enqueue", !.board = b,
                         !.newer = newer, !.sha = stage, !.id = asks + 1])

AsksToCancel(c, t) ==
  t \in accepted /\ Asks(c, [NoCall EXCEPT !.pc = "asked", !.id = t])

\* The call's turn at the lock: it loads the rows.
Locks(c) ==
  /\ caller[c].pc = "asked"
  /\ \A d \in Callers : caller[d].pc # "holds"
  /\ overlap \/ drain.pc = "off"
  /\ caller' = [caller EXCEPT ![c].pc = "holds", ![c].rows = disk]
  /\ UNCHANGED <<overlap, files, drain, asks, history, crashes>>

Duplicates(rows, b, sha) ==
  {t \in Ids : rows[t].st \in Open /\ rows[t].board = b /\ rows[t].sha = sha}

\* Mutant: what was resolved is superseded too.
StalePeersOfAnyStatus(rows, b, sha) ==
  {t \in Ids : /\ rows[t].st \notin {"none", "publishing"} /\ rows[t].board = b
               /\ rows[t].sha # sha /\ ~rows[t].newer}

StalePeers(rows, b, sha) ==
  {t \in Ids : /\ rows[t].st = "waiting" /\ rows[t].board = b
               /\ rows[t].sha # sha /\ ~rows[t].newer}

Supersedes(rows, S) ==
  [t \in Ids |-> IF t \in S THEN [rows[t] EXCEPT !.st = "superseded"]
                            ELSE rows[t]]

Answers(c, rows) ==
  /\ disk' = rows
  /\ caller' = [caller EXCEPT ![c] = NoCall]
  /\ UNCHANGED <<overlap, main, stage, drain, asks, spent, crashes>>

\* Asking again for what is already asked may only lift restrictions.
Upgrades(c) ==
  LET a == caller[c] IN
  /\ a.pc = "holds" /\ a.op = "enqueue"
  /\ \E t \in Duplicates(a.rows, a.board, a.sha) :
       /\ Answers(c, IF a.newer /\ ~a.rows[t].newer
                     THEN [a.rows EXCEPT ![t].newer = TRUE] ELSE disk)
       /\ accepted' = accepted \cup {t}
  /\ UNCHANGED revoked

Enqueues(c) ==
  LET a == caller[c] IN
  /\ a.pc = "holds" /\ a.op = "enqueue"
  /\ Duplicates(a.rows, a.board, a.sha) = {}
  /\ Answers(c, [Supersedes(a.rows, StalePeers(a.rows, a.board, a.sha))
                   EXCEPT ![a.id] = [st |-> "waiting", board |-> a.board,
                                     sha |-> a.sha, newer |-> a.newer,
                                     out |-> 0]])
  /\ accepted' = accepted \cup {a.id}
  /\ UNCHANGED revoked

Cancels(c) ==
  LET a == caller[c]
      ok == a.rows[a.id].st = "waiting"
  IN /\ a.pc = "holds" /\ a.op = "cancel"
     /\ Answers(c, IF ok THEN Patch(a.rows, a.id, "cancelled") ELSE disk)
     /\ revoked' = IF ok THEN revoked \cup {a.id} ELSE revoked
     /\ UNCHANGED accepted

-----------------------------------------------------------------------------
(* The drain.                                                              *)

Off == [pc |-> "off", rows |-> NoRows, skip |-> {}, at |-> 0, sha |-> 0,
        answer |-> "failed"]

\* The rows were written back and are about to be loaded again.
Writing(skip) == [Off EXCEPT !.pc = "reloading", !.skip = skip]

\* Mutant: the drain ends with the first request it could not serve.
WaitingUnlessHeld(rows, skip) ==
  {t \in Ids : rows[t].st = "waiting" /\ skip = {}}

Waiting(rows, skip) == {t \in Ids : rows[t].st = "waiting"} \ skip

\* Timer, idle pipeline, settled train entry or a new request: a trigger.
DrainStarts ==
  /\ drain.pc = "off" /\ Waiting(disk, {}) # {}
  /\ overlap \/ \A c \in Callers : caller[c].pc # "holds"
  /\ drain' = [Off EXCEPT !.pc = "probing", !.rows = disk]
  /\ UNCHANGED <<overlap, files, caller, asks, history, crashes>>

\* Is a run in flight or the merge train at work?
ProbesBusy ==
  /\ drain.pc = "probing"
  /\ drain' = Off
  /\ UNCHANGED <<overlap, files, caller, asks, history, crashes>>

ProbesIdle ==
  /\ drain.pc = "probing"
  /\ drain' = [drain EXCEPT !.pc = "picking"]
  /\ UNCHANGED <<overlap, files, caller, asks, history, crashes>>

NoneLeft ==
  /\ drain.pc = "picking" /\ Waiting(drain.rows, drain.skip) = {}
  /\ drain' = Off
  /\ UNCHANGED <<overlap, files, caller, asks, history, crashes>>

\* The oldest request not yet looked at by this drain.
Pending(t) ==
  /\ drain.pc = "picking" /\ t \in Waiting(drain.rows, drain.skip)
  /\ \A u \in Waiting(drain.rows, drain.skip) : t <= u

\* The tip of stage cannot be read, or the queue was switched off.
Holds(t) ==
  /\ Pending(t) /\ drain.rows[t].board \notin Clear
  /\ disk' = drain.rows
  /\ drain' = Writing(drain.skip \cup {t})
  /\ UNCHANGED <<overlap, stage, main, caller, asks, history, crashes>>

Chosen(r) == r.sha = stage \/ r.newer

SupersedesPending(t) ==
  /\ Pending(t) /\ ~Chosen(drain.rows[t])
  /\ disk' = Patch(drain.rows, t, "superseded")
  /\ drain' = Writing(drain.skip)
  /\ UNCHANGED <<overlap, stage, main, caller, asks, history, crashes>>

\* Marked before the effect, so that a restart in its middle finds the mark.
Publishes(t) ==
  /\ Pending(t) /\ Chosen(drain.rows[t])
  /\ disk' = Patch(drain.rows, t, "publishing")
  /\ drain' = [drain EXCEPT !.pc = "promoting", !.at = t, !.sha = stage]
  /\ spent' = spent \cup {t}
  /\ UNCHANGED <<overlap, stage, main, caller, asks, accepted, revoked,
                 crashes>>

Reloads ==
  /\ drain.pc = "reloading"
  /\ drain' = [drain EXCEPT !.pc = "picking", !.rows = disk]
  /\ UNCHANGED <<overlap, files, caller, asks, history, crashes>>

\* firePromoteAndDeploy is handed the board, not the commit.  A refused
\* deploy leaves the code on main and is a failure all the same.
Promoted(moves, answer) ==
  /\ drain.pc = "promoting"
  /\ answer = "landed" => moves
  /\ answer = "deferred" => ~moves /\ drain.rows[drain.at].board \notin Clear
  /\ main' = IF moves THEN [main EXCEPT ![drain.rows[drain.at].board] = stage]
                      ELSE main
  /\ drain' = [drain EXCEPT !.pc = "stamping", !.rows = disk,
                            !.answer = answer]
  /\ UNCHANGED <<overlap, stage, disk, caller, asks, history, crashes>>

\* Mutant: what did not fail was published.
StampedUnlessFailed(rows, t) ==
  IF drain.answer = "failed" THEN Patch(rows, t, "failed")
  ELSE [rows EXCEPT ![t].st = "published", ![t].out = drain.sha]

\* What the answer makes of the request.
Stamped(rows, t) ==
  CASE drain.answer = "landed" ->
         IF rows[t].st = "none" THEN rows
         ELSE [rows EXCEPT ![t].st = "published", ![t].out = drain.sha]
    [] drain.answer = "deferred" -> Patch(rows, t, "waiting")
    [] drain.answer = "failed" -> Patch(rows, t, "failed")

Stamps ==
  /\ drain.pc = "stamping"
  /\ disk' = Stamped(drain.rows, drain.at)
  /\ IF drain.answer = "deferred"
     THEN /\ drain' = Writing(drain.skip \cup {drain.at})
          /\ spent' = spent \ {drain.at}
     ELSE /\ drain' = Off
          /\ UNCHANGED spent
  /\ UNCHANGED <<overlap, stage, main, caller, asks, accepted, revoked,
                 crashes>>

-----------------------------------------------------------------------------
(* The rest of the system.                                                 *)

\* The train lands code on stage.
StageMoves ==
  /\ stage < MaxPushes /\ stage' = stage + 1
  /\ UNCHANGED <<overlap, main, disk, caller, drain, asks, history,
                 crashes>>

\* Mutant: what was interrupted is tried again.
ReapedToWaiting(rows) ==
  [t \in Ids |-> IF rows[t].st = "publishing"
                 THEN [rows[t] EXCEPT !.st = "waiting"] ELSE rows[t]]

Reaped(rows) ==
  [t \in Ids |-> IF rows[t].st = "publishing"
                 THEN [rows[t] EXCEPT !.st = "interrupted"] ELSE rows[t]]

\* The service restarts, most often by the deploy that is under way.
Restarts ==
  /\ crashes < MaxCrashes /\ crashes' = crashes + 1
  /\ disk' = Reaped(disk)
  /\ caller' = [c \in Callers |-> NoCall] /\ drain' = Off
  /\ UNCHANGED <<overlap, stage, main, asks, history>>

-----------------------------------------------------------------------------
Init ==
  /\ overlap \in Overlaps
  /\ stage = 0 /\ main = [b \in Boards |-> 0]
  /\ disk = NoRows
  /\ caller = [c \in Callers |-> NoCall] /\ drain = Off
  /\ asks = 0 /\ accepted = {} /\ revoked = {} /\ spent = {} /\ crashes = 0

Calls ==
  \E c \in Callers :
    \/ \E b \in Boards, newer \in BOOLEAN : AsksFor(c, b, newer)
    \/ \E t \in Ids : AsksToCancel(c, t)
    \/ Locks(c) \/ Upgrades(c) \/ Enqueues(c) \/ Cancels(c)

Promotes ==
  \E moves \in BOOLEAN, answer \in {"landed", "deferred", "failed"} :
    Promoted(moves, answer)

Drains ==
  \/ DrainStarts \/ ProbesBusy \/ ProbesIdle \/ NoneLeft \/ Reloads
  \/ Promotes \/ Stamps
  \/ \E t \in Ids : Holds(t) \/ SupersedesPending(t) \/ Publishes(t)

Next == Calls \/ Drains \/ StageMoves \/ Restarts

Spec == Init /\ [][Next]_vars

\* The timer always comes back, awaits end, and a pipeline asked again and
\* again is found idle in the end.
LiveSpec ==
  /\ Spec
  /\ WF_vars(Drains) /\ SF_vars(ProbesIdle)
  /\ \A c \in Callers : WF_vars(Upgrades(c) \/ Enqueues(c) \/ Cancels(c))

-----------------------------------------------------------------------------
Call == [pc: {"idle", "asked", "holds"}, op: {"enqueue", "cancel"},
         id: Ids \cup {0}, sha: Shas, board: Boards, newer: BOOLEAN,
         rows: Rows]

Drain == [pc: {"off", "probing", "picking", "reloading", "promoting",
               "stamping"},
          rows: Rows, skip: SUBSET Ids, at: Ids \cup {0}, sha: Shas,
          answer: {"landed", "deferred", "failed"}]

TypeOK ==
  /\ overlap \in BOOLEAN /\ stage \in Shas /\ main \in [Boards -> Shas]
  /\ disk \in Rows
  /\ caller \in [Callers -> Call] /\ drain \in Drain
  /\ asks \in 0..MaxAsks /\ crashes \in 0..MaxCrashes
  /\ accepted \subseteq Ids /\ revoked \subseteq Ids /\ spent \subseteq Ids

\* A request reads `published` only when main holds the commit it names: the
\* stamp waits for the promotion's own word (publishEffectFromRelease), through
\* stale writes and restarts.
PublishedIsOnMain ==
  \A t \in Ids : disk[t].st = "published" => disk[t].out <= main[disk[t].board]

\* What a caller was told is in the file: an accepted request is listed and a
\* cancelled one stays cancelled - unless a call and a drain overlapped, since
\* the drain writes rows it loaded before the call (CancelledIsNotPublished).
CallsAreKept ==
  overlap \/ /\ \A t \in accepted : disk[t].st # "none"
             /\ \A t \in revoked : disk[t].st = "cancelled"

\* Nothing is published twice by itself: once its publication was started and
\* not put off, no drain takes a request again, whatever restart interrupts it
\* (the terminal statuses, reapInterruptedAtBoot) - unless a call overlapped.
NeverAgain ==
  [][~overlap /\ drain.pc # "promoting" /\ drain'.pc = "promoting"
       => drain'.at \notin spent]_vars

\* Head of the line: requests of boards that are held or put off for good do
\* not keep a request of another board waiting (drainPublishQueue's skip).
NotHeldBack ==
  LET Some == \E t \in Ids : disk[t].st = "waiting" /\ disk[t].board \in Clear
  IN Some ~> ~Some

\* What the caller saw of the drain: nothing that was cancelled is published.
\* Does not hold when calls and drains overlap.
CancelledIsNotPublished ==
  [][\A t \in revoked : disk[t].st # "published" => disk'[t].st # "published"]_vars

\* Without allowNewer, what goes to main is the commit the request pinned.
\* Does not hold: promoteStageToMain takes the tip of stage when it runs.
ChosenGoesLive ==
  [][\A b \in Boards : main'[b] # main[b] =>
       LET r == drain.rows[drain.at] IN r.newer \/ main'[b] = r.sha]_vars
=============================================================================
