--------------------------- MODULE DirectRefinement ---------------------------
(***************************************************************************)
(* DirectDownloads implements DownloadLifecycle, keeps every transferring  *)
(* row attended and every resumable `.part` through restarts.              *)
(***************************************************************************)
EXTENDS DirectDownloadsProofs

(***************************************************************************)
(* The lifecycle.                                                          *)
(***************************************************************************)
RowsStep == \A o \in Ids : Lifecycle!Step(rows[o].status, rows'[o].status)

(* The statements on one row follow the lifecycle's edges.                  *)
LEMMA StatementSteps ==
  ASSUME rows \in Table, NEW id \in Ids,
         \/ rows' = rows
         \/ \E msg : rows' = mark_error(rows, id, msg)
         \/ \E p, d : rows' = finalize_direct(rows, id, p, d)
         \/ \E p : rows' = claim_direct(rows, id, p)
         \/ rows' = cancel_download(rows, id)
         \/ rows' = [rows EXCEPT ![id].aged = TRUE]
         \/ \E n, u, c : rows[id].status = "none" /\ rows' = insert_download(rows, id, n, u, c)
  PROVE  RowsStep
<1> DEFINE A(r) == /\ rows' = [rows EXCEPT ![id] = r]
                   /\ \/ r.status = "error" /\ rows[id].status \in Active
                      \/ r.status = "complete" /\ rows[id].status = "downloading"
                      \/ r.status = "downloading" /\ rows[id].status = "queued"
                      \/ r.status = "cancelled" /\ rows[id].status \in Active
                      \/ r.status = rows[id].status
                      \/ r.status = "queued" /\ rows[id].status = "none"
<1>1. rows[id] \in Row /\ rows[id].status \in Status
  BY DEF Table, Row
<1>3. rows' = rows \/ \E r : A(r)
  <2>2. ASSUME NEW msg, rows' = mark_error(rows, id, msg), rows' # rows
        PROVE  A([rows[id] EXCEPT !.status = "error", !.error = msg, !.aged = FALSE])
    BY <1>1, <2>2 DEF mark_error, Status, Active, Row
  <2>3. ASSUME NEW p, NEW d, rows' = finalize_direct(rows, id, p, d), rows' # rows
        PROVE  A([rows[id] EXCEPT !.status = "complete", !.file_path = p, !.sha256 = d,
                                  !.aged = FALSE])
    BY <1>1, <2>3 DEF finalize_direct, Row
  <2>4. ASSUME NEW p, rows' = claim_direct(rows, id, p), rows' # rows
        PROVE  A([rows[id] EXCEPT !.status = "downloading", !.file_path = p, !.aged = FALSE])
    BY <1>1, <2>4 DEF claim_direct, Row
  <2>5. ASSUME rows' = cancel_download(rows, id), rows' # rows
        PROVE  A([rows[id] EXCEPT !.status = "cancelled", !.aged = FALSE])
    BY <1>1, <2>5 DEF cancel_download, Row
  <2>6. ASSUME rows' = [rows EXCEPT ![id].aged = TRUE]
        PROVE  A([rows[id] EXCEPT !.aged = TRUE])
    BY <1>1, <2>6 DEF Row
  <2>7. ASSUME NEW n, NEW u, NEW c, rows[id].status = "none",
               rows' = insert_download(rows, id, n, u, c)
        PROVE  A([NoRow EXCEPT !.name = n, !.url = u, !.status = "queued", !.sha256 = c])
    BY <1>1, <2>7 DEF insert_download, NoRow
  <2> HIDE DEF A
  <2> QED
    BY <2>2, <2>3, <2>4, <2>5, <2>6, <2>7
<1>4. \A o \in Ids \ {id} : rows'[o] = rows[o]
  BY <1>3 DEF Table
<1>5. Lifecycle!Step(rows[id].status, rows'[id].status)
  BY <1>3 DEF Table, Active, Lifecycle!Step, Lifecycle!can_transition_to, Lifecycle!created_as
<1> QED
  BY <1>4, <1>5 DEF RowsStep, Lifecycle!Step

(* So do the two batch statements.                                          *)
LEMMA BatchSteps ==
  ASSUME rows \in Table, NEW B,
         rows' = requeue_stale_errors(rows, B) \/ rows' = retry_interrupted_directs(rows, B)
  PROVE  RowsStep
<1> SUFFICES ASSUME NEW o \in Ids PROVE Lifecycle!Step(rows[o].status, rows'[o].status)
  BY DEF RowsStep
<1> DEFINE e == [rows[o] EXCEPT !.status = "queued", !.error = Null, !.aged = FALSE]
           d == [rows[o] EXCEPT !.status = "queued", !.file_path = Null, !.error = Null,
                                !.aged = FALSE]
<1>1. e.status = "queued" /\ d.status = "queued"
  BY DEF Table, Row
<1>2. \/ rows'[o] = rows[o]
      \/ rows[o].status = "error" /\ rows'[o] = e
      \/ rows[o].status = "downloading" /\ rows'[o] = d
  BY DEF requeue_stale_errors, retry_interrupted_directs
<1> HIDE DEF d, e
<1> QED
  BY <1>1, <1>2 DEF Lifecycle!Step, Lifecycle!can_transition_to

(* Every step of the direct-download path moves rows along the edges.       *)
LEMMA NextSteps == ASSUME IInv, Next PROVE RowsStep
<1>1. rows \in Table
  BY DEF IInv, TypeOK
<1>2. ASSUME NEW id \in Ids, TaskStep(id) PROVE RowsStep
  <2>1. RowMove(id)
    BY <1>2, TaskStepKept DEF Kept
  <2> QED
    BY <1>1, <2>1, StatementSteps DEF RowMove
<1>3. ASSUME NEW id \in Ids, add_download(id) \/ queue_opds_updates(id) PROVE RowsStep
  BY <1>1, <1>3, StatementSteps DEF add_download, queue_opds_updates, NextId
<1>4. ASSUME NEW id \in Ids, cancel(id) \/ Age(id) PROVE RowsStep
  BY <1>1, <1>4, StatementSteps DEF cancel, Age
<1>5. ASSUME UNCHANGED rows PROVE RowsStep
  BY <1>5 DEF RowsStep, Lifecycle!Step
<1>6. Boot \/ fetch_resumable_part_paths \/ Sweep \/ Tick \/ TickDisabled \/ FetchQueued
      \/ PollerError \/ FlipSwitch \/ Crash => UNCHANGED rows
  BY DEF Boot, fetch_resumable_part_paths, Sweep, Tick, TickDisabled, FetchQueued,
         PollerError, PollerOnly, FlipSwitch, Crash, vars
<1>7. Retry \/ UpdateStale => RowsStep
  BY <1>1, <1>5, BatchSteps DEF Retry, UpdateStale
<1>8. ASSUME ClaimNext PROVE RowsStep
  <2>1. poll.todo \subseteq Ids
    BY DEF IInv, TypeOK, Poll
  <2>2. PICK id \in poll.todo : \/ UNCHANGED rows
                                \/ \E msg : MarkError(id, msg)
                                \/ rows' = claim_direct(rows, id, PartOf(id))
    BY <1>8 DEF ClaimNext, First
  <2> QED
    BY <1>1, <2>1, <2>2, StatementSteps DEF MarkError
<1> QED
  BY <1>2, <1>3, <1>4, <1>5, <1>6, <1>7, <1>8 DEF Next, PollerStep

(* The direct-download path implements DownloadLifecycle: no interleaving   *)
(* of handlers, tasks, poller and restarts moves a row off the edges of     *)
(* can_transition_to.                                                       *)
THEOREM Implements == Spec => FollowsLifecycle
<1>1. Init => Lifecycle!Init
  BY DEF Init, Lifecycle!Init, NoRow, statuses
<1>2. IInv /\ IInv' /\ [Next]_vars => [Lifecycle!Next]_statuses
  <2> SUFFICES ASSUME IInv, IInv', [Next]_vars
               PROVE  [Lifecycle!Next]_statuses
    OBVIOUS
  <2>1. CASE UNCHANGED vars
    BY <2>1 DEF vars, statuses
  <2>2. CASE Next
    <3>1. RowsStep
      BY <2>2, NextSteps
    <3>2. \A o \in Ids : rows'[o].status \in Lifecycle!DownloadStatus \cup {"none"}
      BY DEF IInv, TypeOK, Table, Row, Status, Lifecycle!DownloadStatus
    <3> QED
      BY <3>1, <3>2 DEF RowsStep, Lifecycle!Next, statuses
  <2> QED
    BY <2>1, <2>2
<1> QED
  BY <1>1, <1>2, Invariance, PTL DEF Spec, FollowsLifecycle, Lifecycle!Spec

(***************************************************************************)
(* Attended rows.                                                          *)
(***************************************************************************)

(* What the handlers' statements leave in a row's status.                   *)
LEMMA RowStatuses ==
  ASSUME rows \in Table, NEW id \in Ids, NEW o \in Ids,
         \/ rows' = cancel_download(rows, id)
         \/ rows' = [rows EXCEPT ![id].aged = TRUE]
         \/ \E n, u, c : rows' = insert_download(rows, id, n, u, c)
  PROVE  rows'[o].status = rows[o].status \/ rows'[o].status \in {"queued", "cancelled"}
<1>1. rows[id] \in Row
  BY DEF Table
<1>2. CASE rows' = cancel_download(rows, id)
  BY <1>1, <1>2 DEF cancel_download, Table, Row
<1>3. CASE rows' = [rows EXCEPT ![id].aged = TRUE]
  BY <1>1, <1>3 DEF Table, Row
<1>4. ASSUME NEW n, NEW u, NEW c, rows' = insert_download(rows, id, n, u, c)
      PROVE  rows'[o].status = rows[o].status \/ rows'[o].status \in {"queued", "cancelled"}
  BY <1>1, <1>4 DEF insert_download, NoRow, Table
<1> QED
  BY <1>2, <1>3, <1>4

(* What the batch statements leave in a row's status.                       *)
LEMMA BatchStatuses ==
  ASSUME rows \in Table, NEW B, NEW o \in Ids
  PROVE  /\ LET t == requeue_stale_errors(rows, B)
            IN t[o] = rows[o] \/ t[o].status = "queued"
         /\ LET t == retry_interrupted_directs(rows, B)
            IN /\ t[o] = rows[o] \/ t[o].status = "queued"
               /\ rows[o].url \in B => t[o].status # "downloading"
<1> DEFINE e == [rows[o] EXCEPT !.status = "queued", !.error = Null, !.aged = FALSE]
           d == [rows[o] EXCEPT !.status = "queued", !.file_path = Null, !.error = Null,
                                !.aged = FALSE]
<1>1. e.status = "queued" /\ d.status = "queued"
  BY DEF Table, Row
<1>2. requeue_stale_errors(rows, B)[o] \in {rows[o], e}
  BY DEF requeue_stale_errors
<1>3. retry_interrupted_directs(rows, B)[o]
        = IF rows[o].status = "downloading" /\ rows[o].url \in B THEN d ELSE rows[o]
  BY DEF retry_interrupted_directs
<1> HIDE DEF d, e
<1> QED
  BY <1>1, <1>2, <1>3

(* A claim starts the task it marks; nobody else marks a row `downloading`. *)
LEMMA AttendedNext == ASSUME IInv, AllAttended, Next PROVE AllAttended'
<1> SUFFICES ASSUME ~DbBlips, env'.reconciled, NEW o \in Ids, rows'[o].status = "downloading"
             PROVE  Using(o)'
  BY DEF AllAttended, Attended
<1> DEFINE same == /\ rows'[o].status = "downloading" => rows[o].status = "downloading"
                   /\ task'[o].pc = task[o].pc
<1>1. rows \in Table /\ task \in [Ids -> Task]
  BY DEF IInv, TypeOK
<1>2. ASSUME same, env'.reconciled => env.reconciled PROVE Using(o)'
  BY <1>2 DEF AllAttended, Attended, Using
<1>3. ASSUME NEW id \in Ids, TaskStep(id) PROVE Using(o)'
  <2>1. TaskMove(id) /\ RowMove(id) /\ Settles(id)
    BY <1>3, TaskStepKept DEF Kept
  <2>2. env' = env /\ \A q \in Ids \ {id} : rows'[q] = rows[q] /\ task'[q].pc = task[q].pc
    BY <1>1, <2>1, RowMoveFacts DEF TaskMove, others
  <2>3. CASE o # id
    BY <1>2, <2>2, <2>3
  <2>4. CASE o = id
    BY <2>1, <2>2, <2>4 DEF AllAttended, Settles, Attended
  <2> QED
    BY <2>3, <2>4
<1>4. ASSUME NEW id \in Ids, \/ add_download(id) \/ cancel(id) \/ queue_opds_updates(id)
                               \/ Age(id)
      PROVE  Using(o)'
  <2>1. task' = task /\ env' = env
    BY <1>4 DEF add_download, cancel, queue_opds_updates, Age, others
  <2>2. rows'[o].status = rows[o].status \/ rows'[o].status \in {"queued", "cancelled"}
    BY <1>1, <1>4, RowStatuses
       DEF add_download, cancel, queue_opds_updates, Age, NextId
  <2> QED
    BY <1>2, <2>1, <2>2
<1>5. ASSUME Boot \/ fetch_resumable_part_paths \/ Sweep \/ Tick \/ TickDisabled \/ FetchQueued
             \/ PollerError
      PROVE  Using(o)'
  <2>1. rows' = rows /\ task' = task /\ env' = env
    BY <1>5 DEF Boot, fetch_resumable_part_paths, Sweep, Tick, TickDisabled, FetchQueued,
                PollerError, PollerOnly, vars
  <2> QED
    BY <1>2, <2>1
<1>6. ASSUME FlipSwitch PROVE Using(o)'
  <2>1. rows' = rows /\ task' = task /\ env'.reconciled = env.reconciled
    BY <1>6 DEF FlipSwitch, IInv, TypeOK
  <2> QED
    BY <1>2, <2>1
<1>7. ASSUME Crash PROVE Using(o)'
  <2>1. ~env'.reconciled
    BY <1>7 DEF Crash, IInv, TypeOK
  <2> QED
    BY <2>1
<1>8. ASSUME UpdateStale PROVE Using(o)'
  <2>1. task' = task /\ env' = env /\ (rows'[o] = rows[o] \/ rows'[o].status = "queued")
    BY <1>1, <1>8, BatchStatuses DEF UpdateStale
  <2> QED
    BY <1>2, <2>1
<1>9. ASSUME Retry PROVE Using(o)'
  <2>1. rows[o].url \in Urls => rows'[o].status # "downloading"
    BY <1>1, <1>9, BatchStatuses DEF Retry
  <2>2. rows'[o] = rows[o] \/ rows'[o].status = "queued"
    BY <1>1, <1>9, BatchStatuses DEF Retry
  <2> QED
    BY <2>1, <2>2 DEF IInv, Filled
<1>10. ASSUME ClaimNext PROVE Using(o)'
  <2> DEFINE k == [NoTask EXCEPT !.pc = "start"]
  <2>1. PICK id \in poll.todo :
          \/ MarkError(id, "fatal") /\ task' = task
          \/ rows' = rows /\ task' = task
          \/ rows' = claim_direct(rows, id, PartOf(id)) /\ task' = [task EXCEPT ![id] = k]
    BY <1>10 DEF ClaimNext, First
  <2>2. id \in Ids /\ env' = env
    BY <1>10 DEF IInv, TypeOK, Poll, ClaimNext
  <2>3. k.pc = "start"
    BY DEF NoTask
  <2> HIDE DEF k
  <2>4. CASE rows' = claim_direct(rows, id, PartOf(id)) /\ task' = [task EXCEPT ![id] = k]
    <3>1. CASE o = id
      BY <1>1, <2>3, <2>4, <3>1 DEF Using
    <3>2. CASE o # id
      <4>1. rows'[o] = rows[o] /\ task'[o] = task[o]
        BY <1>1, <2>4, <3>2 DEF claim_direct, Table
      <4> QED
        BY <1>2, <2>2, <4>1
    <3> QED
      BY <3>1, <3>2
  <2>5. CASE MarkError(id, "fatal") /\ task' = task
    <3>1. o # id => rows'[o] = rows[o]
      BY <1>1, <2>2, <2>5 DEF MarkError, mark_error, Table
    <3>2. o # id
      BY <2>2, <2>5, MarkSettles
    <3> QED
      BY <1>2, <2>2, <2>5, <3>1, <3>2
  <2>6. CASE rows' = rows /\ task' = task
    BY <1>2, <2>2, <2>6
  <2> QED
    BY <2>1, <2>4, <2>5, <2>6
<1> QED
  BY <1>3, <1>4, <1>5, <1>6, <1>7, <1>8, <1>9, <1>10 DEF Next, PollerStep

(* When no database write is lost, no row says `downloading` without a      *)
(* task behind it once the startup reconcile has run.                       *)
THEOREM NeverStuck == Spec => []NoStuckRow
<1>1. Init => AllAttended
  BY DEF Init, AllAttended
<1>2. IInv /\ AllAttended /\ [Next]_vars => AllAttended'
  <2>1. AllAttended /\ UNCHANGED vars => AllAttended'
    BY DEF AllAttended, Attended, Using, vars
  <2> QED
    BY <2>1, AttendedNext
<1>3. AllAttended => NoStuckRow
  BY DEF AllAttended, Attended, Using, NoStuckRow, Running
<1> QED
  BY <1>1, <1>2, <1>3, Invariance, PTL DEF Spec

(***************************************************************************)
(* Restarts.                                                               *)
(***************************************************************************)
Resumable == {"queued", "downloading", "error"}

(* The protect-set read first covers every transfer that will resume, and   *)
(* stays large enough while handlers interleave with the reconcile.         *)
LEMMA ProtectedNext == ASSUME IInv, Protected, Next PROVE Protected'
<1> DEFINE late == poll'.pc \in {"retry", "sweep"}
<1>1. /\ rows \in Table /\ began \subseteq Ids /\ poll \in Poll
      /\ poll.pc \in {"retry", "sweep"} => \A o \in Ids : ~Running(o)
  BY DEF IInv, TypeOK, PollShape, Starting
<1>2. ASSUME began' = began, late => (poll.pc \in {"retry", "sweep"} /\ poll'.protect = poll.protect),
             \A o \in began : /\ rows'[o].name = rows[o].name
                              /\ rows'[o].status = "none" => rows[o].status = "none"
                              /\ rows'[o].status \in Resumable => rows[o].status \in Resumable
      PROVE  Protected'
  BY <1>1, <1>2 DEF Protected, Resumable, PartOf
<1>3. ASSUME NEW id \in Ids, TaskStep(id) PROVE Protected'
  <2>1. TaskMove(id) /\ RowMove(id) /\ Running(id)
    BY <1>3, TaskStepKept DEF Kept
  <2>2. poll' = poll /\ began' = began
    BY <2>1 DEF TaskMove, others
  <2>3. \A o \in Ids : rows'[o].status = "none" => rows[o].status = "none"
    BY <1>1, <2>1, RowMoveFacts
  <2> QED
    BY <1>1, <2>1, <2>2, <2>3 DEF Protected
<1>4. ASSUME NEW id \in Ids, add_download(id) \/ queue_opds_updates(id) PROVE Protected'
  <2>1. /\ poll' = poll /\ began' = began /\ rows[id].status = "none"
        /\ \E n, u, c : rows' = insert_download(rows, id, n, u, c)
    BY <1>4 DEF add_download, queue_opds_updates, others, NextId
  <2>2. id \notin began
    BY <2>1 DEF Protected
  <2>3. \A o \in began : rows'[o] = rows[o]
    BY <1>1, <2>1, <2>2 DEF insert_download, Table
  <2> QED
    BY <1>2, <2>1, <2>3
<1>5. ASSUME NEW id \in Ids, cancel(id) \/ Age(id) PROVE Protected'
  <2>1. poll' = poll /\ began' = began /\ rows[id] \in Row
    BY <1>1, <1>5 DEF cancel, Age, others, Table
  <2>2. \A o \in Ids \ {id} : rows'[o] = rows[o]
    BY <1>1, <1>5 DEF cancel, cancel_download, Age, Table
  <2>3. /\ rows'[id].name = rows[id].name /\ rows'[id].status # "none"
        /\ rows'[id].status \in Resumable => rows[id].status \in Resumable
    <3> DEFINE c == [rows[id] EXCEPT !.status = "cancelled", !.aged = FALSE]
               a == [rows[id] EXCEPT !.aged = TRUE]
    <3>1. /\ c.name = rows[id].name /\ c.status = "cancelled"
          /\ a.name = rows[id].name /\ a.status = rows[id].status
      BY <2>1 DEF Row
    <3>2. \/ rows' = [rows EXCEPT ![id] = c]
          \/ rows' = [rows EXCEPT ![id] = a] /\ rows[id].status = "error"
      BY <1>5 DEF cancel, cancel_download, Age
    <3> HIDE DEF a, c
    <3> QED
      BY <1>1, <3>1, <3>2 DEF Table, Resumable
  <2> QED
    BY <1>1, <1>2, <2>1, <2>2, <2>3
<1>6. ASSUME fetch_resumable_part_paths PROVE Protected'
  <2>1. /\ poll'.protect = resumable_part_paths(rows) \cap Paths
        /\ rows' = rows /\ began' = began
    BY <1>1, <1>6 DEF fetch_resumable_part_paths, PollerOnly, Poll
  <2>2. ASSUME NEW o \in began, rows[o].status \in Resumable
        PROVE  PartOf(o) \in resumable_part_paths(rows) \cap Paths
    <3>1. o \in Ids /\ rows[o].name \in Names
      BY <1>1, <2>2 DEF IInv, Filled, Resumable
    <3>2. PartOf(o) \in Paths
      BY <3>1 DEF PartOf, Part, Paths
    <3>3. PartOf(o) \in resumable_part_paths(rows)
      BY <2>2, <3>1 DEF resumable_part_paths, PartOf, Resumable
    <3> QED
      BY <3>2, <3>3
  <2> QED
    BY <2>1, <2>2 DEF Protected, Resumable, PartOf
<1>7. ASSUME Boot \/ Sweep \/ Tick \/ TickDisabled \/ FetchQueued \/ PollerError \/ Crash
             \/ FlipSwitch
      PROVE  Protected'
  <2>1. rows' = rows /\ began' = began
    BY <1>7 DEF Boot, Sweep, Tick, TickDisabled, FetchQueued, PollerError, PollerOnly, Crash,
                FlipSwitch, vars
  <2>2. late => poll' = poll
    <3>1. CASE Boot \/ Crash
      <4>1. poll' \in {[Idle EXCEPT !.pc = "boot"], [Idle EXCEPT !.pc = "protect"],
                       [Idle EXCEPT !.pc = "idle"]}
        BY <3>1 DEF Boot, Crash
      <4> QED
        BY <4>1, IdleFacts
    <3>2. CASE Sweep \/ PollerError
      BY <3>2, IdleFacts DEF Sweep, PollerError
    <3>3. CASE Tick
      <4>1. \E b : \E s \in {"queue", "update"} : poll' = [poll EXCEPT !.pc = s, !.batch = b]
        BY <3>3 DEF Tick
      <4> QED
        BY <1>1, <4>1 DEF Poll
    <3>4. CASE FetchQueued
      <4>1. \/ poll' = Idle
            \/ \E q, b : poll' = [Idle EXCEPT !.pc = "claim", !.todo = q, !.budget = b]
        BY <3>4 DEF FetchQueued
      <4>2. ASSUME NEW q, NEW b PROVE [Idle EXCEPT !.pc = "claim", !.todo = q, !.budget = b].pc = "claim"
        BY DEF Idle
      <4> QED
        BY <4>1, <4>2, IdleFacts
    <3>5. CASE TickDisabled \/ FlipSwitch
      BY <3>5 DEF TickDisabled, FlipSwitch, vars
    <3> QED
      BY <1>7, <3>1, <3>2, <3>3, <3>4, <3>5
  <2> QED
    BY <1>2, <2>1, <2>2
<1>8. ASSUME UpdateStale PROVE Protected'
  <2>1. poll'.pc \in {"queue", "idle"} /\ began' = began
    <3> DEFINE q == [poll EXCEPT !.pc = "queue", !.batch = {}]
    <3>1. q.pc = "queue"
      BY <1>1 DEF Poll
    <3>2. poll' \in {Idle, q} /\ began' = began
      BY <1>8 DEF UpdateStale
    <3> HIDE DEF q
    <3> QED
      BY <3>1, <3>2, IdleFacts
  <2>2. \A o \in Ids : rows'[o] = rows[o] \/ rows'[o].status = "queued"
    BY <1>1, <1>8, BatchStatuses DEF UpdateStale
  <2> QED
    BY <1>1, <2>1, <2>2 DEF Protected
<1>9. ASSUME Retry PROVE Protected'
  <2>1. /\ poll.pc = "retry" /\ poll'.protect = poll.protect /\ began' = began
        /\ rows' = retry_interrupted_directs(rows, Urls)
    BY <1>1, <1>9 DEF Retry, Poll
  <2>2. ASSUME NEW o \in Ids
        PROVE  /\ rows'[o].name = rows[o].name
               /\ rows'[o].status = "none" => rows[o].status = "none"
               /\ rows'[o].status \in Resumable => rows[o].status \in Resumable
    <3> DEFINE d == [rows[o] EXCEPT !.status = "queued", !.file_path = Null, !.error = Null,
                                    !.aged = FALSE]
    <3>1. d.name = rows[o].name /\ d.status = "queued"
      BY <1>1 DEF Table, Row
    <3>2. rows'[o] = rows[o] \/ (rows[o].status = "downloading" /\ rows'[o] = d)
      BY <2>1 DEF retry_interrupted_directs
    <3> HIDE DEF d
    <3> QED
      BY <3>1, <3>2 DEF Resumable
  <2> QED
    BY <1>1, <1>2, <2>1, <2>2
<1>10. ASSUME ClaimNext PROVE Protected'
  <2>1. poll'.pc \in {"idle", "claim"}
    <3>1. poll.pc = "claim" /\ \E id, b : poll' = IF poll.todo = {id} THEN Idle
                         ELSE [poll EXCEPT !.todo = @ \ {id}, !.budget = b]
      BY <1>10 DEF ClaimNext
    <3> QED
      BY <1>1, <3>1, IdleFacts DEF Poll
  <2>2. PICK id \in poll.todo :
          \/ MarkError(id, "fatal") /\ began' = began
          \/ rows' = rows /\ began' = began
          \/ rows' = claim_direct(rows, id, PartOf(id)) /\ began' = began \cup {id}
              /\ rows[id].status = "queued"
    BY <1>10 DEF ClaimNext, First
  <2>3. id \in Ids /\ rows[id] \in Row
    BY <1>1 DEF Poll, Table
  <2>4. \A o \in Ids \ {id} : rows'[o] = rows[o]
    BY <1>1, <2>2, <2>3 DEF MarkError, mark_error, claim_direct, Table
  <2>5. rows'[id].status = "none" => rows[id].status = "none"
    <3>1. CASE MarkError(id, "fatal")
      <4>1. RowMove(id)
        BY <2>3, <3>1, MarkErrorMove DEF AnyError
      <4> QED
        BY <1>1, <2>3, <4>1, RowMoveFacts
    <3>2. CASE rows' = claim_direct(rows, id, PartOf(id))
      <4>1. \E p : rows' = claim_direct(rows, id, p)
        BY <3>2
      <4>2. RowsStep
        BY <1>1, <2>3, <4>1, StatementSteps
      <4> QED
        BY <2>3, <4>2 DEF RowsStep, Lifecycle!Step, Lifecycle!can_transition_to,
                          Lifecycle!created_as
    <3> QED
      BY <2>2, <3>1, <3>2
  <2> QED
    BY <1>1, <2>1, <2>2, <2>4, <2>5 DEF Protected
<1> QED
  BY <1>3, <1>4, <1>5, <1>6, <1>7, <1>8, <1>9, <1>10 DEF Next, PollerStep

(* The startup sweep never deletes the staged bytes of a transfer that will *)
(* resume, whatever the handlers do between reading the protect-set and the *)
(* sweep, and however often the process restarts.                           *)
THEOREM SweepSparesResumable == Spec => ResumeSurvivesRestart
<1> DEFINE Spared == poll.pc = "sweep" =>
                       \A id \in began : rows[id].status \in {"queued", "downloading", "error"}
                                          => files'[PartOf(id)] = files[PartOf(id)]
<1>1. Init => Protected
  <2>1. Idle.pc = "idle" /\ [Idle EXCEPT !.pc = "boot"].pc = "boot"
    BY IdleFacts
  <2> QED
    BY <2>1 DEF Init, Protected
<1>2. IInv /\ Protected /\ [Next]_vars => Protected'
  <2>1. Protected /\ UNCHANGED vars => Protected'
    BY DEF Protected, PartOf, vars
  <2> QED
    BY <2>1, ProtectedNext
<1>3. IInv /\ Protected /\ [Next]_vars => [Spared]_vars
  <2> SUFFICES ASSUME IInv, Protected, Next, poll.pc = "sweep", NEW id \in began,
                      rows[id].status \in {"queued", "downloading", "error"}
               PROVE  files'[PartOf(id)] = files[PartOf(id)]
    OBVIOUS
  <2>1. \A o \in Ids : ~Running(o)
    BY DEF IInv, PollShape, Starting
  <2>2. ASSUME NEW o \in Ids PROVE ~TaskStep(o)
    BY <2>1, <2>2, TaskStepKept
  <2>3. CASE Sweep
    <3>1. PartOf(id) \in poll.protect /\ PartOf(id) \in Paths
      BY DEF Protected, IInv, TypeOK, Poll
    <3> QED
      BY <2>3, <3>1 DEF Sweep, Orphans
  <2>4. ASSUME ~Sweep PROVE files' = files
    BY <2>2, <2>4 DEF Next, PollerStep, add_download, queue_opds_updates, cancel, Age, Boot,
       fetch_resumable_part_paths, Retry, Tick, TickDisabled, UpdateStale, FetchQueued,
       ClaimNext, PollerError, PollerOnly, FlipSwitch, Crash, vars
  <2> QED
    BY <2>3, <2>4
<1> QED
  BY <1>1, <1>2, <1>3, Invariance, PTL DEF Spec, ResumeSurvivesRestart
==============================================================================
