------------------------ MODULE DirectDownloadsProofs ------------------------
(***************************************************************************)
(* Theorems about DirectDownloads, for every number of rows, names, URLs,  *)
(* file sizes, crashes and switch flips.                                   *)
(***************************************************************************)
EXTENDS DirectTaskProofs, FiniteSetTheorems

(***************************************************************************)
(* Handlers, time and the poller.                                          *)
(***************************************************************************)

(* A fresh row, queued under a name and a URL that are not active.          *)
LEMMA InsertKeeps ==
  ASSUME IInv, NEW id \in Ids, rows[id].status = "none",
         NEW n \in Names, NEW u \in Urls, NEW c \in Digests \cup {Null},
         ~ActiveClash(rows, id, n, u), rows' = insert_download(rows, id, n, u, c),
         UNCHANGED <<files, task, others>>
  PROVE  IInv'
<1> DEFINE r == [NoRow EXCEPT !.name = n, !.url = u, !.status = "queued", !.sha256 = c]
<1>1. rows \in Table /\ rows' \in Table
  BY InsertOp DEF IInv, TypeOK
<1>2. r.name = n /\ r.url = u /\ r.status = "queued"
  BY DEF NoRow
<1>3. rows' = [rows EXCEPT ![id] = r]
  BY DEF insert_download
<1> HIDE DEF r
<1>4. /\ rows'[id].name = n /\ rows'[id].url = u /\ rows'[id].status = "queued"
      /\ \A o \in Ids \ {id} : rows'[o] = rows[o]
  BY <1>1, <1>2, <1>3 DEF Table
<1>5. /\ ~Running(id) /\ files' = files /\ task' = task /\ poll' = poll
      /\ retries' = retries /\ env' = env /\ began' = began
  BY DEF IInv, TaskRow, others
<1>6. TypeOK'
  BY <1>1, <1>5 DEF IInv, TypeOK
<1>7. \A o \in Ids : Filled(o)' /\ TaskRow(o)' /\ Linked(o)'
  BY <1>4, <1>5 DEF IInv, Filled, TaskRow, Linked, Running
<1>8. PollShape'
  <2>1. id \notin poll.batch /\ id \notin poll.todo
    BY DEF IInv, PollShape
  <2>2. poll.batch \subseteq Ids /\ poll.todo \subseteq Ids
    BY DEF IInv, TypeOK, Poll
  <2> QED
    BY <1>4, <1>5, <2>1, <2>2 DEF IInv, PollShape, Running
<1>9. IndexesHold(rows')
  BY <1>4 DEF IInv, IndexesHold, ActiveClash
<1> QED
  BY <1>6, <1>7, <1>8, <1>9 DEF IInv

(* POST /downloads keeps the invariant.                                     *)
LEMMA AddKeeps == ASSUME IInv, NEW id \in Ids, add_download(id) PROVE IInv'
<1>1. PICK r \in Requests : /\ ~ActiveClash(rows, id, r[1], r[2])
                            /\ rows' = insert_download(rows, id, r[1], r[2], Null)
  BY DEF add_download
<1>2. r[1] \in Names /\ r[2] \in Urls
  BY DirectAssumption
<1> QED
  BY <1>1, <1>2, InsertKeeps DEF add_download, NextId

(* The OPDS check keeps the invariant.                                      *)
LEMMA OpdsKeeps == ASSUME IInv, NEW id \in Ids, queue_opds_updates(id) PROVE IInv'
<1>1. PICK u \in Feed : /\ ~ActiveClash(rows, id, u[1], u[2])
                        /\ rows' = insert_download(rows, id, u[1], u[2], u[3])
  BY DEF queue_opds_updates
<1>2. u[1] \in Names /\ u[2] \in Urls /\ u[3] \in Digests \cup {Null}
  BY DirectAssumption
<1> QED
  BY <1>1, <1>2, InsertKeeps DEF queue_opds_updates, NextId

(* A cancel keeps the invariant, wherever the row's task is.                *)
LEMMA CancelKeeps == ASSUME IInv, NEW id \in Ids, cancel(id) PROVE IInv'
<1> DEFINE r == [rows[id] EXCEPT !.status = "cancelled", !.aged = FALSE]
<1>1. rows \in Table /\ rows' \in Table /\ rows[id] \in Row /\ rows[id].status \in Active
  BY TableOps DEF cancel, IInv, TypeOK, Table
<1>2. r.name = rows[id].name /\ r.url = rows[id].url /\ r.status = "cancelled"
  BY <1>1 DEF Row
<1>3. rows' = [rows EXCEPT ![id] = r]
  BY <1>1 DEF cancel, cancel_download
<1> HIDE DEF r
<1>4. /\ rows'[id].name = rows[id].name /\ rows'[id].url = rows[id].url
      /\ rows'[id].status = "cancelled"
      /\ \A o \in Ids \ {id} : rows'[o] = rows[o]
  BY <1>1, <1>2, <1>3 DEF Table
<1>5. /\ files' = files /\ task' = task /\ poll' = poll
      /\ retries' = retries /\ env' = env /\ began' = began
  BY DEF cancel, others
<1>6. TypeOK'
  BY <1>1, <1>5 DEF IInv, TypeOK
<1>7. \A o \in Ids : Filled(o)' /\ TaskRow(o)' /\ Linked(o)'
  BY <1>1, <1>4, <1>5 DEF IInv, Filled, TaskRow, Linked, Running, Active
<1>8. PollShape'
  <2>1. id \notin poll.batch
    BY <1>1 DEF IInv, PollShape, Active
  <2>2. poll.batch \subseteq Ids /\ poll.todo \subseteq Ids
    BY DEF IInv, TypeOK, Poll
  <2> QED
    BY <1>4, <1>5, <2>1, <2>2 DEF IInv, PollShape, Running
<1>9. IndexesHold(rows')
  BY <1>1, <1>4 DEF IInv, IndexesHold, Active
<1> QED
  BY <1>6, <1>7, <1>8, <1>9 DEF IInv

(* So does the passing of the requeue horizon.                              *)
LEMMA AgeKeeps == ASSUME IInv, NEW id \in Ids, Age(id) PROVE IInv'
<1> DEFINE r == [rows[id] EXCEPT !.aged = TRUE]
<1>1. rows \in Table /\ rows[id] \in Row /\ r \in Row
  BY RowUpdates DEF IInv, TypeOK, Table
<1>2. /\ r.name = rows[id].name /\ r.url = rows[id].url /\ r.status = rows[id].status
      /\ r.error = rows[id].error
  BY <1>1 DEF Row
<1>3. rows' = [rows EXCEPT ![id] = r] /\ rows' \in Table
  BY <1>1, PutRow DEF Age
<1> HIDE DEF r
<1>4. \A o \in Ids : /\ rows'[o].name = rows[o].name /\ rows'[o].url = rows[o].url
                     /\ rows'[o].status = rows[o].status /\ rows'[o].error = rows[o].error
  BY <1>1, <1>2, <1>3 DEF Table
<1>5. /\ files' = files /\ task' = task /\ poll' = poll
      /\ retries' = retries /\ env' = env /\ began' = began
  BY DEF Age, others
<1>6. TypeOK'
  BY <1>3, <1>5 DEF IInv, TypeOK
<1>7. \A o \in Ids : Filled(o)' /\ TaskRow(o)' /\ Linked(o)'
  BY <1>4, <1>5 DEF IInv, Filled, TaskRow, Linked, Running
<1>8. PollShape'
  <2>1. poll.batch \subseteq Ids /\ poll.todo \subseteq Ids
    BY DEF IInv, TypeOK, Poll
  <2> QED
    BY <1>4, <1>5, <2>1 DEF IInv, PollShape, Running
<1>9. IndexesHold(rows')
  BY <1>4 DEF IInv, IndexesHold
<1> QED
  BY <1>6, <1>7, <1>8, <1>9 DEF IInv

(* Steps of the poller that touch neither rows, files nor tasks.            *)
LEMMA PollerMoveKeeps ==
  ASSUME IInv, NEW p \in Poll, poll' = p, UNCHANGED <<rows, files, task>>,
         retries' \in [Ids -> Nat], UNCHANGED <<env, began>>,
         p.pc \in Starting => poll.pc \in Starting,
         p.pc # "update" => p.batch = {},
         p.pc = "claim" <=> p.todo # {},
         \A id \in p.batch : rows[id].status = "error" /\ rows[id].error = "transient",
         \A id \in p.todo : rows[id].status \in {"queued", "cancelled"}
  PROVE  IInv'
<1>1. TypeOK'
  BY DEF IInv, TypeOK
<1>2. \A o \in Ids : Filled(o)' /\ TaskRow(o)' /\ Linked(o)'
  BY DEF IInv, Filled, TaskRow, Linked, Running
<1>3. PollShape'
  BY DEF IInv, PollShape, Running
<1> QED
  BY <1>1, <1>2, <1>3 DEF IInv

(* The idle poller holds nothing.                                           *)
LEMMA IdleFacts ==
  ASSUME NEW s \in {"boot", "protect", "retry", "sweep", "idle", "update", "queue", "claim"}
  PROVE  /\ [Idle EXCEPT !.pc = s] \in Poll /\ [Idle EXCEPT !.pc = s].pc = s
         /\ [Idle EXCEPT !.pc = s].batch = {} /\ [Idle EXCEPT !.pc = s].todo = {}
         /\ Idle \in Poll /\ Idle.pc = "idle" /\ Idle.batch = {} /\ Idle.todo = {}
  BY DEF Idle, Poll

(* The early end of a tick or of the reconcile keeps the invariant.         *)
LEMMA IdleKeeps ==
  ASSUME IInv, poll' = Idle, PollerOnly
  PROVE  IInv'
<1>1. Idle \in Poll /\ Idle.pc = "idle" /\ Idle.batch = {} /\ Idle.todo = {}
  BY IdleFacts
<1>2. Idle.pc \notin Starting /\ retries' \in [Ids -> Nat]
  BY <1>1 DEF Starting, PollerOnly, IInv, TypeOK
<1> HIDE DEF Idle
<1> QED
  BY <1>1, <1>2, PollerMoveKeeps DEF PollerOnly

(* A start with or without the reconcile.                                   *)
LEMMA BootKeeps == ASSUME IInv, Boot PROVE IInv'
<1> DEFINE s == IF env.enabled THEN "protect" ELSE "idle"
           p == [Idle EXCEPT !.pc = s]
<1>1. p \in Poll /\ p.pc = s /\ p.batch = {} /\ p.todo = {}
  BY IdleFacts
<1>2. poll' = p /\ poll.pc \in Starting /\ s # "claim" /\ retries' \in [Ids -> Nat]
  BY DEF Boot, Starting, PollerOnly, IInv, TypeOK
<1> HIDE DEF p, s
<1> QED
  BY <1>1, <1>2, PollerMoveKeeps DEF Boot, PollerOnly

(* The reconcile reads its protect-set.                                     *)
LEMMA ProtectKeeps == ASSUME IInv, fetch_resumable_part_paths PROVE IInv'
<1> DEFINE s == resumable_part_paths(rows) \cap Paths
           p == [poll EXCEPT !.pc = "retry", !.protect = s]
<1>1. poll \in Poll /\ s \subseteq Paths
  BY DEF IInv, TypeOK
<1>2. poll' = p /\ poll.pc = "protect" /\ retries' \in [Ids -> Nat]
  BY DEF fetch_resumable_part_paths, PollerOnly, IInv, TypeOK
<1> HIDE DEF s
<1>3. p \in Poll /\ p.pc = "retry" /\ p.batch = poll.batch /\ p.todo = poll.todo
  BY <1>1 DEF Poll
<1> HIDE DEF p
<1>4. "protect" \in Starting /\ poll.batch = {} /\ poll.todo = {}
  BY <1>2 DEF Starting, IInv, PollShape
<1> QED
  BY <1>2, <1>3, <1>4, PollerMoveKeeps DEF fetch_resumable_part_paths, PollerOnly

(* The requeue pass picks its batch.                                        *)
LEMMA TickKeeps == ASSUME IInv, Tick PROVE IInv'
<1> DEFINE b == {id \in filter_requeue_name_collisions : ~GiveUp(id)}
           s == IF b = {} THEN "queue" ELSE "update"
           p == [poll EXCEPT !.pc = s, !.batch = b]
<1>1. poll \in Poll /\ poll.pc = "idle" /\ poll.todo = {} /\ retries \in [Ids -> Nat]
  BY DEF IInv, TypeOK, PollShape, Tick
<1>2. /\ poll' = p
      /\ retries' = [id \in Ids |-> retries[id] + (IF id \in b THEN 1 ELSE 0)]
  BY DEF Tick
<1>3. /\ b \subseteq Ids
      /\ \A id \in b : rows[id].status = "error" /\ rows[id].error = "transient"
  BY DEF filter_requeue_name_collisions, Stale
<1> HIDE DEF b
<1>4. retries' \in [Ids -> Nat]
  BY <1>1, <1>2
<1>5. p \in Poll /\ p.pc = s /\ p.batch = b /\ p.todo = poll.todo
  BY <1>1, <1>3 DEF Poll
<1>6. s \notin Starting /\ s # "claim" /\ (s # "update" => b = {})
  BY DEF Starting
<1> HIDE DEF p, s
<1> QED
  BY <1>1, <1>2, <1>3, <1>4, <1>5, <1>6, PollerMoveKeeps DEF Tick

(* The count process_queued makes of direct downloads is a number.          *)
LEMMA ActiveFinite == IsFiniteSet(DirectActive) /\ Cardinality(DirectActive) \in Nat
<1>1. IsFiniteSet(Ids)
  BY TableAssumption, FS_Interval DEF Ids
<1>2. IsFiniteSet(DirectActive)
  BY <1>1, FS_Subset DEF DirectActive
<1> QED
  BY <1>2, FS_CardinalityType

(* The queue and the budget are read.                                       *)
LEMMA FetchQueuedKeeps == ASSUME IInv, FetchQueued PROVE IInv'
<1> DEFINE q == {id \in Ids : rows[id].status = "queued"}
<1>1. CASE poll' = Idle
  BY <1>1, IdleKeeps DEF FetchQueued
<1>2. ASSUME NEW n \in Nat, q # {},
             poll' = [Idle EXCEPT !.pc = "claim", !.todo = q, !.budget = Budget(n)]
      PROVE  IInv'
  <2> DEFINE p == [Idle EXCEPT !.pc = "claim", !.todo = q, !.budget = Budget(n)]
  <2>1. Budget(n) \in Nat
    BY DirectAssumption DEF Budget
  <2>2. p \in Poll /\ p.pc = "claim" /\ p.batch = {} /\ p.todo = q
    BY <2>1 DEF Poll, Idle
  <2>3. poll' = p /\ "claim" \notin Starting /\ retries' \in [Ids -> Nat]
    BY <1>2 DEF FetchQueued, PollerOnly, Starting, IInv, TypeOK
  <2>4. q # {} /\ \A id \in q : rows[id].status \in {"queued", "cancelled"}
    BY <1>2
  <2>5. UNCHANGED <<rows, files, task>> /\ UNCHANGED <<env, began>>
    BY DEF FetchQueued, PollerOnly
  <2> HIDE DEF p, q
  <2> QED
    BY <2>2, <2>3, <2>4, <2>5, PollerMoveKeeps
<1>3. Cardinality(DirectActive) \in Nat
  BY ActiveFinite
<1> QED
  BY <1>1, <1>2, <1>3 DEF FetchQueued

(* Interrupted downloads go back to the queue.                              *)
LEMMA RetryKeeps == ASSUME IInv, Retry PROVE IInv'
<1> DEFINE p == [poll EXCEPT !.pc = "sweep"]
<1>1. /\ rows \in Table /\ rows' \in Table /\ poll \in Poll /\ poll.pc = "retry"
      /\ files' = files /\ task' = task /\ retries' = retries /\ began' = began
  BY BatchOps DEF Retry, IInv, TypeOK
<1>2. poll' = p /\ p \in Poll /\ p.pc = "sweep" /\ p.batch = poll.batch /\ p.todo = poll.todo
  BY <1>1 DEF Retry, Poll
<1> HIDE DEF p
<1>3. poll.batch = {} /\ poll.todo = {} /\ \A o \in Ids : ~Running(o)
  BY <1>1 DEF IInv, PollShape, Starting
<1>4. \A o \in Ids : /\ rows'[o].name = rows[o].name /\ rows'[o].url = rows[o].url
                     /\ (rows'[o].status \in Active <=> rows[o].status \in Active)
                     /\ (rows'[o].status = "none" <=> rows[o].status = "none")
  <2> DEFINE Q(r) == [r EXCEPT !.status = "queued", !.file_path = Null, !.error = Null,
                               !.aged = FALSE]
  <2>1. \A r \in Row : Q(r).name = r.name /\ Q(r).url = r.url /\ Q(r).status = "queued"
    BY DEF Row
  <2>2. \A o \in Ids : rows[o] \in Row
    BY <1>1 DEF Table
  <2>3. ASSUME NEW o \in Ids
        PROVE  \/ rows'[o] = rows[o]
               \/ rows[o].status = "downloading" /\ rows'[o] = Q(rows[o])
    BY DEF Retry, retry_interrupted_directs
  <2> HIDE DEF Q
  <2> QED
    BY <2>1, <2>2, <2>3 DEF Active
<1>5. env' \in [enabled : BOOLEAN, reconciled : BOOLEAN, crashes : Nat, toggles : Nat]
  BY DEF Retry, IInv, TypeOK
<1>6. TypeOK'
  BY <1>1, <1>2, <1>5 DEF IInv, TypeOK
<1>7. \A o \in Ids : Filled(o)' /\ TaskRow(o)' /\ Linked(o)'
  BY <1>1, <1>3, <1>4 DEF IInv, Filled, TaskRow, Linked, Running
<1>8. PollShape'
  BY <1>1, <1>2, <1>3 DEF PollShape, Running
<1>9. IndexesHold(rows')
  BY <1>4 DEF IInv, IndexesHold
<1> QED
  BY <1>6, <1>7, <1>8, <1>9 DEF IInv

(* The sweep of orphaned staged files.                                      *)
LEMMA SweepKeeps == ASSUME IInv, Sweep PROVE IInv'
<1>1. Idle \in Poll /\ Idle.pc = "idle" /\ Idle.batch = {} /\ Idle.todo = {}
  BY IdleFacts
<1>2. /\ poll' = Idle /\ rows' = rows /\ task' = task /\ retries' = retries
      /\ env' = env /\ began' = began /\ poll.pc = "sweep"
  BY DEF Sweep
<1>3. files' \in [Paths -> Seq(Chunk) \cup {Null}]
  BY DEF Sweep, IInv, TypeOK
<1>4. \A o \in Ids : ~Running(o)
  BY <1>2 DEF IInv, PollShape, Starting
<1>5. TypeOK'
  BY <1>1, <1>2, <1>3 DEF IInv, TypeOK
<1>6. \A o \in Ids : Filled(o)' /\ TaskRow(o)' /\ Linked(o)'
  BY <1>2, <1>4 DEF IInv, Filled, TaskRow, Linked, Running
<1>7. PollShape'
  BY <1>1, <1>2 DEF PollShape, Starting
<1> QED
  BY <1>2, <1>5, <1>6, <1>7 DEF IInv

(* The requeue UPDATE, or its refusal by an index.                          *)
LEMMA UpdateStaleKeeps == ASSUME IInv, UpdateStale PROVE IInv'
<1> DEFINE t == requeue_stale_errors(rows, poll.batch)
           p == [poll EXCEPT !.pc = "queue", !.batch = {}]
<1>1. CASE ~IndexesHold(t)
  BY <1>1, IdleKeeps DEF UpdateStale, PollerOnly
<1>2. CASE IndexesHold(t)
  <2>1. /\ rows \in Table /\ t \in Table /\ poll \in Poll /\ poll.pc = "update"
        /\ rows' = t /\ poll' = p
        /\ files' = files /\ task' = task /\ retries' = retries /\ env' = env
        /\ began' = began
    BY <1>2, BatchOps DEF UpdateStale, IInv, TypeOK
  <2>2. p \in Poll /\ p.pc = "queue" /\ p.batch = {} /\ p.todo = poll.todo
    BY <2>1 DEF Poll
  <2> HIDE DEF p
  <2>3. ASSUME NEW o \in Ids
        PROVE  \/ rows'[o] = rows[o]
               \/ /\ rows[o].status = "error" /\ rows[o].error = "transient"
                  /\ rows'[o].name = rows[o].name /\ rows'[o].url = rows[o].url
                  /\ rows'[o].status = "queued"
    <3> DEFINE q == [rows[o] EXCEPT !.status = "queued", !.error = Null, !.aged = FALSE]
    <3>1. q.name = rows[o].name /\ q.url = rows[o].url /\ q.status = "queued"
      BY <2>1 DEF Table, Row
    <3>2. rows'[o] = rows[o] \/ (o \in poll.batch /\ rows'[o] = q)
      BY <2>1 DEF requeue_stale_errors
    <3> HIDE DEF q
    <3> QED
      BY <3>1, <3>2 DEF IInv, PollShape
  <2>4. IndexesHold(rows')
    BY <1>2, <2>1
  <2> HIDE DEF t
  <2>5. TypeOK'
    BY <2>1, <2>2 DEF IInv, TypeOK
  <2>6. \A o \in Ids : Filled(o)' /\ TaskRow(o)' /\ Linked(o)'
    BY <2>1, <2>3 DEF IInv, Filled, TaskRow, Linked, Running
  <2>7. poll.todo = {}
    BY <2>1 DEF IInv, PollShape
  <2>8. PollShape'
    BY <2>1, <2>2, <2>7 DEF PollShape, Starting
  <2> QED
    BY <2>4, <2>5, <2>6, <2>8 DEF IInv
<1> QED
  BY <1>1, <1>2

(* What is left to do after one row of the queue.                           *)
LEMMA RestFacts ==
  ASSUME IInv, poll.pc = "claim", NEW id \in poll.todo, NEW b \in Nat, NEW p,
         p = IF poll.todo = {id} THEN Idle ELSE [poll EXCEPT !.todo = @ \ {id}, !.budget = b]
  PROVE  /\ p \in Poll /\ p.pc \notin Starting /\ p.batch = {} /\ p.pc # "update"
         /\ (p.pc = "claim" <=> p.todo # {}) /\ p.todo \subseteq poll.todo \ {id}
<1>1. poll \in Poll /\ poll.batch = {}
  BY DEF IInv, TypeOK, PollShape
<1>2. CASE poll.todo = {id}
  BY <1>2, IdleFacts DEF Starting
<1>3. CASE poll.todo # {id}
  <2> DEFINE q == [poll EXCEPT !.todo = poll.todo \ {id}, !.budget = b]
  <2>1. /\ q \in Poll /\ q.pc = "claim" /\ q.batch = {}
        /\ q.todo = poll.todo \ {id}
    BY <1>1 DEF Poll
  <2>2. p = q
    BY <1>3
  <2> HIDE DEF q
  <2> QED
    BY <1>3, <2>1, <2>2 DEF Starting
<1> QED
  BY <1>2, <1>3

(* One row of the queue.                                                    *)
LEMMA ClaimNextKeeps == ASSUME IInv, ClaimNext PROVE IInv'
<1> DEFINE R(id, b) == IF poll.todo = {id} THEN Idle
                       ELSE [poll EXCEPT !.todo = @ \ {id}, !.budget = b]
<1>1. /\ poll.pc = "claim" /\ poll.budget \in Nat /\ poll.todo \subseteq Ids
      /\ files' = files /\ retries' = retries /\ env' = env /\ rows \in Table
      /\ task \in [Ids -> Task]
  BY DEF ClaimNext, IInv, TypeOK, Poll
<1>2. PICK id \in poll.todo :
        \/ /\ MarkError(id, "fatal")
           /\ poll' = R(id, poll.budget) /\ UNCHANGED <<task, began>>
        \/ /\ poll.budget = 0
           /\ poll' = R(id, 0) /\ UNCHANGED <<rows, task, began>>
        \/ /\ poll.budget > 0 /\ rows[id].status = "queued"
           /\ rows' = claim_direct(rows, id, PartOf(id))
           /\ task' = [task EXCEPT ![id] = [NoTask EXCEPT !.pc = "start"]]
           /\ began' = began \cup {id}
           /\ poll' = R(id, poll.budget - 1)
        \/ /\ poll.budget > 0 /\ rows[id].status # "queued"
           /\ poll' = R(id, poll.budget) /\ UNCHANGED <<rows, task, began>>
  BY DEF ClaimNext, First
<1>3. id \in Ids /\ rows[id].status \in {"queued", "cancelled"} /\ rows[id] \in Row
  BY <1>1, <1>2 DEF IInv, PollShape, Table
<1>4. \E b \in Nat : poll' = R(id, b)
  <2>1. 0 \in Nat /\ (poll.budget > 0 => poll.budget - 1 \in Nat)
    BY <1>1
  <2> HIDE DEF R
  <2> QED
    BY <1>1, <1>2, <2>1
<1>5. /\ poll' \in Poll /\ poll'.pc \notin Starting /\ poll'.batch = {} /\ poll'.pc # "update"
      /\ (poll'.pc = "claim" <=> poll'.todo # {}) /\ poll'.todo \subseteq poll.todo \ {id}
  BY <1>1, <1>4, RestFacts
<1> HIDE DEF R
<1>6. \A o \in poll'.todo : rows[o].status \in {"queued", "cancelled"}
  BY <1>5 DEF IInv, PollShape
<1>7. CASE UNCHANGED <<rows, task, began>>
  BY <1>1, <1>5, <1>6, <1>7, PollerMoveKeeps DEF IInv, TypeOK
<1>8. CASE MarkError(id, "fatal") /\ UNCHANGED <<task, began>>
  <2>1. RowMove(id)
    BY <1>3, <1>8, MarkErrorMove DEF AnyError
  <2>2. /\ rows' \in Table
        /\ \A o \in Ids \ {id} : rows'[o] = rows[o]
        /\ rows'[id].name = rows[id].name /\ rows'[id].url = rows[id].url
        /\ rows'[id] # rows[id] => /\ rows[id].status \in Active
                                   /\ rows'[id].status \in {"error", "complete"}
    BY <1>1, <1>3, <2>1, RowMoveFacts
  <2>3. TypeOK'
    BY <1>1, <1>5, <1>8, <2>2 DEF IInv, TypeOK
  <2>4. rows[id].status = "queued" => ~Running(id)
    BY <1>3 DEF IInv, TaskRow
  <2>5. \A o \in Ids : Filled(o)' /\ TaskRow(o)' /\ Linked(o)'
    BY <1>1, <1>3, <1>8, <2>2, <2>4 DEF IInv, Filled, TaskRow, Linked, Running, Active
  <2>6. PollShape'
    BY <1>1, <1>5, <1>6, <2>2 DEF PollShape
  <2>7. IndexesHold(rows')
    BY <1>3, <2>2 DEF IInv, IndexesHold, Active
  <2> QED
    BY <2>3, <2>5, <2>6, <2>7 DEF IInv
<1>9. CASE /\ rows[id].status = "queued"
           /\ rows' = claim_direct(rows, id, PartOf(id))
           /\ task' = [task EXCEPT ![id] = [NoTask EXCEPT !.pc = "start"]]
           /\ began' = began \cup {id}
  <2> DEFINE r == [rows[id] EXCEPT !.status = "downloading", !.file_path = PartOf(id),
                                   !.aged = FALSE]
             k == [NoTask EXCEPT !.pc = "start"]
  <2>1. PartOf(id) \in Paths /\ ~Running(id)
    BY <1>3, <1>9 DEF IInv, Filled, TaskRow, PartOf, Part, Paths
  <2>2. rows' \in Table
    BY <1>1, <1>3, <1>9, <2>1, TableOps
  <2>3. r.name = rows[id].name /\ r.url = rows[id].url /\ r.status = "downloading"
    BY <1>3 DEF Row
  <2>4. rows' = [rows EXCEPT ![id] = r]
    BY <1>9 DEF claim_direct
  <2>5. k \in Task /\ k.pc = "start" /\ k.at = Null
    BY NoTaskType DEF Task, TaskPc, NoTask
  <2>6. task' = [task EXCEPT ![id] = k] /\ began' = began \cup {id}
    BY <1>9
  <2> HIDE DEF r, k
  <2>7. /\ rows'[id].name = rows[id].name /\ rows'[id].url = rows[id].url
        /\ rows'[id].status = "downloading"
        /\ \A o \in Ids \ {id} : rows'[o] = rows[o]
    BY <1>1, <1>3, <2>3, <2>4 DEF Table
  <2>8. task'[id] = k /\ \A o \in Ids \ {id} : task'[o] = task[o]
    BY <1>1, <1>3, <2>6
  <2>9. TypeOK'
    BY <1>1, <1>3, <1>5, <2>2, <2>5, <2>6 DEF IInv, TypeOK
  <2>10. \A o \in Ids : Filled(o)' /\ TaskRow(o)' /\ Linked(o)'
    <3>1. rows[id].status = "queued" /\ "start" \notin Abandoned
      BY <1>9 DEF Abandoned
    <3>2. \A o \in Ids : Filled(o)'
      BY <1>3, <2>7, <3>1 DEF IInv, Filled
    <3>3. \A o \in Ids : TaskRow(o)'
      BY <2>5, <2>7, <2>8, <3>1 DEF IInv, TaskRow, Running
    <3>4. \A o \in Ids : Linked(o)'
      BY <1>1, <2>5, <2>8 DEF IInv, Linked, Running
    <3> QED
      BY <3>2, <3>3, <3>4
  <2>11. PollShape'
    BY <1>1, <1>5, <1>6, <2>7 DEF PollShape
  <2>12. IndexesHold(rows')
    BY <1>3, <1>9, <2>7 DEF IInv, IndexesHold, Active
  <2> QED
    BY <2>9, <2>10, <2>11, <2>12 DEF IInv
<1> QED
  BY <1>2, <1>7, <1>8, <1>9

(* A crash loses every task and what the poller held.                       *)
LEMMA CrashKeeps == ASSUME IInv, Crash PROVE IInv'
<1> DEFINE p == [Idle EXCEPT !.pc = "boot"]
<1>1. p \in Poll /\ p.pc = "boot" /\ p.batch = {} /\ p.todo = {}
  BY IdleFacts
<1>2. /\ poll' = p /\ task' = [id \in Ids |-> NoTask] /\ rows' = rows /\ files' = files
      /\ retries' = [id \in Ids |-> 0] /\ began' = began
  BY DEF Crash
<1> HIDE DEF p
<1>3. env' \in [enabled : BOOLEAN, reconciled : BOOLEAN, crashes : Nat, toggles : Nat]
  <2>1. env \in [enabled : BOOLEAN, reconciled : BOOLEAN, crashes : Nat, toggles : Nat]
    BY DEF IInv, TypeOK
  <2> DEFINE x == env.crashes + 1
  <2>2. env' = [env EXCEPT !.crashes = x, !.reconciled = FALSE]
    BY DEF Crash
  <2>3. x \in Nat
    BY <2>1
  <2> HIDE DEF x
  <2> QED
    BY <2>1, <2>2, <2>3
<1>4. TypeOK'
  BY <1>1, <1>2, <1>3, NoTaskType DEF IInv, TypeOK
<1>5. \A o \in Ids : task'[o].pc = "none" /\ task'[o].at = Null
  BY <1>2 DEF NoTask
<1>6. \A o \in Ids : Filled(o)' /\ TaskRow(o)' /\ Linked(o)'
  BY <1>2, <1>5 DEF IInv, Filled, TaskRow, Linked, Running
<1>7. PollShape'
  BY <1>1, <1>2, <1>5 DEF PollShape, Running
<1> QED
  BY <1>2, <1>4, <1>6, <1>7 DEF IInv

(* The master switch touches nothing else.                                  *)
LEMMA FlipKeeps == ASSUME IInv, FlipSwitch PROVE IInv'
<1>1. /\ env' \in [enabled : BOOLEAN, reconciled : BOOLEAN, crashes : Nat, toggles : Nat]
      /\ UNCHANGED <<rows, files, task, poll, retries, began>>
  <2>1. env \in [enabled : BOOLEAN, reconciled : BOOLEAN, crashes : Nat, toggles : Nat]
    BY DEF IInv, TypeOK
  <2> DEFINE x == env.toggles + 1
             y == ~env.enabled
  <2>2. env' = [env EXCEPT !.enabled = y, !.toggles = x]
    BY DEF FlipSwitch
  <2>3. x \in Nat /\ y \in BOOLEAN
    BY <2>1
  <2> HIDE DEF x, y
  <2>4. env' \in [enabled : BOOLEAN, reconciled : BOOLEAN, crashes : Nat, toggles : Nat]
    BY <2>1, <2>2, <2>3
  <2> QED
    BY <2>4 DEF FlipSwitch
<1> QED
  BY <1>1 DEF IInv, TypeOK, Filled, TaskRow, Linked, Running, PollShape

(***************************************************************************)
(* Theorems.                                                               *)
(***************************************************************************)

(* The invariant holds in a fresh process on an empty table.                *)
LEMMA InitIInv == Init => IInv
<1> SUFFICES ASSUME Init PROVE IInv
  OBVIOUS
<1> DEFINE p == [Idle EXCEPT !.pc = "boot"]
<1>1. p \in Poll /\ p.pc = "boot" /\ p.batch = {} /\ p.todo = {}
  BY IdleFacts
<1>2. /\ poll = p /\ task = [id \in Ids |-> NoTask] /\ rows = [id \in Ids |-> NoRow]
      /\ files = [q \in Paths |-> Null]
      /\ retries = [id \in Ids |-> 0] /\ began = {}
  BY DEF Init
<1>9. env \in [enabled : BOOLEAN, reconciled : BOOLEAN, crashes : Nat, toggles : Nat]
  <2>1. PICK on \in BOOLEAN :
          env = [enabled |-> on, reconciled |-> FALSE, crashes |-> 0, toggles |-> 0]
    BY DEF Init
  <2> QED
    BY <2>1
<1> HIDE DEF p
<1>3. NoRow \in Row /\ NoRow.status = "none"
  BY DEF NoRow, Row, Status
<1>4. TypeOK
  BY <1>1, <1>2, <1>3, <1>9, NoTaskType DEF TypeOK, Table
<1>5. \A o \in Ids : task[o].pc = "none" /\ task[o].at = Null /\ rows[o].status = "none"
  BY <1>2, <1>3 DEF NoTask
<1>6. \A o \in Ids : Filled(o) /\ TaskRow(o) /\ Linked(o)
  BY <1>5 DEF Filled, TaskRow, Linked, Running
<1>7. PollShape
  BY <1>1, <1>2, <1>5 DEF PollShape, Running
<1>8. IndexesHold(rows)
  BY <1>5 DEF IndexesHold, Active
<1> QED
  BY <1>4, <1>6, <1>7, <1>8 DEF IInv

(* Every step keeps it.                                                     *)
LEMMA NextIInv == IInv /\ [Next]_vars => IInv'
<1> SUFFICES ASSUME IInv, [Next]_vars PROVE IInv'
  OBVIOUS
<1>1. CASE UNCHANGED vars
  BY <1>1 DEF vars, IInv, TypeOK, Filled, TaskRow, Linked, Running, PollShape
<1>2. ASSUME NEW id \in Ids,
             TaskStep(id) \/ add_download(id) \/ cancel(id) \/ queue_opds_updates(id) \/ Age(id)
      PROVE  IInv'
  BY <1>2, TaskStepKeeps, AddKeeps, CancelKeeps, OpdsKeeps, AgeKeeps
<1>3. CASE PollerStep
  <2>1. CASE TickDisabled
    BY <1>1, <2>1 DEF TickDisabled
  <2> QED
    BY <1>3, <2>1, BootKeeps, ProtectKeeps, RetryKeeps, SweepKeeps, TickKeeps,
       UpdateStaleKeeps, FetchQueuedKeeps, ClaimNextKeeps DEF PollerStep
<1>4. CASE PollerError
  BY <1>4, IdleKeeps DEF PollerError
<1> QED
  BY <1>1, <1>2, <1>3, <1>4, FlipKeeps, CrashKeeps DEF Next

(* The inductive invariant holds of every behaviour of the direct-download  *)
(* path, whatever the tables, files, requests, crashes and switch flips.    *)
THEOREM Invariance == Spec => []IInv
  BY InitIInv, NextIInv, PTL DEF Spec

(* Rows, files, transfer tasks and the poller always have their types.      *)
THEOREM TypeCorrect == Spec => []TypeOK
<1>1. IInv => TypeOK
  BY DEF IInv
<1> QED
  BY <1>1, Invariance, PTL

(* Two tasks on one `.part` that belong to uncancelled rows would be two    *)
(* active rows of one name, which the unique index excludes; a row that     *)
(* failed keeps no task that still uses the file.                           *)
THEOREM OneLiveWriter == Spec => []SingleLiveWriter
<1>1. IInv => SingleLiveWriter
  <2> SUFFICES ASSUME IInv, NEW a \in Ids, NEW b \in Ids, a # b, Using(a), Using(b),
                      rows[a].name = rows[b].name,
                      rows[a].status # "cancelled", rows[b].status # "cancelled"
               PROVE  FALSE
    BY DEF SingleLiveWriter
  <2>1. rows[a].status = "downloading" /\ rows[b].status = "downloading"
    BY DEF IInv, TaskRow, Running, Using
  <2> QED
    BY <2>1 DEF IInv, IndexesHold, Active
<1> QED
  BY <1>1, Invariance, PTL
==============================================================================
