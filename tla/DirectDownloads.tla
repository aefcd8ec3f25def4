--------------------------- MODULE DirectDownloads ---------------------------
(***************************************************************************)
(* Direct `.zim` downloads: HTTP handlers insert and cancel rows, the      *)
(* poller claims queued rows and spawns one transfer task per claim, each  *)
(* task streams into `{name}.part`, verifies it, renames it into the       *)
(* library and settles its row.  All of them interleave at every await;    *)
(* the process may crash at any point and reconciles at the next start.    *)
(*                                                                         *)
(* Bytes are modelled by chunks: <<u, i>> is the i-th chunk of the file at *)
(* URL u.  A transfer task holds an open file; `at` is the path that file  *)
(* is linked at now, or Null once another step has unlinked it (writes     *)
(* then reach nobody).                                                     *)
(***************************************************************************)
EXTENDS DownloadsTable, Sequences, FiniteSets

CONSTANTS
  SizeOf,        \* SizeOf[u]: chunks of the file at URL u
  MaxBytes,      \* downloads.max_bytes, in chunks
  MaxActive,     \* torrent.max_active
  GiveUpAfter,   \* REQUEUE_GIVE_UP_AFTER
  Requests,      \* <<name, url>>: bodies of POST /downloads
  Feed,          \* <<name, url, claim>>: updates the OPDS catalog announces
  DbBlips,       \* TRUE: database calls whose failure the code swallows may fail
  MaxCrashes,    \* bound: process crashes
  MaxToggles     \* bound: flips of the torrent.enabled master switch

ASSUME DirectAssumption ==
  /\ SizeOf \in [Urls -> Nat \ {0}]
  /\ MaxBytes \in Nat /\ MaxActive \in Nat
  /\ GiveUpAfter \in Nat \ {0}
  /\ Requests \subseteq Names \X Urls
  /\ Feed \subseteq Names \X Urls \X (Digests \cup {Null})
  /\ DbBlips \in BOOLEAN
  /\ MaxCrashes \in Nat /\ MaxToggles \in Nat

VARIABLES
  rows,      \* the downloads table
  files,     \* files[p]: the bytes at path p, Null when there is no such file
  task,      \* task[id]: the transfer task spawned for row id
  poll,      \* the poller task: its program counter and what it holds across awaits
  retries,   \* retries[id]: the count of the row's requeue guard entry
  env,       \* the master switch, the reconcile of this start, crashes and flips so far
  began      \* history: rows ever claimed by the poller

vars == <<rows, files, task, poll, retries, env, began>>

-----------------------------------------------------------------------------
(* Bytes.                                                                   *)

Hole == <<Null, 0>>       \* zero bytes a write past the end of file leaves
Page == <<Null, 1>>       \* bytes that are no part of the file (an error page)
Chunk == (Urls \X Nat) \cup {Hole, Page}

ASSUME NoFileAssumption == Null \notin Seq(Chunk)

Whole(u) == [i \in 1..SizeOf[u] |-> <<u, i>>]

\* What a server of u sends as its i-th chunk.
Sent(u, i) == IF i <= SizeOf[u] THEN <<u, i>> ELSE Page

Digest(c) == IF \E u \in Urls : c = Whole(u) THEN CHOOSE u \in Urls : c = Whole(u)
                                              ELSE Corrupt

\* A file at offset pos+1 gets chunk x; a gap left by a truncation reads as zeros.
WriteAt(c, pos, x) ==
  [i \in 1..(IF pos < Len(c) THEN Len(c) ELSE pos + 1) |->
     IF i = pos + 1 THEN x ELSE IF i <= Len(c) THEN c[i] ELSE Hole]

(* verify_zim is structural: bytes that begin with a ZIM header and are as  *)
(* long as that header says may pass, whatever is in between.               *)
MayParse(c) == /\ c # << >>
               /\ c[1] \in Urls \X {1}
               /\ Len(c) >= SizeOf[c[1][1]]

-----------------------------------------------------------------------------
(* Tasks.                                                                   *)

TaskPc == {"none", "start", "request", "reissue", "stream", "drain", "preverify", "verify",
           "recheck", "owner", "drop_part", "rename", "finalize", "discard", "unlink"}

Task == [pc     : TaskPc,
         from   : Nat,                     \* resume_from (0: fresh download)
         append : BOOLEAN,                 \* file opened in append mode
         got    : Nat,                     \* `received`: the resumed prefix included
         put    : Nat,                     \* of those, handed to the file (rest is buffered)
         total  : Nat \cup {Null},         \* declared size
         at     : Paths \cup {Null},
         digest : Digests \cup {Null}]

NoTask == [pc |-> "none", from |-> 0, append |-> FALSE, got |-> 0, put |-> 0,
           total |-> Null, at |-> Null, digest |-> Null]

Running(id) == task[id].pc # "none"

PartOf(id) == Part(rows[id].name)
DstOf(id)  == Zim(rows[id].name)
Url(id)    == rows[id].url

Goto(id, pc) == task' = [task EXCEPT ![id].pc = pc]

\* Unlinking p: every open file linked there loses its path.
Detached(tk, p) == [i \in Ids |-> IF tk[i].at = p THEN [tk[i] EXCEPT !.at = Null] ELSE tk[i]]

Ended(tk, id) == [tk EXCEPT ![id] = NoTask]

EndTask(id) == task' = Ended(task, id) /\ UNCHANGED files

EndTaskRemoving(id, p) ==
  /\ task' = Ended(Detached(task, p), id)
  /\ files' = [files EXCEPT ![p] = Null]

(* mark_error swallows a failing write.                                     *)
MarkError(id, msg) ==
  \/ rows' = mark_error(rows, id, msg)
  \/ DbBlips /\ UNCHANGED rows

(* Every Err that leaves direct_download is recorded by the spawned task;   *)
(* the `.part` stays for resume.                                            *)
Fail(id, msgs) == (\E msg \in msgs : MarkError(id, msg)) /\ EndTask(id)

AnyError == {"transient", "fatal"}

others == <<poll, retries, env, began>>

-----------------------------------------------------------------------------
(* direct_download and stream_part.                                         *)

\* Mutant: the last chunk is fetched again, an empty file is not told apart.
resume_plan_overlap(c) == IF c = Null THEN 0 ELSE Len(c) - 1

\* The size of an existing `.part`; 0 stands for a fresh download.
resume_plan(c) == IF c = Null THEN 0 ELSE Len(c)

(* Without an HTTP client, or when the host check refuses the URL, the      *)
(* spawned task only records the error.                                     *)
StartTask(id) ==
  /\ task[id].pc = "start"
  /\ \/ /\ task' = [task EXCEPT ![id] = [@ EXCEPT !.pc = "request",
                                                     !.from = resume_plan(files[PartOf(id)])]]
        /\ UNCHANGED <<rows, files>>
     \/ Fail(id, {"fatal"})
  /\ UNCHANGED others

\* File::create: a new empty file, or the existing one truncated in place.
OpenFresh(id, total) ==
  /\ files' = [files EXCEPT ![PartOf(id)] = << >>]
  /\ task' = [task EXCEPT ![id] = [NoTask EXCEPT !.pc = "stream", !.total = total,
                                                 !.at = PartOf(id)]]

\* OpenOptions create + append: an existing file keeps its bytes.
OpenAppend(id, total) ==
  /\ files' = [files EXCEPT ![PartOf(id)] = IF @ = Null THEN << >> ELSE @]
  /\ task' = [task EXCEPT ![id] = [NoTask EXCEPT !.pc = "stream", !.append = TRUE,
                                                 !.got = task[id].from, !.put = task[id].from,
                                                 !.total = total, !.at = PartOf(id)]]

\* Content-Length or Content-Range, when the server gives one.
Declared(id) == {SizeOf[Url(id)], Null}

OverCap(total) == total # Null /\ total > MaxBytes

(* The terminal response of the redirect chain, by its shape.               *)
Respond(id) ==
  /\ task[id].pc = "request"
  /\ LET from == task[id].from
         size == SizeOf[Url(id)]
     IN \/ Fail(id, AnyError)                               \* no response, or an error status
        \/ \E total \in Declared(id) :                      \* 200
             IF OverCap(total) THEN Fail(id, {"fatal"})
                               ELSE OpenFresh(id, total) /\ UNCHANGED rows
        \/ /\ from > 0 /\ from < size                       \* 206 that starts at `from`
           /\ IF OverCap(size) THEN Fail(id, {"fatal"})
                               ELSE OpenAppend(id, size) /\ UNCHANGED rows
        \/ /\ from = size                                   \* 416, FULL = from
           /\ IF OverCap(size) THEN Fail(id, {"fatal"})
                               ELSE OpenAppend(id, size) /\ UNCHANGED rows
        \/ /\ from > 0                                      \* any other 206 or 416
           /\ task' = [task EXCEPT ![id] = [NoTask EXCEPT !.pc = "reissue"]]
           /\ UNCHANGED <<rows, files>>
  /\ UNCHANGED others

\* fresh_fallback: one more GET, without a Range.
Reissue(id) ==
  /\ task[id].pc = "reissue"
  /\ \/ Fail(id, AnyError)                                  \* send() failed: `.part` kept
     \/ /\ \E msg \in AnyError : MarkError(id, msg)         \* error status: `.part` removed
        /\ EndTaskRemoving(id, PartOf(id))
     \/ \E total \in Declared(id) :
          IF OverCap(total) THEN Fail(id, {"fatal"})
          ELSE /\ files' = [files EXCEPT ![PartOf(id)] = << >>]
               /\ task' = [Detached(task, PartOf(id)) EXCEPT
                             ![id] = [NoTask EXCEPT !.pc = "stream", !.total = total,
                                                    !.at = PartOf(id)]]
               /\ UNCHANGED rows
  /\ UNCHANGED others

\* A chunk arrives; the cap holds for servers that declared no size too.
Receive(id) ==
  /\ task[id].pc = "stream"
  /\ task[id].got < SizeOf[Url(id)] + (IF task[id].append THEN 1 ELSE 0)
  /\ IF task[id].got + 1 > MaxBytes
       THEN Fail(id, {"fatal"})
       ELSE /\ task' = [task EXCEPT ![id].got = @ + 1]
            /\ UNCHANGED <<rows, files>>
  /\ UNCHANGED others

\* The BufWriter hands one buffered chunk to the open file.
Spill(id) ==
  LET k == task[id] IN
  /\ k.pc \in {"stream", "drain"}
  /\ k.put < k.got
  /\ files' = IF k.at = Null THEN files
              ELSE [files EXCEPT ![k.at] =
                      WriteAt(@, IF k.append THEN Len(@) ELSE k.put, Sent(Url(id), k.put + 1))]
  /\ task' = [task EXCEPT ![id].put = @ + 1]
  /\ UNCHANGED <<rows, others>>

(* observe_cancel, the periodic check of the body loop: a cancel removes    *)
(* the `.part`, and the rest of the buffer is still flushed.  (On any other *)
(* status the loop breaks and goes on as in StreamEnd.)                     *)
ObserveCancel(id) ==
  /\ task[id].pc = "stream"
  /\ rows[id].status = "cancelled"
  /\ files' = [files EXCEPT ![PartOf(id)] = Null]
  /\ task' = [Detached(task, PartOf(id)) EXCEPT ![id].pc = "drain"]
  /\ UNCHANGED <<rows, others>>

Drained(id) ==
  /\ task[id].pc = "drain"
  /\ task[id].put = task[id].got
  /\ EndTask(id)
  /\ UNCHANGED <<rows, others>>

\* Mutant: an Err of the body loop is not recorded.
StreamError_unmarked(id) ==
  /\ task[id].pc = "stream"
  /\ EndTask(id)
  /\ UNCHANGED <<rows, others>>

\* The body fails mid-stream: what is still buffered is lost.
StreamError(id) ==
  /\ task[id].pc = "stream"
  /\ Fail(id, AnyError)
  /\ UNCHANGED others

\* The body ends: everything is flushed, then the declared size must match.
StreamEnd(id) ==
  /\ task[id].pc = "stream"
  /\ task[id].put = task[id].got
  /\ IF task[id].total # Null /\ task[id].got # task[id].total
       THEN Fail(id, {"fatal"})
       ELSE /\ task' = [task EXCEPT ![id] = [NoTask EXCEPT !.pc = "preverify"]]
            /\ UNCHANGED <<rows, files>>
  /\ UNCHANGED others

-----------------------------------------------------------------------------
(* finalize_direct_download.                                                *)

\* The cancel check before the verify; it fails open.
PreVerify(id) ==
  /\ task[id].pc = "preverify"
  /\ \/ /\ rows[id].status # "downloading"
        /\ EndTaskRemoving(id, PartOf(id)) /\ UNCHANGED rows
     \/ /\ rows[id].status = "downloading" \/ DbBlips
        /\ \/ Goto(id, "verify") /\ UNCHANGED <<rows, files>>
           \/ Fail(id, AnyError)                            \* claim_digest failed
  /\ UNCHANGED others

\* Hash the file at the path, compare with the row's claim, parse it.
Verify(id) ==
  /\ task[id].pc = "verify"
  /\ LET c     == files[PartOf(id)]
         claim == rows[id].sha256
     IN IF c = Null THEN Fail(id, {"fatal"})
        ELSE IF claim # Null /\ claim # Digest(c)
          THEN MarkError(id, "fatal") /\ Goto(id, "drop_part") /\ UNCHANGED files
          ELSE \/ /\ MayParse(c)
                  /\ task' = [task EXCEPT ![id] = [@ EXCEPT !.pc = "recheck", !.digest = Digest(c)]]
                  /\ UNCHANGED <<rows, files>>
               \/ Fail(id, {"fatal"})
  /\ UNCHANGED others

\* The cancel check before the rename; a failing read is an error here.
Recheck(id) ==
  /\ task[id].pc = "recheck"
  /\ \/ IF rows[id].status = "cancelled"
          THEN EndTaskRemoving(id, PartOf(id)) /\ UNCHANGED rows
          ELSE Goto(id, "owner") /\ UNCHANGED <<rows, files>>
     \/ Fail(id, AnyError)
  /\ UNCHANGED others

\* The destination must not be another live row's installed file.
CheckOwner(id) ==
  /\ task[id].pc = "owner"
  /\ \/ IF find_live_row_owns_path(rows, DstOf(id), id) # {}
          THEN MarkError(id, "fatal") /\ Goto(id, "drop_part") /\ UNCHANGED files
          ELSE Goto(id, "rename") /\ UNCHANGED <<rows, files>>
     \/ Fail(id, AnyError)
  /\ UNCHANGED others

\* A refused file is removed after its row was marked.
DropPart(id) ==
  /\ task[id].pc = "drop_part"
  /\ EndTaskRemoving(id, PartOf(id))
  /\ UNCHANGED <<rows, others>>

\* rename(part, dst): open files follow the part, those of the old dst are detached.
Moved(tk, p, q) ==
  [i \in Ids |-> IF tk[i].at = q THEN [tk[i] EXCEPT !.at = Null]
                 ELSE IF tk[i].at = p THEN [tk[i] EXCEPT !.at = q] ELSE tk[i]]

Rename(id) ==
  /\ task[id].pc = "rename"
  /\ \/ /\ files[PartOf(id)] # Null
        /\ files' = [files EXCEPT ![DstOf(id)] = files[PartOf(id)], ![PartOf(id)] = Null]
        /\ task' = [Moved(task, PartOf(id), DstOf(id)) EXCEPT ![id].pc = "finalize"]
        /\ UNCHANGED rows
     \/ Fail(id, {"fatal"})
  /\ UNCHANGED others

\* After the library resync, the guarded settlement; 0 rows means a cancel came first.
Finalize(id) ==
  /\ task[id].pc = "finalize"
  /\ \/ /\ rows' = finalize_direct(rows, id, DstOf(id), task[id].digest)
        /\ IF rows[id].status = "downloading" THEN task' = Ended(task, id)
                                              ELSE Goto(id, "discard")
        /\ UNCHANGED files
     \/ Fail(id, AnyError)                                 \* resync or the UPDATE failed
  /\ UNCHANGED others

\* discard_if_unowned: the ownership check; a failing one keeps the file.
Discard(id) ==
  /\ task[id].pc = "discard"
  /\ \/ IF find_live_row_owns_path(rows, DstOf(id), id) = {}
          THEN Goto(id, "unlink") /\ UNCHANGED files
          ELSE EndTask(id)
     \/ DbBlips /\ EndTask(id)
  /\ UNCHANGED <<rows, others>>

Unlink(id) ==
  /\ task[id].pc = "unlink"
  /\ EndTaskRemoving(id, DstOf(id))
  /\ UNCHANGED <<rows, others>>

TaskStep(id) ==
  \/ StartTask(id) \/ Respond(id) \/ Reissue(id)
  \/ Receive(id) \/ Spill(id) \/ ObserveCancel(id) \/ Drained(id)
  \/ StreamError(id) \/ StreamEnd(id)
  \/ PreVerify(id) \/ Verify(id) \/ Recheck(id) \/ CheckOwner(id) \/ DropPart(id)
  \/ Rename(id) \/ Finalize(id) \/ Discard(id) \/ Unlink(id)

-----------------------------------------------------------------------------
(* The HTTP handlers.                                                       *)

add_download(id) ==
  /\ NextId(rows, id)
  /\ \E r \in Requests :
       /\ ~ActiveClash(rows, id, r[1], r[2])
       /\ rows' = insert_download(rows, id, r[1], r[2], Null)
  /\ UNCHANGED <<files, task, others>>

cancel(id) ==
  /\ rows[id].status \in Active
  /\ rows' = cancel_download(rows, id)
  /\ UNCHANGED <<files, task, others>>

-----------------------------------------------------------------------------
(* The poller task: reconcile once per start, then tick after tick.         *)

Poll == [pc      : {"boot", "protect", "retry", "sweep", "idle", "update", "queue", "claim"},
         protect : SUBSET Paths,     \* reconcile: `.part` files the sweep keeps
         batch   : SUBSET Ids,       \* requeue: rows the guard let through
         todo    : SUBSET Ids,       \* process_queued: queued rows still to look at
         budget  : Nat]

Idle == [pc |-> "idle", protect |-> {}, batch |-> {}, todo |-> {}, budget |-> 0]

PollerOnly == UNCHANGED <<rows, files, task, retries, env, began>>

\* A database error propagates: reconcile, or the tick, ends here.
PollerError ==
  /\ poll.pc \in {"protect", "retry", "update", "queue", "claim"}
  /\ DbBlips
  /\ poll' = Idle
  /\ PollerOnly

Boot ==
  /\ poll.pc = "boot"
  /\ poll' = [Idle EXCEPT !.pc = IF env.enabled THEN "protect" ELSE "idle"]
  /\ PollerOnly

\* Mutant: only the claimed paths.
resumable_part_paths_claimed(t) ==
  {t[id].file_path : id \in {o \in Ids : t[o].status \in {"queued", "downloading", "error"}}}

\* Rows that will resume, each with its claimed path and the path it will claim.
resumable_part_paths(t) ==
  LET resume == {id \in Ids : t[id].status \in {"queued", "downloading", "error"}}
  IN {t[id].file_path : id \in resume} \cup {Part(t[id].name) : id \in resume}

fetch_resumable_part_paths ==
  /\ poll.pc = "protect"
  /\ poll' = [poll EXCEPT !.pc = "retry", !.protect = resumable_part_paths(rows) \cap Paths]
  /\ PollerOnly

Retry ==
  /\ poll.pc = "retry"
  /\ rows' = retry_interrupted_directs(rows, Urls)
  /\ poll' = [poll EXCEPT !.pc = "sweep"]
  /\ env' = [env EXCEPT !.reconciled = TRUE]
  /\ UNCHANGED <<files, task, retries, began>>

Orphans == {Part(n) : n \in Names} \ poll.protect

\* No transfer task runs yet, so no file is open.
Sweep ==
  /\ poll.pc = "sweep"
  /\ files' = [p \in Paths |-> IF p \in Orphans THEN Null ELSE files[p]]
  /\ poll' = Idle
  /\ UNCHANGED <<rows, task, retries, env, began>>

Stale == {id \in Ids : rows[id].status = "error" /\ rows[id].aged
                        /\ rows[id].error = "transient"}

ActiveNames == {rows[id].name : id \in {o \in Ids : rows[o].status \in Active}}

\* Per name the newest stale row, and none whose name is active.
filter_requeue_name_collisions ==
  {id \in Stale : /\ rows[id].name \notin ActiveNames
                  /\ \A o \in Stale : rows[o].name = rows[id].name => o <= id}

GiveUp(id) == retries[id] >= GiveUpAfter - 1


(* A tick begins: unless the master switch is off, the requeue pass selects *)
(* its batch.  The guard counts a row before the UPDATE that requeues it.   *)
Tick ==
  /\ poll.pc = "idle" /\ env.enabled
  /\ LET batch == {id \in filter_requeue_name_collisions : ~GiveUp(id)}
     IN /\ retries' = [id \in Ids |-> retries[id] + (IF id \in batch THEN 1 ELSE 0)]
        /\ poll' = [poll EXCEPT !.pc = IF batch = {} THEN "queue" ELSE "update",
                                !.batch = batch]
  /\ UNCHANGED <<rows, files, task, env, began>>

TickDisabled ==
  /\ poll.pc = "idle" /\ ~env.enabled
  /\ UNCHANGED vars

\* A unique violation is an error of the tick, which ends.
UpdateStale ==
  /\ poll.pc = "update"
  /\ LET t == requeue_stale_errors(rows, poll.batch)
     IN IF IndexesHold(t)
          THEN rows' = t /\ poll' = [poll EXCEPT !.pc = "queue", !.batch = {}]
          ELSE UNCHANGED rows /\ poll' = Idle
  /\ UNCHANGED <<files, task, retries, env, began>>

DirectActive == {id \in Ids : rows[id].status = "downloading" /\ rows[id].file_path # Null}

Budget(n) == IF n >= MaxActive THEN 0 ELSE MaxActive - n

(* The queue and the budget are read once per tick (an empty queue ends     *)
(* it); a failing count leaves the budget whole.                            *)
FetchQueued ==
  /\ poll.pc = "queue"
  /\ LET queued == {id \in Ids : rows[id].status = "queued"}
     IN IF queued = {} THEN poll' = Idle
        ELSE \E n \in {Cardinality(DirectActive)} \cup (IF DbBlips THEN {0} ELSE {}) :
               poll' = [Idle EXCEPT !.pc = "claim", !.todo = queued,
                                    !.budget = Budget(n)]
  /\ PollerOnly

\* ORDER BY id ASC
First(S) == {id \in S : \A o \in S : id <= o}

\* Mutant: a claim does not spend budget.
ClaimNext_free ==
  /\ poll.pc = "claim"
  /\ \E id \in First(poll.todo) :
       LET rest == IF poll.todo = {id} THEN Idle ELSE [poll EXCEPT !.todo = @ \ {id}]
       IN \/ MarkError(id, "fatal") /\ poll' = rest /\ UNCHANGED <<task, began>>
          \/ poll.budget = 0 /\ poll' = rest /\ UNCHANGED <<rows, task, began>>
          \/ /\ poll.budget > 0
             /\ rows' = claim_direct(rows, id, PartOf(id))
             /\ poll' = rest
             /\ IF rows[id].status = "queued"
                  THEN /\ task' = [task EXCEPT ![id] = [NoTask EXCEPT !.pc = "start"]]
                       /\ began' = began \cup {id}
                  ELSE UNCHANGED <<task, began>>
  /\ UNCHANGED <<files, retries, env>>

\* One row of process_queued: refused, left for the next tick, or claimed and spawned.
ClaimNext ==
  /\ poll.pc = "claim"
  /\ \E id \in First(poll.todo) :
       LET rest(b) == IF poll.todo = {id} THEN Idle
                      ELSE [poll EXCEPT !.todo = @ \ {id}, !.budget = b]
       IN \/ /\ MarkError(id, "fatal")
             /\ poll' = rest(poll.budget) /\ UNCHANGED <<task, began>>
          \/ /\ poll.budget = 0
             /\ poll' = rest(0) /\ UNCHANGED <<rows, task, began>>
          \/ /\ poll.budget > 0 /\ rows[id].status = "queued"
             /\ rows' = claim_direct(rows, id, PartOf(id))
             /\ task' = [task EXCEPT ![id] = [NoTask EXCEPT !.pc = "start"]]
             /\ began' = began \cup {id}
             /\ poll' = rest(poll.budget - 1)
          \/ /\ poll.budget > 0 /\ rows[id].status # "queued"     \* cancelled meanwhile
             /\ poll' = rest(poll.budget) /\ UNCHANGED <<rows, task, began>>
  /\ UNCHANGED <<files, retries, env>>

\* Mutant: the terminal history is not consulted.
queue_opds_updates_blind(id) ==
  /\ poll.pc = "idle" /\ env.enabled
  /\ NextId(rows, id)
  /\ \E u \in Feed :
       /\ ~ActiveClash(rows, id, u[1], u[2])
       /\ rows' = insert_download(rows, id, u[1], u[2], u[3])
  /\ UNCHANGED <<files, task, others>>

\* opds_check runs between ticks; one announced update at a time.
queue_opds_updates(id) ==
  /\ poll.pc = "idle" /\ env.enabled
  /\ NextId(rows, id)
  /\ \E u \in Feed :
       /\ ~ActiveClash(rows, id, u[1], u[2])
       /\ \A o \in Ids : rows[o].url = u[2] /\ rows[o].status \in {"complete", "seeding"}
            => u[3] # Null /\ rows[o].sha256 # u[3]
       /\ rows' = insert_download(rows, id, u[1], u[2], u[3])
  /\ UNCHANGED <<files, task, others>>

PollerStep ==
  \/ Boot \/ fetch_resumable_part_paths \/ Retry \/ Sweep
  \/ Tick \/ TickDisabled \/ UpdateStale \/ FetchQueued \/ ClaimNext

-----------------------------------------------------------------------------
(* Time, the operator and the process.                                      *)

\* Ten minutes pass over an error row the requeue pass may pick up.
Age(id) ==
  /\ rows[id].status = "error" /\ rows[id].error = "transient" /\ ~rows[id].aged
  /\ rows' = [rows EXCEPT ![id].aged = TRUE]
  /\ UNCHANGED <<files, task, others>>

FlipSwitch ==
  /\ env.toggles < MaxToggles
  /\ env' = [env EXCEPT !.enabled = ~@, !.toggles = @ + 1]
  /\ UNCHANGED <<rows, files, task, poll, retries, began>>

\* The process dies and starts again: table and files stay, the rest is gone.
Crash ==
  /\ env.crashes < MaxCrashes
  /\ env' = [env EXCEPT !.crashes = @ + 1, !.reconciled = FALSE]
  /\ task' = [id \in Ids |-> NoTask]
  /\ poll' = [Idle EXCEPT !.pc = "boot"]
  /\ retries' = [id \in Ids |-> 0]
  /\ UNCHANGED <<rows, files, began>>

-----------------------------------------------------------------------------
Init ==
  /\ rows = [id \in Ids |-> NoRow]
  /\ files = [p \in Paths |-> Null]
  /\ task = [id \in Ids |-> NoTask]
  /\ poll = [Idle EXCEPT !.pc = "boot"]
  /\ retries = [id \in Ids |-> 0]
  /\ \E on \in BOOLEAN :
       env = [enabled |-> on, reconciled |-> FALSE, crashes |-> 0, toggles |-> 0]
  /\ began = {}

Next ==
  \/ \E id \in Ids : \/ TaskStep(id) \/ add_download(id) \/ cancel(id)
                     \/ queue_opds_updates(id) \/ Age(id)
  \/ PollerStep \/ PollerError
  \/ FlipSwitch \/ Crash

Spec == Init /\ [][Next]_vars

TypeOK ==
  /\ rows \in Table
  /\ files \in [Paths -> Seq(Chunk) \cup {Null}]
  /\ task \in [Ids -> Task]
  /\ poll \in Poll
  /\ retries \in [Ids -> Nat]
  /\ env \in [enabled : BOOLEAN, reconciled : BOOLEAN, crashes : Nat, toggles : Nat]
  /\ began \subseteq Ids

(***************************************************************************)
(* Properties.                                                             *)
(***************************************************************************)

\* Tasks that may still read, write, move or publish the staged file.
Using(id) == task[id].pc \notin {"none", "drop_part"}

(* Of all tasks working on one `{name}.part`, at most one belongs to a row  *)
(* that was not cancelled: claims, requeues, restarts and inserts never     *)
(* put two live downloads on the same staged file (claim_direct,            *)
(* insert_download, requeue_stale_errors, retry_interrupted_directs).       *)
SingleLiveWriter ==
  \A a, b \in Ids :
    /\ a # b /\ Using(a) /\ Using(b)
    /\ rows[a].name = rows[b].name
    => rows[a].status = "cancelled" \/ rows[b].status = "cancelled"

(* Every way a transfer task can end settles its row: once the startup      *)
(* reconcile has run, no row says `downloading` without a task behind it    *)
(* (spawn_direct marks every Err), unless a failing mark_error write was    *)
(* swallowed.                                                               *)
NoStuckRow ==
  ~DbBlips /\ env.reconciled =>
    \A id \in Ids : rows[id].status = "downloading" => Running(id)

(* process_queued never has more than torrent.max_active direct downloads   *)
(* in flight, although the budget is read once and spent over many awaits.  *)
BudgetRespected == ~DbBlips => Cardinality(DirectActive) <= MaxActive

\* Another download of this name was cancelled after its transfer began.
CancelledNamesake(id) ==
  \E o \in began \ {id} : rows[o].name = rows[id].name /\ rows[o].status = "cancelled"

(* A `complete` row's file is there and holds the bytes whose digest the    *)
(* row records, although hashing, re-checks, rename and settlement of       *)
(* finalize_direct_download are separate steps.  A cancelled transfer of    *)
(* the same name that is still draining is the exception, see               *)
(* CompleteHasFile.                                                         *)
InstalledBytes ==
  \A id \in Ids :
    rows[id].status = "complete" /\ ~CancelledNamesake(id) =>
      LET c == files[rows[id].file_path] IN c # Null /\ Digest(c) = rows[id].sha256

(* The OPDS check never installs one version of a URL twice: its dedup      *)
(* against the terminal history and the digest check of finalize together   *)
(* leave at most one `complete` row per URL and digest, unless one of the   *)
(* two rows had failed and came back through the requeue pass, which does   *)
(* not consult the history.                                                 *)
FeedInstallsOnce ==
  Requests = {} /\ env.crashes = 0 =>
    \A a, b \in Ids :
      /\ a # b /\ rows[a].status = "complete" /\ rows[b].status = "complete"
      /\ retries[a] = 0 /\ retries[b] = 0
      => <<rows[a].url, rows[a].sha256>> # <<rows[b].url, rows[b].sha256>>

(* The startup sweep never deletes the `.part` of a transfer that will      *)
(* resume: the protect-set read before retry_interrupted_directs covers     *)
(* interrupted, requeued and failed rows, however often the process dies.   *)
ResumeSurvivesRestart ==
  [][poll.pc = "sweep" =>
       \A id \in began : rows[id].status \in {"queued", "downloading", "error"}
                          => files'[PartOf(id)] = files[PartOf(id)]]_vars

statuses == [id \in Ids |-> rows[id].status]

(* Every row moves only along the edges of can_transition_to, whatever      *)
(* interleaves.                                                             *)
Lifecycle == INSTANCE DownloadLifecycle WITH status <- statuses

FollowsLifecycle == Lifecycle!Spec

(***************************************************************************)
(* Fairness: the poller loops forever, the runtime polls every spawned     *)
(* task, the HTTP client bounds every read (60 s idle) and time passes.    *)
(* Nothing is assumed of users, the operator, servers or crashes.          *)
(***************************************************************************)
FairSpec ==
  /\ Spec
  /\ WF_vars(PollerStep)
  /\ \A id \in Ids : WF_vars(TaskStep(id)) /\ WF_vars(Age(id))


(***************************************************************************)
(* The inductive invariant behind the theorems.                            *)
(***************************************************************************)

\* Where a task may be when its row's cancel has been observed.
Abandoned == {"drain", "discard", "unlink"}

TaskRow(id) ==
  Running(id) =>
    \/ rows[id].status = "cancelled"
    \/ rows[id].status = "downloading" /\ task[id].pc \notin Abandoned
    \/ rows[id].status = "error" /\ rows[id].error = "fatal" /\ task[id].pc = "drop_part"

Starting == {"boot", "protect", "retry", "sweep"}

PollShape ==
  /\ poll.pc \in Starting => \A id \in Ids : ~Running(id)
  /\ poll.pc # "update" => poll.batch = {}
  /\ poll.pc = "claim" <=> poll.todo # {}
  /\ \A id \in poll.batch : rows[id].status = "error" /\ rows[id].error = "transient"
  /\ \A id \in poll.todo : rows[id].status \in {"queued", "cancelled"}

Filled(id) == rows[id].status # "none" => rows[id].name \in Names /\ rows[id].url \in Urls

\* An open file that is linked at a path is that path's file.
Linked(id) == task[id].at # Null => Running(id) /\ files[task[id].at] # Null

\* A row that says `downloading` has a task that will still settle it.
Attended(id) == rows[id].status = "downloading" => Using(id)

AllAttended == ~DbBlips /\ env.reconciled => \A id \in Ids : Attended(id)

\* What the sweep will keep, once it is decided.
Protected ==
  /\ \A id \in began : rows[id].status # "none"
  /\ poll.pc \in {"retry", "sweep"} =>
       \A id \in began : rows[id].status \in {"queued", "downloading", "error"}
                          => PartOf(id) \in poll.protect

IInv ==
  /\ TypeOK
  /\ \A id \in Ids : Filled(id) /\ TaskRow(id) /\ Linked(id)
  /\ PollShape
  /\ IndexesHold(rows)

(***************************************************************************)
(* What the repository says and the code does not do.                      *)
(***************************************************************************)

(* resume_plan's comment: the bytes of a `.part` that a transfer resumes    *)
(* from are a true prefix of its source.                                    *)
PartIsPrefix ==
  \A id \in Ids :
    task[id].pc = "request" /\ rows[id].status = "downloading" =>
      \A i \in 1..task[id].from : files[PartOf(id)][i] = <<Url(id), i>>

(* docs/qbittorrent.md: the file of a `complete` row was verified and       *)
(* installed into the ZIM directory; discard_if_unowned is there so that no *)
(* other row's file is deleted.                                             *)
CompleteHasFile ==
  \A id \in Ids : rows[id].status = "complete" => files[rows[id].file_path] # Null
==============================================================================
