---------------------------- MODULE DownloadsTable ----------------------------
(***************************************************************************)
(* The `downloads` table: one operator per guarded statement of            *)
(* db/downloads.rs and db/downloads_lifecycle.rs.  An operator takes the   *)
(* table t and returns it after the statement; when the WHERE clause does  *)
(* not match, t is returned unchanged (a row count of 0).                  *)
(*                                                                         *)
(* Columns the code never branches on (progress, speed, eta, seed counts)  *)
(* are left out.  `error` keeps what the code tells apart: whether the     *)
(* message matches REQUEUE_ERROR_PATTERN ("transient") or not ("fatal").   *)
(* `aged` is `updated_at < now() - 10 minutes`, the one horizon both the   *)
(* requeue pass and the missing-torrent grace measure.                     *)
(***************************************************************************)
EXTENDS Naturals

CONSTANTS
  MaxRows,    \* bound: rows ever inserted (SERIAL ids are never reused)
  Names,      \* display names
  Urls,       \* source URLs
  Hashes,     \* torrent info-hashes
  Corrupt,    \* the digest of bytes that are no source's file
  Null        \* SQL NULL

ASSUME TableAssumption ==
  /\ MaxRows \in Nat
  /\ Null \notin Names \cup Urls \cup Hashes \cup {Corrupt}
  /\ Corrupt \notin Urls
  /\ Null \notin {"part", "zim"} \X Names

Ids == 1..MaxRows

\* The SHA-256 of the file at a URL is named by the URL.
Digests == Urls \cup {Corrupt}

\* Files under the ZIM directory: the staged `{name}.part` and the installed file.
Part(name) == <<"part", name>>
Zim(name)  == <<"zim", name>>
Paths == {"part", "zim"} \X Names

Status == {"none", "queued", "downloading", "complete", "seeding", "error", "cancelled"}

Row == [name      : Names \cup {Null},
        url       : Urls \cup {Null},
        status    : Status,
        hash      : Hashes \cup {Null},
        file_path : Paths \cup {Null},
        error     : {Null, "transient", "fatal"},
        sha256    : Digests \cup {Null},
        aged      : BOOLEAN]

NoRow == [name |-> Null, url |-> Null, status |-> "none", hash |-> Null,
          file_path |-> Null, error |-> Null, sha256 |-> Null, aged |-> FALSE]

Table == [Ids -> Row]

Active == {"queued", "downloading"}                      \* the partial unique indexes
Live   == {"queued", "downloading", "complete", "seeding"}

(***************************************************************************)
(* Inserting.  The unique indexes idx_downloads_active_url and             *)
(* uq_downloads_active_name decide; the SELECT before the INSERT is only   *)
(* fast feedback.                                                          *)
(***************************************************************************)
\* Mutant: uq_downloads_active_name is missing.
ActiveClash_url(t, id, name, url) ==
  \E o \in Ids \ {id} : t[o].status \in Active /\ t[o].url = url

ActiveClash(t, id, name, url) ==
  \E o \in Ids \ {id} : t[o].status \in Active /\ (t[o].name = name \/ t[o].url = url)

NextId(t, id) == t[id].status = "none" /\ \A o \in Ids : o < id => t[o].status # "none"

insert_download(t, id, name, url, claim) ==
  [t EXCEPT ![id] = [NoRow EXCEPT !.name = name, !.url = url, !.status = "queued",
                                  !.sha256 = claim]]

cancel_download(t, id) ==
  IF t[id].status \in Active
    THEN [t EXCEPT ![id] = [@ EXCEPT !.status = "cancelled", !.aged = FALSE]]
    ELSE t

(***************************************************************************)
(* The transitions of the lifecycle module.                                *)
(***************************************************************************)
claim_direct(t, id, part) ==
  IF t[id].status = "queued"
    THEN [t EXCEPT ![id] = [@ EXCEPT !.status = "downloading", !.file_path = part,
                                       !.aged = FALSE]]
    ELSE t

\* Mutant: no terminal-state guard.
mark_error_unguarded(t, id, msg) ==
  [t EXCEPT ![id] = [@ EXCEPT !.status = "error", !.error = msg, !.aged = FALSE]]

mark_error(t, id, msg) ==
  IF t[id].status \notin {"none", "cancelled", "complete", "seeding", "error"}
    THEN [t EXCEPT ![id] = [@ EXCEPT !.status = "error", !.error = msg, !.aged = FALSE]]
    ELSE t

finalize_direct(t, id, dst, digest) ==
  IF t[id].status = "downloading"
    THEN [t EXCEPT ![id] = [@ EXCEPT !.status = "complete", !.file_path = dst,
                                       !.sha256 = digest, !.aged = FALSE]]
    ELSE t

\* UPDATE ... SET status = 'queued' WHERE id = ANY(batch) AND status = 'error'
requeue_stale_errors(t, batch) ==
  [id \in Ids |->
    IF id \in batch /\ t[id].status = "error"
      THEN [t[id] EXCEPT !.status = "queued", !.error = Null, !.aged = FALSE]
      ELSE t[id]]

\* Startup: every interrupted download of a direct URL goes back to the queue.
retry_interrupted_directs(t, direct) ==
  [id \in Ids |->
    IF t[id].status = "downloading" /\ t[id].url \in direct
      THEN [t[id] EXCEPT !.status = "queued", !.file_path = Null, !.error = Null, !.aged = FALSE]
      ELSE t[id]]

(***************************************************************************)
(* The statements of the torrent path.                                     *)
(***************************************************************************)
mark_downloading(t, id) ==
  IF t[id].status = "queued"
    THEN [t EXCEPT ![id] = [@ EXCEPT !.status = "downloading", !.aged = FALSE]]
    ELSE t

\* Mutant: no guard on the status.
mark_fatal_error_unguarded(t, id, msg) ==
  [t EXCEPT ![id] = [@ EXCEPT !.status = "error", !.error = msg, !.aged = FALSE]]

mark_fatal_error(t, id, msg) ==
  IF t[id].status \in {"queued", "downloading"}
    THEN [t EXCEPT ![id] = [@ EXCEPT !.status = "error", !.error = msg, !.aged = FALSE]]
    ELSE t

\* Unguarded on the status: a cancelled row may still get its binding.
bind_hash(t, id, hash) == [t EXCEPT ![id] = [@ EXCEPT !.hash = hash, !.aged = FALSE]]

clear_hash(t, id) == bind_hash(t, id, Null)

drain_cancelled_hashes(t) ==
  [id \in Ids |-> IF t[id].status = "cancelled" THEN [t[id] EXCEPT !.hash = Null] ELSE t[id]]

touch_downloading(t, id) ==
  IF t[id].status = "downloading" THEN [t EXCEPT ![id] = [@ EXCEPT !.aged = FALSE]] ELSE t

completion_guard_statuses == {"downloading", "complete"}

mark_complete(t, id, dst, status) ==
  IF t[id].status \in completion_guard_statuses
    THEN [t EXCEPT ![id] = [@ EXCEPT !.status = status, !.file_path = dst, !.error = Null,
                                       !.aged = FALSE]]
    ELSE t

settle_seeding(t, id, msg) ==
  IF t[id].status = "seeding"
    THEN [t EXCEPT ![id] = [@ EXCEPT !.status = "complete", !.aged = FALSE,
                                       !.error = IF msg = Null THEN @ ELSE msg]]
    ELSE t

refresh_seeding_stats(t, id) ==
  IF t[id].status = "seeding" THEN [t EXCEPT ![id] = [@ EXCEPT !.aged = FALSE]] ELSE t

\* Refused by the unique indexes for a name or URL that is in flight.
adopt_torrent(t, id, name, url, hash, status) ==
  IF \/ \E o \in Ids : t[o].hash = hash
     \/ status \in Active /\ ActiveClash(t, id, name, url)
    THEN t
    ELSE [t EXCEPT ![id] = [NoRow EXCEPT !.name = name, !.url = url, !.hash = hash,
                                         !.status = status]]

\* The unique indexes hold of a table; an UPDATE that would break them is refused (23505).
IndexesHold(t) ==
  \A a, b \in Ids :
    a # b /\ t[a].status \in Active /\ t[b].status \in Active
      => t[a].name # t[b].name /\ t[a].url # t[b].url

(***************************************************************************)
(* The ownership question both install paths ask.                          *)
(***************************************************************************)
\* Mutant: only rows still in flight own a path.
find_live_row_owns_path_active(t, path, id) ==
  {o \in Ids \ {id} : t[o].file_path = path /\ t[o].status \in Active}

find_live_row_owns_path(t, path, id) ==
  {o \in Ids \ {id} : t[o].file_path = path /\ t[o].status \in Live}

find_same_name_live_row(t, name, id) ==
  {o \in Ids \ {id} : t[o].name = name /\ t[o].status \in Live}
===============================================================================
