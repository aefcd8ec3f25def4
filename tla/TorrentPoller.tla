----------------------------- MODULE TorrentPoller -----------------------------
(***************************************************************************)
(* Torrent downloads: HTTP handlers insert and cancel rows, the poller     *)
(* adds queued rows to qBittorrent, follows them there and installs what   *)
(* has finished.  The poller is one task, but every call it makes awaits:  *)
(* users, the operator and qBittorrent move between its steps, so that the *)
(* torrent list and the rows it read are stale when it uses them.  The     *)
(* process may crash at any step and reconciles at the next start.         *)
(*                                                                         *)
(* Only torrent URLs appear here; DirectDownloads has the others.  A file  *)
(* in the library holds the content of the torrent it came from.           *)
(***************************************************************************)
EXTENDS DownloadsTable, FiniteSets, FiniteSetsExt

CONSTANTS
  HashOf,         \* HashOf[u]: the info-hash of the torrent at URL u
  NameOf,         \* NameOf[h]: the name qBittorrent lists torrent h under
  FileOf,         \* FileOf[h]: the stem of the one .zim that torrent h contains
  AdoptUrl,       \* AdoptUrl[h]: the URL qbt://h of an adopted row
  Requests,       \* <<name, url>>: bodies of POST /downloads
  MaxActive,      \* torrent.max_active
  KeepCompleted,  \* torrent.keep_completed
  MaxFaults,      \* bound: failing qBittorrent, database or file-system calls
  MaxCrashes,     \* bound: process crashes
  MaxMeddling,    \* bound: torrents and library files a user removes or adds
  MaxToggles      \* bound: flips of whether torrent.url is set

ASSUME TorrentAssumption ==
  /\ HashOf \in [Urls -> Hashes] /\ AdoptUrl \in [Hashes -> Urls]
  /\ NameOf \in [Hashes -> Names] /\ FileOf \in [Hashes -> Names]
  /\ Urls \subseteq Names                 \* a torrent may be adopted under its URL
  /\ Requests \subseteq Names \X Urls
  /\ MaxActive \in Nat /\ KeepCompleted \in BOOLEAN
  /\ {MaxFaults, MaxCrashes, MaxMeddling, MaxToggles} \subseteq Nat

VARIABLES
  rows,    \* the downloads table
  files,   \* files[p]: the torrent whose content is at path p, Null when no file is
  qb,      \* qb[h]: torrent h in qBittorrent (all of them in our category)
  poll,    \* the poller: its program counter and what it holds across awaits
  env      \* whether qBittorrent is configured, and the bounded disturbances so far

vars == <<rows, files, qb, poll, env>>

-----------------------------------------------------------------------------
(* qBittorrent.  While it fetches metadata it names a torrent by its URL.   *)

Torrent == [state : {"absent", "meta", "down", "done", "fatal"}, url : Urls \cup {Null}]

Absent == [state |-> "absent", url |-> Null]
Empty  == [h \in Hashes |-> Absent]

Present(list, h) == list[h].state # "absent"

ListedName(list, h) == IF list[h].state = "meta" THEN list[h].url ELSE NameOf[h]

is_complete(t) == t.state = "done"
is_active_download(t) == t.state \in {"meta", "down"}
is_fatal(t) == t.state = "fatal"

\* Adding what is already there changes nothing.
add_torrent(u) ==
  qb' = [qb EXCEPT ![HashOf[u]] = IF @ = Absent THEN [state |-> "meta", url |-> u] ELSE @]

delete(h) == qb' = [qb EXCEPT ![h] = Absent]

-----------------------------------------------------------------------------
(* The poller.                                                              *)

Poll ==
  [pc       : {"boot", "idle", "fetch", "cancelled", "queued", "added", "compensate", "inflight",
               "guard", "install", "resync", "settle", "discard", "drop", "adopt"},
   starting : BOOLEAN,                      \* reconcile runs, not tick
   client   : BOOLEAN,                      \* qbit.is_some()
   avail    : BOOLEAN,                      \* qb_available
   seen     : [Hashes -> Torrent],          \* the torrent list of this cycle
   view     : Table,                        \* the rows as the loop's SELECT read them
   todo     : SUBSET Ids,                   \* rows the loop still has to visit
   adopt    : SUBSET Hashes,                \* torrents the adoption loop still has to visit
   consumed : SUBSET Hashes,                \* torrents matched by a row of this loop
   budget   : 0..MaxActive,
   id       : Ids \cup {0},                 \* the row in hand
   h        : Hashes \cup {Null},           \* its torrent
   added    : Names \cup {Null},            \* what add_torrent answered
   skipped  : BOOLEAN]                      \* skipped_existing

Booting ==
  [pc |-> "boot", starting |-> FALSE, client |-> FALSE, avail |-> FALSE, seen |-> Empty,
   view |-> [i \in Ids |-> NoRow], todo |-> {}, adopt |-> {}, consumed |-> {}, budget |-> 0,
   id |-> 0, h |-> Null, added |-> Null, skipped |-> FALSE]

Idle == [Booting EXCEPT !.pc = "idle"]

In(pc) == poll.pc = pc
Go(pc) == poll' = [poll EXCEPT !.pc = pc]

\* The row in hand is done with; the loop takes the next one.
NextRow == [poll EXCEPT !.pc = "inflight", !.id = 0, !.h = Null, !.skipped = FALSE]

Calm  == UNCHANGED env
Fault == env.faults < MaxFaults /\ env' = [env EXCEPT !.faults = @ + 1]

AnyError == {"transient", "fatal"}

dst == Zim(FileOf[poll.h])
row == poll.view[poll.id]

\* The destination: the claimed path when its file exists, else the content's name.
expected_dst == IF poll.skipped THEN row.file_path ELSE dst

-----------------------------------------------------------------------------
(* Start: reconcile once, when a client resolves and lists its torrents.    *)

Boot ==
  /\ In("boot")
  /\ \/ /\ env.configured /\ Calm
        /\ poll' = [Booting EXCEPT !.pc = "inflight", !.starting = TRUE, !.client = TRUE,
              !.avail = TRUE, !.seen = qb, !.view = rows,
              !.todo = {id \in Ids : rows[id].status \in {"downloading", "complete", "seeding"}}]
     \/ /\ (~env.configured /\ Calm) \/ Fault
        /\ poll' = Idle
  /\ UNCHANGED <<rows, files, qb>>

-----------------------------------------------------------------------------
(* A tick: requeue, skip check, qBittorrent's list, then the three loops.   *)

\* Error rows the requeue pass takes: aged, transient, no active row of the name.
Requeueable ==
  {id \in Ids : /\ rows[id].status = "error" /\ rows[id].error = "transient" /\ rows[id].aged
                /\ \A o \in Ids : rows[o].status \in Active => rows[o].name # rows[id].name}

\* filter_requeue_name_collisions keeps the newest of several candidates of one name.
StaleErrors == {id \in Requeueable : \A o \in Requeueable : rows[o].name = rows[id].name => o <= id}

\* Nothing a tick processes.
should_skip_tick(t) ==
  ~ \E id \in Ids : \/ t[id].status \in {"queued", "downloading", "seeding"}
                    \/ t[id].status = "cancelled" /\ t[id].hash # Null

\* A requeue UPDATE that the unique indexes refuse ends the tick.
tick ==
  /\ In("idle")
  /\ LET t == requeue_stale_errors(rows, StaleErrors)
     IN IF ~IndexesHold(t)
          THEN UNCHANGED <<rows, poll, env>>
          ELSE /\ rows' = t
               /\ \/ should_skip_tick(t) /\ Calm /\ UNCHANGED poll
                  \/ /\ ~should_skip_tick(t) /\ Calm
                     /\ poll' = [Idle EXCEPT !.pc = "fetch", !.client = env.configured]
                  \/ /\ ~should_skip_tick(t) /\ env.configured /\ Fault
                     /\ poll' = [Idle EXCEPT !.pc = "fetch"]
  /\ UNCHANGED <<files, qb>>

\* Mutant: nothing is drained while qBittorrent is not configured.
fetch_qb_state_undrained ==
  /\ In("fetch")
  /\ LET At(list, up) ==
           poll' = [poll EXCEPT !.pc = "cancelled", !.avail = up, !.seen = list,
             !.todo = {id \in Ids : rows[id].status = "cancelled" /\ rows[id].hash # Null}]
     IN \/ poll.client /\ Calm /\ At(qb, TRUE)
        \/ ~poll.client /\ Calm /\ At(Empty, FALSE)
        \/ poll.client /\ Fault /\ At(Empty, FALSE)
  /\ UNCHANGED <<rows, files, qb>>

\* The list, then the SELECT of process_cancelled (and its drain when not configured).
fetch_qb_state ==
  /\ In("fetch")
  /\ LET At(list, up) ==
           poll' = [poll EXCEPT !.pc = "cancelled", !.avail = up, !.seen = list,
             !.todo = {id \in Ids : rows[id].status = "cancelled" /\ rows[id].hash # Null}]
     IN \/ poll.client /\ Calm /\ At(qb, TRUE)
        \/ ~poll.client /\ Calm /\ At(Empty, FALSE)
        \/ poll.client /\ Fault /\ At(Empty, FALSE)
  /\ rows' = IF poll.client \/ env.configured THEN rows ELSE drain_cancelled_hashes(rows)
  /\ UNCHANGED <<files, qb>>

\* A failing removal keeps the binding for the next tick; so does a failing clear_hash.
status_if_changed(id) ==
  \/ Calm /\ delete(rows[id].hash) /\ rows' = clear_hash(rows, id)
  \/ Fault /\ delete(rows[id].hash) /\ UNCHANGED rows
  \/ Fault /\ UNCHANGED <<rows, qb>>

process_cancelled(id) ==
  /\ In("cancelled") /\ id \in poll.todo
  /\ poll' = [poll EXCEPT !.todo = @ \ {id}]
  /\ \/ poll.client /\ status_if_changed(id)
     \/ ~poll.client /\ Calm /\ UNCHANGED <<rows, qb>>
  /\ UNCHANGED files

\* Mutant: the budget is not clamped at zero.
SelectQueued_unclamped ==
  /\ In("cancelled") /\ poll.todo = {}
  /\ poll' = [poll EXCEPT !.pc = "queued", !.todo = {id \in Ids : rows[id].status = "queued"},
       !.budget = MaxActive - Cardinality({h \in Hashes : is_active_download(poll.seen[h])})]
  /\ UNCHANGED <<rows, files, qb, env>>

SelectQueued ==
  /\ In("cancelled") /\ poll.todo = {}
  /\ LET active == Cardinality({h \in Hashes : is_active_download(poll.seen[h])})
     IN poll' = [poll EXCEPT !.pc = "queued",
                   !.todo = {id \in Ids : rows[id].status = "queued"},
                   !.budget = IF active < MaxActive THEN MaxActive - active ELSE 0]
  /\ UNCHANGED <<rows, files, qb, env>>

(* One queued row, in id order.  qBittorrent answers 2xx with the torrent's *)
(* name or with a message, and may then have added nothing.                 *)
process_queued(id) ==
  /\ In("queued") /\ poll.todo # {} /\ id = Min(poll.todo)
  /\ LET next == [poll EXCEPT !.todo = @ \ {id}]
         unconfigured == ~poll.client /\ ~env.configured
         capacity == poll.client /\ poll.avail /\ poll.budget > 0
         Added(name) == poll' = [next EXCEPT !.pc = "added", !.id = id, !.added = name]
     IN \/ /\ unconfigured /\ Calm
           /\ rows' = mark_fatal_error(rows, id, "fatal")
           /\ poll' = next /\ UNCHANGED qb
        \/ /\ ~unconfigured /\ ~capacity /\ Calm
           /\ poll' = next /\ UNCHANGED <<rows, qb>>
        \/ /\ capacity /\ Calm
           /\ add_torrent(rows[id].url)
           /\ Added(ListedName(qb', HashOf[rows[id].url]))
           /\ UNCHANGED rows
        \/ /\ capacity /\ Fault
           /\ \/ add_torrent(rows[id].url) /\ Added(Null) /\ UNCHANGED rows
              \/ Added(Null) /\ UNCHANGED <<rows, qb>>
              \/ /\ \E msg \in AnyError : rows' = mark_fatal_error(rows, id, msg)
                 /\ poll' = next /\ UNCHANGED qb
  /\ UNCHANGED files


\* The claim; a row that is no longer queued (or a swallowed failure) is compensated.
ClaimAdded ==
  /\ In("added")
  /\ \/ /\ rows[poll.id].status = "queued" /\ Calm
        /\ rows' = mark_downloading(rows, poll.id)
        /\ poll' = [poll EXCEPT !.pc = "queued", !.budget = @ - 1, !.id = 0, !.added = Null]
     \/ /\ (rows[poll.id].status # "queued" /\ Calm) \/ Fault
        /\ Go("compensate") /\ UNCHANGED rows
  /\ UNCHANGED <<files, qb>>

\* The first torrent listed now under the answered name is deleted.
remove_just_added_torrent ==
  /\ In("compensate")
  /\ LET candidates == {h \in Hashes : Present(qb, h) /\ ListedName(qb, h) = poll.added}
     IN \/ Calm /\ \E h \in candidates : delete(h)
        \/ candidates = {} /\ Calm /\ UNCHANGED qb
        \/ Fault /\ UNCHANGED qb
  /\ poll' = [poll EXCEPT !.pc = "queued", !.id = 0, !.added = Null]
  /\ UNCHANGED <<rows, files>>

SelectInflight ==
  /\ In("queued") /\ poll.todo = {}
  /\ poll' = [poll EXCEPT !.pc = "inflight", !.view = rows, !.budget = 0,
                !.todo = {id \in Ids : rows[id].status \in {"downloading", "seeding"}}]
  /\ UNCHANGED <<rows, files, qb, env>>

-----------------------------------------------------------------------------
(* Matching a row with a torrent of the list: the possible answers.  Of     *)
(* several torrents of one name the list's map holds any one.               *)

ByName(r) ==
  LET listed(n) == {h \in Hashes : Present(poll.seen, h) /\ ListedName(poll.seen, h) = n}
      named == IF listed(r.name) # {} THEN listed(r.name) ELSE listed(r.url)
  IN IF named = {} THEN {Null} ELSE {IF h \in poll.consumed THEN Null ELSE h : h \in named}

Bound(r) == r.hash # Null /\ Present(poll.seen, r.hash)

\* In a tick a bound row matches by its hash only.
match_inflight_torrent(r) ==
  IF Bound(r) THEN {r.hash} ELSE IF r.hash # Null THEN {Null} ELSE ByName(r)

\* At the start the name is the fallback of a bound row as well.
MatchAtStart(r) == IF Bound(r) THEN {r.hash} ELSE ByName(r)

\* Row id is visited and matches torrent h, or none when h is Null.
Visits(id, h) ==
  /\ In("inflight") /\ id \in poll.todo /\ poll.client
  /\ h \in IF poll.starting THEN MatchAtStart(poll.view[id])
                             ELSE match_inflight_torrent(poll.view[id])

Visited(id, h) == [poll EXCEPT !.todo = @ \ {id},
                               !.consumed = IF h = Null THEN @ ELSE @ \cup {h}]

(* The file of the row's claimed path may be on disk already: the handler   *)
(* then neither verifies nor installs.                                      *)
handle_complete(id, h) ==
  LET p == poll.view[id].file_path
  IN [Visited(id, h) EXCEPT !.pc = "guard", !.id = id, !.h = h,
                            !.skipped = p # Null /\ files[p] # Null]

\* Bound and refreshed: what a visible torrent does to its row before it is judged.
Seen(id, h) ==
  LET t == IF poll.view[id].aged /\ ~poll.starting THEN touch_downloading(rows, id) ELSE rows
  IN IF poll.view[id].hash # h THEN bind_hash(t, id, h) ELSE t

VisibleRow(id, h) ==
  /\ Visits(id, h) /\ h # Null /\ poll.view[id].status = "downloading"
  /\ LET t == poll.seen[h]
     IN \/ /\ is_fatal(t) /\ ~poll.starting
           /\ \E msg \in AnyError : rows' = mark_fatal_error(Seen(id, h), id, msg)
           /\ poll' = Visited(id, h)
        \/ is_complete(t) /\ rows' = Seen(id, h) /\ poll' = handle_complete(id, h)
        \/ /\ ~is_complete(t) /\ (poll.starting \/ ~is_fatal(t))
           /\ rows' = Seen(id, h) /\ poll' = Visited(id, h)
  /\ UNCHANGED <<files, qb, env>>

\* Mutant: a row whose torrent is gone waits for it.
MissingRow_waiting(id) ==
  /\ Visits(id, Null) /\ poll.view[id].status = "downloading"
  /\ poll' = Visited(id, Null)
  /\ UNCHANGED <<rows, files, qb, env>>

\* Only the missing-torrent grace, and only while qBittorrent answers, fails the row.
MissingRow(id) ==
  /\ Visits(id, Null) /\ poll.view[id].status = "downloading"
  /\ rows' = IF poll.avail /\ poll.view[id].aged THEN mark_fatal_error(rows, id, "fatal") ELSE rows
  /\ poll' = Visited(id, Null)
  /\ UNCHANGED <<files, qb, env>>

\* seeding_row_action; at the start there is no grace.
SeedingRow(id, h) ==
  /\ Visits(id, h) /\ poll.view[id].status = "seeding"
  /\ \/ h # Null /\ is_fatal(poll.seen[h]) /\ rows' = settle_seeding(rows, id, "fatal")
     \/ h # Null /\ ~is_fatal(poll.seen[h]) /\ rows' = refresh_seeding_stats(rows, id)
     \/ /\ h = Null
        /\ rows' = IF poll.starting \/ (poll.avail /\ poll.view[id].aged)
                     THEN settle_seeding(rows, id, Null) ELSE rows
  /\ poll' = Visited(id, h)
  /\ UNCHANGED <<files, qb, env>>

\* At the start: a complete row without its file is installed again from its torrent.
CompleteRow(id, h) ==
  /\ Visits(id, h) /\ poll.view[id].status = "complete"
  /\ LET p == poll.view[id].file_path
         has_file == p # Null /\ files[p] # Null
     IN poll' = IF h # Null /\ ~has_file THEN handle_complete(id, h) ELSE Visited(id, h)
  /\ UNCHANGED <<rows, files, qb, env>>

\* Without a client every row is passed over.
EndInflight ==
  /\ In("inflight") /\ (poll.todo = {} \/ ~poll.client)
  /\ LET known == {poll.view[id].hash : id \in {i \in Ids : poll.view[i].status \in
                                                 {"downloading", "complete", "seeding"}}}
     IN poll' = IF poll.starting
                  THEN [poll EXCEPT !.pc = "adopt",
                          !.adopt = {h \in Hashes : Present(poll.seen, h)} \ (known \cup poll.consumed)]
                  ELSE Idle
  /\ UNCHANGED <<rows, files, qb, env>>

-----------------------------------------------------------------------------
(* handle_complete.                                                         *)

\* An Err is recorded on a downloading row; on a complete one it is only logged.
FailComplete(msgs) ==
  /\ poll' = NextRow
  /\ \E msg \in msgs : rows' = IF row.status = "complete" THEN rows
                                                      ELSE mark_fatal_error(rows, poll.id, msg)


\* Mutant: a row of the same torrent is taken for this one.
Collides_sametorrent ==
  \E o \in find_same_name_live_row(rows, row.name, poll.id)
          \cup find_live_row_owns_path(rows, expected_dst, poll.id) : rows[o].hash # poll.h

Collides ==
  \/ find_same_name_live_row(rows, row.name, poll.id) # {}
  \/ find_live_row_owns_path(rows, expected_dst, poll.id) # {}

CollisionGuard ==
  /\ In("guard")
  /\ \/ Collides /\ Calm /\ rows' = mark_error(rows, poll.id, "fatal") /\ poll' = NextRow
     \/ ~Collides /\ Calm /\ UNCHANGED rows /\ Go(IF poll.skipped THEN "resync" ELSE "install")
     \/ Fault /\ FailComplete({"transient"})
  /\ UNCHANGED <<files, qb>>

\* Verify and install; the content went with the torrent if a user removed it.
install_zim ==
  /\ In("install")
  /\ \/ /\ is_complete(qb[poll.h]) /\ Calm
        /\ files' = [files EXCEPT ![dst] = poll.h]
        /\ Go("resync") /\ UNCHANGED rows
     \/ ~is_complete(qb[poll.h]) /\ Calm /\ FailComplete({"fatal"}) /\ UNCHANGED files
     \/ Fault /\ FailComplete(AnyError) /\ UNCHANGED files
  /\ UNCHANGED qb

Resync ==
  /\ In("resync")
  /\ \/ Calm /\ Go("settle") /\ UNCHANGED rows
     \/ Fault /\ FailComplete(AnyError)
  /\ UNCHANGED <<files, qb>>

SettledAs == IF KeepCompleted THEN "seeding" ELSE "complete"

Settle ==
  /\ In("settle")
  /\ \/ /\ Calm
        /\ rows' = mark_complete(rows, poll.id, expected_dst, SettledAs)
        /\ Go(IF rows[poll.id].status \notin completion_guard_statuses /\ ~poll.skipped
                THEN "discard" ELSE "drop")
     \/ Fault /\ FailComplete(AnyError)
  /\ UNCHANGED <<files, qb>>

discard_if_unowned ==
  /\ In("discard")
  /\ LET owned == find_live_row_owns_path(rows, expected_dst, poll.id) # {}
     IN \/ owned /\ Calm /\ UNCHANGED files
        \/ ~owned /\ Calm /\ files' = [files EXCEPT ![expected_dst] = Null]
        \/ Fault /\ UNCHANGED files
  /\ poll' = NextRow
  /\ UNCHANGED <<rows, qb>>

\* A failing digest query or a failing removal leaves the torrent in qBittorrent.
DropCompleted ==
  /\ In("drop")
  /\ \/ ~KeepCompleted /\ Calm /\ delete(poll.h)
     \/ KeepCompleted /\ Calm /\ UNCHANGED qb
     \/ ~KeepCompleted /\ Fault /\ UNCHANGED qb
  /\ poll' = NextRow
  /\ UNCHANGED <<rows, files>>

-----------------------------------------------------------------------------
(* Adoption of torrents no row tracks, at the end of the reconciliation.    *)

AdoptAs(h) == IF is_complete(poll.seen[h]) THEN "complete" ELSE "downloading"

Adopt(h, id) ==
  /\ In("adopt") /\ h \in poll.adopt /\ NextId(rows, id)
  /\ rows' = adopt_torrent(rows, id, ListedName(poll.seen, h), AdoptUrl[h], h, AdoptAs(h))
  /\ poll' = [poll EXCEPT !.adopt = @ \ {h}]
  /\ UNCHANGED <<files, qb, env>>

\* The bound on rows also ends the loop.
EndAdopt ==
  /\ In("adopt") /\ (poll.adopt = {} \/ \A id \in Ids : ~NextId(rows, id))
  /\ poll' = Idle
  /\ UNCHANGED <<rows, files, qb, env>>

(* A pool that hands out no connection ends the tick or the reconciliation  *)
(* wherever the code asks for one; reinstalling a complete row only logs.   *)
PollerError ==
  /\ poll.pc \notin {"boot", "idle", "compensate", "discard", "drop"}
  /\ poll.id # 0 => row.status # "complete"
  /\ Fault
  /\ poll' = Idle
  /\ UNCHANGED <<rows, files, qb>>

PollerStep ==
  \/ Boot \/ tick \/ fetch_qb_state \/ SelectQueued \/ ClaimAdded \/ remove_just_added_torrent
  \/ SelectInflight \/ EndInflight \/ EndAdopt \/ PollerError
  \/ CollisionGuard \/ install_zim \/ Resync \/ Settle \/ discard_if_unowned \/ DropCompleted
  \/ \E id \in Ids :
       \/ process_cancelled(id) \/ process_queued(id) \/ MissingRow(id)
       \/ \E h \in Hashes : VisibleRow(id, h) \/ Adopt(h, id)
       \/ \E h \in Hashes \cup {Null} : SeedingRow(id, h) \/ CompleteRow(id, h)

-----------------------------------------------------------------------------
(* Everyone else.                                                           *)

add_download(id) ==
  /\ NextId(rows, id)
  /\ \E r \in Requests :
       /\ ~ActiveClash(rows, id, r[1], r[2])
       /\ rows' = insert_download(rows, id, r[1], r[2], Null)
  /\ UNCHANGED <<files, qb, poll, env>>

cancel(id) ==
  /\ rows[id].status \in Active
  /\ rows' = cancel_download(rows, id)
  /\ UNCHANGED <<files, qb, poll, env>>

\* Ten minutes pass since the row was last written.
Age(id) ==
  /\ rows[id].status \in {"downloading", "seeding", "error"} /\ ~rows[id].aged
  /\ rows' = [rows EXCEPT ![id].aged = TRUE]
  /\ UNCHANGED <<files, qb, poll, env>>

QbProgress(h) ==
  /\ \E s \in {<<"meta", "down">>, <<"down", "done">>, <<"meta", "fatal">>, <<"down", "fatal">>,
               <<"done", "fatal">>} :
       qb[h].state = s[1] /\ qb' = [qb EXCEPT ![h] = [state |-> s[2], url |-> Null]]
  /\ UNCHANGED <<rows, files, poll, env>>

Meddle == env.meddling < MaxMeddling /\ env' = [env EXCEPT !.meddling = @ + 1]

\* In qBittorrent's own interface, in our category.
UserTouchesTorrent(h) ==
  /\ Meddle
  /\ qb' = [qb EXCEPT ![h] = IF Present(qb, h) THEN Absent
                             ELSE [state |-> "down", url |-> Null]]
  /\ UNCHANGED <<rows, files, poll>>

UserRemovesFile(p) ==
  /\ files[p] # Null /\ Meddle
  /\ files' = [files EXCEPT ![p] = Null]
  /\ UNCHANGED <<rows, qb, poll>>

SetUrl ==
  /\ env.toggles < MaxToggles
  /\ env' = [env EXCEPT !.toggles = @ + 1, !.configured = ~@]
  /\ UNCHANGED <<rows, files, qb, poll>>

Crash ==
  /\ env.crashes < MaxCrashes /\ ~In("boot")
  /\ env' = [env EXCEPT !.crashes = @ + 1]
  /\ poll' = Booting
  /\ UNCHANGED <<rows, files, qb>>

Init ==
  /\ rows = [id \in Ids |-> NoRow]
  /\ files = [p \in Paths |-> Null]
  /\ qb = Empty
  /\ poll = Booting
  /\ env = [configured |-> TRUE, faults |-> 0, crashes |-> 0, meddling |-> 0, toggles |-> 0]

Next ==
  \/ PollerStep \/ SetUrl \/ Crash
  \/ \E id \in Ids : add_download(id) \/ cancel(id) \/ Age(id)
  \/ \E h \in Hashes : QbProgress(h) \/ UserTouchesTorrent(h)
  \/ \E p \in Paths : UserRemovesFile(p)

Spec == Init /\ [][Next]_vars

TorrentTypeOK ==
  /\ rows \in Table
  /\ files \in [Paths -> Hashes \cup {Null}]
  /\ qb \in [Hashes -> Torrent]
  /\ poll \in Poll
  /\ env \in [configured : BOOLEAN, faults : Nat, crashes : Nat, meddling : Nat, toggles : Nat]

-----------------------------------------------------------------------------
(* Properties.                                                              *)

Settled(id) == rows[id].status \in {"complete", "seeding"}


(* Two settled rows never claim one file (find_same_name_live_row and       *)
(* find_live_row_owns_path before the install, mark_complete long after).   *)
OneOwnerPerFile ==
  \A a, b \in Ids : Settled(a) /\ Settled(b) /\ rows[a].file_path = rows[b].file_path
                     => a = b \/ rows[a].file_path = Null


statuses == [id \in Ids |-> rows[id].status]

(* Every row moves along the edges of can_transition_to.  This needs        *)
(* keep_completed off: with it on, a complete row whose file is gone is     *)
(* installed again at startup and set to `seeding`, which is no edge.       *)
Lifecycle == INSTANCE DownloadLifecycle WITH status <- statuses

FollowsLifecycle == Lifecycle!Spec

(***************************************************************************)
(* Fairness: the poller loops forever, every qBittorrent and database call *)
(* has a timeout, and time passes.  Nothing is assumed of users,           *)
(* qBittorrent's progress or crashes.                                      *)
(***************************************************************************)
Fairness == WF_vars(PollerStep) /\ \A id \in Ids : WF_vars(Age(id))

FairSpec == Spec /\ Fairness

(* A downloading row whose torrent finished, failed or vanished is attended *)
(* to, whatever the poller missed in between (process_inflight).            *)
Attended ==
  \A id \in Ids :
    []<>~(/\ rows[id].status = "downloading" /\ env.configured
          /\ qb[HashOf[rows[id].url]].state \in {"done", "fatal", "absent"})

(* A cancelled row does not keep its torrent binding: the removal is        *)
(* retried tick after tick, or drained when qBittorrent is not configured   *)
(* (process_cancelled).                                                     *)
CancelledLetsGo ==
  \A id \in Ids : []<>~(rows[id].status = "cancelled" /\ rows[id].hash # Null)

(* Adoption never brings back a download the user cancelled                 *)
(* (process_cancelled, reconcile).                                          *)
NoResurrection ==
  [][In("adopt") => \A id, o \in Ids :
       rows[id].status = "none" /\ rows'[id].status # "none" /\ rows[o].status = "cancelled"
         => HashOf[rows'[id].url] # HashOf[rows[o].url]]_vars
=============================================================================
