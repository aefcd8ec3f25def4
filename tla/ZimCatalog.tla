----------------------------- MODULE ZimCatalog -----------------------------
(***************************************************************************)
(* The catalogue of ZIM archives: the directory on disk, ZimManager's      *)
(* in-memory cache, the `zims` table and the snapshot of the last scan     *)
(* that lets resync() return early (src/zim/mod.rs, src/zim/discovery.rs). *)
(*                                                                         *)
(* resync() is called by the directory watcher every 10 s, by the poller   *)
(* after an install, by a direct download's task and by the catalogue      *)
(* subscriber of the LISTEN/NOTIFY listener; nothing serialises the        *)
(* callers.  Each is a member of Callers, and a call is split where the    *)
(* code awaits or releases a lock.                                         *)
(*                                                                         *)
(* disk, cache and zims are partial functions: their domain is the set of  *)
(* names present.                                                          *)
(***************************************************************************)
EXTENDS Naturals, FiniteSets, Functions, TLC

CONSTANTS
    Names,        \* archive names (file stems)
    Sizes,        \* file sizes
    Paths,        \* spellings of one name's path (`a.zim`, `a.ZIM`)
    Callers,      \* concurrent callers of resync()
    Unstat,       \* the metadata of a file whose stat failed
    MaxChanges,   \* bound on the changes made to the directory
    MaxRemovals,  \* bound on the deletions among them
    MaxBlind,     \* bound on the scans some file of which cannot be stat'd
    MaxBlips,     \* bound on the failing database statements
    MaxRestarts   \* bound on the restarts of the process

ASSUME CatalogAssumption ==
    /\ Sizes \subseteq Nat \ {0}
    /\ {MaxChanges, MaxRemovals, MaxBlind, MaxBlips, MaxRestarts} \subseteq Nat

VARIABLES
    disk,      \* the .zim files of the directory
    cache,     \* ZimManager.cache
    zims,      \* the zims table
    nextId,    \* the serial behind zims.id
    snapshot,  \* ZimManager.scan_snapshot
    call,      \* the state of each caller's resync()
    used       \* what has been used of each bound

catalogVars == <<disk, cache, zims, nextId, snapshot, call, used>>

-----------------------------------------------------------------------------
Statuses == {"pending", "indexing", "ready", "error"}

(* What a stat tells: the contents of a file are known by their version.   *)
Stat(f) == [size |-> f.size, mtime |-> f.mtime, path |-> f.path]

(* ZimMeta, in the cache and as a row; id 0 is None.                        *)
Meta(id, size, path, status) ==
    [id |-> id, size |-> size, path |-> path, status |-> status]


stub(size, path) == Meta(0, size, path, "pending")

Without(f, n) == Restrict(f, DOMAIN f \ {n})

Idle == [pc |-> "idle", scan |-> << >>, added |-> {}, removed |-> {},
         changed |-> {}, unpersisted |-> {}, name |-> "", meta |-> << >>]

Spend(what) == used' = [used EXCEPT ![what] = @ + 1]

(* The answers a statement can get: the second only while faults remain.    *)
Blip == used.blips < MaxBlips /\ Spend("blips")

At(c, pc) == call[c].pc = pc

(* resync() returns: Ok early or late, or Err on a failed statement.        *)
Return(c) == call' = [call EXCEPT ![c] = Idle]

(* The snapshot of a scan keeps the files whose stat succeeded.             *)
current_snapshot(scan) == Restrict(scan, {n \in DOMAIN scan : scan[n] # Unstat})

-----------------------------------------------------------------------------
(* The directory changes under the service: an installed, copied, replaced *)
(* or renamed file (each version has its own contents), or a deletion.     *)
Put(n) ==
    /\ used.changes < MaxChanges
    /\ \E size \in Sizes, path \in Paths :
          disk' = (n :> [bytes |-> used.changes + 1, mtime |-> used.changes + 1,
                         size |-> size, path |-> path]) @@ disk
    /\ Spend("changes")
    /\ UNCHANGED <<cache, zims, nextId, snapshot, call>>

Move(n) ==
    /\ used.changes < MaxChanges
    /\ n \in DOMAIN disk
    /\ \E path \in Paths \ {disk[n].path} : disk' = [disk EXCEPT ![n].path = path]
    /\ Spend("changes")
    /\ UNCHANGED <<cache, zims, nextId, snapshot, call>>

Remove(n) ==
    /\ used.changes < MaxChanges /\ used.removals < MaxRemovals
    /\ n \in DOMAIN disk
    /\ disk' = Without(disk, n)
    /\ used' = [used EXCEPT !.changes = @ + 1, !.removals = @ + 1]
    /\ UNCHANGED <<cache, zims, nextId, snapshot, call>>

-----------------------------------------------------------------------------
(* The blocking scan: every name with its metadata, or with none when the  *)
(* file could not be stat'd between read_dir and stat.                     *)
scan_snapshot_blocking(blind) ==
    [n \in DOMAIN disk |-> IF n \in blind THEN Unstat ELSE Stat(disk[n])]

Scan(c) ==
    /\ At(c, "idle")
    /\ \E blind \in SUBSET DOMAIN disk :
          /\ IF blind = {} THEN UNCHANGED used
             ELSE used.blind < MaxBlind /\ Spend("blind")
          /\ call' = [call EXCEPT ![c] = [Idle EXCEPT !.pc = "scanned",
                                 !.scan = scan_snapshot_blocking(blind)]]
    /\ UNCHANGED <<disk, cache, zims, nextId, snapshot>>

Compare_names(c) ==
    /\ At(c, "scanned")
    /\ IF DOMAIN snapshot = DOMAIN current_snapshot(call[c].scan) THEN Return(c)
       ELSE call' = [call EXCEPT ![c].pc = "differs"]
    /\ UNCHANGED <<disk, cache, zims, nextId, snapshot, used>>

(* The early return over an unchanged snapshot.                             *)
Compare(c) ==
    /\ At(c, "scanned")
    /\ IF snapshot = current_snapshot(call[c].scan) THEN Return(c)
       ELSE call' = [call EXCEPT ![c].pc = "differs"]
    /\ UNCHANGED <<disk, cache, zims, nextId, snapshot, used>>

(* A changed file keeps its row's status unless its size changed.           *)
Refresh(meta, s) ==
    [meta EXCEPT !.size = s.size, !.path = s.path,
                 !.status = IF meta.size # s.size /\ @ \in {"ready", "indexing"}
                            THEN "pending" ELSE @]

(* Under the cache's write lock: names not found go, found names are added *)
(* or refreshed.  A name without metadata is stat'd again; when that fails *)
(* too, it is left as it is.                                               *)
reconcile(c) ==
    /\ At(c, "differs")
    /\ \E again \in SUBSET {n \in DOMAIN call[c].scan \cap DOMAIN disk :
                                            call[c].scan[n] = Unstat} :
         LET found == [n \in again |-> Stat(disk[n])] @@ current_snapshot(call[c].scan)
             gone  == DOMAIN cache \ DOMAIN call[c].scan
             added == DOMAIN found \ DOMAIN cache
             changed == {n \in DOMAIN found \cap DOMAIN cache :
                            \/ cache[n].size # found[n].size
                            \/ cache[n].path # found[n].path}
         IN /\ cache' = [n \in (DOMAIN cache \ gone) \cup added |->
                            IF n \in added THEN stub(found[n].size, found[n].path)
                            ELSE IF n \in changed THEN Refresh(cache[n], found[n])
                            ELSE cache[n]]
            /\ call' = [call EXCEPT ![c].pc = "diffed", ![c].added = added,
                                    ![c].removed = gone, ![c].changed = changed]
    /\ UNCHANGED <<disk, zims, nextId, snapshot, used>>

(* Cached entries that never reached the table are persisted too; with     *)
(* nothing at all to write, the snapshot is recorded at once.              *)
Collect(c) ==
    /\ At(c, "diffed")
    /\ LET k == call[c]
           unpersisted == {n \in DOMAIN cache : cache[n].id = 0} \ (k.added \cup k.changed)
       IN IF k.added \cup k.removed \cup k.changed \cup unpersisted = {}
          THEN /\ snapshot' = current_snapshot(k.scan)
               /\ Return(c)
          ELSE /\ call' = [call EXCEPT ![c].pc = "persist", ![c].unpersisted = unpersisted]
               /\ UNCHANGED snapshot
    /\ UNCHANGED <<disk, cache, zims, nextId, used>>

-----------------------------------------------------------------------------
(* The rows of removed names are deleted first, one statement each.         *)
Delete(c, n) ==
    /\ At(c, "persist")
    /\ n \in call[c].removed
    /\ \/ /\ zims' = Without(zims, n)
          /\ call' = [call EXCEPT ![c].removed = @ \ {n}]
          /\ UNCHANGED used
       \/ Blip /\ Return(c) /\ UNCHANGED zims
    /\ UNCHANGED <<disk, cache, nextId, snapshot>>

(* Then the added, the changed and the unpersisted names, in that order.    *)
ToPersist(k) ==
    IF k.removed # {} THEN {}
    ELSE IF k.added # {} THEN k.added
    ELSE IF k.changed # {} THEN k.changed ELSE k.unpersisted

Drop(k, n) == [k EXCEPT !.added = @ \ {n}, !.changed = @ \ {n}, !.unpersisted = @ \ {n}]

(* get(name): the metadata written is the cache's at this instant; a name  *)
(* another caller has dropped meanwhile is skipped.                        *)
Get(c, n) ==
    /\ At(c, "persist")
    /\ n \in ToPersist(call[c])
    /\ call' = [call EXCEPT ![c] =
                  IF n \in DOMAIN cache
                  THEN [Drop(@, n) EXCEPT !.pc = "upsert", !.name = n, !.meta = cache[n]]
                  ELSE Drop(@, n)]
    /\ UNCHANGED <<disk, cache, zims, nextId, snapshot, used>>

(* Mutant: a failed statement skips one name and the resync carries on.     *)
persist_to_db_lossy(c) ==
    /\ At(c, "upsert")
    /\ \/ LET n   == call[c].name
              old == n \in DOMAIN zims
              id  == IF old THEN zims[n].id ELSE nextId
          IN /\ zims' = (n :> [call[c].meta EXCEPT !.id = id]) @@ zims
             /\ nextId' = IF old THEN nextId ELSE nextId + 1
             /\ call' = [call EXCEPT ![c].pc = "stamp", ![c].meta.id = id]
             /\ UNCHANGED used
       \/ Blip /\ call' = [call EXCEPT ![c].pc = "persist"] /\ UNCHANGED <<zims, nextId>>
    /\ UNCHANGED <<disk, cache, snapshot>>

(* INSERT ... ON CONFLICT (name) DO UPDATE ... RETURNING id.                *)
persist_to_db(c) ==
    /\ At(c, "upsert")
    /\ \/ LET n   == call[c].name
              old == n \in DOMAIN zims
              id  == IF old THEN zims[n].id ELSE nextId
          IN /\ zims' = (n :> [call[c].meta EXCEPT !.id = id]) @@ zims
             /\ nextId' = IF old THEN nextId ELSE nextId + 1
             /\ call' = [call EXCEPT ![c].pc = "stamp", ![c].meta.id = id]
             /\ UNCHANGED used
       \/ Blip /\ Return(c) /\ UNCHANGED <<zims, nextId>>
    /\ UNCHANGED <<disk, cache, snapshot>>

(* The returned id goes into the cache, if the name is still there.         *)
Stamp(c) ==
    /\ At(c, "stamp")
    /\ LET n == call[c].name
       IN cache' = IF n \in DOMAIN cache THEN [cache EXCEPT ![n].id = call[c].meta.id] ELSE cache
    /\ call' = [call EXCEPT ![c].pc = "persist", ![c].name = "", ![c].meta = << >>]
    /\ UNCHANGED <<disk, zims, nextId, snapshot, used>>

Finish_early(c) ==
    /\ At(c, "persist")
    /\ call[c].added = {} /\ call[c].changed = {}
    /\ snapshot' = current_snapshot(call[c].scan)
    /\ Return(c)
    /\ UNCHANGED <<disk, cache, zims, nextId, used>>

(* Every statement is durable: the snapshot is recorded last.               *)
Finish(c) ==
    /\ At(c, "persist")
    /\ call[c].removed = {} /\ ToPersist(call[c]) = {}
    /\ snapshot' = current_snapshot(call[c].scan)
    /\ Return(c)
    /\ UNCHANGED <<disk, cache, zims, nextId, used>>

resync(c) ==
    \/ Scan(c) \/ Compare(c) \/ reconcile(c) \/ Collect(c)
    \/ \E n \in Names : Delete(c, n) \/ Get(c, n)
    \/ persist_to_db(c) \/ Stamp(c) \/ Finish(c)

-----------------------------------------------------------------------------
(* populate_zims() of a new process: scan() stubs the files of the         *)
(* directory, load_from_db() overlays the rows; the snapshot starts empty. *)
(* The resync() that follows is the next call of some caller.              *)
populate_zims ==
    /\ used.restarts < MaxRestarts
    /\ cache' = zims @@ [n \in DOMAIN disk |-> stub(disk[n].size, disk[n].path)]
    /\ snapshot' = << >>
    /\ call' = [c \in Callers |-> Idle]
    /\ Spend("restarts")
    /\ UNCHANGED <<disk, zims, nextId>>

CatalogInit ==
    /\ disk = << >> /\ cache = << >> /\ zims = << >> /\ snapshot = << >>
    /\ nextId = 1
    /\ call = [c \in Callers |-> Idle]
    /\ used = [changes |-> 0, removals |-> 0, blind |-> 0, blips |-> 0, restarts |-> 0]

Environment == \E n \in Names : Put(n) \/ Move(n) \/ Remove(n)

CatalogNext == Environment \/ populate_zims \/ \E c \in Callers : resync(c)

CatalogSpec == CatalogInit /\ [][CatalogNext]_catalogVars

(* The watcher calls resync() every 10 s for as long as the process runs.   *)
FairCatalogSpec == CatalogSpec /\ \A c \in Callers : WF_catalogVars(resync(c))

-----------------------------------------------------------------------------

(* The catalogue describes the directory: the same names in the cache and  *)
(* the table, with the files' sizes and paths and the rows' ids.           *)
Agrees ==
    /\ DOMAIN cache = DOMAIN disk /\ DOMAIN zims = DOMAIN disk
    /\ \A n \in DOMAIN disk :
          /\ cache[n].size = disk[n].size /\ zims[n].size = disk[n].size
          /\ cache[n].path = disk[n].path /\ zims[n].path = disk[n].path
          /\ cache[n].id = zims[n].id

Settled ==
    /\ \A c \in Callers : At(c, "idle")
    /\ snapshot = [n \in DOMAIN disk |-> Stat(disk[n])]

\* No statement has failed and every file could be stat'd so far.
Faultless == used.blips = 0 /\ used.blind = 0

(* The early return is sound: when no call is in flight and the recorded   *)
(* snapshot is the directory's, so that every later resync() returns       *)
(* without looking further, cache and table agree with a non-empty         *)
(* directory.  (zim/mod.rs:880-912: the snapshot is written only after the *)
(* statements are durable.)  After a failed statement or stat they need    *)
(* not: reconcile() has updated the cache already, and what it was to      *)
(* write is in no later list of work.                                      *)
EarlyOutSound == Settled /\ disk # << >> /\ Faultless => Agrees

(* Once the directory is left alone, the catalogue comes to agree with it  *)
(* for good, however often the process was restarted in between.  Excepted *)
(* are an emptied directory, whose scan equals the empty snapshot of a new *)
(* process, and runs with faults.                                          *)
CatalogConverges == <>[](disk # << >> /\ Faultless => Agrees)

(* Once the directory is left alone, every file of it is in the cache and  *)
(* has a row, even when statements failed, files could not be stat'd and   *)
(* the process was restarted on the way: an entry without an id keeps      *)
(* resync() from recording the snapshot until its row exists               *)
(* (zim/mod.rs:914-951).                                                   *)
EveryFileGetsARow == <>[](DOMAIN disk \subseteq DOMAIN cache \cap DOMAIN zims)
=============================================================================
