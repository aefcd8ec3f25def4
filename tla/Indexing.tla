------------------------------ MODULE Indexing ------------------------------
(***************************************************************************)
(* The full-text indexing of ZIM archives (src/zim/index.rs) beside the    *)
(* catalogue it reads from and writes to: index runs of several tasks, the *)
(* advisory lock per archive, the resume checkpoint, the articles table    *)
(* and the prune that is atomic with the flip to `ready`.                  *)
(*                                                                         *)
(* An archive's version v holds the entries Contents[v], in order.  A      *)
(* chunk is one entry.  articles maps the id of a zims row to its rows,    *)
(* each with the version it was extracted from and its updated_at; the     *)
(* foreign key deletes them with the zims row.  now counts the calls of    *)
(* Postgres' now() that are compared with one another.                     *)
(***************************************************************************)
EXTENDS ZimCatalog, Sequences

CONSTANTS
    Runners,    \* tasks that run index_zims
    Contents,   \* the article paths of each version
    ContentKey  \* first_entry_content_key of each version

ASSUME IndexingAssumption ==
    /\ DOMAIN Contents = 1..MaxChanges /\ DOMAIN ContentKey = 1..MaxChanges
    /\ \A v \in 1..MaxChanges : Contents[v] # << >>

VARIABLES
    due,         \* the index_zims(name) calls that installs still have to make
    run,         \* the state of each runner
    locks,       \* names whose advisory lock is held
    checkpoint,  \* the checkpoint files of this process
    articles,    \* the articles table
    now          \* Postgres' clock

indexVars == <<due, run, locks, checkpoint, articles, now>>

vars == <<catalogVars, indexVars>>

-----------------------------------------------------------------------------
Resting == [pc |-> "idle", name |-> "", meta |-> << >>, bytes |-> 0, id |-> 0,
            done |-> 0, started |-> 0]

In(r, pc) == run[r].pc = pc
Go(r, pc) == run' = [run EXCEPT ![r].pc = pc]
Total(r) == Len(Contents[run[r].bytes])

(* file_mtime_u64: 0 when the file cannot be stat'd.                        *)
file_mtime_u64(n) == IF n \in DOMAIN disk THEN disk[n].mtime ELSE 0

SetStatus(n, s) ==
    zims' = IF n \in DOMAIN zims THEN [zims EXCEPT ![n].status = s] ELSE zims

(* The rows of deleted zims rows go with them (ON DELETE CASCADE).          *)
Cascade == articles' = Restrict(articles, DOMAIN articles \cap
                                              {zims'[n].id : n \in DOMAIN zims'})

(* The rest of the service: an install is followed by one index_zims call.  *)
Install(n) == Put(n) /\ due' = [due EXCEPT ![n] = @ + 1]
                     /\ UNCHANGED <<run, locks, checkpoint, articles, now>>

Catalog ==
    /\ \/ \E n \in Names : Move(n) \/ Remove(n)
       \/ \E c \in Callers : resync(c)
    /\ Cascade
    /\ UNCHANGED <<due, run, locks, checkpoint, now>>

(* A new process: its checkpoint directory is its own, the locks of the old *)
(* one's sessions are gone.  `serve` owes no index call; `index` makes one  *)
(* for every archive.                                                       *)
Restart ==
    /\ populate_zims
    /\ \E all \in BOOLEAN :
          due' = [n \in Names |-> IF all /\ n \in DOMAIN cache' THEN 1 ELSE 0]
    /\ run' = [r \in Runners |-> Resting]
    /\ locks' = {} /\ checkpoint' = << >>
    /\ UNCHANGED <<articles, now>>

-----------------------------------------------------------------------------
(* index_zims(name) after the caller's own resync() has returned: the      *)
(* metadata is the cache's; an unknown name is an error that ends the call.*)
index_zims(r, n) ==
    /\ In(r, "idle") /\ due[n] > 0
    /\ n \in DOMAIN disk => /\ n \in DOMAIN cache
                            /\ cache[n].size = disk[n].size
                            /\ cache[n].path = disk[n].path
    /\ due' = [due EXCEPT ![n] = @ - 1]
    /\ run' = IF n \in DOMAIN cache
              THEN [run EXCEPT ![r] = [Resting EXCEPT !.pc = "lock", !.name = n,
                                                      !.meta = cache[n]]]
              ELSE run
    /\ UNCHANGED <<catalogVars, locks, checkpoint, articles, now>>


(* pg_try_advisory_lock: a run that finds the lock held skips.              *)
index_single_zim(r) ==
    /\ In(r, "lock")
    /\ IF run[r].name \in locks
       THEN run' = [run EXCEPT ![r] = Resting] /\ UNCHANGED locks
       ELSE Go(r, "gate") /\ locks' = locks \cup {run[r].name}
    /\ UNCHANGED <<catalogVars, due, checkpoint, articles, now>>

(* The gate in front of the pipeline, on the metadata read at the start.    *)
run_index(r) ==
    /\ In(r, "gate")
    /\ LET n == run[r].name
           m == run[r].meta
           unchanged == n \notin DOMAIN disk \/ disk[n].size = m.size
       IN Go(r, IF m.status = "ready" /\ unchanged THEN "unlock" ELSE "open")
    /\ UNCHANGED <<catalogVars, due, locks, checkpoint, articles, now>>

(* The archive is mapped: later changes of the directory do not reach it.   *)
open_zim_blocking(r) ==
    /\ In(r, "open")
    /\ LET n == run[r].name
       IN run' = IF n \in DOMAIN disk /\ disk[n].path = run[r].meta.path
                 THEN [run EXCEPT ![r].pc = "mark", ![r].bytes = disk[n].bytes]
                 ELSE [run EXCEPT ![r].pc = "failed"]
    /\ UNCHANGED <<catalogVars, due, locks, checkpoint, articles, now>>

update_zim_status(r) ==
    /\ In(r, "mark")
    /\ SetStatus(run[r].name, "indexing")
    /\ Go(r, "resume")
    /\ UNCHANGED <<disk, cache, nextId, snapshot, call, used>>
    /\ UNCHANGED <<due, locks, checkpoint, articles, now>>

checkpoint_resumable(r) ==
    LET n == run[r].name
        v == run[r].bytes
    IN /\ n \in DOMAIN checkpoint
       /\ checkpoint[n].mtime = file_mtime_u64(n)
       /\ checkpoint[n].total = Total(r)
       /\ checkpoint[n].key = ContentKey[v]

Resume_restamped(r) ==
    /\ In(r, "resume")
    /\ run' = [run EXCEPT ![r].pc = "id", ![r].started = now + 1,
                          ![r].done = IF checkpoint_resumable(r)
                                      THEN checkpoint[run[r].name].done ELSE 0]
    /\ now' = now + 1
    /\ UNCHANGED <<catalogVars, due, locks, checkpoint, articles>>

(* A fresh run takes index_started_at from the database; a resumed one     *)
(* keeps the interrupted run's.                                            *)
Resume(r) ==
    /\ In(r, "resume")
    /\ IF checkpoint_resumable(r)
       THEN /\ LET cp == checkpoint[run[r].name]
               IN run' = [run EXCEPT ![r].pc = IF cp.done >= Total(r) THEN "finalize" ELSE "id",
                                     ![r].done = cp.done, ![r].started = cp.started]
            /\ UNCHANGED now
       ELSE /\ run' = [run EXCEPT ![r].pc = "id", ![r].started = now + 1]
            /\ now' = now + 1
    /\ UNCHANGED <<catalogVars, due, locks, checkpoint, articles>>

(* The id of the row, resolved once for the whole run.                      *)
ResolveId(r) ==
    /\ In(r, "id")
    /\ LET n == run[r].name
       IN run' = IF n \in DOMAIN zims
                 THEN [run EXCEPT ![r].pc = "chunk", ![r].id = zims[n].id]
                 ELSE [run EXCEPT ![r].pc = "failed"]
    /\ UNCHANGED <<catalogVars, due, locks, checkpoint, articles, now>>

(* COPY into staging and upsert from it; the foreign key refuses a row that *)
(* is gone.                                                                 *)
bulk_insert(r) ==
    /\ In(r, "chunk") /\ run[r].done < Total(r)
    /\ LET k    == run[r]
           path == Contents[k.bytes][k.done + 1]
           rows == IF k.id \in DOMAIN articles THEN articles[k.id] ELSE << >>
       IN IF \E n \in DOMAIN zims : zims[n].id = k.id
          THEN /\ articles' = (k.id :> ((path :> [bytes |-> k.bytes, at |-> now]) @@ rows))
                                @@ articles
               /\ run' = [run EXCEPT ![r].pc = "progress", ![r].done = @ + 1]
          ELSE Go(r, "failed") /\ UNCHANGED articles
    /\ UNCHANGED <<catalogVars, due, locks, checkpoint, now>>

save_checkpoint_behind(r) ==
    /\ In(r, "progress")
    /\ LET k == run[r]
       IN checkpoint' = (k.name :> [mtime |-> file_mtime_u64(k.name), total |-> Total(r),
                                    done |-> k.done - 1, started |-> k.started,
                                    key |-> ContentKey[k.bytes]]) @@ checkpoint
    /\ Go(r, "chunk")
    /\ UNCHANGED <<catalogVars, due, locks, articles, now>>

(* update_progress, then the checkpoint, with the file's mtime of now.      *)
save_checkpoint(r) ==
    /\ In(r, "progress")
    /\ LET k == run[r]
       IN checkpoint' = (k.name :> [mtime |-> file_mtime_u64(k.name), total |-> Total(r),
                                    done |-> k.done, started |-> k.started,
                                    key |-> ContentKey[k.bytes]]) @@ checkpoint
    /\ Go(r, "chunk")
    /\ UNCHANGED <<catalogVars, due, locks, articles, now>>

remove_checkpoint(r) ==
    /\ In(r, "chunk") /\ run[r].done = Total(r)
    /\ checkpoint' = Without(checkpoint, run[r].name)
    /\ Go(r, "finalize")
    /\ UNCHANGED <<catalogVars, due, locks, articles, now>>

(* One transaction, by name: rows older than the start of the run go, the  *)
(* row is ready.                                                           *)
finalize_zim(r) ==
    /\ In(r, "finalize")
    /\ LET n == run[r].name
       IN IF n \in DOMAIN zims /\ zims[n].id \in DOMAIN articles
          THEN LET rows == articles[zims[n].id]
               IN articles' = [articles EXCEPT ![zims[n].id] =
                     Restrict(rows, {p \in DOMAIN rows : rows[p].at >= run[r].started})]
          ELSE UNCHANGED articles
    /\ SetStatus(run[r].name, "ready")
    /\ Go(r, "unlock")
    /\ UNCHANGED <<disk, cache, nextId, snapshot, call, used>>
    /\ UNCHANGED <<due, locks, checkpoint, now>>

(* Any statement of the run may fail.                                       *)
StatementFails(r) ==
    /\ run[r].pc \in {"mark", "resume", "id", "chunk", "progress", "finalize"}
    /\ In(r, "chunk") => run[r].done < Total(r)
    /\ Blip /\ Go(r, "failed")
    /\ UNCHANGED <<disk, cache, zims, nextId, snapshot, call>>
    /\ UNCHANGED <<due, locks, checkpoint, articles, now>>

(* The failure is recorded, if that statement succeeds.                     *)
mark_index_error(r) ==
    /\ In(r, "failed")
    /\ \/ SetStatus(run[r].name, "error") /\ UNCHANGED used
       \/ Blip /\ UNCHANGED zims
    /\ Go(r, "unlock")
    /\ UNCHANGED <<disk, cache, nextId, snapshot, call>>
    /\ UNCHANGED <<due, locks, checkpoint, articles, now>>

Unlock(r) ==
    /\ In(r, "unlock")
    /\ locks' = locks \ {run[r].name}
    /\ run' = [run EXCEPT ![r] = Resting]
    /\ UNCHANGED <<catalogVars, due, checkpoint, articles, now>>

IndexStep(r) ==
    \/ \E n \in Names : index_zims(r, n)
    \/ index_single_zim(r) \/ run_index(r) \/ open_zim_blocking(r) \/ update_zim_status(r)
    \/ Resume(r) \/ ResolveId(r) \/ bulk_insert(r) \/ save_checkpoint(r)
    \/ remove_checkpoint(r) \/ finalize_zim(r)
    \/ StatementFails(r) \/ mark_index_error(r) \/ Unlock(r)

-----------------------------------------------------------------------------
Init ==
    /\ CatalogInit
    /\ due = [n \in Names |-> 0]
    /\ run = [r \in Runners |-> Resting]
    /\ locks = {} /\ checkpoint = << >> /\ articles = << >> /\ now = 0

Next ==
    \/ \E n \in Names : Install(n)
    \/ Catalog \/ Restart
    \/ \E r \in Runners : IndexStep(r)

Spec == Init /\ [][Next]_vars

-----------------------------------------------------------------------------
(* The types of the indexing state.                                         *)
IndexTypeOK ==
    /\ due \in [Names -> 0..MaxChanges + 1]
    /\ locks \subseteq Names
    /\ \A r \in Runners : run[r].bytes \in 0..MaxChanges /\ run[r].started \in 0..now
    /\ \A n \in DOMAIN checkpoint : checkpoint[n].done \in 1..checkpoint[n].total
    /\ \A id \in DOMAIN articles : \A p \in DOMAIN articles[id] :
          articles[id][p].bytes \in 1..MaxChanges /\ articles[id][p].at \in 0..now

Rows(n) == IF zims[n].id \in DOMAIN articles THEN articles[zims[n].id] ELSE << >>

(* The rows of an archive are exactly the articles of its version v.        *)
Whole(n, v) ==
    /\ DOMAIN Rows(n) = Range(Contents[v])
    /\ \A p \in DOMAIN Rows(n) : Rows(n)[p].bytes = v

Quiet(n) == \A r \in Runners : run[r].name # n


(* finalize_zim's prune never takes an article that the version it indexed *)
(* contains, resumed runs included: their earlier chunks carry stamps that *)
(* the index_started_at kept in the checkpoint must not overtake           *)
(* (index.rs:490-507).                                                     *)
PruneSparesLive ==
    [][\A r \in Runners : run[r].pc = "finalize" =>
          \A id \in DOMAIN articles \cap DOMAIN articles' :
             (DOMAIN articles[id] \ DOMAIN articles'[id])
                \cap Range(Contents[run[r].bytes]) = {}]_vars

(* "reconcile/resync reset the status to 'pending' whenever the file size  *)
(* changes, so "ready + same size" reliably means "up to date""            *)
(* (index.rs:243-245): once every owed call is made and nothing runs, a    *)
(* ready row of the file's size holds the articles of that file.           *)
ReadyIsCurrent ==
    \A n \in DOMAIN zims \cap DOMAIN disk :
        /\ zims[n].status = "ready" /\ zims[n].size = disk[n].size
        /\ due[n] = 0 /\ Quiet(n) /\ Settled
        => Whole(n, disk[n].bytes)
=============================================================================
