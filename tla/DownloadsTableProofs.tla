------------------------- MODULE DownloadsTableProofs -------------------------
(* Facts about the statements of DownloadsTable that the proofs cite.       *)
EXTENDS DownloadsTable, TLAPS

(* Replacing one row by a row gives a table.                                *)
LEMMA PutRow ==
  ASSUME NEW t \in Table, NEW id \in Ids, NEW r \in Row
  PROVE  [t EXCEPT ![id] = r] \in Table
  BY DEF Table

(* The new values the UPDATEs assign make a row again.                      *)
LEMMA RowUpdates ==
  ASSUME NEW r \in Row
  PROVE  /\ [r EXCEPT !.status = "cancelled", !.aged = FALSE] \in Row
         /\ \A p \in Paths :
              [r EXCEPT !.status = "downloading", !.file_path = p, !.aged = FALSE] \in Row
         /\ \A msg \in {"transient", "fatal"} :
              [r EXCEPT !.status = "error", !.error = msg, !.aged = FALSE] \in Row
         /\ \A p \in Paths, d \in Digests \cup {Null} :
              [r EXCEPT !.status = "complete", !.file_path = p, !.sha256 = d,
                        !.aged = FALSE] \in Row
         /\ [r EXCEPT !.status = "queued", !.error = Null, !.aged = FALSE] \in Row
         /\ [r EXCEPT !.status = "queued", !.file_path = Null, !.error = Null,
                      !.aged = FALSE] \in Row
         /\ [r EXCEPT !.aged = TRUE] \in Row
<1>1. [r EXCEPT !.status = "cancelled", !.aged = FALSE] \in Row
  BY DEF Row, Status
<1>2. ASSUME NEW p \in Paths
      PROVE  [r EXCEPT !.status = "downloading", !.file_path = p, !.aged = FALSE] \in Row
  BY DEF Row, Status
<1>3. ASSUME NEW msg \in {"transient", "fatal"}
      PROVE  [r EXCEPT !.status = "error", !.error = msg, !.aged = FALSE] \in Row
  BY DEF Row, Status
<1>4. ASSUME NEW p \in Paths, NEW d \in Digests \cup {Null}
      PROVE  [r EXCEPT !.status = "complete", !.file_path = p, !.sha256 = d,
                       !.aged = FALSE] \in Row
  BY DEF Row, Status
<1>5. [r EXCEPT !.status = "queued", !.error = Null, !.aged = FALSE] \in Row
  BY DEF Row, Status
<1>6. [r EXCEPT !.status = "queued", !.file_path = Null, !.error = Null, !.aged = FALSE] \in Row
  BY DEF Row, Status
<1>7. [r EXCEPT !.aged = TRUE] \in Row
  BY DEF Row, Status
<1> QED
  BY <1>1, <1>2, <1>3, <1>4, <1>5, <1>6, <1>7

(* Every guarded statement on one row maps tables to tables.                *)
LEMMA TableOps ==
  ASSUME NEW t \in Table, NEW id \in Ids
  PROVE  /\ cancel_download(t, id) \in Table
         /\ \A msg \in {"transient", "fatal"} : mark_error(t, id, msg) \in Table
         /\ \A p \in Paths : claim_direct(t, id, p) \in Table
         /\ \A p \in Paths, d \in Digests \cup {Null} : finalize_direct(t, id, p, d) \in Table
<1>1. t[id] \in Row
  BY DEF Table
<1>2. cancel_download(t, id) \in Table
  BY <1>1, RowUpdates, PutRow DEF cancel_download
<1>3. ASSUME NEW msg \in {"transient", "fatal"} PROVE mark_error(t, id, msg) \in Table
  BY <1>1, RowUpdates, PutRow DEF mark_error
<1>4. ASSUME NEW p \in Paths PROVE claim_direct(t, id, p) \in Table
  BY <1>1, RowUpdates, PutRow DEF claim_direct
<1>5. ASSUME NEW p \in Paths, NEW d \in Digests \cup {Null}
      PROVE  finalize_direct(t, id, p, d) \in Table
  BY <1>1, RowUpdates, PutRow DEF finalize_direct
<1> QED
  BY <1>2, <1>3, <1>4, <1>5

(* The two batch statements map tables to tables.                           *)
LEMMA BatchOps ==
  ASSUME NEW t \in Table, NEW S
  PROVE  requeue_stale_errors(t, S) \in Table /\ retry_interrupted_directs(t, S) \in Table
<1>1. \A id \in Ids : t[id] \in Row
  BY DEF Table
<1>2. requeue_stale_errors(t, S) \in Table
  BY <1>1, RowUpdates DEF Table, requeue_stale_errors
<1>3. retry_interrupted_directs(t, S) \in Table
  BY <1>1, RowUpdates DEF Table, retry_interrupted_directs
<1> QED
  BY <1>2, <1>3

(* An INSERT maps tables to tables.                                         *)
LEMMA InsertOp ==
  ASSUME NEW t \in Table, NEW id \in Ids, NEW n \in Names, NEW u \in Urls,
         NEW c \in Digests \cup {Null}
  PROVE  insert_download(t, id, n, u, c) \in Table
<1>1. [NoRow EXCEPT !.name = n, !.url = u, !.status = "queued", !.sha256 = c] \in Row
  BY DEF Row, NoRow, Status
<1> QED
  BY <1>1, PutRow DEF insert_download
===============================================================================
