-------------------------- MODULE DownloadLifecycle --------------------------
(***************************************************************************)
(* The abstract promise of the `downloads` table: a row is created once    *)
(* and from then on its status moves only along the edges of               *)
(* DownloadStatus::can_transition_to (db/downloads_lifecycle.rs).  The     *)
(* detailed specifications of the download paths are checked, and proved,  *)
(* to implement this one.                                                  *)
(***************************************************************************)

CONSTANT Ids              \* row ids (downloads.id)

VARIABLE status           \* status[id]: downloads.status, "none" before the INSERT

DownloadStatus ==
  {"queued", "downloading", "complete", "seeding", "error", "cancelled"}

can_transition_to(s, target) ==
  \/ s = "queued"      /\ target \in {"downloading", "error", "cancelled"}
  \/ s = "downloading" /\ target \in {"complete", "seeding", "error", "cancelled", "queued"}
  \/ s = "error"       /\ target = "queued"
  \/ s = "seeding"     /\ target = "complete"

(* A row enters the table queued (POST /downloads, the OPDS check) or, when *)
(* startup reconciliation adopts an untracked torrent, as what qBittorrent  *)
(* reports it to be.                                                        *)
created_as == {"queued", "downloading", "complete"}

Init == status = [id \in Ids |-> "none"]

(* One statement may move several rows (the requeue batch, the startup      *)
(* retry of interrupted downloads), so the step constrains every row.       *)
Step(old, new) ==
  \/ new = old
  \/ old = "none" /\ new \in created_as
  \/ can_transition_to(old, new)

Next ==
  /\ status' \in [Ids -> DownloadStatus \cup {"none"}]
  /\ \A id \in Ids : Step(status[id], status'[id])

Spec == Init /\ [][Next]_status
==============================================================================
