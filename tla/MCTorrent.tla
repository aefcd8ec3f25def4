------------------------------- MODULE MCTorrent -------------------------------
(* Instances of TorrentPoller for TLC.                                       *)
EXTENDS TorrentPoller, TLC

CONSTANTS n1, n2, f1, f2, u1, u2, a1, a2, h1, h2

MCNames  == {n1, n2, f1, f2, u1, u2, a1, a2}
MCUrls   == {u1, u2, a1, a2}
MCHashes == {h1, h2}

MCHashOf   == u1 :> h1 @@ u2 :> h2 @@ a1 :> h1 @@ a2 :> h2
MCAdoptUrl == h1 :> a1 @@ h2 :> a2

\* qBittorrent lists a torrent under the display name the user gave it.
SameName == h1 :> n1 @@ h2 :> n2

\* The two torrents hold files of one name.
OneFile == h1 :> f1 @@ h2 :> f1

TwoDownloads == {<<n1, u1>>, <<n2, u2>>}
OneDownload  == {<<n1, u1>>}
===============================================================================
