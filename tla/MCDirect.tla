------------------------------- MODULE MCDirect -------------------------------
(* Instances of DirectDownloads for TLC.                                    *)
EXTENDS DirectDownloads

CONSTANTS n1, n2, u1, u2

OneName  == {n1}
TwoNames == {n1, n2}
TwoUrls  == {u1, u2}

Sizes2 == [u \in Urls |-> 2]
Sizes1 == [u \in Urls |-> 1]
Sizes21 == [u \in Urls |-> IF u = u1 THEN 2 ELSE 1]

\* One name from two sources: the re-add races over one `.part`.
ReAdd == {<<n1, u1>>, <<n1, u2>>}

\* Two unrelated downloads compete for the budget.
Unrelated == {<<n1, u1>>, <<n2, u2>>}

\* Two crashes, or one flip of the master switch.
Disturbances == env.crashes + 2 * env.toggles <= 2

NoFeed == {}

\* The catalog announces u1 under two names, with its digest, without one, and
\* with the digest of a revision the mirror does not serve yet.
Announced == {<<n1, u1, u1>>, <<n2, u1, Null>>, <<n2, u1, u2>>}
NoRequests == {}
===============================================================================
