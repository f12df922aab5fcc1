--------------------------- MODULE MC_BackupCreate ---------------------------
(* Instances of BackupCreate for TLC. *)
EXTENDS BackupCreateLifecycle, TLC

CONSTANTS r1, r2, n1, s1, s2, s3, s4, w1, w2

\* One request: the pipeline against a concurrent cluster.
OneRequest == {r1}
\* Two requests racing for the same backup name.
TwoRequests == {r1, r2}
MCNames == {n1}
MCReqName == [r \in Requests |-> n1]
MCSegs == {s1, s2, s3, s4}
MCRows == {w1, w2}
\* Two requests: one segment id per request's flush and one row suffice
\* for both to back up data under the shared name.
MCSegsSmall == {s1, s2}
MCRowsSmall == {w1}

\* Segment ids and rows are compared only for equality.
Symmetry == Permutations(MCSegs) \cup Permutations(MCRows)

=============================================================================
