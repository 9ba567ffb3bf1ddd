----------------------------- MODULE MCSharedEp -----------------------------
(* Small instances of SharedEp for TLC.                                    *)
EXTENDS SharedEp, TLC

CONSTANTS r1, c1, c2, c3, e1, e2, e3

\* One rank that connects to its own listeners, which the plugin cannot tell
\* from those of another rank.
OneRankHome   == [c \in Comm |-> r1]
OneRankEpHome == [e \in Ep |-> r1]

\* The default mode, in which all communicators of the rank are on one endpoint.
SharedInit == Init /\ use_shared_ep = 1
SharedSpec == SharedInit /\ [][Next]_vars

OneRankSymmetry == Permutations(Comm) \cup Permutations(Ep)
=============================================================================
