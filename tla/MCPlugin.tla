------------------------------- MODULE MCPlugin -------------------------------
(* Small instances of Plugin for TLC.                                      *)
EXTENDS Plugin, TLC

CONSTANTS c1, c2, e1, e2

\* Bound: communicators are opened only where the variables they do not depend on are
\* not set.
BoundedNext ==
  \/ Configure
  \/ /\ level = "unset"
     /\ \A f \in {"USE_GPUDIRECT", "PSM2_CUDA", "PSM2_GPUDIRECT"} : flag[f] = "unset"
     /\ Communicate

BoundedSpec == ProcessInit /\ [][BoundedNext]_pvars

Symmetry == Permutations(Comm) \cup Permutations(Ep)
===============================================================================
