----------------------------- MODULE MCCommSteps -----------------------------
(* Small instances of CommSteps for TLC.                                   *)
EXTENDS CommSteps, TLC

CONSTANTS r1, r2, c1, c2, c3, e1, e2, e3, t1, t2

\* Two ranks with a thread each; the second has one communicator and one endpoint.
TwoRankHome   == [c \in Comm |-> IF c = c3 THEN r2 ELSE r1]
TwoRankEpHome == [e \in Ep |-> IF e = e3 THEN r2 ELSE r1]
ThreadEach    == [t \in Thread |-> IF t = t2 THEN r2 ELSE r1]

\* One rank whose two threads both call the plugin.
OneRankHome   == [c \in Comm |-> r1]
OneRankEpHome == [e \in Ep |-> r1]
BothThreads   == [t \in Thread |-> r1]

\* Both modes; with a device refused in shared mode.
EitherModeInit ==
  StepsInit /\ shared_ep_multi_policy = "SHARED_EP_MULTI_ERROR" /\ use_nccl_dev_num = 1

\* Bound: only connect on the first rank asks for another device.
EitherModeNext ==
  /\ StepsNext
  /\ \A t \in Thread :
       frame'[t] # NULL => frame'[t].dev = 0 \/ (t = t1 /\ frame'[t].op # "listen")

EitherModeSpec == EitherModeInit /\ [][EitherModeNext]_svars

TwoRankSymmetry == Permutations({c1, c2})
=============================================================================
