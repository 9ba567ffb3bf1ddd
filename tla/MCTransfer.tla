----------------------------- MODULE MCTransfer -----------------------------
(* Small instances of Transfer for TLC.                                    *)
EXTENDS TransferChannel, TLC

CONSTANTS r1, c1, c2, c3, e1, e2, e3

\* One rank whose senders connect to its own receivers: every communicator shares
\* its statics, and in shared-EP mode one endpoint and one MQ.
OneRankHome   == [c \in Comm |-> r1]
OneRankEpHome == [e \in Ep |-> r1]

\* With one device the other two settings make no difference.
BothModesInit ==
  XferInit /\ shared_ep_multi_policy = "SHARED_EP_MULTI_WARN" /\ use_nccl_dev_num = 1
SharedInit == BothModesInit /\ use_shared_ep = 1

BothModesSpec == BothModesInit /\ [][XferNext]_xvars
SharedSpec    == SharedInit /\ [][XferNext]_xvars

\* Bound for liveness: only behaviours in which no PSM2 call of the lifecycle fails,
\* to keep their graph small.  A failed call changes nothing that requests depend on
\* (FailureLeavesNoTrace of SharedEp).
UnfailingNext  == XferNext /\ ret'.psm = "PSM2_OK"
SharedFairSpec == SharedInit /\ [][UnfailingNext]_xvars /\ XferFairness

Symmetry == Permutations(Comm) \cup Permutations(Ep)

\* States that differ only in the results of the last calls behave alike: no guard
\* reads them, and a property only as the step sets them.
WithoutResults == <<config, next_tag, shared_ep, comm, epVars, held, handles, listens,
                    requests, mq, net, calls, pending>>
=============================================================================
