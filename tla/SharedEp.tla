------------------------------- MODULE SharedEp -------------------------------
(***************************************************************************)
(* Communicators and PSM2 endpoints of the psm2-nccl plugin: what listen,  *)
(* connect, accept and the close calls do to the heap of psm2comm_t        *)
(* objects, to the file-level statics shared_ep and next_tag, and to the   *)
(* endpoints PSM2 holds open, in a job of several ranks.                   *)
(*                                                                         *)
(* The plugin has no thread of its own and takes no lock: every call runs  *)
(* to completion on the caller's thread, so one call is one action, with   *)
(* the results of the PSM2 calls it makes chosen by the environment.  The  *)
(* ranks are separate processes whose calls interleave.                    *)
(*                                                                         *)
(* An endpoint and its epid are one value here: the code assigns them      *)
(* together everywhere.  An epid may be given out again once its endpoint  *)
(* is closed, and calloc may return the address of a freed communicator.   *)
(***************************************************************************)
EXTENDS Naturals, FiniteSets

CONSTANTS
  Rank,             \* host processes; each has its own copy of the statics
  Comm,             \* addresses calloc can return for a psm2comm_t
  Home,             \* Home[c]: the process whose heap address c belongs to
  Ep,               \* endpoints PSM2 can open (its hfi1 contexts)
  EpHome,           \* EpHome[e]: the process that can open e
  Dev,              \* device numbers NCCL passes in, HFI units
  NULL,
  TAG_MAX,          \* ULLONG_MAX in the code; a small number in a model
  ClosesUnaccepted  \* may NCCL call closeListen on a listener it never accepted

\* A send comm carries the tag of the handle it connected with; a receive comm
\* the tag it was created with.  dev and born are history: the device NCCL asked
\* for, and the listen call (rank and number) that issued the comm's tag.
CommRec == [ep : Ep, shared : {0, 1}, tag : Nat, rem_epid : Ep \cup {NULL},
            dev : Dev, born : Rank \X Nat]

ASSUME ConstAssumption ==
  /\ IsFiniteSet(Comm)
  /\ Home \in [Comm -> Rank]
  /\ EpHome \in [Ep -> Rank]
  /\ Dev \subseteq Nat
  /\ 0 \in Dev
  /\ NULL \notin Comm \cup Ep \cup Dev \cup CommRec
  /\ TAG_MAX \in Nat
  /\ ClosesUnaccepted \in BOOLEAN

VARIABLES
  use_shared_ep,           \* 0 or 1, from PSM2_NCCL_SHARED_EP
  use_nccl_dev_num,        \* 0 or 1, from PSM2_NCCL_USE_NCCL_DEV
  shared_ep_multi_policy,  \* from PSM2_NCCL_SHARED_EP_MULTI
  next_tag,                \* static next_tag of each rank
  shared_ep,               \* static shared_ep of each rank
  comm,                    \* contents of each address, NULL when not allocated
  ep_unit,                 \* PSM2: the unit an endpoint is open on, or NULL
  abandoned,               \* PSM2: open endpoints psm2_ep_close refused to close
  held,                    \* NCCL: which pointers to a communicator it holds
  handles,                 \* NCCL: listen handles not yet used by a connect
  listens,                 \* history: successful listen calls of each rank
  ret                      \* result of the last plugin call

config  == <<use_shared_ep, use_nccl_dev_num, shared_ep_multi_policy>>
epVars  == <<ep_unit, abandoned>>
vars    == <<config, next_tag, shared_ep, comm, epVars, held, handles, listens, ret>>

SharedRec == [ep : Ep \cup {NULL}, unit : Dev, refcount : Nat]
Handle == [epid : Ep, tag : Nat, born : Rank \X Nat]
Policy == {"SHARED_EP_MULTI_ERROR", "SHARED_EP_MULTI_WARN"}
\* "accepted": NCCL holds the address both as listenComm and as recvComm;
\* "stale": it closed the recvComm and still holds the listenComm.
Role   == {"none", "listen", "accepted", "recv", "stale", "send"}
PsmRc  == {"PSM2_OK", "PSM2_TIMEOUT", "PSM2_ERROR"}
RetRec == [rc : {"ncclSuccess", "ncclInternalError"},
           out : Comm \cup {NULL}, psm : PsmRc]

\* memset(&shared_ep, 0, sizeof(shared_ep_t))
ZeroSharedEp == [ep |-> NULL, unit |-> 0, refcount |-> 0]

Live == {c \in Comm : comm[c] # NULL}

\* Communicators of rank p whose shared_ep pointer is set: what refcount counts.
SharedComms(p) == {c \in Comm : comm[c] # NULL /\ Home[c] = p /\ comm[c].shared = 1}

TypeOK ==
  /\ use_shared_ep \in {0, 1}
  /\ use_nccl_dev_num \in {0, 1}
  /\ shared_ep_multi_policy \in Policy
  /\ next_tag \in [Rank -> Nat]
  /\ shared_ep \in [Rank -> SharedRec]
  /\ comm \in [Comm -> CommRec \cup {NULL}]
  /\ ep_unit \in [Ep -> Dev \cup {NULL}]
  /\ abandoned \in SUBSET Ep
  /\ held \in [Comm -> Role]
  /\ handles \in SUBSET Handle
  /\ listens \in [Rank -> Nat]
  /\ ret \in RetRec

\* The state psm2_nccl_init leaves behind: statics zero, any configuration.
Init ==
  /\ use_shared_ep \in {0, 1}
  /\ use_nccl_dev_num \in {0, 1}
  /\ shared_ep_multi_policy \in Policy
  /\ next_tag = [p \in Rank |-> 0]
  /\ shared_ep = [p \in Rank |-> ZeroSharedEp]
  /\ comm = [c \in Comm |-> NULL]
  /\ ep_unit = [e \in Ep |-> NULL]
  /\ abandoned = {}
  /\ held = [c \in Comm |-> "none"]
  /\ handles = {}
  /\ listens = [p \in Rank |-> 0]
  /\ ret = [rc |-> "ncclSuccess", out |-> NULL, psm |-> "PSM2_OK"]

Returns(rc, out, psm) == ret' = [rc |-> rc, out |-> out, psm |-> psm]
Succeeds(out) == Returns("ncclSuccess", out, "PSM2_OK")

-------------------------------------------------------------------------------
(* psm2comm_init_ep: which endpoint a new communicator gets.               *)

\* Faulty: an endpoint with one user is opened again.
MustOpen_WhileOneUser(p) == use_shared_ep = 0 \/ shared_ep[p].refcount <= 1

\* A new endpoint is opened in private mode, or for the first shared comm.
MustOpen(p) == use_shared_ep = 0 \/ shared_ep[p].refcount = 0

UnitMismatch(p, dev) ==
  /\ use_nccl_dev_num = 1
  /\ use_shared_ep = 1
  /\ shared_ep[p].refcount > 0
  /\ shared_ep[p].unit # dev

\* Under SHARED_EP_MULTI_WARN the mismatch is only logged.
UnitRefused(p, dev) ==
  UnitMismatch(p, dev) /\ shared_ep_multi_policy = "SHARED_EP_MULTI_ERROR"

\* The communicator gets endpoint e, open on unit u: psm2_ep_open chooses any
\* endpoint not open yet, on the unit in opts.unit when the plugin sets it.
InitEp(p, dev, e, u) ==
  /\ ~UnitRefused(p, dev)
  /\ IF MustOpen(p)
       THEN /\ EpHome[e] = p
            /\ ep_unit[e] = NULL
            /\ use_nccl_dev_num = 1 => u = dev
       ELSE e = shared_ep[p].ep /\ u = ep_unit[e]

UnitsAfterInit(e, u) == [ep_unit EXCEPT ![e] = u]

\* Faulty: only the communicator that opens the endpoint is counted.
SharedAfterInit_OpenerCounted(p, dev, e) ==
  IF use_shared_ep = 1 /\ MustOpen(p)
    THEN [ep |-> e, unit |-> shared_ep[p].unit, refcount |-> 1]
    ELSE shared_ep[p]

\* Faulty: the new endpoint is counted, but not stored for those that join it.
SharedAfterInit_EpNotStored(p, dev, e) ==
  IF use_shared_ep = 0 THEN shared_ep[p]
                       ELSE [shared_ep[p] EXCEPT !.refcount = @ + 1]

\* Faulty: the unit of the new endpoint is not stored.
SharedAfterInit_UnitNotStored(p, dev, e) ==
  IF use_shared_ep = 0 THEN shared_ep[p]
                       ELSE [shared_ep[p] EXCEPT !.ep = e, !.refcount = @ + 1]

SharedAfterInit(p, dev, e) ==
  IF use_shared_ep = 0
    THEN shared_ep[p]
    ELSE [ep |-> e,
          unit |-> IF MustOpen(p) /\ use_nccl_dev_num = 1 THEN dev
                   ELSE shared_ep[p].unit,
          refcount |-> shared_ep[p].refcount + 1]

-------------------------------------------------------------------------------
(* psm2comm_fini of a communicator on endpoint e whose shared_ep pointer is  *)
(* set iff s = 1, where sh and units are shared_ep and ep_unit at the call.  *)

\* Faulty: the reference is dropped twice.
Released_Twice(sh, s) == IF s = 1 THEN [sh EXCEPT !.refcount = @ - 2] ELSE sh

Released(sh, s) == IF s = 1 THEN [sh EXCEPT !.refcount = @ - 1] ELSE sh

\* Faulty: the last user is not waited for; it is looked for before it left.
ClosesEp_Always(sh, s) == TRUE
ClosesEp_BeforeRelease(sh, s) == s = 0 \/ sh.refcount = 0

ClosesEp(sh, s) == s = 0 \/ Released(sh, s).refcount = 0

SharedAfterFini(sh, s) ==
  IF s = 1 /\ ClosesEp(sh, s) THEN ZeroSharedEp ELSE Released(sh, s)

\* psm2_ep_close.  When it fails the endpoint may be closed all the same, or stay
\* open; the plugin has dropped its pointer either way.
EpClose(units, e, eprc) ==
  \/ ep_unit' = [units EXCEPT ![e] = NULL] /\ UNCHANGED abandoned
  \/ /\ eprc # "PSM2_OK"
     /\ ep_unit' = units
     /\ abandoned' = abandoned \cup {e}

Fini(p, sh, s, units, e, eprc) ==
  /\ shared_ep' = [shared_ep EXCEPT ![p] = SharedAfterFini(sh, s)]
  /\ IF ClosesEp(sh, s)
       THEN EpClose(units, e, eprc)
       ELSE eprc = "PSM2_OK" /\ ep_unit' = units /\ UNCHANGED abandoned

-------------------------------------------------------------------------------
(* psm2comm_init and its failures, common to listen and connect.           *)

Allocates(p, c) == Home[c] = p /\ comm[c] = NULL /\ held[c] = "none"

InitOk(p, dev, e, u) ==
  /\ InitEp(p, dev, e, u)
  /\ shared_ep' = [shared_ep EXCEPT ![p] = SharedAfterInit(p, dev, e)]
  /\ ep_unit' = UnitsAfterInit(e, u)
  /\ UNCHANGED abandoned

\* calloc, psm2_ep_open_opts_get_defaults or psm2_ep_open fails, or the unit is
\* refused: the zeroed communicator, if any, is freed and nothing else happened.
InitFailsEarly(p, dev, psm) ==
  /\ \/ psm = "PSM2_OK"                              \* calloc
     \/ UnitRefused(p, dev) /\ psm = "PSM2_OK"
     \/ ~UnitRefused(p, dev) /\ MustOpen(p) /\ psm = "PSM2_ERROR"
  /\ Returns("ncclInternalError", NULL, psm)
  /\ UNCHANGED <<config, next_tag, shared_ep, comm, epVars, held, handles, listens>>

\* Faulty: the bail-out path frees the communicator without psm2comm_fini.
BailOut_NoFini(p, dev, e, u, eprc) ==
  /\ InitOk(p, dev, e, u)
  /\ eprc = "PSM2_OK"
  /\ UNCHANGED <<config, next_tag, comm, held, handles, listens>>

\* The communicator got its endpoint, a later call failed (psm2_mq_init, or
\* psm2_ep_connect when connecting), and psm2comm_fini undoes the attachment.
BailOut(p, dev, e, u, eprc) ==
  /\ InitEp(p, dev, e, u)
  /\ Fini(p, SharedAfterInit(p, dev, e), use_shared_ep, UnitsAfterInit(e, u), e, eprc)
  /\ UNCHANGED <<config, next_tag, comm, held, handles, listens>>

InitMqFails(p, dev, e, u, eprc) ==
  /\ BailOut(p, dev, e, u, eprc)
  /\ Returns("ncclInternalError", NULL, "PSM2_ERROR")

-------------------------------------------------------------------------------
(* The calls NCCL makes.                                                   *)

TagsLeft(p) == next_tag[p] + 1 < TAG_MAX

\* Faulty: the tag of a listener is given to the next one too.
NextTag_Same(p) == next_tag

NextTag(p) == [next_tag EXCEPT ![p] = @ + 1]

\* psm2_nccl_listen: a receive communicator with a new tag, and its handle.
Listen(p, dev, c, e, u) ==
  /\ TagsLeft(p)
  /\ Allocates(p, c)
  /\ InitOk(p, dev, e, u)
  /\ LET h == [epid |-> e, tag |-> next_tag[p], born |-> <<p, listens[p]>>]
     IN /\ comm' = [comm EXCEPT ![c] =
                      [ep |-> e, shared |-> use_shared_ep, tag |-> h.tag,
                       rem_epid |-> NULL, dev |-> dev, born |-> h.born]]
        /\ handles' = handles \cup {h}
  /\ next_tag' = NextTag(p)
  /\ listens' = [listens EXCEPT ![p] = @ + 1]
  /\ held' = [held EXCEPT ![c] = "listen"]
  /\ Succeeds(c)
  /\ UNCHANGED config

\* No tag left: the assertion stops the process, or, without assertions, the call
\* fails; the statics keep their values.
ListenOutOfTags(p) ==
  /\ ~TagsLeft(p)
  /\ Returns("ncclInternalError", NULL, "PSM2_OK")
  /\ UNCHANGED <<config, next_tag, shared_ep, comm, epVars, held, handles, listens>>

\* Faulty: the sender addresses its own endpoint under the tag of the handle.
RemoteEpid_Own(h, e) == e

\* The sender's peer is the endpoint the handle names.
RemoteEpid(h, e) == h.epid

\* psm2_nccl_connect (and _v8): a send communicator for the listen handle h.
Connect(p, dev, c, h, e, u) ==
  /\ h \in handles
  /\ Allocates(p, c)
  /\ InitOk(p, dev, e, u)
  /\ comm' = [comm EXCEPT ![c] =
                [ep |-> e, shared |-> use_shared_ep, tag |-> h.tag,
                 rem_epid |-> RemoteEpid(h, e), dev |-> dev, born |-> h.born]]
  /\ handles' = handles \ {h}
  /\ held' = [held EXCEPT ![c] = "send"]
  /\ Succeeds(c)
  /\ UNCHANGED <<config, next_tag, listens>>

\* Faulty: *sendComm keeps the communicator that was freed.
SendCommAfterBail_Kept(c) == c

\* *sendComm was set before psm2_ep_connect; the bail-out path clears it.
SendCommAfterBail(c) == NULL

\* psm2_ep_connect fails or its five seconds run out.
ConnectFails(p, dev, c, h, e, u, psm, eprc) ==
  /\ h \in handles
  /\ Allocates(p, c)
  /\ BailOut(p, dev, e, u, eprc)
  /\ psm # "PSM2_OK"
  /\ Returns("ncclInternalError", SendCommAfterBail(c), psm)

\* psm2_nccl_accept (and _v8): the listener itself becomes the receiver.
Accept(c) ==
  /\ held[c] = "listen"
  /\ held' = [held EXCEPT ![c] = "accepted"]
  /\ Succeeds(c)
  /\ UNCHANGED <<config, next_tag, shared_ep, comm, epVars, handles, listens>>

\* Faulty: the listener is freed, though it may have become the receiver.
CloseListen_Frees(c) ==
  /\ held[c] \in {"accepted", "stale"}
  /\ comm[c] # NULL
  /\ Fini(Home[c], shared_ep[Home[c]], comm[c].shared, ep_unit, comm[c].ep, "PSM2_OK")
  /\ comm' = [comm EXCEPT ![c] = NULL]
  /\ held' = [held EXCEPT ![c] = IF @ = "accepted" THEN "recv" ELSE "none"]
  /\ Succeeds(NULL)
  /\ UNCHANGED <<config, next_tag, handles, listens>>

\* psm2_nccl_closeListen frees nothing: NCCL just forgets the pointer.
CloseListen(c) ==
  /\ \/ held[c] = "accepted" /\ held' = [held EXCEPT ![c] = "recv"]
     \/ held[c] = "stale" /\ held' = [held EXCEPT ![c] = "none"]
     \/ ClosesUnaccepted /\ held[c] = "listen" /\ held' = [held EXCEPT ![c] = "none"]
  /\ Succeeds(NULL)
  /\ UNCHANGED <<config, next_tag, shared_ep, comm, epVars, handles, listens>>

\* psm2_nccl_closeSend and psm2_nccl_closeRecv: psm2comm_fini, whatever fails in it.
Close(c, mqrc, eprc) ==
  /\ held[c] \in {"send", "recv", "accepted"}
  /\ Fini(Home[c], shared_ep[Home[c]], comm[c].shared, ep_unit, comm[c].ep, eprc)
  /\ comm' = [comm EXCEPT ![c] = NULL]
  /\ held' = [held EXCEPT ![c] = IF @ = "accepted" THEN "stale" ELSE "none"]
  /\ IF mqrc = "PSM2_OK" /\ eprc = "PSM2_OK"
       THEN Succeeds(NULL)
       ELSE Returns("ncclInternalError", NULL, "PSM2_ERROR")
  /\ UNCHANGED <<config, next_tag, handles, listens>>

Next ==
  \/ \E p \in Rank, dev \in Dev :
       \/ \E psm \in PsmRc : InitFailsEarly(p, dev, psm)
       \/ \E e \in Ep, u \in Dev, eprc \in {"PSM2_OK", "PSM2_ERROR"} :
            \/ InitMqFails(p, dev, e, u, eprc)
            \/ \E c \in Comm, h \in handles, psm \in PsmRc :
                 ConnectFails(p, dev, c, h, e, u, psm, eprc)
       \/ \E c \in Comm, e \in Ep, u \in Dev :
            \/ Listen(p, dev, c, e, u)
            \/ \E h \in handles : Connect(p, dev, c, h, e, u)
  \/ \E p \in Rank : ListenOutOfTags(p)
  \/ \E c \in Comm :
       \/ Accept(c)
       \/ CloseListen(c)
       \/ \E mqrc, eprc \in {"PSM2_OK", "PSM2_ERROR"} : Close(c, mqrc, eprc)

Spec == Init /\ [][Next]_vars

-------------------------------------------------------------------------------
(* Properties.                                                             *)

\* Receive communicators, accepted or not: those that own the tag they carry.
Receivers == {c \in Live : comm[c].rem_epid = NULL}
Senders   == {c \in Live : comm[c].rem_epid # NULL}

OpenEps(p) == {e \in Ep : EpHome[e] = p /\ ep_unit[e] # NULL}

\* shared_ep.refcount is the number of live communicators that point to shared_ep,
\* whatever calls failed on the way (psm2comm_init_ep increments it, every path
\* through psm2comm_fini decrements it).
RefcountExact ==
  \A p \in Rank : shared_ep[p].refcount = Cardinality(SharedComms(p))

\* No endpoint is closed under a communicator that still uses it: psm2comm_fini
\* of one communicator never takes the endpoint of another away.
EndpointOutlivesComms == \A c \in Live : ep_unit[comm[c].ep] # NULL

\* While shared_ep counts users it names the open endpoint all of them are on, so
\* that the next communicator can join it.
SharedEpIsUsersEp ==
  \A p \in Rank : shared_ep[p].refcount > 0 =>
    /\ shared_ep[p].ep # NULL
    /\ \A c \in SharedComms(p) : comm[c].ep = shared_ep[p].ep

\* Shared-EP mode: a host rank has one endpoint for all its send and receive
\* communicators (README, "PSM2-NCCL and PSM2 Multi-Endpoint"), not counting
\* endpoints that PSM2 failed to close.
OneEndpointPerRank ==
  use_shared_ep = 1 =>
    \A p \in Rank : Cardinality(OpenEps(p) \ abandoned) <= 1

\* Every open endpoint has a communicator on it, or is one psm2_ep_close failed on:
\* no sequence of failures and closes leaks an hfi1 context.
NoEndpointLeak ==
  \A e \in Ep : ep_unit[e] # NULL =>
    e \in abandoned \/ \E c \in Live : comm[c].ep = e

\* Every communicator is on the device NCCL asked for, unless the configuration
\* leaves the choice to PSM2 or says to ignore NCCL's device number.
DeviceHonoured ==
  use_nccl_dev_num = 1 /\ (use_shared_ep = 1 => shared_ep_multi_policy = "SHARED_EP_MULTI_ERROR")
    => \A c \in Live : ep_unit[comm[c].ep] = comm[c].dev

\* The (epid, tag) pair a sender carries, or a pending handle would give one, is
\* never that of another receive communicator than the one listen issued it for,
\* though epids are reused and receivers come and go: messages cannot be matched
\* by a stranger.
HandleNamesOneReceiver ==
  \A r \in Receivers :
    /\ \A s \in Senders :
         comm[s].rem_epid = comm[r].ep /\ comm[s].tag = comm[r].tag
           => comm[s].born = comm[r].born
    /\ \A h \in handles :
         h.epid = comm[r].ep /\ h.tag = comm[r].tag => h.born = comm[r].born

\* Two receive communicators on one endpoint never have the same tag: an irecv,
\* which matches on all 64 bits, cannot take the other's message.
ReceiverTagsDistinct ==
  \A r1, r2 \in Receivers :
    comm[r1].ep = comm[r2].ep /\ comm[r1].tag = comm[r2].tag => r1 = r2

\* A call hands out only a pointer to a live communicator: no failure path returns
\* one that psm2comm_fini has freed.
NoDanglingResult == ret.out # NULL => comm[ret.out] # NULL

\* A communicator is allocated exactly while NCCL holds a pointer it may still use:
\* the listener that became the receiver is freed once, by closeRecv and not by
\* closeListen, and none is stranded.
HeldIffLive ==
  \A c \in Comm : comm[c] # NULL <=> held[c] \in {"listen", "accepted", "recv", "send"}

\* connect must not block and should succeed with no communicator instead, to be
\* called again until it finishes (net_v8.h, on connect): a peer that does not
\* answer yet is no error.  The code waits for psm2_ep_connect, and fails.
SlowPeerIsRetried == ret.psm = "PSM2_TIMEOUT" => ret.rc = "ncclSuccess"

\* A call that returns an error without having been asked to close something leaves
\* every communicator, the tag counter and the handles as they were, and the
\* rank's endpoints and refcount too, unless psm2_ep_close itself failed.
FailureLeavesNoTrace ==
  [][ret'.rc = "ncclInternalError" /\ held' = held =>
       /\ UNCHANGED <<next_tag, comm, handles>>
       /\ \A p \in Rank : shared_ep'[p].refcount = shared_ep[p].refcount
       /\ \A e \in Ep : ep_unit'[e] # ep_unit[e] => e \in abandoned']_vars
===============================================================================
