------------------------------- MODULE CommSteps -------------------------------
(***************************************************************************)
(* listen, connect and the closes of SharedEp, one access to the statics   *)
(* or one PSM2 call at a time, on threads.                                 *)
(*                                                                         *)
(* A thread in a call has a frame: the label it is at, and its arguments   *)
(* and locals.  The memory of a communicator is private to the call that   *)
(* makes or closes it, so it is read and written in the same step as the   *)
(* static or PSM2 next to it.  An increment or decrement is one step, as   *)
(* an x86 build does it; with threads that overlap it could be less.       *)
(*                                                                         *)
(* The statics in the middle of a call belong to no state of SharedEp.     *)
(* "seen" is the job as if the calls in progress had not begun: a call     *)
(* takes effect in SharedEp when it returns.                               *)
(***************************************************************************)
EXTENDS SharedEp

CONSTANTS
  Thread,      \* threads NCCL calls the plugin from
  ThreadRank,  \* ThreadRank[t]: the process thread t is of
  Serialised   \* do the calls of one process never overlap

ASSUME StepsAssumption ==
  /\ ThreadRank \in [Thread -> Rank]
  /\ Serialised \in BOOLEAN

VARIABLES
  frame,   \* frame of each thread, NULL when it is in no call
  seen     \* history: what each rank owned when its last call returned

svars == <<vars, frame, seen>>

Label == {"unit_check", "user_check", "ep_open", "store", "join", "attach", "mq_init",
          "tag", "ep_connect", "release", "last_check", "ep_close", "clear", "free"}

\* c is the communicator, h the handle of a connect, ep a local, failed the result
\* the call will give, psm what PSM2 said when it failed.
Frame == [pc : Label, op : {"listen", "connect", "close"}, c : Comm, dev : Dev,
          h : Handle \cup {NULL}, ep : Ep \cup {NULL}, failed : BOOLEAN, psm : PsmRc]

\* A communicator in the making: what calloc zeroed.
Blank(dev) == [ep |-> NULL, shared |-> 0, tag |-> 0, rem_epid |-> NULL, dev |-> dev,
               born |-> NULL]

Running(p) == {t \in Thread : ThreadRank[t] = p /\ frame[t] # NULL}

\* A thread in a call has a frame.
ASSUME NoFrameIsNull == NULL \notin Frame

StepsInit ==
  /\ Init
  /\ frame = [t \in Thread |-> NULL]
  /\ seen = [next_tag |-> next_tag, shared_ep |-> shared_ep, comm |-> comm,
             ep_unit |-> ep_unit, abandoned |-> abandoned]

-------------------------------------------------------------------------------
(* Calls begin and end.                                                    *)

MayCall(t) == frame[t] = NULL /\ (Serialised => Running(ThreadRank[t]) = {})

Enters(t, f) ==
  /\ MayCall(t)
  /\ frame' = [frame EXCEPT ![t] = f]
  /\ UNCHANGED <<config, next_tag, shared_ep, epVars, held, handles, listens, ret, seen>>

\* The entry checks of listen and connect, up to calloc in psm2comm_init.
NewComm(t, op, dev, c, h) ==
  /\ Allocates(ThreadRank[t], c)
  /\ comm' = [comm EXCEPT ![c] = Blank(dev)]
  /\ Enters(t, [pc |-> "unit_check", op |-> op, c |-> c, dev |-> dev, h |-> h,
                ep |-> NULL, failed |-> FALSE, psm |-> "PSM2_OK"])

EnterListen(t, dev, c) == TagsLeft(ThreadRank[t]) /\ NewComm(t, "listen", dev, c, NULL)

\* NCCL uses a handle in one connect at a time.
EnterConnect(t, dev, c, h) ==
  /\ \A x \in Thread : frame[x] # NULL => frame[x].h # h
  /\ NewComm(t, "connect", dev, c, h)

\* psm2comm_fini up to psm2_mq_finalize, whose result is kept; NCCL closes once.
EnterClose(t, c, mqrc) ==
  /\ Home[c] = ThreadRank[t]
  /\ held[c] \in {"send", "recv", "accepted"}
  /\ \A x \in Thread : frame[x] # NULL => frame[x].c # c
  /\ UNCHANGED comm
  /\ Enters(t, [pc |-> "release", op |-> "close", c |-> c, dev |-> comm[c].dev,
                h |-> NULL, ep |-> NULL, failed |-> mqrc # "PSM2_OK", psm |-> mqrc])

\* Calls that touch no static: accept, closeListen, and those that fail at once.
OneStep(t) ==
  /\ MayCall(t)
  /\ \/ \E c \in Comm : Home[c] = ThreadRank[t] /\ (Accept(c) \/ CloseListen(c))
     \/ ListenOutOfTags(ThreadRank[t])
     \/ \E dev \in Dev : InitFailsEarly(ThreadRank[t], dev, "PSM2_OK")
  /\ UNCHANGED <<frame, seen>>

\* A call returns, with the primed values of what its rank owns.
Leaves(t) ==
  LET p == ThreadRank[t]
  IN /\ frame' = [frame EXCEPT ![t] = NULL]
     /\ seen' =
          [next_tag |-> [seen.next_tag EXCEPT ![p] = next_tag'[p]],
           shared_ep |-> [seen.shared_ep EXCEPT ![p] = shared_ep'[p]],
           comm |-> [c \in Comm |-> IF Home[c] = p THEN comm'[c] ELSE seen.comm[c]],
           ep_unit |-> [e \in Ep |-> IF EpHome[e] = p THEN ep_unit'[e] ELSE seen.ep_unit[e]],
           abandoned |-> {e \in Ep : e \in IF EpHome[e] = p THEN abandoned' ELSE seen.abandoned}]

-------------------------------------------------------------------------------
(* The steps of a call.                                                    *)

At(t, label) == frame[t] # NULL /\ frame[t].pc = label
Goto(t, label) == frame' = [frame EXCEPT ![t].pc = label]
Fails(t, label, psm) ==
  frame' = [frame EXCEPT ![t].pc = label, ![t].failed = TRUE, ![t].psm = psm]
SameCall == UNCHANGED <<config, held, handles, listens, ret, seen>>

\* The policy switch.  A refused communicator has no endpoint yet.
UnitCheck(t) ==
  /\ At(t, "unit_check")
  /\ IF UnitRefused(ThreadRank[t], frame[t].dev)
       THEN Fails(t, "free", "PSM2_OK")
       ELSE Goto(t, "user_check")
  /\ SameCall /\ UNCHANGED <<next_tag, shared_ep, comm, epVars>>

\* Is there a user already: this second look at refcount decides who opens.
UserCheck(t) ==
  /\ At(t, "user_check")
  /\ Goto(t, IF MustOpen(ThreadRank[t]) THEN "ep_open" ELSE "join")
  /\ SameCall /\ UNCHANGED <<next_tag, shared_ep, comm, epVars>>

EpOpen(t, e, u) ==
  /\ At(t, "ep_open")
  /\ EpHome[e] = ThreadRank[t] /\ ep_unit[e] = NULL
  /\ use_nccl_dev_num = 1 => u = frame[t].dev
  /\ ep_unit' = UnitsAfterInit(e, u)
  /\ frame' = [frame EXCEPT ![t].ep = e,
                            ![t].pc = IF use_shared_ep = 1 THEN "store" ELSE "attach"]
  /\ SameCall /\ UNCHANGED <<next_tag, shared_ep, comm, abandoned>>

EpOpenFails(t) ==
  /\ At(t, "ep_open")
  /\ Fails(t, "free", "PSM2_ERROR")
  /\ SameCall /\ UNCHANGED <<next_tag, shared_ep, comm, epVars>>

Store(t) ==
  /\ At(t, "store")
  /\ shared_ep' = [shared_ep EXCEPT ![ThreadRank[t]].ep = frame[t].ep,
       ![ThreadRank[t]].unit = IF use_nccl_dev_num = 1 THEN frame[t].dev ELSE @]
  /\ Goto(t, "attach")
  /\ SameCall /\ UNCHANGED <<next_tag, comm, epVars>>

Join(t) ==
  /\ At(t, "join")
  /\ frame' = [frame EXCEPT ![t].pc = "attach", ![t].ep = shared_ep[ThreadRank[t]].ep]
  /\ SameCall /\ UNCHANGED <<next_tag, shared_ep, comm, epVars>>

Attach(t) ==
  /\ At(t, "attach")
  /\ comm' = [comm EXCEPT ![frame[t].c].ep = frame[t].ep,
                          ![frame[t].c].shared = use_shared_ep]
  /\ shared_ep' = [shared_ep EXCEPT ![ThreadRank[t]].refcount = @ + use_shared_ep]
  /\ Goto(t, "mq_init")
  /\ SameCall /\ UNCHANGED <<next_tag, epVars>>

MqInit(t) ==
  /\ At(t, "mq_init")
  /\ \/ Goto(t, IF frame[t].op = "listen" THEN "tag" ELSE "ep_connect")
     \/ Fails(t, "release", "PSM2_ERROR")
  /\ SameCall /\ UNCHANGED <<next_tag, shared_ep, comm, epVars>>

\* The end of listen: a tag, and the handle.
Tag(t) ==
  LET p == ThreadRank[t]  c == frame[t].c  born == <<p, listens[p]>>
  IN /\ At(t, "tag")
     /\ comm' = [comm EXCEPT ![c].tag = next_tag[p], ![c].born = born]
     /\ handles' = handles \cup {[epid |-> comm[c].ep, tag |-> next_tag[p], born |-> born]}
     /\ next_tag' = NextTag(p)
     /\ listens' = [listens EXCEPT ![p] = @ + 1]
     /\ held' = [held EXCEPT ![c] = "listen"]
     /\ Succeeds(c)
     /\ UNCHANGED <<config, shared_ep, epVars>>
     /\ Leaves(t)

\* The end of connect, when psm2_ep_connect succeeds.
EpConnect(t) ==
  LET c == frame[t].c  h == frame[t].h
  IN /\ At(t, "ep_connect")
     /\ comm' = [comm EXCEPT ![c].tag = h.tag, ![c].born = h.born,
                             ![c].rem_epid = RemoteEpid(h, comm[c].ep)]
     /\ handles' = handles \ {h}
     /\ held' = [held EXCEPT ![c] = "send"]
     /\ Succeeds(c)
     /\ UNCHANGED <<config, next_tag, shared_ep, epVars, listens>>
     /\ Leaves(t)

EpConnectFails(t, psm) ==
  /\ At(t, "ep_connect")
  /\ Fails(t, "release", psm)
  /\ SameCall /\ UNCHANGED <<next_tag, shared_ep, comm, epVars>>

\* psm2comm_fini, for a close and for every bail-out.
Release(t) ==
  /\ At(t, "release")
  /\ shared_ep' = [shared_ep EXCEPT ![ThreadRank[t]] = Released(@, comm[frame[t].c].shared)]
  /\ Goto(t, "last_check")
  /\ SameCall /\ UNCHANGED <<next_tag, comm, epVars>>

\* Faulty: the endpoint is never closed by the last shared user; is always closed.
Last_Private(t) == comm[frame[t].c].shared = 0
Last_Always(t) == TRUE

\* The communicator's endpoint has no other user.
Last(t) == comm[frame[t].c].shared = 0 \/ shared_ep[ThreadRank[t]].refcount = 0

LastCheck(t) ==
  /\ At(t, "last_check")
  /\ Goto(t, IF Last(t) THEN "ep_close" ELSE "free")
  /\ SameCall /\ UNCHANGED <<next_tag, shared_ep, comm, epVars>>

EpCloses(t, eprc) ==
  /\ At(t, "ep_close")
  /\ EpClose(ep_unit, comm[frame[t].c].ep, eprc)
  /\ frame' = [frame EXCEPT
       ![t].pc = IF comm[frame[t].c].shared = 1 THEN "clear" ELSE "free",
       ![t].failed = @ \/ eprc # "PSM2_OK",
       ![t].psm = IF eprc # "PSM2_OK" /\ frame[t].op = "close" THEN eprc ELSE @]
  /\ SameCall /\ UNCHANGED <<next_tag, shared_ep, comm>>

Clear(t) ==
  /\ At(t, "clear")
  /\ shared_ep' = [shared_ep EXCEPT ![ThreadRank[t]] = ZeroSharedEp]
  /\ Goto(t, "free")
  /\ SameCall /\ UNCHANGED <<next_tag, comm, epVars>>

\* free(comm), and the return of a close or of a call that failed.
Free(t) ==
  LET c == frame[t].c
  IN /\ At(t, "free")
     /\ comm' = [comm EXCEPT ![c] = NULL]
     /\ held' = [held EXCEPT ![c] = IF @ = "accepted" THEN "stale" ELSE "none"]
     /\ IF frame[t].failed
          THEN Returns("ncclInternalError", NULL, frame[t].psm)
          ELSE Succeeds(NULL)
     /\ UNCHANGED <<config, next_tag, shared_ep, epVars, handles, listens>>
     /\ Leaves(t)

StepsNext ==
  \E t \in Thread :
    \/ OneStep(t)
    \/ \E c \in Comm :
         \/ \E dev \in Dev : EnterListen(t, dev, c) \/ \E h \in handles : EnterConnect(t, dev, c, h)
         \/ \E mqrc \in {"PSM2_OK", "PSM2_ERROR"} : EnterClose(t, c, mqrc)
    \/ UnitCheck(t) \/ UserCheck(t)
    \/ \E e \in Ep, u \in Dev : EpOpen(t, e, u)
    \/ EpOpenFails(t) \/ Store(t) \/ Join(t) \/ Attach(t) \/ MqInit(t)
    \/ Tag(t) \/ EpConnect(t)
    \/ \E psm \in PsmRc \ {"PSM2_OK"} : EpConnectFails(t, psm)
    \/ Release(t) \/ LastCheck(t)
    \/ \E eprc \in {"PSM2_OK", "PSM2_ERROR"} : EpCloses(t, eprc)
    \/ Clear(t) \/ Free(t)

StepsSpec == StepsInit /\ [][StepsNext]_svars

-------------------------------------------------------------------------------
(* Properties.                                                             *)

StepsTypeOK ==
  /\ frame \in [Thread -> Frame \cup {NULL}]
  /\ shared_ep \in [Rank -> SharedRec]
  /\ seen.shared_ep \in [Rank -> SharedRec]

\* At every step of a call, the endpoint of each communicator that NCCL holds and is
\* not closing is open, so that isend, irecv and test may go on meanwhile.
HeldEndpointsOpen ==
  \A c \in Comm :
    /\ held[c] \in {"listen", "accepted", "recv", "send"}
    /\ \A t \in Thread : frame[t] # NULL => frame[t].c # c
    => ep_unit[comm[c].ep] # NULL

\* SharedEp, with a rank's part as it was when its last call returned.
Calls == INSTANCE SharedEp WITH
  next_tag  <- seen.next_tag,
  shared_ep <- seen.shared_ep,
  comm      <- seen.comm,
  ep_unit   <- seen.ep_unit,
  abandoned <- seen.abandoned

\* A handle names one receiver for every communicator whose call has returned, when
\* ranks that count their tags alike exchange handles in the middle of each other's
\* calls.
HandleNamesOneSeenReceiver == Calls!HandleNamesOneReceiver

\* If the calls of each process do not overlap, each of them is one step of SharedEp,
\* on success and on every failing path, however the calls of other processes
\* interleave with it: psm2comm_init_ep, psm2comm_init and psm2comm_fini may be
\* read as one atomic call.
CallsAreAtomic == Calls!Spec
===============================================================================
