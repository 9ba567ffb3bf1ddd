------------------------------- MODULE Transfer -------------------------------
(***************************************************************************)
(* Sending and receiving: isend, irecv and test over the communicators of  *)
(* SharedEp, with the PSM2 matched queue (MQ) they use.                    *)
(*                                                                         *)
(* A communicator holds NUM_REQUESTS request slots; the address of a slot  *)
(* is the request NCCL is given, and the context the MQ hands back with a  *)
(* completion.  A message names an endpoint and a tag, nothing finer, so   *)
(* there is one MQ per endpoint and every communicator of the endpoint     *)
(* works on it: a test on any of them retires completions of all of them.  *)
(*                                                                         *)
(* PSM2 and the fabric are external, modelled from the calls the plugin    *)
(* makes.  A request of either kind is one operation of the MQ; a receive  *)
(* completes when it is matched with a message of its endpoint and tag.  A *)
(* send may complete earlier than that, if PSM2 has taken a copy, but it   *)
(* need not: only a send that is matched must complete.  Buffers are their *)
(* sizes; registrations are left out.                                      *)
(***************************************************************************)
EXTENDS SharedEp

CONSTANTS
  NUM_REQUESTS,      \* request slots of a communicator
  RecvBuf,           \* size NCCL passes to irecv
  MaxCalls,          \* bound: isend or irecv calls on one communicator
  OrderedMq,         \* does the MQ match in order, though ORDERMASK_NONE is asked
  DrainsBeforeClose  \* does NCCL close only communicators with no request left

ASSUME TransferAssumption ==
  /\ NUM_REQUESTS \in Nat \ {0}
  /\ RecvBuf \in Nat
  /\ MaxCalls \in Nat
  /\ OrderedMq \in BOOLEAN
  /\ DrainsBeforeClose \in BOOLEAN

VARIABLES
  requests,   \* comm->requests[]; NULL is a slot whose used is 0
  mq,         \* PSM2: operations not retired by psm2_mq_test yet
  net,        \* PSM2: messages sent and not matched yet
  calls,      \* history: isend or irecv calls that got a request, by communicator
  pending,    \* NCCL: the requests it holds and has not seen done
  test        \* NCCL's done and size after the last test call; NULL is not written

xferVars == <<requests, mq, net, calls, pending, test>>
xvars    == <<vars, xferVars>>

Slot    == 1 .. NUM_REQUESTS
Request == Comm \X Slot

\* The size NCCL passes to the n-th isend of a communicator: sizes that differ.
DataSize(n) == n + 1

\* status.nbytes of a receive that got the n-th send, cut to its buffer if longer.
NBytes(n) == IF DataSize(n) <= RecvBuf THEN DataSize(n) ELSE RecvBuf

\* n is the number of the isend; epid, tag and born are the sender's.
Message == [epid : Ep, tag : Nat, born : Rank \X Nat, n : Nat]
\* In a request, n and msg are history: its number, and the message received.
ReqRec  == [type : {"ReqSend", "ReqRecv"}, done : {0, 1}, recv_size : Nat, n : Nat,
            msg : Message \cup {NULL}]
\* ctx is the context pointer given to psm2_mq_isend/irecv.  A send carries its
\* message, a receive the message it was matched with.
Op      == [ctx : Request, ep : Ep, type : {"ReqSend", "ReqRecv"}, tag : Nat,
            n : Nat, complete : BOOLEAN, msg : Message \cup {NULL}]

\* A message or a request that is there is not NULL.
ASSUME NoRecordIsNull == NULL \notin Message \cup ReqRec

XferTypeOK ==
  /\ requests \in [Comm -> [Slot -> ReqRec \cup {NULL}]]
  /\ mq \in SUBSET Op
  /\ net \in SUBSET Message
  /\ calls \in [Comm -> Nat]
  /\ pending \in SUBSET Request
  /\ test \in [done : {0, 1}, size : Nat \cup {NULL}]

NoRequests == [s \in Slot |-> NULL]

XferInit ==
  /\ Init
  /\ requests = [c \in Comm |-> NoRequests]
  /\ mq = {}
  /\ net = {}
  /\ calls = [c \in Comm |-> 0]
  /\ pending = {}
  /\ test = [done |-> 0, size |-> NULL]

-------------------------------------------------------------------------------
(* The calls of SharedEp, and what they do to requests: free() takes the   *)
(* slots with the communicator, calloc() hands out zeroed ones, and        *)
(* psm2_ep_close ends the MQ of the endpoint.  psm2_mq_finalize gives up   *)
(* one handle of an MQ that other communicators may still use.             *)

Lifecycle ==
  /\ Next
  /\ DrainsBeforeClose => \A r \in pending : comm'[r[1]] # NULL
  /\ requests' = [c \in Comm |-> IF comm'[c] = NULL THEN NoRequests ELSE requests[c]]
  /\ calls' = [c \in Comm |-> IF comm'[c] = NULL THEN 0 ELSE calls[c]]
  /\ pending' = {r \in pending : comm'[r[1]] # NULL}
  /\ mq' = {o \in mq : ep_unit'[o.ep] # NULL}
  /\ UNCHANGED <<net, test>>

-------------------------------------------------------------------------------
(* Requests: get_req, put_req.                                             *)

\* Faulty: get_req does not look at used.
FreeSlots_IgnoresUsed(c) == Slot

FreeSlots(c) == {s \in Slot : requests[c][s] = NULL}

\* get_req takes the first slot not in use.
GetReq(c) == CHOOSE s \in FreeSlots(c) : \A t \in FreeSlots(c) : s <= t

NewReq(type, n) == [type |-> type, done |-> 0, recv_size |-> 0, n |-> n, msg |-> NULL]

\* Faulty: every operation is posted with the first slot as its context.
Context_FirstSlot(c, s) == <<c, 1>>

\* The context pointer of an operation is the request itself.
Context(c, s) == <<c, s>>

\* A request of the given type gets slot s, and PSM2 accepts its operation.
Posts(c, s, type, msg) ==
  /\ FreeSlots(c) # {}
  /\ calls[c] < MaxCalls
  /\ s = GetReq(c)
  /\ requests' = [requests EXCEPT ![c][s] = NewReq(type, calls[c])]
  /\ mq' = mq \cup {[ctx |-> Context(c, s), ep |-> comm[c].ep, type |-> type,
                     tag |-> comm[c].tag, n |-> calls[c], complete |-> FALSE,
                     msg |-> msg]}
  /\ calls' = [calls EXCEPT ![c] = @ + 1]
  /\ pending' = pending \cup {<<c, s>>}
  /\ UNCHANGED <<vars, test>>

\* psm2_nccl_isend (and _v4): to the endpoint and tag of the handle.
Isend(c) ==
  /\ held[c] = "send"
  /\ LET m == [epid |-> comm[c].rem_epid, tag |-> comm[c].tag,
               born |-> comm[c].born, n |-> calls[c]]
     IN \E s \in Slot : Posts(c, s, "ReqSend", m) /\ net' = net \cup {m}

\* psm2_nccl_irecv_v4 (and irecv): matches all bits of the communicator's tag.
Irecv(c) ==
  /\ held[c] \in {"accepted", "recv"}
  /\ \E s \in Slot : Posts(c, s, "ReqRecv", NULL)
  /\ UNCHANGED net

\* No slot is free, and *request is NULL; or PSM2 refuses the operation, put_req
\* zeroes the slot again and the call fails.
PostRefused(c) ==
  /\ held[c] \in {"send", "accepted", "recv"}
  /\ UNCHANGED xvars

-------------------------------------------------------------------------------
(* psm2_nccl_test and mq_progress_loop.                                    *)

Completed(e) == {o \in mq : o.ep = e /\ o.complete}

\* The assertions of mq_progress_loop on a completion: r->used and !r->done.
MeetsItsRequest(o) ==
  /\ requests[o.ctx[1]][o.ctx[2]] # NULL
  /\ requests[o.ctx[1]][o.ctx[2]].done = 0

Received(r, o) ==
  [r EXCEPT !.done = 1, !.recv_size = NBytes(o.msg.n), !.msg = o.msg]

\* Faulty: done is set inside the branch for receives.
Marked_OnlyReceives(r, o) == IF r.type = "ReqRecv" THEN Received(r, o) ELSE r

\* Marks the request in the context of a completion, of whatever communicator.
\* The error_code of the status is not looked at.
Marked(r, o) ==
  IF r.type = "ReqRecv" THEN Received(r, o) ELSE [r EXCEPT !.done = 1]

\* requests once the loop has retired the completions in R.
AfterProgress(R) ==
  [c \in Comm |-> [s \in Slot |->
     IF \E o \in R : o.ctx = <<c, s>>
       THEN Marked(requests[c][s], CHOOSE o \in R : o.ctx = <<c, s>>)
       ELSE requests[c][s]]]

\* mq_progress_loop on the MQ of endpoint e retires R.  A completion that fails its
\* assertion stops the process, and so does a psm2_mq_ipeek or psm2_mq_test that
\* fails (317): then there is no such step.
Progress(e, R) ==
  /\ R \subseteq Completed(e)
  /\ \A o \in R : MeetsItsRequest(o)
  /\ mq' = mq \ R

\* Faulty: the request is not put back; it is cleared but stays in use.
PutReq_Forgotten(rs, c, s) == rs
PutReq_KeepsUsed(rs, c, s) == [rs EXCEPT ![c][s].type = "0"]

\* put_req zeroes the slot.
PutReq(rs, c, s) == [rs EXCEPT ![c][s] = NULL]

NotDone == [done |-> 0, size |-> NULL]

\* Faulty: put_req zeroes the request before its size is read.
Done_AfterPutReq(r) == [done |-> 1, size |-> IF r.type = "ReqRecv" THEN 0 ELSE NULL]

\* What test tells of request r when it is done: the size of a receive only.
Done(r) == [done |-> 1, size |-> IF r.type = "ReqRecv" THEN r.recv_size ELSE NULL]

\* test of a request in use retires every completion of its MQ; if that, or an
\* earlier call, marked the request, put_req zeroes it and it is reported done.
Test(c, s) ==
  /\ <<c, s>> \in pending
  /\ requests[c][s] # NULL
  /\ Progress(comm[c].ep, Completed(comm[c].ep))
  /\ LET after == AfterProgress(Completed(comm[c].ep))
     IN IF after[c][s].done = 1
          THEN /\ requests' = PutReq(after, c, s)
               /\ pending' = pending \ {<<c, s>>}
               /\ test' = Done(after[c][s])
          ELSE /\ requests' = after
               /\ test' = NotDone
               /\ UNCHANGED pending
  /\ UNCHANGED <<vars, net, calls>>

\* test of a request that is not in use: *done is cleared before the check.
TestUnused(c, s) ==
  /\ comm[c] # NULL
  /\ requests[c][s] = NULL
  /\ test' = NotDone
  /\ UNCHANGED <<vars, requests, mq, net, calls, pending>>

-------------------------------------------------------------------------------
(* PSM2 and the fabric.                                                    *)

\* The message of a send, which is in the fabric until a receive takes it, was taken.
Matched(o) == o.type = "ReqSend" /\ o.msg \notin net

\* PSM2 completes a send when it pleases: at once if it copied the message, or, if the
\* receiver has to fetch it, after the match.
SendCompletes(o) ==
  /\ o.type = "ReqSend" /\ ~o.complete
  /\ mq' = (mq \ {o}) \cup {[o EXCEPT !.complete = TRUE]}
  /\ UNCHANGED <<vars, requests, net, calls, pending, test>>

\* Faulty: the receive selects no bit of the tag.
TagSelected_Any(o, m) == TRUE

\* psm2_mq_irecv is given all 64 bits of the tag to match on.
TagSelected(o, m) == o.tag = m.tag

SameQueue(o, m) ==
  o.type = "ReqRecv" /\ ~o.complete /\ o.ep = m.epid /\ TagSelected(o, m)

\* Receive o gets message m: in order of the calls on either side, if it is ordered.
Match(o, m) ==
  /\ SameQueue(o, m)
  /\ OrderedMq =>
       /\ \A x \in mq : SameQueue(x, m) => o.n <= x.n
       /\ \A x \in net : SameQueue(o, x) => m.n <= x.n
  /\ mq' = (mq \ {o}) \cup {[o EXCEPT !.complete = TRUE, !.msg = m]}
  /\ net' = net \ {m}
  /\ UNCHANGED <<vars, requests, calls, pending, test>>

XferNext ==
  \/ Lifecycle
  \/ \E c \in Comm :
       \/ Isend(c)
       \/ Irecv(c)
       \/ PostRefused(c)
       \/ \E s \in Slot : Test(c, s) \/ TestUnused(c, s)
  \/ \E o \in mq : SendCompletes(o) \/ \E m \in net : Match(o, m)

XferSpec == XferInit /\ [][XferNext]_xvars

\* NCCL polls every request it holds, and PSM2, while it is polled, matches what it can
\* and completes the sends that are matched.  Nobody has to post a receive, and a send
\* without one may wait for ever.
XferFairness ==
  /\ \A c \in Comm, s \in Slot : WF_xvars(Test(c, s))
  /\ WF_xvars(\E o \in mq : Matched(o) /\ SendCompletes(o))
  /\ WF_xvars(\E o \in mq, m \in net : Match(o, m))

XferFairSpec == XferSpec /\ XferFairness

-------------------------------------------------------------------------------
(* Properties.                                                             *)

Used == {r \in Request : requests[r[1]][r[2]] # NULL}
Req(r) == requests[r[1]][r[2]]

\* The assertions r->used and !r->done of mq_progress_loop hold for every operation
\* an MQ still has, whichever communicator's test retires it: its context is a
\* request in use and not done, of the operation's type, on its endpoint.
OpsMeetTheirRequests ==
  \A o \in mq :
    /\ MeetsItsRequest(o)
    /\ Req(o.ctx).type = o.type
    /\ comm[o.ctx[1]].ep = o.ep

\* A request NCCL waits for is either marked done, or exactly one operation that
\* will mark it is left: a test on one communicator that retires another's
\* completion loses nothing, and no completion is counted twice.
NoRequestStranded ==
  \A r \in pending :
    /\ Req(r) # NULL
    /\ Cardinality({o \in mq : o.ctx = r}) = 1 - Req(r).done

\* Slots are in use exactly while NCCL waits for their request: none leaks, and
\* none is given out again before NCCL saw it done.
UsedIffPending == Used = pending

\* A receive gets messages only of the sender that connected with the handle its
\* listener issued, across endpoints shared, closed and reopened under one epid.
RightReceiver ==
  \A r \in Used :
    Req(r).msg # NULL => Req(r).msg.born = comm[r[1]].born

\* If the MQ matches in order, the n-th receive of a communicator gets the n-th
\* send of its peer: slots are reused in any order, the pairing never shifts.
NthReceiveGetsNthSend ==
  OrderedMq => \A r \in Used : Req(r).msg # NULL => Req(r).msg.n = Req(r).n

\* The size that test reports with the n-th receive is the size NCCL passed to the
\* n-th isend of the peer, cut to the buffer, whichever communicator's test retired
\* the completion and however long ago: get_req and put_req of other requests never
\* touch it.  (A message that was cut is reported like any other.)
SizeIsOfNthSend ==
  [][OrderedMq =>
       \A r \in pending \ pending' :
         held[r[1]] \in {"accepted", "recv"} /\ comm'[r[1]] # NULL
           => test'.size = NBytes(Req(r).n)]_xvars

\* A request whose operation completed is eventually reported to NCCL or goes with
\* its communicator, even if another communicator's test retired the completion.
CompletionReported ==
  \A r \in Request :
    (\E o \in mq : o.ctx = r /\ o.complete) ~> r \notin pending

\* The receiver took the message of one of the sends of c, or has posted the receive of
\* its number for it.
ReceiverPosted(c) ==
  \E o \in mq :
    /\ o.type = "ReqSend" /\ o.ctx[1] = c
    /\ Matched(o) \/ \E x \in mq : SameQueue(x, o.msg) /\ x.n = o.n

\* A sender out of request slots (isend returns NULL requests) gets one back once its
\* receiver posts the receive for one of its sends, if the MQ matches in order; without
\* the receive a large send holds its slot.
FullSenderRecovers ==
  OrderedMq =>
    \A c \in Comm :
      (held[c] = "send" /\ FreeSlots(c) = {} /\ ReceiverPosted(c)) ~> FreeSlots(c) # {}
===============================================================================
