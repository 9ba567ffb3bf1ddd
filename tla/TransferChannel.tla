---------------------------- MODULE TransferChannel ----------------------------
(***************************************************************************)
(* Transfer implements Channel: endpoints that are shared, closed and      *)
(* reopened, tags, one matched queue for many communicators, completions   *)
(* retired by the wrong communicator's test and slots that are reused do   *)
(* not show through in what NCCL sees of its connections.                  *)
(***************************************************************************)
EXTENDS Transfer

\* A communicator that is not allocated is on no side of a link.
ASSUME NullIsNoSide == NULL \notin (Rank \X (0 .. TAG_MAX)) \X {"send", "recv"}

\* A link is a listen call; a communicator carries the one its tag came from.
Listens == {b \in Rank \X (0 .. TAG_MAX) : b[2] < listens[b[1]]}

SideOf(c) ==
  IF comm[c] = NULL THEN NULL
  ELSE <<comm[c].born, IF comm[c].rem_epid = NULL THEN "recv" ELSE "send">>

\* Both ends of a link were opened once its handle has been used.
Opened ==
  (Listens \X {"recv"})
    \cup ({b \in Listens : \A h \in handles : h.born # b} \X {"send"})

OutOf(c) == {Req(<<c, s>>).n : s \in {t \in Slot : requests[c][t] # NULL}}

\* A delivery is a receive the queue completed, and then a request marked done.
GotOf ==
  {[end |-> o.ctx[1], n |-> o.n, msg |-> [link |-> o.msg.born, n |-> o.msg.n]] :
     o \in {x \in mq : x.type = "ReqRecv" /\ x.complete}}
  \cup
  {[end |-> r[1], n |-> Req(r).n, msg |-> [link |-> Req(r).msg.born, n |-> Req(r).msg.n]] :
     r \in {x \in Used : Req(x).msg # NULL}}

Abstract == INSTANCE Channel WITH
  End     <- Comm,
  Link    <- Rank \X (0 .. TAG_MAX),
  Window  <- NUM_REQUESTS,
  Ordered <- OrderedMq,
  side    <- [c \in Comm |-> SideOf(c)],
  opened  <- Opened,
  issued  <- calls,
  out     <- [c \in Comm |-> OutOf(c)],
  wire    <- {[link |-> m.born, n |-> m.n] : m \in net},
  got     <- GotOf

\* Every behaviour of the plugin is one of Channel: what connect, accept, isend,
\* irecv and test do together keeps the promises of a connection, and steps that
\* only move PSM2's or the plugin's own state do not show.
ImplementsChannel == Abstract!ChannelSpec
================================================================================
