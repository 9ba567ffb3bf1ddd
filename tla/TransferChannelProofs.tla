------------------------- MODULE TransferChannelProofs -------------------------
(***************************************************************************)
(* Proof that Transfer implements Channel, step by step: every step of the *)
(* plugin and of PSM2 is a step of Channel or does not show in it.         *)
(***************************************************************************)
EXTENDS TransferChannel, TransferProofs

-------------------------------------------------------------------------------
(* The state of Channel, as functions of requests and operations.          *)

Sides == [c \in Comm |-> SideOf(c)]
Outs  == [c \in Comm |-> OutOf(c)]
Wire  == {[link |-> m.born, n |-> m.n] : m \in net}

\* The delivery of message m to receive n of communicator c.
Delivery(c, n, m) == [end |-> c, n |-> n, msg |-> [link |-> m.born, n |-> m.n]]

GotBy(rs, ops) ==
  {Delivery(o.ctx[1], o.n, o.msg) : o \in {x \in ops : x.type = "ReqRecv" /\ x.complete}}
  \cup
  {Delivery(r[1], rs[r[1]][r[2]].n, rs[r[1]][r[2]].msg) :
     r \in {x \in Request : rs[x[1]][x[2]] # NULL /\ rs[x[1]][x[2]].msg # NULL}}

\* The deliveries are a function of the requests and the operations, before a step and after.
LEMMA GotIsGotBy == GotOf = GotBy(requests, mq) /\ GotOf' = GotBy(requests', mq')
  BY DEF GotOf, GotBy, Delivery, Used, Req

\* A delivery is one of a completed receive, or of a request that has its message.
LEMMA GotMember ==
  ASSUME NEW rs, NEW ops, NEW g
  PROVE  g \in GotBy(rs, ops) <=>
           \/ \E o \in ops : /\ o.type = "ReqRecv" /\ o.complete
                             /\ g = Delivery(o.ctx[1], o.n, o.msg)
           \/ \E c \in Comm, s \in Slot : /\ rs[c][s] # NULL /\ rs[c][s].msg # NULL
                                          /\ g = Delivery(c, rs[c][s].n, rs[c][s].msg)
<1>1. (\E r \in {x \in Request : rs[x[1]][x[2]] # NULL /\ rs[x[1]][x[2]].msg # NULL} :
         g = Delivery(r[1], rs[r[1]][r[2]].n, rs[r[1]][r[2]].msg))
      <=> \E c \in Comm, s \in Slot : /\ rs[c][s] # NULL /\ rs[c][s].msg # NULL
                                      /\ g = Delivery(c, rs[c][s].n, rs[c][s].msg)
  <2>1. ASSUME NEW r \in Request, rs[r[1]][r[2]] # NULL, rs[r[1]][r[2]].msg # NULL,
               g = Delivery(r[1], rs[r[1]][r[2]].n, rs[r[1]][r[2]].msg)
        PROVE  \E c \in Comm, s \in Slot : /\ rs[c][s] # NULL /\ rs[c][s].msg # NULL
                                           /\ g = Delivery(c, rs[c][s].n, rs[c][s].msg)
    <3>1. r[1] \in Comm /\ r[2] \in Slot
      BY DEF Request
    <3> QED BY <2>1, <3>1
  <2>2. ASSUME NEW c \in Comm, NEW s \in Slot, rs[c][s] # NULL, rs[c][s].msg # NULL,
               g = Delivery(c, rs[c][s].n, rs[c][s].msg)
        PROVE  \E r \in {x \in Request : rs[x[1]][x[2]] # NULL /\ rs[x[1]][x[2]].msg # NULL} :
                 g = Delivery(r[1], rs[r[1]][r[2]].n, rs[r[1]][r[2]].msg)
    <3> DEFINE r == <<c, s>>
    <3>1. r \in Request /\ r[1] = c /\ r[2] = s
      BY DEF Request
    <3> HIDE DEF r
    <3> QED BY <2>2, <3>1
  <2> QED BY <2>1, <2>2
<1> QED BY <1>1 DEF GotBy

\* Before the first call no side of a link is open and nothing was delivered.
LEMMA InitMaps ==
  ASSUME XferInit
  PROVE  Abstract!ChannelInit
<1>1. /\ requests = [c \in Comm |-> NoRequests] /\ mq = {} /\ net = {}
      /\ calls = [c \in Comm |-> 0] /\ comm = [c \in Comm |-> NULL]
      /\ listens = [p \in Rank |-> 0]
  BY DEF XferInit, Init
<1>s. \A c \in Comm, s \in Slot : requests[c][s] = NULL
  BY <1>1 DEF NoRequests
<1>2. /\ \A c \in Comm : SideOf(c) = NULL /\ OutOf(c) = {}
      /\ Listens = {} /\ Used = {}
  <2>1. \A c \in Comm : SideOf(c) = NULL /\ OutOf(c) = {}
    BY <1>1, <1>s DEF SideOf, OutOf
  <2>2. ASSUME NEW b \in Listens
        PROVE  FALSE
    BY <1>1 DEF Listens
  <2>3. ASSUME NEW r \in Used
        PROVE  FALSE
    BY <1>s DEF Used, Request
  <2> QED BY <2>1, <2>2, <2>3
<1>3. Opened = {} /\ GotOf = {}
  BY <1>1, <1>2 DEF Opened, GotOf
<1> QED BY <1>1, <1>2, <1>3 DEF Abstract!ChannelInit

\* A step that changes nothing NCCL sees of its connections is no step of Channel.
LEMMA HiddenStep ==
  ASSUME UNCHANGED <<comm, listens, handles, calls, net>>,
         \A c \in Comm : OutOf(c)' = OutOf(c), GotOf' = GotOf
  PROVE  UNCHANGED Abstract!chvars
<1>1. UNCHANGED Sides
  BY DEF Sides, SideOf
<1>2. UNCHANGED Opened
  BY DEF Opened, Listens
<1>3. UNCHANGED Outs
  BY DEF Outs
<1> QED BY <1>1, <1>2, <1>3 DEF Abstract!chvars, Sides, Outs

\* The link a communicator carries is one a listen made.
LEMMA BornIsLink ==
  ASSUME IInv, LinkInv, NEW c \in Comm, comm[c] # NULL
  PROVE  comm[c].born \in Rank \X (0 .. TAG_MAX)
<1>1. ASSUME NEW p \in Rank, NEW t \in Nat, t < next_tag[p]
      PROVE  <<p, t>> \in Rank \X (0 .. TAG_MAX)
  <2>1. next_tag[p] \in Nat /\ next_tag[p] <= TAG_MAX
    BY DEF IInv, TypeOK, LinkInv
  <2> QED BY <1>1, <2>1, ConstAssumption
<1>2. CASE comm[c].rem_epid = NULL
  <2>1. c \in Receivers
    BY <1>2 DEF Receivers, Live
  <2>2. /\ comm[c].born = <<Home[c], comm[c].tag>> /\ Home[c] \in Rank
        /\ comm[c].tag \in Nat /\ comm[c].tag < next_tag[Home[c]]
    BY <2>1, TagsCounted
  <2> QED BY <1>1, <2>2
<1>3. CASE comm[c].rem_epid # NULL
  <2>1. c \in Senders
    BY <1>3 DEF Senders, Live
  <2> DEFINE p == EpHome[comm[c].rem_epid]
  <2>2. /\ comm[c].born = <<p, comm[c].tag>> /\ p \in Rank
        /\ comm[c].tag \in Nat /\ comm[c].tag < next_tag[p]
    BY <2>1, TagsCounted
  <2> QED BY <1>1, <2>2
<1> QED BY <1>2, <1>3

-------------------------------------------------------------------------------
(* The calls of SharedEp.                                                  *)

\* They leave requests and messages alone; close ends the communicator's numbers.
LEMMA LifecycleShows ==
  ASSUME DrainsBeforeClose, XInv, Lifecycle
  PROVE  /\ UNCHANGED <<Outs, Wire, GotOf>>
         /\ \A c \in Comm : OutOf(c)' = OutOf(c)
         /\ \A c \in Comm : comm'[c] = NULL =>
              OutOf(c) = {} /\ \A g \in GotOf : g.end # c
         /\ \A c \in Comm : calls'[c] = IF comm'[c] = NULL THEN 0 ELSE calls[c]
         /\ calls \in [Comm -> Nat] /\ calls' \in [Comm -> Nat]
<1>1. /\ UNCHANGED <<requests, mq, net, pending>>
      /\ calls' \in [Comm -> Nat]
      /\ \A c \in Comm : calls'[c] = IF comm'[c] = NULL THEN 0 ELSE calls[c]
      /\ \A c \in Comm, s \in Slot : requests[c][s] # NULL => comm'[c] = comm[c]
  BY LifecycleEffect
<1>2. RequestInv(requests, mq, pending) /\ calls \in [Comm -> Nat]
  BY DEF XInv, CallsInv
<1>3. \A c \in Comm : OutOf(c)' = OutOf(c)
  BY <1>1 DEF OutOf, Req
<1>4. UNCHANGED <<Outs, Wire, GotOf>>
  BY <1>1, <1>3 DEF Outs, Wire, GotOf, Used, Req
<1>5. ASSUME NEW c \in Comm, comm'[c] = NULL
      PROVE  OutOf(c) = {} /\ \A g \in GotOf : g.end # c
  <2>1. \A s \in Slot : requests[c][s] = NULL
    BY <1>1, <1>2, <1>5 DEF RequestInv
  <2>2. OutOf(c) = {}
    BY <2>1 DEF OutOf
  <2>3. ASSUME NEW g \in GotOf, g.end = c
        PROVE  FALSE
    <3>1. \A o \in mq : o.ctx[1] # c
      BY <1>2, <2>1, OpsAreOfRequests DEF OpOK
    <3>2. g \in GotBy(requests, mq)
      BY <2>3, GotIsGotBy
    <3> QED BY <2>1, <2>3, <3>1, <3>2, GotMember DEF Delivery
  <2> QED BY <2>2, <2>3
<1> QED BY <1>1, <1>2, <1>3, <1>4, <1>5

\* listen opens the receiving end of a new link.
LEMMA ListenMaps ==
  ASSUME DrainsBeforeClose, XInv, Lifecycle,
         NEW c \in Comm, NEW rec \in CommRec, Listened(c, rec)
  PROVE  Abstract!ChannelNext
<1>0. /\ IInv /\ LinkInv /\ TypeOK
      /\ Home[c] \in Rank /\ next_tag[Home[c]] \in Nat /\ listens[Home[c]] = next_tag[Home[c]]
  BY ConstAssumption DEF XInv, IInv, TypeOK, TagInv
<1> DEFINE s == <<rec.born, "recv">>
<1>1. /\ UNCHANGED <<Outs, Wire, GotOf>> /\ calls' = calls
  <2>1. \A d \in Comm : calls'[d] = calls[d]
    BY <1>0, LifecycleShows, ListenedEffect, ConstAssumption DEF XInv, CallsInv
  <2> QED BY <2>1, LifecycleShows
<1>2. /\ comm[c] = NULL /\ rec # NULL /\ rec.rem_epid = NULL
      /\ rec.born = <<Home[c], next_tag[Home[c]]>>
      /\ rec.born \in Rank \X (0 .. TAG_MAX)
      /\ handles' = handles \cup {HandleOf(rec)} /\ HandleOf(rec).born = rec.born
      /\ comm' = [comm EXCEPT ![c] = rec]
      /\ listens' = [listens EXCEPT ![Home[c]] = @ + 1]
  BY <1>0, ConstAssumption DEF Listened, Created, HandleOf
<1>3. rec.born \notin Listens
  BY <1>0, <1>2 DEF Listens
<1>4. Listens' = Listens \cup {rec.born}
  <2>1. \A b \in Rank \X (0 .. TAG_MAX) :
          b[2] < listens'[b[1]] <=> b[2] < listens[b[1]] \/ b = rec.born
    <3> SUFFICES ASSUME NEW b \in Rank \X (0 .. TAG_MAX)
                 PROVE  b[2] < listens'[b[1]] <=> b[2] < listens[b[1]] \/ b = rec.born
      OBVIOUS
    <3>1. PICK p \in Rank, t \in 0 .. TAG_MAX : b = <<p, t>>
      OBVIOUS
    <3>2. listens \in [Rank -> Nat]
      BY <1>0 DEF TypeOK
    <3>3. CASE p = Home[c]
      BY <1>0, <1>2, <3>1, <3>2, <3>3, ConstAssumption
    <3>4. CASE p # Home[c]
      BY <1>0, <1>2, <3>1, <3>2, <3>4
    <3> QED BY <3>3, <3>4
  <2> QED BY <1>2, <2>1 DEF Listens
<1>5. /\ Opened' = Opened \cup {s} /\ s \notin Opened
  <2>1. \A h \in handles : h.born # rec.born
    BY <1>0, <1>2, TagsCounted
  <2>2. {b \in Listens' : \A h \in handles' : h.born # b}
          = {b \in Listens : \A h \in handles : h.born # b}
    BY <1>2, <1>3, <1>4
  <2> QED BY <1>3, <1>4, <2>2 DEF Opened
<1>6. Sides[c] = NULL /\ Sides' = [Sides EXCEPT ![c] = s]
  BY <1>0, <1>2 DEF Sides, SideOf, TypeOK
<1>7. Abstract!Open(c, s)
  BY <1>1, <1>5, <1>6 DEF Abstract!Open, Sides, Outs, Wire
<1>8. s \in Abstract!Side
  BY <1>2 DEF Abstract!Side
<1> QED BY <1>7, <1>8 DEF Abstract!ChannelNext

\* connect opens the sending end of the link whose handle it uses up.
LEMMA ConnectMaps ==
  ASSUME DrainsBeforeClose, XInv, Lifecycle,
         NEW c \in Comm, NEW rec \in CommRec, NEW h \in handles, Connected(c, rec, h)
  PROVE  Abstract!ChannelNext
<1>0. /\ IInv /\ LinkInv /\ TypeOK
      /\ EpHome[h.epid] \in Rank /\ h.tag \in Nat
      /\ h.born = <<EpHome[h.epid], h.tag>>
      /\ h.tag < next_tag[EpHome[h.epid]]
      /\ listens[EpHome[h.epid]] = next_tag[EpHome[h.epid]]
      /\ next_tag[EpHome[h.epid]] \in Nat /\ next_tag[EpHome[h.epid]] <= TAG_MAX
  BY TagsCounted DEF XInv, IInv, LinkInv
<1> DEFINE s == <<h.born, "send">>
<1>1. /\ UNCHANGED <<Outs, Wire, GotOf>> /\ calls' = calls
  <2>1. \A d \in Comm : calls'[d] = calls[d]
    BY <1>0, LifecycleShows, ConnectedEffect, ConstAssumption DEF XInv, CallsInv
  <2> QED BY <2>1, LifecycleShows
<1>2. /\ comm[c] = NULL /\ rec # NULL /\ rec.rem_epid # NULL /\ rec.born = h.born
      /\ handles' = handles \ {h} /\ listens' = listens
      /\ comm' = [comm EXCEPT ![c] = rec]
  BY <1>0, ConstAssumption DEF Connected, Created, TypeOK, Handle
<1>3. h.born \in Listens
  BY <1>0, ConstAssumption DEF Listens
<1>4. Opened' = Opened \cup {s} /\ s \notin Opened /\ <<h.born, "recv">> \in Opened
  <2>1. Listens' = Listens
    BY <1>2 DEF Listens
  <2>2. {b \in Listens : \A g \in handles' : g.born # b}
          = {b \in Listens : \A g \in handles : g.born # b} \cup {h.born}
    BY <1>0, <1>2, <1>3 DEF LinkInv
  <2>3. h.born \notin {b \in Listens : \A g \in handles : g.born # b}
    OBVIOUS
  <2> QED BY <1>3, <2>1, <2>2, <2>3 DEF Opened
<1>5. Sides[c] = NULL /\ Sides' = [Sides EXCEPT ![c] = s]
  BY <1>0, <1>2 DEF Sides, SideOf, TypeOK
<1>6. Abstract!Open(c, s)
  BY <1>1, <1>4, <1>5 DEF Abstract!Open, Sides, Outs, Wire
<1>7. s \in Abstract!Side
  BY <1>3 DEF Abstract!Side, Listens
<1> QED BY <1>6, <1>7 DEF Abstract!ChannelNext

\* A communicator is closed when nothing of its own is outstanding or delivered.
LEMMA CloseMaps ==
  ASSUME DrainsBeforeClose, XInv, Lifecycle, NEW c \in Comm, Closed(c)
  PROVE  Abstract!ChannelNext
<1>0. TypeOK
  BY DEF XInv, IInv
<1>1. /\ comm[c] # NULL /\ comm' = [comm EXCEPT ![c] = NULL]
      /\ UNCHANGED <<handles, listens>>
      /\ comm'[c] = NULL /\ \A d \in Comm \ {c} : comm'[d] = comm[d]
  BY <1>0 DEF Closed, TypeOK
<1>2. /\ UNCHANGED <<Outs, Wire, GotOf>>
      /\ OutOf(c) = {} /\ \A g \in GotOf : g.end # c
      /\ \A d \in Comm : calls'[d] = IF comm'[d] = NULL THEN 0 ELSE calls[d]
      /\ calls \in [Comm -> Nat] /\ calls' \in [Comm -> Nat]
  BY <1>1, LifecycleShows
<1>3. calls' = [calls EXCEPT ![c] = 0]
  <2>1. \A d \in Comm \ {c} : calls'[d] = calls[d]
    BY <1>1, <1>2 DEF XInv, CallsInv
  <2> QED BY <1>1, <1>2, <2>1
<1>4. Opened' = Opened
  BY <1>1 DEF Opened, Listens
<1>5. Sides[c] # NULL /\ Sides' = [Sides EXCEPT ![c] = NULL]
  <2>1. comm[c].born \in Rank \X (0 .. TAG_MAX)
    BY <1>0, <1>1, BornIsLink DEF XInv
  <2>2. SideOf(c) # NULL
    BY <1>1, <2>1, NullIsNoSide DEF SideOf
  <2> QED BY <1>0, <1>1, <2>2 DEF Sides, SideOf, TypeOK
<1>6. Outs' = [Outs EXCEPT ![c] = {}]
  BY <1>2 DEF Outs
<1>7. GotOf' = GotOf \ Abstract!Got(c)
  BY <1>2 DEF Abstract!Got
<1>8. Abstract!Close(c)
  BY <1>2, <1>3, <1>4, <1>5, <1>6, <1>7 DEF Abstract!Close, Sides, Outs, Wire
<1> QED BY <1>8 DEF Abstract!ChannelNext

\* listen opens the receiving side of a link, connect the sending one; a close closes a side.
LEMMA LifecycleMaps ==
  ASSUME DrainsBeforeClose, XInv, Lifecycle
  PROVE  Abstract!ChannelNext \/ UNCHANGED Abstract!chvars
<1>1. CASE Unlinked
  <2>1. UNCHANGED <<comm, listens, handles, net>>
    BY <1>1, LifecycleEffect DEF Unlinked
  <2>2. calls' = calls
    BY <2>1, LifecycleShows DEF XInv, CallsInv
  <2>3. (\A c \in Comm : OutOf(c)' = OutOf(c)) /\ GotOf' = GotOf
    BY LifecycleShows
  <2> QED BY <2>1, <2>2, <2>3, HiddenStep
<1> QED
  BY <1>1, CallKinds, ListenMaps, ConnectMaps, CloseMaps DEF XInv, Lifecycle

-------------------------------------------------------------------------------
(* isend and irecv.                                                        *)

\* The requests in use have numbers of their own: a slot is free while fewer than
\* NUM_REQUESTS numbers are outstanding.
LEMMA WindowHasRoom ==
  ASSUME NEW c \in Comm, FreeSlots(c) # {}
  PROVE  Cardinality(OutOf(c)) < NUM_REQUESTS
<1> DEFINE used == {t \in Slot : requests[c][t] # NULL}
           num == [s \in used |-> requests[c][s].n]
<1>1. IsFiniteSet(Slot) /\ Cardinality(Slot) = NUM_REQUESTS /\ NUM_REQUESTS \in Nat
  BY TransferAssumption, FS_Interval DEF Slot
<1>2. used \in SUBSET Slot /\ used # Slot
  BY DEF FreeSlots
<1>3. /\ IsFiniteSet(used) /\ Cardinality(used) <= NUM_REQUESTS
      /\ Cardinality(used) # NUM_REQUESTS /\ Cardinality(used) \in Nat
  BY <1>1, <1>2, FS_Subset, FS_CardinalityType
<1>4. OutOf(c) = {requests[c][s].n : s \in used}
  BY DEF OutOf, Req
<1>5. num \in Surjection(used, OutOf(c))
  BY <1>4 DEF Surjection
<1> HIDE DEF used, num
<1>6. /\ IsFiniteSet(OutOf(c)) /\ Cardinality(OutOf(c)) <= Cardinality(used)
      /\ Cardinality(OutOf(c)) \in Nat
  BY <1>3, <1>5, FS_Surjection, FS_CardinalityType
<1> QED BY <1>1, <1>3, <1>6

\* A post takes the next number of its end, and shows nowhere else.
LEMMA PostShows ==
  ASSUME XInv, NEW c \in Comm, NEW s \in Slot,
         NEW type \in {"ReqSend", "ReqRecv"}, NEW msg,
         Posts(c, s, type, msg), comm[c] # NULL
  PROVE  /\ Outs' = [Outs EXCEPT ![c] = @ \cup {calls[c]}]
         /\ Cardinality(OutOf(c)) < NUM_REQUESTS
         /\ calls' = [calls EXCEPT ![c] = @ + 1]
         /\ GotOf' = GotOf
         /\ Sides' = Sides /\ Sides[c] = SideOf(c) /\ SideOf(c) # NULL /\ Opened' = Opened
<1>0. /\ IInv /\ LinkInv /\ RequestInv(requests, mq, pending)
      /\ requests \in [Comm -> [Slot -> ReqRec \cup {NULL}]]
      /\ UNCHANGED <<comm, listens, handles>>
  BY DEF XInv, RequestInv, Posts, vars
<1>1. s \in FreeSlots(c) /\ requests[c][s] = NULL
  BY GetReqIsFree DEF Posts, FreeSlots
<1>2. PICK q : /\ requests' = [requests EXCEPT ![c][s] = q]
               /\ q = NewReq(type, calls[c])
  BY DEF Posts
<1>3. q.n = calls[c] /\ q.msg = NULL
  BY <1>2 DEF NewReq
<1>4. q # NULL
  <2>1. q \in ReqRec
    BY <1>2 DEF XInv, CallsInv, NewReq, ReqRec
  <2> QED BY <2>1, NoRecordIsNull
<1>5. /\ requests'[c][s] = q
      /\ \A d \in Comm, t \in Slot : <<d, t>> # <<c, s>> => requests'[d][t] = requests[d][t]
  BY <1>0, <1>2
<1>6. OutOf(c)' = OutOf(c) \cup {calls[c]}
  <2>1. OutOf(c)' = {requests'[c][t].n : t \in {u \in Slot : requests'[c][u] # NULL}}
    BY DEF OutOf, Req
  <2>2. OutOf(c) = {requests[c][t].n : t \in {u \in Slot : requests[c][u] # NULL}}
    BY DEF OutOf, Req
  <2>3. \A t \in Slot : t # s => requests'[c][t] = requests[c][t]
    BY <1>5
  <2> QED BY <1>1, <1>3, <1>4, <1>5, <2>1, <2>2, <2>3
<1>7. \A d \in Comm \ {c} : OutOf(d)' = OutOf(d)
  <2> SUFFICES ASSUME NEW d \in Comm \ {c}
               PROVE  OutOf(d)' = OutOf(d)
    OBVIOUS
  <2>1. \A t \in Slot : requests'[d][t] = requests[d][t]
    BY <1>5
  <2> QED BY <2>1 DEF OutOf, Req
<1>8. GotBy(requests', mq') = GotBy(requests, mq)
  <2> DEFINE o == [ctx |-> Context(c, s), ep |-> comm[c].ep, type |-> type,
                   tag |-> comm[c].tag, n |-> calls[c], complete |-> FALSE, msg |-> msg]
  <2>1. mq' = mq \cup {o} /\ o.complete = FALSE
    BY DEF Posts
  <2> HIDE DEF o
  <2>2. ASSUME NEW g
        PROVE  g \in GotBy(requests', mq') <=> g \in GotBy(requests, mq)
    <3>1. (\E x \in mq' : x.type = "ReqRecv" /\ x.complete /\ g = Delivery(x.ctx[1], x.n, x.msg))
            <=> (\E x \in mq : x.type = "ReqRecv" /\ x.complete
                               /\ g = Delivery(x.ctx[1], x.n, x.msg))
      BY <2>1
    <3>2. \A d \in Comm, t \in Slot :
            (/\ requests'[d][t] # NULL /\ requests'[d][t].msg # NULL
             /\ g = Delivery(d, requests'[d][t].n, requests'[d][t].msg))
            <=>
            (/\ requests[d][t] # NULL /\ requests[d][t].msg # NULL
             /\ g = Delivery(d, requests[d][t].n, requests[d][t].msg))
      <4> SUFFICES ASSUME NEW d \in Comm, NEW t \in Slot
                   PROVE
            (/\ requests'[d][t] # NULL /\ requests'[d][t].msg # NULL
             /\ g = Delivery(d, requests'[d][t].n, requests'[d][t].msg))
            <=>
            (/\ requests[d][t] # NULL /\ requests[d][t].msg # NULL
             /\ g = Delivery(d, requests[d][t].n, requests[d][t].msg))
        OBVIOUS
      <4>1. CASE <<d, t>> = <<c, s>>
        <5>1. d = c /\ t = s
          BY <4>1
        <5> QED BY <1>1, <1>3, <1>5, <5>1
      <4>2. CASE <<d, t>> # <<c, s>>
        BY <1>5, <4>2
      <4> QED BY <4>1, <4>2
    <3> QED BY <3>1, <3>2, GotMember
  <2> QED BY <2>2
<1>9. /\ Sides' = Sides /\ Sides[c] = SideOf(c) /\ Opened' = Opened
  BY <1>0 DEF Sides, SideOf, Opened, Listens
<1>10. SideOf(c) # NULL
  BY <1>0, BornIsLink, NullIsNoSide DEF SideOf
<1>11. Outs' = [Outs EXCEPT ![c] = @ \cup {calls[c]}]
  BY <1>6, <1>7 DEF Outs
<1>12. GotOf' = GotOf
  BY <1>8, GotIsGotBy
<1> QED BY <1>1, <1>9, <1>10, <1>11, <1>12, WindowHasRoom DEF Posts

\* Channel counts as Transfer does.
LEMMA SameCardinality == \A S : Abstract!Cardinality(S) = Cardinality(S)
  BY Zenon DEF Abstract!Cardinality, Cardinality

\* isend puts a message on the wire of its link.
LEMMA IsendMaps ==
  ASSUME XInv, NEW c \in Comm, Isend(c)
  PROVE  Abstract!ChannelNext
<1>1. comm[c] # NULL /\ comm[c].rem_epid # NULL
  BY DEF Isend, XInv, IInv, HeldLive, RoleInv
<1> DEFINE m == [epid |-> comm[c].rem_epid, tag |-> comm[c].tag,
                 born |-> comm[c].born, n |-> calls[c]]
<1>2. PICK s \in Slot : Posts(c, s, "ReqSend", m) /\ net' = net \cup {m}
  BY DEF Isend
<1>3. /\ Outs' = [Outs EXCEPT ![c] = @ \cup {calls[c]}]
      /\ Cardinality(OutOf(c)) < NUM_REQUESTS
      /\ calls' = [calls EXCEPT ![c] = @ + 1]
      /\ GotOf' = GotOf
      /\ Sides' = Sides /\ Sides[c] = SideOf(c) /\ SideOf(c) # NULL /\ Opened' = Opened
  BY <1>1, <1>2, PostShows
<1>4. SideOf(c) = <<comm[c].born, "send">> /\ Outs[c] = OutOf(c)
  BY <1>1 DEF SideOf, Outs
<1>5. Wire' = Wire \cup {[link |-> comm[c].born, n |-> calls[c]]}
  BY <1>2 DEF Wire
<1>6. Abstract!Issue(c)
  BY <1>3, <1>4, <1>5, SameCardinality DEF Abstract!Issue, Sides, Outs, Wire
<1> QED BY <1>6 DEF Abstract!ChannelNext

\* irecv issues the next number of a receiving end.
LEMMA IrecvMaps ==
  ASSUME XInv, NEW c \in Comm, Irecv(c)
  PROVE  Abstract!ChannelNext
<1>1. comm[c] # NULL /\ comm[c].rem_epid = NULL
  BY DEF Irecv, XInv, IInv, HeldLive, RoleInv
<1>2. PICK s \in Slot : Posts(c, s, "ReqRecv", NULL) /\ net' = net
  BY DEF Irecv
<1>3. /\ Outs' = [Outs EXCEPT ![c] = @ \cup {calls[c]}]
      /\ Cardinality(OutOf(c)) < NUM_REQUESTS
      /\ calls' = [calls EXCEPT ![c] = @ + 1]
      /\ GotOf' = GotOf
      /\ Sides' = Sides /\ Sides[c] = SideOf(c) /\ SideOf(c) # NULL /\ Opened' = Opened
  BY <1>1, <1>2, PostShows
<1>4. SideOf(c) = <<comm[c].born, "recv">> /\ Outs[c] = OutOf(c) /\ Wire' = Wire
  BY <1>1, <1>2 DEF SideOf, Outs, Wire
<1>5. Abstract!Issue(c)
  BY <1>3, <1>4, SameCardinality DEF Abstract!Issue, Sides, Outs, Wire
<1> QED BY <1>5 DEF Abstract!ChannelNext

-------------------------------------------------------------------------------
(* Completions: a pass of mq_progress_loop moves deliveries from the queue *)
(* to the requests, which does not show; put_req takes them out.           *)

\* What NCCL sees of its requests is the same after a pass.
LEMMA PassIsHidden ==
  ASSUME XInv, NEW R \in SUBSET mq, \A o \in R : o.complete,
         NEW after, after = AfterProgress(R)
  PROVE  /\ GotBy(after, mq \ R) = GotBy(requests, mq)
         /\ \A c \in Comm, s \in Slot :
              /\ after[c][s] # NULL <=> requests[c][s] # NULL
              /\ after[c][s] # NULL => after[c][s].n = requests[c][s].n
<1>0. RequestInv(requests, mq, pending)
  BY DEF XInv
<1>1. /\ \A o \in R : after[o.ctx[1]][o.ctx[2]] = Marked(requests[o.ctx[1]][o.ctx[2]], o)
      /\ \A c \in Comm, s \in Slot :
           (\A o \in R : o.ctx # <<c, s>>) => after[c][s] = requests[c][s]
  BY <1>0, AfterProgressEffect
<1>2. \A c \in Comm, s \in Slot :
        /\ after[c][s] # NULL <=> requests[c][s] # NULL
        /\ after[c][s] # NULL => after[c][s].n = requests[c][s].n
        /\ after[c][s] # NULL => RequestOK(c, after[c][s])
  BY <1>0, AfterProgressSlots
<1>3. \A o \in R : /\ o.ctx[1] \in Comm /\ o.ctx[2] \in Slot
                   /\ requests[o.ctx[1]][o.ctx[2]] # NULL
                   /\ requests[o.ctx[1]][o.ctx[2]].msg = NULL
                   /\ after[o.ctx[1]][o.ctx[2]] # NULL
                   /\ after[o.ctx[1]][o.ctx[2]].n = o.n
                   /\ after[o.ctx[1]][o.ctx[2]].msg =
                        IF o.type = "ReqRecv" THEN o.msg ELSE NULL
                   /\ o.type = "ReqRecv" => o.msg # NULL
  <2> SUFFICES ASSUME NEW o \in R
               PROVE  /\ o.ctx[1] \in Comm /\ o.ctx[2] \in Slot
                      /\ requests[o.ctx[1]][o.ctx[2]] # NULL
                      /\ requests[o.ctx[1]][o.ctx[2]].msg = NULL
                      /\ after[o.ctx[1]][o.ctx[2]] # NULL
                      /\ after[o.ctx[1]][o.ctx[2]].n = o.n
                      /\ after[o.ctx[1]][o.ctx[2]].msg =
                           IF o.type = "ReqRecv" THEN o.msg ELSE NULL
                      /\ o.type = "ReqRecv" => o.msg # NULL
    OBVIOUS
  <2>1. PICK c \in Comm, s \in Slot : c = o.ctx[1] /\ s = o.ctx[2]
    BY <1>0, OpsAreOfRequests
  <2>2. /\ OpOK(o, c, requests[c][s]) /\ RequestOK(c, requests[c][s])
        /\ requests[c][s] # NULL /\ requests[c][s] \in ReqRec /\ o.complete
    <3>1. OpOK(o, c, requests[c][s]) /\ RequestOK(c, requests[c][s])
      BY <1>0, <2>1, OpsAreOfRequests
    <3> QED BY <1>0, <3>1, UsedRequest DEF OpOK
  <2>3. requests[c][s].msg = NULL
    BY <2>2 DEF OpOK, RequestOK
  <2>4. after[c][s] = Marked(requests[c][s], o) /\ after[c][s] # NULL
        /\ after[c][s].n = o.n
    BY <1>1, <1>2, <2>1, <2>2 DEF OpOK
  <2>5. after[c][s].msg = IF o.type = "ReqRecv" THEN o.msg ELSE NULL
    BY <2>2, <2>3, <2>4 DEF Marked, Received, ReqRec, OpOK
  <2> QED BY <2>1, <2>2, <2>3, <2>4, <2>5 DEF OpOK
<1>4. ASSUME NEW g \in GotBy(requests, mq)
      PROVE  g \in GotBy(after, mq \ R)
  <2>1. CASE \E o \in mq : /\ o.type = "ReqRecv" /\ o.complete
                           /\ g = Delivery(o.ctx[1], o.n, o.msg)
    <3>1. PICK o \in mq : /\ o.type = "ReqRecv" /\ o.complete
                          /\ g = Delivery(o.ctx[1], o.n, o.msg)
      BY <2>1
    <3>2. CASE o \in R
      BY <1>3, <3>1, <3>2, GotMember
    <3>3. CASE o \notin R
      BY <3>1, <3>3, GotMember
    <3> QED BY <3>2, <3>3
  <2>2. CASE \E c \in Comm, s \in Slot :
               /\ requests[c][s] # NULL /\ requests[c][s].msg # NULL
               /\ g = Delivery(c, requests[c][s].n, requests[c][s].msg)
    <3>1. PICK c \in Comm, s \in Slot :
               /\ requests[c][s] # NULL /\ requests[c][s].msg # NULL
               /\ g = Delivery(c, requests[c][s].n, requests[c][s].msg)
      BY <2>2
    <3>2. \A o \in R : o.ctx # <<c, s>>
      <4>1. \A o \in R : requests[o.ctx[1]][o.ctx[2]].msg = NULL
        BY <1>3
      <4> QED BY <3>1, <4>1
    <3>3. after[c][s] = requests[c][s]
      BY <1>1, <3>2
    <3> QED BY <3>1, <3>3, GotMember
  <2> QED BY <2>1, <2>2, GotMember
<1>5. ASSUME NEW g \in GotBy(after, mq \ R)
      PROVE  g \in GotBy(requests, mq)
  <2>1. CASE \E o \in mq \ R : /\ o.type = "ReqRecv" /\ o.complete
                               /\ g = Delivery(o.ctx[1], o.n, o.msg)
    BY <2>1, GotMember
  <2>2. CASE \E c \in Comm, s \in Slot :
               /\ after[c][s] # NULL /\ after[c][s].msg # NULL
               /\ g = Delivery(c, after[c][s].n, after[c][s].msg)
    <3>1. PICK c \in Comm, s \in Slot :
               /\ after[c][s] # NULL /\ after[c][s].msg # NULL
               /\ g = Delivery(c, after[c][s].n, after[c][s].msg)
      BY <2>2
    <3>2. CASE \A o \in R : o.ctx # <<c, s>>
      BY <1>1, <3>1, <3>2, GotMember
    <3>3. ASSUME NEW o \in R, o.ctx = <<c, s>>
          PROVE  g \in GotBy(requests, mq)
      <4>1. o.ctx[1] = c /\ o.ctx[2] = s /\ o \in mq
        BY <3>3
      <4>2. after[c][s].n = o.n /\ after[c][s].msg = IF o.type = "ReqRecv" THEN o.msg ELSE NULL
        BY <1>3, <4>1
      <4>3. o.type = "ReqRecv" /\ o.complete /\ g = Delivery(o.ctx[1], o.n, o.msg)
        BY <3>1, <4>1, <4>2
      <4> QED BY <4>1, <4>3, GotMember
    <3> QED BY <3>2, <3>3
  <2> QED BY <2>1, <2>2, GotMember
<1> QED BY <1>2, <1>4, <1>5

\* A pass that puts nothing back is a hidden step.
LEMMA PassMaps ==
  ASSUME XInv, NEW e, NEW R, Progress(e, R), requests' = AfterProgress(R),
         UNCHANGED <<vars, net, calls>>
  PROVE  UNCHANGED Abstract!chvars
<1> DEFINE after == AfterProgress(R)
<1>1. R \in SUBSET mq /\ (\A o \in R : o.complete) /\ mq' = mq \ R
  BY DEF Progress, Completed
<1>2. /\ GotBy(after, mq \ R) = GotBy(requests, mq)
      /\ \A c \in Comm, s \in Slot :
           /\ after[c][s] # NULL <=> requests[c][s] # NULL
           /\ after[c][s] # NULL => after[c][s].n = requests[c][s].n
  BY <1>1, PassIsHidden
<1>3. GotOf' = GotOf
  BY <1>1, <1>2, GotIsGotBy
<1>4. \A c \in Comm : OutOf(c)' = OutOf(c)
  BY <1>2 DEF OutOf, Req
<1>5. UNCHANGED <<comm, listens, handles, calls, net>>
  BY DEF vars
<1> QED BY <1>3, <1>4, <1>5, HiddenStep

\* A done request that test puts back takes its number and its delivery along.
LEMMA PutShows ==
  ASSUME NEW rs, NEW ops, NEW wanted, RequestInv(rs, ops, wanted),
         NEW c \in Comm, NEW s \in Slot, rs[c][s] # NULL, rs[c][s].done = 1
  PROVE  /\ \A d \in Comm, t \in Slot :
              <<d, t>> # <<c, s>> => PutReq(rs, c, s)[d][t] = rs[d][t]
         /\ PutReq(rs, c, s)[c][s] = NULL
         /\ GotBy(PutReq(rs, c, s), ops)
              = {g \in GotBy(rs, ops) : ~(g.end = c /\ g.n = rs[c][s].n)}
<1> DEFINE back == PutReq(rs, c, s)
<1>1. /\ back[c][s] = NULL
      /\ \A d \in Comm, t \in Slot : <<d, t>> # <<c, s>> => back[d][t] = rs[d][t]
  BY DEF PutReq, RequestInv
<1> HIDE DEF back
<1>2. \A t \in Slot : rs[c][t] # NULL /\ rs[c][t].n = rs[c][s].n => t = s
  BY DEF RequestInv
<1>3. \A o \in ops : ~(o.ctx[1] = c /\ o.n = rs[c][s].n)
  <2> SUFFICES ASSUME NEW o \in ops, o.ctx[1] = c, o.n = rs[c][s].n
               PROVE  FALSE
    OBVIOUS
  <2>1. OpOK(o, c, rs[c][o.ctx[2]]) /\ o.ctx[2] \in Slot
    BY DEF RequestInv, Op, Request
  <2> QED BY <1>2, <2>1 DEF OpOK
<1>4. ASSUME NEW g \in GotBy(back, ops)
      PROVE  g \in GotBy(rs, ops) /\ ~(g.end = c /\ g.n = rs[c][s].n)
  <2>1. CASE \E o \in ops : /\ o.type = "ReqRecv" /\ o.complete
                            /\ g = Delivery(o.ctx[1], o.n, o.msg)
    BY <1>3, <2>1, GotMember DEF Delivery
  <2>2. CASE \E d \in Comm, t \in Slot :
               /\ back[d][t] # NULL /\ back[d][t].msg # NULL
               /\ g = Delivery(d, back[d][t].n, back[d][t].msg)
    <3>1. PICK d \in Comm, t \in Slot :
               /\ back[d][t] # NULL /\ back[d][t].msg # NULL
               /\ g = Delivery(d, back[d][t].n, back[d][t].msg)
      BY <2>2
    <3>2. <<d, t>> # <<c, s>>
      BY <1>1, <3>1
    <3>3. back[d][t] = rs[d][t]
      BY <1>1, <3>2
    <3>4. g \in GotBy(rs, ops)
      BY <3>1, <3>3, GotMember
    <3>5. g.end = d /\ g.n = rs[d][t].n
      BY <3>1, <3>3 DEF Delivery
    <3> QED BY <1>2, <3>1, <3>2, <3>3, <3>4, <3>5
  <2> QED BY <2>1, <2>2, GotMember
<1>5. ASSUME NEW g \in GotBy(rs, ops), ~(g.end = c /\ g.n = rs[c][s].n)
      PROVE  g \in GotBy(back, ops)
  <2>1. CASE \E o \in ops : /\ o.type = "ReqRecv" /\ o.complete
                            /\ g = Delivery(o.ctx[1], o.n, o.msg)
    BY <2>1, GotMember
  <2>2. CASE \E d \in Comm, t \in Slot :
               /\ rs[d][t] # NULL /\ rs[d][t].msg # NULL
               /\ g = Delivery(d, rs[d][t].n, rs[d][t].msg)
    <3>1. PICK d \in Comm, t \in Slot :
               /\ rs[d][t] # NULL /\ rs[d][t].msg # NULL
               /\ g = Delivery(d, rs[d][t].n, rs[d][t].msg)
      BY <2>2
    <3>2. g.end = d /\ g.n = rs[d][t].n
      BY <3>1 DEF Delivery
    <3>3. <<d, t>> # <<c, s>>
      BY <1>5, <3>2
    <3>4. back[d][t] = rs[d][t]
      BY <1>1, <3>3
    <3> QED BY <3>1, <3>4, GotMember
  <2> QED BY <2>1, <2>2, GotMember
<1>6. GotBy(back, ops) = {g \in GotBy(rs, ops) : ~(g.end = c /\ g.n = rs[c][s].n)}
  BY <1>4, <1>5
<1> QED BY <1>1, <1>6 DEF back

\* test reports a request that is done, or nothing that shows.
LEMMA TestMaps ==
  ASSUME XInv, NEW c \in Comm, NEW s \in Slot, Test(c, s)
  PROVE  Abstract!ChannelNext \/ UNCHANGED Abstract!chvars
<1> DEFINE R == Completed(comm[c].ep)
           after == AfterProgress(R)
<1>1. /\ requests[c][s] # NULL /\ Progress(comm[c].ep, R)
      /\ UNCHANGED <<vars, net, calls>>
      /\ R \in SUBSET mq /\ (\A o \in R : o.complete) /\ mq' = mq \ R
  BY DEF Test, Progress, Completed
<1> HIDE DEF R
<1>2. CASE requests' = after
  BY <1>1, <1>2, PassMaps
<1>3. CASE after[c][s].done = 1 /\ requests' = PutReq(after, c, s)
  <2>1. /\ GotBy(after, mq \ R) = GotBy(requests, mq)
        /\ \A d \in Comm, t \in Slot :
             /\ after[d][t] # NULL <=> requests[d][t] # NULL
             /\ after[d][t] # NULL => after[d][t].n = requests[d][t].n
    <3>1. PICK passed : passed = AfterProgress(R)
      OBVIOUS
    <3>2. /\ GotBy(passed, mq \ R) = GotBy(requests, mq)
          /\ \A d \in Comm, t \in Slot :
               /\ passed[d][t] # NULL <=> requests[d][t] # NULL
               /\ passed[d][t] # NULL => passed[d][t].n = requests[d][t].n
      BY <1>1, <3>1, PassIsHidden
    <3> QED BY <3>1, <3>2
  <2>2. RequestInv(after, mq', pending) /\ RequestInv(requests, mq, pending)
    BY <1>1, ProgressKeepsTheRest DEF XInv
  <2> HIDE DEF after
  <2>3. /\ after[c][s] # NULL /\ after[c][s].n = requests[c][s].n
        /\ comm[c] # NULL /\ RequestOK(c, after[c][s])
    BY <1>1, <2>1, <2>2, UsedRequest
  <2> DEFINE n == requests[c][s].n
  <2>4. /\ \A d \in Comm, t \in Slot : <<d, t>> # <<c, s>> => requests'[d][t] = after[d][t]
        /\ requests'[c][s] = NULL
        /\ GotBy(requests', mq') = {g \in GotBy(after, mq') : ~(g.end = c /\ g.n = n)}
    BY <1>3, <2>2, <2>3, PutShows
  <2>5. GotOf' = {g \in GotOf : ~(g.end = c /\ g.n = n)}
    BY <1>1, <2>1, <2>4, GotIsGotBy
  <2>6. n \in OutOf(c) /\ OutOf(c)' = OutOf(c) \ {n}
    <3>1. OutOf(c) = {requests[c][t].n : t \in {u \in Slot : requests[c][u] # NULL}}
      BY DEF OutOf, Req
    <3>2. OutOf(c)' = {requests'[c][t].n : t \in {u \in Slot : requests'[c][u] # NULL}}
      BY DEF OutOf, Req
    <3>3. \A t \in Slot : t # s =>
            /\ requests'[c][t] # NULL <=> requests[c][t] # NULL
            /\ requests'[c][t] # NULL => /\ requests'[c][t].n = requests[c][t].n
                                         /\ requests'[c][t].n # n
      <4> SUFFICES ASSUME NEW t \in Slot, t # s
                   PROVE
            /\ requests'[c][t] # NULL <=> requests[c][t] # NULL
            /\ requests'[c][t] # NULL => /\ requests'[c][t].n = requests[c][t].n
                                         /\ requests'[c][t].n # n
        OBVIOUS
      <4>1. requests'[c][t] = after[c][t]
        BY <2>4
      <4>2. requests[c][t] # NULL => requests[c][t].n # n
        BY <1>1, <2>2 DEF RequestInv
      <4> QED BY <2>1, <4>1, <4>2
    <3>4. n \in OutOf(c)
      BY <1>1, <3>1
    <3>5. ASSUME NEW x
          PROVE  x \in OutOf(c)' <=> x \in OutOf(c) /\ x # n
      BY <1>1, <2>4, <3>1, <3>2, <3>3
    <3> QED BY <3>4, <3>5
  <2>7. \A d \in Comm \ {c} : OutOf(d)' = OutOf(d)
    <3> SUFFICES ASSUME NEW d \in Comm \ {c}
                 PROVE  OutOf(d)' = OutOf(d)
      OBVIOUS
    <3>1. \A t \in Slot : requests'[d][t] = after[d][t]
      BY <2>4
    <3> QED BY <2>1, <3>1 DEF OutOf, Req
  <2>8. Outs[c] = OutOf(c) /\ Outs' = [Outs EXCEPT ![c] = @ \ {n}]
    BY <2>6, <2>7 DEF Outs
  <2>9. UNCHANGED <<Sides, Opened, calls, Wire>> /\ Sides[c] = SideOf(c)
    BY <1>1 DEF vars, Sides, SideOf, Opened, Listens, Wire
  <2>10. SideOf(c)[2] = "recv" => \E g \in Abstract!Got(c) : g.n = n
    <3> SUFFICES ASSUME SideOf(c)[2] = "recv"
                 PROVE  \E g \in Abstract!Got(c) : g.n = n
      OBVIOUS
    <3>1. comm[c].rem_epid = NULL
      BY <2>3 DEF SideOf
    <3>2. after[c][s].msg # NULL
      BY <1>3, <2>3, <3>1 DEF RequestOK
    <3> DEFINE g == Delivery(c, after[c][s].n, after[c][s].msg)
    <3>3. g \in GotBy(after, mq \ R)
      BY <2>3, <3>2, GotMember
    <3>4. g \in GotOf /\ g.end = c /\ g.n = n
      BY <2>1, <2>3, <3>3, GotIsGotBy DEF Delivery
    <3> QED BY <3>4 DEF Abstract!Got
  <2>11. Abstract!Report(c, n)
    BY <2>5, <2>6, <2>8, <2>9, <2>10 DEF Abstract!Report, Sides, Outs, Wire
  <2> QED BY <2>6, <2>11 DEF Abstract!ChannelNext
<1> QED BY <1>2, <1>3 DEF Test, R

-------------------------------------------------------------------------------
(* PSM2 and the fabric.                                                    *)

\* That a send completes inside PSM2 does not show.
LEMMA SendCompletesMaps ==
  ASSUME XInv, NEW o \in mq, SendCompletes(o)
  PROVE  UNCHANGED Abstract!chvars
<1> DEFINE d == [o EXCEPT !.complete = TRUE]
<1>0. o \in Op /\ UNCHANGED <<vars, requests, net, calls>>
  BY DEF XInv, RequestInv, SendCompletes
<1>1. /\ mq' = (mq \ {o}) \cup {d} /\ o.type = "ReqSend" /\ d.type = "ReqSend"
  BY <1>0 DEF SendCompletes, Op
<1> HIDE DEF d
<1>2. ASSUME NEW g
      PROVE  g \in GotBy(requests, mq') <=> g \in GotBy(requests, mq)
  <2>1. (\E x \in mq' : x.type = "ReqRecv" /\ x.complete /\ g = Delivery(x.ctx[1], x.n, x.msg))
          <=> (\E x \in mq : x.type = "ReqRecv" /\ x.complete
                             /\ g = Delivery(x.ctx[1], x.n, x.msg))
    BY <1>1
  <2> QED BY <2>1, GotMember
<1>3. GotOf' = GotOf
  BY <1>0, <1>2, GotIsGotBy
<1>4. \A c \in Comm : OutOf(c)' = OutOf(c)
  BY <1>0 DEF OutOf, Req
<1> QED BY <1>0, <1>3, <1>4, HiddenStep DEF vars

\* A match delivers the message to the receive, which had none.
LEMMA MatchMaps ==
  ASSUME XInv, NEW o \in mq, NEW m \in net, Match(o, m)
  PROVE  Abstract!ChannelNext
<1>0. /\ RequestInv(requests, mq, pending) /\ MessageInv
      /\ UNCHANGED <<vars, requests, calls>>
  BY DEF XInv, Match
<1>1. PICK c \in Comm, s \in Slot : c = o.ctx[1] /\ s = o.ctx[2] /\ o.ctx = <<c, s>>
  BY <1>0, OpsAreOfRequests
<1>2. /\ c \in Receivers /\ o.type = "ReqRecv" /\ ~o.complete
      /\ m.born = comm[c].born /\ (OrderedMq => m.n = o.n)
  BY <1>1, MatchMeets
<1>3. /\ o \in Op /\ OpOK(o, c, requests[c][s]) /\ RequestOK(c, requests[c][s])
      /\ requests[c][s] # NULL /\ requests[c][s].done = 0 /\ requests[c][s].n = o.n
      /\ requests[c][s].msg = NULL
  <2>1. o \in Op /\ OpOK(o, c, requests[c][s]) /\ RequestOK(c, requests[c][s])
    BY <1>0, <1>1, OpsAreOfRequests
  <2> QED BY <2>1 DEF OpOK, RequestOK
<1> DEFINE d == [o EXCEPT !.complete = TRUE, !.msg = m]
           w == [link |-> m.born, n |-> m.n]
<1>4. /\ mq' = (mq \ {o}) \cup {d} /\ net' = net \ {m}
      /\ d.type = "ReqRecv" /\ d.complete /\ d.ctx[1] = c /\ d.n = o.n /\ d.msg = m
  BY <1>1, <1>2, <1>3 DEF Match, Op
<1> HIDE DEF d
<1>5. Sides[c] = <<w.link, "recv">> /\ UNCHANGED <<Sides, Opened, Outs>>
  <2>1. Sides[c] = <<comm[c].born, "recv">>
    BY <1>2 DEF Sides, SideOf, Receivers, Live
  <2>2. UNCHANGED <<Sides, Opened, Outs>>
    BY <1>0 DEF vars, Sides, SideOf, Opened, Listens, Outs, OutOf, Req
  <2> QED BY <1>2, <2>1, <2>2
<1>6. Outs[c] = OutOf(c) /\ o.n \in OutOf(c)
  BY <1>3 DEF Outs, OutOf, Req
<1>7. \A t \in Slot : requests[c][t] # NULL /\ requests[c][t].n = o.n => t = s
  BY <1>0, <1>3 DEF RequestInv
<1>8. ASSUME NEW g \in GotOf, g.end = c, g.n = o.n
      PROVE  FALSE
  <2>0. g \in GotBy(requests, mq)
    BY <1>8, GotIsGotBy
  <2>1. ASSUME NEW x \in mq, x.complete, g = Delivery(x.ctx[1], x.n, x.msg)
        PROVE  FALSE
    <3>1. x.ctx[1] = c /\ x.n = o.n
      BY <1>8, <2>1 DEF Delivery
    <3>2. /\ x.ctx = <<c, x.ctx[2]>> /\ x.ctx[2] \in Slot
          /\ OpOK(x, c, requests[c][x.ctx[2]])
      BY <1>0, <3>1, OpsAreOfRequests
    <3>3. x.ctx[2] = s
      BY <1>7, <3>1, <3>2 DEF OpOK
    <3>4. x.ctx = o.ctx
      BY <1>1, <3>2, <3>3
    <3>5. x = o
      BY <1>0, <3>4 DEF RequestInv
    <3> QED BY <1>2, <2>1, <3>5
  <2>2. ASSUME NEW e \in Comm, NEW t \in Slot, requests[e][t] # NULL,
               requests[e][t].msg # NULL,
               g = Delivery(e, requests[e][t].n, requests[e][t].msg)
        PROVE  FALSE
    <3>1. e = c /\ requests[e][t].n = o.n
      BY <1>8, <2>2 DEF Delivery
    <3>2. t = s
      BY <1>7, <2>2, <3>1
    <3> QED BY <1>3, <2>2, <3>1, <3>2
  <2> QED BY <2>0, <2>1, <2>2, GotMember
<1>9. GotOf' = GotOf \cup {[end |-> c, n |-> o.n, msg |-> w]}
  <2> DEFINE new == Delivery(c, o.n, m)
  <2>1. ASSUME NEW g
        PROVE  g \in GotBy(requests, mq') <=> g \in GotBy(requests, mq) \/ g = new
    <3>1. (\E x \in mq' : /\ x.type = "ReqRecv" /\ x.complete
                          /\ g = Delivery(x.ctx[1], x.n, x.msg))
            <=> \/ \E x \in mq : /\ x.type = "ReqRecv" /\ x.complete
                                 /\ g = Delivery(x.ctx[1], x.n, x.msg)
                \/ g = new
      BY <1>2, <1>4
    <3> HIDE DEF new
    <3> QED BY <3>1, GotMember
  <2>2. GotBy(requests, mq') = GotBy(requests, mq) \cup {new}
    BY <2>1
  <2> QED BY <1>0, <2>2, GotIsGotBy DEF Delivery
<1>10. w \in Wire /\ Wire' = Wire \ {w}
  <2>1. \A x \in net : [link |-> x.born, n |-> x.n] = w => x = m
    BY <1>0 DEF MessageInv
  <2> QED BY <1>4, <2>1 DEF Wire
<1>11. w.n = m.n /\ w.link = m.born
  OBVIOUS
<1> HIDE DEF w
<1>12. Abstract!Deliver(c, o.n, w)
  BY <1>0, <1>2, <1>5, <1>6, <1>8, <1>9, <1>10, <1>11
  DEF Abstract!Deliver, Abstract!Got, Sides, Outs, Wire
<1> QED BY <1>6, <1>10, <1>12 DEF Abstract!ChannelNext, Wire, Outs

\* Every step is a step of Channel, or does not show in it.
LEMMA NextMaps ==
  ASSUME DrainsBeforeClose, XInv, [XferNext]_xvars
  PROVE  [Abstract!ChannelNext]_(Abstract!chvars)
<1>1. ASSUME UNCHANGED <<vars, requests, mq, net, calls>>
      PROVE  UNCHANGED Abstract!chvars
  <2>1. UNCHANGED <<comm, listens, handles, calls, net>>
    BY <1>1 DEF vars
  <2>2. (\A c \in Comm : OutOf(c)' = OutOf(c)) /\ GotOf' = GotOf
    BY <1>1 DEF OutOf, GotOf, Used, Req
  <2> QED BY <2>1, <2>2, HiddenStep
<1>2. ASSUME NEW c \in Comm, PostRefused(c)
      PROVE  UNCHANGED Abstract!chvars
  BY <1>1, <1>2 DEF PostRefused, xvars, xferVars
<1>3. ASSUME NEW c \in Comm, NEW s \in Slot, TestUnused(c, s)
      PROVE  UNCHANGED Abstract!chvars
  BY <1>1, <1>3 DEF TestUnused
<1>4. CASE UNCHANGED xvars
  BY <1>1, <1>4 DEF xvars, xferVars
<1> QED
  BY <1>2, <1>3, <1>4, LifecycleMaps, IsendMaps, IrecvMaps, TestMaps,
     SendCompletesMaps, MatchMaps DEF XferNext

\* With a caller that drains what it closes, the plugin keeps what Channel promises.
THEOREM TransferImplementsChannel ==
  ASSUME DrainsBeforeClose
  PROVE  XferSpec => ImplementsChannel
<1>1. XferInit => Abstract!ChannelInit
  BY InitMaps
<1>2. XInv /\ [XferNext]_xvars => [Abstract!ChannelNext]_(Abstract!chvars)
  BY NextMaps
<1> QED BY <1>1, <1>2, XInvariance, PTL DEF XferSpec, ImplementsChannel, Abstract!ChannelSpec
===============================================================================
