---------------------------- MODULE TransferProofs ----------------------------
(***************************************************************************)
(* Proofs about Transfer, for any number of communicators, endpoints, and  *)
(* request slots, of a caller that closes a communicator only when it has  *)
(* no request left: every operation meets the request it was posted for,   *)
(* and every receive gets the message it should.                           *)
(***************************************************************************)
EXTENDS Transfer, SharedEpProofs, WellFoundedInduction

\* NCCL sends on communicators that connect made, receives on those of listen.
RoleInv ==
  \A c \in Comm :
    /\ held[c] = "send" => comm[c].rem_epid # NULL
    /\ held[c] \in {"listen", "accepted", "recv"} => comm[c].rem_epid = NULL

\* A listen gives one handle, of its endpoint, and one sender uses it.
LinkInv ==
  /\ \A p \in Rank : next_tag[p] <= TAG_MAX
  /\ \A h \in handles : h.tag < next_tag[EpHome[h.epid]]
  /\ \A s \in Senders : comm[s].tag < next_tag[EpHome[comm[s].rem_epid]]
  /\ \A h1, h2 \in handles : h1.born = h2.born => h1 = h2
  /\ \A s1, s2 \in Senders : comm[s1].born = comm[s2].born => s1 = s2
  /\ \A h \in handles, s \in Senders : h.born # comm[s].born
  /\ \A r \in Receivers :
       /\ \A h \in handles : h.born = comm[r].born => h.epid = comm[r].ep
       /\ \A s \in Senders :
            comm[s].born = comm[r].born => comm[s].rem_epid = comm[r].ep

-------------------------------------------------------------------------------
(* Requests and operations.  The invariant is an operator of the requests, *)
(* the operations and what NCCL holds: test retires completions and puts   *)
(* one request back, and each half keeps it.                               *)

\* A request of communicator c: it has a message only once it is done, and then of
\* the right link and number.
RequestOK(c, q) ==
  /\ q.n < calls[c]
  /\ q.type = IF comm[c].rem_epid = NULL THEN "ReqRecv" ELSE "ReqSend"
  /\ q.msg # NULL <=> q.type = "ReqRecv" /\ q.done = 1
  /\ q.msg # NULL => /\ q.recv_size = NBytes(q.msg.n)
                     /\ q.msg.born = comm[c].born
                     /\ OrderedMq => q.msg.n = q.n

\* An operation of communicator c, posted for request q, and its message if it is a
\* receive.
OpOK(o, c, q) ==
  /\ q # NULL
  /\ q.done = 0 /\ q.type = o.type /\ q.n = o.n
  /\ o.ep = comm[c].ep
  /\ o.type = "ReqRecv" =>
       /\ o.tag = comm[c].tag
       /\ o.complete <=> o.msg # NULL
       /\ o.msg # NULL => /\ o.msg.born = comm[c].born
                          /\ OrderedMq => o.msg.n = o.n

RequestInv(rs, ops, wanted) ==
  /\ rs \in [Comm -> [Slot -> ReqRec \cup {NULL}]]
  /\ ops \in SUBSET Op
  /\ wanted \in SUBSET Request
  /\ \A c \in Comm, s \in Slot :
       /\ rs[c][s] # NULL <=> <<c, s>> \in wanted
       /\ rs[c][s] # NULL => comm[c] # NULL /\ RequestOK(c, rs[c][s])
       /\ rs[c][s] # NULL /\ rs[c][s].done = 0 => \E o \in ops : o.ctx = <<c, s>>
  /\ \A c \in Comm, s, t \in Slot :
       rs[c][s] # NULL /\ rs[c][t] # NULL /\ rs[c][s].n = rs[c][t].n => s = t
  /\ \A o \in ops : OpOK(o, o.ctx[1], rs[o.ctx[1]][o.ctx[2]])
  /\ \A o1, o2 \in ops : o1.ctx = o2.ctx => o1 = o2

\* A message names its link by endpoint and tag; no two of a link have one number.
MessageInv ==
  /\ net \in SUBSET Message
  /\ \A m \in net :
       /\ m.born = <<EpHome[m.epid], m.tag>>
       /\ m.tag < next_tag[EpHome[m.epid]]
       /\ \A h \in handles : h.born # m.born
       /\ \A s \in Senders : m.born = comm[s].born => m.n < calls[s]
       /\ \A s \in Senders : m.born = comm[s].born => m.epid = comm[s].rem_epid
       /\ \A r \in Receivers : m.born = comm[r].born => m.epid = comm[r].ep
  /\ \A m1, m2 \in net : m1.born = m2.born /\ m1.n = m2.n => m1 = m2

\* The receives of c from number k on wait for a message, the messages of its link
\* from k on wait for a receive, and j were sent.
InOrder(c, k, j) ==
  /\ k <= calls[c] /\ k <= j
  /\ \A n \in Nat :
       (\E o \in mq : o.ctx[1] = c /\ ~o.complete /\ o.n = n) <=> k <= n /\ n < calls[c]
  /\ \A n \in Nat :
       (\E m \in net : m.born = comm[c].born /\ m.n = n) <=> k <= n /\ n < j
  /\ \A s \in Senders : comm[s].born = comm[c].born => j = calls[s]
  /\ \A h \in handles : h.born = comm[c].born => j = 0

OrderInv == OrderedMq => \A c \in Receivers : \E k, j \in Nat : InOrder(c, k, j)

CallsInv ==
  /\ calls \in [Comm -> Nat]
  /\ \A c \in Comm : comm[c] = NULL => calls[c] = 0

XInv ==
  /\ IInv /\ RoleInv /\ LinkInv
  /\ CallsInv
  /\ RequestInv(requests, mq, pending)
  /\ MessageInv
  /\ OrderInv
  /\ test \in [done : {0, 1}, size : Nat \cup {NULL}]
-------------------------------------------------------------------------------
(* What a call of SharedEp does to the communicators, NCCL's handles and   *)
(* the tags.                                                               *)

\* accept, closeListen, and every call that fails.
Unlinked ==
  /\ UNCHANGED <<comm, handles, next_tag, listens>>
  /\ \A c \in Comm :
       /\ held'[c] = "send" => held[c] = "send"
       /\ held'[c] \in {"listen", "accepted", "recv"} =>
            held[c] \in {"listen", "accepted", "recv"}

\* A new communicator of Home[c], with the contents rec.
Created(c, rec) ==
  /\ comm[c] = NULL /\ rec \in CommRec
  /\ comm' = [comm EXCEPT ![c] = rec]
  /\ EpHome[rec.ep] = Home[c]

HandleOf(rec) == [epid |-> rec.ep, tag |-> rec.tag, born |-> rec.born]

Listened(c, rec) ==
  /\ Created(c, rec)
  /\ rec.rem_epid = NULL /\ rec.tag = next_tag[Home[c]] /\ rec.born = <<Home[c], rec.tag>>
  /\ handles' = handles \cup {HandleOf(rec)}
  /\ rec.tag + 1 < TAG_MAX
  /\ next_tag' = [next_tag EXCEPT ![Home[c]] = @ + 1]
  /\ listens' = [listens EXCEPT ![Home[c]] = @ + 1]
  /\ held' = [held EXCEPT ![c] = "listen"]

Connected(c, rec, h) ==
  /\ Created(c, rec)
  /\ rec.rem_epid = h.epid /\ rec.tag = h.tag /\ rec.born = h.born
  /\ handles' = handles \ {h}
  /\ UNCHANGED <<next_tag, listens>>
  /\ held' = [held EXCEPT ![c] = "send"]

Closed(c) ==
  /\ comm[c] # NULL
  /\ comm' = [comm EXCEPT ![c] = NULL]
  /\ UNCHANGED <<handles, next_tag, listens>>
  /\ held' = [held EXCEPT ![c] = IF @ = "accepted" THEN "stale" ELSE "none"]

\* Every call is one of the four.
LEMMA CallKinds ==
  ASSUME IInv, [Next]_vars
  PROVE  \/ Unlinked
         \/ \E c \in Comm, rec \in CommRec :
              \/ Listened(c, rec)
              \/ \E h \in handles : Connected(c, rec, h)
         \/ \E c \in Comm : Closed(c)
<1>0. TypeOK /\ EpInv /\ TagInv /\ HeldLive
  BY DEF IInv
<1>1. ASSUME UNCHANGED <<config, next_tag, shared_ep, comm, epVars, held, handles, listens>>
      PROVE  Unlinked
  BY <1>1 DEF Unlinked
<1>2. ASSUME NEW p \in Rank, NEW dev \in Dev, NEW e \in Ep, NEW u \in Dev, NEW eprc,
             BailOut(p, dev, e, u, eprc), UNCHANGED listens
      PROVE  Unlinked
  BY <1>2 DEF Unlinked, BailOut
<1>3. ASSUME NEW p \in Rank, NEW dev \in Dev, NEW c \in Comm, NEW e \in Ep, NEW u \in Dev,
             Listen(p, dev, c, e, u)
      PROVE  \E rec \in CommRec : Listened(c, rec)
  <2> DEFINE rec == [ep |-> e, shared |-> use_shared_ep, tag |-> next_tag[p],
                     rem_epid |-> NULL, dev |-> dev, born |-> <<p, listens[p]>>]
  <2>1. /\ Home[c] = p /\ comm[c] = NULL /\ InitOk(p, dev, e, u)
        /\ comm' = [comm EXCEPT ![c] = rec] /\ handles' = handles \cup {HandleOf(rec)}
        /\ next_tag' = [next_tag EXCEPT ![p] = @ + 1] /\ next_tag[p] + 1 < TAG_MAX
        /\ listens' = [listens EXCEPT ![p] = @ + 1]
        /\ held' = [held EXCEPT ![c] = "listen"]
    BY <1>3 DEF Listen, Allocates, NextTag, TagsLeft, HandleOf
  <2>2. rec \in CommRec /\ listens[p] = next_tag[p]
    BY <1>0 DEF TypeOK, CommRec, TagInv
  <2>3. EpHome[e] = p
    BY <1>0, <2>1, InitEpChoice DEF InitOk
  <2>4. Listened(c, rec)
    BY <2>1, <2>2, <2>3 DEF Listened, Created
  <2> QED BY <2>2, <2>4
<1>4. ASSUME NEW p \in Rank, NEW dev \in Dev, NEW c \in Comm, NEW e \in Ep, NEW u \in Dev,
             NEW h \in handles, Connect(p, dev, c, h, e, u)
      PROVE  \E rec \in CommRec : Connected(c, rec, h)
  <2> DEFINE rec == [ep |-> e, shared |-> use_shared_ep, tag |-> h.tag,
                     rem_epid |-> h.epid, dev |-> dev, born |-> h.born]
  <2>1. /\ Home[c] = p /\ comm[c] = NULL /\ InitOk(p, dev, e, u)
        /\ comm' = [comm EXCEPT ![c] = rec] /\ handles' = handles \ {h}
        /\ held' = [held EXCEPT ![c] = "send"] /\ UNCHANGED <<next_tag, listens>>
    BY <1>4 DEF Connect, Allocates, RemoteEpid
  <2>2. h \in Handle /\ rec \in CommRec
    BY <1>0 DEF TypeOK, CommRec, Handle
  <2>3. EpHome[e] = p
    BY <1>0, <2>1, InitEpChoice DEF InitOk
  <2>4. Connected(c, rec, h)
    BY <2>1, <2>2, <2>3 DEF Connected, Created
  <2> QED BY <2>2, <2>4
<1>5. ASSUME NEW c \in Comm, Accept(c)
      PROVE  Unlinked
  BY <1>0, <1>5 DEF Accept, Unlinked, TypeOK
<1>6. ASSUME NEW c \in Comm, CloseListen(c)
      PROVE  Unlinked
  <2>1. UNCHANGED <<comm, handles, next_tag, listens>>
    BY <1>6 DEF CloseListen
  <2>2. \A d \in Comm \ {c} : held'[d] = held[d]
    BY <1>0, <1>6 DEF CloseListen, TypeOK
  <2>3. \/ held[c] = "accepted" /\ held'[c] = "recv"
        \/ held[c] = "stale" /\ held'[c] = "none"
        \/ held[c] = "listen" /\ held'[c] = "none"
    BY <1>0, <1>6 DEF CloseListen, TypeOK
  <2> QED BY <2>1, <2>2, <2>3 DEF Unlinked
<1>7. ASSUME NEW c \in Comm, NEW mqrc, NEW eprc, Close(c, mqrc, eprc)
      PROVE  Closed(c)
  BY <1>0, <1>7 DEF Close, Closed, HeldLive
<1>8. CASE UNCHANGED vars
  BY <1>1, <1>8 DEF vars
<1> QED
  BY <1>1, <1>2, <1>3, <1>4, <1>5, <1>6, <1>7, <1>8
  DEF Next, InitFailsEarly, InitMqFails, ConnectFails, ListenOutOfTags, BailOut

\* What listen, connect and close do to who sends and who receives.
LEMMA ListenedEffect ==
  ASSUME TypeOK, NEW c \in Comm, NEW rec \in CommRec, Listened(c, rec)
  PROVE  /\ comm'[c] = rec /\ \A d \in Comm \ {c} : comm'[d] = comm[d]
         /\ Receivers' = Receivers \cup {c} /\ Senders' = Senders
         /\ c \notin Receivers /\ c \notin Senders
         /\ Receivers \subseteq Comm /\ Senders \subseteq Comm
  BY ConstAssumption DEF TypeOK, Listened, Created, Receivers, Senders, Live

\* What connect does to the senders and receivers.
LEMMA ConnectedEffect ==
  ASSUME TypeOK, NEW c \in Comm, NEW rec \in CommRec, NEW h \in handles,
         Connected(c, rec, h)
  PROVE  /\ comm'[c] = rec /\ \A d \in Comm \ {c} : comm'[d] = comm[d]
         /\ Receivers' = Receivers /\ Senders' = Senders \cup {c}
         /\ c \notin Receivers /\ c \notin Senders
         /\ Receivers \subseteq Comm /\ Senders \subseteq Comm
<1>1. rec.rem_epid # NULL
  BY ConstAssumption DEF TypeOK, Handle, Connected
<1> QED
  BY <1>1, ConstAssumption DEF TypeOK, Connected, Created, Receivers, Senders, Live

\* What a close does to the senders and receivers.
LEMMA ClosedEffect ==
  ASSUME TypeOK, NEW c \in Comm, Closed(c)
  PROVE  /\ comm'[c] = NULL /\ \A d \in Comm \ {c} : comm'[d] = comm[d]
         /\ Receivers' = Receivers \ {c} /\ Senders' = Senders \ {c}
         /\ Receivers \subseteq Comm /\ Senders \subseteq Comm
  BY DEF TypeOK, Closed, Receivers, Senders, Live

\* Roles are given by listen and connect, and only lost afterwards.
LEMMA CallKeepsRoleInv ==
  ASSUME IInv, RoleInv, [Next]_vars
  PROVE  RoleInv'
<1>0. TypeOK
  BY DEF IInv
<1>1. CASE Unlinked
  BY <1>1 DEF Unlinked, RoleInv
<1>2. ASSUME NEW c \in Comm, NEW rec \in CommRec, Listened(c, rec)
      PROVE  RoleInv'
  <2>1. /\ comm'[c] = rec /\ rec.rem_epid = NULL
        /\ \A d \in Comm \ {c} : comm'[d] = comm[d]
    BY <1>0, <1>2, ListenedEffect DEF Listened
  <2>2. held'[c] = "listen" /\ \A d \in Comm \ {c} : held'[d] = held[d]
    BY <1>0, <1>2 DEF Listened, TypeOK
  <2> QED BY <2>1, <2>2 DEF RoleInv
<1>3. ASSUME NEW c \in Comm, NEW rec \in CommRec, NEW h \in handles, Connected(c, rec, h)
      PROVE  RoleInv'
  <2>1. rec.rem_epid # NULL
    BY <1>0, <1>3, ConstAssumption DEF TypeOK, Handle, Connected
  <2>2. /\ held'[c] = "send" /\ comm'[c].rem_epid # NULL
        /\ \A d \in Comm \ {c} : held'[d] = held[d] /\ comm'[d] = comm[d]
    BY <1>0, <1>3, <2>1, ConnectedEffect DEF Connected, TypeOK
  <2> QED BY <2>2 DEF RoleInv
<1>4. ASSUME NEW c \in Comm, Closed(c)
      PROVE  RoleInv'
  BY <1>0, <1>4, ClosedEffect DEF RoleInv, Closed, TypeOK
<1> QED BY <1>1, <1>2, <1>3, <1>4, CallKinds

\* Every tag in the job was counted by its rank.
LEMMA TagsCounted ==
  ASSUME IInv, LinkInv
  PROVE  /\ \A h \in handles : /\ h.epid \in Ep /\ EpHome[h.epid] \in Rank /\ h.tag \in Nat
                               /\ h.born = <<EpHome[h.epid], h.tag>>
                               /\ h.tag < next_tag[EpHome[h.epid]]
         /\ \A s \in Senders : /\ comm[s].rem_epid \in Ep /\ EpHome[comm[s].rem_epid] \in Rank
                               /\ comm[s].tag \in Nat
                               /\ comm[s].born = <<EpHome[comm[s].rem_epid], comm[s].tag>>
                               /\ comm[s].tag < next_tag[EpHome[comm[s].rem_epid]]
         /\ \A r \in Receivers : /\ comm[r].ep \in Ep /\ EpHome[comm[r].ep] = Home[r]
                                 /\ Home[r] \in Rank /\ comm[r].tag \in Nat
                                 /\ comm[r].born = <<Home[r], comm[r].tag>>
                                 /\ comm[r].tag < next_tag[Home[r]]
         /\ \A p \in Rank : next_tag[p] \in Nat /\ listens[p] = next_tag[p]
<1>1. \A h \in handles : /\ h.epid \in Ep /\ EpHome[h.epid] \in Rank /\ h.tag \in Nat
                         /\ h.born = <<EpHome[h.epid], h.tag>>
                         /\ h.tag < next_tag[EpHome[h.epid]]
  BY ConstAssumption DEF IInv, TypeOK, Handle, TagInv, LinkInv
<1>2. \A s \in Senders : /\ comm[s].rem_epid \in Ep /\ EpHome[comm[s].rem_epid] \in Rank
                         /\ comm[s].tag \in Nat
                         /\ comm[s].born = <<EpHome[comm[s].rem_epid], comm[s].tag>>
                         /\ comm[s].tag < next_tag[EpHome[comm[s].rem_epid]]
  <2> SUFFICES ASSUME NEW s \in Senders
               PROVE  /\ comm[s].rem_epid \in Ep /\ EpHome[comm[s].rem_epid] \in Rank
                      /\ comm[s].tag \in Nat
                      /\ comm[s].born = <<EpHome[comm[s].rem_epid], comm[s].tag>>
                      /\ comm[s].tag < next_tag[EpHome[comm[s].rem_epid]]
    OBVIOUS
  <2>1. comm[s] \in CommRec /\ comm[s].rem_epid # NULL
    BY DEF IInv, TypeOK, Senders, Live
  <2>2. comm[s].rem_epid \in Ep /\ comm[s].tag \in Nat
    BY <2>1 DEF CommRec
  <2> QED BY <2>2, ConstAssumption DEF IInv, TagInv, LinkInv
<1>3. \A r \in Receivers : /\ comm[r].ep \in Ep /\ EpHome[comm[r].ep] = Home[r]
                           /\ Home[r] \in Rank /\ comm[r].tag \in Nat
                           /\ comm[r].born = <<Home[r], comm[r].tag>>
                           /\ comm[r].tag < next_tag[Home[r]]
  <2> SUFFICES ASSUME NEW r \in Receivers
               PROVE  /\ comm[r].ep \in Ep /\ EpHome[comm[r].ep] = Home[r]
                      /\ Home[r] \in Rank /\ comm[r].tag \in Nat
                      /\ comm[r].born = <<Home[r], comm[r].tag>>
                      /\ comm[r].tag < next_tag[Home[r]]
    OBVIOUS
  <2>1. r \in Comm /\ r \in Live /\ comm[r] \in CommRec
    BY DEF IInv, TypeOK, Receivers, Live
  <2>2. comm[r].ep \in Ep /\ comm[r].tag \in Nat
    BY <2>1 DEF CommRec
  <2>3. EpHome[comm[r].ep] = Home[r]
    BY <2>1 DEF IInv, EpInv, CommHome
  <2> QED BY <2>1, <2>2, <2>3, ConstAssumption DEF IInv, TagInv
<1>4. \A p \in Rank : next_tag[p] \in Nat /\ listens[p] = next_tag[p]
  BY DEF IInv, TypeOK, TagInv
<1> QED BY <1>1, <1>2, <1>3, <1>4

\* A listen gives out a tag that was never used, a connect takes one handle away.
LEMMA CallKeepsLinkInv ==
  ASSUME IInv, LinkInv, [Next]_vars
  PROVE  LinkInv'
<1>0. TypeOK /\ IInv'
  BY NextKeepsIInv DEF IInv
<1>t. /\ \A h \in handles : /\ h.epid \in Ep /\ EpHome[h.epid] \in Rank /\ h.tag \in Nat
                            /\ h.born = <<EpHome[h.epid], h.tag>>
                            /\ h.tag < next_tag[EpHome[h.epid]]
      /\ \A s \in Senders : /\ comm[s].rem_epid \in Ep /\ EpHome[comm[s].rem_epid] \in Rank
                            /\ comm[s].tag \in Nat
                            /\ comm[s].born = <<EpHome[comm[s].rem_epid], comm[s].tag>>
                            /\ comm[s].tag < next_tag[EpHome[comm[s].rem_epid]]
      /\ \A r \in Receivers : /\ comm[r].ep \in Ep /\ EpHome[comm[r].ep] = Home[r]
                              /\ Home[r] \in Rank /\ comm[r].tag \in Nat
                              /\ comm[r].born = <<Home[r], comm[r].tag>>
                              /\ comm[r].tag < next_tag[Home[r]]
      /\ \A p \in Rank : next_tag[p] \in Nat /\ listens[p] = next_tag[p]
  BY TagsCounted
<1>1. CASE Unlinked
  BY <1>1 DEF Unlinked, LinkInv, Receivers, Senders, Live
<1>2. ASSUME NEW c \in Comm, NEW rec \in CommRec, Listened(c, rec)
      PROVE  LinkInv'
  <2> DEFINE p == Home[c]
             g == HandleOf(rec)
  <2>1. /\ comm'[c] = rec /\ \A d \in Comm \ {c} : comm'[d] = comm[d]
        /\ Receivers' = Receivers \cup {c} /\ Senders' = Senders
        /\ c \notin Receivers /\ c \notin Senders
        /\ Receivers \subseteq Comm /\ Senders \subseteq Comm
    BY <1>0, <1>2, ListenedEffect
  <2>2. /\ p \in Rank /\ EpHome[rec.ep] = p /\ rec.tag = next_tag[p]
        /\ rec.born = <<p, next_tag[p]>>
        /\ handles' = handles \cup {g}
        /\ g.epid = rec.ep /\ g.tag = next_tag[p] /\ g.born = rec.born
        /\ next_tag[p] + 1 < TAG_MAX
        /\ next_tag' = [next_tag EXCEPT ![p] = @ + 1]
    BY <1>2, ConstAssumption DEF Listened, Created, HandleOf
  <2>3. /\ next_tag'[p] = next_tag[p] + 1
        /\ \A q \in Rank \ {p} : next_tag'[q] = next_tag[q]
    BY <1>0, <2>2 DEF TypeOK
  <2>4. \A q \in Rank : next_tag'[q] \in Nat /\ next_tag[q] <= next_tag'[q]
    BY <1>t, <2>2, <2>3
  <2>5. /\ \A h \in handles : h.born # rec.born
        /\ \A s \in Senders : comm[s].born # rec.born
        /\ \A r \in Receivers : comm[r].born # rec.born
    BY <1>t, <2>2
  <2>6. \A q \in Rank : next_tag'[q] <= TAG_MAX
    BY <1>t, <2>2, <2>3, ConstAssumption DEF LinkInv
  <2>7. \A h \in handles' : h.tag < next_tag'[EpHome[h.epid]]
    <3>1. g.tag < next_tag'[EpHome[g.epid]]
      BY <1>t, <2>2, <2>3
    <3>2. \A h \in handles : h.tag < next_tag'[EpHome[h.epid]]
      BY <1>t, <2>2, <2>3
    <3> QED BY <2>2, <3>1, <3>2
  <2>8. \A s \in Senders : /\ comm'[s] = comm[s]
                           /\ comm'[s].tag < next_tag'[EpHome[comm'[s].rem_epid]]
    BY <1>t, <2>1, <2>2, <2>3
  <2>9. \A h1, h2 \in handles' : h1.born = h2.born => h1 = h2
    BY <2>2, <2>5 DEF LinkInv
  <2>10. \A r \in Receivers' :
           /\ \A h \in handles' : h.born = comm'[r].born => h.epid = comm'[r].ep
           /\ \A s \in Senders' :
                comm'[s].born = comm'[r].born => comm'[s].rem_epid = comm'[r].ep
    BY <2>1, <2>2, <2>5, <2>8 DEF LinkInv
  <2>11. \A s1, s2 \in Senders' : comm'[s1].born = comm'[s2].born => s1 = s2
    BY <2>1, <2>8 DEF LinkInv
  <2>12. \A h \in handles', s \in Senders' : h.born # comm'[s].born
    BY <2>1, <2>2, <2>5, <2>8 DEF LinkInv
  <2> QED BY <2>1, <2>6, <2>7, <2>8, <2>9, <2>10, <2>11, <2>12 DEF LinkInv
<1>3. ASSUME NEW c \in Comm, NEW rec \in CommRec, NEW h \in handles, Connected(c, rec, h)
      PROVE  LinkInv'
  <2>1. /\ comm'[c] = rec /\ \A d \in Comm \ {c} : comm'[d] = comm[d]
        /\ Receivers' = Receivers /\ Senders' = Senders \cup {c}
        /\ c \notin Receivers /\ c \notin Senders
        /\ Receivers \subseteq Comm /\ Senders \subseteq Comm
    BY <1>0, <1>3, ConnectedEffect
  <2>2. /\ rec.rem_epid = h.epid /\ rec.tag = h.tag /\ rec.born = h.born
        /\ handles' = handles \ {h} /\ next_tag' = next_tag
    BY <1>3 DEF Connected
  <2>3. \A s \in Senders : comm'[s] = comm[s]
    BY <2>1
  <2>4. \A s \in Senders' : comm'[s].tag < next_tag'[EpHome[comm'[s].rem_epid]]
    BY <1>t, <2>1, <2>2, <2>3
  <2>5. \A s1, s2 \in Senders' : comm'[s1].born = comm'[s2].born => s1 = s2
    BY <2>1, <2>2, <2>3 DEF LinkInv
  <2>6. \A g \in handles', s \in Senders' : g.born # comm'[s].born
    BY <2>1, <2>2, <2>3 DEF LinkInv
  <2>7. \A r \in Receivers' :
          /\ comm'[r] = comm[r]
          /\ \A g \in handles' : g.born = comm'[r].born => g.epid = comm'[r].ep
          /\ \A s \in Senders' :
               comm'[s].born = comm'[r].born => comm'[s].rem_epid = comm'[r].ep
    BY <2>1, <2>2, <2>3 DEF LinkInv
  <2>8. /\ \A p \in Rank : next_tag'[p] <= TAG_MAX
        /\ \A g \in handles' : g.tag < next_tag'[EpHome[g.epid]]
        /\ \A h1, h2 \in handles' : h1.born = h2.born => h1 = h2
    BY <2>2 DEF LinkInv
  <2> QED BY <2>4, <2>5, <2>6, <2>7, <2>8 DEF LinkInv
<1>4. ASSUME NEW c \in Comm, Closed(c)
      PROVE  LinkInv'
  <2>1. /\ \A d \in Comm \ {c} : comm'[d] = comm[d]
        /\ Receivers' = Receivers \ {c} /\ Senders' = Senders \ {c}
        /\ Receivers \subseteq Comm /\ Senders \subseteq Comm
        /\ UNCHANGED <<handles, next_tag>>
    BY <1>0, <1>4, ClosedEffect DEF Closed
  <2> QED BY <2>1 DEF LinkInv
<1> QED BY <1>1, <1>2, <1>3, <1>4, CallKinds

-------------------------------------------------------------------------------
(* What the calls of SharedEp do to requests: nothing, when NCCL closes    *)
(* only communicators that have none.                                      *)

\* A communicator keeps its contents as long as it is allocated.
LEMMA CommKept ==
  ASSUME IInv, [Next]_vars
  PROVE  \A c \in Comm : comm[c] # NULL /\ comm'[c] # NULL => comm'[c] = comm[c]
<1>0. TypeOK
  BY DEF IInv
<1>1. CASE Unlinked
  BY <1>1 DEF Unlinked
<1>2. ASSUME NEW c \in Comm, NEW rec \in CommRec, Created(c, rec)
      PROVE  \A d \in Comm : comm[d] # NULL => comm'[d] = comm[d]
  BY <1>0, <1>2 DEF Created, TypeOK
<1>3. ASSUME NEW c \in Comm, Closed(c)
      PROVE  \A d \in Comm : comm'[d] # NULL => comm'[d] = comm[d]
  BY <1>0, <1>3 DEF Closed, TypeOK
<1> QED BY <1>1, <1>2, <1>3, CallKinds DEF Listened, Connected

\* The operations of the MQs are of communicators that have a request.
LEMMA OpsAreOfRequests ==
  ASSUME RequestInv(requests, mq, pending), NEW o \in mq
  PROVE  /\ o \in Op /\ o.ctx \in pending /\ o.ctx = <<o.ctx[1], o.ctx[2]>>
         /\ o.ctx[1] \in Comm /\ o.ctx[2] \in Slot
         /\ comm[o.ctx[1]] # NULL
         /\ OpOK(o, o.ctx[1], requests[o.ctx[1]][o.ctx[2]])
         /\ RequestOK(o.ctx[1], requests[o.ctx[1]][o.ctx[2]])
<1>1. /\ o \in Op /\ o.ctx \in Comm \X Slot
      /\ o.ctx = <<o.ctx[1], o.ctx[2]>> /\ o.ctx[1] \in Comm /\ o.ctx[2] \in Slot
      /\ OpOK(o, o.ctx[1], requests[o.ctx[1]][o.ctx[2]])
  BY DEF RequestInv, Op, Request
<1>2. requests[o.ctx[1]][o.ctx[2]] # NULL
  BY <1>1 DEF OpOK
<1> QED BY <1>1, <1>2 DEF RequestInv

\* The calls of SharedEp leave requests, operations and messages alone.
LEMMA LifecycleEffect ==
  ASSUME DrainsBeforeClose, XInv, Lifecycle
  PROVE  /\ UNCHANGED <<requests, mq, net, pending, test>>
         /\ calls' \in [Comm -> Nat]
         /\ \A c \in Comm : calls'[c] = IF comm'[c] = NULL THEN 0 ELSE calls[c]
         /\ \A c \in Comm, s \in Slot : requests[c][s] # NULL => comm'[c] = comm[c]
<1>0. IInv /\ RequestInv(requests, mq, pending) /\ CallsInv /\ [Next]_vars
  BY DEF XInv, Lifecycle
<1>1. IInv' /\ EndpointOutlivesComms'
  BY <1>0, NextKeepsIInv DEF IInv, EpInv
<1>2. \A c \in Comm, s \in Slot : requests[c][s] # NULL => /\ comm[c] # NULL
                                                          /\ <<c, s>> \in pending
  BY <1>0 DEF RequestInv
<1>3. \A r \in pending : comm'[r[1]] # NULL
  BY DEF Lifecycle
<1>4. \A c \in Comm, s \in Slot : requests[c][s] # NULL => comm'[c] = comm[c] /\ comm'[c] # NULL
  BY <1>0, <1>2, <1>3, CommKept
<1>5. requests' = requests
  <2>1. requests \in [Comm -> [Slot -> ReqRec \cup {NULL}]]
    BY <1>0 DEF RequestInv
  <2>2. \A c \in Comm : comm'[c] = NULL => requests[c] = NoRequests
    BY <1>4, <2>1 DEF NoRequests
  <2>3. requests' = [c \in Comm |-> requests[c]]
    BY <2>2 DEF Lifecycle
  <2> QED BY <2>1, <2>3
<1>6. pending' = pending
  BY <1>3 DEF Lifecycle
<1>7. mq' = mq
  <2> SUFFICES ASSUME NEW o \in mq
               PROVE  ep_unit'[o.ep] # NULL
    BY DEF Lifecycle
  <2>1. /\ o.ctx \in pending /\ o.ctx[1] \in Comm /\ comm[o.ctx[1]] # NULL
        /\ o.ep = comm[o.ctx[1]].ep
    BY <1>0, OpsAreOfRequests DEF OpOK
  <2>2. comm'[o.ctx[1]] # NULL /\ comm'[o.ctx[1]] = comm[o.ctx[1]]
    BY <1>0, <1>3, <2>1, CommKept
  <2> QED BY <1>1, <2>1, <2>2 DEF EndpointOutlivesComms, Live
<1>8. /\ calls' \in [Comm -> Nat]
      /\ \A c \in Comm : calls'[c] = IF comm'[c] = NULL THEN 0 ELSE calls[c]
  BY <1>0 DEF Lifecycle, CallsInv
<1> QED BY <1>4, <1>5, <1>6, <1>7, <1>8 DEF Lifecycle

\* A communicator that is freed starts counting its calls afresh.
LEMMA LifecycleKeepsCallsInv ==
  ASSUME DrainsBeforeClose, XInv, Lifecycle
  PROVE  CallsInv'
  BY LifecycleEffect DEF CallsInv

\* With a caller that drains, no request is outstanding on what a call frees or closes.
LEMMA LifecycleKeepsRequestInv ==
  ASSUME DrainsBeforeClose, XInv, Lifecycle
  PROVE  RequestInv(requests, mq, pending)'
<1>1. RequestInv(requests, mq, pending)
  BY DEF XInv
<1>2. UNCHANGED <<requests, mq, pending>>
  BY LifecycleEffect
<1>3. \A c \in Comm, s \in Slot :
        requests[c][s] # NULL => comm'[c] = comm[c] /\ calls'[c] = calls[c]
  BY <1>1, LifecycleEffect DEF RequestInv
<1>4. \A c \in Comm, s \in Slot :
        requests[c][s] # NULL => comm'[c] # NULL /\ RequestOK(c, requests[c][s])'
  <2> SUFFICES ASSUME NEW c \in Comm, NEW s \in Slot, requests[c][s] # NULL
               PROVE  comm'[c] # NULL /\ RequestOK(c, requests[c][s])'
    OBVIOUS
  <2>1. comm[c] # NULL /\ RequestOK(c, requests[c][s])
    BY <1>1 DEF RequestInv
  <2> QED BY <1>2, <1>3, <2>1 DEF RequestOK
<1>5. \A o \in mq : OpOK(o, o.ctx[1], requests[o.ctx[1]][o.ctx[2]])'
  <2> SUFFICES ASSUME NEW o \in mq
               PROVE  OpOK(o, o.ctx[1], requests[o.ctx[1]][o.ctx[2]])'
    OBVIOUS
  <2>1. /\ OpOK(o, o.ctx[1], requests[o.ctx[1]][o.ctx[2]])
        /\ o.ctx[1] \in Comm /\ o.ctx[2] \in Slot
    BY <1>1, OpsAreOfRequests
  <2>2. requests[o.ctx[1]][o.ctx[2]] # NULL
    BY <2>1 DEF OpOK
  <2> QED BY <1>2, <1>3, <2>1, <2>2 DEF OpOK
<1> QED BY <1>1, <1>2, <1>3, <1>4, <1>5 DEF RequestInv

\* A new handle has no message yet; a new sender takes over a handle's link.
LEMMA LifecycleKeepsMessageInv ==
  ASSUME DrainsBeforeClose, XInv, Lifecycle
  PROVE  MessageInv'
<1>0. IInv /\ LinkInv /\ CallsInv /\ MessageInv /\ TypeOK /\ [Next]_vars
  BY DEF XInv, Lifecycle, IInv
<1>1. /\ net' = net
      /\ \A c \in Comm : comm'[c] # NULL => calls'[c] = calls[c]
  BY LifecycleEffect
<1>2. /\ net \in SUBSET Message
      /\ \A m1, m2 \in net : m1.born = m2.born /\ m1.n = m2.n => m1 = m2
  BY <1>0 DEF MessageInv
<1>t. \A p \in Rank : next_tag[p] \in Nat
  BY <1>0 DEF TypeOK
<1>m. \A m \in net : /\ m.epid \in Ep /\ EpHome[m.epid] \in Rank /\ m.tag \in Nat
                     /\ m.born = <<EpHome[m.epid], m.tag>>
                     /\ m.tag < next_tag[EpHome[m.epid]]
  BY <1>0, ConstAssumption DEF MessageInv, Message
<1>3. CASE Unlinked
  <2>1. Receivers' = Receivers /\ Senders' = Senders /\ UNCHANGED <<comm, handles, next_tag>>
    BY <1>3 DEF Unlinked, Receivers, Senders, Live
  <2>2. \A s \in Senders : calls'[s] = calls[s]
    BY <1>1, <2>1 DEF Senders, Live
  <2> QED BY <1>0, <1>1, <2>1, <2>2 DEF MessageInv
<1>4. ASSUME NEW c \in Comm, NEW rec \in CommRec, Listened(c, rec)
      PROVE  MessageInv'
  <2>1. /\ comm'[c] = rec /\ \A d \in Comm \ {c} : comm'[d] = comm[d]
        /\ Receivers' = Receivers \cup {c} /\ Senders' = Senders
        /\ c \notin Receivers /\ c \notin Senders
        /\ Receivers \subseteq Comm /\ Senders \subseteq Comm
    BY <1>0, <1>4, ListenedEffect
  <2>2. /\ Home[c] \in Rank /\ EpHome[rec.ep] = Home[c]
        /\ rec.born = <<Home[c], next_tag[Home[c]]>>
        /\ handles' = handles \cup {HandleOf(rec)} /\ HandleOf(rec).born = rec.born
        /\ next_tag' = [next_tag EXCEPT ![Home[c]] = @ + 1]
    BY <1>4, ConstAssumption DEF Listened, Created, HandleOf
  <2>3. \A m \in net : m.tag < next_tag'[EpHome[m.epid]]
    BY <1>0, <1>t, <1>m, <2>2 DEF TypeOK
  <2>4. \A m \in net : m.born # rec.born
    BY <1>t, <1>m, <2>2
  <2>5. \A m \in net, h \in handles' : h.born # m.born
    BY <1>0, <2>2, <2>4 DEF MessageInv
  <2>6. \A s \in Senders : comm'[s] = comm[s] /\ calls'[s] = calls[s]
    BY <1>1, <2>1 DEF Senders, Live
  <2>7. \A m \in net, r \in Receivers' : m.born = comm'[r].born => m.epid = comm'[r].ep
    BY <1>0, <2>1, <2>4 DEF MessageInv
  <2>8. \A m \in net, s \in Senders' :
          m.born = comm'[s].born => m.n < calls'[s] /\ m.epid = comm'[s].rem_epid
    BY <1>0, <2>1, <2>6 DEF MessageInv
  <2> QED BY <1>1, <1>2, <1>m, <2>3, <2>5, <2>7, <2>8 DEF MessageInv
<1>5. ASSUME NEW c \in Comm, NEW rec \in CommRec, NEW h \in handles, Connected(c, rec, h)
      PROVE  MessageInv'
  <2>1. /\ comm'[c] = rec /\ \A d \in Comm \ {c} : comm'[d] = comm[d]
        /\ Receivers' = Receivers /\ Senders' = Senders \cup {c}
        /\ c \notin Receivers /\ c \notin Senders
        /\ Receivers \subseteq Comm /\ Senders \subseteq Comm
    BY <1>0, <1>5, ConnectedEffect
  <2>2. /\ rec.born = h.born /\ handles' = handles \ {h} /\ next_tag' = next_tag
    BY <1>5 DEF Connected
  <2>3. \A m \in net : m.born # rec.born
    BY <1>0, <2>2 DEF MessageInv
  <2>4. \A s \in Senders : comm'[s] = comm[s] /\ calls'[s] = calls[s]
    BY <1>1, <2>1 DEF Senders, Live
  <2>5. \A m \in net, s \in Senders' :
          m.born = comm'[s].born => m.n < calls'[s] /\ m.epid = comm'[s].rem_epid
    BY <1>0, <2>1, <2>3, <2>4 DEF MessageInv
  <2>6. \A m \in net, r \in Receivers' : m.born = comm'[r].born => m.epid = comm'[r].ep
    BY <1>0, <2>1 DEF MessageInv
  <2>7. \A m \in net, g \in handles' : g.born # m.born
    BY <1>0, <2>2 DEF MessageInv
  <2> QED BY <1>1, <1>2, <1>m, <2>2, <2>5, <2>6, <2>7 DEF MessageInv
<1>6. ASSUME NEW c \in Comm, Closed(c)
      PROVE  MessageInv'
  <2>1. /\ \A d \in Comm \ {c} : comm'[d] = comm[d]
        /\ Receivers' = Receivers \ {c} /\ Senders' = Senders \ {c}
        /\ Receivers \subseteq Comm /\ Senders \subseteq Comm
        /\ UNCHANGED <<handles, next_tag>>
    BY <1>0, <1>6, ClosedEffect DEF Closed
  <2>2. \A s \in Senders' : comm'[s] = comm[s] /\ calls'[s] = calls[s]
    BY <1>1, <2>1 DEF Senders, Live
  <2>3. \A m \in net, s \in Senders' :
          m.born = comm'[s].born => m.n < calls'[s] /\ m.epid = comm'[s].rem_epid
    BY <1>0, <2>1, <2>2 DEF MessageInv
  <2>4. \A m \in net, r \in Receivers' : m.born = comm'[r].born => m.epid = comm'[r].ep
    BY <1>0, <2>1 DEF MessageInv
  <2> QED BY <1>0, <1>1, <1>2, <1>m, <2>1, <2>3, <2>4 DEF MessageInv
<1> QED BY <1>0, <1>3, <1>4, <1>5, <1>6, CallKinds

\* A new receiver has posted and been sent nothing; a new sender has sent nothing.
LEMMA LifecycleKeepsOrderInv ==
  ASSUME DrainsBeforeClose, XInv, Lifecycle
  PROVE  OrderInv'
<1> SUFFICES ASSUME OrderedMq
             PROVE  \A c \in Receivers' : \E k, j \in Nat : InOrder(c, k, j)'
  BY DEF OrderInv
<1>0. /\ IInv /\ LinkInv /\ CallsInv /\ MessageInv /\ TypeOK /\ [Next]_vars
      /\ RequestInv(requests, mq, pending)
      /\ \A c \in Receivers : \E k, j \in Nat : InOrder(c, k, j)
  BY DEF XInv, Lifecycle, IInv, OrderInv
<1>1. /\ net' = net /\ mq' = mq
      /\ \A c \in Comm : comm'[c] # NULL => calls'[c] = calls[c]
  BY LifecycleEffect
<1>2. \A h \in handles : h.born = <<EpHome[h.epid], h.tag>> /\ EpHome[h.epid] \in Rank
                         /\ h.tag \in Nat /\ h.tag < next_tag[EpHome[h.epid]]
  BY <1>0, TagsCounted
<1>3. \A s \in Senders : /\ comm[s].born = <<EpHome[comm[s].rem_epid], comm[s].tag>>
                         /\ EpHome[comm[s].rem_epid] \in Rank /\ comm[s].tag \in Nat
                         /\ comm[s].tag < next_tag[EpHome[comm[s].rem_epid]]
  BY <1>0, TagsCounted
<1>4. \A r \in Receivers : /\ comm[r].born = <<Home[r], comm[r].tag>> /\ Home[r] \in Rank
                           /\ comm[r].tag \in Nat /\ comm[r].tag < next_tag[Home[r]]
  BY <1>0, TagsCounted
<1>k. ASSUME NEW r \in Receivers, r \in Receivers', r \in Comm, comm'[r] = comm[r],
             \A s \in Senders' : comm'[s].born = comm[r].born =>
               \/ s \in Senders /\ comm'[s] = comm[s] /\ calls'[s] = calls[s]
               \/ calls'[s] = 0 /\ \E h \in handles : h.born = comm[r].born,
             \A h \in handles' : h.born = comm[r].born => h \in handles
      PROVE  \E k, j \in Nat : InOrder(r, k, j)'
  <2>1. PICK k, j \in Nat : InOrder(r, k, j)
    BY <1>0
  <2>2. comm'[r] # NULL /\ calls'[r] = calls[r]
    BY <1>1, <1>k DEF Receivers, Live
  <2>3. \A s \in Senders' : comm'[s].born = comm'[r].born => j = calls'[s]
    BY <1>k, <2>1 DEF InOrder
  <2>4. \A h \in handles' : h.born = comm'[r].born => j = 0
    BY <1>k, <2>1 DEF InOrder
  <2>5. InOrder(r, k, j)'
    BY <1>1, <1>k, <2>1, <2>2, <2>3, <2>4 DEF InOrder
  <2> QED BY <2>5
<1>5. CASE Unlinked
  <2>1. Receivers' = Receivers /\ Senders' = Senders /\ UNCHANGED <<comm, handles, next_tag>>
    BY <1>5 DEF Unlinked, Receivers, Senders, Live
  <2>2. \A s \in Senders : calls'[s] = calls[s]
    BY <1>1, <2>1 DEF Senders, Live
  <2>3. Receivers \subseteq Comm
    BY DEF Receivers, Live
  <2> QED BY <1>k, <2>1, <2>2, <2>3
<1>6. ASSUME NEW c \in Comm, NEW rec \in CommRec, Listened(c, rec)
      PROVE  \A r \in Receivers' : \E k, j \in Nat : InOrder(r, k, j)'
  <2>1. /\ comm'[c] = rec /\ \A d \in Comm \ {c} : comm'[d] = comm[d]
        /\ Receivers' = Receivers \cup {c} /\ Senders' = Senders
        /\ c \notin Receivers /\ c \notin Senders
        /\ Receivers \subseteq Comm /\ Senders \subseteq Comm
    BY <1>0, <1>6, ListenedEffect
  <2>2. /\ Home[c] \in Rank /\ comm[c] = NULL /\ rec # NULL
        /\ rec.born = <<Home[c], next_tag[Home[c]]>> /\ next_tag[Home[c]] \in Nat
        /\ handles' = handles \cup {HandleOf(rec)} /\ HandleOf(rec).born = rec.born
    BY <1>0, <1>6, ConstAssumption DEF Listened, Created, HandleOf, TypeOK
  <2>3. /\ \A s \in Senders : comm[s].born # rec.born
        /\ \A r \in Receivers : comm[r].born # rec.born
        /\ \A m \in net : m.born # rec.born
    <3>1. \A m \in net : /\ m.tag \in Nat /\ EpHome[m.epid] \in Rank
                         /\ m.tag < next_tag[EpHome[m.epid]]
                         /\ m.born = <<EpHome[m.epid], m.tag>>
      BY <1>0, ConstAssumption DEF MessageInv, Message
    <3> QED BY <1>3, <1>4, <2>2, <3>1
  <2>4. \A s \in Senders : comm'[s] = comm[s] /\ calls'[s] = calls[s]
    BY <1>1, <2>1 DEF Senders, Live
  <2>5. \A r \in Receivers : \E k, j \in Nat : InOrder(r, k, j)'
    BY <1>k, <2>1, <2>2, <2>3, <2>4
  <2>6. InOrder(c, 0, 0)'
    <3>1. calls'[c] = 0
      BY <1>0, <1>1, <2>1, <2>2 DEF CallsInv
    <3>2. \A o \in mq : o.ctx[1] # c
      BY <1>0, <2>2, OpsAreOfRequests
    <3>3. \A s \in Senders' : comm'[s].born # comm'[c].born
      BY <2>1, <2>3, <2>4
    <3>4. \A n \in Nat : ~(0 <= n /\ n < 0)
      OBVIOUS
    <3> QED BY <1>1, <2>1, <2>3, <3>1, <3>2, <3>3, <3>4 DEF InOrder
  <2> QED BY <2>1, <2>5, <2>6
<1>7. ASSUME NEW c \in Comm, NEW rec \in CommRec, NEW h \in handles, Connected(c, rec, h)
      PROVE  \A r \in Receivers' : \E k, j \in Nat : InOrder(r, k, j)'
  <2>1. /\ comm'[c] = rec /\ \A d \in Comm \ {c} : comm'[d] = comm[d]
        /\ Receivers' = Receivers /\ Senders' = Senders \cup {c}
        /\ c \notin Receivers /\ c \notin Senders
        /\ Receivers \subseteq Comm /\ Senders \subseteq Comm
    BY <1>0, <1>7, ConnectedEffect
  <2>2. /\ comm[c] = NULL /\ rec # NULL
        /\ rec.born = h.born /\ handles' = handles \ {h}
    BY <1>7, ConstAssumption DEF Connected, Created
  <2>3. calls'[c] = 0
    BY <1>0, <1>1, <2>1, <2>2 DEF CallsInv
  <2>4. \A s \in Senders : comm'[s] = comm[s] /\ calls'[s] = calls[s]
    BY <1>1, <2>1 DEF Senders, Live
  <2> QED BY <1>k, <2>1, <2>2, <2>3, <2>4
<1>8. ASSUME NEW c \in Comm, Closed(c)
      PROVE  \A r \in Receivers' : \E k, j \in Nat : InOrder(r, k, j)'
  <2>1. /\ \A d \in Comm \ {c} : comm'[d] = comm[d]
        /\ Receivers' = Receivers \ {c} /\ Senders' = Senders \ {c}
        /\ Receivers \subseteq Comm /\ Senders \subseteq Comm
        /\ UNCHANGED <<handles, next_tag>>
    BY <1>0, <1>8, ClosedEffect DEF Closed
  <2>2. \A s \in Senders' : comm'[s] = comm[s] /\ calls'[s] = calls[s]
    BY <1>1, <2>1 DEF Senders, Live
  <2> QED BY <1>k, <2>1, <2>2
<1> QED BY <1>0, <1>5, <1>6, <1>7, <1>8, CallKinds
-------------------------------------------------------------------------------
(* get_req, and what a call that posts an operation does.                  *)

\* The first free slot is a free slot.
LEMMA GetReqIsFree ==
  ASSUME NEW c \in Comm, FreeSlots(c) # {}
  PROVE  GetReq(c) \in FreeSlots(c)
<1> DEFINE Less == OpToRel(<, Nat)
<1>1. FreeSlots(c) \subseteq Nat
  BY TransferAssumption DEF FreeSlots, Slot
<1>2. IsWellFoundedOn(Less, Nat)
  BY NatLessThanWellFounded
<1>3. \A x, y \in Nat : x < y => <<x, y>> \in Less
  BY DEF OpToRel
<1> HIDE DEF Less
<1>4. \E s \in FreeSlots(c) : \A t \in FreeSlots(c) : ~(<<t, s>> \in Less)
  BY <1>1, <1>2, WFMin
<1>5. PICK s \in FreeSlots(c) : \A t \in FreeSlots(c) : ~(<<t, s>> \in Less)
  BY <1>4
<1>6. \A t \in FreeSlots(c) : ~(t < s)
  BY <1>1, <1>3, <1>5, Zenon
<1>7. \A t \in FreeSlots(c) : s <= t
  BY <1>1, <1>6
<1> QED BY <1>7 DEF GetReq

\* What the invariant says of a slot in use.
LEMMA UsedRequest ==
  ASSUME NEW rs, NEW ops, NEW wanted, RequestInv(rs, ops, wanted),
         NEW c \in Comm, NEW s \in Slot, rs[c][s] # NULL
  PROVE  /\ rs[c][s] \in ReqRec /\ comm[c] # NULL /\ RequestOK(c, rs[c][s])
         /\ <<c, s>> \in wanted
<1>1. rs[c][s] \in ReqRec \cup {NULL}
  BY DEF RequestInv
<1> QED BY <1>1 DEF RequestInv

\* A call that posts an operation keeps requests and operations paired.
LEMMA PostKeepsRequestInv ==
  ASSUME XInv, NEW c \in Comm, NEW s \in Slot, NEW type, NEW msg \in Message \cup {NULL},
         Posts(c, s, type, msg), comm[c] # NULL,
         type = IF comm[c].rem_epid = NULL THEN "ReqRecv" ELSE "ReqSend",
         type = "ReqRecv" => msg = NULL
  PROVE  RequestInv(requests, mq, pending)' /\ CallsInv'
<1>0. /\ TypeOK /\ CallsInv /\ RequestInv(requests, mq, pending)
      /\ calls[c] \in Nat /\ comm' = comm
  BY DEF XInv, IInv, CallsInv, Posts, vars
<1>2. type \in {"ReqSend", "ReqRecv"}
  OBVIOUS
<1>3. PICK q \in ReqRec : q = NewReq(type, calls[c])
  BY <1>0, <1>2 DEF NewReq, ReqRec
<1>q. /\ q # NULL /\ q.done = 0 /\ q.type = type /\ q.n = calls[c]
      /\ q.msg = NULL /\ q.recv_size = 0
  BY <1>3, NoRecordIsNull DEF NewReq
<1>4. PICK o \in Op : o = [ctx |-> Context(c, s), ep |-> comm[c].ep, type |-> type,
                          tag |-> comm[c].tag, n |-> calls[c], complete |-> FALSE,
                          msg |-> msg]
  <2>1. comm[c] \in CommRec
    BY <1>0 DEF TypeOK
  <2> QED BY <1>0, <1>2, <2>1 DEF Op, Request, Context, CommRec
<1>o. /\ o.ctx = <<c, s>> /\ o.ep = comm[c].ep /\ o.type = type
      /\ o.tag = comm[c].tag /\ o.n = calls[c] /\ o.complete = FALSE /\ o.msg = msg
      /\ o.ctx[1] = c /\ o.ctx[2] = s
  BY <1>4 DEF Context
<1>1. /\ requests[c][s] = NULL
      /\ requests' = [requests EXCEPT ![c][s] = q]
      /\ mq' = mq \cup {o}
      /\ calls' = [calls EXCEPT ![c] = @ + 1]
      /\ pending' = pending \cup {<<c, s>>}
  BY <1>3, <1>4, GetReqIsFree DEF Posts, FreeSlots
<1>5. /\ requests'[c][s] = q
      /\ \A d \in Comm, t \in Slot : <<d, t>> # <<c, s>> => requests'[d][t] = requests[d][t]
      /\ requests' \in [Comm -> [Slot -> ReqRec \cup {NULL}]]
  BY <1>0, <1>1, <1>q DEF RequestInv
<1>6. /\ calls' \in [Comm -> Nat] /\ calls'[c] = calls[c] + 1
      /\ \A d \in Comm \ {c} : calls'[d] = calls[d]
  BY <1>0, <1>1 DEF CallsInv
<1>7. CallsInv'
  BY <1>0, <1>6 DEF CallsInv
<1>8. \A d \in Comm, t \in Slot :
        requests[d][t] # NULL => comm[d] # NULL /\ RequestOK(d, requests[d][t])'
  <2> SUFFICES ASSUME NEW d \in Comm, NEW t \in Slot, requests[d][t] # NULL
               PROVE  comm[d] # NULL /\ RequestOK(d, requests[d][t])'
    OBVIOUS
  <2>1. comm[d] # NULL /\ RequestOK(d, requests[d][t]) /\ requests[d][t] \in ReqRec
    BY <1>0, UsedRequest
  <2>2. <<d, t>> # <<c, s>> /\ requests'[d][t] = requests[d][t]
    BY <1>1, <1>5
  <2>3. requests[d][t].n \in Nat /\ calls[d] \in Nat
    BY <1>0, <2>1 DEF ReqRec, CallsInv
  <2>4. requests[d][t].n < calls'[d]
    BY <1>6, <2>1, <2>3 DEF RequestOK
  <2> QED BY <1>0, <2>1, <2>2, <2>4 DEF RequestOK
<1>9. RequestOK(c, q)'
  BY <1>0, <1>q, <1>6, NoRecordIsNull DEF RequestOK
<1>10. \A d \in Comm, t \in Slot :
         /\ requests'[d][t] # NULL <=> <<d, t>> \in pending'
         /\ requests'[d][t] # NULL => comm'[d] # NULL /\ RequestOK(d, requests[d][t])'
         /\ requests'[d][t] # NULL /\ requests'[d][t].done = 0 => \E x \in mq' : x.ctx = <<d, t>>
  <2> SUFFICES ASSUME NEW d \in Comm, NEW t \in Slot
               PROVE
         /\ requests'[d][t] # NULL <=> <<d, t>> \in pending'
         /\ requests'[d][t] # NULL => comm'[d] # NULL /\ RequestOK(d, requests[d][t])'
         /\ requests'[d][t] # NULL /\ requests'[d][t].done = 0 => \E x \in mq' : x.ctx = <<d, t>>
    OBVIOUS
  <2>1. CASE <<d, t>> = <<c, s>>
    <3>1. d = c /\ t = s
      BY <2>1
    <3>2. RequestOK(d, requests[d][t])'
      BY <1>5, <1>9, <3>1 DEF RequestOK
    <3> QED BY <1>0, <1>1, <1>q, <1>o, <1>5, <3>1, <3>2
  <2>2. CASE <<d, t>> # <<c, s>>
    <3>1. requests'[d][t] = requests[d][t]
      BY <1>5, <2>2
    <3>2. requests[d][t] # NULL <=> <<d, t>> \in pending'
      BY <1>0, <1>1, <2>2 DEF RequestInv
    <3>3. requests[d][t] # NULL /\ requests[d][t].done = 0 => \E x \in mq' : x.ctx = <<d, t>>
      <4>1. requests[d][t] # NULL /\ requests[d][t].done = 0 => \E x \in mq : x.ctx = <<d, t>>
        BY <1>0 DEF RequestInv
      <4>2. mq \subseteq mq'
        BY <1>1
      <4> QED BY <4>1, <4>2
    <3> QED BY <1>0, <1>8, <3>1, <3>2, <3>3
  <2> QED BY <2>1, <2>2
<1>11. \A d \in Comm, t, u \in Slot :
         requests'[d][t] # NULL /\ requests'[d][u] # NULL /\ requests'[d][t].n = requests'[d][u].n
           => t = u
  <2>1. \A d \in Comm, t \in Slot : requests[d][t] # NULL =>
          requests[d][t].n \in Nat /\ requests[d][t].n < calls[d]
    BY <1>0, UsedRequest DEF RequestOK, ReqRec
  <2>2. \A t \in Slot : requests[c][t] # NULL => requests[c][t].n # calls[c]
    BY <1>0, <2>1
  <2>3. \A d \in Comm, t, u \in Slot :
          requests[d][t] # NULL /\ requests[d][u] # NULL /\ requests[d][t].n = requests[d][u].n
            => t = u
    BY <1>0 DEF RequestInv
  <2>4. \A t, u \in Slot :
          requests'[c][t] # NULL /\ requests'[c][u] # NULL /\ requests'[c][t].n = requests'[c][u].n
            => t = u
    <3> SUFFICES ASSUME NEW t \in Slot, NEW u \in Slot, requests'[c][t] # NULL,
                        requests'[c][u] # NULL, requests'[c][t].n = requests'[c][u].n
                 PROVE  t = u
      OBVIOUS
    <3>1. CASE t = s
      BY <1>q, <1>5, <2>2, <3>1
    <3>2. CASE u = s
      BY <1>q, <1>5, <2>2, <3>2
    <3>3. CASE t # s /\ u # s
      BY <1>5, <2>3, <3>3
    <3> QED BY <3>1, <3>2, <3>3
  <2>5. \A d \in Comm : d # c => \A t \in Slot : requests'[d][t] = requests[d][t]
    BY <1>5
  <2> QED BY <2>3, <2>4, <2>5
<1>12. \A x \in mq : /\ x.ctx # <<c, s>> /\ x.ctx = <<x.ctx[1], x.ctx[2]>>
                     /\ x.ctx[1] \in Comm /\ x.ctx[2] \in Slot
                     /\ OpOK(x, x.ctx[1], requests[x.ctx[1]][x.ctx[2]])
  <2> SUFFICES ASSUME NEW x \in mq
               PROVE  /\ x.ctx # <<c, s>> /\ x.ctx = <<x.ctx[1], x.ctx[2]>>
                      /\ x.ctx[1] \in Comm /\ x.ctx[2] \in Slot
                      /\ OpOK(x, x.ctx[1], requests[x.ctx[1]][x.ctx[2]])
    OBVIOUS
  <2>1. <<c, s>> \notin pending
    BY <1>0, <1>1 DEF RequestInv
  <2> QED BY <1>0, <2>1, OpsAreOfRequests
<1>13. \A x \in mq' : OpOK(x, x.ctx[1], requests[x.ctx[1]][x.ctx[2]])'
  <2>1. \A x \in mq : OpOK(x, x.ctx[1], requests[x.ctx[1]][x.ctx[2]])'
    <3> SUFFICES ASSUME NEW x \in mq
                 PROVE  OpOK(x, x.ctx[1], requests[x.ctx[1]][x.ctx[2]])'
      OBVIOUS
    <3>1. requests'[x.ctx[1]][x.ctx[2]] = requests[x.ctx[1]][x.ctx[2]]
      BY <1>5, <1>12
    <3> QED BY <1>0, <1>12, <3>1 DEF OpOK
  <2>2. OpOK(o, o.ctx[1], requests[o.ctx[1]][o.ctx[2]])'
    BY <1>0, <1>q, <1>o, <1>5, ConstAssumption DEF OpOK
  <2> QED BY <1>1, <2>1, <2>2
<1>14. \A o1, o2 \in mq' : o1.ctx = o2.ctx => o1 = o2
  <2>1. \A o1, o2 \in mq : o1.ctx = o2.ctx => o1 = o2
    BY <1>0 DEF RequestInv
  <2> QED BY <1>1, <1>o, <1>12, <2>1
<1>15. mq' \in SUBSET Op /\ pending' \in SUBSET Request
  BY <1>0, <1>1, <1>o DEF RequestInv, Request
<1> QED BY <1>5, <1>7, <1>10, <1>11, <1>13, <1>14, <1>15 DEF RequestInv

\* Sending, receiving and testing leave the communicators alone.
LEMMA CommsUntouched ==
  ASSUME XInv, UNCHANGED vars
  PROVE  IInv' /\ RoleInv' /\ LinkInv' /\ Receivers' = Receivers /\ Senders' = Senders
<1>1. IInv /\ RoleInv /\ LinkInv /\ [Next]_vars
  BY DEF XInv
<1>2. UNCHANGED <<comm, held, handles, next_tag>>
  BY DEF vars
<1>3. Receivers' = Receivers /\ Senders' = Senders
  BY <1>2 DEF Receivers, Senders, Live
<1> QED BY <1>1, <1>3, NextKeepsIInv, CallKeepsRoleInv, CallKeepsLinkInv

\* isend puts the next message of its link on the fabric.
LEMMA IsendKeepsXInv ==
  ASSUME XInv, NEW c \in Comm, Isend(c)
  PROVE  XInv'
<1>0. /\ IInv /\ TypeOK /\ RoleInv /\ LinkInv /\ CallsInv /\ MessageInv /\ OrderInv
      /\ RequestInv(requests, mq, pending) /\ test \in [done : {0, 1}, size : Nat \cup {NULL}]
  BY DEF XInv, IInv
<1>1. comm[c] # NULL /\ comm[c].rem_epid # NULL /\ c \in Senders
  BY <1>0 DEF Isend, IInv, HeldLive, RoleInv, Senders, Live
<1>2. /\ comm[c].rem_epid \in Ep /\ EpHome[comm[c].rem_epid] \in Rank /\ comm[c].tag \in Nat
      /\ comm[c].born = <<EpHome[comm[c].rem_epid], comm[c].tag>>
      /\ comm[c].tag < next_tag[EpHome[comm[c].rem_epid]]
  BY <1>0, <1>1, TagsCounted
<1>3. PICK m \in Message : m = [epid |-> comm[c].rem_epid, tag |-> comm[c].tag,
                                born |-> comm[c].born, n |-> calls[c]]
  <2>1. comm[c].born \in Rank \X Nat
    BY <1>0, <1>1 DEF TypeOK, CommRec
  <2> QED BY <1>0, <1>2, <2>1 DEF Message, CallsInv
<1>m. /\ m.epid = comm[c].rem_epid /\ m.tag = comm[c].tag
      /\ m.born = comm[c].born /\ m.n = calls[c]
  BY <1>3
<1>4. PICK s \in Slot : Posts(c, s, "ReqSend", m) /\ net' = net \cup {m}
  BY <1>3 DEF Isend
<1>5. /\ IInv' /\ RoleInv' /\ LinkInv' /\ Receivers' = Receivers /\ Senders' = Senders
      /\ UNCHANGED <<comm, handles, next_tag, test>>
  BY <1>4, CommsUntouched DEF Posts, vars
<1>6. CallsInv' /\ RequestInv(requests, mq, pending)'
  BY <1>1, <1>4, PostKeepsRequestInv
<1>7. /\ calls[c] \in Nat /\ calls'[c] = calls[c] + 1
      /\ \A d \in Comm : d # c => calls'[d] = calls[d]
  BY <1>0, <1>4 DEF Posts, CallsInv
<1>8. /\ Senders \subseteq Comm /\ Receivers \subseteq Comm /\ c \notin Receivers
      /\ \A d \in Senders : comm[d].born = comm[c].born => d = c
      /\ \A h \in handles : h.born # comm[c].born
  BY <1>0, <1>1 DEF LinkInv, Senders, Receivers, Live
<1>9. MessageInv'
  <2>1. net' \in SUBSET Message
    BY <1>0, <1>4 DEF MessageInv
  <2>2. \A x \in net : x.born = comm[c].born => x.n < calls[c]
    BY <1>0, <1>1 DEF MessageInv
  <2>3. \A m1, m2 \in net' : m1.born = m2.born /\ m1.n = m2.n => m1 = m2
    <3>1. \A m1 \in net : m1.born = m.born => m1.n # m.n
      <4>1. \A x \in net : x.n \in Nat
        BY <1>0 DEF MessageInv, Message
      <4> QED BY <1>m, <1>7, <2>2, <4>1
    <3> QED BY <1>0, <1>4, <3>1 DEF MessageInv
  <2>4. \A x \in net' :
          /\ x.born = <<EpHome[x.epid], x.tag>>
          /\ x.tag < next_tag[EpHome[x.epid]]
          /\ \A h \in handles : h.born # x.born
          /\ \A d \in Senders : x.born = comm[d].born => x.epid = comm[d].rem_epid
          /\ \A r \in Receivers : x.born = comm[r].born => x.epid = comm[r].ep
    <3>1. /\ m.born = <<EpHome[m.epid], m.tag>>
          /\ m.tag < next_tag[EpHome[m.epid]]
          /\ \A h \in handles : h.born # m.born
          /\ \A d \in Senders : m.born = comm[d].born => m.epid = comm[d].rem_epid
      BY <1>2, <1>m, <1>8
    <3>2. \A r \in Receivers : m.born = comm[r].born => m.epid = comm[r].ep
      BY <1>0, <1>1, <1>m DEF LinkInv
    <3> QED BY <1>0, <1>4, <3>1, <3>2 DEF MessageInv
  <2>5. \A x \in net', d \in Senders : x.born = comm[d].born => x.n < calls'[d]
    <3>1. \A d \in Senders : m.born = comm[d].born => m.n < calls'[d]
      BY <1>m, <1>7, <1>8
    <3>2. \A x \in net, d \in Senders : x.born = comm[d].born => x.n < calls'[d]
      <4> SUFFICES ASSUME NEW x \in net, NEW d \in Senders, x.born = comm[d].born
                   PROVE  x.n < calls'[d]
        OBVIOUS
      <4>1. x.n < calls[d] /\ x.n \in Nat /\ calls[d] \in Nat
        BY <1>0, <1>8 DEF MessageInv, CallsInv, Message
      <4> QED BY <1>7, <1>8, <4>1
    <3> QED BY <1>4, <3>1, <3>2
  <2> QED BY <1>5, <2>1, <2>3, <2>4, <2>5 DEF MessageInv
<1>10. OrderInv'
  <2> SUFFICES ASSUME OrderedMq, NEW r \in Receivers
               PROVE  \E k, j \in Nat : InOrder(r, k, j)'
    BY <1>5 DEF OrderInv
  <2>1. PICK k, j \in Nat : InOrder(r, k, j)
    BY <1>0 DEF OrderInv
  <2>2. r \in Comm /\ r # c /\ calls'[r] = calls[r]
    BY <1>7, <1>8
  <2>3. \A n \in Nat :
          (\E o \in mq' : o.ctx[1] = r /\ ~o.complete /\ o.n = n) <=> k <= n /\ n < calls'[r]
    <3> DEFINE o == [ctx |-> Context(c, s), ep |-> comm[c].ep, type |-> "ReqSend",
                     tag |-> comm[c].tag, n |-> calls[c], complete |-> FALSE, msg |-> m]
    <3>1. mq' = mq \cup {o} /\ o.ctx[1] = c
      BY <1>4 DEF Posts, Context
    <3> QED BY <2>1, <2>2, <3>1 DEF InOrder
  <2>4. CASE comm[r].born = comm[c].born
    <3>1. j = calls[c]
      BY <1>1, <2>1, <2>4 DEF InOrder
    <3>2. \A n \in Nat :
            (\E x \in net' : x.born = comm[r].born /\ x.n = n) <=> k <= n /\ n < j + 1
      BY <1>m, <1>4, <2>1, <2>4, <3>1 DEF InOrder
    <3>3. \A d \in Senders : comm[d].born = comm[r].born => j + 1 = calls'[d]
      BY <1>7, <1>8, <2>4, <3>1
    <3>4. InOrder(r, k, j + 1)'
      BY <1>5, <1>8, <2>1, <2>2, <2>3, <2>4, <3>2, <3>3 DEF InOrder
    <3> QED BY <3>4
  <2>5. CASE comm[r].born # comm[c].born
    <3>1. \A n \in Nat :
            (\E x \in net' : x.born = comm[r].born /\ x.n = n) <=> k <= n /\ n < j
      BY <1>m, <1>4, <2>1, <2>5 DEF InOrder
    <3>2. \A d \in Senders : comm[d].born = comm[r].born => j = calls'[d]
      BY <1>7, <1>8, <2>1, <2>5 DEF InOrder
    <3>3. InOrder(r, k, j)'
      BY <1>5, <2>1, <2>2, <2>3, <3>1, <3>2 DEF InOrder
    <3> QED BY <3>3
  <2> QED BY <2>4, <2>5
<1> QED BY <1>0, <1>5, <1>6, <1>9, <1>10 DEF XInv

\* irecv takes the next number of its communicator.
LEMMA IrecvKeepsXInv ==
  ASSUME XInv, NEW c \in Comm, Irecv(c)
  PROVE  XInv'
<1>0. /\ IInv /\ TypeOK /\ RoleInv /\ LinkInv /\ CallsInv /\ MessageInv /\ OrderInv
      /\ RequestInv(requests, mq, pending) /\ test \in [done : {0, 1}, size : Nat \cup {NULL}]
  BY DEF XInv, IInv
<1>1. comm[c] # NULL /\ comm[c].rem_epid = NULL /\ c \in Receivers
  BY <1>0 DEF Irecv, IInv, HeldLive, RoleInv, Receivers, Live
<1>2. PICK s \in Slot : Posts(c, s, "ReqRecv", NULL) /\ net' = net
  BY DEF Irecv
<1>3. /\ IInv' /\ RoleInv' /\ LinkInv' /\ Receivers' = Receivers /\ Senders' = Senders
      /\ UNCHANGED <<comm, handles, next_tag, test>>
  BY <1>2, CommsUntouched DEF Posts, vars
<1>4. CallsInv' /\ RequestInv(requests, mq, pending)'
  BY <1>1, <1>2, PostKeepsRequestInv
<1>5. /\ calls[c] \in Nat /\ calls'[c] = calls[c] + 1
      /\ \A d \in Comm : d # c => calls'[d] = calls[d]
  BY <1>0, <1>2 DEF Posts, CallsInv
<1>6. Senders \subseteq Comm /\ Receivers \subseteq Comm /\ c \notin Senders
  BY <1>1 DEF Senders, Receivers, Live
<1>7. \A d \in Senders : calls'[d] = calls[d]
  BY <1>5, <1>6
<1>8. MessageInv'
  BY <1>0, <1>2, <1>3, <1>7 DEF MessageInv
<1> DEFINE o == [ctx |-> Context(c, s), ep |-> comm[c].ep, type |-> "ReqRecv",
                 tag |-> comm[c].tag, n |-> calls[c], complete |-> FALSE, msg |-> NULL]
<1>9. /\ mq' = mq \cup {o}
      /\ o.ctx[1] = c /\ o.complete = FALSE /\ o.n = calls[c]
  BY <1>2 DEF Posts, Context
<1> HIDE DEF o
<1>10. OrderInv'
  <2> SUFFICES ASSUME OrderedMq, NEW r \in Receivers
               PROVE  \E k, j \in Nat : InOrder(r, k, j)'
    BY <1>3 DEF OrderInv
  <2>1. PICK k, j \in Nat : InOrder(r, k, j)
    BY <1>0 DEF OrderInv
  <2>2. k <= calls'[r] /\ calls[r] \in Nat /\ r \in Comm
    <3>1. k <= calls[r] /\ r \in Comm /\ calls[r] \in Nat
      BY <1>0, <1>6, <2>1 DEF InOrder, CallsInv
    <3> QED BY <1>5, <3>1
  <2>3. \A n \in Nat :
          (\E x \in mq' : x.ctx[1] = r /\ ~x.complete /\ x.n = n) <=> k <= n /\ n < calls'[r]
    <3> SUFFICES ASSUME NEW n \in Nat
                 PROVE  (\E x \in mq' : x.ctx[1] = r /\ ~x.complete /\ x.n = n)
                          <=> k <= n /\ n < calls'[r]
      OBVIOUS
    <3>1. (\E x \in mq : x.ctx[1] = r /\ ~x.complete /\ x.n = n) <=> k <= n /\ n < calls[r]
      BY <2>1 DEF InOrder
    <3>2. CASE r = c
      <4>1. k <= calls[c]
        BY <2>1, <3>2 DEF InOrder
      <4> QED BY <1>5, <1>9, <3>1, <3>2, <4>1
    <3>3. CASE r # c
      BY <1>5, <1>9, <2>2, <3>1, <3>3
    <3> QED BY <3>2, <3>3
  <2>4. InOrder(r, k, j)'
    BY <1>2, <1>3, <1>7, <2>1, <2>2, <2>3 DEF InOrder
  <2> QED BY <2>4
<1> QED BY <1>0, <1>3, <1>4, <1>8, <1>10 DEF XInv
-------------------------------------------------------------------------------
(* mq_progress_loop and put_req.                                           *)

\* A completed operation marks the request it was posted for.
LEMMA MarkedRequest ==
  ASSUME NEW c \in Comm, NEW q \in ReqRec, NEW o \in Op,
         RequestOK(c, q), OpOK(o, c, q), o.complete
  PROVE  /\ Marked(q, o) \in ReqRec /\ Marked(q, o) # NULL
         /\ Marked(q, o).done = 1 /\ Marked(q, o).n = q.n /\ Marked(q, o).type = q.type
         /\ RequestOK(c, Marked(q, o))
<1>1. Marked(q, o).done = 1 /\ Marked(q, o).n = q.n /\ Marked(q, o).type = q.type
  BY DEF Marked, Received, ReqRec
<1>2. CASE q.type = "ReqRecv"
  <2>1. /\ o.type = "ReqRecv" /\ o.msg # NULL /\ o.msg \in Message
        /\ o.msg.born = comm[c].born /\ (OrderedMq => o.msg.n = q.n)
    BY <1>2 DEF OpOK, Op
  <2>2. o.msg.n \in Nat /\ NBytes(o.msg.n) \in Nat
    BY <2>1, TransferAssumption DEF Message, NBytes, DataSize
  <2>3. /\ Marked(q, o) = [q EXCEPT !.done = 1, !.recv_size = NBytes(o.msg.n), !.msg = o.msg]
        /\ Marked(q, o) \in ReqRec
    BY <1>2, <2>1, <2>2 DEF Marked, Received, ReqRec
  <2>4. Marked(q, o).recv_size = NBytes(o.msg.n) /\ Marked(q, o).msg = o.msg
    BY <2>3 DEF ReqRec
  <2> QED BY <1>1, <1>2, <2>1, <2>3, <2>4, NoRecordIsNull DEF RequestOK
<1>3. CASE q.type # "ReqRecv"
  <2>1. Marked(q, o) = [q EXCEPT !.done = 1] /\ Marked(q, o) \in ReqRec
    BY <1>3 DEF Marked, ReqRec
  <2>2. Marked(q, o).msg = q.msg /\ q.msg = NULL
    BY <1>3, <2>1 DEF ReqRec, RequestOK
  <2> QED BY <1>1, <1>3, <2>1, <2>2, NoRecordIsNull DEF RequestOK
<1> QED BY <1>2, <1>3

\* What a pass of the loop does: it marks the requests of the operations it
\* retires, each by its own operation, and no other.
LEMMA AfterProgressEffect ==
  ASSUME RequestInv(requests, mq, pending), NEW R \in SUBSET mq
  PROVE  /\ AfterProgress(R) = [c \in Comm |-> [s \in Slot |-> AfterProgress(R)[c][s]]]
         /\ \A o \in R : AfterProgress(R)[o.ctx[1]][o.ctx[2]]
                           = Marked(requests[o.ctx[1]][o.ctx[2]], o)
         /\ \A c \in Comm, s \in Slot :
              (\A o \in R : o.ctx # <<c, s>>) => AfterProgress(R)[c][s] = requests[c][s]
<1>1. \A c \in Comm, s \in Slot :
        AfterProgress(R)[c][s] =
          IF \E o \in R : o.ctx = <<c, s>>
            THEN Marked(requests[c][s], CHOOSE o \in R : o.ctx = <<c, s>>)
            ELSE requests[c][s]
  BY DEF AfterProgress
<1>2. AfterProgress(R) = [c \in Comm |-> [s \in Slot |-> AfterProgress(R)[c][s]]]
  <2> DEFINE G(c, s) == IF \E o \in R : o.ctx = <<c, s>>
                          THEN Marked(requests[c][s], CHOOSE o \in R : o.ctx = <<c, s>>)
                          ELSE requests[c][s]
  <2>1. AfterProgress(R) = [c \in Comm |-> [s \in Slot |-> G(c, s)]]
    BY DEF AfterProgress
  <2> HIDE DEF G
  <2> QED BY <2>1
<1>3. ASSUME NEW o \in R
      PROVE  AfterProgress(R)[o.ctx[1]][o.ctx[2]] = Marked(requests[o.ctx[1]][o.ctx[2]], o)
  <2>1. PICK c \in Comm, s \in Slot : c = o.ctx[1] /\ s = o.ctx[2] /\ o.ctx = <<c, s>>
    BY OpsAreOfRequests
  <2>2. \A x \in R : x.ctx = o.ctx => x = o
    BY DEF RequestInv
  <2>3. (CHOOSE x \in R : x.ctx = <<c, s>>) = o
    BY <2>1, <2>2
  <2>4. AfterProgress(R)[c][s] = Marked(requests[c][s], o)
    BY <1>1, <2>1, <2>3
  <2> QED BY <2>1, <2>4
<1> QED BY <1>1, <1>2, <1>3

\* Every request a pass leaves is a good one, of the number it had; those not done
\* were not retired.
LEMMA AfterProgressSlots ==
  ASSUME RequestInv(requests, mq, pending),
         NEW R \in SUBSET mq, \A o \in R : o.complete,
         NEW c \in Comm, NEW s \in Slot, NEW after, after = AfterProgress(R)
  PROVE  /\ after[c][s] \in ReqRec \cup {NULL}
         /\ after[c][s] # NULL <=> requests[c][s] # NULL
         /\ after[c][s] # NULL => /\ comm[c] # NULL /\ RequestOK(c, after[c][s])
                                  /\ after[c][s].n = requests[c][s].n
         /\ after[c][s] # NULL /\ after[c][s].done = 0 => \A o \in R : o.ctx # <<c, s>>
<1>1. /\ \A o \in R : after[o.ctx[1]][o.ctx[2]] = Marked(requests[o.ctx[1]][o.ctx[2]], o)
      /\ (\A o \in R : o.ctx # <<c, s>>) => after[c][s] = requests[c][s]
  BY AfterProgressEffect
<1>2. requests[c][s] \in ReqRec \cup {NULL}
  BY DEF RequestInv
<1>3. CASE \A o \in R : o.ctx # <<c, s>>
  <2>1. after[c][s] = requests[c][s]
    BY <1>1, <1>3
  <2>2. requests[c][s] # NULL => comm[c] # NULL /\ RequestOK(c, requests[c][s])
    BY DEF RequestInv
  <2> QED BY <1>2, <1>3, <2>1, <2>2
<1>4. ASSUME NEW o \in R, o.ctx = <<c, s>>
      PROVE  /\ after[c][s] \in ReqRec /\ after[c][s] # NULL /\ requests[c][s] # NULL
             /\ comm[c] # NULL /\ RequestOK(c, after[c][s])
             /\ after[c][s].n = requests[c][s].n /\ after[c][s].done = 1
  <2>1. o.ctx[1] = c /\ o.ctx[2] = s
    BY <1>4
  <2>2. /\ o \in Op /\ comm[c] # NULL /\ o.complete
        /\ OpOK(o, c, requests[c][s]) /\ RequestOK(c, requests[c][s])
    BY <2>1, OpsAreOfRequests
  <2>3. requests[c][s] # NULL /\ requests[c][s] \in ReqRec
    BY <1>2, <2>2 DEF OpOK
  <2>4. after[c][s] = Marked(requests[c][s], o)
    BY <1>1, <2>1
  <2> QED BY <2>2, <2>3, <2>4, MarkedRequest
<1> QED BY <1>3, <1>4

\* Retiring completed operations keeps requests and operations paired.
LEMMA ProgressKeepsRequestInv ==
  ASSUME RequestInv(requests, mq, pending),
         NEW R \in SUBSET mq, \A o \in R : o.complete
  PROVE  RequestInv(AfterProgress(R), mq \ R, pending)
<1> DEFINE after == AfterProgress(R)
<1>1. /\ after = [c \in Comm |-> [s \in Slot |-> after[c][s]]]
      /\ \A o \in R : after[o.ctx[1]][o.ctx[2]] = Marked(requests[o.ctx[1]][o.ctx[2]], o)
      /\ \A c \in Comm, s \in Slot :
           (\A o \in R : o.ctx # <<c, s>>) => after[c][s] = requests[c][s]
  BY AfterProgressEffect
<1>2. \A c \in Comm, s \in Slot :
        /\ after[c][s] \in ReqRec \cup {NULL}
        /\ after[c][s] # NULL <=> requests[c][s] # NULL
        /\ after[c][s] # NULL => /\ comm[c] # NULL /\ RequestOK(c, after[c][s])
                                 /\ after[c][s].n = requests[c][s].n
        /\ after[c][s] # NULL /\ after[c][s].done = 0 => \A o \in R : o.ctx # <<c, s>>
  BY AfterProgressSlots
<1> HIDE DEF after
<1>3. after \in [Comm -> [Slot -> ReqRec \cup {NULL}]]
  BY <1>1, <1>2
<1>4. mq \ R \in SUBSET Op /\ pending \in SUBSET Request
  BY DEF RequestInv
<1>5. \A c \in Comm, s \in Slot :
        /\ after[c][s] # NULL <=> <<c, s>> \in pending
        /\ after[c][s] # NULL /\ after[c][s].done = 0 => \E o \in mq \ R : o.ctx = <<c, s>>
  <2> SUFFICES ASSUME NEW c \in Comm, NEW s \in Slot
               PROVE
        /\ after[c][s] # NULL <=> <<c, s>> \in pending
        /\ after[c][s] # NULL /\ after[c][s].done = 0 => \E o \in mq \ R : o.ctx = <<c, s>>
    OBVIOUS
  <2>1. after[c][s] # NULL <=> <<c, s>> \in pending
    BY <1>2 DEF RequestInv
  <2>2. ASSUME after[c][s] # NULL, after[c][s].done = 0
        PROVE  \E o \in mq \ R : o.ctx = <<c, s>>
    <3>1. \A o \in R : o.ctx # <<c, s>>
      BY <1>2, <2>2
    <3>2. after[c][s] = requests[c][s]
      BY <1>1, <3>1
    <3>3. PICK o \in mq : o.ctx = <<c, s>>
      BY <2>2, <3>2 DEF RequestInv
    <3>4. o \notin R
      BY <3>1, <3>3
    <3> QED BY <3>3, <3>4
  <2> QED BY <2>1, <2>2
<1>6. \A c \in Comm, s, t \in Slot :
        after[c][s] # NULL /\ after[c][t] # NULL /\ after[c][s].n = after[c][t].n => s = t
  BY <1>2 DEF RequestInv
<1>7. \A o \in mq \ R : OpOK(o, o.ctx[1], after[o.ctx[1]][o.ctx[2]])
  <2> SUFFICES ASSUME NEW o \in mq \ R
               PROVE  OpOK(o, o.ctx[1], after[o.ctx[1]][o.ctx[2]])
    OBVIOUS
  <2>1. /\ o.ctx = <<o.ctx[1], o.ctx[2]>> /\ o.ctx[1] \in Comm /\ o.ctx[2] \in Slot
        /\ OpOK(o, o.ctx[1], requests[o.ctx[1]][o.ctx[2]])
    BY OpsAreOfRequests
  <2>2. \A x \in R : x.ctx # o.ctx
    BY DEF RequestInv
  <2>3. after[o.ctx[1]][o.ctx[2]] = requests[o.ctx[1]][o.ctx[2]]
    <3>1. \A x \in R : x.ctx # <<o.ctx[1], o.ctx[2]>>
      BY <2>1, <2>2
    <3> QED BY <1>1, <2>1, <3>1
  <2> QED BY <2>1, <2>3
<1>8. \A o1, o2 \in mq \ R : o1.ctx = o2.ctx => o1 = o2
  BY DEF RequestInv
<1>9. RequestInv(after, mq \ R, pending)
  BY <1>2, <1>3, <1>4, <1>5, <1>6, <1>7, <1>8 DEF RequestInv
<1> QED BY <1>9 DEF after

\* Putting a request back that is done, and that NCCL is told of, keeps them paired.
LEMMA PutKeepsRequestInv ==
  ASSUME NEW rs, NEW ops, NEW wanted, RequestInv(rs, ops, wanted),
         NEW c \in Comm, NEW s \in Slot, rs[c][s] # NULL, rs[c][s].done = 1
  PROVE  RequestInv(PutReq(rs, c, s), ops, wanted \ {<<c, s>>})
<1> DEFINE back == PutReq(rs, c, s)
<1>1. /\ back \in [Comm -> [Slot -> ReqRec \cup {NULL}]]
      /\ back[c][s] = NULL
      /\ \A d \in Comm, t \in Slot : <<d, t>> # <<c, s>> => back[d][t] = rs[d][t]
  BY DEF PutReq, RequestInv
<1> HIDE DEF back
<1>2. \A d \in Comm, t \in Slot :
        /\ back[d][t] # NULL <=> <<d, t>> \in wanted \ {<<c, s>>}
        /\ back[d][t] # NULL => comm[d] # NULL /\ RequestOK(d, back[d][t])
        /\ back[d][t] # NULL /\ back[d][t].done = 0 => \E o \in ops : o.ctx = <<d, t>>
  <2> SUFFICES ASSUME NEW d \in Comm, NEW t \in Slot
               PROVE
        /\ back[d][t] # NULL <=> <<d, t>> \in wanted \ {<<c, s>>}
        /\ back[d][t] # NULL => comm[d] # NULL /\ RequestOK(d, back[d][t])
        /\ back[d][t] # NULL /\ back[d][t].done = 0 => \E o \in ops : o.ctx = <<d, t>>
    OBVIOUS
  <2>1. CASE <<d, t>> = <<c, s>>
    <3>1. d = c /\ t = s
      BY <2>1
    <3> QED BY <1>1, <3>1
  <2>2. CASE <<d, t>> # <<c, s>>
    <3>1. back[d][t] = rs[d][t]
      BY <1>1, <2>2
    <3>2. /\ rs[d][t] # NULL <=> <<d, t>> \in wanted
          /\ rs[d][t] # NULL => comm[d] # NULL /\ RequestOK(d, rs[d][t])
          /\ rs[d][t] # NULL /\ rs[d][t].done = 0 => \E o \in ops : o.ctx = <<d, t>>
      BY DEF RequestInv
    <3> QED BY <2>2, <3>1, <3>2
  <2> QED BY <2>1, <2>2
<1>3. \A d \in Comm, t, u \in Slot :
        back[d][t] # NULL /\ back[d][u] # NULL /\ back[d][t].n = back[d][u].n => t = u
  <2> SUFFICES ASSUME NEW d \in Comm, NEW t \in Slot, NEW u \in Slot, back[d][t] # NULL,
                      back[d][u] # NULL, back[d][t].n = back[d][u].n
               PROVE  t = u
    OBVIOUS
  <2>1. <<d, t>> # <<c, s>> /\ <<d, u>> # <<c, s>>
    BY <1>1
  <2>2. back[d][t] = rs[d][t] /\ back[d][u] = rs[d][u]
    BY <1>1, <2>1
  <2> QED BY <2>2 DEF RequestInv
<1>4. \A o \in ops : OpOK(o, o.ctx[1], back[o.ctx[1]][o.ctx[2]])
  <2> SUFFICES ASSUME NEW o \in ops
               PROVE  OpOK(o, o.ctx[1], back[o.ctx[1]][o.ctx[2]])
    OBVIOUS
  <2>1. OpOK(o, o.ctx[1], rs[o.ctx[1]][o.ctx[2]])
    BY DEF RequestInv
  <2>2. o.ctx[1] \in Comm /\ o.ctx[2] \in Slot
    BY DEF RequestInv, Op, Request
  <2>3. rs[o.ctx[1]][o.ctx[2]].done = 0
    BY <2>1 DEF OpOK
  <2>4. <<o.ctx[1], o.ctx[2]>> # <<c, s>>
    BY <2>3
  <2>5. back[o.ctx[1]][o.ctx[2]] = rs[o.ctx[1]][o.ctx[2]]
    BY <1>1, <2>2, <2>4
  <2> QED BY <2>1, <2>5
<1>5. RequestInv(back, ops, wanted \ {<<c, s>>})
  BY <1>1, <1>2, <1>3, <1>4 DEF RequestInv
<1> QED BY <1>5 DEF back
-------------------------------------------------------------------------------
(* The steps that complete operations and retire them.                     *)

\* RequestInv speaks of the next state what it says of its values, if the
\* communicators and their counters stay.
LEMMA RequestInvNext ==
  ASSUME NEW rs, NEW ops, NEW wanted, RequestInv(rs, ops, wanted),
         requests' = rs, mq' = ops, pending' = wanted, UNCHANGED <<comm, calls>>
  PROVE  RequestInv(requests, mq, pending)'
<1>1. /\ \A c \in Comm, s \in Slot : RequestOK(c, rs[c][s]) => RequestOK(c, requests[c][s])'
      /\ \A o \in ops : OpOK(o, o.ctx[1], rs[o.ctx[1]][o.ctx[2]])
                          => OpOK(o, o.ctx[1], requests[o.ctx[1]][o.ctx[2]])'
  BY DEF RequestOK, OpOK
<1> QED BY <1>1 DEF RequestInv

\* A step that only completes or retires operations, none of them a receive that
\* waits for a message.
LEMMA CompletionKeepsTheRest ==
  ASSUME XInv, UNCHANGED <<vars, net, calls>>,
         \A c \in Receivers, n \in Nat :
           (\E o \in mq' : o.ctx[1] = c /\ ~o.complete /\ o.n = n)
             <=> (\E o \in mq : o.ctx[1] = c /\ ~o.complete /\ o.n = n)
  PROVE  IInv' /\ RoleInv' /\ LinkInv' /\ CallsInv' /\ MessageInv' /\ OrderInv'
<1>1. /\ IInv' /\ RoleInv' /\ LinkInv' /\ Receivers' = Receivers /\ Senders' = Senders
      /\ UNCHANGED <<comm, handles, next_tag>>
  BY CommsUntouched DEF vars
<1>2. CallsInv'
  BY <1>1 DEF XInv, CallsInv
<1>3. MessageInv'
  BY <1>1 DEF XInv, MessageInv
<1>4. OrderInv'
  <2> SUFFICES ASSUME OrderedMq, NEW c \in Receivers
               PROVE  \E k, j \in Nat : InOrder(c, k, j)'
    BY <1>1 DEF OrderInv
  <2>1. PICK k, j \in Nat : InOrder(c, k, j)
    BY DEF XInv, OrderInv
  <2>2. InOrder(c, k, j)'
    BY <1>1, <2>1 DEF InOrder
  <2> QED BY <2>2
<1> QED BY <1>1, <1>2, <1>3, <1>4

\* A pass of the loop that retires R, whatever test then does with its request.
LEMMA ProgressKeepsTheRest ==
  ASSUME XInv, UNCHANGED <<vars, net, calls>>, NEW e, NEW R, Progress(e, R)
  PROVE  /\ RequestInv(AfterProgress(R), mq', pending)
         /\ IInv' /\ RoleInv' /\ LinkInv' /\ CallsInv' /\ MessageInv' /\ OrderInv'
<1>1. R \in SUBSET mq /\ (\A o \in R : o.complete) /\ mq' = mq \ R
  BY DEF Progress, Completed
<1>2. RequestInv(AfterProgress(R), mq', pending)
  BY <1>1, ProgressKeepsRequestInv DEF XInv
<1> QED BY <1>1, <1>2, CompletionKeepsTheRest

\* test, whether or not the request turns out done.
LEMMA TestKeepsXInv ==
  ASSUME XInv, NEW c \in Comm, NEW s \in Slot, Test(c, s)
  PROVE  XInv'
<1> DEFINE R == Completed(comm[c].ep)
           after == AfterProgress(R)
<1>1. /\ requests[c][s] # NULL /\ Progress(comm[c].ep, R)
      /\ UNCHANGED <<vars, net, calls>>
  BY DEF Test
<1>2. /\ RequestInv(after, mq', pending)
      /\ IInv' /\ RoleInv' /\ LinkInv' /\ CallsInv' /\ MessageInv' /\ OrderInv'
  BY <1>1, ProgressKeepsTheRest
<1>3. after[c][s] # NULL /\ after[c][s] \in ReqRec
  <2>1. <<c, s>> \in pending
    BY DEF Test
  <2>2. after[c][s] # NULL
    BY <1>2, <2>1 DEF RequestInv
  <2> QED BY <1>2, <2>2, UsedRequest
<1>4. \/ /\ after[c][s].done = 1
         /\ requests' = PutReq(after, c, s)
         /\ pending' = pending \ {<<c, s>>}
         /\ test' = Done(after[c][s])
      \/ requests' = after /\ pending' = pending /\ test' = NotDone
  BY DEF Test
<1> HIDE DEF after
<1>5. UNCHANGED <<comm, calls>>
  BY <1>1 DEF vars
<1>6. RequestInv(requests, mq, pending)'
  <2>1. CASE requests' = after /\ pending' = pending
    BY <1>2, <1>5, <2>1, RequestInvNext
  <2>2. CASE /\ after[c][s].done = 1 /\ requests' = PutReq(after, c, s)
             /\ pending' = pending \ {<<c, s>>}
    <3>1. RequestInv(PutReq(after, c, s), mq', pending \ {<<c, s>>})
      BY <1>2, <1>3, <2>2, PutKeepsRequestInv
    <3> QED BY <1>5, <2>2, <3>1, RequestInvNext
  <2> QED BY <1>4, <2>1, <2>2
<1>7. (test \in [done : {0, 1}, size : Nat \cup {NULL}])'
  BY <1>3, <1>4 DEF Done, NotDone, ReqRec
<1> QED BY <1>2, <1>6, <1>7 DEF XInv

\* A call that changes nothing but test's result.
LEMMA IdleKeepsXInv ==
  ASSUME XInv, UNCHANGED <<vars, requests, mq, net, calls, pending>>,
         test' \in {test, NotDone}
  PROVE  XInv'
<1>1. IInv' /\ RoleInv' /\ LinkInv' /\ CallsInv' /\ MessageInv' /\ OrderInv'
  BY CompletionKeepsTheRest
<1>2. RequestInv(requests, mq, pending)'
  BY RequestInvNext DEF XInv, vars
<1>3. (test \in [done : {0, 1}, size : Nat \cup {NULL}])'
  BY DEF XInv, NotDone
<1> QED BY <1>1, <1>2, <1>3 DEF XInv

\* An operation in its MQ gets a new value, for the same request.
LEMMA CompleteKeepsRequestInv ==
  ASSUME RequestInv(requests, mq, pending), NEW o \in mq, NEW d \in Op, d.ctx = o.ctx,
         OpOK(d, o.ctx[1], requests[o.ctx[1]][o.ctx[2]])
  PROVE  RequestInv(requests, (mq \ {o}) \cup {d}, pending)
<1> DEFINE ops == (mq \ {o}) \cup {d}
<1>1. ops \in SUBSET Op
  BY DEF RequestInv
<1>2. \A c \in Comm, s \in Slot :
        requests[c][s] # NULL /\ requests[c][s].done = 0 => \E x \in ops : x.ctx = <<c, s>>
  <2> SUFFICES ASSUME NEW c \in Comm, NEW s \in Slot,
                      requests[c][s] # NULL, requests[c][s].done = 0
               PROVE  \E x \in ops : x.ctx = <<c, s>>
    OBVIOUS
  <2>1. PICK x \in mq : x.ctx = <<c, s>>
    BY DEF RequestInv
  <2> QED BY <2>1
<1>3. \A x \in ops : OpOK(x, x.ctx[1], requests[x.ctx[1]][x.ctx[2]])
  BY DEF RequestInv
<1>4. \A o1, o2 \in ops : o1.ctx = o2.ctx => o1 = o2
  BY DEF RequestInv
<1> QED BY <1>1, <1>2, <1>3, <1>4 DEF RequestInv

\* PSM2 completes a send.
LEMMA SendCompletesKeepsXInv ==
  ASSUME XInv, NEW o \in mq, SendCompletes(o)
  PROVE  XInv'
<1>1. RequestInv(requests, mq, pending) /\ UNCHANGED <<comm, calls, test>>
  BY DEF XInv, SendCompletes, vars
<1>2. /\ o \in Op /\ o.ctx[1] \in Comm /\ o.ctx[2] \in Slot
      /\ OpOK(o, o.ctx[1], requests[o.ctx[1]][o.ctx[2]])
      /\ RequestOK(o.ctx[1], requests[o.ctx[1]][o.ctx[2]])
  BY <1>1, OpsAreOfRequests
<1>3. PICK d \in Op : d = [o EXCEPT !.complete = TRUE]
  BY <1>2 DEF Op
<1>4. /\ d.ctx = o.ctx /\ d.ep = o.ep /\ d.type = o.type /\ d.tag = o.tag /\ d.n = o.n
      /\ d.msg = o.msg /\ d.complete = TRUE
  BY <1>2, <1>3 DEF Op
<1>5. o.type = "ReqSend" /\ mq' = (mq \ {o}) \cup {d}
  BY <1>3 DEF SendCompletes
<1>6. RequestInv(requests, mq', pending)
  <2>1. OpOK(d, o.ctx[1], requests[o.ctx[1]][o.ctx[2]])
    BY <1>2, <1>4, <1>5 DEF OpOK
  <2> QED BY <1>1, <1>4, <1>5, <2>1, CompleteKeepsRequestInv
<1>7. RequestInv(requests, mq, pending)'
  BY <1>1, <1>6, RequestInvNext DEF SendCompletes
<1>8. o.ctx[1] \notin Receivers
  BY <1>2, <1>5 DEF OpOK, RequestOK, Receivers
<1>9. IInv' /\ RoleInv' /\ LinkInv' /\ CallsInv' /\ MessageInv' /\ OrderInv'
  <2>1. \A c \in Receivers, n \in Nat :
          (\E x \in mq' : x.ctx[1] = c /\ ~x.complete /\ x.n = n)
            <=> (\E x \in mq : x.ctx[1] = c /\ ~x.complete /\ x.n = n)
    BY <1>4, <1>5, <1>8
  <2> QED BY <2>1, CompletionKeepsTheRest DEF SendCompletes
<1> QED BY <1>1, <1>7, <1>9 DEF XInv

\* Who may meet: a receive that waits and a message it is matched with are of one
\* link, and, if the MQ is ordered, have one number, the first on either side.
LEMMA MatchMeets ==
  ASSUME XInv, NEW o \in mq, NEW m \in net, Match(o, m)
  PROVE  LET c == o.ctx[1]
         IN  /\ c \in Receivers /\ o.type = "ReqRecv" /\ ~o.complete
             /\ m.born = comm[c].born
             /\ OrderedMq => /\ m.n = o.n
                             /\ \E j \in Nat : InOrder(c, o.n, j) /\ o.n < j
                                               /\ o.n < calls[c]
<1>1. /\ RequestInv(requests, mq, pending) /\ IInv /\ LinkInv /\ TypeOK /\ CallsInv
      /\ MessageInv /\ OrderInv
  BY DEF XInv, IInv
<1>2. PICK c \in Comm : c = o.ctx[1]
  BY <1>1, OpsAreOfRequests
<1>3. /\ o.type = "ReqRecv" /\ ~o.complete /\ o.ep = m.epid /\ o.tag = m.tag
  BY DEF Match, SameQueue, TagSelected
<1>4. \A x \in mq : x.ctx[1] \in Receivers =>
        /\ x.type = "ReqRecv" /\ x.ep = comm[x.ctx[1]].ep /\ x.tag = comm[x.ctx[1]].tag
  <2> SUFFICES ASSUME NEW x \in mq, x.ctx[1] \in Receivers
               PROVE  /\ x.type = "ReqRecv" /\ x.ep = comm[x.ctx[1]].ep
                      /\ x.tag = comm[x.ctx[1]].tag
    OBVIOUS
  <2>1. /\ OpOK(x, x.ctx[1], requests[x.ctx[1]][x.ctx[2]])
        /\ RequestOK(x.ctx[1], requests[x.ctx[1]][x.ctx[2]])
    BY <1>1, OpsAreOfRequests
  <2> QED BY <2>1 DEF OpOK, RequestOK, Receivers
<1>5. c \in Receivers
  <2>1. /\ OpOK(o, c, requests[c][o.ctx[2]]) /\ comm[c] # NULL
        /\ RequestOK(c, requests[c][o.ctx[2]])
    BY <1>1, <1>2, OpsAreOfRequests
  <2> QED BY <1>3, <2>1 DEF OpOK, RequestOK, Receivers, Live
<1>6. /\ comm[c].born = <<Home[c], comm[c].tag>> /\ EpHome[comm[c].ep] = Home[c]
      /\ o.ep = comm[c].ep /\ o.tag = comm[c].tag
  BY <1>1, <1>2, <1>4, <1>5, TagsCounted
<1>7. m.born = comm[c].born
  <2>1. m.born = <<EpHome[m.epid], m.tag>>
    BY <1>1 DEF MessageInv
  <2> QED BY <1>3, <1>6, <2>1
<1>8. ASSUME OrderedMq
      PROVE  /\ m.n = o.n
             /\ \E j \in Nat : InOrder(c, o.n, j) /\ o.n < j /\ o.n < calls[c]
  <2>0. /\ \A x \in mq : SameQueue(x, m) => o.n <= x.n
        /\ \A x \in net : SameQueue(o, x) => m.n <= x.n
    BY <1>8 DEF Match
  <2>1. PICK k, j \in Nat : InOrder(c, k, j)
    BY <1>1, <1>5, <1>8 DEF OrderInv
  <2>2. o.n \in Nat /\ m.n \in Nat /\ calls[c] \in Nat
    BY <1>1 DEF RequestInv, Op, MessageInv, Message, CallsInv
  <2>3. /\ k <= o.n /\ o.n < calls[c]
        /\ \E x \in mq : x.ctx[1] = c /\ ~x.complete /\ x.n = k
    <3>1. k <= o.n /\ o.n < calls[c]
      BY <1>2, <1>3, <2>1, <2>2 DEF InOrder
    <3>2. k <= k /\ k < calls[c]
      BY <2>2, <3>1
    <3> QED BY <2>1, <3>1, <3>2 DEF InOrder
  <2>4. o.n = k
    <3>1. PICK x \in mq : x.ctx[1] = c /\ ~x.complete /\ x.n = k
      BY <2>3
    <3>2. SameQueue(x, m)
      BY <1>3, <1>4, <1>5, <1>6, <3>1 DEF SameQueue, TagSelected
    <3> QED BY <2>0, <2>2, <2>3, <3>1, <3>2
  <2>5. /\ k <= m.n /\ m.n < j
        /\ \E y \in net : y.born = comm[c].born /\ y.n = k
    <3>1. k <= m.n /\ m.n < j
      BY <1>7, <2>1, <2>2 DEF InOrder
    <3>2. k <= k /\ k < j
      BY <2>2, <3>1
    <3> QED BY <2>1, <3>1, <3>2 DEF InOrder
  <2>6. m.n = k
    <3>1. PICK y \in net : y.born = comm[c].born /\ y.n = k
      BY <2>5
    <3>2. y.epid = comm[c].ep /\ y.born = <<EpHome[y.epid], y.tag>>
      BY <1>1, <1>5, <3>1 DEF MessageInv
    <3>3. y.tag = comm[c].tag
      BY <1>6, <3>1, <3>2
    <3>4. SameQueue(o, y)
      BY <1>3, <1>6, <3>2, <3>3 DEF SameQueue, TagSelected
    <3> QED BY <2>0, <2>2, <2>5, <3>1, <3>4
  <2> QED BY <2>1, <2>2, <2>3, <2>4, <2>5, <2>6
<1> QED BY <1>2, <1>3, <1>5, <1>7, <1>8

\* PSM2 matches a receive and a message.
LEMMA MatchKeepsXInv ==
  ASSUME XInv, NEW o \in mq, NEW m \in net, Match(o, m)
  PROVE  XInv'
<1>1. /\ RequestInv(requests, mq, pending) /\ IInv /\ CallsInv /\ MessageInv /\ OrderInv
      /\ UNCHANGED <<vars, comm, calls, test, requests, pending>>
  BY DEF XInv, Match, vars
<1>2. PICK c \in Comm : c = o.ctx[1]
  BY <1>1, OpsAreOfRequests
<1>3. /\ c \in Receivers /\ o.type = "ReqRecv" /\ ~o.complete
      /\ m.born = comm[c].born
      /\ OrderedMq => /\ m.n = o.n
                      /\ \E j \in Nat : InOrder(c, o.n, j) /\ o.n < j /\ o.n < calls[c]
  BY <1>2, MatchMeets
<1>4. /\ o \in Op /\ m \in Message
      /\ OpOK(o, c, requests[c][o.ctx[2]])
  BY <1>1, <1>2, OpsAreOfRequests DEF MessageInv
<1>5. PICK d \in Op : d = [o EXCEPT !.complete = TRUE, !.msg = m]
  BY <1>4 DEF Op
<1>6. /\ d.ctx = o.ctx /\ d.ep = o.ep /\ d.type = o.type /\ d.tag = o.tag /\ d.n = o.n
      /\ d.msg = m /\ d.complete = TRUE
  BY <1>4, <1>5 DEF Op
<1>7. mq' = (mq \ {o}) \cup {d} /\ net' = net \ {m}
  BY <1>5 DEF Match
<1>8. RequestInv(requests, mq, pending)'
  <2>1. OpOK(d, c, requests[c][o.ctx[2]])
    BY <1>3, <1>4, <1>6, NoRecordIsNull DEF OpOK
  <2>2. RequestInv(requests, mq', pending)
    BY <1>1, <1>2, <1>6, <1>7, <2>1, CompleteKeepsRequestInv
  <2> QED BY <1>1, <2>2, RequestInvNext
<1>9. /\ IInv' /\ RoleInv' /\ LinkInv' /\ Receivers' = Receivers /\ Senders' = Senders
      /\ UNCHANGED <<comm, handles, next_tag>>
  BY <1>1, CommsUntouched DEF vars
<1>10. CallsInv'
  BY <1>1, <1>9 DEF CallsInv
<1>11. MessageInv'
  BY <1>1, <1>7, <1>9 DEF MessageInv
<1>12. ASSUME OrderedMq, NEW r \in Receivers
       PROVE  \E k, j \in Nat : InOrder(r, k, j)'
  <2>1. CASE r = c
    <3>1. PICK j \in Nat : InOrder(c, o.n, j) /\ o.n < j /\ o.n < calls[c]
      BY <1>3, <1>12
    <3>2. /\ o.n \in Nat /\ calls[c] \in Nat /\ m.n = o.n
          /\ \A x \in mq : x.n \in Nat
          /\ \A x \in net : x.n \in Nat
      BY <1>1, <1>3, <1>4, <1>12 DEF Op, CallsInv, RequestInv, MessageInv, Message
    <3>3. \A x \in mq : x.ctx[1] = c /\ x.n = o.n => x = o
      <4> SUFFICES ASSUME NEW x \in mq, x.ctx[1] = c, x.n = o.n
                   PROVE  x = o
        OBVIOUS
      <4>1. /\ x.ctx = <<c, x.ctx[2]>> /\ x.ctx[2] \in Slot
            /\ OpOK(x, c, requests[c][x.ctx[2]])
        BY <1>1, OpsAreOfRequests
      <4>2. o.ctx = <<c, o.ctx[2]>> /\ o.ctx[2] \in Slot
        BY <1>1, <1>2, OpsAreOfRequests
      <4>3. x.ctx[2] = o.ctx[2]
        <5>1. /\ requests[c][x.ctx[2]] # NULL /\ requests[c][o.ctx[2]] # NULL
              /\ requests[c][x.ctx[2]].n = requests[c][o.ctx[2]].n
          BY <1>4, <4>1 DEF OpOK
        <5> QED BY <1>1, <4>1, <4>2, <5>1 DEF RequestInv
      <4> QED BY <1>1, <4>1, <4>2, <4>3 DEF RequestInv
    <3>4. \A x \in net : x.born = comm[c].born /\ x.n = o.n => x = m
      BY <1>1, <1>3, <3>2 DEF MessageInv
    <3>5. \A n \in Nat :
            (\E x \in mq' : x.ctx[1] = c /\ ~x.complete /\ x.n = n)
              <=> o.n + 1 <= n /\ n < calls[c]
      <4> SUFFICES ASSUME NEW n \in Nat
                   PROVE  (\E x \in mq' : x.ctx[1] = c /\ ~x.complete /\ x.n = n)
                            <=> o.n + 1 <= n /\ n < calls[c]
        OBVIOUS
      <4>1. (\E x \in mq : x.ctx[1] = c /\ ~x.complete /\ x.n = n)
              <=> o.n <= n /\ n < calls[c]
        BY <3>1 DEF InOrder
      <4>2. (\E x \in mq' : x.ctx[1] = c /\ ~x.complete /\ x.n = n)
              <=> n # o.n /\ \E x \in mq : x.ctx[1] = c /\ ~x.complete /\ x.n = n
        BY <1>6, <1>7, <3>3
      <4> QED BY <3>2, <4>1, <4>2
    <3>6. \A n \in Nat :
            (\E x \in net' : x.born = comm[c].born /\ x.n = n) <=> o.n + 1 <= n /\ n < j
      <4> SUFFICES ASSUME NEW n \in Nat
                   PROVE  (\E x \in net' : x.born = comm[c].born /\ x.n = n)
                            <=> o.n + 1 <= n /\ n < j
        OBVIOUS
      <4>1. (\E x \in net : x.born = comm[c].born /\ x.n = n) <=> o.n <= n /\ n < j
        BY <3>1 DEF InOrder
      <4>2. (\E x \in net' : x.born = comm[c].born /\ x.n = n)
              <=> n # o.n /\ \E x \in net : x.born = comm[c].born /\ x.n = n
        BY <1>3, <1>7, <3>2, <3>4
      <4> QED BY <3>2, <4>1, <4>2
    <3>7. o.n + 1 <= calls[c] /\ o.n + 1 <= j /\ o.n + 1 \in Nat
      BY <3>1, <3>2
    <3>8. InOrder(c, o.n + 1, j)'
      BY <1>1, <1>9, <3>1, <3>5, <3>6, <3>7 DEF InOrder
    <3> QED BY <2>1, <3>7, <3>8
  <2>2. CASE r # c
    <3>1. comm[r].born # comm[c].born
      <4>1. /\ comm[r].born = <<Home[r], comm[r].tag>>
            /\ comm[c].born = <<Home[c], comm[c].tag>>
        BY <1>1, <1>3 DEF IInv, TagInv
      <4> QED BY <1>1, <1>3, <2>2, <4>1 DEF IInv, TagInv
    <3>2. PICK k, j \in Nat : InOrder(r, k, j)
      BY <1>1, <1>12 DEF OrderInv
    <3>3. \A n \in Nat :
            (\E x \in mq' : x.ctx[1] = r /\ ~x.complete /\ x.n = n)
              <=> (\E x \in mq : x.ctx[1] = r /\ ~x.complete /\ x.n = n)
      BY <1>2, <1>6, <1>7, <2>2
    <3>4. \A n \in Nat :
            (\E x \in net' : x.born = comm[r].born /\ x.n = n)
              <=> (\E x \in net : x.born = comm[r].born /\ x.n = n)
      BY <1>3, <1>7, <3>1
    <3>5. InOrder(r, k, j)'
      BY <1>1, <1>9, <3>2, <3>3, <3>4 DEF InOrder
    <3> QED BY <3>5
  <2> QED BY <2>1, <2>2
<1>13. OrderInv'
  BY <1>9, <1>12 DEF OrderInv
<1> QED BY <1>1, <1>8, <1>9, <1>10, <1>11, <1>13 DEF XInv
-------------------------------------------------------------------------------
(* XInv is invariant, and says what the runs check.                        *)

\* Before the first call there is nothing to relate.
LEMMA XferInitXInv ==
  ASSUME XferInit
  PROVE  XInv
<1>1. Init /\ IInv
  BY InitIInv DEF XferInit
<1>2. /\ \A c \in Comm : comm[c] = NULL /\ held[c] = "none"
      /\ handles = {} /\ \A p \in Rank : next_tag[p] = 0
      /\ Live = {} /\ Senders = {} /\ Receivers = {}
  BY <1>1 DEF Init, Live, Senders, Receivers
<1>3. RoleInv /\ LinkInv
  BY <1>2, ConstAssumption DEF RoleInv, LinkInv
<1>4. RequestInv(requests, mq, pending)
  <2>1. /\ requests \in [Comm -> [Slot -> ReqRec \cup {NULL}]]
        /\ \A c \in Comm, s \in Slot : requests[c][s] = NULL
        /\ mq = {} /\ pending = {}
    BY DEF XferInit, NoRequests
  <2> QED BY <2>1 DEF RequestInv
<1>5. CallsInv /\ MessageInv /\ OrderInv
  BY <1>2 DEF XferInit, CallsInv, MessageInv, OrderInv
<1>6. test \in [done : {0, 1}, size : Nat \cup {NULL}]
  BY DEF XferInit
<1> QED BY <1>1, <1>3, <1>4, <1>5, <1>6 DEF XInv

\* Every step keeps XInv, if NCCL closes only communicators with no request left.
LEMMA XferNextKeepsXInv ==
  ASSUME DrainsBeforeClose, XInv, [XferNext]_xvars
  PROVE  XInv'
<1>1. CASE Lifecycle
  <2>1. IInv /\ RoleInv /\ LinkInv /\ [Next]_vars
    BY <1>1 DEF XInv, Lifecycle
  <2>2. IInv' /\ RoleInv' /\ LinkInv'
    BY <2>1, NextKeepsIInv, CallKeepsRoleInv, CallKeepsLinkInv
  <2>3. (test \in [done : {0, 1}, size : Nat \cup {NULL}])'
    BY <1>1 DEF XInv, Lifecycle
  <2> QED
    BY <1>1, <2>2, <2>3, LifecycleKeepsCallsInv, LifecycleKeepsRequestInv,
       LifecycleKeepsMessageInv, LifecycleKeepsOrderInv DEF XInv
<1>2. ASSUME NEW c \in Comm, PostRefused(c)
      PROVE  XInv'
  BY <1>2, IdleKeepsXInv DEF PostRefused, xvars, xferVars
<1>3. ASSUME NEW c \in Comm, NEW s \in Slot, TestUnused(c, s)
      PROVE  XInv'
  BY <1>3, IdleKeepsXInv DEF TestUnused
<1>4. CASE UNCHANGED xvars
  BY <1>4, IdleKeepsXInv DEF xvars, xferVars
<1> QED
  BY <1>1, <1>2, <1>3, <1>4, IsendKeepsXInv, IrecvKeepsXInv, TestKeepsXInv,
     SendCompletesKeepsXInv, MatchKeepsXInv DEF XferNext

\* With a caller that drains what it closes, the invariant always holds.
THEOREM XInvariance ==
  ASSUME DrainsBeforeClose
  PROVE  XferSpec => []XInv
  BY XferInitXInv, XferNextKeepsXInv, PTL DEF XferSpec

\* The state of requests, MQs and messages is always well-formed: XferTypeOK.
THEOREM XferTypeInvariance ==
  ASSUME DrainsBeforeClose
  PROVE  XferSpec => []XferTypeOK
<1>1. XInv => XferTypeOK
  BY DEF XInv, XferTypeOK, CallsInv, RequestInv, MessageInv
<1> QED BY <1>1, XInvariance, PTL

\* No completion that mq_progress_loop retires fails its assertions: each is of a
\* request in use, not done, of its type and on its endpoint.
THEOREM OpsMeetTheirRequestsInvariance ==
  ASSUME DrainsBeforeClose
  PROVE  XferSpec => []OpsMeetTheirRequests
<1>1. ASSUME XInv, NEW o \in mq
      PROVE  /\ MeetsItsRequest(o)
             /\ Req(o.ctx).type = o.type
             /\ comm[o.ctx[1]].ep = o.ep
  <2>1. OpOK(o, o.ctx[1], requests[o.ctx[1]][o.ctx[2]])
    BY <1>1 DEF XInv, RequestInv
  <2> QED BY <2>1 DEF OpOK, MeetsItsRequest, Req
<1>2. XInv => OpsMeetTheirRequests
  BY <1>1 DEF OpsMeetTheirRequests
<1> QED BY <1>2, XInvariance, PTL

\* A request NCCL waits for is done, or exactly one operation left will mark it.
THEOREM NoRequestStrandedInvariance ==
  ASSUME DrainsBeforeClose
  PROVE  XferSpec => []NoRequestStranded
<1>1. ASSUME XInv, NEW r \in pending
      PROVE  /\ Req(r) # NULL
             /\ Cardinality({o \in mq : o.ctx = r}) = 1 - Req(r).done
  <2> DEFINE left == {o \in mq : o.ctx = r}
  <2>1. RequestInv(requests, mq, pending)
    BY <1>1 DEF XInv
  <2>2. PICK c \in Comm, s \in Slot : r = <<c, s>>
    BY <2>1 DEF RequestInv, Request
  <2>3. Req(r) = requests[c][s] /\ Req(r) # NULL /\ Req(r) \in ReqRec
    BY <2>1, <2>2, UsedRequest DEF RequestInv, Req
  <2>4. CASE Req(r).done = 0
    <3>1. PICK o \in mq : o.ctx = r
      BY <2>1, <2>2, <2>3, <2>4 DEF RequestInv
    <3>2. left = {o}
      BY <2>1, <3>1 DEF RequestInv
    <3>3. Cardinality(left) = 1
      BY <3>2, FS_Singleton
    <3>4. 1 = 1 - Req(r).done
      BY <2>4
    <3> QED BY <2>3, <3>3, <3>4
  <2>5. CASE Req(r).done = 1
    <3>1. ASSUME NEW o \in left
          PROVE  FALSE
      <4>1. OpOK(o, o.ctx[1], requests[o.ctx[1]][o.ctx[2]])
        BY <2>1 DEF RequestInv
      <4> QED BY <2>2, <2>3, <2>5, <4>1 DEF OpOK
    <3>2. left = {}
      BY <3>1
    <3>3. Cardinality(left) = 0
      BY <3>2, FS_EmptySet
    <3>4. 0 = 1 - Req(r).done
      BY <2>5
    <3> QED BY <2>3, <3>3, <3>4
  <2> QED BY <2>3, <2>4, <2>5 DEF ReqRec
<1>2. XInv => NoRequestStranded
  BY <1>1 DEF NoRequestStranded
<1> QED BY <1>2, XInvariance, PTL

\* The slots in use are those of the requests NCCL waits for.
THEOREM UsedIffPendingInvariance ==
  ASSUME DrainsBeforeClose
  PROVE  XferSpec => []UsedIffPending
<1>1. ASSUME XInv, NEW r \in Request
      PROVE  r \in Used <=> r \in pending
  <2>1. PICK c \in Comm, s \in Slot : r = <<c, s>>
    BY DEF Request
  <2>2. requests[c][s] # NULL <=> <<c, s>> \in pending
    BY <1>1 DEF XInv, RequestInv
  <2> QED BY <2>1, <2>2 DEF Used
<1>2. XInv => UsedIffPending
  <2> SUFFICES ASSUME XInv
               PROVE  Used = pending
    BY DEF UsedIffPending
  <2>1. Used \subseteq Request /\ pending \subseteq Request
    BY DEF Used, XInv, RequestInv
  <2> QED BY <1>1, <2>1
<1> QED BY <1>2, XInvariance, PTL

\* What RequestOK says of the request at an address.
LEMMA RequestOfUsed ==
  ASSUME XInv, NEW r \in Used
  PROVE  RequestOK(r[1], Req(r)) /\ Req(r) \in ReqRec /\ Req(r) # NULL
<1>1. PICK c \in Comm, s \in Slot : r = <<c, s>>
  BY DEF Used, Request
<1>2. requests[c][s] # NULL
  BY <1>1 DEF Used
<1> QED BY <1>1, <1>2, UsedRequest DEF XInv, Req

\* A receive gets messages only of the sender that connected with its handle.
THEOREM RightReceiverInvariance ==
  ASSUME DrainsBeforeClose
  PROVE  XferSpec => []RightReceiver
<1>1. XInv => RightReceiver
  BY RequestOfUsed DEF RightReceiver, RequestOK
<1> QED BY <1>1, XInvariance, PTL

\* With an MQ that matches in order, the n-th receive gets the n-th send.
THEOREM NthReceiveInvariance ==
  ASSUME DrainsBeforeClose
  PROVE  XferSpec => []NthReceiveGetsNthSend
<1>1. XInv => NthReceiveGetsNthSend
  BY RequestOfUsed DEF NthReceiveGetsNthSend, RequestOK
<1> QED BY <1>1, XInvariance, PTL

\* The size test reports with the n-th receive is that of the peer's n-th send, cut
\* to the buffer: a completion another test retired is reported the same.
THEOREM SizesAreOfNthSend ==
  ASSUME DrainsBeforeClose
  PROVE  XferSpec => SizeIsOfNthSend
<1>1. ASSUME XInv, [XferNext]_xvars, OrderedMq, NEW r \in pending \ pending',
             held[r[1]] \in {"accepted", "recv"}, comm'[r[1]] # NULL
      PROVE  test'.size = NBytes(Req(r).n)
  <2>1. PICK c \in Comm, s \in Slot : Test(c, s) /\ pending' = pending \ {<<c, s>>}
    <3>1. CASE Lifecycle
      BY <1>1, <3>1, LifecycleEffect
    <3>2. ASSUME NEW c \in Comm, Isend(c) \/ Irecv(c)
          PROVE  pending \subseteq pending'
      BY <3>2 DEF Isend, Irecv, Posts
    <3>3. ASSUME NEW c \in Comm, NEW s \in Slot,
                 PostRefused(c) \/ TestUnused(c, s)
          PROVE  pending' = pending
      BY <3>3 DEF PostRefused, TestUnused, xvars, xferVars
    <3>4. ASSUME NEW o \in mq, NEW m, SendCompletes(o) \/ Match(o, m)
          PROVE  pending' = pending
      BY <3>4 DEF SendCompletes, Match
    <3>5. ASSUME NEW c \in Comm, NEW s \in Slot, Test(c, s)
          PROVE  pending' \in {pending, pending \ {<<c, s>>}}
      BY <3>5 DEF Test
    <3> QED
      BY <1>1, <3>1, <3>2, <3>3, <3>4, <3>5 DEF XferNext, PostRefused, xvars, xferVars
  <2> DEFINE R == Completed(comm[c].ep)
             after == AfterProgress(R)
  <2>2. /\ r[1] = c /\ requests[c][s] # NULL /\ Req(r) = requests[c][s]
        /\ held[c] \in {"accepted", "recv"}
    BY <1>1, <2>1 DEF Test, Req
  <2>3. after[c][s].done = 1 /\ test' = Done(after[c][s])
    BY <1>1, <2>1 DEF Test
  <2>4. R \in SUBSET mq /\ \A o \in R : o.complete
    BY DEF Completed
  <2>5. /\ after[c][s] # NULL /\ RequestOK(c, after[c][s])
        /\ after[c][s].n = requests[c][s].n
    BY <1>1, <2>2, <2>4, AfterProgressSlots DEF XInv
  <2> HIDE DEF after
  <2>6. after[c][s].type = "ReqRecv"
    BY <1>1, <2>2, <2>5 DEF XInv, RoleInv, RequestOK
  <2>7. /\ after[c][s].msg # NULL /\ after[c][s].msg.n = after[c][s].n
        /\ after[c][s].recv_size = NBytes(after[c][s].msg.n)
    BY <1>1, <2>3, <2>5, <2>6 DEF RequestOK
  <2>8. test'.size = after[c][s].recv_size
    BY <2>3, <2>6 DEF Done
  <2> QED BY <2>2, <2>5, <2>7, <2>8
<1>2. XInv /\ [XferNext]_xvars =>
        (OrderedMq =>
           \A r \in pending \ pending' :
             held[r[1]] \in {"accepted", "recv"} /\ comm'[r[1]] # NULL
               => test'.size = NBytes(Req(r).n))
  BY <1>1
<1> QED BY <1>2, XInvariance, PTL DEF XferSpec, SizeIsOfNthSend
===============================================================================
