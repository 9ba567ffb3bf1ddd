---------------------------- MODULE CommStepsProofs ----------------------------
(***************************************************************************)
(* Proof that calls which do not overlap within a process are atomic: the  *)
(* steps of CommSteps, with the history of what each rank owned when its   *)
(* last call returned, are steps of SharedEp.                              *)
(*                                                                         *)
(* Seen is Calls with the theorems of SharedEpProofs: they hold of what    *)
(* the ranks owned when their last calls returned.                         *)
(***************************************************************************)
EXTENDS CommSteps, FiniteSetTheorems, TLAPS

Seen == INSTANCE SharedEpProofs WITH
  next_tag  <- seen.next_tag,
  shared_ep <- seen.shared_ep,
  comm      <- seen.comm,
  ep_unit   <- seen.ep_unit,
  abandoned <- seen.abandoned

-------------------------------------------------------------------------------
(* How far the state is from what was seen.                                *)

\* The endpoints of rank p are as in units, and gone are those PSM2 did not close.
EndpointsAre(p, units, gone) ==
  \A e \in Ep : EpHome[e] = p => /\ ep_unit[e] = units[e]
                                 /\ e \in abandoned <=> e \in gone

\* What rank p owns is as seen.
AsSeen(p) ==
  /\ shared_ep[p] = seen.shared_ep[p]
  /\ EndpointsAre(p, seen.ep_unit, seen.abandoned)

\* The communicator of a call after psm2comm_init_ep attached it to endpoint e.
OnEp(e, dev) == [ep |-> e, shared |-> use_shared_ep, tag |-> 0, rem_epid |-> NULL,
                 dev |-> dev, born |-> NULL]

\* shared_ep of rank p names endpoint e for a call on dev that has not counted itself yet.
Stored(p, dev, e) ==
  IF use_shared_ep = 0
    THEN seen.shared_ep[p]
    ELSE [ep |-> e,
          unit |-> IF Seen!MustOpen(p) /\ use_nccl_dev_num = 1 THEN dev
                   ELSE seen.shared_ep[p].unit,
          refcount |-> seen.shared_ep[p].refcount]

\* The call of thread t got endpoint e on unit u, and has not counted itself yet.
Uncounted(t, e, u) ==
  LET p == ThreadRank[t]  dev == frame[t].dev
  IN /\ Seen!InitEp(p, dev, e, u)
     /\ frame[t].ep = e
     /\ comm[frame[t].c] = Blank(dev)
     /\ EndpointsAre(p, Seen!UnitsAfterInit(e, u), seen.abandoned)
     /\ IF frame[t].pc = "store"
          THEN /\ use_shared_ep = 1 /\ Seen!MustOpen(p)
               /\ shared_ep[p] = seen.shared_ep[p]
          ELSE shared_ep[p] = Stored(p, dev, e)

\* The call of thread t is attached to endpoint e on unit u.
Attached(t, e, u) ==
  LET p == ThreadRank[t]  dev == frame[t].dev
  IN /\ Seen!InitEp(p, dev, e, u)
     /\ comm[frame[t].c] = OnEp(e, dev)
     /\ EndpointsAre(p, Seen!UnitsAfterInit(e, u), seen.abandoned)
     /\ shared_ep[p] = Seen!SharedAfterInit(p, dev, e)

\* psm2_ep_close of endpoint e was called, with units before.
EpClosed(t, units, e) ==
  \/ EndpointsAre(ThreadRank[t], [units EXCEPT ![e] = NULL], seen.abandoned)
  \/ /\ frame[t].failed
     /\ EndpointsAre(ThreadRank[t], units, seen.abandoned \cup {e})

\* Thread t is in psm2comm_fini, begun with shared_ep = sh and the endpoints as in
\* units, for a communicator on endpoint e whose shared_ep pointer is set iff s = 1.
InFini(t, sh, s, units, e) ==
  LET p == ThreadRank[t]  pc == frame[t].pc
  IN /\ pc # "free" => comm[frame[t].c].ep = e /\ comm[frame[t].c].shared = s
     /\ pc = "release" => shared_ep[p] = sh
     /\ pc \in {"last_check", "ep_close", "clear"} => shared_ep[p] = Released(sh, s)
     /\ pc = "free" => shared_ep[p] = SharedAfterFini(sh, s)
     /\ pc \in {"ep_close", "clear"} => ClosesEp(sh, s)
     /\ pc = "clear" => s = 1
     /\ IF pc = "clear" \/ (pc = "free" /\ ClosesEp(sh, s))
          THEN EpClosed(t, units, e)
          ELSE EndpointsAre(p, units, seen.abandoned)

FiniLabel == {"release", "last_check", "ep_close", "clear", "free"}

\* A close: the result it will return is that of its two PSM2 calls.
Closing(t) ==
  LET f == frame[t]  c == f.c  p == ThreadRank[t]
  IN /\ held[c] \in {"send", "recv", "accepted"}
     /\ comm[c] = seen.comm[c]
     /\ f.psm \in {"PSM2_OK", "PSM2_ERROR"} /\ (f.failed <=> f.psm = "PSM2_ERROR")
     /\ f.pc \in FiniLabel
     /\ InFini(t, seen.shared_ep[p], seen.comm[c].shared, seen.ep_unit, seen.comm[c].ep)

\* A listen or connect, before it has an endpoint.
Starting(t) ==
  LET f == frame[t]  p == ThreadRank[t]
  IN /\ AsSeen(p) /\ comm[f.c] = Blank(f.dev)
     /\ ~f.failed
     /\ f.pc # "unit_check" => ~Seen!UnitRefused(p, f.dev)
     /\ f.pc = "ep_open" => Seen!MustOpen(p)
     /\ f.pc = "join" => ~Seen!MustOpen(p)

\* A listen or connect that got no endpoint.
Refused(t) ==
  LET f == frame[t]  p == ThreadRank[t]
  IN /\ f.pc = "free" /\ f.failed /\ AsSeen(p)
     /\ \/ Seen!UnitRefused(p, f.dev) /\ f.psm = "PSM2_OK"
        \/ ~Seen!UnitRefused(p, f.dev) /\ Seen!MustOpen(p) /\ f.psm = "PSM2_ERROR"

\* A listen or connect that failed after it was attached.
BailingOut(t) ==
  LET f == frame[t]  p == ThreadRank[t]
  IN /\ f.pc \in FiniLabel
     /\ f.failed /\ f.psm # "PSM2_OK" /\ (f.op = "listen" => f.psm = "PSM2_ERROR")
     /\ \E e \in Ep, u \in Dev :
          /\ Seen!InitEp(p, f.dev, e, u)
          /\ InFini(t, Seen!SharedAfterInit(p, f.dev, e), use_shared_ep,
                    Seen!UnitsAfterInit(e, u), e)

\* What there is of a listen or connect at each label.
Stage(t) ==
  LET f == frame[t]
  IN CASE f.pc \in {"unit_check", "user_check", "ep_open", "join"} -> Starting(t)
       [] f.pc \in {"store", "attach"} ->
            ~f.failed /\ \E e \in Ep, u \in Dev : Uncounted(t, e, u)
       [] f.pc \in {"mq_init", "tag", "ep_connect"} ->
            /\ ~f.failed /\ \E e \in Ep, u \in Dev : Attached(t, e, u)
            /\ f.pc = "tag" => f.op = "listen"
            /\ f.pc = "ep_connect" => f.op = "connect"
       [] OTHER -> Refused(t) \/ BailingOut(t)

\* A listen or connect: its communicator and handle are nobody else's.
Opening(t) ==
  /\ held[frame[t].c] = "none" /\ seen.comm[frame[t].c] = NULL
  /\ frame[t].op = "listen" => TagsLeft(ThreadRank[t])
  /\ frame[t].op = "connect" => frame[t].h \in handles
  /\ Stage(t)

\* The call of thread t touches one communicator, of its own process.
CallOK(t) ==
  /\ Home[frame[t].c] = ThreadRank[t]
  /\ \A d \in Comm \ {frame[t].c} : Home[d] = ThreadRank[t] => comm[d] = seen.comm[d]
  /\ IF frame[t].op = "close" THEN Closing(t) ELSE Opening(t)

CallInv == \A t \in Thread : frame[t] # NULL => CallOK(t)

\* Rank p owns what was seen.
Idle(p) == AsSeen(p) /\ \A c \in Comm : Home[c] = p => comm[c] = seen.comm[c]

\* A rank with no call in progress owns what was seen.
IdleInv == \A p \in Rank : Running(p) = {} => Idle(p)

\* The calls of a process do not overlap, nor do the connects with one handle.
OneCallInv ==
  /\ \A p \in Rank : \A t1, t2 \in Running(p) : t1 = t2
  /\ \A t1, t2 \in Thread :
       /\ frame[t1] # NULL /\ frame[t1].op = "connect"
       /\ frame[t2] # NULL /\ frame[t2].op = "connect"
       /\ frame[t1].h = frame[t2].h
       => t1 = t2

\* The type of what is in the middle of a call.
PartsOK ==
  /\ StepsTypeOK
  /\ \A t \in Thread : frame[t] # NULL /\ frame[t].op = "connect" => frame[t].h \in Handle
  /\ ep_unit \in [Ep -> Dev \cup {NULL}]
  /\ abandoned \in SUBSET Ep
  /\ comm = [c \in Comm |-> comm[c]]
  /\ next_tag = seen.next_tag

StepsInv ==
  /\ PartsOK
  /\ Seen!IInv
  /\ OneCallInv
  /\ IdleInv
  /\ CallInv

-------------------------------------------------------------------------------
(* Seen, Calls and SharedEp.                                               *)

\* The constants meet the assumptions of SharedEp under the names of the instance.
LEMMA SeenAssumption ==
  /\ Seen!IsFiniteSet(Comm)
  /\ Home \in [Comm -> Rank]
  /\ EpHome \in [Ep -> Rank]
  /\ Dev \subseteq Seen!Nat
  /\ 0 \in Dev
  /\ NULL \notin Comm \cup Ep \cup Dev \cup Seen!CommRec
  /\ TAG_MAX \in Seen!Nat
  /\ ClosesUnaccepted \in BOOLEAN
  BY ConstAssumption DEF Seen!IsFiniteSet, IsFiniteSet, Seen!CommRec, CommRec

\* What was seen keeps the invariant of SharedEp as long as it takes steps of SharedEp.
LEMMA SeenKeepsIInv == Seen!IInv /\ [Seen!Next]_(Seen!vars) => Seen!IInv'
  BY SeenAssumption, Seen!NextKeepsIInv

\* Seen and Calls are the same instance.
LEMMA SeenIsCalls ==
  /\ UNCHANGED Seen!vars <=> UNCHANGED Calls!vars
  /\ Seen!Init <=> Calls!Init
  /\ Seen!Next <=> Calls!Next
<1>1. UNCHANGED Seen!vars <=> UNCHANGED Calls!vars
  BY DEF Seen!vars, Calls!vars, Seen!config, Calls!config, Seen!epVars, Calls!epVars
<1>2. Seen!Init <=> Calls!Init
  BY DEF Seen!Init, Calls!Init, Seen!Policy, Calls!Policy, Seen!ZeroSharedEp, Calls!ZeroSharedEp
<1>3. Seen!Next <=> Calls!Next
  BY Zenon DEF Seen!InitEp, Calls!InitEp, Seen!MustOpen, Calls!MustOpen,
    Seen!UnitMismatch, Calls!UnitMismatch, Seen!UnitRefused, Calls!UnitRefused,
    Seen!UnitsAfterInit, Calls!UnitsAfterInit, Seen!SharedAfterInit,
    Calls!SharedAfterInit, Seen!Released, Calls!Released, Seen!ClosesEp, Calls!ClosesEp,
    Seen!SharedAfterFini, Calls!SharedAfterFini, Seen!ZeroSharedEp, Calls!ZeroSharedEp,
    Seen!EpClose, Calls!EpClose, Seen!Fini, Calls!Fini, Seen!Allocates, Calls!Allocates,
    Seen!InitOk, Calls!InitOk, Seen!InitFailsEarly, Calls!InitFailsEarly, Seen!BailOut,
    Calls!BailOut, Seen!InitMqFails, Calls!InitMqFails, Seen!TagsLeft, Calls!TagsLeft,
    Seen!NextTag, Calls!NextTag, Seen!Listen, Calls!Listen, Seen!ListenOutOfTags,
    Calls!ListenOutOfTags, Seen!RemoteEpid, Calls!RemoteEpid, Seen!Connect,
    Calls!Connect, Seen!SendCommAfterBail, Calls!SendCommAfterBail, Seen!ConnectFails,
    Calls!ConnectFails, Seen!Accept, Calls!Accept, Seen!CloseListen, Calls!CloseListen,
    Seen!Close, Calls!Close, Seen!Next, Calls!Next, Seen!config, Calls!config,
    Seen!epVars, Calls!epVars, Seen!Returns, Calls!Returns, Seen!Succeeds,
    Calls!Succeeds, Seen!PsmRc, Calls!PsmRc
<1> QED BY <1>1, <1>2, <1>3

\* The types of what was seen.
LEMMA SeenTypes ==
  ASSUME Seen!IInv
  PROVE  /\ use_shared_ep \in {0, 1} /\ use_nccl_dev_num \in {0, 1}
         /\ seen.next_tag \in [Rank -> Nat]
         /\ seen.shared_ep \in [Rank -> SharedRec]
         /\ seen.comm \in [Comm -> CommRec \cup {NULL}]
         /\ seen.ep_unit \in [Ep -> Dev \cup {NULL}]
         /\ seen.abandoned \in SUBSET Ep
         /\ held \in [Comm -> Role]
         /\ handles \in SUBSET Handle
         /\ listens \in [Rank -> Nat]
  BY DEF Seen!IInv, Seen!TypeOK, Seen!SharedRec, SharedRec, Seen!CommRec, CommRec,
         Seen!Role, Role, Seen!Handle, Handle

\* While configuration and history stay, so does what SharedEp makes of them.
LEMMA SeenStays ==
  ASSUME UNCHANGED <<config, seen>>
  PROVE  \A p, dev :
           /\ Seen!UnitRefused(p, dev)' <=> Seen!UnitRefused(p, dev)
           /\ Seen!MustOpen(p)' <=> Seen!MustOpen(p)
           /\ \A e, u :
                /\ Seen!InitEp(p, dev, e, u)' <=> Seen!InitEp(p, dev, e, u)
                /\ Seen!SharedAfterInit(p, dev, e)' = Seen!SharedAfterInit(p, dev, e)
                /\ Stored(p, dev, e)' = Stored(p, dev, e)
                /\ Seen!UnitsAfterInit(e, u)' = Seen!UnitsAfterInit(e, u)
  BY DEF config, Seen!UnitRefused, Seen!UnitMismatch, Seen!MustOpen, Seen!InitEp,
         Seen!SharedAfterInit, Seen!UnitsAfterInit, Stored

\* The endpoint a call gets is one of its own process, and its unit is known.
LEMMA InitEpOwn ==
  ASSUME Seen!IInv, NEW p \in Rank, NEW dev \in Dev, NEW e \in Ep, NEW u \in Dev,
         Seen!InitEp(p, dev, e, u)
  PROVE  /\ EpHome[e] = p
         /\ Seen!MustOpen(p) => seen.ep_unit[e] = NULL
         /\ ~Seen!MustOpen(p) => seen.ep_unit[e] = u
  BY SeenAssumption, Seen!InitEpChoice DEF Seen!IInv, Seen!InitEp

-------------------------------------------------------------------------------
(* A step of a thread leaves the other processes alone.                    *)

\* What rank q owns, and was seen to own, stays.
RankStays(q) ==
  /\ shared_ep'[q] = shared_ep[q] /\ seen'.shared_ep[q] = seen.shared_ep[q]
  /\ next_tag'[q] = next_tag[q]
  /\ \A e \in Ep : EpHome[e] = q =>
       /\ ep_unit'[e] = ep_unit[e] /\ seen'.ep_unit[e] = seen.ep_unit[e]
       /\ e \in abandoned' <=> e \in abandoned
       /\ e \in seen'.abandoned <=> e \in seen.abandoned
  /\ \A c \in Comm : Home[c] = q =>
       comm'[c] = comm[c] /\ seen'.comm[c] = seen.comm[c] /\ held'[c] = held[c]

\* Thread t takes a step: the other ranks and the frames of other threads stay, and so
\* do the handles that others connect with.
OthersStay(t) ==
  /\ UNCHANGED config
  /\ \A q \in Rank \ {ThreadRank[t]} : RankStays(q)
  /\ \A x \in Thread \ {t} :
       /\ frame'[x] = frame[x]
       /\ frame[x] # NULL /\ frame[x].op = "connect" /\ frame[x].h \in handles
            => frame[x].h \in handles'

\* The endpoints of a rank that stays are as they were said to be.
LEMMA EndpointsStay ==
  ASSUME NEW q, RankStays(q), NEW units, NEW gone, NEW units2, NEW gone2,
         EndpointsAre(q, units, gone),
         \A e \in Ep : EpHome[e] = q => /\ units2[e] = units[e]
                                        /\ e \in gone2 <=> e \in gone
  PROVE  EndpointsAre(q, units2, gone2)'
  BY DEF RankStays, EndpointsAre

\* What psm2comm_init_ep finds on a rank that stays is what it found.
LEMMA InitEpStays ==
  ASSUME Seen!IInv, Seen!IInv', UNCHANGED config, NEW q \in Rank, RankStays(q), NEW dev \in Dev
  PROVE  /\ Seen!UnitRefused(q, dev)' <=> Seen!UnitRefused(q, dev)
         /\ Seen!MustOpen(q)' <=> Seen!MustOpen(q)
         /\ \A e \in Ep : /\ Seen!SharedAfterInit(q, dev, e)' = Seen!SharedAfterInit(q, dev, e)
                           /\ Stored(q, dev, e)' = Stored(q, dev, e)
         /\ \A e \in Ep, u \in Dev : Seen!InitEp(q, dev, e, u) =>
              /\ Seen!InitEp(q, dev, e, u)'
              /\ EpHome[e] = q
              /\ \A x \in Ep : EpHome[x] = q =>
                   Seen!UnitsAfterInit(e, u)'[x] = Seen!UnitsAfterInit(e, u)[x]
<1>1. /\ Seen!UnitRefused(q, dev)' <=> Seen!UnitRefused(q, dev)
      /\ Seen!MustOpen(q)' <=> Seen!MustOpen(q)
      /\ \A e \in Ep : /\ Seen!SharedAfterInit(q, dev, e)' = Seen!SharedAfterInit(q, dev, e)
                        /\ Stored(q, dev, e)' = Stored(q, dev, e)
  BY DEF RankStays, config, Seen!UnitRefused, Seen!UnitMismatch, Seen!MustOpen,
         Seen!SharedAfterInit, Stored
<1>2. ASSUME NEW e \in Ep, NEW u \in Dev, Seen!InitEp(q, dev, e, u)
      PROVE  /\ Seen!InitEp(q, dev, e, u)'
             /\ EpHome[e] = q
             /\ \A x \in Ep : EpHome[x] = q =>
                  Seen!UnitsAfterInit(e, u)'[x] = Seen!UnitsAfterInit(e, u)[x]
  <2>1. EpHome[e] = q
    BY <1>2, InitEpOwn
  <2>2. Seen!InitEp(q, dev, e, u)'
    BY <1>1, <1>2, <2>1 DEF RankStays, config, Seen!InitEp
  <2>3. seen.ep_unit \in [Ep -> Dev \cup {NULL}] /\ seen'.ep_unit \in [Ep -> Dev \cup {NULL}]
    BY SeenTypes DEF Seen!IInv, Seen!TypeOK
  <2>4. \A x \in Ep : EpHome[x] = q =>
          Seen!UnitsAfterInit(e, u)'[x] = Seen!UnitsAfterInit(e, u)[x]
    BY <2>3 DEF RankStays, Seen!UnitsAfterInit
  <2> QED BY <2>1, <2>2, <2>4
<1> QED BY <1>1, <1>2

\* A psm2comm_fini in another process stays where it is.
LEMMA InFiniStays ==
  ASSUME NEW x \in Thread, RankStays(ThreadRank[x]), frame'[x] = frame[x],
         frame[x].c \in Comm, Home[frame[x].c] = ThreadRank[x],
         NEW sh, NEW s, NEW e \in Ep, NEW units, NEW units2,
         units \in [Ep -> Dev \cup {NULL}], units2 \in [Ep -> Dev \cup {NULL}],
         \A y \in Ep : EpHome[y] = ThreadRank[x] => units2[y] = units[y],
         InFini(x, sh, s, units, e)
  PROVE  InFini(x, sh, s, units2, e)'
<1> DEFINE q == ThreadRank[x]
           pc == frame[x].pc
<1>1. /\ comm'[frame[x].c] = comm[frame[x].c] /\ shared_ep'[q] = shared_ep[q]
      /\ \A y \in Ep : EpHome[y] = q => (y \in seen'.abandoned <=> y \in seen.abandoned)
  BY DEF RankStays
<1>2. EndpointsAre(q, units, seen.abandoned) => EndpointsAre(q, units2, seen.abandoned)'
  BY <1>1, EndpointsStay
<1>3. EpClosed(x, units, e) => EpClosed(x, units2, e)'
  <2>1. \A y \in Ep : EpHome[y] = q =>
          [units2 EXCEPT ![e] = NULL][y] = [units EXCEPT ![e] = NULL][y]
    OBVIOUS
  <2>2. EndpointsAre(q, [units EXCEPT ![e] = NULL], seen.abandoned)
          => EndpointsAre(q, [units2 EXCEPT ![e] = NULL], seen.abandoned)'
    <3> SUFFICES ASSUME EndpointsAre(q, [units EXCEPT ![e] = NULL], seen.abandoned)
                 PROVE  EndpointsAre(q, [units2 EXCEPT ![e] = NULL], seen.abandoned)'
      OBVIOUS
    <3>1. ASSUME NEW y \in Ep, EpHome[y] = q
          PROVE  /\ ep_unit'[y] = [units2 EXCEPT ![e] = NULL][y]
                 /\ y \in abandoned' <=> y \in seen'.abandoned
      <4>1. ep_unit[y] = [units EXCEPT ![e] = NULL][y] /\ (y \in abandoned <=> y \in seen.abandoned)
        BY <3>1 DEF EndpointsAre
      <4>2. ep_unit'[y] = ep_unit[y] /\ (y \in abandoned' <=> y \in abandoned)
        BY <3>1 DEF RankStays
      <4> QED BY <1>1, <2>1, <3>1, <4>1, <4>2
    <3> QED BY <3>1 DEF EndpointsAre
  <2>3. EndpointsAre(q, units, seen.abandoned \cup {e})
          => EndpointsAre(q, units2, seen.abandoned \cup {e})'
    BY <1>1, EndpointsStay
  <2> QED BY <2>2, <2>3 DEF EpClosed
<1> QED BY <1>1, <1>2, <1>3 DEF InFini

\* A call stays where it is while its process does.
LEMMA CallStays ==
  ASSUME StepsInv, Seen!IInv', NEW x \in Thread, frame[x] # NULL,
         UNCHANGED config, RankStays(ThreadRank[x]), frame'[x] = frame[x],
         frame[x].op = "connect" /\ frame[x].h \in handles => frame[x].h \in handles'
  PROVE  CallOK(x)'
<1> DEFINE q == ThreadRank[x]
           f == frame[x]
<1>1. /\ q \in Rank /\ RankStays(q) /\ UNCHANGED config /\ frame'[x] = f
      /\ f.op = "connect" /\ f.h \in handles => f.h \in handles'
  BY StepsAssumption
<1>2. CallOK(x) /\ Seen!IInv /\ f \in Frame
  BY DEF StepsInv, CallInv, PartsOK, StepsTypeOK
<1>3. f.c \in Comm /\ f.dev \in Dev /\ Home[f.c] = q
  BY <1>2 DEF CallOK, Frame
<1>4. /\ comm'[f.c] = comm[f.c] /\ seen'.comm[f.c] = seen.comm[f.c] /\ held'[f.c] = held[f.c]
      /\ shared_ep'[q] = shared_ep[q] /\ seen'.shared_ep[q] = seen.shared_ep[q]
      /\ next_tag'[q] = next_tag[q]
      /\ use_shared_ep' = use_shared_ep
      /\ \A d \in Comm \ {f.c} : Home[d] = q => comm'[d] = seen'.comm[d]
      /\ \A y \in Ep : EpHome[y] = q => /\ seen'.ep_unit[y] = seen.ep_unit[y]
                                        /\ y \in seen'.abandoned <=> y \in seen.abandoned
  BY <1>1, <1>2, <1>3 DEF RankStays, CallOK, config
<1>5. /\ seen.ep_unit \in [Ep -> Dev \cup {NULL}] /\ seen'.ep_unit \in [Ep -> Dev \cup {NULL}]
      /\ seen.comm \in [Comm -> CommRec \cup {NULL}]
  BY <1>2, SeenTypes DEF Seen!IInv, Seen!TypeOK
<1>6. /\ Seen!UnitRefused(q, f.dev)' <=> Seen!UnitRefused(q, f.dev)
      /\ Seen!MustOpen(q)' <=> Seen!MustOpen(q)
      /\ \A e \in Ep :
           /\ Seen!SharedAfterInit(q, f.dev, e)' = Seen!SharedAfterInit(q, f.dev, e)
           /\ Stored(q, f.dev, e)' = Stored(q, f.dev, e)
      /\ \A e \in Ep, u \in Dev : Seen!InitEp(q, f.dev, e, u) =>
           /\ Seen!InitEp(q, f.dev, e, u)'
           /\ EpHome[e] = q
           /\ \A y \in Ep : EpHome[y] = q =>
                Seen!UnitsAfterInit(e, u)'[y] = Seen!UnitsAfterInit(e, u)[y]
  BY <1>1, <1>2, <1>3, InitEpStays
<1>7. /\ \A e \in Ep, u \in Dev : Seen!UnitsAfterInit(e, u) \in [Ep -> Dev \cup {NULL}]
      /\ \A e \in Ep, u \in Dev : Seen!UnitsAfterInit(e, u)' \in [Ep -> Dev \cup {NULL}]
  BY <1>5 DEF Seen!UnitsAfterInit
<1>8. AsSeen(q) => AsSeen(q)'
  BY <1>1, <1>4, EndpointsStay DEF AsSeen
<1>9. ASSUME f.op = "close"
      PROVE  Closing(x)'
  <2>1. Closing(x) /\ seen.comm[f.c] # NULL
    BY <1>2, <1>3, <1>9 DEF CallOK, Closing, Seen!IInv, Seen!HeldLive
  <2>2. seen.comm[f.c].ep \in Ep
    BY <1>3, <1>5, <2>1 DEF CommRec
  <2>3. PICK sh, s, units, units2 :
          /\ sh = seen.shared_ep[q] /\ s = seen.comm[f.c].shared
          /\ units = seen.ep_unit /\ units2 = seen'.ep_unit
    OBVIOUS
  <2>4. PICK e \in Ep : e = seen.comm[f.c].ep
    BY <2>2
  <2>5. InFini(x, sh, s, units, e)
    BY <2>1, <2>3, <2>4 DEF Closing
  <2>6. InFini(x, sh, s, units2, e)'
    BY <1>1, <1>3, <1>4, <1>5, <2>3, <2>5, InFiniStays
  <2> QED BY <1>1, <1>4, <2>1, <2>3, <2>4, <2>6 DEF Closing
<1>10. ASSUME f.op # "close"
       PROVE  Opening(x)'
  <2>1. Opening(x)
    BY <1>2, <1>10 DEF CallOK
  <2>2. Starting(x) => Starting(x)'
    BY <1>1, <1>4, <1>6, <1>8 DEF Starting, Blank
  <2>3. Refused(x) => Refused(x)'
    BY <1>1, <1>6, <1>8 DEF Refused
  <2>4. ASSUME NEW e \in Ep, NEW u \in Dev, Seen!InitEp(q, f.dev, e, u)
        PROVE  /\ Uncounted(x, e, u) => Uncounted(x, e, u)'
               /\ Attached(x, e, u) => Attached(x, e, u)'
    <3>1. EndpointsAre(q, Seen!UnitsAfterInit(e, u), seen.abandoned)
            => EndpointsAre(q, Seen!UnitsAfterInit(e, u), seen.abandoned)'
      BY <1>1, <1>4, <1>6, <2>4, EndpointsStay
    <3> QED BY <1>1, <1>4, <1>6, <2>4, <3>1 DEF Uncounted, Attached, Blank, OnEp
  <2>5. BailingOut(x) => BailingOut(x)'
    <3> SUFFICES ASSUME BailingOut(x) PROVE BailingOut(x)'
      OBVIOUS
    <3>1. PICK e \in Ep, u \in Dev :
            /\ Seen!InitEp(q, f.dev, e, u)
            /\ InFini(x, Seen!SharedAfterInit(q, f.dev, e), use_shared_ep,
                      Seen!UnitsAfterInit(e, u), e)
      BY DEF BailingOut
    <3>2. PICK sh, s, units, units2 :
            /\ sh = Seen!SharedAfterInit(q, f.dev, e) /\ s = use_shared_ep
            /\ units = Seen!UnitsAfterInit(e, u) /\ units2 = Seen!UnitsAfterInit(e, u)'
      OBVIOUS
    <3>3. /\ units \in [Ep -> Dev \cup {NULL}] /\ units2 \in [Ep -> Dev \cup {NULL}]
          /\ \A y \in Ep : EpHome[y] = q => units2[y] = units[y]
      BY <1>6, <1>7, <3>1, <3>2
    <3>4. InFini(x, sh, s, units, e)
      BY <3>1, <3>2
    <3>5. InFini(x, sh, s, units2, e)'
      BY <1>1, <1>3, <3>3, <3>4, InFiniStays
    <3> QED BY <1>1, <1>4, <1>6, <3>1, <3>2, <3>5, <2>1 DEF BailingOut
  <2> QED BY <1>1, <1>4, <2>1, <2>2, <2>3, <2>4, <2>5
          DEF Opening, Stage, TagsLeft, Uncounted, Attached
<1> QED BY <1>1, <1>3, <1>4, <1>9, <1>10 DEF CallOK

\* A step of t keeps the invariant if t's own call stays in order.
LEMMA StepKeeps ==
  ASSUME StepsInv, NEW t \in Thread, OthersStay(t), PartsOK', [Seen!Next]_(Seen!vars),
         \A x \in Thread \ {t} : frame[x] # NULL => ThreadRank[x] # ThreadRank[t],
         frame'[t] # NULL => CallOK(t)',
         frame'[t] = NULL => Idle(ThreadRank[t])',
         frame'[t] # NULL /\ frame'[t].op = "connect" =>
           \A x \in Thread \ {t} :
             frame[x] # NULL /\ frame[x].op = "connect" => frame[x].h # frame'[t].h
  PROVE  StepsInv'
<1>1. Seen!IInv'
  BY SeenKeepsIInv DEF StepsInv
<1>2. \A x \in Thread \ {t} : frame'[x] = frame[x]
  BY DEF OthersStay
<1>3. OneCallInv'
  BY <1>2 DEF StepsInv, OneCallInv, Running
<1>4. CallInv'
  <2> SUFFICES ASSUME NEW x \in Thread, frame'[x] # NULL, x # t
               PROVE  CallOK(x)'
    BY DEF CallInv
  <2>1. frame'[x] = frame[x] /\ ThreadRank[x] \in Rank \ {ThreadRank[t]}
    BY <1>2, StepsAssumption
  <2>2. /\ RankStays(ThreadRank[x]) /\ UNCHANGED config
        /\ frame[x].op = "connect" /\ frame[x].h \in handles => frame[x].h \in handles'
    BY <2>1 DEF OthersStay
  <2> QED BY <1>1, <2>1, <2>2, CallStays
<1>5. IdleInv'
  <2> SUFFICES ASSUME NEW q \in Rank, Running(q)' = {}
               PROVE  Idle(q)'
    BY DEF IdleInv
  <2>1. CASE q = ThreadRank[t]
    BY <2>1 DEF Running
  <2>2. CASE q # ThreadRank[t]
    <3>1. Running(q) = {} /\ RankStays(q)
      BY <1>2, <2>2 DEF Running, OthersStay
    <3>2. Idle(q)
      BY <3>1 DEF StepsInv, IdleInv
    <3>3. AsSeen(q)'
      <4>1. \A e \in Ep : EpHome[e] = q => /\ seen'.ep_unit[e] = seen.ep_unit[e]
                                           /\ e \in seen'.abandoned <=> e \in seen.abandoned
        BY <3>1 DEF RankStays
      <4>2. EndpointsAre(q, seen.ep_unit, seen.abandoned)'
        BY <3>1, <3>2, <4>1, EndpointsStay DEF Idle, AsSeen
      <4> QED BY <3>1, <3>2, <4>2 DEF RankStays, Idle, AsSeen
    <3> QED BY <3>1, <3>2, <3>3 DEF RankStays, Idle
  <2> QED BY <2>1, <2>2
<1> QED BY <1>1, <1>3, <1>4, <1>5 DEF StepsInv

\* If calls do not overlap, a thread in a call is the only one of its process.
LEMMA OnlyCall ==
  ASSUME StepsInv, NEW t \in Thread, frame[t] # NULL
  PROVE  /\ \A x \in Thread \ {t} : frame[x] # NULL => ThreadRank[x] # ThreadRank[t]
         /\ frame[t].op = "connect" =>
              \A x \in Thread \ {t} :
                frame[x] # NULL /\ frame[x].op = "connect" => frame[x].h # frame[t].h
  BY StepsAssumption DEF StepsInv, OneCallInv, Running

\* So it is when a call begins.
LEMMA NoCall ==
  ASSUME Serialised, StepsInv, NEW t \in Thread, MayCall(t)
  PROVE  /\ \A x \in Thread : frame[x] # NULL => ThreadRank[x] # ThreadRank[t]
         /\ Idle(ThreadRank[t])
<1>1. ThreadRank[t] \in Rank /\ Running(ThreadRank[t]) = {}
  BY StepsAssumption DEF MayCall
<1> QED BY <1>1 DEF StepsInv, IdleInv, Running

-------------------------------------------------------------------------------
(* The steps of a call, up to its return.                                  *)

\* What a step of a call that goes on may change: its frame, its communicator, and
\* what its rank owns.
Inner(t) ==
  /\ frame[t] # NULL /\ SameCall /\ UNCHANGED next_tag
  /\ frame' = [frame EXCEPT ![t] = frame'[t]] /\ frame'[t] \in Frame
  /\ frame'[t].c = frame[t].c /\ frame'[t].op = frame[t].op
  /\ frame'[t].h = frame[t].h /\ frame'[t].dev = frame[t].dev
  /\ shared_ep' \in [Rank -> SharedRec]
  /\ \A q \in Rank \ {ThreadRank[t]} : shared_ep'[q] = shared_ep[q]
  /\ ep_unit' \in [Ep -> Dev \cup {NULL}] /\ abandoned' \in SUBSET Ep
  /\ \A e \in Ep : EpHome[e] # ThreadRank[t] =>
       ep_unit'[e] = ep_unit[e] /\ (e \in abandoned' <=> e \in abandoned)
  /\ comm' = [c \in Comm |-> comm'[c]]
  /\ \A d \in Comm \ {frame[t].c} : comm'[d] = comm[d]

\* A step of a call that goes on does not show, and keeps the invariant if its call
\* is in order at the next label.
LEMMA InnerKeeps ==
  ASSUME StepsInv, NEW t \in Thread, Inner(t),
         IF frame[t].op = "close" THEN Closing(t)' ELSE Opening(t)'
  PROVE  StepsInv' /\ UNCHANGED Seen!vars
<1>1. UNCHANGED Seen!vars
  BY DEF Inner, SameCall, Seen!vars, Seen!config, Seen!epVars, config
<1>2. /\ UNCHANGED <<config, held, handles, seen, next_tag>>
      /\ Home[frame[t].c] = ThreadRank[t]
      /\ \A d \in Comm \ {frame[t].c} : Home[d] = ThreadRank[t] => comm[d] = seen.comm[d]
      /\ frame \in [Thread -> Frame \cup {NULL}]
      /\ seen.shared_ep \in [Rank -> SharedRec]
      /\ frame[t].op = "connect" => frame[t].h \in Handle
      /\ next_tag = seen.next_tag
  BY DEF StepsInv, CallInv, CallOK, Inner, SameCall, PartsOK, StepsTypeOK
<1>3. PartsOK'
  <2>1. frame' \in [Thread -> Frame \cup {NULL}] /\ \A x \in Thread \ {t} : frame'[x] = frame[x]
    BY <1>2 DEF Inner
  <2>2. \A x \in Thread : frame'[x] # NULL /\ frame'[x].op = "connect" => frame'[x].h \in Handle
    BY <1>2, <2>1 DEF Inner, StepsInv, PartsOK
  <2> QED BY <1>2, <2>1, <2>2 DEF Inner, PartsOK, StepsTypeOK
<1>4. OthersStay(t)
  <2>1. \A x \in Thread \ {t} : frame'[x] = frame[x]
    BY <1>2 DEF Inner
  <2>2. \A q \in Rank \ {ThreadRank[t]} : RankStays(q)
    BY <1>2 DEF Inner, RankStays
  <2> QED BY <1>2, <2>1, <2>2 DEF OthersStay
<1>5. CallOK(t)' /\ frame'[t] # NULL
  BY <1>2, NoFrameIsNull DEF CallOK, Inner
<1>6. /\ \A x \in Thread \ {t} : frame[x] # NULL => ThreadRank[x] # ThreadRank[t]
      /\ frame'[t].op = "connect" =>
           \A x \in Thread \ {t} :
             frame[x] # NULL /\ frame[x].op = "connect" => frame[x].h # frame'[t].h
  BY OnlyCall DEF Inner
<1> QED BY <1>1, <1>3, <1>4, <1>5, <1>6, StepKeeps

\* What is known of a thread in a call.
LEMMA InCall ==
  ASSUME StepsInv, NEW t \in Thread, frame[t] # NULL
  PROVE  /\ ThreadRank[t] \in Rank /\ frame[t] \in Frame
         /\ frame[t].c \in Comm /\ frame[t].dev \in Dev /\ Home[frame[t].c] = ThreadRank[t]
         /\ \A d \in Comm \ {frame[t].c} : Home[d] = ThreadRank[t] => comm[d] = seen.comm[d]
         /\ IF frame[t].op = "close" THEN Closing(t) ELSE Opening(t)
         /\ frame \in [Thread -> Frame \cup {NULL}]
         /\ use_shared_ep \in {0, 1} /\ use_nccl_dev_num \in {0, 1}
         /\ shared_ep \in [Rank -> SharedRec] /\ seen.shared_ep \in [Rank -> SharedRec]
         /\ ep_unit \in [Ep -> Dev \cup {NULL}] /\ seen.ep_unit \in [Ep -> Dev \cup {NULL}]
         /\ abandoned \in SUBSET Ep /\ seen.abandoned \in SUBSET Ep
         /\ comm = [c \in Comm |-> comm[c]] /\ seen.comm \in [Comm -> CommRec \cup {NULL}]
         /\ Seen!IInv
<1>1. /\ PartsOK /\ Seen!IInv /\ CallOK(t)
  BY DEF StepsInv, CallInv
<1>2. frame[t] \in Frame
  BY <1>1 DEF PartsOK, StepsTypeOK
<1>3. frame[t].c \in Comm /\ frame[t].dev \in Dev
  BY <1>2 DEF Frame
<1> QED BY <1>1, <1>2, <1>3, SeenTypes, StepsAssumption DEF PartsOK, StepsTypeOK, CallOK

\* Where a jump leads.
LEMMA Jumps ==
  ASSUME StepsInv, NEW t \in Thread, frame[t] # NULL, NEW label \in Label, NEW psm \in PsmRc
  PROVE  /\ Goto(t, label) =>
              /\ frame'[t] = [frame[t] EXCEPT !.pc = label]
              /\ frame' = [frame EXCEPT ![t] = frame'[t]] /\ frame'[t] \in Frame
         /\ Fails(t, label, psm) =>
              /\ frame'[t] = [frame[t] EXCEPT !.pc = label, !.failed = TRUE, !.psm = psm]
              /\ frame' = [frame EXCEPT ![t] = frame'[t]] /\ frame'[t] \in Frame
<1>1. frame \in [Thread -> Frame \cup {NULL}] /\ frame[t] \in Frame
  BY InCall
<1>2. ASSUME Goto(t, label)
      PROVE  /\ frame'[t] = [frame[t] EXCEPT !.pc = label]
             /\ frame' = [frame EXCEPT ![t] = frame'[t]] /\ frame'[t] \in Frame
  <2>1. /\ frame'[t] = [frame[t] EXCEPT !.pc = label]
        /\ frame' = [frame EXCEPT ![t] = frame'[t]]
    BY <1>1, <1>2 DEF Goto
  <2> QED BY <1>1, <2>1 DEF Frame
<1>3. ASSUME Fails(t, label, psm)
      PROVE  /\ frame'[t] = [frame[t] EXCEPT !.pc = label, !.failed = TRUE, !.psm = psm]
             /\ frame' = [frame EXCEPT ![t] = frame'[t]] /\ frame'[t] \in Frame
  <2>1. /\ frame'[t] = [frame[t] EXCEPT !.pc = label, !.failed = TRUE, !.psm = psm]
        /\ frame' = [frame EXCEPT ![t] = frame'[t]]
    BY <1>1, <1>3 DEF Fails
  <2> QED BY <1>1, <2>1 DEF Frame
<1> QED BY <1>2, <1>3

\* A listen or connect goes on if it is in order at the next label.
LEMMA OpeningKeeps ==
  ASSUME StepsInv, NEW t \in Thread, Inner(t), frame[t].op # "close", Stage(t)'
  PROVE  StepsInv' /\ UNCHANGED Seen!vars
<1>1. Opening(t) /\ UNCHANGED <<held, seen, handles, next_tag>>
  BY InCall DEF Inner, SameCall
<1>2. /\ frame'[t].c = frame[t].c /\ frame'[t].op = frame[t].op
      /\ frame'[t].h = frame[t].h
  BY DEF Inner
<1>3. Opening(t)'
  BY <1>1, <1>2 DEF Opening, TagsLeft
<1> QED BY <1>3, InnerKeeps

\* Where a jump leads a thread that touches nothing but its frame.
LEMMA GoesTo ==
  ASSUME StepsInv, NEW t \in Thread, frame[t] # NULL, SameCall,
         UNCHANGED <<next_tag, shared_ep, comm, epVars>>,
         NEW label \in Label, Goto(t, label)
  PROVE  /\ Inner(t) /\ frame'[t].pc = label
         /\ frame'[t].failed = frame[t].failed /\ frame'[t].psm = frame[t].psm
         /\ frame'[t].ep = frame[t].ep
<1>1. /\ frame[t] \in Frame /\ UNCHANGED <<ep_unit, abandoned>>
      /\ shared_ep \in [Rank -> SharedRec]
      /\ ep_unit \in [Ep -> Dev \cup {NULL}]
      /\ abandoned \in SUBSET Ep /\ comm = [c \in Comm |-> comm[c]]
  BY InCall DEF epVars
<1>2. /\ frame'[t] = [frame[t] EXCEPT !.pc = label]
      /\ frame' = [frame EXCEPT ![t] = frame'[t]] /\ frame'[t] \in Frame
  BY Jumps DEF PsmRc
<1>3. /\ frame'[t].pc = label /\ frame'[t].c = frame[t].c /\ frame'[t].op = frame[t].op
      /\ frame'[t].h = frame[t].h /\ frame'[t].dev = frame[t].dev
      /\ frame'[t].failed = frame[t].failed /\ frame'[t].psm = frame[t].psm
      /\ frame'[t].ep = frame[t].ep
  BY <1>1, <1>2 DEF Frame
<1> QED BY <1>1, <1>2, <1>3 DEF Inner

\* So for a jump on failure.
LEMMA FailsTo ==
  ASSUME StepsInv, NEW t \in Thread, frame[t] # NULL, SameCall,
         UNCHANGED <<next_tag, shared_ep, comm, epVars>>,
         NEW label \in Label, NEW psm \in PsmRc, Fails(t, label, psm)
  PROVE  /\ Inner(t) /\ frame'[t].pc = label
         /\ frame'[t].failed /\ frame'[t].psm = psm
<1>1. /\ frame[t] \in Frame /\ UNCHANGED <<ep_unit, abandoned>>
      /\ shared_ep \in [Rank -> SharedRec]
      /\ ep_unit \in [Ep -> Dev \cup {NULL}]
      /\ abandoned \in SUBSET Ep /\ comm = [c \in Comm |-> comm[c]]
  BY InCall DEF epVars
<1>2. /\ frame'[t] = [frame[t] EXCEPT !.pc = label, !.failed = TRUE, !.psm = psm]
      /\ frame' = [frame EXCEPT ![t] = frame'[t]] /\ frame'[t] \in Frame
  BY Jumps
<1>3. /\ frame'[t].pc = label /\ frame'[t].c = frame[t].c /\ frame'[t].op = frame[t].op
      /\ frame'[t].h = frame[t].h /\ frame'[t].dev = frame[t].dev
      /\ frame'[t].failed /\ frame'[t].psm = psm
  BY <1>1, <1>2 DEF Frame
<1> QED BY <1>1, <1>2, <1>3 DEF Inner

\* Until a call attaches, its rank owns what was seen.
LEMMA AsSeenStays ==
  ASSUME NEW p, AsSeen(p), UNCHANGED <<seen, shared_ep, epVars>>
  PROVE  AsSeen(p)'
  BY DEF AsSeen, EndpointsAre, epVars

\* The check of the unit: the call is refused, or has passed it.
LEMMA UnitCheckKeeps ==
  ASSUME StepsInv, NEW t \in Thread, UnitCheck(t)
  PROVE  StepsInv' /\ UNCHANGED Seen!vars
<1> DEFINE p == ThreadRank[t]
<1>0. PICK dev : dev = frame[t].dev
  OBVIOUS
<1>1. /\ frame[t] # NULL /\ frame[t].pc = "unit_check" /\ SameCall
      /\ UNCHANGED <<next_tag, shared_ep, comm, epVars, config, seen>>
  BY DEF UnitCheck, At, SameCall
<1>2. frame[t].op # "close" /\ Starting(t)
  BY <1>1, InCall DEF Closing, Opening, Stage, FiniLabel
<1>3. UnitRefused(p, dev) <=> Seen!UnitRefused(p, dev)
  BY <1>2 DEF Starting, AsSeen, UnitRefused, Seen!UnitRefused, UnitMismatch,
              Seen!UnitMismatch
<1>4. AsSeen(p)' /\ (Seen!UnitRefused(p, dev)' <=> Seen!UnitRefused(p, dev))
  BY <1>1, <1>2, AsSeenStays, SeenStays DEF Starting
<1>5. CASE UnitRefused(p, dev)
  <2>1. /\ Inner(t) /\ frame'[t].pc = "free" /\ frame'[t].failed /\ frame'[t].psm = "PSM2_OK"
    BY <1>0, <1>1, <1>5, FailsTo DEF UnitCheck, Label, PsmRc
  <2>2. Refused(t)'
    BY <1>0, <1>3, <1>4, <1>5, <2>1 DEF Refused, Inner
  <2> QED BY <1>2, <2>1, <2>2, OpeningKeeps DEF Stage
<1>6. CASE ~UnitRefused(p, dev)
  <2>1. Inner(t) /\ frame'[t].pc = "user_check" /\ frame'[t].failed = frame[t].failed
    BY <1>0, <1>1, <1>6, GoesTo DEF UnitCheck, Label
  <2>2. Starting(t)'
    BY <1>0, <1>1, <1>2, <1>3, <1>4, <1>6, <2>1 DEF Starting, Inner, Blank
  <2> QED BY <1>2, <2>1, <2>2, OpeningKeeps DEF Stage
<1> QED BY <1>5, <1>6

\* The look at the count: the call opens an endpoint, or joins its rank's.
LEMMA UserCheckKeeps ==
  ASSUME StepsInv, NEW t \in Thread, UserCheck(t)
  PROVE  StepsInv' /\ UNCHANGED Seen!vars
<1> DEFINE p == ThreadRank[t]
<1>0. PICK dev : dev = frame[t].dev
  OBVIOUS
<1>1. /\ frame[t] # NULL /\ frame[t].pc = "user_check" /\ SameCall
      /\ UNCHANGED <<next_tag, shared_ep, comm, epVars, config, seen>>
  BY DEF UserCheck, At, SameCall
<1>2. frame[t].op # "close" /\ Starting(t)
  BY <1>1, InCall DEF Closing, Opening, Stage, FiniLabel
<1>3. MustOpen(p) <=> Seen!MustOpen(p)
  BY <1>2 DEF Starting, AsSeen, MustOpen, Seen!MustOpen
<1>4. /\ AsSeen(p)' /\ ~Seen!UnitRefused(p, dev)'
      /\ Seen!MustOpen(p)' <=> Seen!MustOpen(p)
  BY <1>0, <1>1, <1>2, AsSeenStays, SeenStays DEF Starting
<1>5. /\ Inner(t) /\ frame'[t].failed = frame[t].failed
      /\ frame'[t].pc = IF MustOpen(p) THEN "ep_open" ELSE "join"
  BY <1>1, GoesTo DEF UserCheck, Label
<1>6. Starting(t)'
  BY <1>0, <1>1, <1>2, <1>3, <1>4, <1>5 DEF Starting, Inner, Blank
<1> QED BY <1>2, <1>5, <1>6, OpeningKeeps DEF Stage

\* psm2_ep_open fails: the call has no endpoint, and there is none to join.
LEMMA EpOpenFailsKeeps ==
  ASSUME StepsInv, NEW t \in Thread, EpOpenFails(t)
  PROVE  StepsInv' /\ UNCHANGED Seen!vars
<1> DEFINE p == ThreadRank[t]
<1>0. PICK dev : dev = frame[t].dev
  OBVIOUS
<1>1. /\ frame[t] # NULL /\ frame[t].pc = "ep_open" /\ SameCall
      /\ UNCHANGED <<next_tag, shared_ep, comm, epVars, config, seen>>
  BY DEF EpOpenFails, At, SameCall
<1>2. frame[t].op # "close" /\ Starting(t)
  BY <1>1, InCall DEF Closing, Opening, Stage, FiniLabel
<1>3. AsSeen(p)' /\ ~Seen!UnitRefused(p, dev)' /\ Seen!MustOpen(p)'
  BY <1>0, <1>1, <1>2, AsSeenStays, SeenStays DEF Starting
<1>4. Inner(t) /\ frame'[t].pc = "free" /\ frame'[t].failed /\ frame'[t].psm = "PSM2_ERROR"
  BY <1>1, FailsTo DEF EpOpenFails, Label, PsmRc
<1>5. Refused(t)'
  BY <1>0, <1>3, <1>4 DEF Refused, Inner
<1> QED BY <1>2, <1>4, <1>5, OpeningKeeps DEF Stage

\* psm2_ep_open: the endpoint is open, and not counted yet.
LEMMA EpOpenKeeps ==
  ASSUME StepsInv, NEW t \in Thread, NEW e \in Ep, NEW u \in Dev, EpOpen(t, e, u)
  PROVE  StepsInv' /\ UNCHANGED Seen!vars
<1> DEFINE p == ThreadRank[t]
<1>0. PICK dev : dev = frame[t].dev
  OBVIOUS
<1>1. /\ frame[t] # NULL /\ frame[t].pc = "ep_open" /\ SameCall
      /\ UNCHANGED <<next_tag, shared_ep, comm, abandoned, config, seen>>
      /\ use_shared_ep' = use_shared_ep
  BY DEF EpOpen, At, SameCall, config
<1>2. frame[t].op # "close" /\ Starting(t)
  BY <1>1, InCall DEF Closing, Opening, Stage, FiniLabel
<1>3. /\ p \in Rank /\ frame[t] \in Frame /\ frame \in [Thread -> Frame \cup {NULL}]
      /\ use_shared_ep \in {0, 1}
      /\ shared_ep \in [Rank -> SharedRec] /\ seen.shared_ep \in [Rank -> SharedRec]
      /\ ep_unit \in [Ep -> Dev \cup {NULL}] /\ seen.ep_unit \in [Ep -> Dev \cup {NULL}]
      /\ abandoned \in SUBSET Ep /\ comm = [c \in Comm |-> comm[c]]
  BY <1>1, InCall
<1>4. /\ EpHome[e] = p /\ ep_unit[e] = NULL /\ (use_nccl_dev_num = 1 => u = dev)
      /\ ep_unit' = [ep_unit EXCEPT ![e] = u]
  BY <1>0 DEF EpOpen, UnitsAfterInit
<1>5. /\ frame'[t] = [frame[t] EXCEPT !.ep = e,
                        !.pc = IF use_shared_ep = 1 THEN "store" ELSE "attach"]
      /\ frame' = [frame EXCEPT ![t] = frame'[t]]
  BY <1>3 DEF EpOpen
<1>6. /\ frame'[t] \in Frame
      /\ frame'[t].c = frame[t].c /\ frame'[t].op = frame[t].op
      /\ frame'[t].h = frame[t].h /\ frame'[t].dev = frame[t].dev
      /\ frame'[t].ep = e /\ frame'[t].failed = frame[t].failed
      /\ frame'[t].pc = IF use_shared_ep = 1 THEN "store" ELSE "attach"
  BY <1>3, <1>5 DEF Frame, Label
<1>7. Inner(t)
  BY <1>1, <1>3, <1>4, <1>5, <1>6 DEF Inner
<1>8. /\ AsSeen(p) /\ comm[frame[t].c] = Blank(dev)
      /\ ~Seen!UnitRefused(p, dev) /\ Seen!MustOpen(p)
  BY <1>0, <1>1, <1>2 DEF Starting
<1>9. Seen!InitEp(p, dev, e, u)
  BY <1>4, <1>8 DEF Seen!InitEp, AsSeen, EndpointsAre
<1>10. Uncounted(t, e, u)'
  <2>1. Seen!InitEp(p, dev, e, u)' /\ Seen!MustOpen(p)'
    BY <1>1, <1>8, <1>9, SeenStays
  <2>2. EndpointsAre(p, Seen!UnitsAfterInit(e, u), seen.abandoned)'
    BY <1>1, <1>3, <1>4, <1>8 DEF EndpointsAre, AsSeen, Seen!UnitsAfterInit
  <2>3. shared_ep'[p] = seen'.shared_ep[p] /\ Blank(dev)' = Blank(dev)
    BY <1>1, <1>8 DEF AsSeen, Blank
  <2>4. CASE use_shared_ep = 1
    BY <1>0, <1>1, <1>6, <1>8, <2>1, <2>2, <2>3, <2>4 DEF Uncounted
  <2>5. CASE use_shared_ep = 0
    <3>1. shared_ep'[p] = Stored(p, dev, e)'
      BY <1>1, <1>8, <2>5 DEF Stored, AsSeen
    <3> QED BY <1>0, <1>1, <1>6, <1>8, <2>1, <2>2, <2>3, <2>5, <3>1 DEF Uncounted
  <2> QED BY <1>3, <2>4, <2>5
<1>11. Stage(t)'
  BY <1>2, <1>6, <1>10 DEF Stage, Starting
<1> QED BY <1>2, <1>7, <1>11, OpeningKeeps

\* An opened endpoint is stored for those that join it.
LEMMA StoreKeeps ==
  ASSUME StepsInv, NEW t \in Thread, Store(t)
  PROVE  StepsInv' /\ UNCHANGED Seen!vars
<1> DEFINE p == ThreadRank[t]
<1>0. PICK dev : dev = frame[t].dev
  OBVIOUS
<1>1. /\ frame[t] # NULL /\ frame[t].pc = "store" /\ SameCall
      /\ UNCHANGED <<next_tag, comm, epVars, config, seen>>
      /\ use_shared_ep' = use_shared_ep /\ UNCHANGED <<ep_unit, abandoned>>
  BY DEF Store, At, SameCall, config, epVars
<1>2. frame[t].op # "close" /\ Stage(t)
  BY <1>1, InCall DEF Closing, Opening, FiniLabel
<1>3. /\ p \in Rank /\ frame[t] \in Frame /\ frame \in [Thread -> Frame \cup {NULL}]
      /\ dev \in Dev
      /\ shared_ep \in [Rank -> SharedRec]
      /\ ep_unit \in [Ep -> Dev \cup {NULL}]
      /\ abandoned \in SUBSET Ep /\ comm = [c \in Comm |-> comm[c]]
  BY <1>0, <1>1, InCall
<1>4. PICK e \in Ep, u \in Dev : Uncounted(t, e, u) /\ ~frame[t].failed
  BY <1>1, <1>2 DEF Stage
<1>5. /\ Seen!InitEp(p, dev, e, u) /\ frame[t].ep = e /\ comm[frame[t].c] = Blank(dev)
      /\ EndpointsAre(p, Seen!UnitsAfterInit(e, u), seen.abandoned)
      /\ use_shared_ep = 1 /\ Seen!MustOpen(p) /\ shared_ep[p] = seen.shared_ep[p]
  BY <1>0, <1>1, <1>4 DEF Uncounted
<1>6. /\ frame'[t] = [frame[t] EXCEPT !.pc = "attach"]
      /\ frame' = [frame EXCEPT ![t] = frame'[t]] /\ frame'[t] \in Frame
  BY <1>1, Jumps DEF Store, Label, PsmRc
<1>7. /\ frame'[t].c = frame[t].c /\ frame'[t].op = frame[t].op
      /\ frame'[t].h = frame[t].h /\ frame'[t].dev = frame[t].dev
      /\ frame'[t].ep = frame[t].ep /\ frame'[t].failed = frame[t].failed
      /\ frame'[t].pc = "attach"
  BY <1>3, <1>6 DEF Frame
<1>8. /\ \A q \in Rank \ {p} : shared_ep'[q] = shared_ep[q]
      /\ shared_ep'[p] = [ep |-> e,
           unit |-> IF use_nccl_dev_num = 1 THEN dev ELSE shared_ep[p].unit,
           refcount |-> shared_ep[p].refcount]
      /\ shared_ep' \in [Rank -> SharedRec]
  <2>1. shared_ep[p] \in SharedRec
    BY <1>3
  <2>2. PICK unit : unit = IF use_nccl_dev_num = 1 THEN dev ELSE shared_ep[p].unit
    OBVIOUS
  <2>3. unit \in Dev
    BY <1>3, <2>1, <2>2 DEF SharedRec
  <2>4. PICK stored : stored = [shared_ep EXCEPT ![p].ep = e]
    OBVIOUS
  <2>7. stored[p] = [shared_ep[p] EXCEPT !.ep = e] /\ stored[p].unit = shared_ep[p].unit
    BY <1>3, <2>1, <2>4 DEF SharedRec
  <2>8. shared_ep' = [stored EXCEPT ![p].unit = IF use_nccl_dev_num = 1 THEN dev ELSE @]
    BY <1>0, <1>5, <2>4 DEF Store
  <2>5. shared_ep' = [shared_ep EXCEPT ![p] = [ep |-> e, unit |-> unit,
                                               refcount |-> shared_ep[p].refcount]]
    <3>1. shared_ep' = [stored EXCEPT ![p] =
            [stored[p] EXCEPT !.unit = IF use_nccl_dev_num = 1 THEN dev ELSE stored[p].unit]]
      BY <2>8
    <3>2. unit = IF use_nccl_dev_num = 1 THEN dev ELSE stored[p].unit
      BY <2>2, <2>7
    <3>3. shared_ep' = [stored EXCEPT ![p] = [stored[p] EXCEPT !.unit = unit]]
      BY <3>1, <3>2, Zenon
    <3>4. PICK r \in SharedRec : r = shared_ep[p]
      BY <2>1
    <3>5. [[r EXCEPT !.ep = e] EXCEPT !.unit = unit]
            = [ep |-> e, unit |-> unit, refcount |-> r.refcount]
      <4>1. PICK a \in SharedRec : a = [r EXCEPT !.ep = e]
        BY <1>3 DEF SharedRec
      <4>2. a.ep = e /\ a.refcount = r.refcount
        BY <4>1 DEF SharedRec
      <4>3. [a EXCEPT !.unit = unit] = [ep |-> a.ep, unit |-> unit, refcount |-> a.refcount]
        BY DEF SharedRec
      <4> QED BY <4>1, <4>2, <4>3
    <3>6. [stored[p] EXCEPT !.unit = unit]
            = [ep |-> e, unit |-> unit, refcount |-> shared_ep[p].refcount]
      BY <2>7, <3>4, <3>5
    <3> QED BY <1>3, <2>4, <3>3, <3>6
  <2>6. [ep |-> e, unit |-> unit, refcount |-> shared_ep[p].refcount] \in SharedRec
    BY <2>1, <2>3 DEF SharedRec
  <2> QED BY <1>3, <2>2, <2>5, <2>6
<1>9. Inner(t)
  BY <1>1, <1>3, <1>6, <1>7, <1>8 DEF Inner
<1>10. Uncounted(t, e, u)'
  <2>1. Seen!InitEp(p, dev, e, u)' /\ UNCHANGED <<Stored(p, dev, e), Seen!UnitsAfterInit(e, u)>>
    BY <1>1, <1>5, SeenStays
  <2>2. EndpointsAre(p, Seen!UnitsAfterInit(e, u), seen.abandoned)'
    BY <1>1, <1>5, <2>1 DEF EndpointsAre
  <2>3. shared_ep'[p] = Stored(p, dev, e)
    BY <1>5, <1>8 DEF Stored
  <2> QED BY <1>0, <1>1, <1>5, <1>7, <2>1, <2>2, <2>3 DEF Uncounted, Blank
<1>11. Stage(t)'
  BY <1>4, <1>7, <1>10 DEF Stage
<1> QED BY <1>2, <1>9, <1>11, OpeningKeeps

\* A shared endpoint that has users is open.
LEMMA JoinedOpen ==
  ASSUME Seen!IInv, NEW p \in Rank, ~Seen!MustOpen(p)
  PROVE  seen.shared_ep[p].ep \in Ep /\ seen.ep_unit[seen.shared_ep[p].ep] \in Dev
<1>1. /\ use_shared_ep \in {0, 1} /\ seen.shared_ep \in [Rank -> SharedRec]
      /\ seen.comm \in [Comm -> CommRec \cup {NULL}]
      /\ seen.ep_unit \in [Ep -> Dev \cup {NULL}]
  BY SeenTypes
<1>2. seen.shared_ep[p].refcount \in Nat
  BY <1>1 DEF SharedRec
<1>3. use_shared_ep = 1 /\ seen.shared_ep[p].refcount > 0
  BY <1>1, <1>2 DEF Seen!MustOpen
<1>4. Seen!RefcountExact /\ Seen!SharedEpIsUsersEp /\ Seen!EndpointOutlivesComms
  BY DEF Seen!IInv, Seen!EpInv
<1>5. Seen!SharedComms(p) # {}
  BY <1>2, <1>3, <1>4, SeenAssumption, Seen!RefcountZero
<1>6. PICK d \in Comm : seen.comm[d] # NULL /\ d \in Seen!SharedComms(p)
  BY <1>5 DEF Seen!SharedComms
<1>7. seen.comm[d].ep = seen.shared_ep[p].ep
  BY <1>3, <1>4, <1>6 DEF Seen!SharedEpIsUsersEp
<1>8. seen.comm[d].ep \in Ep
  BY <1>1, <1>6 DEF CommRec
<1>9. seen.ep_unit[seen.comm[d].ep] # NULL
  BY <1>4, <1>6 DEF Seen!EndpointOutlivesComms, Seen!Live
<1> QED BY <1>1, <1>7, <1>8, <1>9

\* The call joins its rank's endpoint, and is not counted yet.
LEMMA JoinKeeps ==
  ASSUME StepsInv, NEW t \in Thread, Join(t)
  PROVE  StepsInv' /\ UNCHANGED Seen!vars
<1> DEFINE p == ThreadRank[t]
<1>0. PICK dev : dev = frame[t].dev
  OBVIOUS
<1>1. /\ frame[t] # NULL /\ frame[t].pc = "join" /\ SameCall
      /\ UNCHANGED <<next_tag, shared_ep, comm, config, seen>>
      /\ use_shared_ep' = use_shared_ep /\ UNCHANGED <<ep_unit, abandoned>>
  BY DEF Join, At, SameCall, config, epVars
<1>2. frame[t].op # "close" /\ Starting(t)
  BY <1>1, InCall DEF Closing, Opening, Stage, FiniLabel
<1>3. /\ p \in Rank /\ frame[t] \in Frame /\ frame \in [Thread -> Frame \cup {NULL}]
      /\ use_shared_ep \in {0, 1}
      /\ shared_ep \in [Rank -> SharedRec] /\ seen.shared_ep \in [Rank -> SharedRec]
      /\ ep_unit \in [Ep -> Dev \cup {NULL}] /\ seen.ep_unit \in [Ep -> Dev \cup {NULL}]
      /\ abandoned \in SUBSET Ep /\ comm = [c \in Comm |-> comm[c]]
      /\ Seen!IInv
  BY <1>1, InCall
<1>4. /\ AsSeen(p) /\ comm[frame[t].c] = Blank(dev)
      /\ ~Seen!UnitRefused(p, dev) /\ ~Seen!MustOpen(p) /\ ~frame[t].failed
  BY <1>0, <1>1, <1>2 DEF Starting
<1>5. PICK e \in Ep, u \in Dev : e = seen.shared_ep[p].ep /\ u = seen.ep_unit[e]
  BY <1>3, <1>4, JoinedOpen
<1>6. /\ frame'[t] = [frame[t] EXCEPT !.pc = "attach", !.ep = e]
      /\ frame' = [frame EXCEPT ![t] = frame'[t]]
  BY <1>3, <1>4, <1>5 DEF Join, AsSeen
<1>7. /\ frame'[t] \in Frame
      /\ frame'[t].c = frame[t].c /\ frame'[t].op = frame[t].op
      /\ frame'[t].h = frame[t].h /\ frame'[t].dev = frame[t].dev
      /\ frame'[t].ep = e /\ frame'[t].failed = frame[t].failed
      /\ frame'[t].pc = "attach"
  BY <1>3, <1>6 DEF Frame, Label
<1>8. Inner(t)
  BY <1>1, <1>3, <1>6, <1>7 DEF Inner
<1>9. Seen!InitEp(p, dev, e, u)
  BY <1>4, <1>5 DEF Seen!InitEp
<1>10. Uncounted(t, e, u)'
  <2>1. /\ Seen!InitEp(p, dev, e, u)'
        /\ UNCHANGED <<Stored(p, dev, e), Seen!UnitsAfterInit(e, u)>>
    BY <1>1, <1>9, SeenStays
  <2>2. EndpointsAre(p, Seen!UnitsAfterInit(e, u), seen.abandoned)'
    BY <1>1, <1>3, <1>4, <1>5 DEF EndpointsAre, AsSeen, Seen!UnitsAfterInit
  <2>3. shared_ep'[p] = Stored(p, dev, e)
    <3>1. seen.shared_ep[p] = [ep |-> e, unit |-> seen.shared_ep[p].unit,
                               refcount |-> seen.shared_ep[p].refcount]
      BY <1>3, <1>5 DEF SharedRec
    <3> QED BY <1>1, <1>4, <3>1 DEF Stored, AsSeen
  <2> QED BY <1>0, <1>1, <1>4, <1>7, <2>1, <2>2, <2>3 DEF Uncounted, Blank
<1>11. Stage(t)'
  BY <1>4, <1>7, <1>10 DEF Stage
<1> QED BY <1>2, <1>8, <1>11, OpeningKeeps

\* The call is attached to its endpoint and counted.
LEMMA AttachKeeps ==
  ASSUME StepsInv, NEW t \in Thread, Attach(t)
  PROVE  StepsInv' /\ UNCHANGED Seen!vars
<1> DEFINE p == ThreadRank[t]
           c == frame[t].c
<1>0. PICK dev : dev = frame[t].dev
  OBVIOUS
<1>1. /\ frame[t] # NULL /\ frame[t].pc = "attach" /\ SameCall
      /\ UNCHANGED <<next_tag, epVars, config, seen>>
      /\ use_shared_ep' = use_shared_ep /\ UNCHANGED <<ep_unit, abandoned>>
  BY DEF Attach, At, SameCall, config, epVars
<1>2. frame[t].op # "close" /\ Stage(t)
  BY <1>1, InCall DEF Closing, Opening, FiniLabel
<1>3. /\ p \in Rank /\ frame[t] \in Frame /\ frame \in [Thread -> Frame \cup {NULL}]
      /\ dev \in Dev /\ c \in Comm
      /\ use_shared_ep \in {0, 1}
      /\ shared_ep \in [Rank -> SharedRec] /\ seen.shared_ep \in [Rank -> SharedRec]
      /\ ep_unit \in [Ep -> Dev \cup {NULL}]
      /\ abandoned \in SUBSET Ep /\ comm = [d \in Comm |-> comm[d]]
  BY <1>0, <1>1, InCall
<1>4. PICK e \in Ep, u \in Dev : Uncounted(t, e, u) /\ ~frame[t].failed
  BY <1>1, <1>2 DEF Stage
<1>5. /\ Seen!InitEp(p, dev, e, u) /\ frame[t].ep = e /\ comm[c] = Blank(dev)
      /\ EndpointsAre(p, Seen!UnitsAfterInit(e, u), seen.abandoned)
      /\ shared_ep[p] = Stored(p, dev, e)
  BY <1>0, <1>1, <1>4 DEF Uncounted
<1>6. /\ frame'[t] = [frame[t] EXCEPT !.pc = "mq_init"]
      /\ frame' = [frame EXCEPT ![t] = frame'[t]] /\ frame'[t] \in Frame
  BY <1>1, Jumps DEF Attach, Label, PsmRc
<1>7. /\ frame'[t].c = frame[t].c /\ frame'[t].op = frame[t].op
      /\ frame'[t].h = frame[t].h /\ frame'[t].dev = frame[t].dev
      /\ frame'[t].failed = frame[t].failed
      /\ frame'[t].pc = "mq_init"
  BY <1>3, <1>6 DEF Frame
<1>8. /\ \A q \in Rank \ {p} : shared_ep'[q] = shared_ep[q]
      /\ shared_ep'[p] = Seen!SharedAfterInit(p, dev, e)
      /\ shared_ep' \in [Rank -> SharedRec]
  <2>1. PICK n \in Nat : n = shared_ep[p].refcount + use_shared_ep
    BY <1>3 DEF SharedRec
  <2>2. shared_ep' = [shared_ep EXCEPT ![p] = [shared_ep[p] EXCEPT !.refcount = n]]
    BY <2>1 DEF Attach
  <2>3. [shared_ep[p] EXCEPT !.refcount = n]
          = [ep |-> shared_ep[p].ep, unit |-> shared_ep[p].unit, refcount |-> n]
    BY <1>3 DEF SharedRec
  <2>4. [shared_ep[p] EXCEPT !.refcount = n] = Seen!SharedAfterInit(p, dev, e)
    <3>1. CASE use_shared_ep = 0
      <4>1. n = shared_ep[p].refcount /\ shared_ep[p] = seen.shared_ep[p]
        BY <1>3, <1>5, <2>1, <3>1 DEF Stored, SharedRec
      <4>2. shared_ep[p] = [ep |-> shared_ep[p].ep, unit |-> shared_ep[p].unit,
                            refcount |-> shared_ep[p].refcount]
        BY <1>3 DEF SharedRec
      <4> QED BY <2>3, <3>1, <4>1, <4>2 DEF Seen!SharedAfterInit
    <3>2. CASE use_shared_ep = 1
      <4>1. /\ shared_ep[p].ep = e
            /\ shared_ep[p].unit = IF Seen!MustOpen(p) /\ use_nccl_dev_num = 1 THEN dev
                                   ELSE seen.shared_ep[p].unit
            /\ n = seen.shared_ep[p].refcount + 1
        BY <1>5, <2>1, <3>2 DEF Stored
      <4> QED BY <2>3, <3>2, <4>1 DEF Seen!SharedAfterInit
    <3> QED BY <1>3, <3>1, <3>2
  <2>5. [shared_ep[p] EXCEPT !.refcount = n] \in SharedRec
    BY <1>3, <2>1 DEF SharedRec
  <2> QED BY <1>3, <2>2, <2>4, <2>5
<1>9. /\ comm' = [d \in Comm |-> comm'[d]] /\ comm'[c] = OnEp(e, dev)
      /\ \A d \in Comm \ {c} : comm'[d] = comm[d]
  <2>1. comm' = [comm EXCEPT ![c].ep = e, ![c].shared = use_shared_ep]
    BY <1>5 DEF Attach
  <2>2. comm'[c] = [Blank(dev) EXCEPT !.ep = e, !.shared = use_shared_ep]
    BY <1>3, <1>5, <2>1
  <2>3. comm'[c] = OnEp(e, dev)
    BY <2>2 DEF Blank, OnEp
  <2> QED BY <1>3, <2>1, <2>3
<1>10. Inner(t)
  BY <1>1, <1>3, <1>6, <1>7, <1>8, <1>9 DEF Inner
<1>11. Attached(t, e, u)'
  <2>1. /\ Seen!InitEp(p, dev, e, u)'
        /\ UNCHANGED <<Seen!SharedAfterInit(p, dev, e), Seen!UnitsAfterInit(e, u)>>
    BY <1>1, <1>5, SeenStays
  <2>2. EndpointsAre(p, Seen!UnitsAfterInit(e, u), seen.abandoned)'
    BY <1>1, <1>5, <2>1 DEF EndpointsAre
  <2> QED BY <1>0, <1>1, <1>7, <1>8, <1>9, <2>1, <2>2 DEF Attached, OnEp
<1>12. Stage(t)'
  BY <1>4, <1>7, <1>11 DEF Stage
<1> QED BY <1>2, <1>10, <1>12, OpeningKeeps

\* A listen or connect that fails once it is attached undoes the attachment.
LEMMA BailOutBegins ==
  ASSUME StepsInv, NEW t \in Thread, Inner(t), frame[t].op # "close",
         UNCHANGED <<shared_ep, comm, epVars>>,
         NEW e \in Ep, NEW u \in Dev, Attached(t, e, u),
         frame'[t].pc = "release", frame'[t].failed, frame'[t].psm # "PSM2_OK",
         frame[t].op = "listen" => frame'[t].psm = "PSM2_ERROR"
  PROVE  Stage(t)'
<1> DEFINE p == ThreadRank[t]
<1>0. PICK dev : dev = frame[t].dev
  OBVIOUS
<1>1. /\ UNCHANGED <<config, seen, ep_unit, abandoned>> /\ use_shared_ep' = use_shared_ep
      /\ frame'[t].c = frame[t].c /\ frame'[t].op = frame[t].op /\ frame'[t].dev = dev
  BY <1>0 DEF Inner, SameCall, config, epVars
<1>2. /\ Seen!InitEp(p, dev, e, u) /\ comm[frame[t].c] = OnEp(e, dev)
      /\ EndpointsAre(p, Seen!UnitsAfterInit(e, u), seen.abandoned)
      /\ shared_ep[p] = Seen!SharedAfterInit(p, dev, e)
  BY <1>0 DEF Attached
<1>3. /\ Seen!InitEp(p, dev, e, u)'
      /\ UNCHANGED <<Seen!SharedAfterInit(p, dev, e), Seen!UnitsAfterInit(e, u)>>
  <2>1. UNCHANGED <<config, seen>>
    BY <1>1
  <2> QED BY <1>2, <2>1, SeenStays
<1>4. EndpointsAre(p, Seen!UnitsAfterInit(e, u), seen.abandoned)'
  BY <1>1, <1>2, <1>3 DEF EndpointsAre
<1>5. InFini(t, Seen!SharedAfterInit(p, dev, e), use_shared_ep, Seen!UnitsAfterInit(e, u), e)'
  BY <1>1, <1>2, <1>3, <1>4 DEF InFini, OnEp
<1>6. BailingOut(t)'
  BY <1>1, <1>3, <1>5 DEF BailingOut, FiniLabel
<1> QED BY <1>6 DEF Stage

\* An attachment stays while only the label of its call moves.
LEMMA AttachedStays ==
  ASSUME StepsInv, NEW t \in Thread, Inner(t), UNCHANGED <<shared_ep, comm, epVars>>,
         NEW e \in Ep, NEW u \in Dev, Attached(t, e, u)
  PROVE  Attached(t, e, u)'
<1> DEFINE p == ThreadRank[t]
<1>0. PICK dev : dev = frame[t].dev
  OBVIOUS
<1>1. /\ UNCHANGED <<config, seen, ep_unit, abandoned>> /\ use_shared_ep' = use_shared_ep
      /\ frame'[t].c = frame[t].c /\ frame'[t].op = frame[t].op /\ frame'[t].dev = dev
  BY <1>0 DEF Inner, SameCall, config, epVars
<1>2. /\ Seen!InitEp(p, dev, e, u) /\ comm[frame[t].c] = OnEp(e, dev)
      /\ EndpointsAre(p, Seen!UnitsAfterInit(e, u), seen.abandoned)
      /\ shared_ep[p] = Seen!SharedAfterInit(p, dev, e)
  BY <1>0 DEF Attached
<1>3. /\ Seen!InitEp(p, dev, e, u)'
      /\ UNCHANGED <<Seen!SharedAfterInit(p, dev, e), Seen!UnitsAfterInit(e, u)>>
  <2>1. UNCHANGED <<config, seen>>
    BY <1>1
  <2> QED BY <1>2, <2>1, SeenStays
<1>4. EndpointsAre(p, Seen!UnitsAfterInit(e, u), seen.abandoned)'
  BY <1>1, <1>2, <1>3 DEF EndpointsAre
<1> QED BY <1>1, <1>2, <1>3, <1>4 DEF Attached, OnEp

\* psm2_mq_init, and its failure.
LEMMA MqInitKeeps ==
  ASSUME StepsInv, NEW t \in Thread, MqInit(t)
  PROVE  StepsInv' /\ UNCHANGED Seen!vars
<1>1. /\ frame[t] # NULL /\ frame[t].pc = "mq_init" /\ SameCall
      /\ UNCHANGED <<next_tag, shared_ep, comm, epVars>>
  BY DEF MqInit, At
<1>2. frame[t].op # "close" /\ Stage(t) /\ frame[t] \in Frame
  BY <1>1, InCall DEF Closing, Opening, FiniLabel
<1>3. PICK e \in Ep, u \in Dev : Attached(t, e, u) /\ ~frame[t].failed
  BY <1>1, <1>2 DEF Stage
<1>4. CASE Goto(t, IF frame[t].op = "listen" THEN "tag" ELSE "ep_connect")
  <2>1. /\ Inner(t) /\ frame'[t].failed = frame[t].failed
        /\ frame'[t].pc = IF frame[t].op = "listen" THEN "tag" ELSE "ep_connect"
    BY <1>1, <1>4, GoesTo DEF Label
  <2>2. Attached(t, e, u)'
    BY <1>1, <1>3, <2>1, AttachedStays
  <2>3. frame[t].op \in {"listen", "connect"} /\ frame'[t].op = frame[t].op
    BY <1>2, <2>1 DEF Frame, Inner
  <2>4. Stage(t)'
    BY <1>3, <2>1, <2>2, <2>3 DEF Stage
  <2> QED BY <1>2, <2>1, <2>4, OpeningKeeps
<1>5. CASE Fails(t, "release", "PSM2_ERROR")
  <2>1. /\ Inner(t) /\ frame'[t].pc = "release" /\ frame'[t].failed
        /\ frame'[t].psm = "PSM2_ERROR"
    BY <1>1, <1>5, FailsTo DEF Label, PsmRc
  <2>2. Stage(t)'
    BY <1>1, <1>2, <1>3, <2>1, BailOutBegins
  <2> QED BY <1>2, <2>1, <2>2, OpeningKeeps
<1> QED BY <1>4, <1>5 DEF MqInit

\* psm2_ep_connect fails: the attachment is undone.
LEMMA EpConnectFailsKeeps ==
  ASSUME StepsInv, NEW t \in Thread, NEW psm \in PsmRc \ {"PSM2_OK"}, EpConnectFails(t, psm)
  PROVE  StepsInv' /\ UNCHANGED Seen!vars
<1>1. /\ frame[t] # NULL /\ frame[t].pc = "ep_connect" /\ SameCall
      /\ UNCHANGED <<next_tag, shared_ep, comm, epVars>> /\ Fails(t, "release", psm)
  BY DEF EpConnectFails, At
<1>2. frame[t].op # "close" /\ Stage(t)
  BY <1>1, InCall DEF Closing, Opening, FiniLabel
<1>3. PICK e \in Ep, u \in Dev : Attached(t, e, u)
  BY <1>1, <1>2 DEF Stage
<1>4. frame[t].op = "connect"
  BY <1>1, <1>2 DEF Stage
<1>5. /\ Inner(t) /\ frame'[t].pc = "release" /\ frame'[t].failed /\ frame'[t].psm = psm
  BY <1>1, FailsTo DEF Label
<1>6. Stage(t)'
  BY <1>1, <1>2, <1>3, <1>4, <1>5, BailOutBegins
<1> QED BY <1>2, <1>5, <1>6, OpeningKeeps

-------------------------------------------------------------------------------
(* psm2comm_fini.                                                          *)

\* What psm2comm_fini may be called with: only an attached communicator has a
\* reference to release, and the endpoint is one of the process.
FiniArgs(t, sh, s, units, e) ==
  /\ sh \in SharedRec /\ s \in {0, 1}
  /\ s = 1 => sh.refcount > 0
  /\ units \in [Ep -> Dev \cup {NULL}]
  /\ e \in Ep /\ EpHome[e] = ThreadRank[t]

\* The result of a call in psm2comm_fini: that of a close is the result of its PSM2
\* calls, that of a bail-out is known.
ResultKept(t) ==
  IF frame[t].op = "close"
    THEN frame[t].psm \in {"PSM2_OK", "PSM2_ERROR"} /\ (frame[t].failed <=> frame[t].psm = "PSM2_ERROR")
           => frame'[t].psm \in {"PSM2_OK", "PSM2_ERROR"}
              /\ (frame'[t].failed <=> frame'[t].psm = "PSM2_ERROR")
    ELSE frame'[t].psm = frame[t].psm /\ (frame[t].failed => frame'[t].failed)

\* The reference is released.
LEMMA ReleaseMoves ==
  ASSUME StepsInv, NEW t \in Thread, Release(t), NEW sh, NEW s, NEW units, NEW e,
         FiniArgs(t, sh, s, units, e), InFini(t, sh, s, units, e)
  PROVE  /\ Inner(t) /\ UNCHANGED comm /\ frame'[t].pc \in FiniLabel
         /\ InFini(t, sh, s, units, e)' /\ ResultKept(t)
<1> DEFINE p == ThreadRank[t]
<1>1. /\ frame[t] # NULL /\ frame[t].pc = "release" /\ SameCall
      /\ UNCHANGED <<next_tag, comm, epVars, seen, ep_unit, abandoned>>
  BY DEF Release, At, SameCall, epVars
<1>2. /\ p \in Rank /\ frame[t] \in Frame /\ frame \in [Thread -> Frame \cup {NULL}]
      /\ shared_ep \in [Rank -> SharedRec]
      /\ ep_unit \in [Ep -> Dev \cup {NULL}]
      /\ abandoned \in SUBSET Ep /\ comm = [d \in Comm |-> comm[d]]
  BY <1>1, InCall
<1>3. /\ frame'[t] = [frame[t] EXCEPT !.pc = "last_check"]
      /\ frame' = [frame EXCEPT ![t] = frame'[t]] /\ frame'[t] \in Frame
  BY <1>1, Jumps DEF Release, Label, PsmRc
<1>4. /\ frame'[t].c = frame[t].c /\ frame'[t].op = frame[t].op
      /\ frame'[t].h = frame[t].h /\ frame'[t].dev = frame[t].dev
      /\ frame'[t].failed = frame[t].failed /\ frame'[t].psm = frame[t].psm
      /\ frame'[t].pc = "last_check"
  BY <1>2, <1>3 DEF Frame
<1>5. /\ comm[frame[t].c].ep = e /\ comm[frame[t].c].shared = s /\ shared_ep[p] = sh
      /\ EndpointsAre(p, units, seen.abandoned)
  BY <1>1 DEF InFini
<1>6. Released(sh, s) \in SharedRec
  BY DEF FiniArgs, Released, SharedRec
<1>7. /\ shared_ep'[p] = Released(sh, s) /\ shared_ep' \in [Rank -> SharedRec]
      /\ \A q \in Rank \ {p} : shared_ep'[q] = shared_ep[q]
  BY <1>2, <1>5, <1>6 DEF Release
<1>8. Inner(t)
  BY <1>1, <1>2, <1>3, <1>4, <1>7 DEF Inner
<1>9. EndpointsAre(p, units, seen.abandoned)'
  BY <1>1, <1>5 DEF EndpointsAre
<1>10. InFini(t, sh, s, units, e)'
  BY <1>1, <1>4, <1>5, <1>7, <1>9 DEF InFini
<1> QED BY <1>1, <1>4, <1>8, <1>10 DEF FiniLabel, ResultKept

\* Is this the last user.
LEMMA LastCheckMoves ==
  ASSUME StepsInv, NEW t \in Thread, LastCheck(t), NEW sh, NEW s, NEW units, NEW e,
         FiniArgs(t, sh, s, units, e), InFini(t, sh, s, units, e)
  PROVE  /\ Inner(t) /\ UNCHANGED comm /\ frame'[t].pc \in FiniLabel
         /\ InFini(t, sh, s, units, e)' /\ ResultKept(t)
<1> DEFINE p == ThreadRank[t]
<1>1. /\ frame[t] # NULL /\ frame[t].pc = "last_check" /\ SameCall
      /\ UNCHANGED <<next_tag, shared_ep, comm, epVars>>
      /\ UNCHANGED <<seen, ep_unit, abandoned>>
  BY DEF LastCheck, At, SameCall, epVars
<1>2. /\ comm[frame[t].c].ep = e /\ comm[frame[t].c].shared = s
      /\ shared_ep[p] = Released(sh, s) /\ EndpointsAre(p, units, seen.abandoned)
  BY <1>1 DEF InFini
<1>3. Last(t) <=> ClosesEp(sh, s)
  BY <1>2 DEF Last, ClosesEp
<1>4. /\ Inner(t) /\ frame'[t].pc = IF ClosesEp(sh, s) THEN "ep_close" ELSE "free"
      /\ frame'[t].failed = frame[t].failed /\ frame'[t].psm = frame[t].psm
  BY <1>1, <1>3, GoesTo DEF LastCheck, Label
<1>5. EndpointsAre(p, units, seen.abandoned)'
  BY <1>1, <1>2 DEF EndpointsAre
<1>6. ~ClosesEp(sh, s) => SharedAfterFini(sh, s) = Released(sh, s)
  BY DEF SharedAfterFini
<1>7. frame'[t].c = frame[t].c /\ frame'[t].op = frame[t].op
  BY <1>4 DEF Inner
<1>8. InFini(t, sh, s, units, e)'
  <2>1. CASE ClosesEp(sh, s)
    BY <1>1, <1>2, <1>4, <1>5, <1>7, <2>1 DEF InFini
  <2>2. CASE ~ClosesEp(sh, s)
    BY <1>1, <1>2, <1>4, <1>5, <1>6, <1>7, <2>2 DEF InFini
  <2> QED BY <2>1, <2>2
<1> QED BY <1>1, <1>4, <1>7, <1>8 DEF FiniLabel, ResultKept

\* psm2_ep_close, which may fail and leave the endpoint open.
LEMMA EpClosesMoves ==
  ASSUME StepsInv, NEW t \in Thread, NEW eprc \in {"PSM2_OK", "PSM2_ERROR"}, EpCloses(t, eprc),
         NEW sh, NEW s, NEW units, NEW e,
         FiniArgs(t, sh, s, units, e), InFini(t, sh, s, units, e)
  PROVE  /\ Inner(t) /\ UNCHANGED comm /\ frame'[t].pc \in FiniLabel
         /\ InFini(t, sh, s, units, e)' /\ ResultKept(t)
<1> DEFINE p == ThreadRank[t]
<1>1. /\ frame[t] # NULL /\ frame[t].pc = "ep_close" /\ SameCall
      /\ UNCHANGED <<next_tag, shared_ep, comm, seen>>
  BY DEF EpCloses, At, SameCall
<1>2. /\ p \in Rank /\ frame[t] \in Frame /\ frame \in [Thread -> Frame \cup {NULL}]
      /\ shared_ep \in [Rank -> SharedRec]
      /\ ep_unit \in [Ep -> Dev \cup {NULL}]
      /\ abandoned \in SUBSET Ep /\ comm = [d \in Comm |-> comm[d]]
  BY <1>1, InCall
<1>3. /\ comm[frame[t].c].ep = e /\ comm[frame[t].c].shared = s
      /\ shared_ep[p] = Released(sh, s) /\ ClosesEp(sh, s)
      /\ EndpointsAre(p, units, seen.abandoned)
  BY <1>1 DEF InFini
<1>4. /\ s \in {0, 1} /\ units \in [Ep -> Dev \cup {NULL}] /\ e \in Ep /\ EpHome[e] = p
  BY DEF FiniArgs
<1>5. PICK label \in Label, failed \in BOOLEAN, psm \in PsmRc :
        /\ label = IF s = 1 THEN "clear" ELSE "free"
        /\ failed <=> frame[t].failed \/ eprc # "PSM2_OK"
        /\ psm = IF eprc # "PSM2_OK" /\ frame[t].op = "close" THEN eprc ELSE frame[t].psm
  BY <1>2 DEF Frame, Label, PsmRc
<1>6. /\ frame'[t] = [frame[t] EXCEPT !.pc = label, !.failed = failed, !.psm = psm]
      /\ frame' = [frame EXCEPT ![t] = frame'[t]]
  <2>1. frame' = [frame EXCEPT
          ![t].pc = IF s = 1 THEN "clear" ELSE "free",
          ![t].failed = @ \/ eprc # "PSM2_OK",
          ![t].psm = IF eprc # "PSM2_OK" /\ frame[t].op = "close" THEN eprc ELSE @]
    BY <1>3 DEF EpCloses
  <2>2. frame'[t] = [frame[t] EXCEPT
          !.pc = IF s = 1 THEN "clear" ELSE "free",
          !.failed = @ \/ eprc # "PSM2_OK",
          !.psm = IF eprc # "PSM2_OK" /\ frame[t].op = "close" THEN eprc ELSE @]
    BY <1>2, <2>1
  <2>3. frame' = [frame EXCEPT ![t] = frame'[t]]
    BY <1>2, <2>1
  <2> QED BY <1>2, <1>5, <2>2, <2>3 DEF Frame
<1>7. /\ frame'[t] \in Frame
      /\ frame'[t].c = frame[t].c /\ frame'[t].op = frame[t].op
      /\ frame'[t].h = frame[t].h /\ frame'[t].dev = frame[t].dev
      /\ frame'[t].pc = label /\ frame'[t].failed = failed /\ frame'[t].psm = psm
  BY <1>2, <1>6 DEF Frame
<1>8. \/ ep_unit' = [ep_unit EXCEPT ![e] = NULL] /\ UNCHANGED abandoned
      \/ failed /\ ep_unit' = ep_unit /\ abandoned' = abandoned \cup {e}
  BY <1>3, <1>5 DEF EpCloses, EpClose
<1>9. /\ ep_unit' \in [Ep -> Dev \cup {NULL}] /\ abandoned' \in SUBSET Ep
      /\ \A x \in Ep : EpHome[x] # p =>
           ep_unit'[x] = ep_unit[x] /\ (x \in abandoned' <=> x \in abandoned)
  BY <1>2, <1>4, <1>8
<1>10. Inner(t)
  BY <1>1, <1>2, <1>6, <1>7, <1>9 DEF Inner
<1>11. EpClosed(t, units, e)'
  BY <1>1, <1>2, <1>3, <1>4, <1>7, <1>8 DEF EpClosed, EndpointsAre
<1>12. SharedAfterFini(sh, s) = IF s = 1 THEN ZeroSharedEp ELSE Released(sh, s)
  BY <1>3 DEF SharedAfterFini
<1>13. InFini(t, sh, s, units, e)'
  BY <1>1, <1>3, <1>4, <1>5, <1>7, <1>11, <1>12 DEF InFini
<1>14. ResultKept(t)
  BY <1>5, <1>7 DEF ResultKept
<1> QED BY <1>1, <1>5, <1>7, <1>10, <1>13, <1>14 DEF FiniLabel

\* The last user of the shared endpoint clears shared_ep.
LEMMA ClearMoves ==
  ASSUME StepsInv, NEW t \in Thread, Clear(t), NEW sh, NEW s, NEW units, NEW e,
         FiniArgs(t, sh, s, units, e), InFini(t, sh, s, units, e)
  PROVE  /\ Inner(t) /\ UNCHANGED comm /\ frame'[t].pc \in FiniLabel
         /\ InFini(t, sh, s, units, e)' /\ ResultKept(t)
<1> DEFINE p == ThreadRank[t]
<1>1. /\ frame[t] # NULL /\ frame[t].pc = "clear" /\ SameCall
      /\ UNCHANGED <<next_tag, comm, epVars, seen, ep_unit, abandoned>>
  BY DEF Clear, At, SameCall, epVars
<1>2. /\ p \in Rank /\ frame[t] \in Frame /\ frame \in [Thread -> Frame \cup {NULL}]
      /\ shared_ep \in [Rank -> SharedRec]
      /\ ep_unit \in [Ep -> Dev \cup {NULL}]
      /\ abandoned \in SUBSET Ep /\ comm = [d \in Comm |-> comm[d]]
  BY <1>1, InCall
<1>3. /\ frame'[t] = [frame[t] EXCEPT !.pc = "free"]
      /\ frame' = [frame EXCEPT ![t] = frame'[t]] /\ frame'[t] \in Frame
  BY <1>1, Jumps DEF Clear, Label, PsmRc
<1>4. /\ frame'[t].c = frame[t].c /\ frame'[t].op = frame[t].op
      /\ frame'[t].h = frame[t].h /\ frame'[t].dev = frame[t].dev
      /\ frame'[t].failed = frame[t].failed /\ frame'[t].psm = frame[t].psm
      /\ frame'[t].pc = "free"
  BY <1>2, <1>3 DEF Frame
<1>5. s = 1 /\ ClosesEp(sh, s) /\ EpClosed(t, units, e)
  BY <1>1 DEF InFini
<1>6. ZeroSharedEp \in SharedRec
  BY ConstAssumption DEF ZeroSharedEp, SharedRec
<1>7. /\ shared_ep'[p] = ZeroSharedEp /\ shared_ep' \in [Rank -> SharedRec]
      /\ \A q \in Rank \ {p} : shared_ep'[q] = shared_ep[q]
  BY <1>2, <1>6 DEF Clear
<1>8. Inner(t)
  BY <1>1, <1>2, <1>3, <1>4, <1>7 DEF Inner
<1>9. EpClosed(t, units, e)'
  BY <1>1, <1>4, <1>5 DEF EpClosed, EndpointsAre
<1>10. SharedAfterFini(sh, s) = ZeroSharedEp
  BY <1>5 DEF SharedAfterFini
<1>11. InFini(t, sh, s, units, e)'
  BY <1>1, <1>4, <1>5, <1>7, <1>9, <1>10 DEF InFini
<1> QED BY <1>1, <1>4, <1>8, <1>11 DEF FiniLabel, ResultKept

\* The arguments of a close.
LEMMA CloseArgs ==
  ASSUME StepsInv, NEW t \in Thread, frame[t] # NULL, Closing(t)
  PROVE  FiniArgs(t, seen.shared_ep[ThreadRank[t]], seen.comm[frame[t].c].shared,
                  seen.ep_unit, seen.comm[frame[t].c].ep)
<1> DEFINE p == ThreadRank[t]
           c == frame[t].c
<1>1. /\ p \in Rank /\ c \in Comm /\ Home[c] = p /\ Seen!IInv
      /\ seen.shared_ep \in [Rank -> SharedRec] /\ seen.ep_unit \in [Ep -> Dev \cup {NULL}]
      /\ seen.comm \in [Comm -> CommRec \cup {NULL}]
  BY InCall
<1>2. seen.comm[c] # NULL
  BY <1>1 DEF Closing, Seen!IInv, Seen!HeldLive
<1>3. seen.comm[c].shared \in {0, 1} /\ seen.comm[c].ep \in Ep
  BY <1>1, <1>2 DEF CommRec
<1>4. c \in Seen!Live /\ Seen!TypeOK /\ Seen!EpInv
  BY <1>1, <1>2 DEF Seen!Live, Seen!IInv
<1>5. seen.comm[c].shared = 1 => seen.shared_ep[p].refcount > 0
  BY <1>1, <1>4, SeenAssumption, Seen!CloseReleasesOne
<1>6. EpHome[seen.comm[c].ep] = p
  BY <1>1, <1>4 DEF Seen!EpInv, Seen!CommHome
<1> QED BY <1>1, <1>3, <1>5, <1>6 DEF FiniArgs

\* The arguments of a bail-out.
LEMMA BailArgs ==
  ASSUME StepsInv, NEW t \in Thread, frame[t] # NULL, NEW e \in Ep, NEW u \in Dev,
         Seen!InitEp(ThreadRank[t], frame[t].dev, e, u)
  PROVE  FiniArgs(t, Seen!SharedAfterInit(ThreadRank[t], frame[t].dev, e), use_shared_ep,
                  Seen!UnitsAfterInit(e, u), e)
<1> DEFINE p == ThreadRank[t]
<1>1. /\ p \in Rank /\ frame[t].dev \in Dev /\ Seen!IInv /\ use_shared_ep \in {0, 1}
      /\ seen.shared_ep \in [Rank -> SharedRec] /\ seen.ep_unit \in [Ep -> Dev \cup {NULL}]
  BY InCall
<1>2. PICK dev \in Dev : dev = frame[t].dev
  BY <1>1
<1>3. EpHome[e] = p
  BY <1>1, <1>2, InitEpOwn
<1>4. /\ Seen!SharedAfterInit(p, dev, e) \in SharedRec
      /\ use_shared_ep = 1 => Seen!SharedAfterInit(p, dev, e).refcount > 0
  BY <1>1 DEF Seen!SharedAfterInit, SharedRec
<1>5. Seen!UnitsAfterInit(e, u) \in [Ep -> Dev \cup {NULL}]
  BY <1>1 DEF Seen!UnitsAfterInit
<1> QED BY <1>1, <1>2, <1>3, <1>4, <1>5 DEF FiniArgs

\* A step of psm2comm_fini.
FiniStep(t) ==
  \/ Release(t) \/ LastCheck(t) \/ Clear(t)
  \/ \E eprc \in {"PSM2_OK", "PSM2_ERROR"} : EpCloses(t, eprc)

\* psm2comm_fini goes on, in a close and in a bail-out.
LEMMA FiniKeeps ==
  ASSUME StepsInv, NEW t \in Thread, FiniStep(t)
  PROVE  StepsInv' /\ UNCHANGED Seen!vars
<1> DEFINE p == ThreadRank[t]
           c == frame[t].c
<1>1. /\ frame[t] # NULL /\ frame[t].pc \in {"release", "last_check", "ep_close", "clear"}
      /\ UNCHANGED <<config, held, handles, seen>>
  BY DEF FiniStep, Release, LastCheck, EpCloses, Clear, At, SameCall
<1>2. IF frame[t].op = "close" THEN Closing(t) ELSE Opening(t)
  BY <1>1, InCall
<1>3. ASSUME NEW sh, NEW s, NEW units, NEW e,
             FiniArgs(t, sh, s, units, e), InFini(t, sh, s, units, e)
      PROVE  /\ Inner(t) /\ UNCHANGED comm /\ frame'[t].pc \in FiniLabel
             /\ InFini(t, sh, s, units, e)' /\ ResultKept(t)
  BY <1>3, ReleaseMoves, LastCheckMoves, EpClosesMoves, ClearMoves DEF FiniStep
<1>4. CASE frame[t].op = "close"
  <2>1. Closing(t)
    BY <1>2, <1>4
  <2>2. PICK sh, s, units, e :
          /\ sh = seen.shared_ep[p] /\ s = seen.comm[c].shared
          /\ units = seen.ep_unit /\ e = seen.comm[c].ep
    OBVIOUS
  <2>3. FiniArgs(t, sh, s, units, e) /\ InFini(t, sh, s, units, e)
    BY <1>1, <2>1, <2>2, CloseArgs DEF Closing
  <2>4. /\ Inner(t) /\ UNCHANGED comm /\ frame'[t].pc \in FiniLabel
        /\ InFini(t, sh, s, units, e)' /\ ResultKept(t)
    BY <1>3, <2>3
  <2>5. frame'[t].c = c /\ frame'[t].op = frame[t].op
    BY <2>4 DEF Inner
  <2>6. /\ frame'[t].psm \in {"PSM2_OK", "PSM2_ERROR"}
        /\ frame'[t].failed <=> frame'[t].psm = "PSM2_ERROR"
    BY <1>4, <2>1, <2>4 DEF ResultKept, Closing
  <2>7. InFini(t, seen.shared_ep[p], seen.comm[frame[t].c].shared, seen.ep_unit,
               seen.comm[frame[t].c].ep)'
    BY <1>1, <2>2, <2>4, <2>5
  <2>8. Closing(t)'
    BY <1>1, <2>1, <2>4, <2>5, <2>6, <2>7 DEF Closing
  <2> QED BY <1>4, <2>4, <2>8, InnerKeeps
<1>5. CASE frame[t].op # "close"
  <2>1. Opening(t) /\ Stage(t)
    BY <1>2, <1>5 DEF Opening
  <2>2. BailingOut(t)
    BY <1>1, <2>1 DEF Stage, Refused
  <2>3. PICK dev : dev = frame[t].dev
    OBVIOUS
  <2>4. PICK e \in Ep, u \in Dev :
          /\ Seen!InitEp(p, dev, e, u)
          /\ InFini(t, Seen!SharedAfterInit(p, dev, e), use_shared_ep,
                    Seen!UnitsAfterInit(e, u), e)
    BY <2>2, <2>3 DEF BailingOut
  <2>5. PICK sh, s, units :
          /\ sh = Seen!SharedAfterInit(p, dev, e) /\ s = use_shared_ep
          /\ units = Seen!UnitsAfterInit(e, u)
    OBVIOUS
  <2>6. FiniArgs(t, sh, s, units, e) /\ InFini(t, sh, s, units, e)
    BY <1>1, <2>3, <2>4, <2>5, BailArgs
  <2>7. /\ Inner(t) /\ UNCHANGED comm /\ frame'[t].pc \in FiniLabel
        /\ InFini(t, sh, s, units, e)' /\ ResultKept(t)
    BY <1>3, <2>6
  <2>8. /\ frame'[t].c = c /\ frame'[t].op = frame[t].op /\ frame'[t].dev = dev
        /\ UNCHANGED use_shared_ep
    BY <1>1, <2>3, <2>7 DEF Inner, config
  <2>9. /\ Seen!InitEp(p, dev, e, u)'
        /\ UNCHANGED <<Seen!SharedAfterInit(p, dev, e), Seen!UnitsAfterInit(e, u)>>
    <3>1. UNCHANGED <<config, seen>>
      BY <1>1
    <3> QED BY <2>4, <3>1, SeenStays
  <2>10. InFini(t, Seen!SharedAfterInit(p, dev, e), use_shared_ep,
                Seen!UnitsAfterInit(e, u), e)'
    BY <2>5, <2>7, <2>8, <2>9
  <2>11. frame'[t].psm = frame[t].psm /\ frame'[t].failed
    BY <1>5, <2>2, <2>7 DEF ResultKept, BailingOut
  <2>12. BailingOut(t)'
    BY <2>2, <2>7, <2>8, <2>9, <2>10, <2>11 DEF BailingOut
  <2>13. Stage(t)'
    BY <2>7, <2>12 DEF Stage, FiniLabel
  <2> QED BY <1>5, <2>7, <2>13, OpeningKeeps
<1> QED BY <1>4, <1>5

-------------------------------------------------------------------------------
(* Calls begin.                                                            *)

\* A call begins: the frame is new, and the statics, PSM2 and what was seen stay.
LEMMA EnterKeeps ==
  ASSUME Serialised, StepsInv, NEW t \in Thread, NEW f \in Frame, Enters(t, f),
         f.op = "connect" => f.h \in Handle
                             /\ \A x \in Thread : frame[x] # NULL => frame[x].h # f.h,
         comm' = [d \in Comm |-> comm'[d]],
         \A d \in Comm : Home[d] # ThreadRank[t] => comm'[d] = comm[d],
         CallOK(t)'
  PROVE  StepsInv' /\ UNCHANGED Seen!vars
<1>1. /\ MayCall(t) /\ frame' = [frame EXCEPT ![t] = f]
      /\ UNCHANGED <<config, next_tag, shared_ep, epVars, held, handles, listens, ret, seen>>
      /\ UNCHANGED <<ep_unit, abandoned>>
  BY DEF Enters, epVars
<1>2. UNCHANGED Seen!vars
  BY <1>1 DEF Seen!vars, Seen!config, Seen!epVars, config
<1>3. PartsOK /\ frame \in [Thread -> Frame \cup {NULL}]
  BY DEF StepsInv, PartsOK, StepsTypeOK
<1>4. frame'[t] = f /\ \A x \in Thread \ {t} : frame'[x] = frame[x]
  BY <1>1, <1>3
<1>5. PartsOK'
  <2>1. frame' \in [Thread -> Frame \cup {NULL}]
    BY <1>1, <1>3
  <2>2. \A x \in Thread : frame'[x] # NULL /\ frame'[x].op = "connect" => frame'[x].h \in Handle
    BY <1>3, <1>4 DEF PartsOK
  <2> QED BY <1>1, <1>3, <2>1, <2>2 DEF PartsOK, StepsTypeOK
<1>6. OthersStay(t)
  <2>1. \A q \in Rank \ {ThreadRank[t]} : RankStays(q)
    BY <1>1 DEF RankStays
  <2> QED BY <1>1, <1>4, <2>1 DEF OthersStay
<1>7. \A x \in Thread : frame[x] # NULL => ThreadRank[x] # ThreadRank[t]
  BY <1>1, NoCall
<1>8. frame'[t] # NULL
  BY <1>4, NoFrameIsNull
<1>9. frame'[t].op = "connect" =>
        \A x \in Thread \ {t} :
          frame[x] # NULL /\ frame[x].op = "connect" => frame[x].h # frame'[t].h
  BY <1>4
<1> QED BY <1>2, <1>5, <1>6, <1>7, <1>8, <1>9, StepKeeps

\* listen and connect begin with a new communicator.
LEMMA NewCommKeeps ==
  ASSUME Serialised, StepsInv, NEW t \in Thread, NEW op \in {"listen", "connect"},
         NEW dev \in Dev, NEW c \in Comm, NEW h \in Handle \cup {NULL},
         NewComm(t, op, dev, c, h),
         op = "listen" => TagsLeft(ThreadRank[t]),
         op = "connect" => h \in handles /\ \A x \in Thread : frame[x] # NULL => frame[x].h # h
  PROVE  StepsInv' /\ UNCHANGED Seen!vars
<1> DEFINE p == ThreadRank[t]
           new == [pc |-> "unit_check", op |-> op, c |-> c, dev |-> dev, h |-> h,
                   ep |-> NULL, failed |-> FALSE, psm |-> "PSM2_OK"]
<1>1. PICK f : f = new
  OBVIOUS
<1>2. /\ f.pc = "unit_check" /\ f.op = op /\ f.c = c /\ f.dev = dev /\ f.h = h
      /\ ~f.failed
  BY <1>1
<1>3. f \in Frame
  BY <1>1 DEF Frame, Label, PsmRc
<1>4. /\ Enters(t, f) /\ Allocates(p, c) /\ comm' = [comm EXCEPT ![c] = Blank(dev)]
  BY <1>1 DEF NewComm
<1>5. /\ UNCHANGED <<config, next_tag, shared_ep, epVars, held, handles, seen>>
      /\ MayCall(t) /\ frame' = [frame EXCEPT ![t] = f]
      /\ UNCHANGED <<ep_unit, abandoned>>
  BY <1>4 DEF Enters, epVars
<1>6. PartsOK /\ frame \in [Thread -> Frame \cup {NULL}] /\ comm = [d \in Comm |-> comm[d]]
      /\ handles \in SUBSET Handle
  BY SeenTypes DEF StepsInv, PartsOK, StepsTypeOK
<1>7. frame'[t] = f
  BY <1>5, <1>6
<1>8. Idle(p)
  BY <1>5, NoCall
<1>9. /\ comm' = [d \in Comm |-> comm'[d]] /\ comm'[c] = Blank(dev)
      /\ \A d \in Comm \ {c} : comm'[d] = comm[d]
  BY <1>4, <1>6
<1>10. Home[c] = p /\ comm[c] = NULL /\ held[c] = "none" /\ seen.comm[c] = NULL
  BY <1>4, <1>8 DEF Allocates, Idle
<1>11. Starting(t)'
  <2>1. AsSeen(p)'
    BY <1>5, <1>8, AsSeenStays DEF Idle
  <2> QED BY <1>2, <1>7, <1>9, <2>1 DEF Starting, Blank
<1>12. CallOK(t)'
  <2>1. Opening(t)'
    BY <1>2, <1>5, <1>7, <1>10, <1>11 DEF Opening, Stage, TagsLeft
  <2>2. \A d \in Comm \ {c} : Home[d] = p => comm'[d] = seen'.comm[d]
    BY <1>5, <1>8, <1>9 DEF Idle
  <2> QED BY <1>2, <1>7, <1>10, <2>1, <2>2 DEF CallOK
<1>13. \A d \in Comm : Home[d] # p => comm'[d] = comm[d]
  BY <1>9, <1>10
<1> QED BY <1>2, <1>3, <1>4, <1>6, <1>9, <1>12, <1>13, EnterKeeps

\* A close begins.
LEMMA EnterCloseKeeps ==
  ASSUME Serialised, StepsInv, NEW t \in Thread, NEW c \in Comm,
         NEW mqrc \in {"PSM2_OK", "PSM2_ERROR"}, EnterClose(t, c, mqrc)
  PROVE  StepsInv' /\ UNCHANGED Seen!vars
<1> DEFINE p == ThreadRank[t]
           new == [pc |-> "release", op |-> "close", c |-> c, dev |-> comm[c].dev,
                   h |-> NULL, ep |-> NULL, failed |-> mqrc # "PSM2_OK", psm |-> mqrc]
<1>1. PICK f : f = new
  OBVIOUS
<1>2. /\ f.pc = "release" /\ f.op = "close" /\ f.c = c
      /\ f.failed = (mqrc # "PSM2_OK") /\ f.psm = mqrc
  BY <1>1
<1>3. /\ Enters(t, f) /\ Home[c] = p /\ held[c] \in {"send", "recv", "accepted"}
      /\ UNCHANGED comm
  BY <1>1 DEF EnterClose
<1>4. /\ UNCHANGED <<config, next_tag, shared_ep, epVars, held, handles, seen>>
      /\ MayCall(t) /\ frame' = [frame EXCEPT ![t] = f]
      /\ UNCHANGED <<ep_unit, abandoned>>
  BY <1>3 DEF Enters, epVars
<1>5. PartsOK /\ frame \in [Thread -> Frame \cup {NULL}] /\ comm = [d \in Comm |-> comm[d]]
      /\ seen.comm \in [Comm -> CommRec \cup {NULL}] /\ Seen!HeldLive
  BY SeenTypes DEF StepsInv, PartsOK, StepsTypeOK, Seen!IInv
<1>6. Idle(p)
  BY <1>4, NoCall
<1>7. comm[c] = seen.comm[c] /\ comm[c] \in CommRec
  BY <1>3, <1>5, <1>6 DEF Idle, Seen!HeldLive
<1>8. f \in Frame
  <2>1. comm[c].dev \in Dev
    BY <1>7 DEF CommRec
  <2> QED BY <1>1, <2>1 DEF Frame, Label, PsmRc
<1>9. frame'[t] = f
  BY <1>4, <1>5
<1>10. Closing(t)'
  <2>1. EndpointsAre(p, seen.ep_unit, seen.abandoned)' /\ shared_ep'[p] = seen'.shared_ep[p]
    BY <1>4, <1>6 DEF Idle, AsSeen, EndpointsAre
  <2>2. InFini(t, seen.shared_ep[p], seen.comm[c].shared, seen.ep_unit, seen.comm[c].ep)'
    BY <1>2, <1>3, <1>4, <1>7, <1>9, <2>1 DEF InFini
  <2> QED BY <1>2, <1>3, <1>4, <1>7, <1>9, <2>2 DEF Closing, FiniLabel
<1>11. CallOK(t)'
  <2>1. \A d \in Comm \ {c} : Home[d] = p => comm'[d] = seen'.comm[d]
    BY <1>3, <1>4, <1>6 DEF Idle
  <2> QED BY <1>2, <1>3, <1>9, <1>10, <2>1 DEF CallOK
<1> QED BY <1>2, <1>3, <1>5, <1>8, <1>11, EnterKeeps

\* A call that is one step: it is one of SharedEp as seen, too.
LEMMA OneStepKeeps ==
  ASSUME Serialised, StepsInv, NEW t \in Thread, OneStep(t)
  PROVE  StepsInv' /\ Seen!Next
<1> DEFINE p == ThreadRank[t]
<1>1. MayCall(t) /\ UNCHANGED <<frame, seen>> /\ p \in Rank
  BY StepsAssumption DEF OneStep
<1>2. Idle(p) /\ \A x \in Thread : frame[x] # NULL => ThreadRank[x] # p
  BY <1>1, NoCall
<1>3. PartsOK /\ frame[t] = NULL
  BY <1>1 DEF StepsInv, MayCall
<1>4. /\ Seen!Next /\ UNCHANGED <<config, next_tag, shared_ep, comm, epVars, handles>>
      /\ \A c \in Comm : Home[c] # p => held'[c] = held[c]
  <2>1. ASSUME NEW c \in Comm, Home[c] = p, Accept(c)
        PROVE  /\ Seen!Next
               /\ UNCHANGED <<config, next_tag, shared_ep, comm, epVars, handles>>
               /\ \A d \in Comm : Home[d] # p => held'[d] = held[d]
    <3>1. Seen!Accept(c)
      BY <1>1, <2>1 DEF Accept, Seen!Accept, Succeeds, Seen!Succeeds, Returns, Seen!Returns,
                        config, Seen!config, epVars, Seen!epVars
    <3> QED BY <2>1, <3>1 DEF Seen!Next, Accept
  <2>2. ASSUME NEW c \in Comm, Home[c] = p, CloseListen(c)
        PROVE  /\ Seen!Next
               /\ UNCHANGED <<config, next_tag, shared_ep, comm, epVars, handles>>
               /\ \A d \in Comm : Home[d] # p => held'[d] = held[d]
    <3>1. Seen!CloseListen(c)
      BY <1>1, <2>2 DEF CloseListen, Seen!CloseListen, Succeeds, Seen!Succeeds, Returns,
                        Seen!Returns, config, Seen!config, epVars, Seen!epVars
    <3>2. Seen!Next
      BY <3>1 DEF Seen!Next
    <3>3. /\ UNCHANGED <<config, next_tag, shared_ep, comm, epVars, handles>>
          /\ \E role : held' = [held EXCEPT ![c] = role]
      BY <2>2 DEF CloseListen
    <3>4. \A d \in Comm : Home[d] # p => held'[d] = held[d]
      <4>1. held \in [Comm -> Role]
        BY SeenTypes DEF StepsInv
      <4> QED BY <2>2, <3>3, <4>1
    <3> QED BY <3>2, <3>3, <3>4
  <2>3. ASSUME ListenOutOfTags(p)
        PROVE  /\ Seen!Next
               /\ UNCHANGED <<config, next_tag, shared_ep, comm, epVars, handles, held>>
    <3>1. Seen!ListenOutOfTags(p)
      BY <1>1, <1>3, <2>3 DEF PartsOK, ListenOutOfTags, Seen!ListenOutOfTags, TagsLeft,
           Seen!TagsLeft, Returns, Seen!Returns, config, Seen!config, epVars, Seen!epVars
    <3> QED BY <1>1, <2>3, <3>1 DEF Seen!Next, ListenOutOfTags
  <2>4. ASSUME NEW dev \in Dev, InitFailsEarly(p, dev, "PSM2_OK")
        PROVE  /\ Seen!Next
               /\ UNCHANGED <<config, next_tag, shared_ep, comm, epVars, handles, held>>
    <3>1. Seen!InitFailsEarly(p, dev, "PSM2_OK")
      BY <1>1, <2>4 DEF InitFailsEarly, Seen!InitFailsEarly,
           Returns, Seen!Returns, config, Seen!config, epVars, Seen!epVars
    <3>2. "PSM2_OK" \in Seen!PsmRc
      BY DEF Seen!PsmRc
    <3> QED BY <1>1, <2>4, <3>1, <3>2 DEF Seen!Next, InitFailsEarly
  <2> QED BY <2>1, <2>2, <2>3, <2>4 DEF OneStep
<1>5. UNCHANGED <<ep_unit, abandoned>>
  BY <1>4 DEF epVars
<1>6. PartsOK'
  BY <1>1, <1>3, <1>4, <1>5 DEF PartsOK, StepsTypeOK
<1>7. OthersStay(t)
  <2>1. \A q \in Rank \ {p} : RankStays(q)
    BY <1>1, <1>4, <1>5 DEF RankStays
  <2> QED BY <1>1, <1>4, <2>1 DEF OthersStay
<1>8. Idle(p)'
  BY <1>1, <1>2, <1>4, AsSeenStays DEF Idle
<1> QED BY <1>1, <1>2, <1>3, <1>4, <1>6, <1>7, <1>8, StepKeeps

-------------------------------------------------------------------------------
(* Calls return.                                                           *)

\* A call returns with x in its communicator and n in next_tag, the rest as it was.
Return(t, x, n) ==
  /\ frame[t] # NULL /\ Leaves(t)
  /\ UNCHANGED <<config, shared_ep, epVars>>
  /\ comm' = [comm EXCEPT ![frame[t].c] = x]
  /\ next_tag' = [next_tag EXCEPT ![ThreadRank[t]] = n]

\* What is seen of it is what its rank owns then.
Shown(t, x, n) ==
  /\ seen'.shared_ep = [seen.shared_ep EXCEPT ![ThreadRank[t]] = shared_ep[ThreadRank[t]]]
  /\ seen'.next_tag = [seen.next_tag EXCEPT ![ThreadRank[t]] = n]
  /\ seen'.comm = [seen.comm EXCEPT ![frame[t].c] = x]

\* A call that returns shows what its rank owns.
LEMMA ReturnShows ==
  ASSUME StepsInv, NEW t \in Thread, NEW x, NEW n, Return(t, x, n)
  PROVE  Shown(t, x, n)
<1> DEFINE p == ThreadRank[t]
           c == frame[t].c
<1>1. /\ p \in Rank /\ c \in Comm /\ Home[c] = p
      /\ \A d \in Comm \ {c} : Home[d] = p => comm[d] = seen.comm[d]
      /\ shared_ep \in [Rank -> SharedRec] /\ seen.shared_ep \in [Rank -> SharedRec]
      /\ comm = [d \in Comm |-> comm[d]] /\ seen.comm \in [Comm -> CommRec \cup {NULL}]
  BY InCall DEF Return
<1>2. next_tag = seen.next_tag /\ seen.next_tag \in [Rank -> Nat]
  BY SeenTypes DEF StepsInv, PartsOK
<1>3. UNCHANGED <<shared_ep, ep_unit, abandoned>>
  BY DEF Return, epVars
<1>4. /\ seen'.next_tag = [seen.next_tag EXCEPT ![p] = next_tag'[p]]
      /\ seen'.shared_ep = [seen.shared_ep EXCEPT ![p] = shared_ep'[p]]
      /\ seen'.comm = [d \in Comm |-> IF Home[d] = p THEN comm'[d] ELSE seen.comm[d]]
  BY DEF Return, Leaves
<1>5. /\ seen'.shared_ep = [seen.shared_ep EXCEPT ![p] = shared_ep[p]]
      /\ seen'.next_tag = [seen.next_tag EXCEPT ![p] = n]
  BY <1>1, <1>2, <1>3, <1>4 DEF Return
<1>6. seen'.comm = [seen.comm EXCEPT ![c] = x]
  <2>1. comm'[c] = x /\ \A d \in Comm \ {c} : comm'[d] = comm[d]
    BY <1>1 DEF Return
  <2>2. \A d \in Comm : seen'.comm[d] = [seen.comm EXCEPT ![c] = x][d]
    BY <1>1, <1>4, <2>1
  <2> QED BY <1>1, <1>4, <2>2
<1> QED BY <1>5, <1>6 DEF Shown

\* So it is with the endpoints: those of the other ranks are as they were seen.
LEMMA ReturnShowsEndpoints ==
  ASSUME NEW t \in Thread, NEW x, NEW n, Return(t, x, n),
         NEW units \in [Ep -> Dev \cup {NULL}], NEW gone \in SUBSET Ep,
         EndpointsAre(ThreadRank[t], units, gone),
         \A e \in Ep : EpHome[e] # ThreadRank[t] => units[e] = seen.ep_unit[e],
         \A e \in Ep : EpHome[e] # ThreadRank[t] => (e \in gone <=> e \in seen.abandoned)
  PROVE  seen'.ep_unit = units /\ seen'.abandoned = gone
<1> DEFINE p == ThreadRank[t]
<1>1. /\ seen'.ep_unit =
           [e \in Ep |-> IF EpHome[e] = p THEN ep_unit'[e] ELSE seen.ep_unit[e]]
      /\ seen'.abandoned =
           {e \in Ep : e \in IF EpHome[e] = p THEN abandoned' ELSE seen.abandoned}
      /\ UNCHANGED <<ep_unit, abandoned>>
  BY DEF Return, Leaves, epVars
<1>2. \A e \in Ep : EpHome[e] = p => /\ ep_unit'[e] = units[e]
                                     /\ e \in abandoned' <=> e \in gone
  BY <1>1 DEF EndpointsAre
<1>3. ASSUME NEW e \in Ep
      PROVE  seen'.ep_unit[e] = units[e] /\ (e \in seen'.abandoned <=> e \in gone)
  <2>1. CASE EpHome[e] = p
    BY <1>1, <1>2, <2>1
  <2>2. CASE EpHome[e] # p
    BY <1>1, <2>2
  <2> QED BY <2>1, <2>2
<1> QED BY <1>1, <1>3

\* A call that returns with a step of SharedEp as seen keeps the invariant.
LEMMA ReturnKeeps ==
  ASSUME StepsInv, NEW t \in Thread, NEW x, NEW n, Return(t, x, n), Seen!Next,
         \A d \in Comm \ {frame[t].c} : held'[d] = held[d],
         \A y \in Thread \ {t} :
           frame[y] # NULL /\ frame[y].op = "connect" /\ frame[y].h \in handles
             => frame[y].h \in handles'
  PROVE  StepsInv'
<1> DEFINE p == ThreadRank[t]
           c == frame[t].c
<1>1. /\ p \in Rank /\ c \in Comm /\ Home[c] = p /\ frame \in [Thread -> Frame \cup {NULL}]
      /\ \A d \in Comm \ {c} : Home[d] = p => comm[d] = seen.comm[d]
      /\ shared_ep \in [Rank -> SharedRec] /\ seen.shared_ep \in [Rank -> SharedRec]
      /\ comm = [d \in Comm |-> comm[d]] /\ seen.comm \in [Comm -> CommRec \cup {NULL}]
  BY InCall DEF Return
<1>2. PartsOK /\ next_tag = seen.next_tag /\ seen.next_tag \in [Rank -> Nat]
  BY SeenTypes DEF StepsInv, PartsOK
<1>3. UNCHANGED <<config, shared_ep, ep_unit, abandoned>>
  BY DEF Return, epVars
<1>4. frame'[t] = NULL /\ frame' \in [Thread -> Frame \cup {NULL}]
      /\ \A y \in Thread \ {t} : frame'[y] = frame[y]
  BY <1>1 DEF Return, Leaves
<1>5. /\ seen'.shared_ep = [seen.shared_ep EXCEPT ![p] = shared_ep[p]]
      /\ seen'.next_tag = [seen.next_tag EXCEPT ![p] = n]
      /\ seen'.comm = [seen.comm EXCEPT ![c] = x]
  BY ReturnShows DEF Shown
<1>6. /\ comm' = [comm EXCEPT ![c] = x] /\ next_tag' = [next_tag EXCEPT ![p] = n]
      /\ seen'.ep_unit =
           [e \in Ep |-> IF EpHome[e] = p THEN ep_unit'[e] ELSE seen.ep_unit[e]]
      /\ seen'.abandoned =
           {e \in Ep : e \in IF EpHome[e] = p THEN abandoned' ELSE seen.abandoned}
  BY DEF Return, Leaves
<1>7. PartsOK'
  <2>1. seen'.shared_ep \in [Rank -> SharedRec]
    BY <1>1, <1>5
  <2>2. comm' = [d \in Comm |-> comm'[d]]
    BY <1>1, <1>6
  <2>3. next_tag' = seen'.next_tag
    BY <1>2, <1>5, <1>6
  <2>4. \A y \in Thread : frame'[y] # NULL /\ frame'[y].op = "connect" => frame'[y].h \in Handle
    BY <1>2, <1>4 DEF PartsOK
  <2> QED BY <1>2, <1>3, <1>4, <2>1, <2>2, <2>3, <2>4 DEF PartsOK, StepsTypeOK
<1>8. OthersStay(t)
  <2>1. ASSUME NEW q \in Rank \ {p} PROVE RankStays(q)
    BY <1>1, <1>2, <1>3, <1>5, <1>6, <2>1 DEF RankStays
  <2> QED BY <1>3, <1>4, <2>1 DEF OthersStay
<1>9. Idle(p)'
  <2>1. AsSeen(p)'
    BY <1>1, <1>3, <1>5, <1>6 DEF AsSeen, EndpointsAre
  <2>2. \A d \in Comm : Home[d] = p => comm'[d] = seen'.comm[d]
    BY <1>1, <1>5, <1>6
  <2> QED BY <2>1, <2>2 DEF Idle
<1>10. \A y \in Thread \ {t} : frame[y] # NULL => ThreadRank[y] # ThreadRank[t]
  BY OnlyCall DEF Return
<1> QED BY <1>4, <1>7, <1>8, <1>9, <1>10, StepKeeps

\* A finished psm2comm_fini is that of SharedEp as seen.
LEMMA FiniShows ==
  ASSUME StepsInv, NEW t \in Thread, frame[t].pc = "free", NEW x, NEW n, Return(t, x, n),
         NEW sh, NEW s, NEW units, NEW e,
         FiniArgs(t, sh, s, units, e), InFini(t, sh, s, units, e),
         \A y \in Ep : EpHome[y] # ThreadRank[t] => units[y] = seen.ep_unit[y]
  PROVE  \E eprc \in {"PSM2_OK", "PSM2_ERROR"} :
           /\ Seen!Fini(ThreadRank[t], sh, s, units, e, eprc)
           /\ eprc # "PSM2_OK" => frame[t].failed
<1> DEFINE p == ThreadRank[t]
<1>1. /\ units \in [Ep -> Dev \cup {NULL}] /\ e \in Ep /\ EpHome[e] = p
      /\ seen.abandoned \in SUBSET Ep
  BY SeenTypes DEF FiniArgs, StepsInv
<1>2. /\ shared_ep[p] = SharedAfterFini(sh, s)
      /\ IF ClosesEp(sh, s) THEN EpClosed(t, units, e)
                            ELSE EndpointsAre(p, units, seen.abandoned)
  BY DEF InFini
<1>3. Seen!SharedAfterFini(sh, s) = SharedAfterFini(sh, s) /\ (Seen!ClosesEp(sh, s) <=> ClosesEp(sh, s))
  BY DEF Seen!SharedAfterFini, SharedAfterFini, Seen!ClosesEp, ClosesEp, Seen!Released,
         Released, Seen!ZeroSharedEp, ZeroSharedEp
<1>4. seen'.shared_ep = [seen.shared_ep EXCEPT ![p] = Seen!SharedAfterFini(sh, s)]
  <2>1. Shown(t, x, n)
    BY ReturnShows
  <2> QED BY <1>2, <1>3, <2>1 DEF Shown
<1>5. CASE ~ClosesEp(sh, s)
  <2>1. EndpointsAre(p, units, seen.abandoned)
    BY <1>2, <1>5
  <2>2. seen'.ep_unit = units /\ seen'.abandoned = seen.abandoned
    BY <1>1, <2>1, ReturnShowsEndpoints
  <2>3. Seen!Fini(p, sh, s, units, e, "PSM2_OK")
    BY <1>3, <1>4, <1>5, <2>2 DEF Seen!Fini
  <2> QED BY <2>3
<1>6. CASE ClosesEp(sh, s) /\ EndpointsAre(p, [units EXCEPT ![e] = NULL], seen.abandoned)
  <2>1. PICK closed : closed = [units EXCEPT ![e] = NULL]
    OBVIOUS
  <2>2. /\ closed \in [Ep -> Dev \cup {NULL}]
        /\ \A y \in Ep : EpHome[y] # p => closed[y] = seen.ep_unit[y]
    BY <1>1, <2>1
  <2>3. EndpointsAre(p, closed, seen.abandoned)
    BY <1>6, <2>1
  <2>4. seen'.ep_unit = closed /\ seen'.abandoned = seen.abandoned
    BY <1>1, <2>2, <2>3, ReturnShowsEndpoints
  <2>5. Seen!Fini(p, sh, s, units, e, "PSM2_OK")
    BY <1>3, <1>4, <1>6, <2>1, <2>4 DEF Seen!Fini, Seen!EpClose
  <2> QED BY <2>5
<1>7. CASE /\ ClosesEp(sh, s) /\ frame[t].failed
           /\ EndpointsAre(p, units, seen.abandoned \cup {e})
  <2>1. PICK gone : gone = seen.abandoned \cup {e}
    OBVIOUS
  <2>2. gone \in SUBSET Ep
    BY <1>1, <2>1
  <2>3. \A y \in Ep : EpHome[y] # p => (y \in gone <=> y \in seen.abandoned)
    BY <1>1, <2>1
  <2>6. EndpointsAre(p, units, gone)
    BY <1>7, <2>1
  <2>4. seen'.ep_unit = units /\ seen'.abandoned = gone
    BY <1>1, <2>2, <2>3, <2>6, ReturnShowsEndpoints
  <2>5. Seen!Fini(p, sh, s, units, e, "PSM2_ERROR")
    BY <1>3, <1>4, <1>7, <2>1, <2>4 DEF Seen!Fini, Seen!EpClose
  <2> QED BY <1>7, <2>5
<1> QED BY <1>2, <1>5, <1>6, <1>7 DEF EpClosed

\* A finished psm2comm_init is that of SharedEp as seen.
LEMMA InitShows ==
  ASSUME StepsInv, NEW t \in Thread, NEW x, NEW n, Return(t, x, n),
         NEW e \in Ep, NEW u \in Dev, Attached(t, e, u)
  PROVE  Seen!InitOk(ThreadRank[t], frame[t].dev, e, u)
<1> DEFINE p == ThreadRank[t]
           dev == frame[t].dev
<1>1. /\ Seen!InitEp(p, dev, e, u) /\ EndpointsAre(p, Seen!UnitsAfterInit(e, u), seen.abandoned)
      /\ shared_ep[p] = Seen!SharedAfterInit(p, dev, e)
  BY DEF Attached
<1>2. FiniArgs(t, Seen!SharedAfterInit(p, dev, e), use_shared_ep, Seen!UnitsAfterInit(e, u), e)
  BY <1>1, BailArgs DEF Return
<1>3. PICK units : units = Seen!UnitsAfterInit(e, u)
  OBVIOUS
<1>4. /\ units \in [Ep -> Dev \cup {NULL}] /\ EpHome[e] = p
      /\ seen.abandoned \in SUBSET Ep
  BY <1>2, <1>3, SeenTypes DEF FiniArgs, StepsInv
<1>5. \A y \in Ep : EpHome[y] # p => units[y] = seen.ep_unit[y]
  BY <1>3, <1>4, SeenTypes DEF Seen!UnitsAfterInit, StepsInv
<1>6. EndpointsAre(p, units, seen.abandoned)
  BY <1>1, <1>3
<1>7. seen'.ep_unit = units /\ seen'.abandoned = seen.abandoned
  BY <1>4, <1>5, <1>6, ReturnShowsEndpoints
<1>8. seen'.shared_ep = [seen.shared_ep EXCEPT ![p] = Seen!SharedAfterInit(p, dev, e)]
  <2>1. Shown(t, x, n)
    BY ReturnShows
  <2> QED BY <1>1, <2>1 DEF Shown
<1> QED BY <1>1, <1>3, <1>7, <1>8 DEF Seen!InitOk

\* The address a new communicator has was free, in what was seen too.
LEMMA OpeningAllocates ==
  ASSUME StepsInv, NEW t \in Thread, frame[t] # NULL, Opening(t)
  PROVE  Seen!Allocates(ThreadRank[t], frame[t].c)
  BY InCall DEF Opening, Seen!Allocates

\* listen returns: it is one step of SharedEp.
LEMMA TagKeeps ==
  ASSUME StepsInv, NEW t \in Thread, Tag(t)
  PROVE  StepsInv' /\ Seen!Next
<1> DEFINE p == ThreadRank[t]
           c == frame[t].c
           dev == frame[t].dev
           born == <<p, listens[p]>>
<1>1. /\ frame[t] # NULL /\ frame[t].pc = "tag" /\ Leaves(t)
      /\ UNCHANGED <<config, shared_ep, epVars>>
      /\ Succeeds(c) /\ held' = [held EXCEPT ![c] = "listen"]
      /\ listens' = [listens EXCEPT ![p] = @ + 1]
      /\ next_tag' = [next_tag EXCEPT ![p] = next_tag[p] + 1]
      /\ comm' = [comm EXCEPT ![c].tag = next_tag[p], ![c].born = born]
      /\ handles' = handles \cup {[epid |-> comm[c].ep, tag |-> next_tag[p], born |-> born]}
  BY DEF Tag, At, NextTag
<1>2. /\ frame[t].op # "close" /\ Opening(t) /\ p \in Rank /\ c \in Comm /\ dev \in Dev
      /\ Home[c] = p /\ comm = [d \in Comm |-> comm[d]]
  BY <1>1, InCall DEF Closing, FiniLabel
<1>3. PICK e \in Ep, u \in Dev : Attached(t, e, u)
  BY <1>1, <1>2 DEF Opening, Stage
<1>4. frame[t].op = "listen" /\ TagsLeft(p)
  BY <1>1, <1>2 DEF Opening, Stage
<1>5. comm[c] = OnEp(e, dev)
  BY <1>3 DEF Attached
<1>6. PICK x : x = [ep |-> e, shared |-> use_shared_ep, tag |-> next_tag[p],
                    rem_epid |-> NULL, dev |-> dev, born |-> born]
  OBVIOUS
<1>7. comm' = [comm EXCEPT ![c] = x]
  <2>1. comm'[c] = [OnEp(e, dev) EXCEPT !.tag = next_tag[p], !.born = born]
    BY <1>1, <1>2, <1>5
  <2>2. comm'[c] = x
    BY <1>6, <2>1 DEF OnEp
  <2>3. comm' = [comm EXCEPT ![c] = comm'[c]]
    BY <1>1, <1>2
  <2> QED BY <2>2, <2>3
<1>8. Return(t, x, next_tag[p] + 1)
  BY <1>1, <1>7 DEF Return
<1>9. Seen!InitOk(p, dev, e, u)
  BY <1>3, <1>8, InitShows
<1>10. next_tag = seen.next_tag
  BY DEF StepsInv, PartsOK
<1>11. /\ seen'.next_tag = [seen.next_tag EXCEPT ![p] = seen.next_tag[p] + 1]
       /\ seen'.comm = [seen.comm EXCEPT ![c] = x]
  <2>1. Shown(t, x, next_tag[p] + 1)
    BY <1>8, ReturnShows
  <2> QED BY <1>10, <2>1 DEF Shown
<1>12. Seen!Listen(p, dev, c, e, u)
  <2>1. Seen!TagsLeft(p) /\ Seen!Allocates(p, c)
    BY <1>1, <1>2, <1>4, <1>10, OpeningAllocates DEF TagsLeft, Seen!TagsLeft
  <2>2. PICK h : h = [epid |-> e, tag |-> seen.next_tag[p], born |-> <<p, listens[p]>>]
    OBVIOUS
  <2>3. handles' = handles \cup {h}
    BY <1>1, <1>5, <1>10, <2>2 DEF OnEp
  <2>4. h.tag = seen.next_tag[p] /\ h.born = born
    BY <2>2
  <2>5. seen'.comm = [seen.comm EXCEPT ![c] =
          [ep |-> e, shared |-> use_shared_ep, tag |-> h.tag,
           rem_epid |-> NULL, dev |-> dev, born |-> h.born]]
    BY <1>6, <1>10, <1>11, <2>4
  <2>6. seen'.next_tag = Seen!NextTag(p) /\ Seen!Succeeds(c) /\ UNCHANGED Seen!config
    BY <1>1, <1>11 DEF Seen!NextTag, Seen!Succeeds, Seen!Returns, Succeeds, Returns,
                       Seen!config, config
  <2> QED BY <1>1, <1>9, <2>1, <2>2, <2>3, <2>5, <2>6 DEF Seen!Listen
<1>13. Seen!Next
  BY <1>2, <1>12 DEF Seen!Next
<1>14. \A d \in Comm \ {c} : held'[d] = held[d]
  <2>1. held \in [Comm -> Role]
    BY SeenTypes DEF StepsInv
  <2> QED BY <1>1, <2>1
<1>15. handles \subseteq handles'
  BY <1>1
<1> QED BY <1>8, <1>13, <1>14, <1>15, ReturnKeeps

\* connect returns: it is one step of SharedEp.
LEMMA EpConnectKeeps ==
  ASSUME StepsInv, NEW t \in Thread, EpConnect(t)
  PROVE  StepsInv' /\ Seen!Next
<1> DEFINE p == ThreadRank[t]
           c == frame[t].c
           h == frame[t].h
           dev == frame[t].dev
<1>1. /\ frame[t] # NULL /\ frame[t].pc = "ep_connect" /\ Leaves(t)
      /\ UNCHANGED <<config, next_tag, shared_ep, epVars, listens>>
      /\ Succeeds(c) /\ held' = [held EXCEPT ![c] = "send"] /\ handles' = handles \ {h}
      /\ comm' = [comm EXCEPT ![c].tag = h.tag, ![c].born = h.born, ![c].rem_epid = h.epid]
  BY DEF EpConnect, At, RemoteEpid
<1>2. /\ frame[t].op # "close" /\ Opening(t) /\ p \in Rank /\ c \in Comm /\ dev \in Dev
      /\ Home[c] = p /\ comm = [d \in Comm |-> comm[d]]
  BY <1>1, InCall DEF Closing, FiniLabel
<1>3. PICK e \in Ep, u \in Dev : Attached(t, e, u)
  BY <1>1, <1>2 DEF Opening, Stage
<1>4. frame[t].op = "connect" /\ h \in handles
  BY <1>1, <1>2 DEF Opening, Stage
<1>5. comm[c] = OnEp(e, dev)
  BY <1>3 DEF Attached
<1>6. PICK x : x = [ep |-> e, shared |-> use_shared_ep, tag |-> h.tag,
                    rem_epid |-> h.epid, dev |-> dev, born |-> h.born]
  OBVIOUS
<1>7. comm' = [comm EXCEPT ![c] = x]
  <2>1. comm'[c] = [OnEp(e, dev) EXCEPT !.tag = h.tag, !.born = h.born, !.rem_epid = h.epid]
    BY <1>1, <1>2, <1>5
  <2>2. comm'[c] = x
    BY <1>6, <2>1 DEF OnEp
  <2>3. comm' = [comm EXCEPT ![c] = comm'[c]]
    BY <1>1, <1>2
  <2> QED BY <2>2, <2>3
<1>8. next_tag = seen.next_tag /\ seen.next_tag \in [Rank -> Nat]
  BY SeenTypes DEF StepsInv, PartsOK
<1>9. Return(t, x, next_tag[p])
  BY <1>1, <1>2, <1>7, <1>8 DEF Return
<1>10. Seen!InitOk(p, dev, e, u)
  BY <1>3, <1>9, InitShows
<1>11. seen'.next_tag = seen.next_tag /\ seen'.comm = [seen.comm EXCEPT ![c] = x]
  <2>1. Shown(t, x, next_tag[p])
    BY <1>9, ReturnShows
  <2> QED BY <1>2, <1>8, <2>1 DEF Shown
<1>12. Seen!Connect(p, dev, c, h, e, u)
  <2>1. Seen!Allocates(p, c)
    BY <1>1, <1>2, OpeningAllocates
  <2>2. Seen!Succeeds(c) /\ UNCHANGED <<Seen!config, listens>>
    BY <1>1 DEF Seen!Succeeds, Seen!Returns, Succeeds, Returns, Seen!config, config
  <2> QED BY <1>1, <1>4, <1>6, <1>10, <1>11, <2>1, <2>2 DEF Seen!Connect, Seen!RemoteEpid
<1>13. Seen!Next
  BY <1>2, <1>4, <1>12 DEF Seen!Next
<1>14. \A d \in Comm \ {c} : held'[d] = held[d]
  <2>1. held \in [Comm -> Role]
    BY SeenTypes DEF StepsInv
  <2> QED BY <1>1, <2>1
<1>15. \A y \in Thread \ {t} :
         frame[y] # NULL /\ frame[y].op = "connect" => frame[y].h # h
  BY <1>1, <1>4, OnlyCall
<1>16. \A y \in Thread \ {t} :
         frame[y] # NULL /\ frame[y].op = "connect" /\ frame[y].h \in handles
           => frame[y].h \in handles'
  BY <1>1, <1>15
<1> QED BY <1>9, <1>13, <1>14, <1>16, ReturnKeeps

\* A call returns without its communicator.
LEMMA FreeReturns ==
  ASSUME StepsInv, NEW t \in Thread, Free(t)
  PROVE  /\ Return(t, NULL, next_tag[ThreadRank[t]])
         /\ frame[t].pc = "free"
         /\ UNCHANGED <<config, handles, listens>>
         /\ held' = [held EXCEPT ![frame[t].c] = IF @ = "accepted" THEN "stale" ELSE "none"]
         /\ seen'.next_tag = seen.next_tag
         /\ seen'.comm = [seen.comm EXCEPT ![frame[t].c] = NULL]
         /\ \A d \in Comm \ {frame[t].c} : held'[d] = held[d]
<1> DEFINE p == ThreadRank[t]
<1>1. /\ frame[t] # NULL /\ frame[t].pc = "free" /\ Leaves(t)
      /\ UNCHANGED <<config, next_tag, shared_ep, epVars, handles, listens>>
      /\ comm' = [comm EXCEPT ![frame[t].c] = NULL]
      /\ held' = [held EXCEPT ![frame[t].c] = IF @ = "accepted" THEN "stale" ELSE "none"]
  BY DEF Free, At
<1>2. next_tag = seen.next_tag /\ seen.next_tag \in [Rank -> Nat] /\ held \in [Comm -> Role]
  BY SeenTypes DEF StepsInv, PartsOK
<1>3. p \in Rank /\ frame[t].c \in Comm
  BY <1>1, InCall
<1>4. Return(t, NULL, next_tag[p])
  BY <1>1, <1>2, <1>3 DEF Return
<1>5. Shown(t, NULL, next_tag[p])
  BY <1>4, ReturnShows
<1>6. seen'.next_tag = seen.next_tag /\ seen'.comm = [seen.comm EXCEPT ![frame[t].c] = NULL]
  BY <1>2, <1>3, <1>5 DEF Shown
<1> QED BY <1>1, <1>2, <1>4, <1>6

\* The return of a close.
LEMMA CloseMaps ==
  ASSUME StepsInv, NEW t \in Thread, Free(t), frame[t].op = "close"
  PROVE  Seen!Next
<1> DEFINE p == ThreadRank[t]
           c == frame[t].c
<1>1. /\ Return(t, NULL, next_tag[p]) /\ frame[t].pc = "free"
      /\ UNCHANGED <<config, handles, listens>>
      /\ held' = [held EXCEPT ![c] = IF @ = "accepted" THEN "stale" ELSE "none"]
      /\ seen'.next_tag = seen.next_tag /\ seen'.comm = [seen.comm EXCEPT ![c] = NULL]
  BY FreeReturns
<1>2. frame[t] # NULL /\ Closing(t) /\ c \in Comm /\ Home[c] = p
  BY <1>1, InCall DEF Return
<1>3. PICK sh, s, units, e :
        /\ sh = seen.shared_ep[p] /\ s = seen.comm[c].shared
        /\ units = seen.ep_unit /\ e = seen.comm[c].ep
  OBVIOUS
<1>4. FiniArgs(t, sh, s, units, e) /\ InFini(t, sh, s, units, e)
  BY <1>2, <1>3, CloseArgs DEF Closing
<1>5. PICK eprc \in {"PSM2_OK", "PSM2_ERROR"} :
        Seen!Fini(p, sh, s, units, e, eprc) /\ (eprc # "PSM2_OK" => frame[t].failed)
  BY <1>1, <1>3, <1>4, FiniShows
<1>6. PICK mqrc \in {"PSM2_OK", "PSM2_ERROR"} :
        mqrc = frame[t].psm /\ (frame[t].failed <=> mqrc = "PSM2_ERROR")
  BY <1>2 DEF Closing
<1>7. IF mqrc = "PSM2_OK" /\ eprc = "PSM2_OK"
        THEN Seen!Succeeds(NULL)
        ELSE Seen!Returns("ncclInternalError", NULL, "PSM2_ERROR")
  BY <1>5, <1>6 DEF Free, Succeeds, Returns, Seen!Succeeds, Seen!Returns
<1>8. Seen!Close(c, mqrc, eprc)
  BY <1>1, <1>2, <1>3, <1>5, <1>7 DEF Seen!Close, Closing, Seen!config, config
<1> QED BY <1>2, <1>8 DEF Seen!Next

\* The return of a listen or connect that got no endpoint.
LEMMA RefusedMaps ==
  ASSUME StepsInv, NEW t \in Thread, Free(t), frame[t].op # "close", Refused(t)
  PROVE  Seen!Next
<1> DEFINE p == ThreadRank[t]
           c == frame[t].c
           dev == frame[t].dev
<1>1. /\ Return(t, NULL, next_tag[p])
      /\ UNCHANGED <<config, handles, listens>>
      /\ held' = [held EXCEPT ![c] = IF @ = "accepted" THEN "stale" ELSE "none"]
      /\ seen'.next_tag = seen.next_tag /\ seen'.comm = [seen.comm EXCEPT ![c] = NULL]
  BY FreeReturns
<1>2. /\ Opening(t) /\ c \in Comm /\ p \in Rank /\ dev \in Dev
      /\ seen.shared_ep \in [Rank -> SharedRec] /\ seen.ep_unit \in [Ep -> Dev \cup {NULL}]
      /\ seen.abandoned \in SUBSET Ep /\ seen.comm \in [Comm -> CommRec \cup {NULL}]
      /\ held \in [Comm -> Role]
  BY <1>1, InCall, SeenTypes DEF Return, StepsInv
<1>3. AsSeen(p) /\ frame[t].failed
  BY DEF Refused
<1>4. seen'.comm = seen.comm /\ held' = held
  BY <1>1, <1>2 DEF Opening
<1>5. seen'.shared_ep = seen.shared_ep
  <2>1. Shown(t, NULL, next_tag[p])
    BY <1>1, ReturnShows
  <2> QED BY <1>2, <1>3, <2>1 DEF Shown, AsSeen
<1>6. seen'.ep_unit = seen.ep_unit /\ seen'.abandoned = seen.abandoned
  BY <1>1, <1>2, <1>3, ReturnShowsEndpoints DEF AsSeen
<1>7. Seen!Returns("ncclInternalError", NULL, frame[t].psm)
  BY <1>3 DEF Free, Returns, Seen!Returns
<1>8. Seen!InitFailsEarly(p, dev, frame[t].psm)
  BY <1>1, <1>4, <1>5, <1>6, <1>7 DEF Refused, Seen!InitFailsEarly, Seen!config, config,
     Seen!epVars
<1>9. frame[t].psm \in Seen!PsmRc
  BY DEF Refused, Seen!PsmRc
<1> QED BY <1>2, <1>8, <1>9 DEF Seen!Next

\* The return of a listen or connect that was undone.
LEMMA BailOutMaps ==
  ASSUME StepsInv, NEW t \in Thread, Free(t), frame[t].op # "close", BailingOut(t)
  PROVE  Seen!Next
<1> DEFINE p == ThreadRank[t]
           c == frame[t].c
           dev == frame[t].dev
           psm == frame[t].psm
<1>1. /\ Return(t, NULL, next_tag[p]) /\ frame[t].pc = "free"
      /\ UNCHANGED <<config, handles, listens>>
      /\ held' = [held EXCEPT ![c] = IF @ = "accepted" THEN "stale" ELSE "none"]
      /\ seen'.next_tag = seen.next_tag /\ seen'.comm = [seen.comm EXCEPT ![c] = NULL]
  BY FreeReturns
<1>2. /\ frame[t] # NULL /\ Opening(t) /\ c \in Comm /\ p \in Rank /\ dev \in Dev
      /\ frame[t] \in Frame
      /\ seen.comm \in [Comm -> CommRec \cup {NULL}] /\ held \in [Comm -> Role]
  BY <1>1, InCall, SeenTypes DEF Return, StepsInv
<1>3. PICK e \in Ep, u \in Dev :
        /\ Seen!InitEp(p, dev, e, u)
        /\ InFini(t, Seen!SharedAfterInit(p, dev, e), use_shared_ep,
                  Seen!UnitsAfterInit(e, u), e)
  BY DEF BailingOut
<1>4. PICK sh, s, units :
        /\ sh = Seen!SharedAfterInit(p, dev, e) /\ s = use_shared_ep
        /\ units = Seen!UnitsAfterInit(e, u)
  OBVIOUS
<1>5. FiniArgs(t, sh, s, units, e) /\ InFini(t, sh, s, units, e)
  BY <1>2, <1>3, <1>4, BailArgs
<1>6. \A y \in Ep : EpHome[y] # p => units[y] = seen.ep_unit[y]
  <2>1. EpHome[e] = p /\ seen.ep_unit \in [Ep -> Dev \cup {NULL}]
    BY <1>5, SeenTypes DEF FiniArgs, StepsInv
  <2> QED BY <1>4, <2>1 DEF Seen!UnitsAfterInit
<1>7. PICK eprc \in {"PSM2_OK", "PSM2_ERROR"} : Seen!Fini(p, sh, s, units, e, eprc)
  BY <1>1, <1>5, <1>6, FiniShows
<1>8. seen'.comm = seen.comm /\ held' = held
  BY <1>1, <1>2 DEF Opening
<1>9. Seen!BailOut(p, dev, e, u, eprc)
  BY <1>1, <1>3, <1>4, <1>7, <1>8 DEF Seen!BailOut, Seen!config, config
<1>10. Seen!Returns("ncclInternalError", NULL, psm) /\ psm # "PSM2_OK"
  BY DEF BailingOut, Free, Returns, Seen!Returns
<1>11. frame[t].op \in {"listen", "connect"} /\ psm \in Seen!PsmRc
  BY <1>2 DEF Frame, PsmRc, Seen!PsmRc
<1>12. CASE frame[t].op = "listen"
  <2>1. psm = "PSM2_ERROR"
    BY <1>12 DEF BailingOut
  <2>2. Seen!InitMqFails(p, dev, e, u, eprc)
    BY <1>9, <1>10, <2>1 DEF Seen!InitMqFails
  <2> QED BY <1>2, <2>2 DEF Seen!Next
<1>13. CASE frame[t].op = "connect"
  <2>1. frame[t].h \in handles /\ Seen!Allocates(p, c)
    BY <1>2, <1>13, OpeningAllocates DEF Opening
  <2>2. Seen!ConnectFails(p, dev, c, frame[t].h, e, u, psm, eprc)
    BY <1>9, <1>10, <2>1 DEF Seen!ConnectFails, Seen!SendCommAfterBail
  <2> QED BY <1>2, <1>11, <2>1, <2>2 DEF Seen!Next
<1> QED BY <1>11, <1>12, <1>13

\* free(comm): a close, or a listen or connect that failed, is one step of SharedEp.
LEMMA FreeKeeps ==
  ASSUME StepsInv, NEW t \in Thread, Free(t)
  PROVE  StepsInv' /\ Seen!Next
<1>1. /\ Return(t, NULL, next_tag[ThreadRank[t]]) /\ frame[t].pc = "free"
      /\ UNCHANGED handles /\ \A d \in Comm \ {frame[t].c} : held'[d] = held[d]
  BY FreeReturns
<1>2. Seen!Next
  <2>1. frame[t] # NULL /\ (frame[t].op # "close" => Opening(t))
    BY <1>1, InCall DEF Return
  <2>2. frame[t].op # "close" => Refused(t) \/ BailingOut(t)
    BY <1>1, <2>1 DEF Opening, Stage
  <2> QED BY <2>2, CloseMaps, RefusedMaps, BailOutMaps
<1> QED BY <1>1, <1>2, ReturnKeeps

-------------------------------------------------------------------------------
(* The theorems.                                                           *)

\* The invariant holds when psm2_nccl_init returns.
LEMMA InitStepsInv ==
  ASSUME StepsInit
  PROVE  StepsInv /\ Seen!Init
<1>1. /\ seen = [next_tag |-> next_tag, shared_ep |-> shared_ep, comm |-> comm,
                 ep_unit |-> ep_unit, abandoned |-> abandoned]
      /\ Init /\ frame = [t \in Thread |-> NULL]
  BY DEF StepsInit
<1>2. /\ seen.next_tag = next_tag /\ seen.shared_ep = shared_ep /\ seen.comm = comm
      /\ seen.ep_unit = ep_unit /\ seen.abandoned = abandoned
  BY <1>1
<1>3. Seen!Init
  BY <1>1, <1>2 DEF Init, Seen!Init, Policy, Seen!Policy, ZeroSharedEp, Seen!ZeroSharedEp
<1>4. Seen!IInv
  BY <1>3, SeenAssumption, Seen!InitIInv
<1>5. PartsOK
  <2>1. shared_ep \in [Rank -> SharedRec]
    BY <1>2, <1>4, SeenTypes
  <2>2. comm = [c \in Comm |-> comm[c]] /\ ep_unit \in [Ep -> Dev \cup {NULL}]
        /\ abandoned \in SUBSET Ep
    BY <1>1 DEF Init
  <2> QED BY <1>1, <1>2, <2>1, <2>2 DEF PartsOK, StepsTypeOK
<1>6. OneCallInv /\ CallInv
  BY <1>1 DEF OneCallInv, CallInv, Running
<1>7. IdleInv
  BY <1>2 DEF IdleInv, Idle, AsSeen, EndpointsAre
<1> QED BY <1>3, <1>4, <1>5, <1>6, <1>7 DEF StepsInv

\* Every step keeps the invariant, and is at most one step of SharedEp as seen.
LEMMA NextStepsInv ==
  ASSUME Serialised, StepsInv, [StepsNext]_svars
  PROVE  StepsInv' /\ [Seen!Next]_(Seen!vars)
<1>1. ASSUME NEW t \in Thread, OneStep(t) PROVE StepsInv' /\ [Seen!Next]_(Seen!vars)
  BY <1>1, OneStepKeeps
<1>2. ASSUME NEW t \in Thread, NEW c \in Comm, NEW dev \in Dev, EnterListen(t, dev, c)
      PROVE  StepsInv' /\ [Seen!Next]_(Seen!vars)
  BY <1>2, NewCommKeeps DEF EnterListen
<1>3. ASSUME NEW t \in Thread, NEW c \in Comm, NEW dev \in Dev, NEW h \in handles,
             EnterConnect(t, dev, c, h)
      PROVE  StepsInv' /\ [Seen!Next]_(Seen!vars)
  <2>1. h \in Handle
    BY SeenTypes DEF StepsInv
  <2>2. \A x \in Thread : frame[x] # NULL => frame[x].h # h
    BY <1>3 DEF EnterConnect
  <2>3. NewComm(t, "connect", dev, c, h)
    BY <1>3 DEF EnterConnect
  <2> QED BY <2>1, <2>2, <2>3, NewCommKeeps
<1>4. ASSUME NEW t \in Thread, NEW c \in Comm, NEW mqrc \in {"PSM2_OK", "PSM2_ERROR"},
             EnterClose(t, c, mqrc)
      PROVE  StepsInv' /\ [Seen!Next]_(Seen!vars)
  BY <1>4, EnterCloseKeeps
<1>5. ASSUME NEW t \in Thread,
             UnitCheck(t) \/ UserCheck(t) \/ EpOpenFails(t) \/ Store(t) \/ Join(t)
               \/ Attach(t) \/ MqInit(t)
      PROVE  StepsInv' /\ [Seen!Next]_(Seen!vars)
  BY <1>5, UnitCheckKeeps, UserCheckKeeps, EpOpenFailsKeeps, StoreKeeps, JoinKeeps,
     AttachKeeps, MqInitKeeps
<1>6. ASSUME NEW t \in Thread, NEW e \in Ep, NEW u \in Dev, EpOpen(t, e, u)
      PROVE  StepsInv' /\ [Seen!Next]_(Seen!vars)
  BY <1>6, EpOpenKeeps
<1>7. ASSUME NEW t \in Thread, NEW psm \in PsmRc \ {"PSM2_OK"}, EpConnectFails(t, psm)
      PROVE  StepsInv' /\ [Seen!Next]_(Seen!vars)
  BY <1>7, EpConnectFailsKeeps
<1>8. ASSUME NEW t \in Thread, FiniStep(t)
      PROVE  StepsInv' /\ [Seen!Next]_(Seen!vars)
  BY <1>8, FiniKeeps
<1>9. ASSUME NEW t \in Thread, Tag(t) \/ EpConnect(t) \/ Free(t)
      PROVE  StepsInv' /\ [Seen!Next]_(Seen!vars)
  BY <1>9, TagKeeps, EpConnectKeeps, FreeKeeps
<1>10. CASE UNCHANGED svars
  <2>1. /\ UNCHANGED <<config, next_tag, shared_ep, comm, ep_unit, abandoned, held>>
        /\ UNCHANGED <<handles, listens, ret, frame, seen>>
    BY <1>10 DEF svars, vars, epVars
  <2>2. UNCHANGED Seen!vars
    BY <2>1 DEF Seen!vars, Seen!config, Seen!epVars, config
  <2>3. Seen!IInv'
    BY <2>2, SeenKeepsIInv DEF StepsInv
  <2>4. CallInv'
    <3> SUFFICES ASSUME NEW x \in Thread, frame'[x] # NULL PROVE CallOK(x)'
      BY DEF CallInv
    <3>1. RankStays(ThreadRank[x])
      BY <2>1 DEF RankStays
    <3> QED BY <2>1, <2>3, <3>1, CallStays
  <2>5. IdleInv'
    <3> SUFFICES ASSUME NEW p \in Rank, Running(p)' = {} PROVE Idle(p)'
      BY DEF IdleInv
    <3>1. Idle(p)
      BY <2>1 DEF StepsInv, IdleInv, Running
    <3> QED BY <2>1, <3>1 DEF Idle, AsSeen, EndpointsAre
  <2>6. PartsOK' /\ OneCallInv'
    BY <2>1 DEF StepsInv, PartsOK, StepsTypeOK, OneCallInv, Running
  <2> QED BY <2>2, <2>3, <2>4, <2>5, <2>6 DEF StepsInv
<1> QED
  BY <1>1, <1>2, <1>3, <1>4, <1>5, <1>6, <1>7, <1>8, <1>9, <1>10 DEF StepsNext, FiniStep

\* In the middle of every call, a rank that is in none owns what was seen, and one that
\* is in a call owns what was seen and what its call has done so far.
THEOREM StepsInvariance ==
  ASSUME Serialised
  PROVE  StepsSpec => []StepsInv
  BY InitStepsInv, NextStepsInv, PTL DEF StepsSpec

\* Calls that do not overlap within a process are atomic: on success and on every
\* failing path, with the calls of other processes anywhere in between, psm2comm_init
\* and psm2comm_fini amount to one step of SharedEp.
THEOREM CallsAreOneStep ==
  ASSUME Serialised
  PROVE  StepsSpec => CallsAreAtomic
<1>1. StepsInit => Calls!Init
  BY InitStepsInv, SeenIsCalls
<1>2. StepsInv /\ [StepsNext]_svars => [Calls!Next]_(Calls!vars)
  BY NextStepsInv, SeenIsCalls
<1> QED BY <1>1, <1>2, StepsInvariance, PTL DEF StepsSpec, CallsAreAtomic, Calls!Spec

\* The statics keep their type at every step of a call.
THEOREM StepsTypeCorrect ==
  ASSUME Serialised
  PROVE  StepsSpec => []StepsTypeOK
  BY StepsInvariance, PTL DEF StepsInv, PartsOK

-------------------------------------------------------------------------------
(* The endpoints of the communicators no call has in hand.                 *)

\* A communicator that no call has in hand is as it was seen, on an open endpoint.
LEMMA HeldAsSeen ==
  ASSUME StepsInv, NEW d \in Comm, held[d] \in {"listen", "accepted", "recv", "send"},
         \A t \in Thread : frame[t] # NULL => frame[t].c # d
  PROVE  /\ comm[d] = seen.comm[d] /\ seen.comm[d] # NULL
         /\ seen.comm[d].ep \in Ep /\ EpHome[seen.comm[d].ep] = Home[d]
         /\ seen.ep_unit[seen.comm[d].ep] # NULL
<1>1. Home[d] \in Rank /\ Seen!IInv
  BY ConstAssumption DEF StepsInv
<1>2. comm[d] = seen.comm[d]
  <2>1. CASE Running(Home[d]) = {}
    BY <1>1, <2>1 DEF StepsInv, IdleInv, Idle
  <2>2. CASE Running(Home[d]) # {}
    <3>1. PICK t \in Thread : ThreadRank[t] = Home[d] /\ frame[t] # NULL
      BY <2>2 DEF Running
    <3> QED BY <3>1 DEF StepsInv, CallInv, CallOK
  <2> QED BY <2>1, <2>2
<1>3. seen.comm[d] # NULL
  BY <1>1 DEF Seen!IInv, Seen!HeldLive
<1>4. d \in Seen!Live /\ Seen!EpInv
  BY <1>1, <1>3 DEF Seen!Live, Seen!IInv
<1>5. seen.comm[d].ep \in Ep
  BY <1>1, <1>3, SeenTypes DEF CommRec
<1>6. EpHome[seen.comm[d].ep] = Home[d] /\ seen.ep_unit[seen.comm[d].ep] # NULL
  BY <1>4 DEF Seen!EpInv, Seen!CommHome, Seen!EndpointOutlivesComms
<1> QED BY <1>2, <1>3, <1>5, <1>6

\* An endpoint with a unit in units is open unless psm2_ep_close got it.
LEMMA FiniLeavesOthers ==
  ASSUME NEW t \in Thread, frame[t].pc \in FiniLabel, NEW sh, NEW s, NEW units, NEW e,
         units \in [Ep -> Dev \cup {NULL}], InFini(t, sh, s, units, e),
         NEW x \in Ep, EpHome[x] = ThreadRank[t], units[x] # NULL,
         ClosesEp(sh, s) => x # e
  PROVE  ep_unit[x] # NULL
<1>1. CASE EndpointsAre(ThreadRank[t], units, seen.abandoned)
  BY <1>1 DEF EndpointsAre
<1>2. CASE ClosesEp(sh, s) /\ EpClosed(t, units, e)
  <2>1. \/ EndpointsAre(ThreadRank[t], [units EXCEPT ![e] = NULL], seen.abandoned)
        \/ EndpointsAre(ThreadRank[t], units, seen.abandoned \cup {e})
    BY <1>2 DEF EpClosed
  <2>2. [units EXCEPT ![e] = NULL][x] = units[x]
    BY <1>2
  <2> QED BY <2>1, <2>2 DEF EndpointsAre
<1> QED BY <1>1, <1>2 DEF InFini

\* While a call is in progress the endpoints of the other communicators stay open.
LEMMA HeldStayOpen ==
  ASSUME StepsInv, NEW d \in Comm, held[d] \in {"listen", "accepted", "recv", "send"},
         \A t \in Thread : frame[t] # NULL => frame[t].c # d
  PROVE  ep_unit[comm[d].ep] # NULL
<1> DEFINE q == Home[d]
<1>1. /\ comm[d] = seen.comm[d] /\ seen.comm[d] # NULL
      /\ seen.comm[d].ep \in Ep /\ EpHome[seen.comm[d].ep] = q
      /\ seen.ep_unit[seen.comm[d].ep] # NULL
  BY HeldAsSeen
<1>2. PICK x \in Ep : x = seen.comm[d].ep
  BY <1>1
<1>3. EpHome[x] = q /\ seen.ep_unit[x] # NULL
  BY <1>1, <1>2
<1>4. q \in Rank
  BY ConstAssumption
<1>5. AsSeen(q) => ep_unit[x] # NULL
  BY <1>3 DEF AsSeen, EndpointsAre
<1>6. CASE Running(q) = {}
  BY <1>1, <1>2, <1>4, <1>5, <1>6 DEF StepsInv, IdleInv, Idle
<1>7. CASE Running(q) # {}
  <2>1. PICK t \in Thread : ThreadRank[t] = q /\ frame[t] # NULL
    BY <1>7 DEF Running
  <2>2. PICK c \in Comm : c = frame[t].c /\ Home[c] = q
    BY <2>1, InCall
  <2>3. /\ frame[t] \in Frame /\ Seen!IInv
        /\ IF frame[t].op = "close" THEN Closing(t) ELSE Opening(t)
        /\ seen.ep_unit \in [Ep -> Dev \cup {NULL}]
    BY <2>1, InCall
  <2>4. CASE frame[t].op = "close"
    <3>1. PICK sh, s, units, e :
            /\ sh = seen.shared_ep[q] /\ s = seen.comm[c].shared
            /\ units = seen.ep_unit /\ e = seen.comm[c].ep
      OBVIOUS
    <3>2. InFini(t, sh, s, units, e) /\ frame[t].pc \in FiniLabel
      BY <2>1, <2>2, <2>3, <2>4, <3>1 DEF Closing
    <3>3. c # d /\ seen.comm[c] # NULL
      BY <2>1, <2>2, <2>3, <2>4 DEF Closing, Seen!IInv, Seen!HeldLive
    <3>4. ClosesEp(sh, s) => x # e
      <4>1. c \in Seen!Live /\ d \in Seen!Live /\ Seen!TypeOK /\ Seen!EpInv
        BY <1>1, <2>3, <3>3 DEF Seen!Live, Seen!IInv
      <4>2. ClosesEp(sh, s) => Seen!ClosesEp(seen.shared_ep[Home[c]], seen.comm[c].shared)
        BY <2>2, <3>1 DEF ClosesEp, Seen!ClosesEp, Released, Seen!Released
      <4> QED BY <1>2, <2>2, <3>1, <3>3, <4>1, <4>2, SeenAssumption, Seen!LastUserIsAlone
    <3> QED BY <1>1, <1>2, <1>3, <2>1, <2>3, <3>1, <3>2, <3>4, FiniLeavesOthers
  <2>5. CASE frame[t].op # "close"
    <3>1. Stage(t)
      BY <2>3, <2>5 DEF Opening
    <3>2. PICK dev \in Dev : dev = frame[t].dev
      BY <2>3 DEF Frame
    <3>3. ASSUME NEW e \in Ep, NEW u \in Dev, Seen!InitEp(q, dev, e, u)
          PROVE  /\ Seen!UnitsAfterInit(e, u)[x] # NULL
                 /\ Seen!UnitsAfterInit(e, u) \in [Ep -> Dev \cup {NULL}]
      BY <1>3, <2>3, ConstAssumption DEF Seen!UnitsAfterInit
    <3>4. CASE Starting(t) \/ Refused(t)
      BY <1>1, <1>2, <1>5, <2>1, <3>4 DEF Starting, Refused
    <3>5. CASE \E e \in Ep, u \in Dev : Uncounted(t, e, u) \/ Attached(t, e, u)
      <4>1. PICK e \in Ep, u \in Dev : Uncounted(t, e, u) \/ Attached(t, e, u)
        BY <3>5
      <4>2. Seen!InitEp(q, dev, e, u) /\ EndpointsAre(q, Seen!UnitsAfterInit(e, u), seen.abandoned)
        BY <2>1, <3>2, <4>1 DEF Uncounted, Attached
      <4> QED BY <1>1, <1>2, <1>3, <3>3, <4>2 DEF EndpointsAre
    <3>6. CASE BailingOut(t)
      <4>1. PICK e \in Ep, u \in Dev :
              /\ Seen!InitEp(q, dev, e, u)
              /\ InFini(t, Seen!SharedAfterInit(q, dev, e), use_shared_ep,
                        Seen!UnitsAfterInit(e, u), e)
        BY <2>1, <3>2, <3>6 DEF BailingOut
      <4>2. PICK sh, s, units :
              /\ sh = Seen!SharedAfterInit(q, dev, e) /\ s = use_shared_ep
              /\ units = Seen!UnitsAfterInit(e, u)
        OBVIOUS
      <4>3. InFini(t, sh, s, units, e) /\ units \in [Ep -> Dev \cup {NULL}] /\ units[x] # NULL
        BY <3>3, <4>1, <4>2
      <4>4. ClosesEp(sh, s) => x # e
        <5> SUFFICES ASSUME ClosesEp(sh, s) PROVE x # e
          OBVIOUS
        <5>1. use_shared_ep \in {0, 1} /\ seen.shared_ep[q].refcount \in Nat
          BY <1>4, <2>3, SeenTypes DEF SharedRec
        <5>2. use_shared_ep = 1 => sh.refcount = seen.shared_ep[q].refcount + 1
          BY <4>2 DEF Seen!SharedAfterInit
        <5>3. use_shared_ep = 1 => Released(sh, s).refcount = seen.shared_ep[q].refcount
          <6>1. CASE use_shared_ep = 1
            <7>1. sh \in SharedRec
              BY <2>1, <2>3, <3>2, <4>1, <4>2, BailArgs DEF FiniArgs
            <7> QED BY <4>2, <5>1, <5>2, <6>1, <7>1 DEF Released, SharedRec
          <6> QED BY <6>1
        <5>4. Seen!MustOpen(q)
          BY <4>2, <5>1, <5>3 DEF ClosesEp, Seen!MustOpen
        <5> QED BY <1>3, <1>4, <2>3, <3>2, <4>1, <5>4, InitEpOwn
      <4>5. frame[t].pc \in FiniLabel
        BY <3>6 DEF BailingOut
      <4> QED BY <1>1, <1>2, <1>3, <2>1, <4>3, <4>4, <4>5, FiniLeavesOthers
    <3> QED BY <3>1, <3>4, <3>5, <3>6 DEF Stage
  <2> QED BY <2>4, <2>5
<1> QED BY <1>6, <1>7

\* At every step of a call, every communicator that NCCL holds and no call has in hand
\* is on an open endpoint: isend, irecv and test may go on meanwhile.
THEOREM HeldEndpointsStayOpen ==
  ASSUME Serialised
  PROVE  StepsSpec => []HeldEndpointsOpen
<1>1. StepsInv => HeldEndpointsOpen
  BY HeldStayOpen DEF HeldEndpointsOpen
<1> QED BY <1>1, StepsInvariance, PTL

\* An (epid, tag) pair names the one receiver its listen created, among communicators
\* whose calls have returned, while ranks are in the middle of other calls.
THEOREM HandlesNameOneSeenReceiver ==
  ASSUME Serialised
  PROVE  StepsSpec => []HandleNamesOneSeenReceiver
<1>1. StepsInv => HandleNamesOneSeenReceiver
  <2> SUFFICES ASSUME Seen!IInv, NEW r \in Calls!Receivers
               PROVE  /\ \A s \in Calls!Senders :
                           /\ seen.comm[s].rem_epid = seen.comm[r].ep
                           /\ seen.comm[s].tag = seen.comm[r].tag
                           => seen.comm[s].born = seen.comm[r].born
                      /\ \A h \in handles :
                           h.epid = seen.comm[r].ep /\ h.tag = seen.comm[r].tag
                             => h.born = seen.comm[r].born
    BY DEF StepsInv, HandleNamesOneSeenReceiver, Calls!HandleNamesOneReceiver
  <2>1. r \in Seen!Receivers /\ \A s \in Calls!Senders : s \in Seen!Senders
    BY DEF Calls!Receivers, Seen!Receivers, Calls!Senders, Seen!Senders, Calls!Live, Seen!Live
  <2>2. Seen!TagInv /\ Seen!CommHome /\ r \in Seen!Live
    BY <2>1 DEF Seen!IInv, Seen!EpInv, Seen!Receivers
  <2>3. seen.comm[r].born = <<EpHome[seen.comm[r].ep], seen.comm[r].tag>>
    BY <2>1, <2>2 DEF Seen!TagInv, Seen!CommHome
  <2> QED BY <2>1, <2>2, <2>3 DEF Seen!TagInv
<1> QED BY <1>1, StepsInvariance, PTL
================================================================================
