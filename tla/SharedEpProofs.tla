---------------------------- MODULE SharedEpProofs ----------------------------
(***************************************************************************)
(* Proofs about SharedEp: for every job, number of communicators and       *)
(* endpoints, reference counting of the shared endpoint is exact and no    *)
(* endpoint is closed under a communicator.                                *)
(***************************************************************************)
EXTENDS SharedEp, FiniteSetTheorems, TLAPS

\* A communicator is on an endpoint of its own process.
CommHome == \A c \in Live : EpHome[comm[c].ep] = Home[c]

\* All communicators have their shared_ep pointer set, or none has.
ModeAgrees == \A c \in Live : comm[c].shared = use_shared_ep

\* In private mode no two communicators have the same endpoint.
PrivateExclusive ==
  use_shared_ep = 0 => \A c, d \in Live : comm[c].ep = comm[d].ep => c = d

\* NCCL holds only pointers to live communicators.
HeldLive ==
  \A c \in Comm : held[c] \in {"listen", "accepted", "recv", "send"} => comm[c] # NULL

EpInv ==
  /\ RefcountExact
  /\ CommHome
  /\ EndpointOutlivesComms
  /\ SharedEpIsUsersEp
  /\ ModeAgrees
  /\ PrivateExclusive
  /\ NoEndpointLeak

\* The communicators on the shared endpoint are on the unit shared_ep remembers.
UnitRemembered ==
  use_nccl_dev_num = 1 =>
    \A p \in Rank : \A c \in SharedComms(p) : ep_unit[comm[c].ep] = shared_ep[p].unit

DeviceInv == UnitRemembered /\ DeviceHonoured

\* Tags count the listen calls of a rank; a receiver's tag is its own, and senders
\* and handles carry the tag of the listener they name.
TagInv ==
  /\ \A p \in Rank : listens[p] = next_tag[p]
  /\ \A r \in Receivers : /\ comm[r].born = <<Home[r], comm[r].tag>>
                          /\ comm[r].tag < next_tag[Home[r]]
  /\ \A r1, r2 \in Receivers :
       Home[r1] = Home[r2] /\ comm[r1].tag = comm[r2].tag => r1 = r2
  /\ \A s \in Senders : comm[s].born = <<EpHome[comm[s].rem_epid], comm[s].tag>>
  /\ \A h \in handles : h.born = <<EpHome[h.epid], h.tag>>

\* With a caller that accepts every listener, no communicator is live unheld.
NoneStranded ==
  ~ClosesUnaccepted =>
    \A c \in Comm : comm[c] # NULL => held[c] \in {"listen", "accepted", "recv", "send"}

IInv ==
  /\ TypeOK
  /\ EpInv
  /\ DeviceInv
  /\ TagInv
  /\ HeldLive
  /\ NoneStranded

-------------------------------------------------------------------------------
(* What the counter says of the communicators.                             *)

\* The communicators that point to shared_ep are finitely many.
LEMMA SharedCommsFinite ==
  \A p \in Rank : /\ IsFiniteSet(SharedComms(p))
                  /\ Cardinality(SharedComms(p)) \in Nat
  BY ConstAssumption, FS_Subset, FS_CardinalityType DEF SharedComms

\* refcount is zero exactly when no communicator points to shared_ep.
LEMMA RefcountZero ==
  ASSUME RefcountExact, NEW p \in Rank
  PROVE  shared_ep[p].refcount = 0 <=> SharedComms(p) = {}
  BY SharedCommsFinite, FS_EmptySet DEF RefcountExact

\* The communicator psm2comm_fini takes for the last user of its endpoint is the last.
LEMMA LastUserIsAlone ==
  ASSUME TypeOK, EpInv, NEW c \in Live, NEW d \in Live, c # d, Home[c] = Home[d],
         ClosesEp(shared_ep[Home[c]], comm[c].shared)
  PROVE  comm[c].ep # comm[d].ep
<1> DEFINE q == Home[c]
<1>1. q \in Rank /\ use_shared_ep \in {0, 1} /\ shared_ep[q] \in SharedRec
  BY ConstAssumption DEF TypeOK, Live
<1>2. comm[c].shared = use_shared_ep /\ comm[d].shared = use_shared_ep
  BY DEF EpInv, ModeAgrees
<1>3. CASE use_shared_ep = 0
  BY <1>3 DEF EpInv, PrivateExclusive
<1>4. CASE use_shared_ep = 1
  <2>1. shared_ep[q].refcount = 1
    BY <1>1, <1>2, <1>4 DEF ClosesEp, Released, SharedRec
  <2>2. c \in SharedComms(q) /\ d \in SharedComms(q)
    BY <1>2, <1>4 DEF SharedComms, Live
  <2>3. IsFiniteSet(SharedComms(q)) /\ Cardinality(SharedComms(q)) = 1
    BY <1>1, <2>1, SharedCommsFinite DEF EpInv, RefcountExact
  <2>4. IsFiniteSet(SharedComms(q) \ {c}) /\ Cardinality(SharedComms(q) \ {c}) = 0
    BY <2>2, <2>3, FS_RemoveElement
  <2>5. SharedComms(q) \ {c} = {}
    BY <2>4, FS_EmptySet
  <2> QED BY <2>2, <2>5
<1> QED BY <1>1, <1>3, <1>4

\* What psm2comm_init_ep finds: a closed endpoint nobody uses, or the open one that
\* every communicator of the rank is on.
LEMMA InitEpChoice ==
  ASSUME TypeOK, EpInv, NEW p \in Rank, NEW dev \in Dev, NEW e \in Ep, NEW u \in Dev,
         InitEp(p, dev, e, u)
  PROVE  /\ EpHome[e] = p
         /\ MustOpen(p) => /\ ep_unit[e] = NULL
                           /\ \A d \in Live : comm[d].ep # e
                           /\ use_shared_ep = 1 => /\ shared_ep[p].refcount = 0
                                                   /\ SharedComms(p) = {}
         /\ ~MustOpen(p) => /\ use_shared_ep = 1
                            /\ e = shared_ep[p].ep
                            /\ shared_ep[p].refcount > 0
                            /\ SharedComms(p) # {}
                            /\ \A d \in SharedComms(p) : comm[d].ep = e
                            /\ u = ep_unit[e]
<1>1. shared_ep[p].refcount \in Nat /\ use_shared_ep \in {0, 1}
  BY DEF TypeOK, SharedRec
<1>2. RefcountExact /\ EndpointOutlivesComms /\ SharedEpIsUsersEp /\ CommHome
  BY DEF EpInv
<1>3. shared_ep[p].refcount = 0 <=> SharedComms(p) = {}
  BY <1>2, RefcountZero
<1>4. CASE MustOpen(p)
  BY <1>1, <1>2, <1>3, <1>4 DEF InitEp, MustOpen, EndpointOutlivesComms
<1>5. CASE ~MustOpen(p)
  <2>1. use_shared_ep = 1 /\ shared_ep[p].refcount > 0
    BY <1>1, <1>5 DEF MustOpen
  <2>2. e = shared_ep[p].ep /\ u = ep_unit[e]
    BY <1>5 DEF InitEp
  <2>3. PICK d \in SharedComms(p) : TRUE
    BY <1>1, <1>3, <2>1
  <2>4. \A x \in SharedComms(p) : comm[x].ep = e
    BY <1>2, <2>1, <2>2 DEF SharedEpIsUsersEp
  <2>5. EpHome[e] = p
    BY <1>2, <2>3, <2>4 DEF CommHome, SharedComms, Live
  <2> QED BY <1>5, <2>1, <2>2, <2>3, <2>4, <2>5
<1> QED BY <1>4, <1>5-------------------------------------------------------------------------------
(* The endpoint part of the invariant across the four ways a call can touch it. *)

\* A call that touches none of the state EpInv is about keeps it.
LEMMA UntouchedKeepsEpInv ==
  ASSUME EpInv, UNCHANGED <<use_shared_ep, shared_ep, comm, ep_unit, abandoned>>
  PROVE  EpInv'
  BY DEF EpInv, RefcountExact, CommHome, EndpointOutlivesComms, SharedEpIsUsersEp,
         ModeAgrees, PrivateExclusive, NoEndpointLeak, Live, SharedComms

\* A new communicator of rank p attaches to the endpoint psm2comm_init_ep gave it.
LEMMA AttachKeepsEpInv ==
  ASSUME TypeOK, EpInv, NEW p \in Rank, NEW dev \in Dev, NEW c \in Comm,
         NEW e \in Ep, NEW u \in Dev, NEW rec \in CommRec,
         InitOk(p, dev, e, u), Home[c] = p, comm[c] = NULL,
         rec.ep = e, rec.shared = use_shared_ep,
         comm' = [comm EXCEPT ![c] = rec], UNCHANGED use_shared_ep
  PROVE  EpInv'
<1> DEFINE joined == SharedAfterInit(p, dev, e)
<1>1. /\ comm'[c] = rec /\ rec # NULL
      /\ \A d \in Comm \ {c} : comm'[d] = comm[d]
      /\ Live' = Live \cup {c}
  BY ConstAssumption DEF TypeOK, Live
<1>2. /\ shared_ep'[p] = joined
      /\ \A q \in Rank \ {p} : shared_ep'[q] = shared_ep[q]
      /\ ep_unit'[e] = u /\ u # NULL
      /\ \A x \in Ep \ {e} : ep_unit'[x] = ep_unit[x]
      /\ abandoned' = abandoned
  BY ConstAssumption DEF TypeOK, InitOk, UnitsAfterInit
<1>3. use_shared_ep \in {0, 1} /\ \A q \in Rank : shared_ep[q].refcount \in Nat
  BY DEF TypeOK, SharedRec
<1>4. /\ EpHome[e] = p
      /\ MustOpen(p) => /\ ep_unit[e] = NULL
                        /\ \A d \in Live : comm[d].ep # e
                        /\ use_shared_ep = 1 => /\ shared_ep[p].refcount = 0
                                                /\ SharedComms(p) = {}
      /\ ~MustOpen(p) => /\ use_shared_ep = 1
                         /\ e = shared_ep[p].ep
                         /\ shared_ep[p].refcount > 0
                         /\ SharedComms(p) # {}
                         /\ \A d \in SharedComms(p) : comm[d].ep = e
                         /\ u = ep_unit[e]
  BY InitEpChoice DEF InitOk
<1>5. \A q \in Rank :
        SharedComms(q)' = IF q = p /\ use_shared_ep = 1 THEN SharedComms(q) \cup {c}
                                                         ELSE SharedComms(q)
  BY <1>1, <1>3 DEF SharedComms
<1>6. c \notin SharedComms(p)
  BY DEF SharedComms
<1>7. RefcountExact'
  <2> SUFFICES ASSUME NEW q \in Rank
               PROVE  shared_ep'[q].refcount = Cardinality(SharedComms(q)')
    BY DEF RefcountExact
  <2>1. shared_ep[q].refcount = Cardinality(SharedComms(q))
    BY DEF EpInv, RefcountExact
  <2>2. CASE q = p /\ use_shared_ep = 1
    <3>1. Cardinality(SharedComms(p) \cup {c}) = Cardinality(SharedComms(p)) + 1
      BY <1>6, SharedCommsFinite, FS_AddElement
    <3>2. joined.refcount = shared_ep[p].refcount + 1
      BY <2>2 DEF SharedAfterInit
    <3> QED BY <1>2, <1>5, <2>1, <2>2, <3>1, <3>2
  <2>3. CASE ~(q = p /\ use_shared_ep = 1)
    <3>1. q = p => joined = shared_ep[p]
      BY <1>3, <2>3 DEF SharedAfterInit
    <3> QED BY <1>2, <1>5, <2>1, <2>3, <3>1
  <2> QED BY <2>2, <2>3
<1>8. CommHome'
  BY <1>1, <1>4 DEF EpInv, CommHome, Live
<1>9. EndpointOutlivesComms'
  BY <1>1, <1>2 DEF EpInv, EndpointOutlivesComms, Live, TypeOK, CommRec
<1>10. SharedEpIsUsersEp'
  <2> SUFFICES ASSUME NEW q \in Rank, shared_ep'[q].refcount > 0
               PROVE  /\ shared_ep'[q].ep # NULL
                      /\ \A d \in SharedComms(q)' : comm'[d].ep = shared_ep'[q].ep
    BY DEF SharedEpIsUsersEp
  <2>1. CASE q = p /\ use_shared_ep = 1
    <3>1. shared_ep'[q].ep = e /\ e # NULL
      BY <1>2, <2>1, ConstAssumption DEF SharedAfterInit
    <3>2. \A d \in SharedComms(p) : d # c /\ comm'[d].ep = e
      BY <1>1, <1>4, <1>6, <2>1 DEF SharedComms
    <3> QED BY <1>1, <1>5, <2>1, <3>1, <3>2
  <2>2. CASE ~(q = p /\ use_shared_ep = 1)
    <3>1. shared_ep'[q] = shared_ep[q]
      BY <1>2, <1>3, <2>2 DEF SharedAfterInit
    <3>2. SharedComms(q)' = SharedComms(q)
      BY <1>5, <2>2
    <3>3. \A d \in SharedComms(q) : comm'[d] = comm[d]
      BY <1>1 DEF SharedComms
    <3> QED BY <3>1, <3>2, <3>3 DEF EpInv, SharedEpIsUsersEp
  <2> QED BY <2>1, <2>2
<1>11. ModeAgrees'
  BY <1>1 DEF EpInv, ModeAgrees, Live
<1>12. PrivateExclusive'
  <2> SUFFICES ASSUME use_shared_ep = 0,
                      NEW d1 \in Live', NEW d2 \in Live', comm'[d1].ep = comm'[d2].ep
               PROVE  d1 = d2
    BY DEF PrivateExclusive
  <2>1. \A d \in Live : comm[d].ep # e
    BY <1>4 DEF MustOpen
  <2> QED BY <1>1, <2>1 DEF EpInv, PrivateExclusive, Live
<1>13. NoEndpointLeak'
  <2> SUFFICES ASSUME NEW x \in Ep, ep_unit'[x] # NULL, x \notin abandoned
               PROVE  \E d \in Live' : comm'[d].ep = x
    BY <1>2 DEF NoEndpointLeak
  <2>1. CASE x = e
    BY <1>1, <2>1
  <2>2. CASE x # e
    BY <1>1, <1>2, <2>2 DEF EpInv, NoEndpointLeak, Live
  <2> QED BY <2>1, <2>2
<1> QED BY <1>7, <1>8, <1>9, <1>10, <1>11, <1>12, <1>13 DEF EpInv

\* psm2comm_fini of a communicator: the endpoint is closed only if no other is on it.
LEMMA DetachKeepsEpInv ==
  ASSUME TypeOK, EpInv, NEW c \in Live, NEW eprc,
         Fini(Home[c], shared_ep[Home[c]], comm[c].shared, ep_unit, comm[c].ep, eprc),
         comm' = [comm EXCEPT ![c] = NULL], UNCHANGED use_shared_ep
  PROVE  EpInv'
<1> DEFINE p == Home[c]
           e == comm[c].ep
           s == comm[c].shared
           others == SharedComms(p) \ {c}
           left == SharedAfterFini(shared_ep[p], s)
<1>1. /\ c \in Comm /\ p \in Rank /\ e \in Ep /\ EpHome[e] = p
      /\ s = use_shared_ep /\ s \in {0, 1}
      /\ \A q \in Rank : shared_ep[q] \in SharedRec
  BY ConstAssumption DEF EpInv, TypeOK, CommRec, CommHome, ModeAgrees, Live
<1>2. /\ comm'[c] = NULL
      /\ \A d \in Comm \ {c} : comm'[d] = comm[d]
      /\ Live' = Live \ {c}
  BY <1>1 DEF TypeOK, Live
<1>3. \A q \in Rank :
        SharedComms(q)' = IF q = p /\ s = 1 THEN SharedComms(q) \ {c} ELSE SharedComms(q)
  BY <1>1, <1>2 DEF SharedComms
<1>4. \A d \in Live : d # c /\ comm[d].ep = e => s = 1 /\ d \in others
  <2> SUFFICES ASSUME NEW d \in Live, d # c, comm[d].ep = e
               PROVE  s = 1 /\ d \in others
    OBVIOUS
  <2>1. s = 1
    BY <1>1 DEF EpInv, PrivateExclusive
  <2>2. Home[d] = p /\ comm[d].shared = 1
    BY <1>1, <2>1 DEF EpInv, CommHome, ModeAgrees
  <2> QED BY <2>1, <2>2 DEF SharedComms, Live
<1>5. s = 1 => /\ c \in SharedComms(p)
               /\ Cardinality(others) = shared_ep[p].refcount - 1
               /\ shared_ep[p].refcount > 0
               /\ shared_ep[p].refcount - 1 = 0 <=> others = {}
               /\ shared_ep[p].ep = e /\ shared_ep[p].ep # NULL
               /\ \A d \in others : comm[d].ep = e
  <2> SUFFICES ASSUME s = 1
               PROVE  /\ c \in SharedComms(p)
                      /\ Cardinality(others) = shared_ep[p].refcount - 1
                      /\ shared_ep[p].refcount > 0
                      /\ shared_ep[p].refcount - 1 = 0 <=> others = {}
                      /\ shared_ep[p].ep = e /\ shared_ep[p].ep # NULL
                      /\ \A d \in others : comm[d].ep = e
    OBVIOUS
  <2>1. c \in SharedComms(p)
    BY <1>1 DEF SharedComms, Live
  <2>2. IsFiniteSet(SharedComms(p)) /\ IsFiniteSet(others)
    BY <1>1, SharedCommsFinite, FS_RemoveElement
  <2>3. Cardinality(others) = Cardinality(SharedComms(p)) - 1
    BY <2>1, <2>2, FS_RemoveElement
  <2>4. shared_ep[p].refcount = Cardinality(SharedComms(p))
    BY <1>1 DEF EpInv, RefcountExact
  <2>5. Cardinality(others) = 0 <=> others = {}
    BY <2>2, FS_EmptySet
  <2>6. shared_ep[p].refcount > 0
    <3>1. shared_ep[p].refcount = 0 <=> SharedComms(p) = {}
      BY <1>1, RefcountZero DEF EpInv
    <3> QED BY <1>1, <2>1, <3>1 DEF SharedRec
  <2>7. \A d \in SharedComms(p) : comm[d].ep = shared_ep[p].ep
    BY <1>1, <2>6 DEF EpInv, SharedEpIsUsersEp
  <2>8. shared_ep[p].ep # NULL
    BY <1>1, <2>6 DEF EpInv, SharedEpIsUsersEp
  <2> QED BY <2>1, <2>3, <2>4, <2>5, <2>6, <2>7, <2>8
<1>6. /\ shared_ep'[p] = left
      /\ \A q \in Rank \ {p} : shared_ep'[q] = shared_ep[q]
  BY <1>1 DEF Fini, TypeOK
<1>7. s = 1 => left.refcount = shared_ep[p].refcount - 1
  BY <1>1, <1>5 DEF SharedAfterFini, ClosesEp, Released, ZeroSharedEp, SharedRec
<1>8. s = 0 => left = shared_ep[p]
  BY DEF SharedAfterFini, Released
<1>9. \/ /\ s = 0 \/ others = {}
         /\ \/ ep_unit' = [ep_unit EXCEPT ![e] = NULL] /\ abandoned' = abandoned
            \/ ep_unit' = ep_unit /\ abandoned' = abandoned \cup {e}
      \/ /\ s = 1 /\ others # {}
         /\ ep_unit' = ep_unit /\ abandoned' = abandoned
  <2>1. CASE ClosesEp(shared_ep[p], s)
    BY <1>1, <1>5, <2>1 DEF Fini, EpClose, ClosesEp, Released, SharedRec
  <2>2. CASE ~ClosesEp(shared_ep[p], s)
    BY <1>1, <1>5, <2>2 DEF Fini, ClosesEp, Released, SharedRec
  <2> QED BY <2>1, <2>2
<1>10. RefcountExact'
  <2> SUFFICES ASSUME NEW q \in Rank
               PROVE  shared_ep'[q].refcount = Cardinality(SharedComms(q)')
    BY DEF RefcountExact
  <2>1. shared_ep[q].refcount = Cardinality(SharedComms(q))
    BY DEF EpInv, RefcountExact
  <2> QED BY <1>1, <1>3, <1>5, <1>6, <1>7, <1>8, <2>1
<1>11. CommHome'
  BY <1>2 DEF EpInv, CommHome, Live
<1>12. EndpointOutlivesComms'
  <2> SUFFICES ASSUME NEW d \in Live' PROVE ep_unit'[comm'[d].ep] # NULL
    BY DEF EndpointOutlivesComms
  <2>1. d \in Live /\ d # c /\ comm'[d] = comm[d] /\ ep_unit[comm[d].ep] # NULL
    BY <1>2 DEF EpInv, EndpointOutlivesComms, Live
  <2>2. comm[d].ep \in Ep
    BY <2>1 DEF TypeOK, CommRec, Live
  <2> QED BY <1>1, <1>4, <1>9, <2>1, <2>2 DEF TypeOK
<1>13. SharedEpIsUsersEp'
  <2> SUFFICES ASSUME NEW q \in Rank, shared_ep'[q].refcount > 0
               PROVE  /\ shared_ep'[q].ep # NULL
                      /\ \A d \in SharedComms(q)' : comm'[d].ep = shared_ep'[q].ep
    BY DEF SharedEpIsUsersEp
  <2>1. CASE q = p /\ s = 1
    <3>1. shared_ep[p].refcount - 1 # 0
      BY <1>1, <1>5, <1>6, <1>7, <2>1
    <3>2. left.ep = shared_ep[p].ep
      BY <1>1, <2>1, <3>1 DEF SharedAfterFini, ClosesEp, Released, SharedRec
    <3>3. SharedComms(p)' = others
      BY <1>1, <1>3, <2>1
    <3>4. \A d \in others : comm'[d] = comm[d]
      BY <1>2 DEF SharedComms
    <3> QED BY <1>5, <1>6, <2>1, <3>2, <3>3, <3>4
  <2>2. CASE ~(q = p /\ s = 1)
    <3>1. shared_ep'[q] = shared_ep[q]
      BY <1>1, <1>6, <1>8, <2>2
    <3>2. SharedComms(q)' = SharedComms(q)
      BY <1>3, <2>2
    <3>3. \A d \in SharedComms(q) : d # c /\ comm'[d] = comm[d]
      BY <1>1, <1>2, <2>2 DEF SharedComms
    <3> QED BY <3>1, <3>2, <3>3 DEF EpInv, SharedEpIsUsersEp
  <2> QED BY <2>1, <2>2
<1>14. ModeAgrees'
  BY <1>2 DEF EpInv, ModeAgrees, Live
<1>15. PrivateExclusive'
  BY <1>2 DEF EpInv, PrivateExclusive, Live
<1>16. NoEndpointLeak'
  <2> SUFFICES ASSUME NEW x \in Ep, ep_unit'[x] # NULL, x \notin abandoned'
               PROVE  \E d \in Live' : comm'[d].ep = x
    BY DEF NoEndpointLeak
  <2>1. ep_unit[x] # NULL /\ x \notin abandoned
    BY <1>1, <1>9 DEF TypeOK
  <2>2. PICK d \in Live : comm[d].ep = x
    BY <2>1 DEF EpInv, NoEndpointLeak
  <2>3. CASE d # c
    BY <1>2, <2>2, <2>3 DEF Live
  <2>4. CASE d = c
    <3>1. s = 1 /\ others # {}
      BY <1>1, <1>9, <2>2, <2>4 DEF TypeOK
    <3>2. PICK y \in others : comm[y].ep = e
      BY <1>5, <3>1
    <3> QED BY <1>2, <2>2, <2>4, <3>2 DEF SharedComms, Live
  <2> QED BY <2>3, <2>4
<1> QED BY <1>10, <1>11, <1>12, <1>13, <1>14, <1>15, <1>16 DEF EpInv

\* A communicator that got its endpoint and is undone again leaves things as they were.
LEMMA BailOutEffect ==
  ASSUME TypeOK, EpInv, NEW p \in Rank, NEW dev \in Dev, NEW e \in Ep, NEW u \in Dev,
         NEW eprc, BailOut(p, dev, e, u, eprc)
  PROVE  /\ UNCHANGED <<use_shared_ep, comm>>
         /\ \A q \in Rank : /\ shared_ep'[q].refcount = shared_ep[q].refcount
                            /\ shared_ep[q].refcount > 0 => shared_ep'[q].ep = shared_ep[q].ep
         /\ \A x \in Ep : \/ ep_unit'[x] = ep_unit[x] /\ (x \in abandoned => x \in abandoned')
                          \/ /\ x = e /\ ep_unit[x] = NULL /\ \A d \in Live : comm[d].ep # x
                             /\ ep_unit'[x] = NULL \/ x \in abandoned'
<1> DEFINE joined == SharedAfterInit(p, dev, e)
           s == use_shared_ep
<1>1. /\ s \in {0, 1} /\ shared_ep[p] \in SharedRec
      /\ UNCHANGED <<use_shared_ep, comm>>
      /\ InitEp(p, dev, e, u)
      /\ Fini(p, joined, s, UnitsAfterInit(e, u), e, eprc)
  BY DEF TypeOK, BailOut, config
<1>2. /\ MustOpen(p) => /\ ep_unit[e] = NULL
                        /\ \A d \in Live : comm[d].ep # e
                        /\ s = 1 => shared_ep[p].refcount = 0 /\ SharedComms(p) = {}
      /\ ~MustOpen(p) => /\ s = 1
                         /\ e = shared_ep[p].ep
                         /\ shared_ep[p].refcount > 0
                         /\ u = ep_unit[e]
  BY <1>1, InitEpChoice
<1>3. /\ shared_ep'[p] = SharedAfterFini(joined, s)
      /\ \A q \in Rank \ {p} : shared_ep'[q] = shared_ep[q]
  BY <1>1 DEF Fini, TypeOK
<1>4. /\ shared_ep'[p].refcount = shared_ep[p].refcount
      /\ shared_ep[p].refcount > 0 => shared_ep'[p].ep = shared_ep[p].ep
  <2>1. CASE s = 0
    BY <1>3, <2>1 DEF SharedAfterInit, SharedAfterFini, Released
  <2>2. CASE s = 1
    <3>1. joined.refcount = shared_ep[p].refcount + 1 /\ joined.ep = e
      BY <2>2 DEF SharedAfterInit
    <3>2. Released(joined, s).refcount = shared_ep[p].refcount /\ Released(joined, s).ep = e
      BY <1>1, <2>2, <3>1 DEF Released, SharedAfterInit, SharedRec
    <3>3. CASE MustOpen(p)
      BY <1>2, <1>3, <2>2, <3>2, <3>3 DEF SharedAfterFini, ClosesEp, ZeroSharedEp
    <3>4. CASE ~MustOpen(p)
      BY <1>1, <1>2, <1>3, <2>2, <3>2, <3>4 DEF SharedAfterFini, ClosesEp, SharedRec
    <3> QED BY <3>3, <3>4
  <2> QED BY <1>1, <2>1, <2>2
<1>5. \A x \in Ep : \/ ep_unit'[x] = ep_unit[x] /\ (x \in abandoned => x \in abandoned')
                    \/ /\ x = e /\ MustOpen(p)
                       /\ ep_unit'[x] = NULL \/ x \in abandoned'
  <2>1. CASE MustOpen(p)
    <3>1. ClosesEp(joined, s)
      <4>1. CASE s = 0
        BY <4>1 DEF ClosesEp
      <4>2. CASE s = 1
        BY <1>2, <2>1, <4>2 DEF ClosesEp, Released, SharedAfterInit
      <4> QED BY <1>1, <4>1, <4>2
    <3> QED BY <1>1, <2>1, <3>1 DEF Fini, EpClose, UnitsAfterInit, TypeOK
  <2>2. CASE ~MustOpen(p)
    <3>1. joined.refcount = shared_ep[p].refcount + 1
      BY <1>2, <2>2 DEF SharedAfterInit
    <3>2. Released(joined, s).refcount = shared_ep[p].refcount
      BY <1>1, <1>2, <2>2, <3>1 DEF Released, SharedAfterInit, SharedRec
    <3>3. ~ClosesEp(joined, s)
      BY <1>1, <1>2, <2>2, <3>2 DEF ClosesEp, SharedRec
    <3> QED BY <1>1, <1>2, <2>2, <3>3 DEF Fini, UnitsAfterInit, TypeOK
  <2> QED BY <2>1, <2>2
<1> QED BY <1>1, <1>2, <1>3, <1>4, <1>5

\* So it keeps the invariant.
LEMMA BailOutKeepsEpInv ==
  ASSUME TypeOK, EpInv, NEW p \in Rank, NEW dev \in Dev, NEW e \in Ep, NEW u \in Dev,
         NEW eprc, BailOut(p, dev, e, u, eprc)
  PROVE  EpInv'
<1>1. /\ UNCHANGED <<use_shared_ep, comm>>
      /\ \A q \in Rank : /\ shared_ep'[q].refcount = shared_ep[q].refcount
                         /\ shared_ep[q].refcount > 0 => shared_ep'[q].ep = shared_ep[q].ep
      /\ \A x \in Ep : \/ ep_unit'[x] = ep_unit[x] /\ (x \in abandoned => x \in abandoned')
                       \/ /\ x = e /\ ep_unit[x] = NULL /\ \A d \in Live : comm[d].ep # x
                          /\ ep_unit'[x] = NULL \/ x \in abandoned'
  BY BailOutEffect
<1>2. Live' = Live /\ \A q \in Rank : SharedComms(q)' = SharedComms(q)
  BY <1>1 DEF Live, SharedComms
<1>3. RefcountExact'
  BY <1>1, <1>2 DEF EpInv, RefcountExact
<1>4. CommHome' /\ ModeAgrees' /\ PrivateExclusive'
  BY <1>1, <1>2 DEF EpInv, CommHome, ModeAgrees, PrivateExclusive
<1>5. EndpointOutlivesComms'
  <2> SUFFICES ASSUME NEW d \in Live PROVE ep_unit'[comm[d].ep] # NULL
    BY <1>1, <1>2 DEF EndpointOutlivesComms
  <2>1. comm[d].ep \in Ep /\ ep_unit[comm[d].ep] # NULL
    BY DEF EpInv, EndpointOutlivesComms, TypeOK, CommRec, Live
  <2> QED BY <1>1, <2>1
<1>6. SharedEpIsUsersEp'
  BY <1>1, <1>2 DEF EpInv, SharedEpIsUsersEp
<1>7. NoEndpointLeak'
  BY <1>1, <1>2 DEF EpInv, NoEndpointLeak
<1> QED BY <1>3, <1>4, <1>5, <1>6, <1>7 DEF EpInv

-------------------------------------------------------------------------------
(* The device part of the invariant.                                       *)

\* A call that touches none of the state DeviceInv is about keeps it.
LEMMA UntouchedKeepsDeviceInv ==
  ASSUME DeviceInv, UNCHANGED <<config, shared_ep, comm, ep_unit>>
  PROVE  DeviceInv'
  BY DEF DeviceInv, UnitRemembered, DeviceHonoured, Live, SharedComms, config

\* Joining the shared endpoint puts a communicator on its unit; with the policy
\* SHARED_EP_MULTI_ERROR that is the device asked for.
LEMMA AttachKeepsDeviceInv ==
  ASSUME TypeOK, EpInv, DeviceInv, NEW p \in Rank, NEW dev \in Dev, NEW c \in Comm,
         NEW e \in Ep, NEW u \in Dev, NEW rec \in CommRec,
         InitOk(p, dev, e, u), Home[c] = p, comm[c] = NULL,
         rec.ep = e, rec.shared = use_shared_ep, rec.dev = dev,
         comm' = [comm EXCEPT ![c] = rec], UNCHANGED config
  PROVE  DeviceInv'
<1>1. /\ comm'[c] = rec /\ rec # NULL
      /\ \A d \in Comm \ {c} : comm'[d] = comm[d]
      /\ \A d \in Live : comm[d].ep \in Ep
  BY ConstAssumption DEF TypeOK, Live, CommRec
<1>2. /\ use_shared_ep \in {0, 1} /\ use_nccl_dev_num \in {0, 1}
      /\ UNCHANGED <<use_shared_ep, use_nccl_dev_num, shared_ep_multi_policy>>
  BY DEF TypeOK, config
<1>3. /\ shared_ep'[p] = SharedAfterInit(p, dev, e)
      /\ \A q \in Rank \ {p} : shared_ep'[q] = shared_ep[q]
      /\ ep_unit'[e] = u
      /\ \A x \in Ep \ {e} : ep_unit'[x] = ep_unit[x]
      /\ InitEp(p, dev, e, u)
  BY DEF TypeOK, InitOk, UnitsAfterInit
<1>4. /\ MustOpen(p) => /\ ep_unit[e] = NULL
                        /\ \A d \in Live : comm[d].ep # e
                        /\ use_shared_ep = 1 => SharedComms(p) = {}
      /\ ~MustOpen(p) => /\ use_shared_ep = 1
                         /\ shared_ep[p].refcount > 0
                         /\ SharedComms(p) # {}
                         /\ \A d \in SharedComms(p) : comm[d].ep = e
                         /\ u = ep_unit[e]
  BY <1>3, InitEpChoice
<1>5. \A d \in Live : d # c /\ ep_unit'[comm[d].ep] = ep_unit[comm[d].ep]
  BY <1>1, <1>3, <1>4 DEF Live
<1>6. use_nccl_dev_num = 1 /\ MustOpen(p) => u = dev
  BY <1>3 DEF InitEp
<1>7. use_nccl_dev_num = 1 /\ ~MustOpen(p) => u = shared_ep[p].unit
  BY <1>4 DEF DeviceInv, UnitRemembered
<1>8. UnitRemembered'
  <2> SUFFICES ASSUME use_nccl_dev_num = 1, NEW q \in Rank, NEW d \in SharedComms(q)'
               PROVE  ep_unit'[comm'[d].ep] = shared_ep'[q].unit
    BY <1>2 DEF UnitRemembered
  <2>1. CASE d = c
    <3>1. q = p /\ use_shared_ep = 1
      BY <1>1, <2>1 DEF SharedComms
    <3> QED BY <1>1, <1>3, <1>6, <1>7, <2>1, <3>1 DEF SharedAfterInit
  <2>2. CASE d # c
    <3>1. d \in SharedComms(q) /\ d \in Live /\ comm'[d] = comm[d]
      BY <1>1, <2>2 DEF SharedComms, Live
    <3>2. ep_unit[comm[d].ep] = shared_ep[q].unit
      BY <3>1 DEF DeviceInv, UnitRemembered
    <3>3. shared_ep'[q].unit = shared_ep[q].unit
      BY <1>2, <1>3, <1>4, <3>1 DEF SharedAfterInit
    <3> QED BY <1>5, <3>1, <3>2, <3>3
  <2> QED BY <2>1, <2>2
<1>9. DeviceHonoured'
  <2> SUFFICES ASSUME use_nccl_dev_num = 1,
                      use_shared_ep = 1 => shared_ep_multi_policy = "SHARED_EP_MULTI_ERROR",
                      NEW d \in Live'
               PROVE  ep_unit'[comm'[d].ep] = comm'[d].dev
    BY <1>2 DEF DeviceHonoured
  <2>1. CASE d = c
    <3>1. ~MustOpen(p) => u = dev
      BY <1>3, <1>4, <1>7 DEF InitEp, UnitRefused, UnitMismatch
    <3> QED BY <1>1, <1>3, <1>6, <2>1, <3>1
  <2>2. CASE d # c
    BY <1>1, <1>5, <2>2 DEF DeviceInv, DeviceHonoured, Live
  <2> QED BY <2>1, <2>2
<1> QED BY <1>8, <1>9 DEF DeviceInv

\* The communicators that stay keep their endpoint, its unit, and what shared_ep
\* remembers of it.
LEMMA DetachKeepsDeviceInv ==
  ASSUME TypeOK, EpInv, DeviceInv, EpInv', NEW c \in Live, NEW eprc,
         Fini(Home[c], shared_ep[Home[c]], comm[c].shared, ep_unit, comm[c].ep, eprc),
         comm' = [comm EXCEPT ![c] = NULL], UNCHANGED config
  PROVE  DeviceInv'
<1>1. /\ \A d \in Live' : d \in Live /\ d # c /\ comm'[d] = comm[d] /\ comm[d].ep \in Ep
      /\ \A q \in Rank : SharedComms(q)' \subseteq SharedComms(q)
      /\ UNCHANGED <<use_shared_ep, use_nccl_dev_num, shared_ep_multi_policy>>
      /\ c \in Comm /\ Home[c] \in Rank /\ comm[c].ep \in Ep
  BY ConstAssumption DEF TypeOK, CommRec, Live, SharedComms, config
<1>2. \A x \in Ep : ep_unit'[x] = ep_unit[x] \/ ep_unit'[x] = NULL
  BY <1>1 DEF Fini, EpClose, TypeOK
<1>3. \A d \in Live' : ep_unit'[comm[d].ep] = ep_unit[comm[d].ep]
  BY <1>1, <1>2 DEF EpInv, EndpointOutlivesComms
<1>4. \A q \in Rank : SharedComms(q)' # {} => shared_ep'[q].unit = shared_ep[q].unit
  <2> SUFFICES ASSUME NEW q \in Rank, SharedComms(q)' # {}
               PROVE  shared_ep'[q].unit = shared_ep[q].unit
    OBVIOUS
  <2>1. shared_ep'[q].refcount # 0
    <3>1. shared_ep'[q].refcount = Cardinality(SharedComms(q)')
      BY DEF EpInv, RefcountExact
    <3>2. IsFiniteSet(SharedComms(q)')
      BY <1>1, SharedCommsFinite, FS_Subset
    <3> QED BY <3>1, <3>2, FS_EmptySet
  <2>2. CASE q = Home[c]
    <3>1. shared_ep'[q] = SharedAfterFini(shared_ep[q], comm[c].shared)
      BY <1>1, <2>2 DEF Fini, TypeOK
    <3> QED BY <2>1, <3>1 DEF SharedAfterFini, Released, ZeroSharedEp, TypeOK, SharedRec
  <2>3. CASE q # Home[c]
    BY <1>1, <2>3 DEF Fini, TypeOK
  <2> QED BY <2>2, <2>3
<1>5. UnitRemembered'
  <2> SUFFICES ASSUME use_nccl_dev_num = 1, NEW q \in Rank, NEW d \in SharedComms(q)'
               PROVE  ep_unit'[comm'[d].ep] = shared_ep'[q].unit
    BY <1>1 DEF UnitRemembered
  <2>1. d \in Live' /\ d \in SharedComms(q)
    BY <1>1 DEF SharedComms, Live
  <2> QED BY <1>1, <1>3, <1>4, <2>1 DEF DeviceInv, UnitRemembered
<1>6. DeviceHonoured'
  BY <1>1, <1>3 DEF DeviceInv, DeviceHonoured
<1> QED BY <1>5, <1>6 DEF DeviceInv

\* An undone attachment changes neither the unit of an endpoint in use nor shared_ep
\* while somebody points to it.
LEMMA BailOutKeepsDeviceInv ==
  ASSUME TypeOK, EpInv, DeviceInv, EpInv', NEW p \in Rank, NEW dev \in Dev,
         NEW e \in Ep, NEW u \in Dev, NEW eprc, BailOut(p, dev, e, u, eprc)
  PROVE  DeviceInv'
<1> DEFINE joined == SharedAfterInit(p, dev, e)
           s == use_shared_ep
<1>1. /\ s \in {0, 1} /\ shared_ep[p] \in SharedRec
      /\ UNCHANGED <<use_shared_ep, use_nccl_dev_num, shared_ep_multi_policy, comm>>
      /\ InitEp(p, dev, e, u)
      /\ Fini(p, joined, s, UnitsAfterInit(e, u), e, eprc)
  BY DEF TypeOK, BailOut, config
<1>2. /\ MustOpen(p) => /\ \A d \in Live : comm[d].ep # e
                        /\ s = 1 => SharedComms(p) = {}
      /\ ~MustOpen(p) => s = 1 /\ u = ep_unit[e]
  BY <1>1, InitEpChoice
<1>3. \A x \in Ep : x # e \/ ~MustOpen(p) => ep_unit'[x] = ep_unit[x] \/ ep_unit'[x] = NULL
  BY <1>1, <1>2 DEF Fini, EpClose, UnitsAfterInit, TypeOK
<1>4. \A d \in Live : ep_unit'[comm[d].ep] = ep_unit[comm[d].ep]
  <2> SUFFICES ASSUME NEW d \in Live
               PROVE  ep_unit'[comm[d].ep] = ep_unit[comm[d].ep]
    OBVIOUS
  <2>1. comm[d].ep \in Ep /\ d \in Live'
    BY <1>1 DEF TypeOK, CommRec, Live
  <2>2. ep_unit'[comm[d].ep] # NULL
    BY <1>1, <2>1 DEF EpInv, EndpointOutlivesComms
  <2> QED BY <1>2, <1>3, <2>1, <2>2
<1>5. \A q \in Rank : SharedComms(q) # {} => shared_ep'[q].unit = shared_ep[q].unit
  <2> SUFFICES ASSUME NEW q \in Rank, SharedComms(q) # {}
               PROVE  shared_ep'[q].unit = shared_ep[q].unit
    OBVIOUS
  <2>1. CASE q = p
    <3>1. s = 1
      BY <1>1 DEF SharedComms, EpInv, ModeAgrees, Live
    <3>2. ~MustOpen(p)
      BY <1>2, <2>1, <3>1
    <3>3. shared_ep[p].refcount > 0
      BY <1>1, <3>2 DEF MustOpen, SharedRec
    <3>4. joined.unit = shared_ep[p].unit /\ joined.refcount = shared_ep[p].refcount + 1
      BY <3>1, <3>2 DEF SharedAfterInit
    <3>5. /\ Released(joined, s).unit = shared_ep[p].unit
          /\ Released(joined, s).refcount = shared_ep[p].refcount
      BY <1>1, <3>1, <3>4 DEF Released, SharedAfterInit, SharedRec
    <3>6. ~ClosesEp(joined, s)
      BY <1>1, <3>1, <3>3, <3>5 DEF ClosesEp, SharedRec
    <3> QED BY <1>1, <2>1, <3>5, <3>6 DEF Fini, SharedAfterFini, TypeOK
  <2>2. CASE q # p
    BY <1>1, <2>2 DEF Fini, TypeOK
  <2> QED BY <2>1, <2>2
<1>6. Live' = Live /\ \A q \in Rank : SharedComms(q)' = SharedComms(q)
  BY <1>1 DEF Live, SharedComms
<1>7. UnitRemembered'
  <2> SUFFICES ASSUME use_nccl_dev_num = 1, NEW q \in Rank, NEW d \in SharedComms(q)
               PROVE  ep_unit'[comm[d].ep] = shared_ep'[q].unit
    BY <1>1, <1>6 DEF UnitRemembered
  <2>1. d \in Live
    BY DEF SharedComms, Live
  <2> QED BY <1>4, <1>5, <2>1 DEF DeviceInv, UnitRemembered
<1>8. DeviceHonoured'
  BY <1>1, <1>4, <1>6 DEF DeviceInv, DeviceHonoured
<1> QED BY <1>7, <1>8 DEF DeviceInv

-------------------------------------------------------------------------------
(* Types of what psm2comm_init_ep and psm2comm_fini leave in shared_ep, and  *)
(* of the endpoints.                                                         *)

\* An attachment keeps shared_ep and the endpoints of their type.
LEMMA InitOkType ==
  ASSUME TypeOK, NEW p \in Rank, NEW dev \in Dev, NEW e \in Ep, NEW u \in Dev,
         InitOk(p, dev, e, u)
  PROVE  /\ shared_ep' \in [Rank -> SharedRec]
         /\ ep_unit' \in [Ep -> Dev \cup {NULL}]
         /\ abandoned' \in SUBSET Ep
<1>1. SharedAfterInit(p, dev, e) \in SharedRec
  BY DEF TypeOK, SharedAfterInit, SharedRec
<1> QED BY <1>1 DEF TypeOK, InitOk, UnitsAfterInit

\* So does psm2comm_fini, if it releases a reference only where there is one.
LEMMA FiniType ==
  ASSUME TypeOK, NEW p \in Rank, NEW sh \in SharedRec, NEW s \in {0, 1},
         s = 1 => sh.refcount > 0,
         NEW units \in [Ep -> Dev \cup {NULL}], NEW e \in Ep, NEW eprc,
         Fini(p, sh, s, units, e, eprc)
  PROVE  /\ shared_ep' \in [Rank -> SharedRec]
         /\ ep_unit' \in [Ep -> Dev \cup {NULL}]
         /\ abandoned' \in SUBSET Ep
<1>1. Released(sh, s) \in SharedRec
  BY DEF Released, SharedRec
<1>2. ZeroSharedEp \in SharedRec
  BY ConstAssumption DEF ZeroSharedEp, SharedRec
<1>3. SharedAfterFini(sh, s) \in SharedRec
  BY <1>1, <1>2 DEF SharedAfterFini
<1> QED BY <1>3 DEF TypeOK, Fini, EpClose

\* A communicator that closes is counted, so its release does not wrap refcount.
LEMMA CloseReleasesOne ==
  ASSUME TypeOK, EpInv, NEW c \in Live, comm[c].shared = 1
  PROVE  shared_ep[Home[c]].refcount > 0
<1>1. c \in Comm /\ Home[c] \in Rank /\ c \in SharedComms(Home[c])
  BY ConstAssumption DEF Live, SharedComms
<1>2. shared_ep[Home[c]].refcount # 0
  BY <1>1, RefcountZero DEF EpInv
<1> QED BY <1>1, <1>2 DEF TypeOK, SharedRec

\* And so does an attachment that is undone.
LEMMA BailOutType ==
  ASSUME TypeOK, NEW p \in Rank, NEW dev \in Dev, NEW e \in Ep, NEW u \in Dev,
         NEW eprc, BailOut(p, dev, e, u, eprc)
  PROVE  /\ shared_ep' \in [Rank -> SharedRec]
         /\ ep_unit' \in [Ep -> Dev \cup {NULL}]
         /\ abandoned' \in SUBSET Ep
<1> DEFINE joined == SharedAfterInit(p, dev, e)
<1>1. joined \in SharedRec /\ (use_shared_ep = 1 => joined.refcount > 0)
  BY DEF TypeOK, SharedAfterInit, SharedRec
<1>2. UnitsAfterInit(e, u) \in [Ep -> Dev \cup {NULL}] /\ use_shared_ep \in {0, 1}
  BY DEF TypeOK, UnitsAfterInit
<1>3. Fini(p, joined, use_shared_ep, UnitsAfterInit(e, u), e, eprc)
  BY DEF BailOut
<1> HIDE DEF joined
<1> QED BY <1>1, <1>2, <1>3, FiniType

-------------------------------------------------------------------------------
(* The invariant, one lemma per kind of call.                              *)

\* A call that changes only its result, and at most what NCCL holds.
LEMMA QuietKeepsIInv ==
  ASSUME IInv, ret' \in RetRec, held' \in [Comm -> Role],
         UNCHANGED <<config, next_tag, shared_ep, comm, epVars, handles, listens>>,
         HeldLive', NoneStranded'
  PROVE  IInv'
<1>1. UNCHANGED <<use_shared_ep, use_nccl_dev_num, shared_ep_multi_policy,
                  ep_unit, abandoned>>
  BY DEF config, epVars
<1>2. TypeOK'
  BY <1>1 DEF IInv, TypeOK
<1>3. EpInv' /\ DeviceInv'
  BY <1>1, UntouchedKeepsEpInv, UntouchedKeepsDeviceInv DEF IInv, config
<1>4. TagInv'
  BY DEF IInv, TagInv, Receivers, Senders, Live
<1> QED BY <1>2, <1>3, <1>4 DEF IInv

\* psm2_nccl_listen: an attachment, and a tag that was never given out.
LEMMA ListenKeepsIInv ==
  ASSUME IInv, NEW p \in Rank, NEW dev \in Dev, NEW c \in Comm, NEW e \in Ep,
         NEW u \in Dev, Listen(p, dev, c, e, u)
  PROVE  IInv'
<1> DEFINE tag == next_tag[p]
           rec == [ep |-> e, shared |-> use_shared_ep, tag |-> tag, rem_epid |-> NULL,
                   dev |-> dev, born |-> <<p, listens[p]>>]
           h == [epid |-> e, tag |-> tag, born |-> <<p, listens[p]>>]
<1>1. /\ TypeOK /\ EpInv /\ DeviceInv /\ TagInv
      /\ UNCHANGED <<config, use_shared_ep, use_nccl_dev_num, shared_ep_multi_policy>>
      /\ Home[c] = p /\ comm[c] = NULL /\ InitOk(p, dev, e, u)
      /\ comm' = [comm EXCEPT ![c] = rec] /\ handles' = handles \cup {h}
      /\ next_tag' = [next_tag EXCEPT ![p] = @ + 1]
      /\ listens' = [listens EXCEPT ![p] = @ + 1]
      /\ held' = [held EXCEPT ![c] = "listen"]
      /\ ret' = [rc |-> "ncclSuccess", out |-> c, psm |-> "PSM2_OK"]
  BY DEF IInv, Listen, Allocates, NextTag, Succeeds, Returns, config
<1>2. rec \in CommRec /\ h \in Handle /\ rec # NULL /\ tag \in Nat
  BY <1>1, ConstAssumption DEF TypeOK, CommRec, Handle
<1>3. EpInv'
  BY <1>1, <1>2, AttachKeepsEpInv
<1>4. DeviceInv'
  BY <1>1, <1>2, AttachKeepsDeviceInv
<1>5. TypeOK'
  <2>1. /\ shared_ep' \in [Rank -> SharedRec]
        /\ ep_unit' \in [Ep -> Dev \cup {NULL}]
        /\ abandoned' \in SUBSET Ep
    BY <1>1, InitOkType
  <2>2. /\ comm' \in [Comm -> CommRec \cup {NULL}] /\ handles' \in SUBSET Handle
    BY <1>1, <1>2 DEF TypeOK
  <2>3. next_tag' \in [Rank -> Nat] /\ listens' \in [Rank -> Nat]
    BY <1>1 DEF TypeOK
  <2>4. held' \in [Comm -> Role] /\ ret' \in RetRec
    BY <1>1 DEF TypeOK, Role, RetRec, PsmRc
  <2> QED BY <1>1, <2>1, <2>2, <2>3, <2>4 DEF TypeOK
<1>6. TagInv'
  <2>1. /\ comm'[c] = rec /\ rec.rem_epid = NULL /\ rec.tag = tag
        /\ rec.born = <<Home[c], rec.tag>>
        /\ \A d \in Comm \ {c} : comm'[d] = comm[d]
        /\ Receivers' = Receivers \cup {c} /\ Senders' = Senders
        /\ c \notin Receivers /\ c \notin Senders
    BY <1>1, <1>2 DEF TypeOK, TagInv, Receivers, Senders, Live
  <2>2. /\ next_tag'[p] = tag + 1
        /\ \A q \in Rank \ {p} : next_tag'[q] = next_tag[q]
        /\ \A q \in Rank : listens'[q] = next_tag'[q] /\ next_tag[q] \in Nat
    BY <1>1 DEF TypeOK, TagInv
  <2>3. \A r \in Receivers : /\ r \in Comm /\ comm[r].tag \in Nat /\ Home[r] \in Rank
                            /\ comm[r].tag < next_tag[Home[r]]
    BY <1>1, ConstAssumption DEF TypeOK, CommRec, TagInv, Receivers, Live
  <2>4. \A r \in Receivers' : /\ comm'[r].born = <<Home[r], comm'[r].tag>>
                             /\ comm'[r].tag < next_tag'[Home[r]]
    BY <1>1, <1>2, <2>1, <2>2, <2>3 DEF TagInv
  <2>5. \A r1, r2 \in Receivers' :
          Home[r1] = Home[r2] /\ comm'[r1].tag = comm'[r2].tag => r1 = r2
    BY <1>1, <1>2, <2>1, <2>3 DEF TagInv
  <2>6. \A s \in Senders' : comm'[s].born = <<EpHome[comm'[s].rem_epid], comm'[s].tag>>
    BY <1>1, <2>1 DEF TagInv, Senders, Live
  <2>7. \A g \in handles' : g.born = <<EpHome[g.epid], g.tag>>
    <3>1. EpHome[e] = p
      BY <1>1, InitEpChoice DEF InitOk
    <3> QED BY <1>1, <3>1 DEF TagInv
  <2> QED BY <2>2, <2>4, <2>5, <2>6, <2>7 DEF TagInv
<1>7. HeldLive' /\ NoneStranded'
  BY <1>1, <1>2 DEF IInv, HeldLive, NoneStranded, TypeOK
<1> QED BY <1>3, <1>4, <1>5, <1>6, <1>7 DEF IInv

\* psm2_nccl_connect: an attachment, and the tag of the handle.
LEMMA ConnectKeepsIInv ==
  ASSUME IInv, NEW p \in Rank, NEW dev \in Dev, NEW c \in Comm, NEW h \in handles,
         NEW e \in Ep, NEW u \in Dev, Connect(p, dev, c, h, e, u)
  PROVE  IInv'
<1> DEFINE rec == [ep |-> e, shared |-> use_shared_ep, tag |-> h.tag,
                   rem_epid |-> h.epid, dev |-> dev, born |-> h.born]
<1>1. /\ TypeOK /\ EpInv /\ DeviceInv /\ TagInv
      /\ UNCHANGED <<config, use_shared_ep, use_nccl_dev_num, shared_ep_multi_policy,
                     next_tag, listens>>
      /\ Home[c] = p /\ comm[c] = NULL /\ InitOk(p, dev, e, u)
      /\ comm' = [comm EXCEPT ![c] = rec] /\ handles' = handles \ {h}
      /\ held' = [held EXCEPT ![c] = "send"]
      /\ ret' = [rc |-> "ncclSuccess", out |-> c, psm |-> "PSM2_OK"]
  BY DEF IInv, Connect, Allocates, RemoteEpid, Succeeds, Returns, config
<1>2. /\ h \in Handle /\ rec \in CommRec /\ rec # NULL
      /\ rec.rem_epid = h.epid /\ rec.rem_epid # NULL
  BY <1>1, ConstAssumption DEF TypeOK, CommRec, Handle
<1>3. EpInv'
  BY <1>1, <1>2, AttachKeepsEpInv
<1>4. DeviceInv'
  BY <1>1, <1>2, AttachKeepsDeviceInv
<1>5. TypeOK'
  <2>1. /\ shared_ep' \in [Rank -> SharedRec]
        /\ ep_unit' \in [Ep -> Dev \cup {NULL}]
        /\ abandoned' \in SUBSET Ep
    BY <1>1, InitOkType
  <2>2. comm' \in [Comm -> CommRec \cup {NULL}] /\ handles' \in SUBSET Handle
    BY <1>1, <1>2 DEF TypeOK
  <2>3. held' \in [Comm -> Role] /\ ret' \in RetRec
    BY <1>1 DEF TypeOK, Role, RetRec, PsmRc
  <2> QED BY <1>1, <2>1, <2>2, <2>3 DEF TypeOK
<1>6. TagInv'
  <2>1. /\ comm'[c] = rec
        /\ \A d \in Comm \ {c} : comm'[d] = comm[d]
        /\ Receivers' = Receivers /\ Senders' = Senders \cup {c}
        /\ c \notin Receivers /\ c \notin Senders
        /\ Receivers \subseteq Comm /\ Senders \subseteq Comm
    BY <1>1, <1>2 DEF TypeOK, Receivers, Senders, Live
  <2>2. rec.born = <<EpHome[rec.rem_epid], rec.tag>>
    BY <1>1 DEF TagInv
  <2> QED BY <1>1, <2>1, <2>2 DEF TagInv
<1>7. HeldLive' /\ NoneStranded'
  BY <1>1, <1>2 DEF IInv, HeldLive, NoneStranded, TypeOK
<1> QED BY <1>3, <1>4, <1>5, <1>6, <1>7 DEF IInv

\* psm2_nccl_listen and psm2_nccl_connect when a PSM2 call fails half-way.
LEMMA BailOutKeepsIInv ==
  ASSUME IInv, NEW p \in Rank, NEW dev \in Dev, NEW e \in Ep, NEW u \in Dev,
         NEW eprc, BailOut(p, dev, e, u, eprc), ret' \in RetRec
  PROVE  IInv'
<1>1. /\ TypeOK /\ EpInv /\ DeviceInv
      /\ UNCHANGED <<config, use_shared_ep, use_nccl_dev_num, shared_ep_multi_policy,
                     next_tag, comm, held, handles, listens>>
  BY DEF IInv, BailOut, config
<1>2. EpInv'
  BY <1>1, BailOutKeepsEpInv
<1>3. DeviceInv'
  BY <1>1, <1>2, BailOutKeepsDeviceInv
<1>4. TypeOK'
  <2>1. /\ shared_ep' \in [Rank -> SharedRec]
        /\ ep_unit' \in [Ep -> Dev \cup {NULL}]
        /\ abandoned' \in SUBSET Ep
    BY <1>1, BailOutType
  <2> QED BY <1>1, <2>1 DEF TypeOK
<1>5. TagInv' /\ HeldLive' /\ NoneStranded'
  BY <1>1 DEF IInv, TagInv, HeldLive, NoneStranded, Receivers, Senders, Live
<1> QED BY <1>2, <1>3, <1>4, <1>5 DEF IInv

\* psm2_nccl_closeSend and psm2_nccl_closeRecv.
LEMMA CloseKeepsIInv ==
  ASSUME IInv, NEW c \in Comm, NEW mqrc, NEW eprc, Close(c, mqrc, eprc)
  PROVE  IInv'
<1> DEFINE p == Home[c]
<1>1. /\ TypeOK /\ EpInv /\ DeviceInv /\ TagInv /\ HeldLive
      /\ UNCHANGED <<config, use_shared_ep, use_nccl_dev_num, shared_ep_multi_policy,
                     next_tag, handles, listens>>
      /\ Fini(p, shared_ep[p], comm[c].shared, ep_unit, comm[c].ep, eprc)
      /\ comm' = [comm EXCEPT ![c] = NULL]
      /\ held[c] \in {"send", "recv", "accepted"}
      /\ held' = [held EXCEPT ![c] = IF @ = "accepted" THEN "stale" ELSE "none"]
      /\ ret' \in RetRec
  BY DEF IInv, Close, Succeeds, Returns, RetRec, PsmRc, config
<1>2. /\ c \in Live /\ p \in Rank /\ shared_ep[p] \in SharedRec
      /\ comm[c].ep \in Ep /\ comm[c].shared \in {0, 1}
  BY <1>1, ConstAssumption DEF HeldLive, Live, TypeOK, CommRec
<1>3. EpInv'
  BY <1>1, <1>2, DetachKeepsEpInv
<1>4. DeviceInv'
  BY <1>1, <1>2, <1>3, DetachKeepsDeviceInv
<1>5. TypeOK'
  <2>1. comm[c].shared = 1 => shared_ep[p].refcount > 0
    BY <1>1, <1>2, CloseReleasesOne
  <2>2. ep_unit \in [Ep -> Dev \cup {NULL}]
    BY <1>1 DEF TypeOK
  <2>3. /\ shared_ep' \in [Rank -> SharedRec]
        /\ ep_unit' \in [Ep -> Dev \cup {NULL}]
        /\ abandoned' \in SUBSET Ep
    BY <1>1, <1>2, <2>1, <2>2, FiniType
  <2>4. comm' \in [Comm -> CommRec \cup {NULL}] /\ held' \in [Comm -> Role]
    BY <1>1 DEF TypeOK, Role
  <2> QED BY <1>1, <2>3, <2>4 DEF TypeOK
<1>6. TagInv'
  <2>1. /\ \A d \in Comm \ {c} : comm'[d] = comm[d]
        /\ Receivers' \subseteq Receivers \ {c} /\ Senders' \subseteq Senders \ {c}
        /\ Receivers \subseteq Comm /\ Senders \subseteq Comm
    BY <1>1, <1>2 DEF TypeOK, Receivers, Senders, Live
  <2> QED BY <1>1, <2>1 DEF TagInv
<1>7. HeldLive' /\ NoneStranded'
  BY <1>1 DEF IInv, HeldLive, NoneStranded, TypeOK
<1> QED BY <1>3, <1>4, <1>5, <1>6, <1>7 DEF IInv

-------------------------------------------------------------------------------
(* The theorems.                                                           *)

\* psm2_nccl_init leaves a state in which the invariant holds.
LEMMA InitIInv == Init => IInv
<1> SUFFICES ASSUME Init PROVE IInv
  OBVIOUS
<1>1. Live = {} /\ Receivers = {} /\ Senders = {} /\ \A p \in Rank : SharedComms(p) = {}
  BY DEF Init, Live, Receivers, Senders, SharedComms
<1>2. ZeroSharedEp \in SharedRec /\ ZeroSharedEp.refcount = 0
  BY ConstAssumption DEF ZeroSharedEp, SharedRec
<1>3. TypeOK
  BY <1>2 DEF Init, TypeOK, Role, RetRec, PsmRc
<1>4. RefcountExact /\ SharedEpIsUsersEp
  <2>1. \A p \in Rank : shared_ep[p].refcount = 0
    BY <1>2 DEF Init
  <2>2. \A p \in Rank : Cardinality(SharedComms(p)) = 0
    BY <1>1, FS_EmptySet
  <2> QED BY <2>1, <2>2 DEF RefcountExact, SharedEpIsUsersEp
<1>5. /\ CommHome /\ EndpointOutlivesComms /\ ModeAgrees /\ PrivateExclusive
      /\ NoEndpointLeak
  BY <1>1 DEF Init, CommHome, EndpointOutlivesComms, ModeAgrees, PrivateExclusive,
              NoEndpointLeak
<1>6. DeviceInv
  BY <1>1 DEF DeviceInv, UnitRemembered, DeviceHonoured
<1>7. TagInv
  BY <1>1 DEF Init, TagInv
<1>8. HeldLive /\ NoneStranded
  BY DEF Init, HeldLive, NoneStranded
<1> QED BY <1>3, <1>4, <1>5, <1>6, <1>7, <1>8 DEF IInv, EpInv

\* Every call, and every failure of the PSM2 calls in it, keeps the invariant.
LEMMA NextKeepsIInv == IInv /\ [Next]_vars => IInv'
<1> SUFFICES ASSUME IInv, [Next]_vars PROVE IInv'
  OBVIOUS
<1> USE DEF IInv
<1>1. ASSUME NEW p \in Rank, NEW dev \in Dev, NEW psm \in PsmRc, InitFailsEarly(p, dev, psm)
      PROVE  IInv'
  <2>1. ret' \in RetRec
    BY <1>1 DEF InitFailsEarly, Returns, RetRec
  <2>2. UNCHANGED <<config, next_tag, shared_ep, comm, epVars, held, handles, listens>>
    BY <1>1 DEF InitFailsEarly
  <2>3. held' \in [Comm -> Role] /\ HeldLive' /\ NoneStranded'
    BY <2>2 DEF TypeOK, HeldLive, NoneStranded
  <2> QED BY <2>1, <2>2, <2>3, QuietKeepsIInv
<1>2. ASSUME NEW p \in Rank, NEW dev \in Dev, NEW e \in Ep, NEW u \in Dev,
             NEW eprc \in {"PSM2_OK", "PSM2_ERROR"}, InitMqFails(p, dev, e, u, eprc)
      PROVE  IInv'
  <2>1. BailOut(p, dev, e, u, eprc) /\ ret' \in RetRec
    BY <1>2 DEF InitMqFails, Returns, RetRec, PsmRc
  <2> QED BY <2>1, BailOutKeepsIInv
<1>3. ASSUME NEW p \in Rank, NEW dev \in Dev, NEW e \in Ep, NEW u \in Dev,
             NEW eprc \in {"PSM2_OK", "PSM2_ERROR"}, NEW c \in Comm, NEW h \in handles,
             NEW psm \in PsmRc, ConnectFails(p, dev, c, h, e, u, psm, eprc)
      PROVE  IInv'
  <2>1. BailOut(p, dev, e, u, eprc) /\ ret' \in RetRec
    BY <1>3 DEF ConnectFails, SendCommAfterBail, Returns, RetRec
  <2> QED BY <2>1, BailOutKeepsIInv
<1>4. ASSUME NEW p \in Rank, NEW dev \in Dev, NEW c \in Comm, NEW e \in Ep, NEW u \in Dev,
             Listen(p, dev, c, e, u)
      PROVE  IInv'
  BY <1>4, ListenKeepsIInv
<1>5. ASSUME NEW p \in Rank, NEW dev \in Dev, NEW c \in Comm, NEW e \in Ep, NEW u \in Dev,
             NEW h \in handles, Connect(p, dev, c, h, e, u)
      PROVE  IInv'
  BY <1>5, ConnectKeepsIInv
<1>6. ASSUME NEW p \in Rank, ListenOutOfTags(p)
      PROVE  IInv'
  <2>1. ret' \in RetRec
    BY <1>6 DEF ListenOutOfTags, Returns, RetRec, PsmRc
  <2>2. UNCHANGED <<config, next_tag, shared_ep, comm, epVars, held, handles, listens>>
    BY <1>6 DEF ListenOutOfTags
  <2>3. held' \in [Comm -> Role] /\ HeldLive' /\ NoneStranded'
    BY <2>2 DEF TypeOK, HeldLive, NoneStranded
  <2> QED BY <2>1, <2>2, <2>3, QuietKeepsIInv
<1>7. ASSUME NEW c \in Comm, Accept(c)
      PROVE  IInv'
  <2>1. ret' \in RetRec
    BY <1>7 DEF Accept, Succeeds, Returns, RetRec, PsmRc
  <2>2. UNCHANGED <<config, next_tag, shared_ep, comm, epVars, handles, listens>>
    BY <1>7 DEF Accept
  <2>3. held' \in [Comm -> Role] /\ HeldLive' /\ NoneStranded'
    BY <1>7 DEF Accept, TypeOK, Role, HeldLive, NoneStranded
  <2> QED BY <2>1, <2>2, <2>3, QuietKeepsIInv
<1>8. ASSUME NEW c \in Comm, CloseListen(c)
      PROVE  IInv'
  <2>1. ret' \in RetRec
    BY <1>8 DEF CloseListen, Succeeds, Returns, RetRec, PsmRc
  <2>2. UNCHANGED <<config, next_tag, shared_ep, comm, epVars, handles, listens>>
    BY <1>8 DEF CloseListen
  <2>3. held' \in [Comm -> Role]
    BY <1>8 DEF CloseListen, TypeOK, Role
  <2>4. \A d \in Comm \ {c} : held'[d] = held[d]
    BY <1>8 DEF CloseListen, TypeOK
  <2>5. HeldLive' /\ NoneStranded'
    <3>1. CASE held[c] = "accepted" /\ held' = [held EXCEPT ![c] = "recv"]
      BY <2>2, <2>4, <3>1 DEF TypeOK, HeldLive, NoneStranded
    <3>2. CASE held[c] = "stale" /\ held' = [held EXCEPT ![c] = "none"]
      BY <2>2, <2>4, <3>2 DEF TypeOK, HeldLive, NoneStranded
    <3>3. CASE ClosesUnaccepted /\ held[c] = "listen" /\ held' = [held EXCEPT ![c] = "none"]
      BY <2>2, <2>4, <3>3 DEF TypeOK, HeldLive, NoneStranded
    <3> QED BY <1>8, <3>1, <3>2, <3>3 DEF CloseListen
  <2> QED BY <2>1, <2>2, <2>3, <2>5, QuietKeepsIInv
<1>9. ASSUME NEW c \in Comm, NEW mqrc \in {"PSM2_OK", "PSM2_ERROR"},
             NEW eprc \in {"PSM2_OK", "PSM2_ERROR"}, Close(c, mqrc, eprc)
      PROVE  IInv'
  BY <1>9, CloseKeepsIInv
<1>10. CASE UNCHANGED vars
  <2>1. ret' \in RetRec /\ held' \in [Comm -> Role]
    BY <1>10 DEF vars, TypeOK
  <2>2. UNCHANGED <<config, next_tag, shared_ep, comm, epVars, held, handles, listens>>
    BY <1>10 DEF vars
  <2>3. HeldLive' /\ NoneStranded'
    BY <2>2 DEF HeldLive, NoneStranded
  <2> QED BY <2>1, <2>2, <2>3, QuietKeepsIInv
<1> QED
  BY <1>1, <1>2, <1>3, <1>4, <1>5, <1>6, <1>7, <1>8, <1>9, <1>10 DEF Next

\* IInv is an invariant of every job, whatever its size and whatever PSM2 returns.
THEOREM Invariance == Spec => []IInv
  BY InitIInv, NextKeepsIInv, PTL DEF Spec

\* The state keeps its type; in particular refcount, an unsigned int, never wraps.
THEOREM TypeCorrect == Spec => []TypeOK
  BY Invariance, PTL DEF IInv

\* shared_ep.refcount counts exactly the live communicators that point to it.
THEOREM RefcountIsExact == Spec => []RefcountExact
  BY Invariance, PTL DEF IInv, EpInv

\* psm2comm_fini never closes an endpoint another communicator is on.
THEOREM EndpointsOutliveComms == Spec => []EndpointOutlivesComms
  BY Invariance, PTL DEF IInv, EpInv

\* No sequence of calls and failures leaves an endpoint open that nobody is on, but
\* those psm2_ep_close itself failed on.
THEOREM NoEndpointLeaks == Spec => []NoEndpointLeak
  BY Invariance, PTL DEF IInv, EpInv

\* A shared_ep with users names the endpoint they are all on.
THEOREM SharedEpNamesUsersEp == Spec => []SharedEpIsUsersEp
  BY Invariance, PTL DEF IInv, EpInv

\* In shared mode a rank has one endpoint for all its communicators.
THEOREM OneEndpointEachRank == Spec => []OneEndpointPerRank
<1>1. IInv => OneEndpointPerRank
  <2> SUFFICES ASSUME IInv, use_shared_ep = 1, NEW p \in Rank
               PROVE  Cardinality(OpenEps(p) \ abandoned) <= 1
    BY DEF OneEndpointPerRank
  <2>1. OpenEps(p) \ abandoned \subseteq {shared_ep[p].ep}
    <3> SUFFICES ASSUME NEW e \in Ep, EpHome[e] = p, ep_unit[e] # NULL, e \notin abandoned
                 PROVE  e = shared_ep[p].ep
      BY DEF OpenEps
    <3>1. PICK c \in Live : comm[c].ep = e
      BY DEF IInv, EpInv, NoEndpointLeak
    <3>2. c \in SharedComms(p)
      BY <3>1 DEF IInv, EpInv, CommHome, ModeAgrees, SharedComms, Live
    <3>3. shared_ep[p].refcount # 0 /\ shared_ep[p].refcount \in Nat
      BY <3>2, RefcountZero DEF IInv, EpInv, TypeOK, SharedRec
    <3> QED BY <3>1, <3>2, <3>3 DEF IInv, EpInv, SharedEpIsUsersEp
  <2>2. IsFiniteSet({shared_ep[p].ep}) /\ Cardinality({shared_ep[p].ep}) = 1
    BY FS_Singleton
  <2>3. Cardinality(OpenEps(p) \ abandoned) <= Cardinality({shared_ep[p].ep})
    BY <2>1, <2>2, FS_Subset
  <2> QED BY <2>2, <2>3
<1> QED BY <1>1, Invariance, PTL

\* Communicators are on the device NCCL asked for where the configuration honours it.
THEOREM DeviceIsHonoured == Spec => []DeviceHonoured
  BY Invariance, PTL DEF IInv, DeviceInv

\* An (epid, tag) pair names the one receiver its listen created, across reuse of
\* epids and across ranks that number their tags alike.
THEOREM HandlesNameOneReceiver == Spec => []HandleNamesOneReceiver
<1>1. IInv => HandleNamesOneReceiver
  <2> SUFFICES ASSUME IInv, NEW r \in Receivers
               PROVE  /\ \A s \in Senders :
                           comm[s].rem_epid = comm[r].ep /\ comm[s].tag = comm[r].tag
                             => comm[s].born = comm[r].born
                      /\ \A h \in handles :
                           h.epid = comm[r].ep /\ h.tag = comm[r].tag
                             => h.born = comm[r].born
    BY DEF HandleNamesOneReceiver
  <2>1. comm[r].born = <<EpHome[comm[r].ep], comm[r].tag>>
    BY DEF IInv, TagInv, EpInv, CommHome, Receivers
  <2> QED BY <2>1 DEF IInv, TagInv
<1> QED BY <1>1, Invariance, PTL

\* Receivers on one endpoint have different tags.
THEOREM ReceiverTagsAreDistinct == Spec => []ReceiverTagsDistinct
<1>1. IInv => ReceiverTagsDistinct
  <2> SUFFICES ASSUME IInv, NEW r1 \in Receivers, NEW r2 \in Receivers,
                      comm[r1].ep = comm[r2].ep, comm[r1].tag = comm[r2].tag
               PROVE  r1 = r2
    BY DEF ReceiverTagsDistinct
  <2>1. Home[r1] = Home[r2]
    BY DEF IInv, EpInv, CommHome, Receivers
  <2> QED BY <2>1 DEF IInv, TagInv
<1> QED BY <1>1, Invariance, PTL

\* If NCCL accepts every listener before it closes it, a communicator is allocated
\* exactly while NCCL may use it: nothing is freed twice, nothing is stranded.
THEOREM HeldExactlyWhileLive == ~ClosesUnaccepted => (Spec => []HeldIffLive)
<1> SUFFICES ASSUME ~ClosesUnaccepted PROVE Spec => []HeldIffLive
  OBVIOUS
<1>1. IInv => HeldIffLive
  BY DEF IInv, HeldLive, NoneStranded, HeldIffLive
<1> QED BY <1>1, Invariance, PTL

\* No call hands out a communicator that psm2comm_fini has freed, on any path.
THEOREM ResultsAreLive == Spec => []NoDanglingResult
<1>1. Init => NoDanglingResult
  BY DEF Init, NoDanglingResult
<1>2. ASSUME IInv, NoDanglingResult, [Next]_vars
      PROVE  NoDanglingResult'
  <2>1. ASSUME NEW p \in Rank, NEW dev \in Dev, NEW c \in Comm, NEW e \in Ep, NEW u \in Dev,
               \/ Listen(p, dev, c, e, u)
               \/ \E h \in handles : Connect(p, dev, c, h, e, u)
        PROVE  NoDanglingResult'
    <3>1. ret'.out = c
      BY <2>1 DEF Listen, Connect, Succeeds, Returns
    <3>2. IInv'
      BY <1>2, <2>1, ListenKeepsIInv, ConnectKeepsIInv
    <3>3. held'[c] \in {"listen", "send"}
      BY <1>2, <2>1 DEF Listen, Connect, IInv, TypeOK
    <3>4. comm'[c] # NULL
      BY <3>2, <3>3 DEF IInv, HeldLive
    <3> QED BY <3>1, <3>4 DEF NoDanglingResult
  <2>2. ASSUME NEW c \in Comm, Accept(c)
        PROVE  NoDanglingResult'
    BY <1>2, <2>2 DEF Accept, Succeeds, Returns, NoDanglingResult, IInv, HeldLive
  <2>3. CASE ret'.out = NULL
    BY <2>3 DEF NoDanglingResult
  <2>4. CASE UNCHANGED vars
    BY <1>2, <2>4 DEF vars, NoDanglingResult
  <2> QED
    BY <1>2, <2>1, <2>2, <2>3, <2>4
    DEF Next, InitFailsEarly, InitMqFails, ConnectFails, SendCommAfterBail,
        ListenOutOfTags, CloseListen, Close, Succeeds, Returns
<1> QED BY <1>1, <1>2, Invariance, PTL DEF Spec

\* A call that fails without having been asked to close anything leaves no trace.
THEOREM FailuresLeaveNoTrace == Spec => FailureLeavesNoTrace
<1> DEFINE Traceless ==
      ret'.rc = "ncclInternalError" /\ held' = held =>
        /\ UNCHANGED <<next_tag, comm, handles>>
        /\ \A p \in Rank : shared_ep'[p].refcount = shared_ep[p].refcount
        /\ \A e \in Ep : ep_unit'[e] # ep_unit[e] => e \in abandoned'
<1>1. IInv /\ [Next]_vars => [Traceless]_vars
  <2> SUFFICES ASSUME IInv, Next, ret'.rc = "ncclInternalError", held' = held
               PROVE  /\ UNCHANGED <<next_tag, comm, handles>>
                      /\ \A p \in Rank : shared_ep'[p].refcount = shared_ep[p].refcount
                      /\ \A e \in Ep : ep_unit'[e] # ep_unit[e] => e \in abandoned'
    OBVIOUS
  <2>1. ASSUME NEW p \in Rank, NEW dev \in Dev, NEW e \in Ep, NEW u \in Dev, NEW eprc,
               BailOut(p, dev, e, u, eprc)
        PROVE  /\ UNCHANGED <<next_tag, comm, handles>>
               /\ \A q \in Rank : shared_ep'[q].refcount = shared_ep[q].refcount
               /\ \A x \in Ep : ep_unit'[x] # ep_unit[x] => x \in abandoned'
    <3>1. UNCHANGED <<next_tag, comm, handles>>
      BY <2>1 DEF BailOut
    <3> QED BY <2>1, <3>1, BailOutEffect DEF IInv
  <2>2. ASSUME NEW p \in Rank, NEW dev \in Dev, NEW c \in Comm, NEW e \in Ep, NEW u \in Dev,
               \/ Listen(p, dev, c, e, u)
               \/ \E h \in handles : Connect(p, dev, c, h, e, u)
        PROVE  FALSE
    BY <2>2 DEF Listen, Connect, Succeeds, Returns
  <2>3. ASSUME NEW c \in Comm, Accept(c) \/ CloseListen(c)
        PROVE  FALSE
    BY <2>3 DEF Accept, CloseListen, Succeeds, Returns
  <2>4. ASSUME NEW c \in Comm, NEW mqrc, NEW eprc, Close(c, mqrc, eprc)
        PROVE  FALSE
    BY <2>4 DEF Close, IInv, TypeOK
  <2>5. ASSUME UNCHANGED <<config, next_tag, shared_ep, comm, epVars, held, handles, listens>>
        PROVE  /\ UNCHANGED <<next_tag, comm, handles>>
               /\ \A p \in Rank : shared_ep'[p].refcount = shared_ep[p].refcount
               /\ \A e \in Ep : ep_unit'[e] # ep_unit[e] => e \in abandoned'
    BY <2>5 DEF epVars
  <2> QED
    BY <2>1, <2>2, <2>3, <2>4, <2>5
    DEF Next, InitFailsEarly, InitMqFails, ConnectFails, ListenOutOfTags
<1> QED BY <1>1, Invariance, PTL DEF Spec, FailureLeavesNoTrace

===============================================================================
