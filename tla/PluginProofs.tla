----------------------------- MODULE PluginProofs -----------------------------
(***************************************************************************)
(* The communicators of a process run under one configuration, the one the *)
(* environment asks for: whatever calls of init fail before one succeeds,  *)
(* and whatever calls follow while communicators are open.                 *)
(***************************************************************************)
EXTENDS Plugin, PluginInitProofs, FiniteSetTheorems

\* The settings that the calls on communicators read are those the user asked for.
AsWanted ==
  /\ settings.use_shared_ep = Wanted("SHARED_EP")
  /\ settings.use_nccl_dev_num = Wanted("USE_NCCL_DEV")
  /\ settings.shared_ep_multi_policy = WantedPolicy

\* Once an init has succeeded every variable is one that init accepts, so that later
\* calls get to the same settings, though they may fail.
ReadyInv ==
  /\ ret = "ncclSuccess" => ready
  /\ ready => UpTo(5) /\ AsWanted

ProcessInv == PInv /\ ReadyInv

-------------------------------------------------------------------------------
(* init.                                                                   *)

\* What init stores for a flag it accepts, if the environment is silent about it only
\* when the default is still there.
LEMMA FlagReadIsWanted ==
  ASSUME PluginTypeOK, NEW f \in Flag, FlagAccepted(f), NEW old,
         flag[f] = "unset" => old = 1
  PROVE  FlagRead(f, old) = Wanted(f)
<1>1. flag[f] \in {"unset", "", "0", "1", "10", "junk"}
  BY TokensAssumption DEF PluginTypeOK
<1>2. flag[f] # "10"
  <2> SUFFICES ASSUME flag[f] = "10" PROVE FALSE
    OBVIOUS
  <2>1. Value(flag[f], 2) = 2
    BY DEF Value
  <2> QED BY <2>1 DEF FlagAccepted
<1>3. flag[f] # "junk"
  BY DEF FlagAccepted, Clean
<1>4. CASE flag[f] \in {"", "0"}
  <2>1. Value(flag[f], 2) = 0
    BY <1>4 DEF Value
  <2>2. flag[f] # "unset" /\ flag[f] # "1"
    BY <1>4
  <2> QED BY <2>1, <2>2 DEF FlagRead, Wanted
<1>5. CASE flag[f] = "1"
  <2>1. Value(flag[f], 2) = 1
    BY <1>5 DEF Value
  <2> QED BY <2>1, <1>5 DEF FlagRead, Wanted
<1>6. CASE flag[f] = "unset"
  BY <1>6 DEF FlagRead, Wanted
<1> QED BY <1>1, <1>2, <1>3, <1>4, <1>5, <1>6

\* The same for the policy.
LEMMA PolicyReadIsWanted ==
  ASSUME PluginTypeOK, DefaultsKept, PolicyAccepted
  PROVE  PolicyRead = WantedPolicy
<1>1. policy \in {"unset", "", "e", "error", "w", "warn", "junk"}
  BY TokensAssumption DEF PluginTypeOK
<1> QED BY <1>1 DEF PolicyAccepted, PolicyRead, PrefixOf, WantedPolicy, DefaultsKept

\* A call of init that accepts every variable stores what the user asked for.
LEMMA InitStoresWanted ==
  ASSUME PInv, NEW psmrc, PluginInit(psmrc), UpTo(5)
  PROVE  AsWanted'
<1>1. /\ FlagAccepted("USE_NCCL_DEV") /\ FlagAccepted("SHARED_EP") /\ PolicyAccepted
      /\ UpTo(1) /\ UpTo(2) /\ UpTo(3)
  BY DEF UpTo
<1>2. /\ settings'.use_shared_ep = FlagRead("SHARED_EP", settings.use_shared_ep)
      /\ settings'.use_nccl_dev_num = FlagRead("USE_NCCL_DEV", settings.use_nccl_dev_num)
      /\ settings'.shared_ep_multi_policy = PolicyRead
  BY <1>1 DEF PluginInit
<1>3. "SHARED_EP" \in Flag /\ "USE_NCCL_DEV" \in Flag
  BY DEF Flag
<1>4. FlagRead("SHARED_EP", settings.use_shared_ep) = Wanted("SHARED_EP")
  BY <1>1, <1>3, FlagReadIsWanted DEF PInv, DefaultsKept
<1>5. FlagRead("USE_NCCL_DEV", settings.use_nccl_dev_num) = Wanted("USE_NCCL_DEV")
  BY <1>1, <1>3, FlagReadIsWanted DEF PInv, DefaultsKept
<1>6. PolicyRead = WantedPolicy
  BY <1>1, PolicyReadIsWanted DEF PInv
<1>7. UNCHANGED <<flag, policy>>
  BY DEF PluginInit, env
<1>8. /\ Wanted("SHARED_EP")' = Wanted("SHARED_EP")
      /\ Wanted("USE_NCCL_DEV")' = Wanted("USE_NCCL_DEV")
      /\ WantedPolicy' = WantedPolicy
  BY <1>7 DEF Wanted, WantedPolicy
<1> QED BY <1>2, <1>4, <1>5, <1>6, <1>8 DEF AsWanted

\* Calls of init and ptrSupport keep the invariant.
LEMMA ConfigureKeepsProcessInv ==
  ASSUME ProcessInv, Configure
  PROVE  ProcessInv'
<1>1. PInv'
  BY PInvInductive DEF ProcessInv, Configure
<1>2. UNCHANGED <<flag, policy, level>>
  BY DEF Configure, Next, PluginInit, PtrSupport, env
<1>3. UpTo(5)' <=> UpTo(5)
  BY <1>2 DEF UpTo, FlagAccepted, LevelAccepted, PolicyAccepted
<1>4. CASE PtrSupport
  <2>1. UNCHANGED <<settings, ret>> /\ ready'
    BY <1>4 DEF PtrSupport, Configure
  <2>2. ready
    BY <1>4 DEF PtrSupport, ProcessInv, ReadyInv
  <2>3. AsWanted' <=> AsWanted
    BY <2>1, <1>2 DEF AsWanted, Wanted, WantedPolicy
  <2> QED BY <1>1, <1>3, <2>1, <2>2, <2>3 DEF ProcessInv, ReadyInv
<1>5. ASSUME NEW psmrc \in {"PSM2_OK", "PSM2_ERROR"}, PluginInit(psmrc)
      PROVE  ProcessInv'
  <2>1. ready' => UpTo(5)
    BY <1>5 DEF Configure, PluginInit, ProcessInv, ReadyInv
  <2>2. ready' => AsWanted'
    BY <1>5, <2>1, InitStoresWanted DEF ProcessInv
  <2>3. ret' = "ncclSuccess" => ready'
    BY DEF Configure
  <2> QED BY <1>1, <1>3, <2>1, <2>2, <2>3 DEF ProcessInv, ReadyInv
<1> QED BY <1>4, <1>5 DEF Configure, Next

\* Every step keeps the invariant.
LEMMA ProcessNextKeepsProcessInv ==
  ASSUME ProcessInv, [ProcessNext]_pvars
  PROVE  ProcessInv'
<1>1. CASE UNCHANGED <<vars, ready>>
  <2>1. PInv'
    BY <1>1, PInvInductive DEF ProcessInv
  <2>2. UNCHANGED <<flag, policy, level, settings, ret, ready>>
    BY <1>1 DEF vars, env
  <2>3. (UpTo(5)' <=> UpTo(5)) /\ (AsWanted' <=> AsWanted)
    BY <2>2 DEF UpTo, FlagAccepted, LevelAccepted, PolicyAccepted, AsWanted, Wanted, WantedPolicy
  <2> QED BY <2>1, <2>2, <2>3 DEF ProcessInv, ReadyInv
<1> QED
  BY <1>1, ConfigureKeepsProcessInv DEF ProcessNext, Communicate, pvars

\* The statics start with the defaults, and no init has succeeded.
LEMMA ProcessInitProcessInv == ProcessInit => ProcessInv
  BY InitEstablishes DEF ProcessInit, ProcessInv, ReadyInv, Init

-------------------------------------------------------------------------------
(* Calls on communicators.                                                 *)

\* What the calls work out from the settings is what they would from the user's.
LEMMA SameWorkings ==
  ASSUME AsWanted
  PROVE  /\ \A p : Calls!MustOpen(p) <=> Configured!MustOpen(p)
         /\ \A p, dev : Calls!UnitRefused(p, dev) <=> Configured!UnitRefused(p, dev)
         /\ \A p, dev, e, u : Calls!InitEp(p, dev, e, u) <=> Configured!InitEp(p, dev, e, u)
         /\ \A p, dev, e :
              Calls!SharedAfterInit(p, dev, e) = Configured!SharedAfterInit(p, dev, e)
<1>1. \A p : Calls!MustOpen(p) <=> Configured!MustOpen(p)
  BY DEF AsWanted, Calls!MustOpen, Configured!MustOpen
<1>2. \A p, dev : Calls!UnitRefused(p, dev) <=> Configured!UnitRefused(p, dev)
  BY DEF AsWanted, Calls!UnitRefused, Configured!UnitRefused,
         Calls!UnitMismatch, Configured!UnitMismatch
<1>3. \A p, dev, e, u : Calls!InitEp(p, dev, e, u) <=> Configured!InitEp(p, dev, e, u)
  BY <1>1, <1>2 DEF AsWanted, Calls!InitEp, Configured!InitEp
<1>4. \A p, dev, e :
        Calls!SharedAfterInit(p, dev, e) = Configured!SharedAfterInit(p, dev, e)
  BY <1>1 DEF AsWanted, Calls!SharedAfterInit, Configured!SharedAfterInit
<1> QED BY <1>1, <1>2, <1>3, <1>4

\* Under the settings the user asked for, a call is one of Configured.
LEMMA CallsAreConfigured ==
  ASSUME AsWanted, UNCHANGED <<flag, policy>>, Calls!Next
  PROVE  Configured!Next
<1>1. /\ Wanted("SHARED_EP")' = Wanted("SHARED_EP")
      /\ Wanted("USE_NCCL_DEV")' = Wanted("USE_NCCL_DEV")
      /\ WantedPolicy' = WantedPolicy
  BY DEF Wanted, WantedPolicy
<1>2. UNCHANGED Configured!config
  BY <1>1 DEF Configured!config
<1>3. \A p, sh, s, units, e, eprc :
        Calls!Fini(p, sh, s, units, e, eprc) <=> Configured!Fini(p, sh, s, units, e, eprc)
  BY DEF Calls!Fini, Configured!Fini, Calls!SharedAfterFini, Configured!SharedAfterFini,
     Calls!ClosesEp, Configured!ClosesEp, Calls!Released, Configured!Released,
     Calls!EpClose, Configured!EpClose, Calls!ZeroSharedEp, Configured!ZeroSharedEp
<1>4. \A p, dev, e, u : Calls!InitOk(p, dev, e, u) <=> Configured!InitOk(p, dev, e, u)
  BY SameWorkings DEF Calls!InitOk, Configured!InitOk,
     Calls!UnitsAfterInit, Configured!UnitsAfterInit
<1>5. \A p, dev, e, u, eprc :
        Calls!BailOut(p, dev, e, u, eprc) => Configured!BailOut(p, dev, e, u, eprc)
  BY <1>2, <1>3, SameWorkings DEF AsWanted, Calls!BailOut, Configured!BailOut,
     Calls!UnitsAfterInit, Configured!UnitsAfterInit
<1>6. \A rc, out, psm : Calls!Returns(rc, out, psm) <=> Configured!Returns(rc, out, psm)
  BY DEF Calls!Returns, Configured!Returns
<1>7. \A p, dev, psm :
        Calls!InitFailsEarly(p, dev, psm) => Configured!InitFailsEarly(p, dev, psm)
  BY <1>2, <1>6, SameWorkings DEF Calls!InitFailsEarly, Configured!InitFailsEarly,
     Calls!epVars, Configured!epVars
<1>8. \A p, dev, e, u, eprc :
        Calls!InitMqFails(p, dev, e, u, eprc) => Configured!InitMqFails(p, dev, e, u, eprc)
  BY <1>5, <1>6 DEF Calls!InitMqFails, Configured!InitMqFails
<1>9. \A p, dev, c, h, e, u, psm, eprc :
        Calls!ConnectFails(p, dev, c, h, e, u, psm, eprc)
          => Configured!ConnectFails(p, dev, c, h, e, u, psm, eprc)
  BY <1>5, <1>6 DEF Calls!ConnectFails, Configured!ConnectFails, Calls!Allocates,
     Configured!Allocates, Calls!SendCommAfterBail, Configured!SendCommAfterBail
<1>10. \A p, dev, c, e, u :
         Calls!Listen(p, dev, c, e, u) => Configured!Listen(p, dev, c, e, u)
  BY <1>2, <1>4, <1>6 DEF AsWanted, Calls!Listen, Configured!Listen, Calls!Allocates,
     Configured!Allocates, Calls!TagsLeft, Configured!TagsLeft, Calls!NextTag,
     Configured!NextTag, Calls!Succeeds, Configured!Succeeds
<1>11. \A p, dev, c, h, e, u :
         Calls!Connect(p, dev, c, h, e, u) => Configured!Connect(p, dev, c, h, e, u)
  BY <1>2, <1>4, <1>6 DEF AsWanted, Calls!Connect, Configured!Connect, Calls!Allocates,
     Configured!Allocates, Calls!RemoteEpid, Configured!RemoteEpid,
     Calls!Succeeds, Configured!Succeeds
<1>12. \A p : Calls!ListenOutOfTags(p) => Configured!ListenOutOfTags(p)
  BY <1>2, <1>6 DEF Calls!ListenOutOfTags, Configured!ListenOutOfTags, Calls!TagsLeft,
     Configured!TagsLeft, Calls!epVars, Configured!epVars
<1>13. \A c : Calls!Accept(c) => Configured!Accept(c)
  BY <1>2, <1>6 DEF Calls!Accept, Configured!Accept, Calls!Succeeds, Configured!Succeeds,
     Calls!epVars, Configured!epVars
<1>14. \A c : Calls!CloseListen(c) => Configured!CloseListen(c)
  BY <1>2, <1>6 DEF Calls!CloseListen, Configured!CloseListen, Calls!Succeeds,
     Configured!Succeeds, Calls!epVars, Configured!epVars
<1>15. \A c, mqrc, eprc : Calls!Close(c, mqrc, eprc) => Configured!Close(c, mqrc, eprc)
  BY <1>2, <1>3, <1>6 DEF Calls!Close, Configured!Close, Calls!Succeeds, Configured!Succeeds
<1> QED
  BY <1>7, <1>8, <1>9, <1>10, <1>11, <1>12, <1>13, <1>14, <1>15
  DEF Calls!Next, Configured!Next, Calls!PsmRc, Configured!PsmRc

\* init and ptrSupport do not show in the communicators.
LEMMA StepsAreConfigured ==
  ASSUME ProcessInv, [ProcessNext]_pvars
  PROVE  [Configured!Next]_(Configured!vars)
<1>1. CASE Communicate
  <2>1. AsWanted
    BY <1>1 DEF Communicate, ProcessInv, ReadyInv
  <2>2. UNCHANGED <<flag, policy>> /\ Calls!Next
    BY <1>1 DEF Communicate, vars, env
  <2> QED BY <2>1, <2>2, CallsAreConfigured
<1>2. CASE UNCHANGED <<flag, policy, commVars>>
  <2>1. /\ Wanted("SHARED_EP")' = Wanted("SHARED_EP")
        /\ Wanted("USE_NCCL_DEV")' = Wanted("USE_NCCL_DEV")
        /\ WantedPolicy' = WantedPolicy
    BY <1>2 DEF Wanted, WantedPolicy
  <2> QED BY <1>2, <2>1 DEF commVars, Configured!vars, Configured!config, Configured!epVars
<1>3. Configure => UNCHANGED <<flag, policy, commVars>>
  BY DEF Configure, Kept, Next, PluginInit, PtrSupport, env
<1>4. UNCHANGED pvars => UNCHANGED <<flag, policy, commVars>>
  BY DEF pvars, vars, env
<1> QED BY <1>1, <1>2, <1>3, <1>4 DEF ProcessNext

\* The process starts in an initial state of Configured.
LEMMA StartsConfigured == ProcessInit => Configured!Init
  BY DEF ProcessInit, Configured!Init, Wanted, WantedPolicy, Configured!Policy,
     Calls!ZeroSharedEp, Configured!ZeroSharedEp

-------------------------------------------------------------------------------
(* Theorems.                                                               *)

\* Once an init has succeeded the settings are those the user asked for, for good.
THEOREM ProcessInvariance == ProcessSpec => []ProcessInv
  BY ProcessInitProcessInv, ProcessNextKeepsProcessInv, PTL DEF ProcessSpec

\* From the first call to the last the communicators behave as SharedEp does under the
\* configuration the user asked for, whatever calls of init fail or come again.
THEOREM CommunicatorsRunAsConfigured == ProcessSpec => RunsAsConfigured
<1>1. ProcessInit => Configured!Init
  BY StartsConfigured
<1>2. ProcessInv /\ [ProcessNext]_pvars => [Configured!Next]_(Configured!vars)
  BY StepsAreConfigured
<1> QED BY <1>1, <1>2, ProcessInvariance, PTL DEF ProcessSpec, RunsAsConfigured, Configured!Spec

-------------------------------------------------------------------------------
(* What is proved of SharedEp, for the process as a whole.                 *)

Proved == INSTANCE SharedEpProofs WITH
  Rank <- {Process}, Home <- HomeOf, EpHome <- EpHomeOf,
  use_shared_ep <- Wanted("SHARED_EP"),
  use_nccl_dev_num <- Wanted("USE_NCCL_DEV"),
  shared_ep_multi_policy <- WantedPolicy,
  ret <- callret

\* The constants meet the assumptions of SharedEp under the names of the instance.
LEMMA ProvedAssumption ==
  /\ Proved!IsFiniteSet(Comm)
  /\ HomeOf \in [Comm -> {Process}]
  /\ EpHomeOf \in [Ep -> {Process}]
  /\ Dev \subseteq Proved!Nat
  /\ 0 \in Dev
  /\ NULL \notin Comm \cup Ep \cup Dev \cup Proved!CommRec
  /\ TAG_MAX \in Proved!Nat
  /\ ClosesUnaccepted \in BOOLEAN
  BY ProcessAssumption, NullIsNothing DEF Proved!IsFiniteSet, IsFiniteSet,
     Proved!CommRec, Calls!CommRec, HomeOf, EpHomeOf

\* Proved and Configured are the same instance.
LEMMA ProvedIsConfigured ==
  /\ UNCHANGED Proved!vars <=> UNCHANGED Configured!vars
  /\ Proved!Init <=> Configured!Init
  /\ Proved!Next <=> Configured!Next
<1>1. UNCHANGED Proved!vars <=> UNCHANGED Configured!vars
  BY DEF Proved!vars, Configured!vars, Proved!config, Configured!config,
     Proved!epVars, Configured!epVars
<1>2. Proved!Init <=> Configured!Init
  BY DEF Proved!Init, Configured!Init, Proved!Policy, Configured!Policy,
     Proved!ZeroSharedEp, Configured!ZeroSharedEp
<1>3. Proved!Next <=> Configured!Next
  BY Zenon DEF Proved!InitEp, Configured!InitEp, Proved!MustOpen, Configured!MustOpen,
    Proved!UnitMismatch, Configured!UnitMismatch, Proved!UnitRefused,
    Configured!UnitRefused, Proved!UnitsAfterInit, Configured!UnitsAfterInit,
    Proved!SharedAfterInit, Configured!SharedAfterInit, Proved!Released,
    Configured!Released, Proved!ClosesEp, Configured!ClosesEp, Proved!SharedAfterFini,
    Configured!SharedAfterFini, Proved!ZeroSharedEp, Configured!ZeroSharedEp,
    Proved!EpClose, Configured!EpClose, Proved!Fini, Configured!Fini, Proved!Allocates,
    Configured!Allocates, Proved!InitOk, Configured!InitOk, Proved!InitFailsEarly,
    Configured!InitFailsEarly, Proved!BailOut, Configured!BailOut, Proved!InitMqFails,
    Configured!InitMqFails, Proved!TagsLeft, Configured!TagsLeft, Proved!NextTag,
    Configured!NextTag, Proved!Listen, Configured!Listen, Proved!ListenOutOfTags,
    Configured!ListenOutOfTags, Proved!RemoteEpid, Configured!RemoteEpid,
    Proved!Connect, Configured!Connect, Proved!SendCommAfterBail,
    Configured!SendCommAfterBail, Proved!ConnectFails, Configured!ConnectFails,
    Proved!Accept, Configured!Accept, Proved!CloseListen, Configured!CloseListen,
    Proved!Close, Configured!Close, Proved!Next, Configured!Next, Proved!config,
    Configured!config, Proved!epVars, Configured!epVars, Proved!Returns,
    Configured!Returns, Proved!Succeeds, Configured!Succeeds, Proved!PsmRc,
    Configured!PsmRc
<1> QED BY <1>1, <1>2, <1>3

\* The invariant of SharedEp holds of every process, under the configuration its user
\* asked for.
THEOREM CommunicatorsInvariance == ProcessSpec => []Proved!IInv
<1>1. ProcessInit => Proved!IInv
  BY StartsConfigured, ProvedIsConfigured, ProvedAssumption, Proved!InitIInv
<1>2. ProcessInv /\ Proved!IInv /\ [ProcessNext]_pvars => Proved!IInv'
  BY StepsAreConfigured, ProvedIsConfigured, ProvedAssumption, Proved!NextKeepsIInv
<1> QED BY <1>1, <1>2, ProcessInvariance, PTL DEF ProcessSpec

\* Every communicator is on the device NCCL asked for, if the user says in the
\* environment that it should be.
THEOREM DevicesAreAsAsked == ProcessSpec => []DeviceAsAsked
<1>1. PInv /\ Proved!IInv => DeviceAsAsked
  <2> SUFFICES ASSUME PInv, Proved!DeviceInv, flag["USE_NCCL_DEV"] \in {"unset", "1"},
                      flag["SHARED_EP"] = "0" \/ policy \in {"e", "error"},
                      NEW c \in Comm, comm[c] # NULL
               PROVE  ep_unit[comm[c].ep] = comm[c].dev
    BY DEF Proved!IInv, DeviceAsAsked
  <2>1. Wanted("USE_NCCL_DEV") = 1
    BY DEF Wanted
  <2>2. Wanted("SHARED_EP") = 1 => WantedPolicy = "SHARED_EP_MULTI_ERROR"
    <3>1. CASE flag["SHARED_EP"] = "0"
      <4>1. Wanted("SHARED_EP") = 0
        BY <3>1 DEF Wanted
      <4> QED BY <4>1
    <3>2. CASE policy \in {"e", "error"}
      BY <3>2 DEF WantedPolicy
    <3> QED BY <3>1, <3>2
  <2>3. c \in Proved!Live
    BY DEF Proved!Live
  <2> QED BY <2>1, <2>2, <2>3 DEF Proved!DeviceInv, Proved!DeviceHonoured
<1> QED BY <1>1, ProcessInvariance, CommunicatorsInvariance, PTL DEF ProcessInv
===============================================================================
