--------------------------- MODULE PluginInitProofs ---------------------------
(***************************************************************************)
(* The configuration follows the environment, for every set of values the  *)
(* variables may have and any sequence of init calls.                      *)
(***************************************************************************)
EXTENDS PluginInit, TLAPS

\* What the environment leaves alone still has its default: init stores nothing else.
DefaultsKept ==
  /\ flag["USE_NCCL_DEV"] = "unset" => settings.use_nccl_dev_num = 1
  /\ flag["SHARED_EP"] = "unset" => settings.use_shared_ep = 1
  /\ policy = "unset" => settings.shared_ep_multi_policy = "SHARED_EP_MULTI_WARN"

\* After a successful init GPUDirect is on only if both switches of PSM2 are.
GdrNeedsPsm2 ==
  ret = "ncclSuccess" /\ settings.use_gpudirect = 1 =>
    /\ flag["PSM2_CUDA"] = "1" /\ flag["PSM2_GPUDIRECT"] = "1"
    /\ flag["USE_GPUDIRECT"] \in {"unset", "1"}

PInv ==
  /\ PluginTypeOK
  /\ DefaultsKept
  /\ SettingsFollowEnvironment
  /\ GdrNeedsPsm2
  /\ GpuPointersNeedPsm2

-------------------------------------------------------------------------------
(* Reading a variable.                                                     *)

\* strtoul of a flag that is accepted: 0 or 1, as its text says.
LEMMA FlagReadLemma ==
  ASSUME PluginTypeOK, NEW f \in Flag, NEW old \in {0, 1}, FlagAccepted(f)
  PROVE  /\ FlagRead(f, old) \in {0, 1}
         /\ flag[f] = "unset" => FlagRead(f, old) = old
         /\ flag[f] = "0" => FlagRead(f, old) = 0
         /\ flag[f] = "1" => FlagRead(f, old) = 1
         /\ FlagRead(f, old) = 1 => flag[f] = "1" \/ (flag[f] = "unset" /\ old = 1)
<1>1. flag[f] \in {"unset", "", "0", "1", "10", "junk"}
  BY TokensAssumption DEF PluginTypeOK
<1>2. CASE flag[f] = "unset"
  BY <1>2 DEF FlagRead
<1>3. CASE flag[f] \in {"", "0"}
  <2>1. Value(flag[f], 2) = 0
    BY <1>3 DEF Value
  <2>2. flag[f] # "unset" /\ flag[f] # "1"
    BY <1>3
  <2>3. FlagRead(f, old) = 0
    BY <2>1, <2>2 DEF FlagRead
  <2> QED BY <2>2, <2>3
<1>4. CASE flag[f] = "1"
  <2>1. Value(flag[f], 2) = 1
    BY <1>4 DEF Value
  <2> QED BY <2>1, <1>4 DEF FlagRead
<1>5. flag[f] # "10"
  <2> SUFFICES ASSUME flag[f] = "10" PROVE FALSE
    OBVIOUS
  <2>1. Value(flag[f], 2) = 2
    BY DEF Value
  <2> QED BY <2>1 DEF FlagAccepted
<1>6. flag[f] # "junk"
  BY DEF FlagAccepted, Clean
<1> QED BY <1>1, <1>2, <1>3, <1>4, <1>5, <1>6

\* A level that is stored is one of the four, or the old one.
LEMMA LevelReadLemma ==
  ASSUME PluginTypeOK
  PROVE  LevelRead \in 0 .. 3
<1>1. level \in {"unset", "", "0", "1", "10", "high", "junk"}
  BY TokensAssumption DEF PluginTypeOK
<1>2. settings.plugin_logLevel \in 0 .. 3
  BY DEF PluginTypeOK, Settings
<1>3. CASE level \in {"unset", "high", "junk"}
  BY <1>2, <1>3 DEF LevelRead, Value, Clean
<1>4. CASE level \in {"", "0", "1", "10"}
  <2>1. level \in {"", "0"} => Value(level, 10) = 0
    BY DEF Value
  <2>2. level = "1" => Value(level, 10) = 1
    BY DEF Value
  <2>3. level = "10" => Value(level, 10) = 10
    BY DEF Value
  <2>4. Value(level, 10) \in {0, 1, 10}
    BY <1>4, <2>1, <2>2, <2>3
  <2> QED BY <1>2, <2>4 DEF LevelRead
<1> QED BY <1>1, <1>3, <1>4

\* A policy that is accepted is stored as its text says, abbreviated or not.
LEMMA PolicyReadLemma ==
  ASSUME PluginTypeOK, PolicyAccepted
  PROVE  /\ PolicyRead \in {"SHARED_EP_MULTI_ERROR", "SHARED_EP_MULTI_WARN"}
         /\ policy = "unset" => PolicyRead = settings.shared_ep_multi_policy
         /\ policy \in {"e", "error"} => PolicyRead = "SHARED_EP_MULTI_ERROR"
         /\ policy \in {"w", "warn"} => PolicyRead = "SHARED_EP_MULTI_WARN"
<1>1. policy \in {"unset", "", "e", "error", "w", "warn", "junk"}
  BY TokensAssumption DEF PluginTypeOK
<1>2. settings.shared_ep_multi_policy \in {"SHARED_EP_MULTI_ERROR", "SHARED_EP_MULTI_WARN"}
  BY DEF PluginTypeOK, Settings
<1> QED BY <1>1, <1>2 DEF PolicyAccepted, PolicyRead, PrefixOf

-------------------------------------------------------------------------------
(* Steps.                                                                  *)

LEMMA InitEstablishes == Init => PInv
BY DEF Init, PInv, PluginTypeOK, DefaultsKept, SettingsFollowEnvironment, GdrNeedsPsm2,
       GpuPointersNeedPsm2, Settings, Defaults

\* A call of init, wherever it stops.
LEMMA PluginInitPreserves ==
  ASSUME PInv, NEW psmrc \in {"PSM2_OK", "PSM2_ERROR"}, PluginInit(psmrc)
  PROVE  PInv'
<1> USE DEF PInv
<1> DEFINE dev == settings.use_nccl_dev_num
           shared == settings.use_shared_ep
           gdr == settings.use_gpudirect
           read == IF UpTo(4) THEN FlagRead("USE_GPUDIRECT", gdr) ELSE gdr
<1>t. /\ dev \in {0, 1} /\ shared \in {0, 1} /\ gdr \in {0, 1}
      /\ settings.shared_ep_multi_policy \in {"SHARED_EP_MULTI_ERROR", "SHARED_EP_MULTI_WARN"}
  BY DEF PluginTypeOK, Settings
<1>f. {"USE_NCCL_DEV", "SHARED_EP", "USE_GPUDIRECT", "PSM2_CUDA", "PSM2_GPUDIRECT"} \subseteq Flag
  BY DEF Flag
<1>e. UNCHANGED <<flag, policy, level, supported>>
  BY DEF PluginInit, env
<1>u. /\ UpTo(1) => FlagAccepted("USE_NCCL_DEV")
      /\ UpTo(2) => FlagAccepted("SHARED_EP")
      /\ UpTo(3) => PolicyAccepted
      /\ UpTo(4) => FlagAccepted("USE_GPUDIRECT")
      /\ UpTo(5) => /\ UpTo(1) /\ UpTo(2) /\ UpTo(3) /\ UpTo(4)
                    /\ FlagAccepted("PSM2_CUDA") /\ FlagAccepted("PSM2_GPUDIRECT")
  BY DEF UpTo
<1>s. /\ settings'.plugin_logLevel = LevelRead
      /\ settings'.use_nccl_dev_num = IF UpTo(1) THEN FlagRead("USE_NCCL_DEV", dev) ELSE dev
      /\ settings'.use_shared_ep = IF UpTo(2) THEN FlagRead("SHARED_EP", shared) ELSE shared
      /\ settings'.shared_ep_multi_policy =
           IF UpTo(3) THEN PolicyRead ELSE settings.shared_ep_multi_policy
      /\ settings'.use_gpudirect = IF UpTo(5) THEN GdrAfter(read) ELSE read
      /\ ret' \in {"ncclSuccess", "ncclInternalError"}
      /\ ret' = "ncclSuccess" => UpTo(5)
  BY DEF PluginInit
<1>r. settings' \in [use_nccl_dev_num : {settings'.use_nccl_dev_num},
                     use_shared_ep : {settings'.use_shared_ep},
                     use_gpudirect : {settings'.use_gpudirect},
                     shared_ep_multi_policy : {settings'.shared_ep_multi_policy},
                     plugin_logLevel : {settings'.plugin_logLevel}]
  BY DEF PluginInit
<1>1. /\ settings'.use_nccl_dev_num \in {0, 1}
      /\ flag["USE_NCCL_DEV"] = "unset" => settings'.use_nccl_dev_num = dev
      /\ UpTo(1) /\ flag["USE_NCCL_DEV"] = "0" => settings'.use_nccl_dev_num = 0
      /\ UpTo(1) /\ flag["USE_NCCL_DEV"] = "1" => settings'.use_nccl_dev_num = 1
  BY <1>t, <1>f, <1>u, <1>s, FlagReadLemma
<1>2. /\ settings'.use_shared_ep \in {0, 1}
      /\ flag["SHARED_EP"] = "unset" => settings'.use_shared_ep = shared
      /\ UpTo(2) /\ flag["SHARED_EP"] = "0" => settings'.use_shared_ep = 0
      /\ UpTo(2) /\ flag["SHARED_EP"] = "1" => settings'.use_shared_ep = 1
  BY <1>t, <1>f, <1>u, <1>s, FlagReadLemma
<1>3. /\ settings'.shared_ep_multi_policy \in {"SHARED_EP_MULTI_ERROR", "SHARED_EP_MULTI_WARN"}
      /\ policy = "unset" =>
           settings'.shared_ep_multi_policy = settings.shared_ep_multi_policy
      /\ UpTo(3) /\ policy \in {"e", "error"} =>
           settings'.shared_ep_multi_policy = "SHARED_EP_MULTI_ERROR"
      /\ UpTo(3) /\ policy \in {"w", "warn"} =>
           settings'.shared_ep_multi_policy = "SHARED_EP_MULTI_WARN"
  BY <1>t, <1>u, <1>s, PolicyReadLemma
<1>4. /\ read \in {0, 1}
      /\ UpTo(4) /\ read = 1 => flag["USE_GPUDIRECT"] \in {"unset", "1"}
  BY <1>t, <1>f, <1>u, FlagReadLemma
<1>5. UpTo(5) /\ PsmGdr => flag["PSM2_CUDA"] = "1" /\ flag["PSM2_GPUDIRECT"] = "1"
  <2>1. 0 \in {0, 1} OBVIOUS
  <2> QED BY <2>1, <1>f, <1>u, FlagReadLemma DEF PsmGdr
<1>6. settings'.use_gpudirect \in {0, 1}
  BY <1>4, <1>s DEF GdrAfter
<1>7. PluginTypeOK'
  <2>1. settings' \in Settings
    BY <1>r, <1>s, <1>1, <1>2, <1>3, <1>6, LevelReadLemma DEF Settings
  <2> QED BY <2>1, <1>e, <1>s DEF PluginTypeOK
<1>8. DefaultsKept'
  BY <1>1, <1>2, <1>3, <1>e DEF DefaultsKept
<1>9. SettingsFollowEnvironment'
  <2> SUFFICES ASSUME ret' = "ncclSuccess"
               PROVE  /\ flag["USE_NCCL_DEV"] = "0" => settings'.use_nccl_dev_num = 0
                      /\ flag["USE_NCCL_DEV"] \in {"1", "unset"} => settings'.use_nccl_dev_num = 1
                      /\ flag["SHARED_EP"] = "0" => settings'.use_shared_ep = 0
                      /\ flag["SHARED_EP"] \in {"1", "unset"} => settings'.use_shared_ep = 1
                      /\ policy \in {"e", "error"} =>
                           settings'.shared_ep_multi_policy = "SHARED_EP_MULTI_ERROR"
                      /\ policy \in {"w", "warn", "unset"} =>
                           settings'.shared_ep_multi_policy = "SHARED_EP_MULTI_WARN"
    BY <1>e DEF SettingsFollowEnvironment
  <2>1. UpTo(1) /\ UpTo(2) /\ UpTo(3)
    BY <1>s, <1>u
  <2> QED BY <2>1, <1>1, <1>2, <1>3 DEF DefaultsKept
<1>10. GdrNeedsPsm2'
  <2> SUFFICES ASSUME ret' = "ncclSuccess", settings'.use_gpudirect = 1
               PROVE  /\ flag["PSM2_CUDA"] = "1" /\ flag["PSM2_GPUDIRECT"] = "1"
                      /\ flag["USE_GPUDIRECT"] \in {"unset", "1"}
    BY <1>e DEF GdrNeedsPsm2
  <2>1. UpTo(5) /\ UpTo(4)
    BY <1>s, <1>u
  <2>2. PsmGdr /\ read = 1
    BY <2>1, <1>s DEF GdrAfter
  <2> QED BY <2>1, <2>2, <1>4, <1>5
<1>11. GpuPointersNeedPsm2'
  BY <1>e DEF GpuPointersNeedPsm2
<1> QED BY <1>7, <1>8, <1>9, <1>10, <1>11

LEMMA PtrSupportPreserves ==
  ASSUME PInv, PtrSupport
  PROVE  PInv'
<1> USE DEF PInv
<1>1. UNCHANGED <<flag, policy, level, settings, ret>> /\ ret = "ncclSuccess"
  BY DEF PtrSupport, env
<1>2. /\ supported' \in SUBSET {"NCCL_PTR_HOST", "NCCL_PTR_CUDA"}
      /\ "NCCL_PTR_CUDA" \in supported' => settings.use_gpudirect = 1
  BY DEF PtrSupport
<1>3. PluginTypeOK' /\ DefaultsKept' /\ SettingsFollowEnvironment' /\ GdrNeedsPsm2'
  BY <1>1, <1>2 DEF PluginTypeOK, DefaultsKept, SettingsFollowEnvironment, GdrNeedsPsm2
<1>4. GpuPointersNeedPsm2'
  BY <1>1, <1>2 DEF GpuPointersNeedPsm2, GdrNeedsPsm2
<1> QED BY <1>3, <1>4

LEMMA PInvInductive == PInv /\ [Next]_vars => PInv'
<1> SUFFICES ASSUME PInv, [Next]_vars PROVE PInv'
  OBVIOUS
<1>1. CASE Next
  BY <1>1, PluginInitPreserves, PtrSupportPreserves DEF Next
<1>2. CASE UNCHANGED vars
  BY <1>2 DEF PInv, PluginTypeOK, DefaultsKept, SettingsFollowEnvironment, GdrNeedsPsm2,
              GpuPointersNeedPsm2, vars, env
<1> QED BY <1>1, <1>2

-------------------------------------------------------------------------------
(* Theorems.                                                               *)

THEOREM PluginInvariance == Spec => []PInv
BY InitEstablishes, PInvInductive, PTL DEF Spec

\* The statics of psm2_nccl_init hold only values it checked, wherever it stopped.
THEOREM PluginTypeCorrect == Spec => []PluginTypeOK
<1>1. PInv => PluginTypeOK BY DEF PInv
<1> QED BY <1>1, PluginInvariance, PTL

\* After a successful init the settings are those of the environment, with the default
\* where it is silent, whatever calls failed before.
THEOREM ConfigurationFollowsEnvironment == Spec => []SettingsFollowEnvironment
<1>1. PInv => SettingsFollowEnvironment BY DEF PInv
<1> QED BY <1>1, PluginInvariance, PTL

\* ptrSupport offers GPU pointers only if the user turned GPUDirect on in PSM2 and did not
\* turn it off in the plugin.
THEOREM GpuPointersAreSafe == Spec => []GpuPointersNeedPsm2
<1>1. PInv => GpuPointersNeedPsm2 BY DEF PInv
<1> QED BY <1>1, PluginInvariance, PTL
===============================================================================
