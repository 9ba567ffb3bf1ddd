------------------------------ MODULE PluginInit ------------------------------
(***************************************************************************)
(* psm2_nccl_init: the environment variables that configure the plugin,    *)
(* and what ptrSupport then tells NCCL about GPU memory.                   *)
(*                                                                         *)
(* The variables are read one after the other, each into a static as soon  *)
(* as it is accepted; the first one refused ends the call and keeps what   *)
(* was stored before.  The environment does not change while the process   *)
(* runs, and NCCL may call init again, for another communicator.           *)
(***************************************************************************)
EXTENDS Naturals

CONSTANTS
  FlagTokens,    \* values of the variables that must be 0 or 1
  PolicyTokens,  \* values of PSM2_NCCL_SHARED_EP_MULTI
  LevelTokens    \* values of PSM2_NCCL_LOG_LEVEL

\* "unset" is a variable that is not in the environment, "junk" any value with text
\* that is not a number, "high" a number above every limit.
ASSUME TokensAssumption ==
  /\ FlagTokens \subseteq {"unset", "", "0", "1", "10", "junk"}
  /\ PolicyTokens \subseteq {"unset", "", "e", "error", "w", "warn", "junk"}
  /\ LevelTokens \subseteq {"unset", "", "0", "1", "10", "high", "junk"}

Flag == {"USE_NCCL_DEV", "SHARED_EP", "USE_GPUDIRECT", "PSM2_CUDA", "PSM2_GPUDIRECT"}

VARIABLES
  flag, policy, level,  \* getenv
  settings,             \* the statics init may change
  ret,                  \* "none" before the first call, then its last result
  supported             \* last result of ptrSupport, {} before the first

env  == <<flag, policy, level>>
vars == <<env, settings, ret, supported>>

Settings == [use_nccl_dev_num : {0, 1}, use_shared_ep : {0, 1}, use_gpudirect : {0, 1},
             shared_ep_multi_policy : {"SHARED_EP_MULTI_ERROR", "SHARED_EP_MULTI_WARN"},
             plugin_logLevel : 0 .. 3]

\* The initializers of the statics.
Defaults == [use_nccl_dev_num |-> 1, use_shared_ep |-> 1, use_gpudirect |-> 1,
             shared_ep_multi_policy |-> "SHARED_EP_MULTI_WARN", plugin_logLevel |-> 0]

PluginTypeOK ==
  /\ flag \in [Flag -> FlagTokens] /\ policy \in PolicyTokens /\ level \in LevelTokens
  /\ settings \in Settings
  /\ ret \in {"none", "ncclSuccess", "ncclInternalError"}
  /\ supported \in SUBSET {"NCCL_PTR_HOST", "NCCL_PTR_CUDA"}

Init ==
  /\ flag \in [Flag -> FlagTokens] /\ policy \in PolicyTokens /\ level \in LevelTokens
  /\ settings = Defaults
  /\ ret = "none"
  /\ supported = {}

-------------------------------------------------------------------------------
(* Reading one variable.                                                   *)

\* strtoul(t, &end, base): its value, and whether *end is the end of the string.
\* No digits at all is the value 0, with nothing left over in the empty string.
Value(t, base) == IF t = "high" THEN 1000 ELSE IF t = "10" THEN base
                  ELSE IF t = "1" THEN 1 ELSE 0
Clean(t) == t # "junk"

\* Faulty: any number is accepted.
FlagAccepted_AnyNumber(f) == flag[f] = "unset" \/ Clean(flag[f])

FlagAccepted(f) == flag[f] = "unset" \/ (Clean(flag[f]) /\ Value(flag[f], 2) <= 1)

LevelAccepted == level = "unset" \/ (Clean(level) /\ Value(level, 10) <= 3)

\* strncasecmp(value, word, strlen(value)) = 0
PrefixOf(t, word) ==
  \/ t = "" \/ t = word
  \/ word = "error" /\ t = "e"
  \/ word = "warn" /\ t = "w"

PolicyAccepted == policy = "unset" \/ PrefixOf(policy, "error") \/ PrefixOf(policy, "warn")

\* Faulty: only a flag that is on is stored.
FlagRead_OnlyOn(f, old) == IF flag[f] = "1" THEN 1 ELSE old

\* A flag that is not in the environment keeps its value.
FlagRead(f, old) == IF flag[f] = "unset" THEN old ELSE Value(flag[f], 2)

\* PSM2's own switches are off unless the environment turns them on.
PsmGdr == FlagRead("PSM2_CUDA", 0) = 1 /\ FlagRead("PSM2_GPUDIRECT", 0) = 1

\* Faulty: a difference that strncasecmp reports is taken for a match.
PolicyRead_Inverted ==
  IF policy = "unset" THEN settings.shared_ep_multi_policy
  ELSE IF ~PrefixOf(policy, "error") THEN "SHARED_EP_MULTI_ERROR"
  ELSE "SHARED_EP_MULTI_WARN"

PolicyRead ==
  IF policy = "unset" THEN settings.shared_ep_multi_policy
  ELSE IF PrefixOf(policy, "error") THEN "SHARED_EP_MULTI_ERROR"
  ELSE "SHARED_EP_MULTI_WARN"

\* A level that is too high is stored before the check, and set to 0 by it.
LevelRead ==
  IF level = "unset" \/ ~Clean(level) \/ Value(level, 10) >= 1000
    THEN settings.plugin_logLevel
    ELSE IF Value(level, 10) <= 3 THEN Value(level, 10) ELSE 0

-------------------------------------------------------------------------------
(* The calls.                                                              *)

\* What has been accepted when the call gets to each assignment.
UpTo(i) ==
  /\ LevelAccepted
  /\ i >= 1 => FlagAccepted("USE_NCCL_DEV")
  /\ i >= 2 => FlagAccepted("SHARED_EP")
  /\ i >= 3 => PolicyAccepted
  /\ i >= 4 => FlagAccepted("USE_GPUDIRECT")
  /\ i >= 5 => FlagAccepted("PSM2_CUDA") /\ FlagAccepted("PSM2_GPUDIRECT")

\* Faulty: GPUDirect is given up only if neither switch of PSM2 is on.
GdrAfter_AnySwitch(old) ==
  IF FlagRead("PSM2_CUDA", 0) = 0 /\ FlagRead("PSM2_GPUDIRECT", 0) = 0 THEN 0 ELSE old

\* The plugin's GPUDirect is given up unless both switches of PSM2 are on.
GdrAfter(old) == IF PsmGdr THEN old ELSE 0

\* psm2_nccl_init; psm2_init may fail last of all.
PluginInit(psmrc) ==
  /\ settings' =
       [plugin_logLevel |-> LevelRead,
        use_nccl_dev_num |-> IF UpTo(1) THEN FlagRead("USE_NCCL_DEV", settings.use_nccl_dev_num)
                             ELSE settings.use_nccl_dev_num,
        use_shared_ep |-> IF UpTo(2) THEN FlagRead("SHARED_EP", settings.use_shared_ep)
                          ELSE settings.use_shared_ep,
        shared_ep_multi_policy |-> IF UpTo(3) THEN PolicyRead
                                   ELSE settings.shared_ep_multi_policy,
        use_gpudirect |->
          LET read == IF UpTo(4) THEN FlagRead("USE_GPUDIRECT", settings.use_gpudirect)
                      ELSE settings.use_gpudirect
          IN IF UpTo(5) THEN GdrAfter(read) ELSE read]
  /\ ret' = IF UpTo(5) /\ psmrc = "PSM2_OK" THEN "ncclSuccess" ELSE "ncclInternalError"
  /\ UNCHANGED <<env, supported>>

\* psm2_nccl_ptrSupport_v2, which NCCL asks only of a plugin whose init succeeded.
\* DMA-BUF is off, and no setting turns it on.
PtrSupport ==
  /\ ret = "ncclSuccess"
  /\ supported' = {"NCCL_PTR_HOST"} \cup
                  (IF settings.use_gpudirect = 1 THEN {"NCCL_PTR_CUDA"} ELSE {})
  /\ UNCHANGED <<env, settings, ret>>

Next == PtrSupport \/ \E psmrc \in {"PSM2_OK", "PSM2_ERROR"} : PluginInit(psmrc)

Spec == Init /\ [][Next]_vars

-------------------------------------------------------------------------------
(* Properties.                                                             *)

\* GPU pointers are offered to NCCL only when the user left the plugin's GPUDirect on
\* and turned on both PSM2_CUDA and PSM2_GPUDIRECT (without which libpsm2 would
\* treat a GPU pointer as host memory).
GpuPointersNeedPsm2 ==
  "NCCL_PTR_CUDA" \in supported =>
    /\ flag["PSM2_CUDA"] = "1" /\ flag["PSM2_GPUDIRECT"] = "1"
    /\ flag["USE_GPUDIRECT"] \in {"unset", "1"}

\* After a successful init, however many failed or succeeded before it, the
\* configuration is what the environment says, and the default where it is silent.
SettingsFollowEnvironment ==
  ret = "ncclSuccess" =>
    /\ \A pair \in {<<"USE_NCCL_DEV", settings.use_nccl_dev_num>>,
                    <<"SHARED_EP", settings.use_shared_ep>>} :
         /\ flag[pair[1]] = "0" => pair[2] = 0
         /\ flag[pair[1]] \in {"1", "unset"} => pair[2] = 1
    /\ policy \in {"e", "error"} => settings.shared_ep_multi_policy = "SHARED_EP_MULTI_ERROR"
    /\ policy \in {"w", "warn", "unset"} =>
         settings.shared_ep_multi_policy = "SHARED_EP_MULTI_WARN"

\* Each flag must be 0 or 1, or init fails (its error messages).  An empty value is
\* neither, and is taken for 0.
FlagsAreZeroOrOne ==
  ret = "ncclSuccess" => \A f \in Flag : flag[f] \in {"unset", "0", "1"}
===============================================================================
