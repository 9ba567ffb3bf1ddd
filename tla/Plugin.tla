-------------------------------- MODULE Plugin --------------------------------
(***************************************************************************)
(* One process of a job: the configuration that init reads from the        *)
(* environment (PluginInit) and the communicators opened under it          *)
(* (SharedEp), which share the file-level statics.                         *)
(*                                                                         *)
(* NCCL uses the plugin once an init has succeeded, and may call init      *)
(* again at any time after that, with communicators open; such a call may  *)
(* fail.  A connection is made to one of the process's own listeners.      *)
(***************************************************************************)
EXTENDS PluginInit, FiniteSets

CONSTANTS
  Process, Comm, Ep, Dev, NULL, TAG_MAX, ClosesUnaccepted  \* as in SharedEp

VARIABLES
  next_tag, shared_ep, comm, ep_unit, abandoned, held, handles, listens,  \* as in SharedEp
  callret,  \* result of the last call that is not init or ptrSupport
  ready     \* history: has an init succeeded

commVars == <<next_tag, shared_ep, comm, ep_unit, abandoned, held, handles, listens, callret>>
pvars == <<vars, commVars, ready>>

ASSUME ProcessAssumption ==
  /\ IsFiniteSet(Comm)
  /\ Dev \subseteq Nat
  /\ 0 \in Dev
  /\ TAG_MAX \in Nat
  /\ ClosesUnaccepted \in BOOLEAN

HomeOf   == [c \in Comm |-> Process]
EpHomeOf == [e \in Ep |-> Process]

\* The calls on communicators, which read what the statics hold when they are made.
Calls == INSTANCE SharedEp WITH
  Rank <- {Process}, Home <- HomeOf, EpHome <- EpHomeOf,
  use_shared_ep <- settings.use_shared_ep,
  use_nccl_dev_num <- settings.use_nccl_dev_num,
  shared_ep_multi_policy <- settings.shared_ep_multi_policy,
  ret <- callret

\* An address, an epid and a device have other values than nothing.
ASSUME NullIsNothing == NULL \notin Comm \cup Ep \cup Dev \cup Calls!CommRec

ProcessInit ==
  /\ Init
  /\ next_tag = [p \in {Process} |-> 0]
  /\ shared_ep = [p \in {Process} |-> Calls!ZeroSharedEp]
  /\ comm = [c \in Comm |-> NULL]
  /\ ep_unit = [e \in Ep |-> NULL]
  /\ abandoned = {}
  /\ held = [c \in Comm |-> "none"]
  /\ handles = {}
  /\ listens = [p \in {Process} |-> 0]
  /\ callret = [rc |-> "ncclSuccess", out |-> NULL, psm |-> "PSM2_OK"]
  /\ ready = FALSE

\* Faulty: init forgets the communicators of the process.
Kept_Forgotten == shared_ep' = [p \in {Process} |-> Calls!ZeroSharedEp]
                  /\ UNCHANGED <<next_tag, comm, ep_unit, abandoned, held, handles, listens, callret>>

\* init leaves the other statics and everything allocated as they are.
Kept == UNCHANGED commVars

Configure ==
  /\ Next
  /\ ready' = (ready \/ ret' = "ncclSuccess")
  /\ Kept

Communicate ==
  /\ ready
  /\ UNCHANGED <<vars, ready>>
  /\ Calls!Next

ProcessNext == Configure \/ Communicate

ProcessSpec == ProcessInit /\ [][ProcessNext]_pvars

-------------------------------------------------------------------------------
(* Properties.                                                             *)

\* What the user set, or the default: no state of the process is in it.
Wanted(f) == IF flag[f] \in {"unset", "1"} THEN 1 ELSE 0

WantedPolicy == IF policy \in {"e", "error", ""} THEN "SHARED_EP_MULTI_ERROR"
                ELSE "SHARED_EP_MULTI_WARN"

Configured == INSTANCE SharedEp WITH
  Rank <- {Process}, Home <- HomeOf, EpHome <- EpHomeOf,
  use_shared_ep <- Wanted("SHARED_EP"),
  use_nccl_dev_num <- Wanted("USE_NCCL_DEV"),
  shared_ep_multi_policy <- WantedPolicy,
  ret <- callret

\* The communicators behave as SharedEp does under one configuration, the one the user
\* asked for, from the first call to the last: however many init calls failed before
\* one succeeded, and whatever later ones do while communicators are open.
RunsAsConfigured == Configured!Spec

\* A user who leaves NCCL's device numbers in use, and has a rank with communicators
\* on two devices fail where they would share an endpoint, gets every communicator on
\* the device NCCL asked for: the settings reach psm2comm_init_ep through any sequence
\* of init calls.
DeviceAsAsked ==
  /\ flag["USE_NCCL_DEV"] \in {"unset", "1"}
  /\ flag["SHARED_EP"] = "0" \/ policy \in {"e", "error"}
  => \A c \in Comm : comm[c] # NULL => ep_unit[comm[c].ep] = comm[c].dev
===============================================================================
