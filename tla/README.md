# A TLA+ model of the psm2-nccl plugin

psm2-nccl is the network plugin that lets NCCL send over Omni-Path through
libpsm2. NCCL loads it as a shared object, calls `init`, asks for the devices and
their properties, sets up connections with `listen` / `connect` / `accept`, moves data with `isend` / `irecv` / `test` and
tears down with the three `close` calls. The plugin keeps no thread and takes no
lock; all its state is in a few file-level statics of `src/psm2_nccl_api.c` and
in the communicators it allocates.

Line numbers below are those of `src/psm2_nccl_api.c` unless a file is named.

## 1. Inventory

| component | state | operations | modelled in |
|---|---|---|---|
| communicators and PSM2 endpoints | heap of `psm2comm_t`, statics `shared_ep`, `next_tag` | `psm2comm_init_ep`, `psm2comm_init`, `psm2comm_fini`, listen, connect, accept, closeSend, closeRecv, closeListen (118-253, 661-769, 936-955) | `SharedEp`, step by step in `CommSteps` |
| requests and progress | `comm->requests[32]`, the matched queue (MQ) inside PSM2 | `get_req`, `put_req`, isend, irecv, test, `mq_progress_loop` (270-356, 797-859, 894-935) | `Transfer`; what it promises in `Channel` |
| plugin initialization | statics `use_shared_ep`, `shared_ep_multi_policy`, `use_gpudirect`, `use_nccl_dev_num`, `plugin_logLevel` | `psm2_nccl_init`, `psm2_nccl_init_logging`, `ptrSupport` (75-105, 358-459, 487-500) | `PluginInit`; with the communicators in `Plugin` |
| device properties | strings handed to NCCL | getProperties and its v4, v6, v7 wrappers, pciPath (255-268, 475-485, 502-659) | `DeviceProps` |
| device count | none | devices (461-473) | no state: not modelled |
| sysfs reader (`hfi_sysclass.c`) | none | `hfi_sysclass_rd`, `_get_devname`, `_get_pciPath` | return codes and allocations, in `DeviceProps` |
| NCCL network tables (`psm2_nccl_net.c`) | constant | - | their getProperties, in `DeviceProps` |
| memory registration, flush | none | regMr*, deregMr, iflush*, flush | no state: not modelled |
| logging macros, build | none | - | not modelled |
| libpsm2, the fabric, NCCL | endpoints, MQs, messages; pointers NCCL holds | - | external, see section 4 |

**How they interact.** NCCL calls the plugin through a table of functions. `init`
decides once how the rest behaves: whether communicators share an endpoint, and
whether NCCL's device number is used. `listen` makes a communicator and a handle
(epid, tag) that NCCL carries to another rank, where `connect` makes the sending
communicator for it; `accept` returns the listener itself. In shared-EP mode, the
default, all communicators of a process hang on one reference-counted endpoint.
A message names an endpoint and a tag, nothing finer, so all of them also work on
one MQ: whichever request NCCL tests first retires the completions of all, through
the pointer to the request slot that every operation carries as its context.

**What is hard.** The endpoint's life is split over increments and decrements on
success and on four failing paths (calloc, `psm2_ep_open`, `psm2_mq_init`,
`psm2_ep_connect`), and over closes that may fail too. Handles outlive
listeners, and epids can be given out again. One object has two names after
accept. Slots are reused while other communicators' tests complete them. `init`
stores part of its settings before it fails, and may be called again under open
communicators. Nothing is locked: whether two threads may call at once is decided
by NCCL alone. The list, with lines, is under
"hazards" in `PROJECT.json`.

**What makes each component correct.**

- Communicators: the count is exact, no endpoint is closed under a user or kept
  without one, the device is the one asked for, a handle names one receiver for
  ever, a communicator is freed once and only when NCCL is done with it, a failing
  call leaves nothing behind.
- Requests: an operation in an MQ always meets its own request in use; none is
  stranded or counted twice; slots come back; receivers get their own sender's
  messages, in order, and test reports the size of the right one; what completed is
  reported. In short, each pair of communicators is a `Channel`.
- Initialization: the settings follow the environment whatever failed before; GPU
  pointers are offered only when libpsm2 can handle them; the communicators of a
  process all live under one configuration.
- Properties: no leak, no foreign free, different guids for different NICs, every
  field of every version set.

## 2. The modules

### SharedEp

One call is one action, because a call runs to completion on NCCL's thread; the
results of the PSM2 calls it makes are parameters chosen by `Next`. Ranks are
processes with their own statics, whose calls interleave.

| code | model |
|---|---|
| static `shared_ep` (ep, epid, unit, refcount) | `shared_ep[p]`; endpoint and epid are one value |
| static `next_tag` | `next_tag[p]` |
| the heap of `psm2comm_t` | `comm[c]`, `NULL` where `c` is not allocated; `Home[c]` is its process |
| `comm->shared_ep` (set or NULL) | `comm[c].shared`; what `SharedComms(p)` collects |
| `psm2comm_init_ep` | `UnitMismatch`, `UnitRefused`, `MustOpen`, `InitEp`, `SharedAfterInit` |
| `psm2comm_init` | `InitOk`, or `InitFailsEarly` (calloc, refused unit, no endpoint), or `BailOut` (`psm2_mq_init`) |
| `psm2comm_fini` | `Fini`, with `Released`, `ClosesEp`, `SharedAfterFini`, `EpClose` |
| `psm2_nccl_listen` | `Listen`, `InitFailsEarly`, `InitMqFails`, `ListenOutOfTags` |
| `psm2_nccl_connect`, `_v8` | `Connect`, `ConnectFails`, and the same failures of `psm2comm_init` |
| `psm2_nccl_accept`, `_v8` | `Accept` |
| closeSend, closeRecv | `Close` |
| closeListen | `CloseListen` |

Ghosts: `comm[c].dev` and `.born` remember the device NCCL asked for and the
listen a tag comes from, `listens[p]` counts listens, `held[c]` is the set of
pointers NCCL has to `c`, as one word. `abandoned` holds endpoints that
`psm2_ep_close` failed on and left open. `TAG_MAX` stands for `ULLONG_MAX`; it
also bounds the state space, because no listen succeeds beyond it.

### Transfer

Extends `SharedEp`. Its `Lifecycle` action takes a step of `SharedEp!Next` and
does to the requests and the MQ what the code does: `free` and `calloc` empty the
slots, the end of the endpoint ends its MQ. `Isend` and `Irecv` take a slot
(`GetReq`) and post an operation whose context is the slot; `Test` runs
`mq_progress_loop` (`Progress`, `AfterProgress`) on the MQ of the endpoint, and
then looks at its own request; `TestUnused` is the early return of test.
`PostRefused` covers both no slot and PSM2 refusing the operation, which change
nothing. `SendCompletes` and `Match` are PSM2's: a send may complete before its
message is matched (PSM2 copies small ones), and need not complete until it is. A
completion that fails one of the assertions of `mq_progress_loop` stops the process: the
step does not exist, and `OpsMeetTheirRequests` says that none ever fails. The process
stops too if `psm2_mq_ipeek` or `psm2_mq_test` fails (317, 324; the Makefile does not
set NDEBUG), so the error returns behind these assertions are not modelled.
`NUM_REQUESTS` is 32 in the code; `MaxCalls` bounds the calls per communicator.

A message is a number of a sender, and `DataSize` gives every isend another size; a
receive is cut to `RecvBuf`, and reported done like any other, because nothing looks
at the status's `error_code`. `Done` is what test returns: the size of a receive only,
read before `put_req` zeroes the slot.

### Channel and TransferChannel

`Channel` is what NCCL relies on, and knows no endpoint, tag, queue or slot: a link
per listen, each of its two sides opened once, a window of numbered requests per
end, messages delivered at most once and only within their link, in order if the
queue is. `TransferChannel` maps `Transfer` to it (`Abstract`): a link is the listen
call a communicator's tag comes from, the window is the slots in use, a message is
on the wire while it is in the fabric, and it is delivered when the matched queue
completes a receive with it, which `mq_progress_loop` may note much later through
another communicator. `ImplementsChannel` is `Abstract!ChannelSpec`: a step of
`Transfer` is one step of `Channel` or does not show.

### CommSteps

`SharedEp` takes a whole call as one step. `CommSteps` extends it with threads: a
thread in a call has a frame with a label, and takes one access to a static or one
PSM2 call at a time.

| label | code |
|---|---|
| `unit_check`, `user_check` | the two reads of `shared_ep.refcount` (123, 144) |
| `ep_open`, `store`, `join`, `attach` | 145-159, 161-167, 168-171, 173-179 |
| `mq_init` | 206, with its bail-out to `release` |
| `tag` | 685-690, the end of listen |
| `ep_connect` | 725-741, the end of connect |
| `release`, `last_check`, `ep_close`, `clear`, `free` | 236, 240, 241, 246, 250 of `psm2comm_fini` |

`Calls` is an instance of `SharedEp` in which the part of each rank is what it was when
the rank's last call returned (the history variable `seen`), so that a call takes
effect when it returns. `CallsAreAtomic`, which is `Calls!Spec`, says that this is a
behaviour of `SharedEp`: the atomic calls that `SharedEp`, its proofs, `Transfer`
and `Plugin` rest on are what the code's steps amount to, as long as the calls of one
process do not overlap (`Serialised`). When they do overlap, `CommStepsOverlap` shows
what goes wrong first.

### PluginInit and Plugin

Each variable of the environment is a token that stands for a class of strings
(unset, empty, 0, 1, other numbers, text). `PluginInit` is one call of
`psm2_nccl_init`: `UpTo(i)` says how far it got, and each static is stored if the
call got to its assignment. The level is stored before its range is checked and
reset by the check, as in the code. `PtrSupport` is what NCCL is told after.

`Plugin` composes it with the calls of `SharedEp`, which read the settings as they are
(`Calls`), for one process. NCCL calls them once an init has succeeded (`ready`), and
may call init again at any time, successfully or not. `RunsAsConfigured` is the
specification of `SharedEp` under the settings that the environment asks for, worked
out without looking at the state (`Configured`). `DeviceAsAsked` says what a user gets of
it who wants NCCL's choice of devices to be kept: every communicator on the device NCCL
asked for.

### DeviceProps

`interface` is the table NCCL loaded, one per process: `Filler` is the getProperties it
points to, `Struct` the struct it is declared with, `Fields` the members of that struct
in `nccl_net/net_v*.h`, `Copied` those the code sets. `heap` is what `malloc` gave and
nothing freed, `kept` what NCCL got and has not freed: it frees the path of version 2
(`net_v2.h`) and nothing else. There is an action for each place where getProperties can
stop. Reading an attribute of sysfs meets one of six cases (`Attr`), the link to the PCI
device is one of three (`Link`), and a device that is not installed has neither; `Rd`,
`DevnameRc` and `PciPathRc` turn them into the return codes of `hfi_sysclass.c`, and these
decide which action is taken. The struct may hold anything before the call
(`Uninitialized`), so that a call may free what it did not allocate (`badFree`); after
that anything may happen, and the model stops. A `node_guid` is four words of base `Base` (two values each in the runs,
2^16 in the code).

### MC modules and proofs

`MCSharedEp`, `MCCommSteps`, `MCTransfer`, `MCPlugin` and `MCDeviceProps` hold the maps, symmetry sets and
restricted specifications that the `.cfg` files need. `SharedEpProofs`, `CommStepsProofs`,
`TransferProofs`, `TransferChannelProofs`, `PluginInitProofs`, `PluginProofs` and
`DevicePropsProofs` extend the module of their name with the theorems of section 5. Operators named `X_Something` just above
an operator `X`, with a comment that starts with "Faulty", are deliberately wrong
variants of it: no specification uses them, and putting one in the place of `X`
makes the property named with it in `PROJECT.json` ("mutants") fail.

## 3. The runs

Runs that pass:

| run | instance | states | shows |
|---|---|---|---|
| `SharedEpOneRank` | 1 rank, 3 communicators, 3 endpoints, 2 devices, 2 tags, all 8 configurations | 343 k | the type invariant and all properties of `SharedEp` |
| `CommSteps` | 2 ranks with a thread each, 2 + 1 communicators, 1 endpoint each, both modes, listeners may be closed unaccepted | 535 k | every call is one step of `SharedEp`; handles name one receiver when both ranks issue the same tags; no step takes the endpoint of a communicator in use |
| `TransferModes` | 3 communicators, 2 endpoints, 1 slot, 2 calls each, both modes, unordered MQ | 250 k | operations meet their requests, none is stranded, slots are in use exactly while NCCL waits, no stranger's message; implements `Channel` |
| `TransferFair` | a sender and a receiver on one endpoint, 2 slots, 3 calls each, ordered MQ | 78 k | n-th receive gets n-th send and its size; implements the ordered `Channel`; completions are reported; a full sender recovers once its receiver posts |
| `Plugin` | every environment over 5 flags, 5 policies (with the empty one), 4 levels; 2 communicators, 2 endpoints, 2 devices; any number of calls | 337 k | settings follow the environment, GPU pointers need PSM2, communicators run under one configuration and on the device asked for |
| `DeviceProps` | 7 interfaces, 4 blocks, 2 devices and numbers from -1 to 3, 2-valued words, structs of any contents | 46 k | no leak until a bad free, distinct guids, every field |

Runs that end in a violation, each a disagreement of the code with what the
repository says of it:

| run | what TLC shows | what it contradicts |
|---|---|---|
| `SharedEpSlowPeer` | connect times out in `psm2_ep_connect` and fails | "must not block ... should return successfully with sendComm == NULL" (`nccl_net/net_v8.h:42-44`) |
| `SharedEpStranded` | shared-EP mode; listen, closeListen: the communicator, its reference (`refcount` 1) and the endpoint stay, and NCCL has no pointer left to close | "Close and free" (`nccl_net/net_v8.h:71`) |
| `TransferUndrained` | listen, connect, isend, closeSend on a shared endpoint: an operation is left whose context is freed | `assert(r->used)` (331) |
| `CommStepsOverlap` | two threads of a rank both pass `!shared_ep.refcount` before either counts itself, and open two endpoints | "PSM2-NCCL uses one PSM2 endpoint for all NCCL send and receive communicator objects associated with a host rank" (`src/README:94`) |
| `PluginInitEmptyFlag` | an empty flag variable is accepted as 0 | "must be 0 or 1" (389 and others) |
| `DevicePropsUninitialized` | getProperties of a device whose name cannot be read frees an uninitialized `pciPath` | "Contents of `*path` are undefined on failure" (`hfi_sysclass.h:58`) |

Three of them need a caller that NCCL is not in its normal course:
`SharedEpStranded` closes a listener it did not accept (`ClosesUnaccepted`),
`TransferUndrained` closes a communicator with requests outstanding
(`DrainsBeforeClose` is FALSE), both of which an abort does, and `CommStepsOverlap`
calls from two threads at once (`Serialised` is FALSE). Apart from `CommSteps` and
`Plugin`, which allow the first, the passing runs exclude all three; `HeldIffLive` and
the request properties hold for that caller only.

Two smaller disagreements have no run. test clears `*done` before it looks at `r->used`
(903), where its comment says done is left alone (898): `TestUnused`. And test writes
`*size` of a receive without the check for NULL, and no size of a send, that the
interface describes ("If size is not NULL, it returns the number of bytes
sent/received", `nccl_net/net_v8.h`).

**Bounds, and why they are enough.** Three communicators are the least for "one
goes, one stays, one joins"; three endpoints let each have its own and let an epid
be reused. Two devices make a mismatch. Two tags per rank make an old and a new
receiver on one epid. One slot makes every second call find the pool full and
every third reuse a slot, two slots with three calls reuse a slot while the other
is still in flight. Symmetry over communicators and endpoints is sound: nothing
orders them but `Home` and `EpHome`, which are constant on the permuted sets.
In `CommSteps` the two ranks have different parts: the second has one communicator,
enough to listen to the first or connect to it, and only the first rank's connect asks
for the second device. In `Plugin` communicators are opened only where the variables
they do not depend on are unset (`BoundedNext`); init itself runs in every environment.
`TransferModes` and `TransferUndrained` leave the results of the last calls out of the
fingerprint (`WithoutResults`), which no guard and none of their properties reads. The liveness run uses neither symmetry nor a view.
`TransferFair` leaves out lifecycle calls in which PSM2 fails, to keep its graph
small; `FailureLeavesNoTrace` says that such a call does not touch what requests
depend on.

In `DeviceProps` the four blocks let two queries succeed, or one and a failing one
that allocated both its strings; the device numbers are two devices, one that is in
range and not installed, and one beyond each end.

**Deadlock** is checked in every run except `DeviceProps`, which ends where a call
freed what it did not allocate. A rank that closed everything and used all
tags can still call listen and be refused.

**Fairness** (`XferFairness`): NCCL's proxy polls every request it holds until it is
done, so `Test` of each is weakly fair. The PSM2 progress engine runs inside those
polls: some match happens as long as one can, and some send whose message was matched
(`Matched`) completes as long as there is one. A send that is not matched is under no
fairness, because PSM2 fetches a large message only when a receive asks for it. No call
NCCL is free not to make (`isend`, `irecv`, close) is fair either; that is why
`FullSenderRecovers` promises a slot only to a sender whose receiver has posted the
receive of one of its sends (`ReceiverPosted`). Without this condition, or without
fairness of the matched sends, TLC finds a sender that waits for ever.

## 4. What is assumed of the environment

- **PSM2 endpoints.** `psm2_ep_open` returns an endpoint that is not open, on the
  unit asked for or on any if none is; an epid may come back after a close.
  `psm2_ep_close` that fails may have closed the endpoint or not.
- **One MQ per endpoint.** The code initializes one MQ handle per communicator on
  what may be the same endpoint; a message carries no more than an endpoint and a
  tag, so these are handles of one queue. `psm2_mq_finalize` gives up a handle.
- **Matching.** A receive takes a message of its endpoint and tag. Whether in order
  is `OrderedMq`: the code asks for `PSM2_MQ_ORDERMASK_NONE` (206), and only the
  ordering property needs it.
- **NCCL.** It accepts a listener once, closes what it holds once, uses a handle for
  at most one successful connect, tests requests it was given, and, where a
  constant says so, accepts before closing and drains before closing. The calls of
  a process do not overlap, except in `CommStepsOverlap`. It may call init again; the
  environment variables of a process do not change.
- **Memory.** In `CommSteps` an increment or decrement is one step, as in an x86 build.

## 5. Proofs

### Communicators and endpoints

`SharedEpProofs` proves, for any finite set of communicators and any sets of ranks,
endpoints and devices and any `TAG_MAX`, from `ConstAssumption` alone:

`TypeCorrect`, `RefcountIsExact`, `EndpointsOutliveComms`, `NoEndpointLeaks`,
`SharedEpNamesUsersEp`, `OneEndpointEachRank`, `DeviceIsHonoured`,
`HandlesNameOneReceiver`, `ReceiverTagsAreDistinct`, `HeldExactlyWhileLive` (for a
caller that accepts every listener), `ResultsAreLive` and `FailuresLeaveNoTrace`.

They rest on one inductive invariant, `IInv`:

- *Counting.* `RefcountExact` alone is not inductive: a close needs to know that the
  endpoint it closes is the one `shared_ep` names, and that when the count reaches
  zero nobody else is on it. Hence `SharedEpIsUsersEp`, `CommHome` (a communicator
  is on an endpoint of its process), `ModeAgrees` (all communicators are shared, or
  none is) and `PrivateExclusive` (private ones have an endpoint each). The
  cardinality argument (adding or removing one communicator changes the count by
  one, zero means empty) is in a few lemmas on `SharedComms`.
- *Type.* `refcount \in Nat` after a decrement needs `RefcountExact`: the
  communicator that is closed is counted.
- *Devices.* `DeviceHonoured` needs `UnitRemembered`: users of the shared endpoint
  are on the unit that `shared_ep.unit` records.
- *Tags.* `HandleNamesOneReceiver` follows from a stronger fact, `TagInv`: the
  listen a tag belongs to is a function of the rank that owns the epid and of the
  tag (the rank counts both), so it does not matter how often an epid was reused.
- *Ownership.* `HeldLive` and `NoneStranded` are the two directions of `HeldIffLive`.

The induction step has one lemma per group of conjuncts, with a case per action;
the theorems follow by temporal logic from `Spec => []IInv`.

### Requests and messages

`TransferProofs` proves, for any number of communicators, endpoints, slots and calls, of
a caller that closes a communicator only when it has no request left
(`DrainsBeforeClose`): `XferTypeInvariance`, `OpsMeetTheirRequestsInvariance`,
`NoRequestStrandedInvariance`, `UsedIffPendingInvariance`, `RightReceiverInvariance`,
`NthReceiveInvariance` and `SizesAreOfNthSend`. Without the hypothesis they are false,
which the run `TransferUndrained` shows. Besides the assumptions of `SharedEp` and
`TransferAssumption` they use `NoRecordIsNull`: a message and a request are not NULL.

The inductive invariant `XInv` is `IInv` of `SharedEp` and

- `RequestInv`: a slot is in use iff NCCL waits for it, a request not done has an
  operation, an operation has its own request with the same type, number and endpoint,
  and no two operations share a context. The three properties about slots need each
  other: that a free slot may be reused holds because no operation is left for it, which
  holds because a request is put back only when done. It is an operator of the requests,
  the operations and NCCL's set, because `test` changes them twice, by what
  `mq_progress_loop` retires and by `put_req`.
- `LinkInv`, `RoleInv`: one handle or one sender per listen, with the endpoint and tag of
  its receiver while that is there; tags not issued yet are in no handle and no sender.
- `MessageInv`: a message in the fabric carries its link in the endpoint and tag, also
  when both its communicators are gone and the epid was given out again. With `TagInv`
  of `SharedEp` this is why no stranger's receive takes it.
- `OrderInv`, for a queue that matches in order: the receives of a communicator from
  number k on wait for a message and the messages of its link from k on wait for a
  receive, for one k. That gives n-th to n-th, and is kept by a match because the oldest
  on either side is number k.

`TransferChannelProofs` proves from `XInv` that `Transfer` implements `Channel`
(`TransferImplementsChannel`): Listen opens the receiving side of a link and Connect the
sending side, Close closes a side, Isend and Irecv issue a request, PSM2's Match delivers
a message, a Test that says done reports a request, and everything else (accept,
closeListen, every failing call, completions of sends, retiring completions) does not
show. `NullIsNoSide` says that NULL is not an end of a link.

### Calls are atomic

`CommStepsProofs` proves `CallsAreOneStep`: when the calls of a process do not overlap
(`Serialised`), `CommSteps` implements `SharedEp`. It is what entitles `SharedEp`,
`Transfer` and `Plugin` to take a call as one step. `CommStepsOverlap` shows that the
hypothesis is needed. The inductive invariant `StepsInv` says

- that a rank in no call owns exactly what was seen when its last call returned
  (`IdleInv`), and at most one thread of it is in a call (`OneCallInv`);
- for a thread in a call, label by label, how far its rank is from what was seen
  (`CallOK`): nothing yet (`Starting`), an endpoint open but not counted (`Uncounted`,
  with `Stored` for a `shared_ep` half written), attached (`Attached`), a failed call
  half-way through `psm2comm_fini` (`BailingOut`) or with no endpoint (`Refused`), and a
  close half-way (`Closing`); `InFini` is common to the last three;
- that what was seen satisfies `IInv`. `Seen` is `SharedEpProofs` instantiated with the
  history variable, so that its lemmas need no second proof: the last step of a call is a
  step of `SharedEp` on `seen`, and `NextKeepsIInv` carries the invariant over it.

From `StepsInv` also follow `StepsTypeCorrect`, `HeldEndpointsStayOpen` (an endpoint in use
is not closed at any label of anybody's call) and `HandlesNameOneSeenReceiver`.
`NoFrameIsNull` says that a frame is not NULL.

### Configuration

`PluginInitProofs` proves, for any set of values of the environment variables allowed
by `TokensAssumption` and any sequence of calls, `PluginTypeCorrect`,
`ConfigurationFollowsEnvironment` and `GpuPointersAreSafe`. A call that fails keeps
what it had stored, so the properties are not inductive: `DefaultsKept` says that a
setting the environment is silent about still has its initializer, and
`GdrNeedsPsm2` carries the GPUDirect decision from init to `ptrSupport`. The lemmas
on `FlagRead`, `PolicyRead` and `LevelRead` go through the possible texts of a
variable one by one.

`PluginProofs` adds the communicators. `ReadyInv` says that once an init has succeeded
every variable is one that init accepts, so that a later call gets to the end of its
assignments and stores the same settings again, though it may then fail. Hence
`CommunicatorsRunAsConfigured`: a call on communicators reads the settings the user asked
for, and a call of init does not show in the communicators, so the process implements
`SharedEp` under one configuration. `CommunicatorsInvariance` then holds the invariant of
`SharedEpProofs` for the whole process, and `DevicesAreAsAsked` draws from it what
follows for a user. `ProcessAssumption` and `NullIsNothing` are `ConstAssumption` for one
process.

### Device properties

`DevicePropsProofs` proves, for any set of devices, `MAX_DEV`, set of strings and
width of a guid word (`Base`): `PropsTypeCorrect`, `HeapIsKept`, `GuidsDiffer` and
`FieldsAreSet`. `HeapIsKept` is about structs of any contents and says that the heap is
right until something is freed that was not allocated, which the run
`DevicePropsUninitialized` shows does happen. The invariant `PropsInv` adds to the
properties that a guid NCCL has is the one made of the words in sysfs (`GuidInv`);
`NamedIsInstalled` gets from the return codes that only an installed device is written
to. Guids differ because a number has one sequence of digits in a base, which is proved
for four digits from one.

### Only model-checked

The two liveness properties, `CompletionReported` and `FullSenderRecovers`: liveness under
fairness is out of reach of the prover. Every other property of a run that passes is a
theorem. What the theorems do not cover is the environment of section 4.

## 6. Not modelled

Message contents and `s.error_code`, of which the repository does not say what test
should make; GPU memory and the memory handles (no-ops); grouped receives (`n > 1`,
which the code only asserts against); the text of sysfs files and of log messages, and
the log function; `HFI_UNIT`, which causes a warning; the entries of the function tables
other than getProperties, which are the functions modelled here or wrappers that drop an
argument; a user who changes the plugin's variables between two init calls, which could
switch the mode under an open endpoint; overlapping calls of isend, irecv and test on
threads (`get_req` and `put_req` are unlocked as well); `maxComms`, a hint that may be out
of date when it is used.

## 7. Plan

Done: `SharedEp`, `PluginInit`, `Transfer`, `DeviceProps`, `Channel` with its refinement,
`CommSteps` and `Plugin`, and proofs of all their safety properties and refinements.
Next, in this order:

1. `Channel` proofs: that it delivers a message to one receive at most and, if it is
   ordered, in order, so that `TransferImplementsChannel` carries this over.
2. Theorems about `Transfer` that no run states, such as what a caller that does not
   drain still gets: its messages still reach no stranger.
