------------------------------ MODULE DeviceProps ------------------------------
(***************************************************************************)
(* What the plugin tells NCCL about a device: the getProperties of each    *)
(* version of NCCL's interface (pciPath in version 2), and the sysfs       *)
(* reader below it: where a call stops, which strings it allocates, frees  *)
(* and hands over, and which fields of NCCL's struct it sets.              *)
(*                                                                         *)
(* The struct psm2_nccl_getProperties fills is not initialized: the        *)
(* wrappers have it on their stack, and version 8 gets NCCL's own.  A call *)
(* may so free an address it did not allocate, after which anything may    *)
(* happen: the model stops there.  NCCL keeps the strings of a successful  *)
(* getProperties, and never frees them; it frees the path it got from      *)
(* pciPath.                                                                *)
(***************************************************************************)
EXTENDS Integers, FiniteSets

CONSTANTS
  Block,       \* addresses malloc can return
  NULL, Junk,  \* no address; an address malloc did not return
  MAX_DEV,     \* the largest device number accepted
  Hfi,         \* numbers of the devices installed
  Word         \* values of the four 16-bit words of a node_guid

ASSUME DevicePropsAssumption ==
  /\ MAX_DEV \in Nat
  /\ Hfi \subseteq Nat
  /\ NULL \notin Block /\ Junk \notin Block /\ NULL # Junk
  /\ NULL \notin Nat
  /\ IsFiniteSet(Word) /\ Word = 0 .. Cardinality(Word) - 1

\* The interfaces NCCL may load: one of the tables ncclNetPlugin_vX.
Interface == {"v2", "v3", "v4", "v5", "v6", "v7", "v8"}

\* The property struct each interface is declared with.  Version 2 has none, and asks for
\* the path and the pointer types one by one.
Struct(i) == CASE i = "v3" -> "v4" [] i = "v5" -> "v6" [] OTHER -> i

\* The fields of ncclNetProperties_vX_t.
Fields(struct) ==
  {"name", "pciPath", "guid", "ptrSupport", "speed", "port", "maxComms"}
  \cup (IF struct \in {"v6", "v7", "v8"} THEN {"latency", "maxRecvs"} ELSE {})
  \cup (IF struct \in {"v7", "v8"} THEN {"netDeviceType", "netDeviceVersion"} ELSE {})
  \cup (IF struct = "v8" THEN {"regIsGlobal"} ELSE {})

\* Faulty: the entry of version 5 is that of version 4.
Filler_v5AsV4(i) == CASE i = "v3" -> "v4" [] i = "v5" -> "v4" [] OTHER -> i

\* The getProperties each table points to, by the struct it fills.
Filler(i) ==
  CASE i \in {"v3", "v4"} -> "v4" [] i \in {"v5", "v6"} -> "v6" [] OTHER -> i

VARIABLES
  interface,  \* NCCL: the table it loaded
  heap,       \* blocks allocated and not freed
  kept,       \* strings NCCL was given and has not freed
  toFree,     \* those of them that it will free
  badFree,    \* has an address been freed that was not allocated
  node_guid,  \* sysfs: the node_guid of each device, as four words
  guid,       \* NCCL: the guid it was given for a device, or NULL
  last        \* result of the last getProperties, and the fields it set

vars == <<interface, heap, kept, toFree, badFree, node_guid, guid, last>>

\* A word of the model has Base values; in the code, 2^16.
Base == Cardinality(Word)

\* Faulty: the third word is shifted over the second.
GuidStrToU64_Overlap(w) == w[1] * Base * Base * Base + w[2] * Base + w[3] * Base + w[4]

\* Faulty: it returns before it stores the result.
GuidStrToU64_NotStored(w) == Junk

\* guid_str_to_u64: four words, most significant first.
GuidStrToU64(w) == w[1] * Base * Base * Base + w[2] * Base * Base + w[3] * Base + w[4]

\* The device numbers NCCL may pass, good or bad.
Asked == -1 .. MAX_DEV + 1

PropsTypeOK ==
  /\ interface \in Interface
  /\ heap \in SUBSET Block /\ kept \in SUBSET Block /\ toFree \in SUBSET kept
  /\ badFree \in BOOLEAN
  /\ node_guid \in [Hfi -> Word \X Word \X Word \X Word]
  /\ guid \in [Hfi -> 0 .. Base * Base * Base * Base - 1 \cup {NULL}]
  /\ last \in [set : SUBSET Fields("v8"),
               ret : {"ncclSuccess", "ncclInternalError", "ncclInvalidArgument"}]

Init ==
  /\ interface \in Interface
  /\ heap = {} /\ kept = {} /\ toFree = {}
  /\ badFree = FALSE
  /\ node_guid \in [Hfi -> Word \X Word \X Word \X Word]
  /\ guid = [d \in Hfi |-> NULL]
  /\ last = [set |-> {}, ret |-> "ncclSuccess"]

\* What the memory of a struct may hold before the call: anything, a pointer of an
\* earlier call included.
Uninitialized == {NULL, Junk} \cup kept

\* The fields each getProperties sets or copies when it succeeds.
Copied(filler) ==
  LET common == {"name", "pciPath", "guid", "ptrSupport", "speed", "port", "maxComms"}
      grouped == common \cup {"latency", "maxRecvs"}
      offload == grouped \cup {"netDeviceType", "netDeviceVersion"}
  IN CASE filler = "v4" -> common
       [] filler = "v6" -> grouped
       [] filler = "v7" -> offload
       [] filler = "v8" -> offload \cup {"regIsGlobal"}

\* The check of the device number in psm2_nccl_getProperties.
OutOfRange(dev) == dev < 0 \/ dev > MAX_DEV

-------------------------------------------------------------------------------
(* The sysfs reader.                                                       *)

\* What reading an attribute of a device may meet: no file (of a device that is not
\* installed, too), a failed read, nothing in it, more than the buffer takes, text of
\* another form, or what is expected.
Attr == {"absent", "error", "empty", "long", "other", "expected"}
AttrOf(dev) == IF dev \in Hfi THEN Attr ELSE {"absent"}

\* What the link to its PCI device may be.
Link == {"absent", "dangling", "resolved"}
LinkOf(dev) == IF dev \in Hfi THEN Link ELSE {"absent"}

\* hfi_sysclass_rd: negative if it fails, else the length read.
Rd(attr) == CASE attr = "absent" -> -2 [] attr \in {"error", "long"} -> -3
              [] attr = "empty" -> 0 [] OTHER -> 1

\* hfi_sysclass_get_devname; where nomem is whether malloc fails.
DevnameRc(uevent, nomem) ==
  IF Rd(uevent) < 0 THEN -1 ELSE IF uevent # "expected" THEN -2
  ELSE IF nomem THEN -3 ELSE 1

\* hfi_sysclass_get_pciPath; what it allocated is freed again if the link is dangling.
PciPathRc(link, nomem) ==
  CASE link = "absent" -> -2 [] nomem -> -3 [] link = "dangling" -> -4 [] OTHER -> 1

\* psm2_nccl_getProperties on what hfi_sysclass_rd returns for node_guid: it is there,
\* and guid_str_to_u64 finds four words in it.
GuidRead(attr) == Rd(attr) > 0 /\ attr = "expected"

-------------------------------------------------------------------------------
(* getProperties and pciPath.                                              *)

\* Faulty: the bail-out path frees the name only.
Freed_NameOnly(name, path) == {name} \ {NULL}

\* The bail-out path frees name and pciPath, whichever is not NULL.
Freed(name, path) == {name, path} \ {NULL}

Asks(dev) == interface # "v2" /\ ~badFree /\ dev \in Asked

\* psm2_nccl_getProperties fails with name and path in the struct, having allocated
\* the blocks new; freeing anything else is undefined behaviour.
Bail(new, name, path) ==
  /\ last' = [set |-> {}, ret |-> "ncclInternalError"]
  /\ heap' = (heap \cup new) \ Freed(name, path)
  /\ badFree' = ~ (Freed(name, path) \subseteq new)
  /\ UNCHANGED <<interface, kept, toFree, node_guid, guid>>

\* A device number out of range is refused before anything is touched.
BadDevice(dev) ==
  /\ Asks(dev)
  /\ OutOfRange(dev)
  /\ last' = [set |-> {}, ret |-> "ncclInvalidArgument"]
  /\ UNCHANGED <<interface, heap, kept, toFree, badFree, node_guid, guid>>

\* How far getProperties got: the number is in range; the name was read; so was the path.
Accepted(dev) == Asks(dev) /\ ~OutOfRange(dev)
HasName(dev)  == \E uevent \in AttrOf(dev) : DevnameRc(uevent, FALSE) > 0
HasPath(dev)  == \E link \in LinkOf(dev) : PciPathRc(link, FALSE) > 0
Named(dev)    == Accepted(dev) /\ HasName(dev)
Located(dev)  == Named(dev) /\ HasPath(dev)

\* No name: it is NULL then, but pciPath has not been set yet.
NoDevname(dev, uevent, nomem) ==
  /\ Accepted(dev)
  /\ DevnameRc(uevent, nomem) <= 0
  /\ \E path \in Uninitialized : Bail({}, NULL, path)

\* hfi_sysclass_get_pciPath fails, and leaves NULL.
NoPciPath(dev, link, nomem, name) ==
  /\ Named(dev)
  /\ PciPathRc(link, nomem) <= 0
  /\ name \notin heap
  /\ Bail({name}, name, NULL)

NewStrings(name, path) == {name, path} \cap heap = {} /\ name # path

\* node_guid is not readable or not a guid, or PSM2 cannot count its free contexts.
NoGuidOrContexts(dev, attr, psmrc, name, path) ==
  /\ Located(dev)
  /\ GuidRead(attr) => psmrc # "PSM2_OK"
  /\ NewStrings(name, path)
  /\ Bail({name, path}, name, path)

\* Everything was read, and PSM2 counted the free contexts.
GetProperties(dev, attr, name, path) ==
  /\ Located(dev)
  /\ GuidRead(attr)
  /\ NewStrings(name, path)
  /\ heap' = heap \cup {name, path}
  /\ kept' = kept \cup {name, path}
  /\ guid' = [guid EXCEPT ![dev] = GuidStrToU64(node_guid[dev])]
  /\ last' = [ret |-> "ncclSuccess", set |-> Copied(Filler(interface))]
  /\ UNCHANGED <<interface, toFree, badFree, node_guid>>

\* psm2_nccl_pciPath_v2 when it succeeds, and NCCL's free of the path.
PciPath(dev, path) ==
  /\ interface = "v2" /\ ~badFree
  /\ HasPath(dev)
  /\ path \notin heap
  /\ heap' = heap \cup {path}
  /\ kept' = kept \cup {path}
  /\ toFree' = toFree \cup {path}
  /\ UNCHANGED <<interface, badFree, node_guid, guid, last>>

NcclFrees(path) ==
  /\ path \in toFree /\ ~badFree
  /\ heap' = heap \ {path}
  /\ kept' = kept \ {path}
  /\ toFree' = toFree \ {path}
  /\ UNCHANGED <<interface, badFree, node_guid, guid, last>>

Next ==
  \/ \E dev \in Asked :
       \/ BadDevice(dev)
       \/ \E uevent \in AttrOf(dev), nomem \in BOOLEAN : NoDevname(dev, uevent, nomem)
       \/ \E name \in Block, link \in LinkOf(dev), nomem \in BOOLEAN :
            NoPciPath(dev, link, nomem, name)
       \/ \E name, path \in Block, attr \in AttrOf(dev) :
            \/ \E psmrc \in {"PSM2_OK", "PSM2_ERROR"} :
                 NoGuidOrContexts(dev, attr, psmrc, name, path)
            \/ GetProperties(dev, attr, name, path)
       \/ \E path \in Block : PciPath(dev, path)
  \/ \E path \in toFree : NcclFrees(path)

Spec == Init /\ [][Next]_vars

-------------------------------------------------------------------------------
(* Properties.                                                             *)

\* After a failed read the contents of name and pciPath are undefined
\* (hfi_sysclass.h): a call frees only what it allocated.
FreesOnlyItsOwn == ~badFree

\* Until a call frees an address it did not allocate, a string is allocated exactly
\* while NCCL has it, in structs with any contents: no failing call leaks one, and none
\* that was handed over is freed by a later failure.
HeapIsWhatNcclKeeps == FreesOnlyItsOwn => heap = kept

\* NCCL tells two NICs apart by their guid, however the words of node_guid combine.
GuidsTellDevicesApart ==
  \A d1, d2 \in Hfi :
    guid[d1] # NULL /\ guid[d1] = guid[d2] => node_guid[d1] = node_guid[d2]

\* No field of the struct an interface is declared with is left unset by a call that
\* succeeds: table, wrapper and struct agree for every version of NCCL.
EveryFieldSet ==
  last.ret = "ncclSuccess" /\ last.set # {} => last.set = Fields(Struct(interface))
===============================================================================
