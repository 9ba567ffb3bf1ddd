--------------------------- MODULE DevicePropsProofs ---------------------------
(***************************************************************************)
(* Proofs about DeviceProps, for any number of devices, any limit on their *)
(* numbers, any width of the words of a guid and any number of strings.    *)
(***************************************************************************)
EXTENDS DeviceProps, FiniteSetTheorems, TLAPS

\* A guid that NCCL has is the one made of the words in sysfs.
GuidInv == \A d \in Hfi : guid[d] # NULL => guid[d] = GuidStrToU64(node_guid[d])

PropsInv ==
  /\ PropsTypeOK
  /\ HeapIsWhatNcclKeeps
  /\ GuidInv
  /\ EveryFieldSet

-------------------------------------------------------------------------------
(* Numbers with digits in base B.                                          *)

\* A product with a positive factor grows with the other one.
LEMMA ProductGrows ==
  ASSUME NEW B \in Nat, NEW x \in Nat, NEW y \in Nat, x < y
  PROVE  B * x + B <= B * y
<1>1. PICK k \in Nat : y = x + 1 + k
  <2>1. y - x - 1 \in Nat /\ y = x + 1 + (y - x - 1)
    OBVIOUS
  <2> QED BY <2>1
<1>2. B * y = B * x + B + B * k
  BY <1>1
<1>3. B * k \in Nat
  OBVIOUS
<1> QED BY <1>2, <1>3

\* The last digit of a number and the rest are determined by the number.
LEMMA DigitsUnique ==
  ASSUME NEW B \in Nat, NEW a \in 0 .. B - 1, NEW b \in 0 .. B - 1,
         NEW x \in Nat, NEW y \in Nat, B * x + a = B * y + b
  PROVE  x = y /\ a = b
<1>0. B * x \in Nat /\ B * y \in Nat
  OBVIOUS
<1>1. CASE x < y
  <2>1. B * x + B <= B * y
    BY <1>1, ProductGrows
  <2> QED BY <1>0, <2>1
<1>2. CASE y < x
  <2>1. B * y + B <= B * x
    BY <1>2, ProductGrows
  <2> QED BY <1>0, <2>1
<1>3. CASE x = y
  BY <1>0, <1>3
<1> QED BY <1>1, <1>2, <1>3

\* A number whose rest is less than M and that has one digit more is less than B * M.
LEMMA DigitsBound ==
  ASSUME NEW B \in Nat, NEW M \in Nat, NEW x \in 0 .. M - 1, NEW a \in 0 .. B - 1
  PROVE  B * x + a \in 0 .. B * M - 1
<1>1. B * x \in Nat /\ B * M \in Nat
  OBVIOUS
<1>2. B * x + B <= B * M
  BY ProductGrows
<1> QED BY <1>1, <1>2

\* guid_str_to_u64 reads four digits, most significant first.
LEMMA GuidIsDigits ==
  ASSUME NEW w \in Word \X Word \X Word \X Word
  PROVE  /\ Base \in Nat
         /\ w[1] \in 0 .. Base - 1 /\ w[2] \in 0 .. Base - 1
         /\ w[3] \in 0 .. Base - 1 /\ w[4] \in 0 .. Base - 1
         /\ GuidStrToU64(w) = Base * (Base * (Base * w[1] + w[2]) + w[3]) + w[4]
<1>1. Base \in Nat /\ Word = 0 .. Base - 1
  BY DevicePropsAssumption, FS_CardinalityType DEF Base
<1> HIDE DEF Base
<1>2. /\ w[1] \in 0 .. Base - 1 /\ w[2] \in 0 .. Base - 1
      /\ w[3] \in 0 .. Base - 1 /\ w[4] \in 0 .. Base - 1
  BY <1>1
<1>3. GuidStrToU64(w) = Base * (Base * (Base * w[1] + w[2]) + w[3]) + w[4]
  BY <1>1, <1>2 DEF GuidStrToU64
<1> QED BY <1>1, <1>2, <1>3

\* Two devices with one guid have the same words in node_guid.
LEMMA GuidInjective ==
  ASSUME NEW v \in Word \X Word \X Word \X Word, NEW w \in Word \X Word \X Word \X Word,
         GuidStrToU64(v) = GuidStrToU64(w)
  PROVE  v = w
<1> DEFINE v2 == Base * v[1] + v[2]
           w2 == Base * w[1] + w[2]
           v3 == Base * v2 + v[3]
           w3 == Base * w2 + w[3]
<1>1. /\ Base \in Nat
      /\ v[1] \in 0 .. Base - 1 /\ v[2] \in 0 .. Base - 1
      /\ v[3] \in 0 .. Base - 1 /\ v[4] \in 0 .. Base - 1
      /\ w[1] \in 0 .. Base - 1 /\ w[2] \in 0 .. Base - 1
      /\ w[3] \in 0 .. Base - 1 /\ w[4] \in 0 .. Base - 1
      /\ Base * v3 + v[4] = Base * w3 + w[4]
  BY GuidIsDigits
<1> HIDE DEF Base
<1>2. v2 \in Nat /\ w2 \in Nat
  BY <1>1
<1> HIDE DEF v2, w2
<1>3. v3 \in Nat /\ w3 \in Nat
  BY <1>1, <1>2
<1> HIDE DEF v3, w3
<1>4. v3 = w3 /\ v[4] = w[4]
  BY <1>1, <1>3, DigitsUnique
<1>5. v2 = w2 /\ v[3] = w[3]
  <2>1. Base * v2 + v[3] = Base * w2 + w[3]
    BY <1>4 DEF v3, w3
  <2> QED BY <1>1, <1>2, <2>1, DigitsUnique
<1>6. v[1] = w[1] /\ v[2] = w[2]
  <2>1. Base * v[1] + v[2] = Base * w[1] + w[2]
    BY <1>5 DEF v2, w2
  <2> DEFINE x == v[1]
             y == w[1]
             a == v[2]
             b == w[2]
  <2>2. /\ x \in Nat /\ y \in Nat /\ a \in 0 .. Base - 1 /\ b \in 0 .. Base - 1
        /\ Base \in Nat /\ Base * x + a = Base * y + b
    BY <1>1, <2>1
  <2> HIDE DEF x, y, a, b
  <2>3. x = y /\ a = b
    BY <2>2, DigitsUnique
  <2> QED BY <2>3 DEF x, y, a, b
<1>7. v = <<v[1], v[2], v[3], v[4]>> /\ w = <<w[1], w[2], w[3], w[4]>>
  OBVIOUS
<1> QED BY <1>4, <1>5, <1>6, <1>7

\* A guid fits in four words.
LEMMA GuidBound ==
  ASSUME NEW w \in Word \X Word \X Word \X Word
  PROVE  GuidStrToU64(w) \in 0 .. Base * Base * Base * Base - 1
<1> DEFINE w2 == Base * w[1] + w[2]
           w3 == Base * w2 + w[3]
<1>1. /\ Base \in Nat
      /\ w[1] \in 0 .. Base - 1 /\ w[2] \in 0 .. Base - 1
      /\ w[3] \in 0 .. Base - 1 /\ w[4] \in 0 .. Base - 1
      /\ GuidStrToU64(w) = Base * w3 + w[4]
  BY GuidIsDigits
<1> HIDE DEF Base
<1>2. Base * Base \in Nat /\ Base * (Base * Base) \in Nat
  BY <1>1
<1>3. w2 \in 0 .. Base * Base - 1
  BY <1>1, DigitsBound
<1> HIDE DEF w2
<1>4. w3 \in 0 .. Base * (Base * Base) - 1
  BY <1>1, <1>2, <1>3, DigitsBound
<1> HIDE DEF w3
<1>5. Base * w3 + w[4] \in 0 .. Base * (Base * (Base * Base)) - 1
  BY <1>1, <1>2, <1>4, DigitsBound
<1>6. Base * (Base * (Base * Base)) = Base * Base * Base * Base
  BY <1>1
<1> QED BY <1>1, <1>5, <1>6

-------------------------------------------------------------------------------
(* The steps.                                                              *)

\* A wrapper sets every field of the struct its table is declared with.
LEMMA CopiedIsFields ==
  ASSUME NEW i \in Interface \ {"v2"}
  PROVE  /\ Copied(Filler(i)) = Fields(Struct(i))
         /\ Copied(Filler(i)) \subseteq Fields("v8")
<1>1. CASE i \in {"v3", "v4"}
  BY <1>1 DEF Copied, Filler, Fields, Struct
<1>2. CASE i \in {"v5", "v6"}
  BY <1>2 DEF Copied, Filler, Fields, Struct
<1>3. CASE i \in {"v7", "v8"}
  BY <1>3 DEF Copied, Filler, Fields, Struct
<1> QED BY <1>1, <1>2, <1>3 DEF Interface

\* The name of a device can be read only if it is installed.
LEMMA NamedIsInstalled ==
  ASSUME NEW dev \in Asked, Named(dev)
  PROVE  dev \in Hfi
BY DEF Named, HasName, AttrOf, DevnameRc, Rd

\* The initial states.
LEMMA InitPropsInv ==
  ASSUME Init
  PROVE  PropsInv
<1>1. PropsTypeOK
  BY DEF Init, PropsTypeOK
<1>2. HeapIsWhatNcclKeeps /\ GuidInv /\ EveryFieldSet
  BY DEF Init, HeapIsWhatNcclKeeps, GuidInv, EveryFieldSet
<1> QED BY <1>1, <1>2 DEF PropsInv

\* A call that fails frees the strings it allocated and nothing else, unless it met
\* a path that nobody had set.
LEMMA BailKeepsPropsInv ==
  ASSUME PropsInv, NEW new \in SUBSET Block, NEW name, NEW path, ~badFree,
         new \cap heap = {}, new \subseteq {name, path}, Bail(new, name, path)
  PROVE  PropsInv'
<1>1. /\ UNCHANGED <<interface, kept, toFree, node_guid, guid>>
      /\ last' = [set |-> {}, ret |-> "ncclInternalError"]
  BY DEF Bail
<1>2. heap' \in SUBSET Block /\ badFree' \in BOOLEAN
  BY DEF Bail, PropsInv, PropsTypeOK
<1>3. PropsTypeOK'
  BY <1>1, <1>2 DEF PropsInv, PropsTypeOK
<1>4. HeapIsWhatNcclKeeps'
  <2>1. NULL \notin Block /\ heap = kept
    BY DevicePropsAssumption DEF PropsInv, HeapIsWhatNcclKeeps, FreesOnlyItsOwn
  <2>2. ~badFree' => heap' = heap
    BY <2>1 DEF Bail, Freed
  <2> QED BY <1>1, <2>1, <2>2 DEF HeapIsWhatNcclKeeps, FreesOnlyItsOwn
<1>5. EveryFieldSet' /\ GuidInv'
  BY <1>1 DEF PropsInv, EveryFieldSet, GuidInv
<1> QED BY <1>3, <1>4, <1>5 DEF PropsInv

\* Every step keeps the invariant.
LEMMA NextPropsInv ==
  ASSUME PropsInv, [Next]_vars
  PROVE  PropsInv'
<1> USE DEF PropsInv
<1>1. ASSUME NEW dev \in Asked, BadDevice(dev)
      PROVE  PropsInv'
  BY <1>1 DEF BadDevice, PropsTypeOK, HeapIsWhatNcclKeeps, FreesOnlyItsOwn, GuidInv, EveryFieldSet
<1>2. ASSUME NEW dev \in Asked, NEW uevent, NEW nomem, NoDevname(dev, uevent, nomem)
      PROVE  PropsInv'
  <2>1. PICK path \in Uninitialized : Bail({}, NULL, path)
    BY <1>2 DEF NoDevname
  <2>2. ~badFree
    BY <1>2 DEF NoDevname, Accepted, Asks
  <2> QED BY <2>1, <2>2, BailKeepsPropsInv
<1>3. ASSUME NEW dev \in Asked, NEW link, NEW nomem, NEW name \in Block,
             NoPciPath(dev, link, nomem, name)
      PROVE  PropsInv'
  <2>1. ~badFree /\ {name} \cap heap = {} /\ Bail({name}, name, NULL)
    BY <1>3 DEF NoPciPath, Named, Accepted, Asks
  <2> QED BY <2>1, BailKeepsPropsInv
<1>4. ASSUME NEW dev \in Asked, NEW attr, NEW psmrc, NEW name \in Block, NEW path \in Block,
             NoGuidOrContexts(dev, attr, psmrc, name, path)
      PROVE  PropsInv'
  <2>1. /\ ~badFree /\ {name, path} \cap heap = {}
        /\ Bail({name, path}, name, path)
    BY <1>4 DEF NoGuidOrContexts, Located, Named, Accepted, Asks, NewStrings
  <2> QED BY <2>1, BailKeepsPropsInv
<1>5. ASSUME NEW dev \in Asked, NEW attr, NEW name \in Block, NEW path \in Block,
             GetProperties(dev, attr, name, path)
      PROVE  PropsInv'
  <2>1. /\ Named(dev) /\ interface \in Interface \ {"v2"} /\ ~badFree
        /\ UNCHANGED <<interface, toFree, badFree, node_guid>>
        /\ heap' = heap \cup {name, path} /\ kept' = kept \cup {name, path}
        /\ guid' = [guid EXCEPT ![dev] = GuidStrToU64(node_guid[dev])]
        /\ last' = [ret |-> "ncclSuccess", set |-> Copied(Filler(interface))]
    BY <1>5 DEF GetProperties, Located, Named, Accepted, Asks, PropsTypeOK
  <2>2. dev \in Hfi
    BY <2>1, NamedIsInstalled
  <2>3. /\ last'.ret = "ncclSuccess"
        /\ last'.set = Fields(Struct(interface))
        /\ last' \in [set : SUBSET Fields("v8"),
                      ret : {"ncclSuccess", "ncclInternalError", "ncclInvalidArgument"}]
    BY <2>1, CopiedIsFields
  <2>4. GuidStrToU64(node_guid[dev]) \in 0 .. Base * Base * Base * Base - 1
    BY <2>2, GuidBound DEF PropsTypeOK
  <2>5. guid' \in [Hfi -> 0 .. Base * Base * Base * Base - 1 \cup {NULL}]
    BY <2>1, <2>2, <2>4 DEF PropsTypeOK
  <2>6. PropsTypeOK'
    BY <2>1, <2>3, <2>5 DEF PropsTypeOK
  <2>7. GuidInv'
    BY <2>1, <2>2 DEF GuidInv, PropsTypeOK
  <2>8. HeapIsWhatNcclKeeps' /\ EveryFieldSet'
    BY <2>1, <2>3 DEF HeapIsWhatNcclKeeps, FreesOnlyItsOwn, EveryFieldSet
  <2> QED BY <2>6, <2>7, <2>8
<1>6. ASSUME NEW dev, NEW path \in Block, PciPath(dev, path)
      PROVE  PropsInv'
  BY <1>6 DEF PciPath, PropsTypeOK, HeapIsWhatNcclKeeps, FreesOnlyItsOwn, GuidInv, EveryFieldSet
<1>7. ASSUME NEW path \in toFree, NcclFrees(path)
      PROVE  PropsInv'
  BY <1>7 DEF NcclFrees, PropsTypeOK, HeapIsWhatNcclKeeps, FreesOnlyItsOwn, GuidInv, EveryFieldSet
<1>8. CASE UNCHANGED vars
  BY <1>8 DEF vars, PropsTypeOK, HeapIsWhatNcclKeeps, FreesOnlyItsOwn, GuidInv, EveryFieldSet
<1> QED
  BY <1>1, <1>2, <1>3, <1>4, <1>5, <1>6, <1>7, <1>8 DEF Next

-------------------------------------------------------------------------------
(* What the invariant gives.                                               *)

\* PropsInv holds in every reachable state, whatever the memory of callers holds.
THEOREM PropsInvariance == Spec => []PropsInv
<1> QED BY InitPropsInv, NextPropsInv, PTL DEF Spec

\* What NCCL keeps and was told is well formed; a guid fits in four words.
THEOREM PropsTypeCorrect == Spec => []PropsTypeOK
<1>1. PropsInv => PropsTypeOK
  BY DEF PropsInv
<1> QED BY <1>1, PropsInvariance, PTL

\* While nothing was freed that was not allocated, no path of getProperties leaks a
\* string or takes one from NCCL, whatever the memory of its callers holds.
THEOREM HeapIsKept == Spec => []HeapIsWhatNcclKeeps
<1>1. PropsInv => HeapIsWhatNcclKeeps
  BY DEF PropsInv
<1> QED BY <1>1, PropsInvariance, PTL

\* guid_str_to_u64 merges no two devices, whatever the width of a word.
THEOREM GuidsDiffer == Spec => []GuidsTellDevicesApart
<1>1. PropsInv => GuidsTellDevicesApart
  BY GuidInjective DEF PropsInv, PropsTypeOK, GuidInv, GuidsTellDevicesApart
<1> QED BY <1>1, PropsInvariance, PTL

\* A getProperties that succeeds sets every field of the struct of its version.
THEOREM FieldsAreSet == Spec => []EveryFieldSet
<1>1. PropsInv => EveryFieldSet
  BY DEF PropsInv
<1> QED BY <1>1, PropsInvariance, PTL
================================================================================
