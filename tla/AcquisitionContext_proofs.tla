--------------------- MODULE AcquisitionContext_proofs ---------------------
(***************************************************************************)
(* The acquisition of the memory map in its two contexts: the firmware     *)
(* that answers it (module ConformingFirmware) and efi_main, which calls   *)
(* it and prints what it found (module EfiMain).  Both only add to         *)
(* acquire_map, so that loop's invariant carries over to both.             *)
(***************************************************************************)
EXTENDS ConformingFirmware, EfiMain, MapAcquisition_proofs

-----------------------------------------------------------------------------
(* The firmware: two descriptors of slack are enough, whatever the limits, *)
(* the size of the map and its descriptors.                                *)

\* A map's size in bytes is a natural number.
LEMMA ProductType == \A n, s \in Nat : n * s \in Nat
  OBVIOUS

\* Adding at most two descriptors to a map adds at most two strides.
LEMMA SplitBytes ==
    ASSUME NEW n \in Nat, NEW m \in Nat, NEW s \in Nat, m <= n + 2
    PROVE  m * s <= n * s + 2 * s
<1>1. m * s <= (n + 2) * s
  OBVIOUS
<1>. QED  BY <1>1

\* Merging descriptors does not make a map longer.
LEMMA MergeBytes ==
    ASSUME NEW n \in Nat, NEW m \in Nat, NEW s \in Nat, m <= n
    PROVE  m * s <= n * s
  OBVIOUS

FTypeOK == described \in Nat \ {0} /\ fstride \in Nat /\ MapBytes \in Nat

\* The first answer may ask for more; the second buffer then has room for
\* all of that and two descriptors more.
RoomInv ==
    /\ attempts <= 2
    /\ pc = "AllocatePool" => attempts <= 1
    /\ pc = "AllocatePool" /\ attempts = 1 => MapBytes + 2 * fstride <= cap
    /\ pc = "GetMemoryMap" /\ attempts = 2 => MapBytes <= cap
    /\ pc = "classify" => answer.size = MapBytes /\ answer.stride = fstride
    /\ pc = "classify" /\ attempts = 2 => answer.status = "EFI_SUCCESS"
    /\ pc = "FreePool_retry" =>
         /\ attempts = 1
         /\ growth.grow = Observed => growth.next = MapBytes + 2 * fstride

FInv == IInv /\ FTypeOK /\ RoomInv

\* A capacity that is offered is what was asked for and the slack.
LEMMA OfferedCapacity ==
    ASSUME NEW capacity \in Nat, NEW required \in Nat, NEW stride \in Nat,
           map_next_capacity(capacity, required, stride).grow = Observed
    PROVE  map_next_capacity(capacity, required, stride).next
             = required + 2 * stride
  BY DEF map_next_capacity, Refuse, Observed, map_state, Slack

\* The invariant holds before the first allocation.
LEMMA FirmwareInit == FInit => FInv
<1> SUFFICES ASSUME FInit PROVE FInv
  OBVIOUS
<1>1. IInv
  BY InitInv DEF FInit
<1>2. FTypeOK
  BY FirmwareAssumption, MapConstantsAssumption DEF FInit, FTypeOK, MapBytes
<1>3. RoomInv
  BY DEF FInit, Init, RoomInv
<1>. QED  BY <1>1, <1>2, <1>3 DEF FInv

\* Every step of the probe and of the firmware keeps the invariant of
\* acquire_map and the types.
LEMMA FirmwareKeepsIInv == FInv /\ FNext => IInv' /\ FTypeOK'
<1> SUFFICES ASSUME FInv, FNext PROVE IInv' /\ FTypeOK'
  OBVIOUS
<1>1. IInv /\ Observed \in LoopVerdicts /\ EFI_ERROR("EFI_OUT_OF_RESOURCES")
  BY DEF FInv, LoopVerdicts, EFI_ERROR, ErrorStatus
<1>2. {"EFI_SUCCESS", "EFI_BUFFER_TOO_SMALL", "EFI_OUT_OF_RESOURCES"} \subseteq EFI_STATUS
  BY DEF EFI_STATUS, ErrorStatus
<1>3. /\ described' \in Nat \ {0} /\ fstride' = fstride /\ fstride \in Nat
  BY FirmwareAssumption
  DEF FInv, FTypeOK, FNext, FAllocatePool, FGetMemoryMap, FFreePool, Probe
<1>4. FTypeOK'
  <2>1. described' * fstride' \in Nat
    BY <1>3, ProductType
  <2>. QED  BY <1>3, <2>1 DEF FTypeOK, MapBytes
<1>5. CASE FAllocatePool
  BY <1>1, <1>2, <1>4, <1>5, AllocatedStep, AllocationFailedStep DEF FAllocatePool
<1>6. CASE FGetMemoryMap
  BY <1>1, <1>2, <1>4, <1>6, GetMemoryMapStep DEF FGetMemoryMap, FInv, FTypeOK
<1>7. CASE FFreePool
  BY <1>1, <1>2, <1>4, <1>7, ReleaseForRetryStep, ReleaseFinalStep DEF FFreePool
<1>8. CASE Probe
  BY <1>1, <1>4, <1>8, ServicesPresentStep, RetryLimitStep, TooSmallStep, AnsweredStep
  DEF Probe
<1>. QED  BY <1>4, <1>5, <1>6, <1>7, <1>8 DEF FNext
\* A map that fitted with its slack fits after one more allocation.
LEMMA AllocateKeepsRoom == FInv /\ FAllocatePool => RoomInv'
<1> SUFFICES ASSUME FInv, FAllocatePool PROVE RoomInv'
  OBVIOUS
<1>1. /\ described \in Nat /\ fstride \in Nat /\ fstride' = fstride
      /\ MapBytes \in Nat /\ cap \in Nat /\ attempts \in Nat
  BY DEF FInv, FTypeOK, FAllocatePool, IInv, TypeOK
<1>2. CASE Allocated /\ described' \in described .. described + MaxSplit
  <2>1. described' \in Nat /\ described' <= described + 2
    BY <1>1, <1>2, FirmwareAssumption
  <2>2. MapBytes' <= MapBytes + 2 * fstride
    BY <1>1, <2>1, SplitBytes DEF MapBytes
  <2>3. MapBytes' \in Nat
    BY <1>1, <2>1, ProductType DEF MapBytes
  <2>4. /\ pc = "AllocatePool" /\ pc' = "GetMemoryMap" /\ cap' = cap
        /\ attempts' = attempts + 1 /\ attempts <= 1
        /\ attempts = 1 => MapBytes + 2 * fstride <= cap
    BY <1>2 DEF Allocated, Attempt, FInv, RoomInv
  <2>. QED  BY <1>1, <2>2, <2>3, <2>4 DEF RoomInv
<1>3. CASE AllocationFailed("EFI_OUT_OF_RESOURCES")
  BY <1>1, <1>3 DEF AllocationFailed, Attempt, FInv, RoomInv
<1>. QED  BY <1>2, <1>3 DEF FAllocatePool

\* The second answer is never BUFFER_TOO_SMALL.
LEMMA AnswerKeepsRoom == FInv /\ FGetMemoryMap => RoomInv'
<1> SUFFICES ASSUME FInv, FGetMemoryMap PROVE RoomInv'
  OBVIOUS
<1>1. /\ pc = "GetMemoryMap" /\ pc' = "classify" /\ attempts' = attempts
      /\ answer'.size = MapBytes /\ answer'.stride = fstride
      /\ answer'.status = IF MapBytes > cap THEN "EFI_BUFFER_TOO_SMALL"
                                             ELSE "EFI_SUCCESS"
      /\ described' = described /\ fstride' = fstride
  BY DEF FGetMemoryMap, GetMemoryMap
<1>2. /\ attempts <= 2
      /\ attempts = 2 => MapBytes <= cap
      /\ attempts \in Nat
      /\ MapBytes \in Nat /\ cap \in Nat
  BY <1>1 DEF FInv, RoomInv, FTypeOK, IInv, TypeOK
<1>3. MapBytes' = MapBytes
  BY <1>1 DEF MapBytes
<1>. QED  BY <1>1, <1>2, <1>3 DEF RoomInv

\* Giving a buffer back leaves the next one its room.
LEMMA FreeKeepsRoom == FInv /\ FFreePool => RoomInv'
<1> SUFFICES ASSUME FInv, FFreePool PROVE RoomInv'
  OBVIOUS
<1>1. /\ described \in Nat /\ described' \in Nat /\ described' <= described
      /\ fstride \in Nat /\ fstride' = fstride
  BY DEF FInv, FTypeOK, FFreePool
<1>2. MapBytes' <= MapBytes /\ MapBytes \in Nat /\ MapBytes' \in Nat
  BY <1>1, MergeBytes, ProductType DEF MapBytes
<1>3. attempts <= 2 /\ attempts' = attempts
  BY DEF FInv, RoomInv, FFreePool, ReleaseForRetry, ReleaseFinal
<1>4. CASE pc' = "done"
  BY <1>3, <1>4 DEF RoomInv
<1>5. CASE pc' # "done"
  <2>1. /\ pc' = "AllocatePool" /\ attempts = 1
        /\ cap' = MapBytes + 2 * fstride
    BY <1>5 DEF FInv, RoomInv, FFreePool, ReleaseForRetry, ReleaseFinal
  <2>2. MapBytes' + 2 * fstride' <= cap'
    <3>1. \A a, b, f \in Nat : b <= a => b + 2 * f <= a + 2 * f
      OBVIOUS
    <3>2. MapBytes' + 2 * fstride <= MapBytes + 2 * fstride
      BY ONLY <1>1, <1>2, <3>1
    <3>. QED  BY ONLY <1>1, <2>1, <3>2
  <2>3. attempts' = 1
    BY <1>3, <2>1
  <2>. QED  BY <2>1, <2>2, <2>3 DEF RoomInv
<1>. QED  BY <1>4, <1>5

\* Classifying an answer offers what was asked for and the slack.
LEMMA ProbeKeepsRoom == FInv /\ Probe => RoomInv'
<1> SUFFICES ASSUME FInv, Probe PROVE RoomInv'
  OBVIOUS
<1>1. /\ described' = described /\ fstride' = fstride /\ MapBytes' = MapBytes
      /\ attempts' = attempts /\ attempts <= 2
  BY DEF FInv, RoomInv, Probe, MapBytes, ServicesPresent, RetryLimit, TooSmall,
         Answered, acquisition
<1>2. CASE ServicesPresent
  BY <1>1, <1>2 DEF ServicesPresent, RoomInv, FInv, IInv, ScopeInv
<1>3. CASE RetryLimit
  BY <1>1, <1>3 DEF RetryLimit, RoomInv
<1>4. CASE TooSmall
  <2>1. /\ pc = "classify" /\ pc' = "FreePool_retry"
        /\ answer.status = "EFI_BUFFER_TOO_SMALL"
        /\ growth' = map_next_capacity(cap, answer.size, answer.stride)
        /\ cap \in Nat /\ answer.size \in Nat /\ answer.stride \in Nat
        /\ attempts \in Attempts
    BY <1>4 DEF TooSmall, AfterAnswer, FInv, IInv, TypeOK, ScopeInv, Held
  <2>2. answer.size = MapBytes /\ answer.stride = fstride /\ attempts # 2
    BY <2>1 DEF FInv, RoomInv
  <2>3. growth'.grow = Observed => growth'.next = MapBytes + 2 * fstride
    BY <2>1, <2>2, OfferedCapacity
  <2>4. attempts = 1
    BY <1>1, <2>1, <2>2 DEF Attempts
  <2>. QED  BY <1>1, <2>1, <2>3, <2>4 DEF RoomInv
<1>5. CASE Answered
  <2>1. pc' = "FreePool_final"
    BY <1>5 DEF Answered, AfterAnswer
  <2>. QED  BY <1>1, <2>1 DEF RoomInv
<1>. QED  BY <1>2, <1>3, <1>4, <1>5 DEF Probe

\* The invariant holds in every state of the probe and such a firmware.
LEMMA FirmwareNext == FInv /\ [FNext]_fvars => FInv'
<1> SUFFICES ASSUME FInv, [FNext]_fvars PROVE FInv'
  OBVIOUS
<1>1. CASE UNCHANGED fvars
  BY <1>1 DEF fvars, vars, acquisition, FInv, FTypeOK, RoomInv, MapBytes, IInv,
     TypeOK, ScopeInv, PoolInv, ReleaseInv, GrowthInv, ReadInv, ReadsStayInBuffer,
     GivenOut
<1>2. CASE FNext
  <2>1. RoomInv'
    BY <1>2, AllocateKeepsRoom, AnswerKeepsRoom, FreeKeepsRoom, ProbeKeepsRoom DEF FNext
  <2>. QED  BY <1>2, <2>1, FirmwareKeepsIInv DEF FInv
<1>. QED  BY <1>1, <1>2

-----------------------------------------------------------------------------
(* The outcome.  Besides the room, the invariant keeps that each answer is *)
(* truthful, so that no check of map_header or map_next_capacity refuses   *)
(* it, except for the limit.                                               *)

Excused == answer.size + 2 * fstride > MAP_LIMIT

OutcomeInv ==
    /\ fstride \in DESCRIPTOR_BYTES .. MAP_LIMIT
    /\ pc = "classify" =>
         /\ answer.version = 1 /\ answer.contents = Observed
         /\ answer.status = IF MapBytes > cap THEN "EFI_BUFFER_TOO_SMALL" ELSE "EFI_SUCCESS"
    /\ pc = "FreePool_retry" =>
         growth.grow = Observed \/ (growth.grow.detail = "size_limit" /\ Excused)
    /\ pc = "FreePool_final" =>
         map.state = "observed" /\ map.stride = fstride /\ map.count = described
    /\ ConformingOutcome

\* A whole number of descriptors is what the header checks ask for.
LEMMA Multiple ==
    ASSUME NEW n \in Nat \ {0}, NEW s \in Nat \ {0}
    PROVE  /\ n * s >= s /\ (n * s) % s = 0 /\ (n * s) \div s = n
<1>1. n * s >= s
  OBVIOUS
<1>2. (n * s) % s = 0
  OBVIOUS
<1>3. (n * s) \div s = n
  OBVIOUS
<1>. QED  BY <1>1, <1>2, <1>3

LEMMA TruthfulHeader ==
    ASSUME NEW n \in Nat \ {0}, NEW s \in DESCRIPTOR_BYTES .. MAP_LIMIT,
           NEW capacity \in 1 .. MAP_LIMIT, n * s <= capacity
    PROVE  map_header(capacity, n * s, s, 1) = Observed
<1>1. s \in Nat \ {0} /\ s >= DESCRIPTOR_BYTES /\ capacity \in Nat
  BY MapConstantsAssumption
<1> DEFINE bytes == n * s
<1>2. bytes \in Nat /\ bytes >= s /\ bytes % s = 0 /\ bytes <= capacity
  BY <1>1, Multiple, ProductType
<1>. HIDE DEF bytes
<1>3. map_header(capacity, bytes, s, 1) = Observed
  BY <1>1, <1>2, MapConstantsAssumption
  DEF map_header, SizeExceedsBuffer, PartialDescriptor
<1>. QED  BY <1>3 DEF bytes

\* A truthful request that is refused exceeds the limit.
LEMMA TruthfulRequest ==
    ASSUME NEW capacity \in Nat, NEW required \in Nat, required > capacity,
           NEW s \in DESCRIPTOR_BYTES .. MAP_LIMIT
    PROVE  \/ map_next_capacity(capacity, required, s).grow = Observed
           \/ /\ map_next_capacity(capacity, required, s).grow.detail = "size_limit"
              /\ required + 2 * s > MAP_LIMIT
<1>1. ~StrideUnfit(s) /\ ~(required <= capacity)
  BY MapConstantsAssumption DEF StrideUnfit
<1>2. CASE ExceedsLimit(required, s)
  <2>1. required + 2 * s > MAP_LIMIT
    BY <1>2, MapConstantsAssumption DEF ExceedsLimit, Slack
  <2>. QED  BY <1>1, <1>2, <2>1 DEF map_next_capacity, Refuse, map_state
<1>3. CASE ~ExceedsLimit(required, s)
  BY <1>1, <1>3 DEF map_next_capacity
<1>. QED  BY <1>2, <1>3

LEMMA OutcomeOfFirmware ==
    ASSUME FInv, OutcomeInv, FAllocatePool \/ FGetMemoryMap \/ FFreePool
    PROVE  OutcomeInv'
<1>1. CASE FAllocatePool
  BY <1>1 DEF FAllocatePool, Allocated, AllocationFailed, Attempt, OutcomeInv,
              ConformingOutcome, map_fail, MapResult, map_state
<1>2. CASE FGetMemoryMap
  BY <1>2 DEF FGetMemoryMap, GetMemoryMap, OutcomeInv, ConformingOutcome, MapBytes
<1>3. CASE FFreePool
  <2>1. /\ fstride' = fstride
        /\ described' \in {described, IF described > 1 THEN described - 1 ELSE 1}
        /\ described \in Nat \ {0} /\ fstride \in DESCRIPTOR_BYTES .. MAP_LIMIT
    BY <1>3 DEF FFreePool, FInv, FTypeOK, OutcomeInv
  <2>2. CASE ReleaseForRetry("EFI_SUCCESS")
    <3>1. CASE growth.grow = Observed
      BY <2>1, <2>2, <3>1 DEF ReleaseForRetry, Released, OutcomeInv, ConformingOutcome
    <3>2. CASE growth.grow # Observed
      <4>1. /\ pc' = "done" /\ map' = MapResult(growth.grow, 0, 0) /\ answer' = answer
            /\ growth.grow.detail = "size_limit" /\ Excused
        BY <2>2, <3>2 DEF ReleaseForRetry, Released, OutcomeInv
      <4>. QED
        BY <2>1, <4>1 DEF OutcomeInv, ConformingOutcome, Excused, MapResult
    <3>. QED  BY <3>1, <3>2
  <2>3. CASE ReleaseFinal("EFI_SUCCESS")
    <3>1. /\ pc' = "done" /\ map' = map
          /\ map.state = "observed" /\ map.stride = fstride /\ map.count = described
      BY <2>3 DEF ReleaseFinal, OutcomeInv
    <3>2. described - described' \in {0, 1}
      <4>1. \A d, e \in Nat \ {0} :
              e = d \/ e = (IF d > 1 THEN d - 1 ELSE 1) => d - e \in {0, 1}
        OBVIOUS
      <4>2. described' \in Nat \ {0}
        BY <2>1
      <4>. QED  BY <2>1, <4>1, <4>2
    <3>. QED  BY <2>1, <3>1, <3>2 DEF OutcomeInv, ConformingOutcome
  <2>. QED  BY <1>3, <2>2, <2>3 DEF FFreePool
<1>. QED  BY <1>1, <1>2, <1>3

\* The probe's own steps; with two attempts it never comes to retry_limit.
LEMMA OutcomeOfProbe ==
    ASSUME MAP_ATTEMPTS >= 2, FInv, OutcomeInv, Probe
    PROVE  OutcomeInv'
<1>1. /\ UNCHANGED <<described, fstride>> /\ described \in Nat \ {0}
      /\ fstride \in DESCRIPTOR_BYTES .. MAP_LIMIT /\ MapBytes \in Nat
      /\ cap \in 1 .. MAP_LIMIT
  BY DEF Probe, FInv, FTypeOK, OutcomeInv, IInv, GrowthInv
<1>2. CASE ServicesPresent
  BY <1>1, <1>2 DEF ServicesPresent, OutcomeInv, ConformingOutcome
<1>3. CASE RetryLimit
  <2>1. attempts = MAP_ATTEMPTS /\ attempts <= 1
    BY <1>3 DEF RetryLimit, MayAttempt, FInv, RoomInv
  <2>. QED  BY <2>1, AcquisitionAssumption
<1>4. CASE TooSmall
  <2>1. /\ pc = "classify" /\ pc' = "FreePool_retry" /\ UNCHANGED <<answer, map>>
        /\ growth' = map_next_capacity(cap, MapBytes, fstride)
        /\ answer.size = MapBytes /\ MapBytes > cap
    BY <1>4 DEF TooSmall, AfterAnswer, FInv, RoomInv, OutcomeInv, acquisition
  <2>2. growth'.grow = Observed \/ (growth'.grow.detail = "size_limit" /\ Excused)
    <3>1. cap \in Nat
      BY <1>1, MapConstantsAssumption
    <3>2. \/ map_next_capacity(cap, MapBytes, fstride).grow = Observed
          \/ /\ map_next_capacity(cap, MapBytes, fstride).grow.detail = "size_limit"
             /\ MapBytes + 2 * fstride > MAP_LIMIT
      BY <1>1, <2>1, <3>1, TruthfulRequest
    <3>3. growth'.grow = map_next_capacity(cap, MapBytes, fstride).grow
      BY <2>1
    <3>4. answer.size = MapBytes
      BY <2>1
    <3>. QED  BY ONLY <3>2, <3>3, <3>4 DEF Excused
  <2>. QED  BY <1>1, <2>1, <2>2 DEF OutcomeInv, ConformingOutcome, Excused
<1>5. CASE Answered
  <2>1. /\ pc = "classify" /\ pc' = "FreePool_final"
        /\ answer.size = MapBytes /\ answer.stride = fstride
        /\ answer.version = 1 /\ answer.contents = Observed
        /\ answer.status = "EFI_SUCCESS" /\ ~(MapBytes > cap)
    BY <1>5 DEF Answered, AfterAnswer, FInv, RoomInv, OutcomeInv
  <2>2. map_header(cap, MapBytes, fstride, 1) = Observed
    BY <1>1, <2>1, TruthfulHeader, MapConstantsAssumption DEF MapBytes
  <2>3. map' = MapResult(Observed, MapBytes \div fstride, fstride)
    BY <1>5, <2>1, <2>2 DEF Answered, ParseMap, EFI_ERROR, ErrorStatus
  <2>4. MapBytes \div fstride = described
    BY <1>1, Multiple, MapConstantsAssumption DEF MapBytes
  <2>. QED
    BY <1>1, <2>1, <2>3, <2>4
    DEF OutcomeInv, ConformingOutcome, MapResult, Observed, map_state
<1>. QED  BY <1>2, <1>3, <1>4, <1>5 DEF Probe

LEMMA OutcomeNext ==
    ASSUME MAP_ATTEMPTS >= 2, FInv, OutcomeInv, [FNext]_fvars
    PROVE  OutcomeInv'
<1>1. CASE UNCHANGED fvars
  BY <1>1 DEF fvars, vars, acquisition, OutcomeInv, ConformingOutcome, Excused, MapBytes
<1>. QED  BY <1>1, OutcomeOfFirmware, OutcomeOfProbe DEF FNext

-----------------------------------------------------------------------------
(* The theorems.                                                           *)

\* With a firmware that keeps the contract, acquire_map allocates at most
\* twice: the slack of two descriptors always suffices.
THEOREM SlackSuffices == FSpec => []OneRetrySuffices
<1>1. FInv => OneRetrySuffices
  BY DEF FInv, RoomInv, OneRetrySuffices
<1>. QED  BY <1>1, FirmwareInit, FirmwareNext, PTL DEF FSpec

\* With such a firmware and at least one retry, the only excuses for a map
\* that is not reported are an allocation that failed and a map that does
\* not fit the limit.
THEOREM OutcomeConforms == ASSUME MAP_ATTEMPTS >= 2 PROVE FSpec => []ConformingOutcome
<1>1. FInit => OutcomeInv
  BY FirmwareAssumption DEF FInit, Init, OutcomeInv, ConformingOutcome
<1>2. OutcomeInv => ConformingOutcome
  BY DEF OutcomeInv
<1>3. FInv /\ OutcomeInv /\ [FNext]_fvars => OutcomeInv'
  BY OutcomeNext
<1>. QED  BY <1>1, <1>2, <1>3, FirmwareInit, FirmwareNext, PTL DEF FSpec

-----------------------------------------------------------------------------
(* efi_main: its output and its return policy, for every buffer size,      *)
(* every limit of the acquisition and every answer of the firmware.  On    *)
(* top of acquire_map's invariant stands how far the output has come.      *)

\* Where efi_main and acquire_map stand together.
StageInv ==
    /\ main = "entry" => pc = "entry"
    /\ main \in {"entry", "map"} => length = 0
    /\ length = 0 => failed = "EFI_SUCCESS" /\ \A t \in Texts : sent[t] = 0
    /\ main = "print" => pc = "done" /\ length # 0 /\ failed = "EFI_SUCCESS"
    /\ main = "returned" =>
         IF length = 0
           THEN pc = "entry" /\ ret \in {"EFI_INVALID_PARAMETER", "EFI_UNSUPPORTED"}
           ELSE pc = "done"

\* How far the output is while it goes on: the rest of the current text is
\* to come, the texts before it are complete, and those after it unsent.
ProgressInv ==
    main = "print" =>
      /\ left # 0 /\ sent[text] + left = TextLength(text)
      /\ text \in {"record", "crlf"} => ~Truncated
      /\ text = "marker" => Truncated
      /\ text # "banner" => Complete("banner")
      /\ text = "crlf" => Complete("record")
      /\ text # "crlf" => sent["crlf"] = 0
      /\ text # "marker" => sent["marker"] = 0
      /\ text \in {"banner", "marker"} => sent["record"] = 0

EInv ==
    /\ IInv /\ EfiTypeOK /\ StageInv /\ ProgressInv
    /\ OutputInOrder /\ ReturnPolicy

-----------------------------------------------------------------------------
(* The lengths of the texts, and one step of print.                        *)

LEMMA TextLengths ==
    ASSUME EfiTypeOK, length # 0
    PROVE  /\ TextLength("banner") = 68 /\ TextLength("marker") = 38
           /\ TextLength("crlf") = 2
           /\ \A t \in Texts : TextLength(t) \in Nat \ {0}
  BY RecordAssumption DEF TextLength, Texts, Truncated, EfiTypeOK

\* The lengths do not change while the record does not.
LEMMA TextLengthsStay ==
    ASSUME UNCHANGED length
    PROVE  Truncated' = Truncated /\ \A t \in Texts : TextLength(t)' = TextLength(t)
  BY DEF TextLength, Texts, Truncated

\* A chunk is not empty, fits print's buffer and never exceeds the text.
LEMMA ChunkFits ==
    ASSUME NEW n \in Nat \ {0}
    PROVE  Chunk(n) \in 1 .. CHUNK /\ Chunk(n) <= n /\ CHUNK = 126
  BY DEF Chunk, CHUNK

\* acquire_map's invariant says which release may have failed.
LEMMA FailedReleaseFollows == IInv => FailedReleaseReported
  BY DEF IInv, TypeOK, PoolInv, ReleaseInv, FailedReleaseReported, Leaked,
         GivenOut, Attempts

-----------------------------------------------------------------------------
(* The invariant.                                                          *)

LEMMA EfiInitInv == EfiInit => EInv
<1> SUFFICES ASSUME EfiInit PROVE EInv
  OBVIOUS
<1>1. IInv
  BY InitInv DEF EfiInit
<1>2. EfiTypeOK
  BY DEF EfiInit, EfiTypeOK, Texts, EFI_STATUS
<1>3. StageInv /\ ProgressInv
  BY DEF EfiInit, Init, StageInv, ProgressInv
<1>4. OutputInOrder /\ ReturnPolicy
  BY DEF EfiInit, OutputInOrder, ReturnPolicy, CHUNK, Texts
<1>. QED  BY <1>1, <1>2, <1>3, <1>4 DEF EInv

\* Returning from the entry checks, and entering the acquisition.
LEMMA EntryStep ==
    ASSUME EInv, NoSystemTable \/ NoConsole \/ EnterMain
    PROVE  EInv'
<1>1. /\ UNCHANGED vars /\ UNCHANGED output /\ main = "entry"
      /\ \/ main' = "map" /\ ret' = ret
         \/ main' = "returned" /\ ret' \in {"EFI_INVALID_PARAMETER", "EFI_UNSUPPORTED"}
  BY DEF NoSystemTable, NoConsole, EnterMain, Return
<1>2. length = 0 /\ length' = 0
  BY <1>1 DEF EInv, StageInv, output
<1>3. IInv'
  BY <1>1, NextInv DEF EInv
<1>4. EfiTypeOK'
  BY <1>1 DEF EInv, EfiTypeOK, EFI_STATUS, ErrorStatus, output
<1>5. StageInv' /\ ProgressInv'
  BY <1>1, <1>2 DEF EInv, StageInv, ProgressInv, output, vars
<1>6. OutputInOrder'
  BY <1>1, <1>2, TextLengthsStay DEF EInv, OutputInOrder, Complete, output, Texts
<1>7. ReturnPolicy'
  BY <1>2 DEF ReturnPolicy
<1>. QED  BY <1>3, <1>4, <1>5, <1>6, <1>7 DEF EInv

\* A step of the acquisition.
LEMMA AcquireStep ==
    ASSUME EInv, Acquire
    PROVE  EInv'
<1>1. Next /\ main = "map" /\ main' = "map" /\ ret' = ret /\ UNCHANGED output
  BY DEF Acquire
<1>2. length = 0 /\ length' = 0
  BY <1>1 DEF EInv, StageInv, output
<1>3. IInv'
  BY <1>1, NextInv DEF EInv
<1>4. EfiTypeOK'
  BY <1>1 DEF EInv, EfiTypeOK, output
<1>5. StageInv' /\ ProgressInv'
  BY <1>1, <1>2 DEF EInv, StageInv, ProgressInv, output
<1>6. OutputInOrder'
  BY <1>1, <1>2, TextLengthsStay DEF EInv, OutputInOrder, Complete, output, Texts
<1>7. ReturnPolicy'
  BY <1>2 DEF ReturnPolicy
<1>. QED  BY <1>3, <1>4, <1>5, <1>6, <1>7 DEF EInv

\* The record is built, and the banner is next.
LEMMA BuildRecordStep ==
    ASSUME EInv, NEW n \in RecordLengths, BuildRecord(n)
    PROVE  EInv'
<1>1. /\ UNCHANGED vars /\ main = "map" /\ main' = "print" /\ pc = "done"
      /\ length' = n /\ n \in Nat \ {0} /\ text' = "banner" /\ left' = 68
      /\ ret' = ret /\ sent' = sent /\ chunk' = chunk /\ failed' = failed
  BY RecordAssumption DEF BuildRecord, TextLength
<1>2. failed = "EFI_SUCCESS" /\ \A t \in Texts : sent[t] = 0
  BY <1>1 DEF EInv, StageInv
<1>3. IInv'
  BY <1>1, NextInv DEF EInv
<1>4. EfiTypeOK'
  BY <1>1 DEF EInv, EfiTypeOK, Texts
<1>5. StageInv'
  BY <1>1, <1>2 DEF StageInv, vars
<1>6. ProgressInv'
  BY <1>1, <1>2 DEF ProgressInv, TextLength, Texts
<1>7. OutputInOrder'
  BY <1>1, <1>2 DEF EInv, OutputInOrder, Texts
<1>8. ReturnPolicy'
  BY <1>1 DEF ReturnPolicy
<1>. QED  BY <1>3, <1>4, <1>5, <1>6, <1>7, <1>8 DEF EInv

\* The console is gone when a text should begin.
LEMMA ConsoleGoneStep ==
    ASSUME EInv, ConsoleGone
    PROVE  EInv'
<1>1. /\ UNCHANGED vars /\ UNCHANGED <<length, text, left, sent, chunk>>
      /\ main = "print" /\ main' = "returned" /\ ret' = "EFI_UNSUPPORTED"
  BY DEF ConsoleGone, Return
<1>2. pc = "done" /\ length # 0 /\ failed = "EFI_SUCCESS"
  BY <1>1 DEF EInv, StageInv
<1>3. failed' = "EFI_UNSUPPORTED"
  BY <1>2 DEF ConsoleGone, Remember, EFI_ERROR, ErrorStatus
<1>4. IInv'
  BY <1>1, NextInv DEF EInv
<1>5. EfiTypeOK'
  BY <1>1, <1>3 DEF EInv, EfiTypeOK, EFI_STATUS, ErrorStatus
<1>6. StageInv' /\ ProgressInv' /\ ReturnPolicy'
  BY <1>1, <1>2, <1>3 DEF StageInv, ProgressInv, ReturnPolicy, vars
<1>7. OutputInOrder'
  BY <1>1, TextLengthsStay DEF EInv, OutputInOrder, Complete, Texts
<1>. QED  BY <1>4, <1>5, <1>6, <1>7 DEF EInv

-----------------------------------------------------------------------------
(* One OutputString call.                                                  *)

\* What a call sends, whatever comes of it, is in order.
LEMMA SendEffect ==
    ASSUME EInv, NEW s \in EFI_STATUS, OutputString(s)
    PROVE  /\ UNCHANGED <<vars, length>> /\ main = "print" /\ text \in Texts
           /\ sent' \in [Texts -> Nat] /\ chunk' \in 1 .. CHUNK
           /\ left \in Nat \ {0} /\ left - Chunk(left) \in Nat
           /\ sent'[text] + (left - Chunk(left)) = TextLength(text)
           /\ sent'[text] # 0
           /\ \A t \in Texts : t # text => sent'[t] = sent[t]
<1>1. /\ UNCHANGED <<vars, length>> /\ main = "print"
      /\ chunk' = Chunk(left)
      /\ sent' = [sent EXCEPT ![text] = @ + Chunk(left)]
  BY DEF OutputString
<1>2. /\ text \in Texts /\ left \in Nat \ {0} /\ sent \in [Texts -> Nat]
      /\ sent[text] + left = TextLength(text)
  BY <1>1 DEF EInv, EfiTypeOK, ProgressInv
<1>3. Chunk(left) \in 1 .. CHUNK /\ Chunk(left) <= left
  BY <1>2, ChunkFits
<1>4. sent[text] \in Nat /\ Chunk(left) \in Nat \ {0}
  BY <1>2, <1>3, ChunkFits
<1>5. sent'[text] = sent[text] + Chunk(left)
  BY <1>1, <1>2
<1>. QED  BY <1>1, <1>2, <1>3, <1>4, <1>5

LEMMA SendInOrder ==
    ASSUME EInv, NEW s \in EFI_STATUS, OutputString(s)
    PROVE  OutputInOrder'
<1>1. /\ text \in Texts /\ chunk' <= CHUNK /\ UNCHANGED length
      /\ \A t \in Texts : t # text => sent'[t] = sent[t]
      /\ main = "print" /\ CHUNK = 126
  BY SendEffect DEF CHUNK
<1>2. TextLength(text) \in Nat /\ sent'[text] <= TextLength(text)
  <2>1. sent'[text] \in Nat /\ left - Chunk(left) \in Nat
    BY SendEffect
  <2>2. sent'[text] + (left - Chunk(left)) = TextLength(text)
    BY SendEffect
  <2>. QED  BY <2>1, <2>2
<1>3. \A t \in Texts : sent'[t] # 0 => sent'[t] <= TextLength(t)
  BY <1>1, <1>2 DEF EInv, OutputInOrder
<1>4. /\ Truncated' = Truncated
      /\ \A t \in Texts : TextLength(t)' = TextLength(t)
  BY <1>1, TextLengthsStay
<1>5. /\ sent'["record"] # 0 => sent'["banner"] = TextLength("banner") /\ ~Truncated
      /\ sent'["marker"] # 0 => sent'["banner"] = TextLength("banner") /\ Truncated
      /\ sent'["crlf"] # 0 => sent'["record"] = TextLength("record")
  BY <1>1 DEF EInv, ProgressInv, OutputInOrder, Complete, Texts
<1>. QED  BY <1>1, <1>3, <1>4, <1>5 DEF OutputInOrder, Complete, Texts

\* The call fails: its status is returned.
LEMMA OutputFails ==
    ASSUME EInv, NEW s \in EFI_STATUS, OutputString(s), StopsOutput(s)
    PROVE  EInv'
<1>1. /\ UNCHANGED <<vars, length, text, left>> /\ main' = "returned" /\ ret' = s
      /\ failed' = s /\ s # "EFI_SUCCESS" /\ pc = "done" /\ length # 0
  BY SendEffect DEF OutputString, Return, StopsOutput, Remember, EFI_ERROR,
     ErrorStatus, EInv, StageInv
<1>2. IInv'
  BY <1>1, NextInv DEF EInv
<1>3. EfiTypeOK'
  <2>1. sent' \in [Texts -> Nat] /\ chunk' \in 0 .. 127
    BY SendEffect DEF CHUNK
  <2>. QED  BY <1>1, <2>1 DEF EInv, EfiTypeOK
<1>4. StageInv' /\ ProgressInv' /\ ReturnPolicy'
  BY <1>1 DEF StageInv, ProgressInv, ReturnPolicy, vars
<1>. QED  BY <1>2, <1>3, <1>4, SendInOrder DEF EInv

\* The text goes on.
LEMMA OutputGoesOn ==
    ASSUME EInv, NEW s \in EFI_STATUS, OutputString(s), ~StopsOutput(s),
           left # Chunk(left)
    PROVE  EInv'
<1>1. /\ UNCHANGED <<vars, length, main, ret, text>> /\ left' = left - Chunk(left)
      /\ failed' = failed /\ main = "print"
  BY SendEffect DEF OutputString, StopsOutput, Remember
<1>2. IInv'
  BY <1>1, NextInv DEF EInv
<1>3. EfiTypeOK'
  <2>1. sent' \in [Texts -> Nat] /\ chunk' \in 0 .. 127 /\ left' \in Nat
    BY <1>1, SendEffect DEF CHUNK
  <2>. QED  BY <1>1, <2>1 DEF EInv, EfiTypeOK
<1>4. StageInv' /\ ReturnPolicy'
  BY <1>1 DEF EInv, StageInv, ReturnPolicy, vars
<1>5. ProgressInv'
  <2>1. left' # 0 /\ sent'[text] + left' = TextLength(text)
    <3>1. left \in Nat \ {0} /\ sent'[text] + (left - Chunk(left)) = TextLength(text)
      BY SendEffect
    <3>2. Chunk(left) \in Nat
      BY <3>1, ChunkFits
    <3>. QED  BY <1>1, <3>1, <3>2
  <2>2. \A t \in Texts : t # text => sent'[t] = sent[t]
    BY SendEffect
  <2>3. Truncated' = Truncated /\ \A t \in Texts : TextLength(t)' = TextLength(t)
    BY <1>1, TextLengthsStay
  <2>4. TextLength(text)' = TextLength(text)
    BY <1>1 DEF TextLength, Truncated
  <2>. QED  BY <1>1, <2>1, <2>2, <2>3, <2>4 DEF EInv, ProgressInv, Complete, Texts
<1>. QED  BY <1>2, <1>3, <1>4, <1>5, SendInOrder DEF EInv

\* The text is complete, and the next one begins.
LEMMA NextText ==
    ASSUME EInv, NEW s \in EFI_STATUS, OutputString(s), ~StopsOutput(s),
           left = Chunk(left), ~IsLast(text)
    PROVE  EInv'
<1>1. /\ UNCHANGED <<vars, length, main, ret>> /\ failed' = failed
      /\ main = "print" /\ text' = Following(text)
      /\ left' = TextLength(Following(text)) /\ length # 0
  BY SendEffect DEF OutputString, StopsOutput, Remember, EInv, StageInv
<1>2. /\ text \in {"banner", "record"} /\ text' \in {"record", "marker", "crlf"}
      /\ text' = "record" => text = "banner" /\ ~Truncated
      /\ text' = "marker" => text = "banner" /\ Truncated
      /\ text' = "crlf" => text = "record"
  BY <1>1, SendEffect DEF Following, IsLast, Texts
<1>3. /\ sent'[text] = TextLength(text)
      /\ \A t \in Texts : t # text => sent'[t] = sent[t]
  <2>1. sent'[text] \in Nat /\ sent'[text] + (left - Chunk(left)) = TextLength(text)
    BY SendEffect
  <2>2. left - Chunk(left) = 0
    BY SendEffect
  <2>. QED  BY <2>1, <2>2, SendEffect
<1>4. Truncated' = Truncated /\ \A t \in Texts : TextLength(t)' = TextLength(t)
  BY <1>1, TextLengthsStay
<1>5. text' \in Texts /\ left' \in Nat \ {0}
  BY <1>1, <1>2, TextLengths DEF EInv, Texts
<1>6. IInv'
  BY <1>1, NextInv DEF EInv
<1>7. EfiTypeOK'
  <2>1. sent' \in [Texts -> Nat] /\ chunk' \in 0 .. 127
    BY SendEffect DEF CHUNK
  <2>. QED  BY <1>1, <1>5, <2>1 DEF EInv, EfiTypeOK
<1>8. StageInv' /\ ReturnPolicy'
  BY <1>1 DEF EInv, StageInv, ReturnPolicy, vars
<1>9. ProgressInv'
  <2>1. sent[text'] = 0 /\ text' # text /\ sent'[text'] = 0
    BY <1>1, <1>2, <1>3, <1>5 DEF EInv, ProgressInv
  <2>2. TextLength(text)' = TextLength(text') /\ left' = TextLength(text')
    BY <1>1 DEF TextLength, Truncated
  <2>3. sent'[text'] + left' = TextLength(text')
    BY <1>5, <2>1, <2>2
  <2>4. text \in {"record"} => ~Truncated /\ Complete("banner")
    BY <1>1 DEF EInv, ProgressInv
  <2>. QED
    BY <1>1, <1>2, <1>3, <1>4, <1>5, <2>1, <2>2, <2>3, <2>4
    DEF EInv, ProgressInv, Complete, Texts
<1>. QED  BY <1>6, <1>7, <1>8, <1>9, SendInOrder DEF EInv
\* All output has succeeded: the verdict is returned.
LEMMA OutputEnds ==
    ASSUME EInv, NEW s \in EFI_STATUS, OutputString(s), ~StopsOutput(s),
           left = Chunk(left), IsLast(text)
    PROVE  EInv'
<1>1. /\ UNCHANGED <<vars, length, text, left>> /\ failed' = failed
      /\ main = "print" /\ main' = "returned" /\ ret' = Verdict(text = "crlf")
      /\ length # 0 /\ pc = "done" /\ failed = "EFI_SUCCESS"
  BY SendEffect DEF OutputString, StopsOutput, Remember, Return, EInv, StageInv
<1>2. text \in {"marker", "crlf"}
  BY DEF IsLast
<1>3. /\ sent'[text] = TextLength(text)
      /\ \A t \in Texts : t # text => sent'[t] = sent[t]
  <2>1. sent'[text] \in Nat /\ sent'[text] + (left - Chunk(left)) = TextLength(text)
    BY SendEffect
  <2>2. left - Chunk(left) = 0
    BY SendEffect
  <2>. QED  BY <2>1, <2>2, SendEffect
<1>4. IInv'
  BY <1>1, NextInv DEF EInv
<1>5. release_status \in EFI_STATUS
  BY DEF EInv, IInv, TypeOK
<1>6. EfiTypeOK'
  <2>1. sent' \in [Texts -> Nat] /\ chunk' \in 0 .. 127
    BY SendEffect DEF CHUNK
  <2>2. ret' \in EFI_STATUS
    BY <1>1, <1>5 DEF Verdict, EFI_STATUS, ErrorStatus
  <2>. QED  BY <1>1, <2>1, <2>2 DEF EInv, EfiTypeOK
<1>7. StageInv' /\ ProgressInv'
  BY <1>1 DEF StageInv, ProgressInv, vars
<1>8. ReturnPolicy'
  <2>1. FailedReleaseReported /\ UNCHANGED <<pool, release_status>>
    BY <1>1, FailedReleaseFollows DEF EInv, vars, acquisition
  <2>2. \A b \in Attempts : Leaked(b)' = Leaked(b)
    BY <2>1 DEF Leaked
  <2>3. \A b \in Attempts : Leaked(b) => ret' = pool[b].status
    BY <1>1, <2>1 DEF FailedReleaseReported, Verdict
  <2>4. (~\E b \in Attempts : Leaked(b)) =>
          ret' = IF text = "crlf" THEN "EFI_SUCCESS" ELSE "EFI_BUFFER_TOO_SMALL"
    BY <1>1, <2>1 DEF FailedReleaseReported, Verdict
  <2>5. text = "crlf" =>
          ~Truncated' /\ \A t \in {"banner", "record", "crlf"} : Complete(t)'
    BY <1>1, <1>3, TextLengthsStay DEF EInv, ProgressInv, Complete, Texts
  <2>6. text = "marker" =>
          sent'["record"] = 0 /\ Complete("banner")' /\ Complete("marker")'
    BY <1>1, <1>3, TextLengthsStay DEF EInv, ProgressInv, Complete, Texts
  <2>. QED
    BY <1>1, <1>2, <2>1, <2>2, <2>3, <2>4, <2>5, <2>6 DEF ReturnPolicy
<1>. QED  BY <1>4, <1>6, <1>7, <1>8, SendInOrder DEF EInv

LEMMA EfiNextInv == EInv /\ [EfiNext]_efi_vars => EInv'
<1> SUFFICES ASSUME EInv, [EfiNext]_efi_vars PROVE EInv'
  OBVIOUS
<1>1. CASE UNCHANGED efi_vars
  <2>1. UNCHANGED <<vars, main, ret, length, text, left, sent, chunk, failed>>
    BY <1>1 DEF efi_vars, output
  <2>2. IInv'
    BY <2>1, NextInv DEF EInv
  <2>3. EfiTypeOK' /\ StageInv'
    BY <2>1 DEF EInv, EfiTypeOK, StageInv, vars
  <2>4. ProgressInv'
    BY <2>1 DEF EInv, ProgressInv, Complete, TextLength, Truncated
  <2>5. OutputInOrder'
    BY <2>1 DEF EInv, OutputInOrder, Complete, TextLength, Truncated
  <2>6. ReturnPolicy'
    BY <2>1 DEF EInv, ReturnPolicy, Complete, TextLength, Truncated, Leaked,
                vars, acquisition
  <2>. QED  BY <2>2, <2>3, <2>4, <2>5, <2>6 DEF EInv
<1>2. CASE NoSystemTable \/ NoConsole \/ EnterMain
  BY <1>2, EntryStep
<1>3. CASE Acquire
  BY <1>3, AcquireStep
<1>4. CASE \E n \in RecordLengths : BuildRecord(n)
  BY <1>4, BuildRecordStep
<1>5. CASE ConsoleGone
  BY <1>5, ConsoleGoneStep
<1>6. CASE \E s \in Statuses : OutputString(s)
  <2>1. PICK s \in EFI_STATUS : OutputString(s)
    BY <1>6, AcquisitionAssumption
  <2>. QED
    BY <2>1, OutputFails, OutputGoesOn, NextText, OutputEnds
<1>. QED  BY <1>1, <1>2, <1>3, <1>4, <1>5, <1>6 DEF EfiNext

LEMMA EfiInvariance == EfiSpec => []EInv
  BY EfiInitInv, EfiNextInv, PTL DEF EfiSpec

-----------------------------------------------------------------------------
(* The theorems.                                                           *)

\* Every variable of efi_main keeps its type.
THEOREM EfiTypes == EfiSpec => []EfiTypeOK
  BY EfiInvariance, PTL DEF EInv

\* The texts are sent in order, completely and once, in chunks that leave
\* room for the NUL in print's buffer.
THEOREM OutputOrder == EfiSpec => []OutputInOrder
  BY EfiInvariance, PTL DEF EInv

\* efi_main returns what its return policy says: first output error, then
\* possible leak, then truncation, then success.
THEOREM ReturnsByPolicy == EfiSpec => []ReturnPolicy
  BY EfiInvariance, PTL DEF EInv

\* No buffer is held, and each was given back once, when efi_main returns.
THEOREM HoldsNothing == EfiSpec => []NothingHeldAtReturn
<1>1. EInv => NothingHeldAtReturn
  <2> SUFFICES ASSUME EInv, main = "returned" PROVE NothingHeldAtReturn
    BY DEF NothingHeldAtReturn
  <2>1. /\ pc \in {"done", "entry"}
        /\ length = 0 =>
             pc = "entry" /\ ret \in {"EFI_INVALID_PARAMETER", "EFI_UNSUPPORTED"}
    BY DEF EInv, StageInv
  <2>2. buffer = NULL
    BY <2>1 DEF EInv, IInv, ScopeInv, Held
  <2>3. \A b \in Attempts : GivenOut(b) => pool[b].tries = 1
    BY <2>2 DEF EInv, IInv, PoolInv, Attempts, NULL
  <2>4. pc = "entry" => \A b \in Attempts : ~GivenOut(b)
    BY DEF EInv, IInv, ScopeInv, PoolInv, Attempts
  <2>. QED  BY <2>1, <2>2, <2>3, <2>4 DEF NothingHeldAtReturn
<1>. QED  BY <1>1, EfiInvariance, PTL

\* After an error the console is left alone.
THEOREM QuietOutput == EfiSpec => QuietAfterError
<1>1. EInv /\ [EfiNext]_efi_vars =>
        [failed # "EFI_SUCCESS" => UNCHANGED sent]_efi_vars
  <2> SUFFICES ASSUME EInv, [EfiNext]_efi_vars, failed # "EFI_SUCCESS"
               PROVE  UNCHANGED sent
    OBVIOUS
  <2>1. main = "returned" \/ main \in {"entry", "map"}
    BY DEF EInv, EfiTypeOK, StageInv
  <2>. QED
    BY <2>1 DEF EfiNext, NoSystemTable, NoConsole, EnterMain, Acquire,
       BuildRecord, ConsoleGone, OutputString, efi_vars, output
<1>. QED  BY <1>1, EfiInvariance, PTL DEF EfiSpec, QuietAfterError
=============================================================================
