-------------------------- MODULE MapParser_proofs --------------------------
(***************************************************************************)
(* Proofs about parse_map, for every buffer, every stride, every word size *)
(* and every content of the map.                                           *)
(***************************************************************************)
EXTENDS MapParser, TLAPS

-----------------------------------------------------------------------------
(* Arithmetic.                                                             *)

\* Descriptor i of a map of whole descriptors ends inside the map.
LEMMA DescriptorEnds ==
    ASSUME NEW l \in Nat, NEW s \in Nat \ {0}, NEW n \in Nat,
           l % s = 0, n < l \div s
    PROVE  n * s + s <= l
  OBVIOUS

\* A map of whole descriptors is as long as its descriptors.
LEMMA WholeDescriptors ==
    ASSUME NEW l \in Nat, NEW s \in Nat \ {0}, l % s = 0
    PROVE  (l \div s) * s = l
  OBVIOUS

\* The pages test is exact: it fails just when the byte count is no word.
LEMMA PageBytes ==
    ASSUME NEW p \in Nat, NEW u \in Nat, NEW b \in Nat \ {0}
    PROVE  /\ p <= u \div b => p * b <= u
           /\ p > u \div b => p * b > u
  OBVIOUS

\* A product that is a word does not wrap.
LEMMA NoWrap ==
    ASSUME NEW x \in Nat, NEW u \in Nat, x <= u
    PROVE  x % (u + 1) = x
  OBVIOUS

\* The tests on a descriptor accept exactly the valid ones, although they
\* compute in words that wrap.
LEMMA VerdictIsExact ==
    ASSUME NEW d \in Descriptor
    PROVE  descriptor_verdict(d) = Observed <=> Valid(d)
<1> USE MapConstantsAssumption
<1>1. /\ d.pages \in Nat /\ d.physical \in Nat /\ d.virtual_address \in Nat
      /\ d.physical <= UINT64_MAX /\ d.virtual_address <= UINT64_MAX
      /\ d.pages * EFI_PAGE_BYTES \in Nat
  BY DEF Descriptor, Word
<1>2. CASE PagesOverflow(d.pages)
  <2>1. d.pages * EFI_PAGE_BYTES > UINT64_MAX
    BY <1>1, <1>2, PageBytes DEF PagesOverflow
  <2>2. ~Valid(d)
    BY <1>1, <2>1 DEF Valid
  <2>. QED  BY <1>2, <2>2 DEF descriptor_verdict, Observed, map_state
<1>3. CASE ~PagesOverflow(d.pages)
  <2>1. d.pages <= UINT64_MAX \div EFI_PAGE_BYTES
    BY <1>1, <1>3 DEF PagesOverflow
  <2>2. d.pages * EFI_PAGE_BYTES <= UINT64_MAX
    BY <1>1, <2>1, PageBytes
  <2>3. RegionBytes(d.pages) = d.pages * EFI_PAGE_BYTES
    BY <1>1, <2>2, NoWrap DEF RegionBytes
  <2>4. /\ range_ok(d.physical, RegionBytes(d.pages))
             <=> d.physical + d.pages * EFI_PAGE_BYTES <= UINT64_MAX
        /\ range_ok(d.virtual_address, RegionBytes(d.pages))
             <=> d.virtual_address + d.pages * EFI_PAGE_BYTES <= UINT64_MAX
    BY <1>1, <2>3 DEF range_ok
  <2>. QED  BY <1>3, <2>4 DEF descriptor_verdict, Observed, map_state, Valid
<1>. QED  BY <1>2, <1>3
-----------------------------------------------------------------------------
(* The invariant of the loop.                                              *)

\* What the header checks have established once they pass.
Fits ==
    /\ length <= capacity /\ capacity <= MAP_LIMIT
    /\ stride \in Nat \ {0} /\ DESCRIPTOR_BYTES <= stride
    /\ length # 0 /\ length % stride = 0

ListInv ==
    /\ Len(entries) = IF count < REPORTED_DESCRIPTORS
                        THEN count ELSE REPORTED_DESCRIPTORS
    /\ \A n \in 1 .. Len(entries) : entries[n] = seen[n]

LoopInv ==
    /\ Fits /\ verdict = Observed
    /\ i = count /\ count = Len(seen) /\ i <= Descriptors
    /\ \A n \in 1 .. count : Valid(seen[n])
    /\ ListInv

PInv ==
    /\ TypeOK
    /\ at = "header" => /\ i = 0 /\ count = 0 /\ extent = 0
                        /\ seen = <<>> /\ entries = <<>> /\ verdict = Observed
    /\ at = "loop" => LoopInv
    /\ ReadsStayInMap /\ ObservedMapIsValid /\ RejectedMapIsInvalid

\* The header checks yield a map result, and when they pass the map fits.
LEMMA HeaderChecks ==
    ASSUME TypeOK
    PROVE  /\ map_header(capacity, length, stride, version) \in Result
           /\ map_header(capacity, length, stride, version) = Observed => Fits
  BY MapConstantsAssumption
  DEF TypeOK, map_header, Observed, map_state, Result, State, Detail, Fits,
      SizeExceedsBuffer, PartialDescriptor

\* Every verdict on a descriptor is a map result.
LEMMA VerdictType == \A d \in Descriptor : descriptor_verdict(d) \in Result
  BY DEF descriptor_verdict, Observed, map_state, Result, State, Detail

\* The invariant holds when parse_map is entered.
LEMMA ParserInit == Init => PInv
  BY ParserAssumption
  DEF Init, PInv, TypeOK, ReadsStayInMap, ObservedMapIsValid,
      RejectedMapIsInvalid, Observed, map_state, Result, State, Detail

\* A header that is rejected reads and reports nothing.
LEMMA HeaderRejectedStep == PInv /\ HeaderRejected => PInv'
<1> SUFFICES ASSUME PInv, HeaderRejected PROVE PInv'
  OBVIOUS
<1>1. map_header(capacity, length, stride, version) \in Result
  BY HeaderChecks DEF PInv
<1>. QED
  BY <1>1 DEF PInv, TypeOK, HeaderRejected, Reject, arguments, ReadsStayInMap,
              ObservedMapIsValid, RejectedMapIsInvalid, Descriptors

\* A header that is accepted establishes the loop invariant.
LEMMA HeaderAcceptedStep == PInv /\ HeaderAccepted => PInv'
<1> SUFFICES ASSUME PInv, HeaderAccepted PROVE PInv'
  OBVIOUS
<1>1. Fits /\ Fits'
  BY HeaderChecks DEF PInv, HeaderAccepted, arguments, Fits
<1>2. 0 <= length \div stride
  BY <1>1 DEF Fits, PInv, TypeOK
<1>3. LoopInv'
  BY <1>1, <1>2, ParserAssumption
  DEF PInv, HeaderAccepted, arguments, LoopInv, ListInv, Descriptors
<1>. QED
  BY <1>3 DEF PInv, TypeOK, HeaderAccepted, arguments, ReadsStayInMap,
              ObservedMapIsValid, RejectedMapIsInvalid

\* Reading the next descriptor stays inside the map.
LEMMA ReadStep ==
    ASSUME PInv, NEW d \in InBuffer, Read(d)
    PROVE  /\ LoopInv /\ d \in Descriptor
           /\ extent' \in Nat /\ extent' <= length
           /\ seen' \in Seq(Descriptor)
           /\ Len(seen') = count + 1 /\ seen'[count + 1] = d
           /\ \A n \in 1 .. count : seen'[n] = seen[n]
<1>1. LoopInv /\ seen \in Seq(Descriptor) /\ seen' = Append(seen, d)
  BY DEF PInv, TypeOK, Read
<1>2. d \in Descriptor
  BY ParserAssumption DEF InBuffer, Descriptor
<1>3. i \in Nat /\ length \in Nat /\ stride \in Nat \ {0} /\ i * stride \in Nat
  BY <1>1 DEF PInv, TypeOK, LoopInv, Fits
<1>4. i * stride + stride <= length
  BY <1>1, <1>3, DescriptorEnds DEF Read, Descriptors, LoopInv, Fits
<1>5. extent' \in Nat /\ extent' <= length
  BY <1>1, <1>3, <1>4, MapConstantsAssumption DEF Read, LoopInv, Fits
<1>. QED  BY <1>1, <1>2, <1>5 DEF LoopInv

\* A rejected descriptor is invalid and those before it are valid.
LEMMA DescriptorRejectedStep ==
    ASSUME PInv, NEW d \in InBuffer, DescriptorRejected(d)
    PROVE  PInv'
<1>1. /\ LoopInv /\ d \in Descriptor
      /\ extent' \in Nat /\ extent' <= length
      /\ seen' \in Seq(Descriptor)
      /\ Len(seen') = count + 1 /\ seen'[count + 1] = d
      /\ \A n \in 1 .. count : seen'[n] = seen[n]
  BY ReadStep DEF DescriptorRejected
<1>2. /\ ~Valid(d) /\ verdict' \in Result /\ verdict' # Observed
      /\ at' = "returned" /\ count' = 0 /\ entries' = <<>>
      /\ UNCHANGED <<capacity, length, stride, version, i>>
  BY <1>1, VerdictIsExact, VerdictType DEF DescriptorRejected, Reject, arguments
<1>3. count \in Nat
  BY DEF PInv, TypeOK
<1>4. TypeOK'
  BY <1>1, <1>2, ParserAssumption DEF PInv, TypeOK
<1>5. ReadsStayInMap'
  BY <1>1, <1>2 DEF ReadsStayInMap, LoopInv, Fits
<1>6. RejectedMapIsInvalid'
  <2>1. Len(seen') = count + 1 /\ ~Valid(seen'[Len(seen')])
    BY <1>1, <1>2
  <2>2. \A n \in 1 .. Len(seen') - 1 : Valid(seen'[n])
    BY <1>1, <1>3, <2>1 DEF LoopInv
  <2>. QED  BY <1>2, <2>1, <2>2 DEF RejectedMapIsInvalid, Valid
<1>. QED  BY <1>2, <1>4, <1>5, <1>6 DEF PInv, ObservedMapIsValid

\* An accepted descriptor is valid, and listed while there is room.
LEMMA DescriptorAcceptedStep ==
    ASSUME PInv, NEW d \in InBuffer, DescriptorAccepted(d)
    PROVE  PInv'
<1>1. /\ LoopInv /\ d \in Descriptor
      /\ extent' \in Nat /\ extent' <= length
      /\ seen' \in Seq(Descriptor)
      /\ Len(seen') = count + 1 /\ seen'[count + 1] = d
      /\ \A n \in 1 .. count : seen'[n] = seen[n]
  BY ReadStep DEF DescriptorAccepted
<1>2. /\ Valid(d) /\ verdict' = verdict /\ at' = "loop" /\ at = "loop"
      /\ count' = count + 1 /\ i' = i + 1 /\ i < Descriptors
      /\ entries' = IF Listed(count) THEN Append(entries, d) ELSE entries
      /\ UNCHANGED <<capacity, length, stride, version>>
  BY <1>1, VerdictIsExact DEF DescriptorAccepted, Read, arguments
<1>3. /\ count \in Nat /\ i \in Nat /\ entries \in Seq(Descriptor)
      /\ length \in Nat /\ stride \in Nat \ {0} /\ Descriptors \in Nat
  BY <1>1 DEF PInv, TypeOK, LoopInv, Fits, Descriptors
<1>4. ListInv' /\ entries' \in Seq(Descriptor) /\ Len(entries') <= REPORTED_DESCRIPTORS
  <2>1. CASE Listed(count)
    BY <1>1, <1>2, <1>3, <2>1, ParserAssumption DEF LoopInv, ListInv, Listed
  <2>2. CASE ~Listed(count)
    BY <1>1, <1>2, <1>3, <2>2, ParserAssumption DEF LoopInv, ListInv, Listed
  <2>. QED  BY <2>1, <2>2
<1>5. TypeOK'
  BY <1>1, <1>2, <1>3, <1>4 DEF PInv, TypeOK
<1>6. LoopInv'
  <2>1. Fits' /\ Descriptors' = Descriptors
    BY <1>1, <1>2 DEF LoopInv, Fits, Descriptors
  <2>2. \A n \in 1 .. count' : Valid(seen'[n])
    BY <1>1, <1>2, <1>3 DEF LoopInv
  <2>. QED  BY <1>1, <1>2, <1>3, <1>4, <2>1, <2>2 DEF LoopInv, Valid
<1>7. ReadsStayInMap'
  BY <1>1, <1>2 DEF ReadsStayInMap, LoopInv, Fits
<1>. QED  BY <1>2, <1>5, <1>6, <1>7 DEF PInv, ObservedMapIsValid, RejectedMapIsInvalid

\* The loop ends after the last descriptor of the map.
LEMMA LoopEndsStep == PInv /\ LoopEnds => PInv'
<1> SUFFICES ASSUME PInv, LoopEnds PROVE PInv'
  OBVIOUS
<1>1. LoopInv /\ count = length \div stride /\ count = Len(seen)
  BY DEF PInv, LoopEnds, LoopInv, Descriptors
<1>2. /\ length \in Nat /\ stride \in Nat \ {0} /\ length % stride = 0
      /\ length # 0 /\ count \in Nat
  BY <1>1 DEF PInv, TypeOK, LoopInv, Fits
<1>3. count * stride = length
  BY <1>1, <1>2, WholeDescriptors
<1>4. count > 0
  BY <1>2, <1>3
<1>5. /\ at' = "returned" /\ verdict = Observed
      /\ UNCHANGED <<capacity, length, stride, version, i, count, entries,
                     verdict, seen, extent>>
  BY <1>1 DEF LoopEnds, LoopInv, arguments
<1>6. ObservedMapIsValid'
  BY <1>1, <1>3, <1>4, <1>5 DEF ObservedMapIsValid, LoopInv, ListInv, Valid
<1>. QED  BY <1>5, <1>6 DEF PInv, TypeOK, ReadsStayInMap, RejectedMapIsInvalid

\* The invariant holds in every reachable state.
LEMMA ParserInvariance == Spec => []PInv
<1>1. PInv /\ [Next]_vars => PInv'
  <2> SUFFICES ASSUME PInv, [Next]_vars PROVE PInv'
    OBVIOUS
  <2>1. CASE UNCHANGED vars
    BY <2>1 DEF vars, arguments, PInv, TypeOK, LoopInv, Fits, ListInv, Descriptors,
                ReadsStayInMap, ObservedMapIsValid, RejectedMapIsInvalid, Valid
  <2>2. CASE \E d \in InBuffer : DescriptorRejected(d) \/ DescriptorAccepted(d)
    BY <2>2, DescriptorRejectedStep, DescriptorAcceptedStep
  <2>. QED
    BY <2>1, <2>2, HeaderRejectedStep, HeaderAcceptedStep, LoopEndsStep DEF Next
<1>. QED  BY <1>1, ParserInit, PTL DEF Spec

-----------------------------------------------------------------------------
(* The theorems.                                                           *)

\* parse_map keeps its types, and never lists more than it has room for.
THEOREM ParserTypes == Spec => []TypeOK
  BY ParserInvariance, PTL DEF PInv

\* No byte outside the returned map is read, for any stride.
THEOREM ParserReads == Spec => []ReadsStayInMap
  BY ParserInvariance, PTL DEF PInv

\* An observed map is completely read, valid, and listed as a prefix.
THEOREM ObservedMaps == Spec => []ObservedMapIsValid
  BY ParserInvariance, PTL DEF PInv

\* The loop rejects a map only for a descriptor that is invalid.
THEOREM RejectedMaps == Spec => []RejectedMapIsInvalid
  BY ParserInvariance, PTL DEF PInv
=============================================================================
