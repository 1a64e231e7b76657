------------------------- MODULE DeviceTree_proofs -------------------------
(***************************************************************************)
(* The device tree parser reads only what it was given and every byte for  *)
(* one purpose, for every blob and every limit.  First the checks before   *)
(* the walk (module DtBlocks): they accept only placements in which        *)
(* nothing overlaps and the reservation map ends in time.  Then the walk:  *)
(* what DtStructure_proofs shows of it, for the block that was placed.     *)
(***************************************************************************)
EXTENDS DeviceTree, TLAPS

\* What the header checks establish.
HeaderSound ==
    at \in {"blocks", "rsvmap", "walk"} =>
      /\ FDT_HEADER <= head.total /\ head.total <= DT_LIMIT
      /\ head.total <= available
      /\ Readable

\* What was read when the header checks begin.
PrefixRead ==
    /\ at = "firmware" => available = TotalsizeEnd /\ extent = 0
    /\ at = "header" => extent <= TotalsizeEnd

\* A block that is not empty lies before the map or behind its end.
OutOfMap(off, size) == size = 0 \/ limit <= off \/ off + size <= layout.rsv

\* Where the map may end, for every block.
MapSound ==
    at \in {"rsvmap", "walk"} =>
      /\ layout \in Layouts
      /\ ~Misaligned(layout) /\ ~OutOfBounds(layout)
      /\ disjoint(layout.struct, layout.size_struct, layout.strings, layout.size_strings)
      /\ OutOfMap(layout.struct, layout.size_struct)
      /\ OutOfMap(layout.strings, layout.size_strings)
      /\ layout.rsv <= rsv /\ rsv <= limit /\ limit <= head.total

BInv == TypeOK /\ ReadsInSpan /\ HeaderSound /\ PrefixRead /\ MapSound

Statement(v) == v \in [state : State, detail : Details]

LEMMA Statements ==
    /\ Statement(Observed)
    /\ \A d \in Details : Statement(malformed(d)) /\ Statement(unsupported(d))
<1>1. Statement(Observed)
  BY DEF Statement, Observed, Result, State, Details
<1>2. \A d \in Details : Statement(malformed(d)) /\ Statement(unsupported(d))
  BY DEF Statement, malformed, unsupported, Result, State
<1>. QED  BY <1>1, <1>2

LEMMA Verdicts ==
    /\ Statement(FirmwareVerdict) /\ Statement(HeaderVerdict)
    /\ \A l : Statement(BlocksVerdict(l))
<1>1. Statement(OutsideLimits)
  BY Statements DEF OutsideLimits, Details
<1>2. Statement(FirmwareVerdict)
  BY <1>1, Statements DEF FirmwareVerdict, Details
<1>3. Statement(HeaderVerdict)
  BY <1>1, Statements DEF HeaderVerdict, Details
<1>4. \A l : Statement(BlocksVerdict(l))
  BY Statements DEF BlocksVerdict, Details
<1>. QED  BY <1>2, <1>3, <1>4

\* A check that is passed has none of the outcomes that stop.
LEMMA Refusals ==
    \A d : malformed(d) # Observed /\ unsupported(d) # Observed
  BY DEF malformed, unsupported, Observed, Result

LEMMA HeadNumbers ==
    ASSUME head \in Heads
    PROVE  head.total \in Nat /\ head.format.version \in Nat /\ head.format.last \in Nat
  BY BlocksAssumption DEF Heads

LEMMA LayoutNumbers ==
    ASSUME NEW l \in Layouts
    PROVE  /\ l.rsv \in Nat /\ l.struct \in Nat /\ l.strings \in Nat
           /\ l.size_struct \in Nat /\ l.size_strings \in Nat
  BY BlocksAssumption DEF Layouts

LEMMA BlocksInit == Init => BInv
<1> SUFFICES ASSUME Init PROVE BInv
  OBVIOUS
<1>1. available \in Nat /\ DT_LIMIT \in Nat
  <2>1. available = 8 \/ available \in Spans
    BY DEF Init, TotalsizeEnd
  <2>2. Spans \subseteq Nat /\ DT_LIMIT \in Nat
    BY BlocksAssumption
  <2>3. CASE available = 8
    BY <2>2, <2>3
  <2>4. CASE available \in Spans
    BY <2>2, <2>4, Zenon
  <2>. QED  BY <2>1, <2>3, <2>4
<1>2. TypeOK
  BY <1>1, Statements DEF Init, TypeOK, Statement
<1>3. ReadsInSpan
  BY <1>1 DEF Init, ReadsInSpan, VersionEnd
<1>4. HeaderSound /\ PrefixRead /\ MapSound
  BY DEF Init, HeaderSound, PrefixRead, MapSound, TotalsizeEnd
<1>. QED  BY <1>2, <1>3, <1>4 DEF BInv

-----------------------------------------------------------------------------
(* The steps.                                                              *)

\* Going on needs the verdict Observed; the verdict stays a statement.
LEMMA Going ==
    ASSUME NEW v, NEW next, Continue(v, next), Statement(v)
    PROVE  /\ at' = next => v = Observed \/ next = "returned"
           /\ at' \in {next, "returned"}
           /\ verdict' \in [state : State, detail : Details]
  BY DEF Continue, Statement

LEMMA FirmwareStep == BInv /\ Firmware => BInv'
<1> SUFFICES ASSUME BInv, Firmware PROVE BInv'
  OBVIOUS
<1>. USE DEF TotalsizeEnd, VersionEnd, FDT_HEADER
<1>1. /\ at' \in {"header", "returned"}
      /\ verdict' \in [state : State, detail : Details]
      /\ at' = "header" => FirmwareVerdict = Observed
  BY Verdicts, Going DEF Firmware
<1>2. head.total \in Nat
  BY HeadNumbers DEF BInv, TypeOK
<1>3. FirmwareVerdict = Observed => head.total >= 40
  BY <1>2, Refusals DEF FirmwareVerdict, OutsideLimits
<1>4. available' \in Nat /\ available' >= 8 /\ extent' \in 0 .. 8
  BY <1>2, <1>3 DEF BInv, PrefixRead, Firmware
<1>5. TypeOK'
  BY <1>1, <1>4 DEF BInv, TypeOK, Firmware
<1>6. ReadsInSpan'
  BY <1>4 DEF ReadsInSpan
<1>7. HeaderSound' /\ PrefixRead' /\ MapSound'
  BY <1>1, <1>4 DEF HeaderSound, PrefixRead, MapSound
<1>. QED  BY <1>5, <1>6, <1>7 DEF BInv

LEMMA HeaderStep == BInv /\ Header => BInv'
<1> SUFFICES ASSUME BInv, Header PROVE BInv'
  OBVIOUS
<1>. USE DEF TotalsizeEnd, VersionEnd, FDT_HEADER
<1>1. /\ at' \in {"blocks", "returned"}
      /\ verdict' \in [state : State, detail : Details]
      /\ at' = "blocks" => HeaderVerdict = Observed
  BY Verdicts, Going DEF Header
<1>2. head.total \in Nat /\ available \in Nat /\ extent \in Nat
  BY HeadNumbers DEF BInv, TypeOK
<1>3. HeaderVerdict = Observed =>
        /\ Readable /\ OutsideLimits = Observed /\ head.total <= available
  BY <1>2, Refusals DEF HeaderVerdict, ExceedsSpan
<1>4. OutsideLimits = Observed => 40 <= head.total /\ head.total <= DT_LIMIT
  BY <1>2, BlocksAssumption, Refusals DEF OutsideLimits
<1>5. extent' \in Nat /\ extent' <= available /\ extent' <= 28
  BY <1>2 DEF BInv, PrefixRead, ReadsInSpan, Header, Larger
<1>6. TypeOK'
  BY <1>1, <1>5 DEF BInv, TypeOK, Header
<1>7. ReadsInSpan'
  BY <1>5 DEF ReadsInSpan, Header
<1>8. HeaderSound'
  BY <1>1, <1>3, <1>4 DEF HeaderSound, Header, Readable
<1>9. PrefixRead' /\ MapSound'
  BY <1>1 DEF PrefixRead, MapSound
<1>. QED  BY <1>6, <1>7, <1>8, <1>9 DEF BInv

\* The end of the map respects a block that does not hold its first byte.
LEMMA LoweredEnd ==
    ASSUME NEW from \in Nat, NEW off \in Nat, NEW size \in Nat, NEW end \in Nat,
           from <= end
    PROVE  /\ LoweredTo(from, off, size, end) \in Nat
           /\ LoweredTo(from, off, size, end) <= end
           /\ from <= LoweredTo(from, off, size, end)
           /\ disjoint(from, 1, off, size) =>
                \/ size = 0 \/ off + size <= from
                \/ LoweredTo(from, off, size, end) <= off
  BY DEF LoweredTo, disjoint

LEMMA LimitSound ==
    ASSUME BInv, at = "blocks", NEW l \in Layouts, ~OutOfBounds(l)
    PROVE  /\ Limit(l) \in Nat /\ l.rsv <= Limit(l) /\ Limit(l) <= head.total
           /\ ~Overlap(l) =>
                /\ l.size_struct = 0 \/ l.struct + l.size_struct <= l.rsv \/ Limit(l) <= l.struct
                /\ l.size_strings = 0 \/ l.strings + l.size_strings <= l.rsv \/ Limit(l) <= l.strings
<1>. DEFINE first == LoweredTo(l.rsv, l.struct, l.size_struct, head.total)
<1>1. head.total \in Nat
  BY HeadNumbers DEF BInv, TypeOK
<1>2. l.rsv <= head.total
  BY <1>1, LayoutNumbers DEF OutOfBounds, FDT_HEADER
<1>3. /\ first \in Nat /\ first <= head.total /\ l.rsv <= first
      /\ disjoint(l.rsv, 1, l.struct, l.size_struct) =>
           l.size_struct = 0 \/ l.struct + l.size_struct <= l.rsv \/ first <= l.struct
  BY <1>1, <1>2, LayoutNumbers, LoweredEnd
<1>4. Limit(l) = LoweredTo(l.rsv, l.strings, l.size_strings, first)
  BY DEF Limit
<1>. HIDE DEF first
<1>5. /\ Limit(l) \in Nat /\ Limit(l) <= first /\ l.rsv <= Limit(l)
      /\ disjoint(l.rsv, 1, l.strings, l.size_strings) =>
           l.size_strings = 0 \/ l.strings + l.size_strings <= l.rsv \/ Limit(l) <= l.strings
  <2>1. l.rsv \in Nat /\ l.strings \in Nat /\ l.size_strings \in Nat
    BY LayoutNumbers
  <2>. QED  BY <1>3, <1>4, <2>1 DEF LoweredTo, disjoint
<1>. QED  BY <1>1, <1>3, <1>5, LayoutNumbers DEF Overlap

LEMMA BlocksStep == BInv /\ Blocks => BInv'
<1> SUFFICES ASSUME BInv, Blocks PROVE BInv'
  OBVIOUS
<1>. USE DEF VersionEnd, V17End, FDT_HEADER
<1>1. PICK l \in Layouts :
        layout' = l /\ Continue(BlocksVerdict(l), "rsvmap") /\ rsv' = l.rsv /\ limit' = Limit(l)
  BY DEF Blocks
<1>2. /\ at = "blocks" /\ extent' = 40 /\ head' = head /\ available' = available
  BY DEF Blocks
<1>3. /\ at' \in {"rsvmap", "returned"}
      /\ verdict' \in [state : State, detail : Details]
      /\ at' = "rsvmap" => BlocksVerdict(l) = Observed
  BY <1>1, Verdicts, Going
<1>4. BlocksVerdict(l) = Observed => ~Misaligned(l) /\ ~OutOfBounds(l) /\ ~Overlap(l)
  BY Refusals DEF BlocksVerdict
<1>5. /\ head.total \in Nat /\ 40 <= head.total /\ head.total <= DT_LIMIT
      /\ head.total <= available /\ available \in Nat /\ Readable
  BY <1>2, HeadNumbers DEF BInv, TypeOK, HeaderSound
<1>6. limit' \in 0 .. DT_LIMIT
  <2>1. LoweredTo(l.rsv, l.struct, l.size_struct, head.total) \in 0 .. head.total
    BY <1>5, LayoutNumbers DEF LoweredTo
  <2>2. Limit(l) \in 0 .. head.total
    BY <1>5, <2>1, LayoutNumbers DEF Limit, LoweredTo
  <2>. QED  BY <1>1, <1>5, <2>2, BlocksAssumption
<1>7. TypeOK'
  BY <1>1, <1>2, <1>3, <1>6, LayoutNumbers DEF BInv, TypeOK
<1>8. ReadsInSpan' /\ HeaderSound'
  BY <1>2, <1>5 DEF ReadsInSpan, HeaderSound, Readable
<1>9. PrefixRead'
  BY <1>3 DEF PrefixRead
<1>10. MapSound'
  <2>. SUFFICES ASSUME at' \in {"rsvmap", "walk"} PROVE MapSound'
    BY DEF MapSound
  <2>1. ~Misaligned(l) /\ ~OutOfBounds(l) /\ ~Overlap(l)
    BY <1>3, <1>4
  <2>2. /\ Limit(l) \in Nat /\ l.rsv <= Limit(l) /\ Limit(l) <= head.total
        /\ l.size_struct = 0 \/ l.struct + l.size_struct <= l.rsv \/ Limit(l) <= l.struct
        /\ l.size_strings = 0 \/ l.strings + l.size_strings <= l.rsv \/ Limit(l) <= l.strings
    BY <1>2, <2>1, LimitSound
  <2>3. ~Misaligned(layout)' /\ ~OutOfBounds(layout)'
    BY <1>1, <1>2, <2>1 DEF Misaligned, OutOfBounds
  <2>4. disjoint(l.struct, l.size_struct, l.strings, l.size_strings)
    BY <2>1 DEF Overlap
  <2>. QED  BY <1>1, <1>2, <2>2, <2>3, <2>4, LayoutNumbers DEF MapSound, OutOfMap, disjoint
<1>. QED  BY <1>7, <1>8, <1>9, <1>10 DEF BInv

LEMMA RsvUnterminatedStep == BInv /\ RsvUnterminated => BInv'
<1> SUFFICES ASSUME BInv, RsvUnterminated PROVE BInv'
  OBVIOUS
<1>1. at' = "returned" /\ verdict' \in [state : State, detail : Details]
  BY Statements, Refusals DEF RsvUnterminated, Continue, Statement, Details
<1>2. UNCHANGED <<head, available, layout, rsv, limit, extent>>
  BY DEF RsvUnterminated
<1>3. TypeOK'
  BY <1>1, <1>2 DEF BInv, TypeOK
<1>4. ReadsInSpan'
  BY <1>2 DEF BInv, ReadsInSpan, Readable
<1>5. HeaderSound' /\ PrefixRead' /\ MapSound'
  BY <1>1 DEF HeaderSound, PrefixRead, MapSound
<1>. QED  BY <1>3, <1>4, <1>5 DEF BInv

\* Positions before the next entry is read.
LEMMA Positions ==
    ASSUME BInv, at = "rsvmap"
    PROVE  /\ rsv \in Nat /\ limit \in Nat /\ head.total \in Nat /\ available \in Nat
           /\ rsv <= limit /\ limit <= head.total /\ head.total <= available
           /\ layout \in Layouts /\ layout.rsv <= rsv
  BY HeadNumbers, BlocksAssumption DEF BInv, TypeOK, MapSound, HeaderSound

LEMMA ReservationStep ==
    ASSUME BInv, NEW address \in Words, NEW size \in Words, Reservation(address, size)
    PROVE  BInv'
<1>. USE DEF EntryBytes
<1>1. /\ rsv' = rsv + 16 /\ extent' = rsv + 16 /\ limit - rsv >= 16
      /\ head' = head /\ available' = available /\ layout' = layout /\ limit' = limit
      /\ at = "rsvmap"
  BY DEF Reservation, NextEntry, EntryFits
<1>2. /\ at' \in {"walk", "rsvmap", "returned"}
      /\ verdict' \in [state : State, detail : Details]
  BY Statements DEF Reservation, Continue, Statement, Details
<1>3. /\ rsv' \in Nat /\ rsv' <= limit /\ extent' <= available /\ rsv <= rsv'
      /\ rsv \in Nat /\ layout \in Layouts /\ layout.rsv <= rsv
  BY <1>1, Positions
<1>4. TypeOK'
  BY <1>1, <1>2, <1>3 DEF BInv, TypeOK
<1>5. Readable
  BY <1>1 DEF BInv, HeaderSound
<1>6. ReadsInSpan' /\ HeaderSound'
  BY <1>1, <1>3, <1>5 DEF BInv, ReadsInSpan, HeaderSound, Readable
<1>7. PrefixRead'
  BY <1>2 DEF PrefixRead
<1>8. MapSound'
  <2>1. ~Misaligned(layout)' /\ ~OutOfBounds(layout)'
    BY <1>1 DEF BInv, MapSound, Misaligned, OutOfBounds
  <2>2. layout.rsv <= rsv'
    BY <1>3, LayoutNumbers
  <2>. QED  BY <1>1, <1>3, <2>1, <2>2 DEF BInv, MapSound, OutOfMap, disjoint
<1>. QED  BY <1>4, <1>6, <1>7, <1>8 DEF BInv

LEMMA BlocksNext == BInv /\ [Next]_vars => BInv'
<1> SUFFICES ASSUME BInv, [Next]_vars PROVE BInv'
  OBVIOUS
<1>1. CASE Firmware  BY <1>1, FirmwareStep
<1>2. CASE Header  BY <1>2, HeaderStep
<1>3. CASE Blocks  BY <1>3, BlocksStep
<1>4. CASE RsvUnterminated  BY <1>4, RsvUnterminatedStep
<1>5. CASE \E address, size \in Words : Reservation(address, size)
  BY <1>5, ReservationStep
<1>6. CASE UNCHANGED vars
  BY <1>6 DEF vars, BInv, TypeOK, ReadsInSpan, HeaderSound, PrefixRead, MapSound,
              OutOfMap, Misaligned, OutOfBounds, Readable, disjoint
<1>. QED  BY <1>1, <1>2, <1>3, <1>4, <1>5, <1>6 DEF Next

LEMMA BlocksInvariant == Spec => []BInv
  BY BlocksInit, BlocksNext, PTL DEF Spec

-----------------------------------------------------------------------------
(* What follows.                                                           *)

\* Intervals that do not overlap share no byte.
LEMMA NoSharedByte ==
    ASSUME NEW a \in Nat, NEW n \in Nat, NEW b \in Nat, NEW k \in Nat,
           n = 0 \/ k = 0 \/ a + n <= b \/ b + k <= a
    PROVE  Bytes(a, n) \cap Bytes(b, k) = {}
  BY DEF Bytes

LEMMA Inside ==
    ASSUME NEW a \in Nat, NEW n \in Nat, NEW total \in Nat,
           FDT_HEADER <= a, a + n <= total
    PROVE  Bytes(a, n) \subseteq FDT_HEADER .. total - 1
  BY DEF Bytes, FDT_HEADER

LEMMA InvSound == BInv => LayoutSound
<1> SUFFICES ASSUME BInv, at \in {"rsvmap", "walk"} PROVE LayoutSound
  BY DEF LayoutSound
<1>1. /\ rsv \in Nat /\ limit \in Nat /\ head.total \in Nat
      /\ layout.rsv \in Nat /\ layout.struct \in Nat /\ layout.strings \in Nat
      /\ layout.size_struct \in Nat /\ layout.size_strings \in Nat
  BY HeadNumbers, LayoutNumbers, BlocksAssumption DEF BInv, TypeOK, MapSound
<1>2. /\ layout.rsv <= rsv /\ rsv <= limit /\ limit <= head.total
      /\ ~Misaligned(layout) /\ ~OutOfBounds(layout)
      /\ disjoint(layout.struct, layout.size_struct, layout.strings, layout.size_strings)
      /\ OutOfMap(layout.struct, layout.size_struct)
      /\ OutOfMap(layout.strings, layout.size_strings)
  BY DEF BInv, MapSound
<1>3. /\ 40 <= layout.rsv /\ 40 <= layout.struct /\ 40 <= layout.strings
      /\ layout.struct + layout.size_struct <= head.total
      /\ layout.strings + layout.size_strings <= head.total
  BY <1>1, <1>2 DEF OutOfBounds, FDT_HEADER
<1>4. layout.struct % 4 = 0 /\ layout.size_struct % 4 = 0
  BY <1>2 DEF Misaligned
<1>5. /\ rsv - layout.rsv \in Nat
      /\ layout.rsv + (rsv - layout.rsv) = rsv
  BY <1>1, <1>2
<1>6. /\ InBlob(StructBytes) /\ InBlob(StringsBytes)
      /\ InBlob(Bytes(layout.rsv, rsv - layout.rsv))
  <2>1. /\ layout.rsv + (rsv - layout.rsv) <= head.total
        /\ FDT_HEADER <= layout.rsv /\ FDT_HEADER <= layout.struct
        /\ FDT_HEADER <= layout.strings
    BY <1>1, <1>2, <1>3, <1>5 DEF FDT_HEADER
  <2>2. InBlob(StructBytes)
    BY <1>1, <1>3, <2>1, Inside DEF InBlob, StructBytes
  <2>3. InBlob(StringsBytes)
    BY <1>1, <1>3, <2>1, Inside DEF InBlob, StringsBytes
  <2>4. InBlob(Bytes(layout.rsv, rsv - layout.rsv))
    BY <1>1, <1>5, <2>1, Inside DEF InBlob
  <2>. QED  BY <2>2, <2>3, <2>4
<1>7. StructBytes \cap StringsBytes = {}
  BY <1>1, <1>2, NoSharedByte DEF StructBytes, StringsBytes, disjoint
<1>8. Bytes(layout.rsv, rsv - layout.rsv) \cap StructBytes = {}
  BY <1>1, <1>2, <1>5, NoSharedByte DEF StructBytes, OutOfMap
<1>9. Bytes(layout.rsv, rsv - layout.rsv) \cap StringsBytes = {}
  BY <1>1, <1>2, <1>5, NoSharedByte DEF StringsBytes, OutOfMap
<1>. QED  BY <1>2, <1>4, <1>6, <1>7, <1>8, <1>9 DEF LayoutSound

\* The types of the reader's variables; the end of the reservation map is
\* never beyond DT_LIMIT.
THEOREM BlocksTypes == Spec => []TypeOK
  BY BlocksInvariant, PTL DEF BInv

\* core.h: "Reads only [data, data + available)", and the fields of
\* version 17 only after the version check, through both entries.
THEOREM BlocksReads == Spec => []ReadsInSpan
  BY BlocksInvariant, PTL DEF BInv

\* core.c 117-124: the blocks and every entry of the reservation map that
\* is read are inside the blob and share no byte.
THEOREM BlocksDisjoint == Spec => []LayoutSound
  BY BlocksInvariant, InvSound, PTL

\* core.c 126-132: every entry read shortens the room that is left, which
\* never wraps below zero.
THEOREM BlocksProgress == Spec => RoomShrinks
<1>1. ASSUME BInv, [Next]_vars
      PROVE  [at = "rsvmap" => /\ at' = "rsvmap" => limit' - rsv' <= limit - rsv - EntryBytes
                               /\ limit' - rsv' >= 0]_vars
  <2>. SUFFICES ASSUME at = "rsvmap", ~UNCHANGED vars
                PROVE  /\ at' = "rsvmap" => limit' - rsv' <= limit - rsv - EntryBytes
                       /\ limit' - rsv' >= 0
    OBVIOUS
  <2>1. rsv \in Nat /\ limit \in Nat /\ rsv <= limit
    BY <1>1, Positions
  <2>2. CASE RsvUnterminated
    <3>1. at' = "returned" /\ rsv' = rsv /\ limit' = limit
      BY <2>2, Refusals DEF RsvUnterminated, Continue
    <3>. QED  BY <2>1, <3>1
  <2>3. ASSUME NEW address \in Words, NEW size \in Words, Reservation(address, size)
        PROVE  /\ limit' - rsv' <= limit - rsv - EntryBytes
               /\ limit' - rsv' >= 0
    BY <2>1, <2>3 DEF Reservation, EntryFits, NextEntry, EntryBytes
  <2>4. ~Firmware /\ ~Header /\ ~Blocks
    BY DEF Firmware, Header, Blocks
  <2>. QED  BY <1>1, <2>2, <2>3, <2>4 DEF Next
<1>. QED  BY <1>1, BlocksInvariant, PTL DEF Spec, RoomShrinks

-----------------------------------------------------------------------------
(* What is refused.  That a refusal has a reason needs to know where the   *)
(* end of the reservation map comes from: a block that follows the map, or *)
(* the end of the blob.                                                    *)

LimitIsAnEnd ==
    at \in {"rsvmap", "walk"} =>
      \/ limit = head.total
      \/ limit = layout.struct /\ layout.size_struct # 0
      \/ limit = layout.strings /\ layout.size_strings # 0

RefusalInv ==
    /\ at # "returned" => verdict = Observed
    /\ LimitIsAnEnd
    /\ RefusesOnlyUnsound

\* Blocks that are not disjoint share a byte, or an empty one of them lies
\* inside the other.
LEMMA OverlapShares ==
    ASSUME NEW a \in Nat, NEW n \in Nat, NEW b \in Nat, NEW k \in Nat,
           ~disjoint(a, n, b, k)
    PROVE  SharesPlace(a, n, b, k)
<1>1. a + n > b /\ b + k > a
  BY DEF disjoint
<1>2. CASE n # 0 /\ k # 0
  <2>1. CASE a <= b
    BY <1>1, <1>2, <2>1 DEF SharesPlace, Bytes
  <2>2. CASE b <= a
    BY <1>1, <1>2, <2>2 DEF SharesPlace, Bytes
  <2>. QED  BY <2>1, <2>2
<1>3. CASE n = 0
  BY <1>1, <1>3 DEF SharesPlace, Bytes
<1>4. CASE k = 0
  BY <1>1, <1>4 DEF SharesPlace, Bytes
<1>. QED  BY <1>2, <1>3, <1>4

\* The map's place is in a block that it is not disjoint from.
LEMMA PlaceInBlock ==
    ASSUME NEW a \in Nat, NEW b \in Nat, NEW k \in Nat, ~disjoint(a, 1, b, k)
    PROVE  a \in Bytes(b, k)
  BY DEF disjoint, Bytes

LEMMA HeaderRefusal ==
    ASSUME BInv, RefusalInv, Firmware \/ Header
    PROVE  RefusalInv'
<1>1. at' \in {"header", "blocks", "returned"} /\ (at' # "returned" => verdict' = Observed)
  BY DEF Firmware, Header, Continue
<1>2. verdict' \in {FirmwareVerdict, HeaderVerdict}
  BY DEF Firmware, Header, Continue
<1>3. verdict'.detail \notin {"block_overlap", "rsvmap_unterminated"}
  BY <1>2 DEF FirmwareVerdict, HeaderVerdict, OutsideLimits, malformed,
              unsupported, Observed, Result
<1>. QED  BY <1>1, <1>3 DEF RefusalInv, LimitIsAnEnd, RefusesOnlyUnsound

LEMMA BlocksRefusal ==
    ASSUME BInv, RefusalInv, Blocks
    PROVE  RefusalInv'
<1>1. PICK l \in Layouts :
        layout' = l /\ Continue(BlocksVerdict(l), "rsvmap") /\ limit' = Limit(l)
  BY DEF Blocks
<1>2. head' = head /\ verdict' = BlocksVerdict(l) /\ (at' # "returned" => verdict' = Observed)
  BY <1>1 DEF Blocks, Continue
<1>3. LimitIsAnEnd'
  BY <1>1, <1>2 DEF LimitIsAnEnd, Limit, LoweredTo
<1>4. verdict'.detail # "rsvmap_unterminated"
  BY <1>2 DEF BlocksVerdict, malformed, Observed, Result
<1>5. ASSUME verdict'.detail = "block_overlap"
      PROVE  \/ SharesPlace(l.struct, l.size_struct, l.strings, l.size_strings)
             \/ l.rsv \in Bytes(l.struct, l.size_struct) \cup Bytes(l.strings, l.size_strings)
  <2>1. Overlap(l)
    BY <1>2, <1>5 DEF BlocksVerdict, malformed, Observed, Result
  <2>. QED  BY <2>1, LayoutNumbers, OverlapShares, PlaceInBlock DEF Overlap
<1>6. RefusesOnlyUnsound'
  BY <1>1, <1>4, <1>5 DEF RefusesOnlyUnsound, StructBytes, StringsBytes, SharesPlace, Bytes
<1>. QED  BY <1>2, <1>3, <1>6 DEF RefusalInv

\* The next entry would hold the first byte of the block that ends the map,
\* or the first byte behind the blob.
LEMMA UnterminatedRefusal ==
    ASSUME BInv, RefusalInv, RsvUnterminated
    PROVE  RefusalInv'
<1>1. /\ at = "rsvmap" /\ at' = "returned" /\ verdict'.detail = "rsvmap_unterminated"
      /\ UNCHANGED <<head, layout, rsv, limit>> /\ ~EntryFits
  <2>1. at = "rsvmap" /\ ~EntryFits /\ Continue(malformed("rsvmap_unterminated"), "rsvmap")
        /\ UNCHANGED <<head, layout, rsv, limit>>
    BY DEF RsvUnterminated
  <2>2. malformed("rsvmap_unterminated") # Observed
    BY Refusals
  <2>. QED  BY <2>1, <2>2 DEF Continue, malformed, Result
<1>2. /\ rsv \in Nat /\ limit \in Nat /\ head.total \in Nat /\ rsv <= limit
      /\ layout \in Layouts
  BY <1>1, Positions
<1>3. limit \in Bytes(rsv, EntryBytes)
  BY <1>1, <1>2 DEF Bytes, EntryBytes, EntryFits
<1>4. CASE limit = head.total
  <2>1. limit \notin FDT_HEADER .. head.total - 1
    BY <1>2, <1>4 DEF FDT_HEADER
  <2>2. ~InBlob(Bytes(rsv, EntryBytes))
    BY <1>3, <2>1 DEF InBlob
  <2>. QED
    BY <1>1, <2>2 DEF RefusalInv, RefusesOnlyUnsound, LimitIsAnEnd, InBlob, Bytes
<1>5. CASE \/ limit = layout.struct /\ layout.size_struct # 0
           \/ limit = layout.strings /\ layout.size_strings # 0
  <2>1. limit \in StructBytes \cup StringsBytes
    BY <1>2, <1>5, LayoutNumbers DEF StructBytes, StringsBytes, Bytes
  <2>2. Bytes(rsv, EntryBytes) \cap (StructBytes \cup StringsBytes) # {}
    BY <1>3, <2>1
  <2>. QED
    BY <1>1, <2>2 DEF RefusalInv, RefusesOnlyUnsound, LimitIsAnEnd, StructBytes,
                      StringsBytes, Bytes
<1>. QED  BY <1>1, <1>4, <1>5 DEF RefusalInv, LimitIsAnEnd

LEMMA ReservationRefusal ==
    ASSUME RefusalInv, NEW address, NEW size, Reservation(address, size)
    PROVE  RefusalInv'
<1>1. /\ at = "rsvmap" /\ at' \in {"walk", "rsvmap", "returned"}
      /\ at' # "returned" => verdict' = Observed
      /\ UNCHANGED <<head, layout, limit>>
  BY DEF Reservation, Continue
<1>2. verdict'.detail \notin {"block_overlap", "rsvmap_unterminated"}
  BY DEF Reservation, Continue, malformed, Observed, Result
<1>. QED  BY <1>1, <1>2 DEF RefusalInv, RefusesOnlyUnsound, LimitIsAnEnd

LEMMA RefusalNext == BInv /\ RefusalInv /\ [Next]_vars => RefusalInv'
<1> SUFFICES ASSUME BInv, RefusalInv, [Next]_vars PROVE RefusalInv'
  OBVIOUS
<1>1. CASE \E address, size \in Words : Reservation(address, size)
  BY <1>1, ReservationRefusal
<1>2. CASE UNCHANGED vars
  BY <1>2 DEF vars, RefusalInv, LimitIsAnEnd, RefusesOnlyUnsound, SharesPlace,
              StructBytes, StringsBytes, InBlob, Bytes
<1>. QED
  BY <1>1, <1>2, HeaderRefusal, BlocksRefusal, UnterminatedRefusal DEF Next

-----------------------------------------------------------------------------
(* The walk.  WalkP is the walk once more, with what was proved about it.  *)

WalkP == INSTANCE DtStructure_proofs WITH
    BlockSizes <- WordSizes, size <- layout.size_struct,
    at <- walk_at, verdict <- walk_verdict, extent <- walk_extent

\* The checks discharge what the walk assumes of its constants.
LEMMA WalkAssumption == WalkP!StructureConstants
  BY BlocksAssumption, TreeAssumption DEF WalkP!StructureConstants, WordSizes

\* Both instances are the same walk.
LEMMA SameInvariant == WalkP!SInv <=> Walk!TypeOK /\ Walk!StaysInBlock
  BY DEF WalkP!SInv,
         Walk!TypeOK, Walk!StaysInBlock, Walk!Details, Walk!State,
         WalkP!TypeOK, WalkP!StaysInBlock, WalkP!Details,
         WalkP!State

LEMMA SameBareTokens ==
    Walk!MissingEnd \/ Walk!Nop \/ Walk!UnknownToken \/ Walk!EndNode \/ Walk!End
      => WalkP!Next
<1>1. Walk!MissingEnd <=> WalkP!MissingEnd
  BY DEF
         Walk!MissingEnd, Walk!Fail, Walk!Model, Walk!malformed,
         Walk!Result, WalkP!MissingEnd, WalkP!Fail, WalkP!Model,
         WalkP!malformed, WalkP!Result
<1>2. Walk!Nop <=> WalkP!Nop
  BY DEF
         Walk!Nop, Walk!AfterToken, WalkP!Nop, WalkP!AfterToken
<1>3. Walk!UnknownToken <=> WalkP!UnknownToken
  BY DEF
         Walk!UnknownToken, Walk!Read, Walk!Bare, Walk!Token,
         Walk!Fail, Walk!Model, Walk!malformed, Walk!Result,
         WalkP!UnknownToken, WalkP!Read, WalkP!Bare, WalkP!Token,
         WalkP!Fail, WalkP!Model, WalkP!malformed, WalkP!Result
<1>4. Walk!EndNode <=> WalkP!EndNode
  BY DEF
         Walk!EndNode, Walk!Read, Walk!Bare, Walk!Token, Walk!Fail,
         Walk!Model, Walk!malformed, Walk!Result, Walk!AfterToken,
         WalkP!EndNode, WalkP!Read, WalkP!Bare, WalkP!Token,
         WalkP!Fail, WalkP!Model, WalkP!malformed, WalkP!Result,
         WalkP!AfterToken
<1>5. Walk!End <=> WalkP!End
  BY DEF
         Walk!End, Walk!Read, Walk!Bare, Walk!Token, Walk!Fail,
         Walk!Model, Walk!malformed, Walk!Result, Walk!AfterToken,
         WalkP!End, WalkP!Read, WalkP!Bare, WalkP!Token, WalkP!Fail,
         WalkP!Model, WalkP!malformed, WalkP!Result,
         WalkP!AfterToken
<1> QED BY <1>1, <1>2, <1>3, <1>4, <1>5 DEF WalkP!Next

LEMMA SameBeginNode ==
    ASSUME NEW n PROVE Walk!BeginNode(n) <=> WalkP!BeginNode(n)
  BY DEF
         Walk!BeginNode, Walk!Read, Walk!Bare, Walk!Token,
         Walk!Fail, Walk!Model, Walk!malformed, Walk!Result,
         Walk!AfterToken, Walk!BeginVerdict, Walk!Unterminated,
         Walk!TooDeep, Walk!Aligned, Walk!ChildEntered,
         Walk!Observed, WalkP!BeginNode, WalkP!Read, WalkP!Bare,
         WalkP!Token, WalkP!Fail, WalkP!Model, WalkP!malformed,
         WalkP!Result, WalkP!AfterToken, WalkP!BeginVerdict,
         WalkP!Unterminated, WalkP!TooDeep, WalkP!Aligned,
         WalkP!ChildEntered, WalkP!Observed

LEMMA SameProperty ==
    ASSUME NEW len, NEW name, NEW value
    PROVE  Walk!Property(len, name, value) <=> WalkP!Property(len, name, value)
  BY DEF
         Walk!Property, Walk!Read, Walk!Token, Walk!Fail,
         Walk!Model, Walk!malformed, Walk!Result, Walk!AfterToken,
         Walk!PropVerdict, Walk!HeaderFits, Walk!ExceedsBlock,
         Walk!HasSubnode, Walk!IsRootModel, Walk!ModelValue,
         Walk!take_model, Walk!Aligned, Walk!Observed,
         WalkP!Property, WalkP!Read, WalkP!Token, WalkP!Fail,
         WalkP!Model, WalkP!malformed, WalkP!Result,
         WalkP!AfterToken, WalkP!PropVerdict, WalkP!HeaderFits,
         WalkP!ExceedsBlock, WalkP!HasSubnode, WalkP!IsRootModel,
         WalkP!ModelValue, WalkP!take_model, WalkP!Aligned,
         WalkP!Observed

\* Which names can be reached only restricts what the walk may do.
LEMMA SameNext == WalkToken => WalkP!Next
<1>1. Reachable \subseteq WalkP!Names /\ Walk!Values = WalkP!Values
      /\ Walk!Unterminated = WalkP!Unterminated
  BY DEF Reachable, Walk!Names, WalkP!Names, Walk!Values, WalkP!Values,
         Walk!Unterminated, WalkP!Unterminated
<1>2. ASSUME NEW n \in NameLengths \cup {Walk!Unterminated}, Walk!BeginNode(n)
      PROVE  WalkP!Next
  BY <1>1, <1>2, SameBeginNode DEF WalkP!Next
<1>3. ASSUME NEW len \in PropLengths, NEW name \in Reachable,
             NEW value \in Walk!Values, Walk!Property(len, name, value)
      PROVE  WalkP!Next
  BY <1>1, <1>3, SameProperty DEF WalkP!Next
<1> QED BY <1>2, <1>3, SameBareTokens DEF WalkToken

-----------------------------------------------------------------------------
(* Both parts together.                                                    *)

\* The walk's variables before the walk.
Untouched ==
    /\ walk_at = "loop" /\ pos = 0 /\ depth = 0 /\ roots = 0
    /\ has_child = [d \in 0 .. DT_DEPTH_LIMIT - 1 |-> FALSE]
    /\ model = Walk!Model("unavailable", 0) /\ walk_verdict = Walk!Observed
    /\ tokens = <<>> /\ walk_extent = 0

\* What the walk has read is a tree so far, whoever asks.
LEMMA WalkUntouched == Untouched => WalkP!WalkInv
  BY WalkP!WalkStart DEF Untouched, Walk!Model, Walk!Observed, Walk!Result,
     WalkP!Model, WalkP!Observed, WalkP!Result

TreeInv ==
    /\ BInv
    /\ WalkP!WalkInv
    /\ at # "walk" => Untouched
    /\ at = "walk" => Walk!TypeOK /\ Walk!StaysInBlock

LEMMA TreeInitial == TreeInit => TreeInv
<1> SUFFICES ASSUME TreeInit PROVE TreeInv
  OBVIOUS
<1>1. BInv
  BY BlocksInit DEF TreeInit
<1>2. at # "walk" /\ Untouched
  BY DEF TreeInit, Init, Walk!Init, Untouched
<1> QED BY <1>1, <1>2, WalkUntouched DEF TreeInv

\* The handover: the walk begins with a block that is a whole number of
\* words.
LEMMA CheckStep == TreeInv /\ Check => TreeInv'
<1> SUFFICES ASSUME TreeInv, Check PROVE TreeInv'
  OBVIOUS
<1>1. BInv'
  BY BlocksNext DEF TreeInv, Check
<1>2. at # "walk" /\ Untouched'
  <2>1. at # "walk"
    BY DEF Check, Next, Firmware, Header, Blocks, RsvUnterminated, Reservation
  <2> QED BY <2>1 DEF TreeInv, Check, Untouched, walk_vars
<1>3. ASSUME at' = "walk" PROVE Walk!TypeOK' /\ Walk!StaysInBlock'
  <2>1. layout'.size_struct \in WordSizes /\ layout'.size_struct \in Nat
    BY <1>1, <1>3, BlocksAssumption
    DEF BInv, MapSound, Misaligned, Layouts, WordSizes
  <2>2. Walk!TypeOK'
    BY <1>2, <2>1, TreeAssumption
    DEF Untouched, Walk!TypeOK, Walk!Model, Walk!Observed, Walk!Result,
        Walk!State, Walk!Details
  <2>3. Walk!StaysInBlock'
    BY <1>2, <2>1 DEF Untouched, Walk!StaysInBlock
  <2> QED BY <2>2, <2>3
<1>4. (Untouched => WalkP!WalkInv)'
  BY WalkUntouched, PTL
<1> QED BY <1>1, <1>2, <1>3, <1>4 DEF TreeInv

LEMMA WalkInvariant == TreeInv /\ WalkStep => TreeInv'
<1> SUFFICES ASSUME TreeInv, WalkStep PROVE TreeInv'
  OBVIOUS
<1>1. BInv' /\ at = "walk" /\ at' = "walk"
  BY BlocksNext DEF TreeInv, WalkStep, vars
<1>2. WalkP!SInv /\ WalkP!WalkInv /\ WalkP!Next
  BY <1>1, SameInvariant, SameNext DEF TreeInv, WalkStep
<1>3. WalkP!SInv' /\ WalkP!WalkInv'
  BY <1>2, WalkAssumption, WalkP!StructureNext, WalkP!WalkNext
<1>4. Walk!TypeOK' /\ Walk!StaysInBlock'
  BY <1>3 DEF WalkP!SInv,
         Walk!TypeOK, Walk!StaysInBlock, Walk!Details, Walk!State,
         WalkP!TypeOK, WalkP!StaysInBlock, WalkP!Details,
         WalkP!State
<1> QED BY <1>1, <1>3, <1>4 DEF TreeInv

LEMMA TreeStutter == TreeInv /\ UNCHANGED tree_vars => TreeInv'
<1> SUFFICES ASSUME TreeInv, UNCHANGED tree_vars PROVE TreeInv'
  OBVIOUS
<1>1. BInv'
  BY BlocksNext DEF TreeInv, tree_vars
<1>2. UNCHANGED <<at, layout>> /\ UNCHANGED walk_vars
  BY DEF tree_vars, vars
<1>3. CASE at = "walk"
  <2>1. WalkP!SInv /\ WalkP!WalkInv /\ UNCHANGED WalkP!vars
    BY <1>2, <1>3, SameInvariant DEF TreeInv, walk_vars, WalkP!vars
  <2>2. WalkP!WalkInv'
    BY <2>1, WalkAssumption, WalkP!WalkNext
  <2> QED BY <1>1, <1>2, <1>3, <2>2 DEF TreeInv, walk_vars, Walk!TypeOK, Walk!StaysInBlock
<1>4. CASE at # "walk"
  <2>1. (Untouched => WalkP!WalkInv)'
    BY WalkUntouched, PTL
  <2> QED BY <1>1, <1>2, <1>4, <2>1 DEF TreeInv, Untouched, walk_vars
<1> QED BY <1>3, <1>4

\* The invariant holds in every state of the parser.
LEMMA TreeInvariant == TreeSpec => []TreeInv
<1>1. TreeInv /\ [TreeNext]_tree_vars => TreeInv'
  BY CheckStep, WalkInvariant, TreeStutter DEF TreeNext
<1> QED BY TreeInitial, <1>1, PTL DEF TreeSpec

-----------------------------------------------------------------------------
(* The theorems.                                                           *)

\* core.c 98-190: both parts of the parser keep their types; the nesting
\* depth is at most DT_DEPTH_LIMIT, and has_child is indexed inside.
THEOREM TreeTypes == TreeSpec => []TreeTypeOK
<1>1. TreeInv => TreeTypeOK
  BY DEF TreeInv, BInv, TreeTypeOK
<1> QED BY TreeInvariant, <1>1, PTL

\* core.h 46-50: before the walk only the span is read, and the fields of
\* version 17 only after the version check, through both entries.
THEOREM TreeReads == TreeSpec => []ReadsInSpan
<1>1. TreeInv => ReadsInSpan
  BY DEF TreeInv, BInv
<1> QED BY TreeInvariant, <1>1, PTL

\* core.c 117-124: the blocks and every entry of the reservation map that
\* is read are inside the blob and share no byte.
THEOREM TreeLayout == TreeSpec => []LayoutSound
<1>1. TreeInv => LayoutSound
  BY InvSound DEF TreeInv
<1> QED BY TreeInvariant, <1>1, PTL

\* core.c 133-173: the walk reads only the structure block that was placed,
\* and end - pos never wraps, because that block is a number of words.
THEOREM TreeWalk == TreeSpec => []StaysInBlock
<1>1. TreeInv => StaysInBlock
  BY DEF TreeInv, StaysInBlock
<1> QED BY TreeInvariant, <1>1, PTL

\* core.h 46: the whole parser reads only [data, data + available), and the
\* walk no byte that was read as an entry or that names are looked up in.
THEOREM TreeBytes == TreeSpec => []EveryByteOnce
<1>1. ASSUME TreeInv, at = "walk" PROVE EveryByteOnce
  <2>1. /\ layout \in Layouts /\ ~OutOfBounds(layout)
        /\ head \in Heads /\ head.total <= available /\ available \in Nat
    BY <1>1 DEF TreeInv, BInv, TypeOK, MapSound, HeaderSound
  <2>2. /\ layout.struct \in Nat /\ layout.size_struct \in Nat /\ head.total \in Nat
        /\ layout.struct + layout.size_struct <= head.total
    BY <2>1, LayoutNumbers, HeadNumbers DEF OutOfBounds
  <2>3. walk_extent \in Nat /\ walk_extent <= layout.size_struct
    BY <1>1 DEF TreeInv, Walk!TypeOK, Walk!StaysInBlock
  <2>4. WalkBytes \subseteq StructBytes
    BY <2>2, <2>3 DEF WalkBytes, StructBytes, Bytes
  <2>5. LayoutSound
    BY <1>1, InvSound DEF TreeInv
  <2>6. layout.struct + walk_extent <= available
    BY <2>1, <2>2, <2>3
  <2> QED BY <1>1, <2>4, <2>5, <2>6 DEF EveryByteOnce, LayoutSound, InBlob
<1>2. TreeInv => EveryByteOnce
  BY <1>1 DEF EveryByteOnce
<1> QED BY TreeInvariant, <1>2, PTL

\* core.c 117-127: blocks are refused only when two of them are in
\* each other's way, and a map only when its next entry would be in the way
\* of a block that follows it or leave the blob.
THEOREM TreeRefusals == TreeSpec => []RefusesOnlyUnsound
<1>1. TreeInit => RefusalInv
  BY DEF TreeInit, Init, RefusalInv, LimitIsAnEnd, RefusesOnlyUnsound, Observed, Result
<1>2. TreeInv /\ RefusalInv /\ [TreeNext]_tree_vars => RefusalInv'
  BY RefusalNext DEF TreeInv, TreeNext, Check, WalkStep, tree_vars
<1>3. RefusalInv => RefusesOnlyUnsound
  BY DEF RefusalInv
<1> QED BY TreeInvariant, <1>1, <1>2, <1>3, PTL DEF TreeSpec

-----------------------------------------------------------------------------
(* The tree.  The words of the walk mean the same in both instances.       *)

LEMMA SameCardinality == \A S : Walk!Cardinality(S) = WalkP!Cardinality(S)
  BY DEF Walk!Cardinality, WalkP!Cardinality

LEMMA SameWords ==
    /\ \A t : Walk!IsBegin(t) <=> WalkP!IsBegin(t)
    /\ \A ts : Walk!Level(ts) = WalkP!Level(ts)
    /\ \A ts, i : Walk!Before(ts, i) = WalkP!Before(ts, i)
    /\ Walk!Observed = WalkP!Observed
<1>1. \A t : Walk!IsBegin(t) <=> WalkP!IsBegin(t)
  BY DEF Walk!IsBegin, WalkP!IsBegin
<1>2. ASSUME NEW ts PROVE Walk!Level(ts) = WalkP!Level(ts)
  <2>1. {i \in DOMAIN ts : Walk!IsBegin(ts[i])} = {i \in DOMAIN ts : WalkP!IsBegin(ts[i])}
    BY <1>1
  <2> QED BY <2>1, SameCardinality DEF Walk!Level, WalkP!Level
<1>3. ASSUME NEW ts, NEW i PROVE Walk!Before(ts, i) = WalkP!Before(ts, i)
  BY DEF Walk!Before, WalkP!Before
<1>4. Walk!Observed = WalkP!Observed
  BY DEF Walk!Observed, WalkP!Observed, Walk!Result, WalkP!Result
<1> QED BY <1>1, <1>2, <1>3, <1>4

LEMMA SameTree ==
    /\ \A ts, i : Walk!TokenInPlace(ts, i) <=> WalkP!TokenInPlace(ts, i)
    /\ \A ts : Walk!IsTree(ts) <=> WalkP!IsTree(ts)
<1>1. ASSUME NEW ts, NEW j, NEW i
      PROVE  Walk!ClosesSubnode(ts, j, i) <=> WalkP!ClosesSubnode(ts, j, i)
  BY SameWords DEF Walk!ClosesSubnode, WalkP!ClosesSubnode
<1>2. ASSUME NEW ts, NEW i
      PROVE  Walk!TokenInPlace(ts, i) <=> WalkP!TokenInPlace(ts, i)
  BY <1>1, SameWords DEF Walk!TokenInPlace, WalkP!TokenInPlace
<1> QED BY <1>2 DEF Walk!IsTree, WalkP!IsTree

\* core.c 133-175: parse_dt takes a blob for a device tree only when its
\* structure block is one, whatever header, blocks and map brought the walk
\* to it.
THEOREM TreeAccepts == TreeSpec => []AcceptsOnlyTrees
<1>1. TreeInv => AcceptsOnlyTrees
  BY SameWords, SameTree
  DEF TreeInv, WalkP!WalkInv, AcceptsOnlyTrees, Walk!AcceptsOnlyTrees,
      WalkP!AcceptsOnlyTrees
<1> QED BY TreeInvariant, <1>1, PTL

\* core.c 138-172: and the walk refuses it only for a token out of place, a
\* name or a value that leaves its block, or a block that does not end with
\* FDT_END.
THEOREM TreeRejects == TreeSpec => []RejectsOnlyOthers
<1>1. TreeInv => RejectsOnlyOthers
  BY SameWords, SameTree
  DEF TreeInv, WalkP!WalkInv, RejectsOnlyOthers, Walk!RejectsOnlyOthers,
      WalkP!RejectsOnlyOthers
<1> QED BY TreeInvariant, <1>1, PTL

\* core.c 50-66 and 160-166: take_model, called once per property, leaves the
\* model that all of the root's model properties together deserve.
THEOREM TreeModel == TreeSpec => []ModelIsTheRoots
<1>1. Walk!RootModels = WalkP!RootModels
  BY SameWords DEF Walk!RootModels, WalkP!RootModels
<1>2. Walk!ModelIsTheRoots <=> WalkP!ModelIsTheRoots
  <2>1. /\ Walk!Model("not_probed", 0) = WalkP!Model("not_probed", 0)
        /\ Walk!Model("unavailable", 0) = WalkP!Model("unavailable", 0)
        /\ Walk!Model("malformed", 0) = WalkP!Model("malformed", 0)
    BY DEF Walk!Model, WalkP!Model
  <2> QED BY <1>1, <2>1, SameCardinality, SameWords, Zenon DEF Walk!ModelIsTheRoots, WalkP!ModelIsTheRoots
<1>3. TreeInv => ModelIsTheRoots
  BY <1>2 DEF TreeInv, WalkP!WalkInv, ModelIsTheRoots
<1> QED BY TreeInvariant, <1>3, PTL
=============================================================================
