------------------------------ MODULE DtBlocks ------------------------------
(***************************************************************************)
(* What parse_firmware_dt and parse_dt of core.c do before the structure   *)
(* walk (module DtStructure): the header, the placement of the three       *)
(* blocks, and the memory reservation map up to its all-zero entry.        *)
(*                                                                         *)
(* The two entries differ in what they may read: parse_dt is given a span, *)
(* parse_firmware_dt has only the magic and the length the blob declares.  *)
(* `available` is what may be read at the moment, `extent` what was read.  *)
(***************************************************************************)
EXTENDS Efi, Integers

CONSTANTS
    DT_LIMIT,      \* largest totalsize
    UINT64_MAX,    \* largest word of a reservation entry
    Spans, Totals,  \* values of available and totalsize
    Versions,       \* pairs of version and last_comp_version
    Offsets, Sizes,           \* values of the off_* and size_* fields
    Words          \* words of a reservation entry

FDT_HEADER == 40
EntryBytes == 16
TotalsizeEnd == 8    \* the fields of the header end here
VersionEnd == 28
V17End == 40

ASSUME BlocksAssumption ==
    /\ DT_LIMIT \in Nat /\ UINT64_MAX \in Nat
    /\ Spans \subseteq Nat /\ Totals \subseteq Nat
    /\ Versions \subseteq [version : Nat, last : Nat]
    /\ Offsets \subseteq Nat /\ Sizes \subseteq Nat
    /\ Words \subseteq 0 .. UINT64_MAX

VARIABLES
    at,         \* "firmware", "header", "blocks", "rsvmap", "walk", "returned"
    head,       \* p, and the fields the version check and the limits use
    available,  \* the argument of parse_dt
    layout,     \* the off_* and size_* fields
    rsv, limit, \* the position in the reservation map, and where it must end
    verdict,    \* r.state and r.detail
    extent      \* history: end of the furthest byte read

vars == <<at, head, available, layout, rsv, limit, verdict, extent>>

Result(s, detail) == [state |-> s, detail |-> detail]
malformed(detail) == Result("malformed", detail)
unsupported(detail) == Result("unsupported", detail)
Observed == Result("observed", "null")
Details == {"null", "null_pointer", "header_truncated", "magic", "version",
            "size_limit", "totalsize", "totalsize_exceeds_span", "alignment",
            "block_bounds", "block_overlap", "rsvmap_unterminated", "rsvmap_range"}

Heads == [present : BOOLEAN, magic : BOOLEAN, total : Totals, format : Versions]
Layouts == [rsv : Offsets, struct : Offsets, strings : Offsets,
            size_struct : Sizes, size_strings : Sizes]
\* Not read yet.
NoLayout == [rsv |-> 0, struct |-> 0, strings |-> 0, size_struct |-> 0, size_strings |-> 0]

Init ==
    /\ head \in Heads
    /\ \/ at = "firmware" /\ available = TotalsizeEnd
       \/ at = "header" /\ available \in Spans
    /\ layout = NoLayout
    /\ rsv = 0 /\ limit = 0 /\ verdict = Observed /\ extent = 0

Larger(a, b) == IF a < b THEN b ELSE a

\* Goes on with `next`, or returns the verdict.
Continue(v, next) ==
    /\ verdict' = v
    /\ at' = IF v = Observed THEN next ELSE "returned"

-----------------------------------------------------------------------------
(* The header.                                                             *)

OutsideLimits ==
    IF head.total > DT_LIMIT THEN unsupported("size_limit")
    ELSE IF head.total < FDT_HEADER THEN malformed("totalsize")
    ELSE Observed

FirmwareVerdict ==
    IF ~head.present THEN malformed("null_pointer")
    ELSE IF ~head.magic THEN malformed("magic")
    ELSE OutsideLimits

\* parse_firmware_dt: the declared length becomes the span.
Firmware ==
    /\ at = "firmware"
    /\ Continue(FirmwareVerdict, "header")
    /\ available' = IF FirmwareVerdict = Observed THEN head.total ELSE available
    /\ extent' = IF ~head.present THEN 0 ELSE IF head.magic THEN TotalsizeEnd ELSE 4
    /\ UNCHANGED <<head, layout, rsv, limit>>

\* A reader of version 17 may interpret the blob.
Readable ==
    LET format == head.format
    IN format.version >= 17 /\ format.last <= 17 /\ format.last <= format.version

\* Mistaken variant: the declared length is taken for the readable one.
SpanUnchecked == FALSE

ExceedsSpan == head.total > available

HeaderVerdict ==
    IF ~head.present THEN malformed("null_pointer")
    ELSE IF available < FDT_HEADER THEN malformed("header_truncated")
    ELSE IF ~head.magic THEN malformed("magic")
    ELSE IF ~Readable THEN unsupported("version")
    ELSE IF OutsideLimits # Observed THEN OutsideLimits
    ELSE IF ExceedsSpan THEN malformed("totalsize_exceeds_span")
    ELSE Observed

Header ==
    /\ at = "header"
    /\ Continue(HeaderVerdict, "blocks")
    /\ extent' = IF ~head.present \/ available < FDT_HEADER THEN extent
                 ELSE Larger(extent, IF head.magic THEN VersionEnd ELSE 4)
    /\ UNCHANGED <<head, available, layout, rsv, limit>>

-----------------------------------------------------------------------------
(* The placement of the blocks.                                            *)

disjoint(a, al, b, bl) == a + al <= b \/ b + bl <= a

Misaligned(l) == l.rsv % 8 # 0 \/ l.struct % 4 # 0 \/ l.size_struct % 4 # 0

OutOfBounds(l) ==
    \/ \E o \in {l.rsv, l.struct, l.strings} : o < FDT_HEADER \/ o > head.total
    \/ l.size_struct > head.total - l.struct
    \/ l.size_strings > head.total - l.strings

\* Mistaken variant: the map's place is not compared with the strings.
MapIgnored(l) ==
    ~disjoint(l.struct, l.size_struct, l.strings, l.size_strings)

Overlap(l) ==
    \/ ~disjoint(l.rsv, 1, l.struct, l.size_struct)
    \/ ~disjoint(l.rsv, 1, l.strings, l.size_strings)
    \/ ~disjoint(l.struct, l.size_struct, l.strings, l.size_strings)

BlocksVerdict(l) ==
    IF Misaligned(l) THEN malformed("alignment")
    ELSE IF OutOfBounds(l) THEN malformed("block_bounds")
    ELSE IF Overlap(l) THEN malformed("block_overlap")
    ELSE Observed

\* Mistaken variant: an empty block ends the map as well.
EmptyBlockEnds(from, off, size, end) ==
    IF off > from /\ off < end THEN off ELSE end

\* The end of the map at `from`, lowered to a block that follows it.
LoweredTo(from, off, size, end) ==
    IF size # 0 /\ off > from /\ off < end THEN off ELSE end

\* Mistaken variant: the map may run into a structure block that follows.
StringsOnly(l) == LoweredTo(l.rsv, l.strings, l.size_strings, head.total)

Limit(l) ==
    LoweredTo(l.rsv, l.strings, l.size_strings,
              LoweredTo(l.rsv, l.struct, l.size_struct, head.total))

Blocks ==
    /\ at = "blocks"
    /\ \E l \in Layouts :
          /\ layout' = l
          /\ Continue(BlocksVerdict(l), "rsvmap")
          /\ rsv' = l.rsv /\ limit' = Limit(l)
    /\ extent' = V17End
    /\ UNCHANGED <<head, available>>

-----------------------------------------------------------------------------
(* The reservation map.                                                    *)

EntryFits == limit - rsv >= EntryBytes
NextEntry == rsv + EntryBytes

RsvUnterminated ==
    /\ at = "rsvmap" /\ ~EntryFits
    /\ Continue(malformed("rsvmap_unterminated"), "rsvmap")
    /\ UNCHANGED <<head, available, layout, rsv, limit, extent>>

range_ok(start, length) == length <= UINT64_MAX - start

Reservation(address, size) ==
    /\ at = "rsvmap" /\ EntryFits
    /\ rsv' = NextEntry /\ extent' = rsv + EntryBytes
    /\ Continue(IF range_ok(address, size) THEN Observed ELSE malformed("rsvmap_range"),
                IF address = 0 /\ size = 0 THEN "walk" ELSE "rsvmap")
    /\ UNCHANGED <<head, available, layout, limit>>

Next ==
    \/ Firmware \/ Header \/ Blocks \/ RsvUnterminated
    \/ \E address, size \in Words : Reservation(address, size)

Spec == Init /\ [][Next]_vars

-----------------------------------------------------------------------------
(* Properties.                                                             *)

TypeOK ==
    /\ at \in {"firmware", "header", "blocks", "rsvmap", "walk", "returned"}
    /\ head \in Heads /\ layout \in Layouts \cup {NoLayout}
    /\ available \in Nat /\ extent \in Nat /\ rsv \in Nat
    /\ limit \in 0 .. DT_LIMIT
    /\ verdict \in [state : State, detail : Details]

\* core.h: parse_dt "reads only [data, data + available)", and
\* parse_firmware_dt the 8 header bytes first; README: "no v17-only field
\* is read before the version check".
ReadsInSpan ==
    /\ extent <= available
    /\ extent > VersionEnd => Readable

Bytes(start, n) == start .. start + n - 1
StructBytes == Bytes(layout.struct, layout.size_struct)
StringsBytes == Bytes(layout.strings, layout.size_strings)
InBlob(bytes) == bytes \subseteq FDT_HEADER .. head.total - 1

\* Once the placement is accepted, the structure block is aligned, no byte
\* is claimed twice, and however many entries the map turns out to have,
\* none of them is in another block or behind the blob; limit - rsv cannot
\* wrap.
LayoutSound ==
    at \in {"rsvmap", "walk"} =>
      /\ layout.struct % 4 = 0 /\ layout.size_struct % 4 = 0
      /\ rsv <= limit
      /\ \A s \in {StructBytes, StringsBytes} :
            InBlob(s) /\ Bytes(layout.rsv, rsv - layout.rsv) \cap s = {}
      /\ StructBytes \cap StringsBytes = {}
      /\ InBlob(Bytes(layout.rsv, rsv - layout.rsv))

\* An empty block has a place too, and counts as overlapping what is on
\* both sides of it.
SharesPlace(a, n, b, k) ==
    \/ Bytes(a, n) \cap Bytes(b, k) # {}
    \/ n = 0 /\ a \in Bytes(b, k) \ {b}
    \/ k = 0 /\ b \in Bytes(a, n) \ {a}

\* A blob is refused for its blocks only when two of them are in each
\* other's way, and for an unterminated map only when the next entry would
\* be in the way of a block that follows it or leave the blob.
RefusesOnlyUnsound ==
    /\ verdict.detail = "block_overlap" =>
         \/ SharesPlace(layout.struct, layout.size_struct, layout.strings, layout.size_strings)
         \/ layout.rsv \in StructBytes \cup StringsBytes
    /\ verdict.detail = "rsvmap_unterminated" =>
         \/ Bytes(rsv, EntryBytes) \cap (StructBytes \cup StringsBytes) # {}
         \/ ~InBlob(Bytes(rsv, EntryBytes))

\* Whatever the entries are, each one read takes its bytes from the room
\* that is left, which never falls below zero: the map is read to an end.
RoomShrinks ==
    [][at = "rsvmap" => /\ at' = "rsvmap" => limit' - rsv' <= limit - rsv - EntryBytes
                        /\ limit' - rsv' >= 0]_vars
=============================================================================
