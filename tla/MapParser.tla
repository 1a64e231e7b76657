----------------------------- MODULE MapParser -----------------------------
(***************************************************************************)
(* parse_map of core.c: the header checks and the descriptor loop, one     *)
(* descriptor per step.  The descriptors are whatever lies in the buffer,  *)
(* so each one is chosen when the loop reads it; a descriptor is read as   *)
(* its first DESCRIPTOR_BYTES at i * stride, whatever the stride.          *)
(***************************************************************************)
EXTENDS MapChecks, Sequences

CONSTANTS
    REPORTED_DESCRIPTORS,  \* descriptors listed in the record
    Capacities, Lengths, MapStrides, MapVersions,  \* arguments of parse_map
    Physical, Virtual, Pages    \* words a descriptor may hold

ASSUME ParserAssumption ==
    /\ REPORTED_DESCRIPTORS \in Nat
    /\ Capacities \subseteq Nat /\ Lengths \subseteq Nat
    /\ MapStrides \subseteq Nat /\ MapVersions \subseteq Nat
    /\ Physical \subseteq Word /\ Virtual \subseteq Word /\ Pages \subseteq Word

VARIABLES
    at,         \* "header", "loop" or "returned"
    capacity, length, stride, version,  \* the arguments
    i,          \* index of the loop
    count,      \* r.count
    entries,    \* r.entries
    verdict,    \* r.state and r.detail
    seen,       \* history: the descriptors read so far
    extent      \* history: end of the furthest byte read

arguments == <<capacity, length, stride, version>>
vars == <<at, arguments, i, count, entries, verdict, seen, extent>>

Init ==
    /\ at = "header"
    /\ capacity \in Capacities /\ length \in Lengths
    /\ stride \in MapStrides /\ version \in MapVersions
    /\ i = 0 /\ count = 0 /\ entries = <<>> /\ verdict = Observed
    /\ seen = <<>> /\ extent = 0

\* Returns a result without an observation: no count, no entries.
Reject(r) ==
    /\ at' = "returned"
    /\ verdict' = r /\ count' = 0 /\ entries' = <<>>

HeaderRejected ==
    /\ at = "header"
    /\ map_header(capacity, length, stride, version) # Observed
    /\ Reject(map_header(capacity, length, stride, version))
    /\ UNCHANGED <<arguments, i, seen, extent>>

HeaderAccepted ==
    /\ at = "header"
    /\ map_header(capacity, length, stride, version) = Observed
    /\ at' = "loop"
    /\ UNCHANGED <<arguments, i, count, entries, verdict, seen, extent>>

\* Mistaken variant: the loop takes one descriptor too many.
OneDescriptorMore == length \div stride + 1

Descriptors == length \div stride

Listed(n) == n < REPORTED_DESCRIPTORS

\* The bytes of descriptor i are read before any of its words is checked.
Read(d) ==
    /\ at = "loop"
    /\ i < Descriptors
    /\ seen' = Append(seen, d)
    /\ extent' = i * stride + DESCRIPTOR_BYTES

DescriptorRejected(d) ==
    /\ Read(d)
    /\ descriptor_verdict(d) # Observed
    /\ Reject(descriptor_verdict(d))
    /\ UNCHANGED <<arguments, i>>

DescriptorAccepted(d) ==
    /\ Read(d)
    /\ descriptor_verdict(d) = Observed
    /\ entries' = IF Listed(count) THEN Append(entries, d) ELSE entries
    /\ count' = count + 1
    /\ i' = i + 1
    /\ UNCHANGED <<at, arguments, verdict>>

LoopEnds ==
    /\ at = "loop"
    /\ i = Descriptors
    /\ at' = "returned"
    /\ UNCHANGED <<arguments, i, count, entries, verdict, seen, extent>>

InBuffer == [physical : Physical, virtual_address : Virtual, pages : Pages]

Next ==
    \/ HeaderRejected \/ HeaderAccepted \/ LoopEnds
    \/ \E d \in InBuffer : DescriptorRejected(d) \/ DescriptorAccepted(d)

Spec == Init /\ [][Next]_vars

-----------------------------------------------------------------------------
(* Properties.                                                             *)

TypeOK ==
    /\ at \in {"header", "loop", "returned"}
    /\ capacity \in Nat /\ length \in Nat /\ stride \in Nat /\ version \in Nat
    /\ i \in Nat /\ count \in Nat /\ extent \in Nat
    /\ verdict \in Result
    /\ seen \in Seq(Descriptor) /\ entries \in Seq(Descriptor)
    /\ Len(entries) <= REPORTED_DESCRIPTORS

\* The words of a valid descriptor, without wrapping: the region and its
\* virtual image both end at or below the last address, on a page start.
Valid(d) ==
    /\ d.physical + d.pages * EFI_PAGE_BYTES <= UINT64_MAX
    /\ d.virtual_address + d.pages * EFI_PAGE_BYTES <= UINT64_MAX
    /\ d.physical % EFI_PAGE_BYTES = 0

\* core.h, "Reads only [data, data + length) and only after length <=
\* capacity is checked": no byte beyond the returned map, or beyond the
\* buffer, is read, whatever the stride.
ReadsStayInMap ==
    extent # 0 => extent <= length /\ length <= capacity /\ capacity <= MAP_LIMIT

\* An observed map is one in which every descriptor was read and is valid,
\* and whose list is the longest prefix that has room: `count` minus the
\* list is what the record calls omitted.
ObservedMapIsValid ==
    at = "returned" /\ verdict = Observed =>
      /\ count * stride = length /\ count = Len(seen) /\ count > 0
      /\ \A n \in 1 .. count : Valid(seen[n])
      /\ Len(entries) = IF count < REPORTED_DESCRIPTORS
                           THEN count ELSE REPORTED_DESCRIPTORS
      /\ \A n \in 1 .. Len(entries) : entries[n] = seen[n]

\* No valid descriptor is rejected, whatever the 64-bit arithmetic does:
\* when the loop rejects a map, the descriptor it read last is invalid and
\* the ones before it are valid, and nothing of them is reported.
RejectedMapIsInvalid ==
    at = "returned" /\ verdict # Observed /\ seen # <<>> =>
      /\ ~Valid(seen[Len(seen)])
      /\ \A n \in 1 .. Len(seen) - 1 : Valid(seen[n])
      /\ count = 0 /\ entries = <<>>
=============================================================================
