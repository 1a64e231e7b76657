----------------------------- MODULE MapChecks -----------------------------
(***************************************************************************)
(* The pure decisions of core.c about the UEFI memory map: whether a range *)
(* has a representable end, how a BUFFER_TOO_SMALL answer is classified    *)
(* and what the next capacity is, and the checks parse_map makes before    *)
(* and inside its descriptor loop.                                         *)
(*                                                                         *)
(* Sizes are natural numbers.  size_t arithmetic cannot wrap here: every   *)
(* subtraction and product is guarded by a comparison with MAP_LIMIT       *)
(* first.  The 64-bit words of a descriptor do wrap, so their arithmetic   *)
(* is taken modulo UINT64_MAX + 1.                                         *)
(***************************************************************************)
EXTENDS Efi, Naturals

CONSTANTS
    MAP_LIMIT,         \* largest pool buffer ever requested, in bytes
    DESCRIPTOR_BYTES,  \* sizeof(EFI_MEMORY_DESCRIPTOR)
    UINT64_MAX,        \* largest value of a descriptor's words
    EFI_PAGE_BYTES     \* bytes in a page

ASSUME MapConstantsAssumption ==
    /\ MAP_LIMIT \in Nat \ {0}
    /\ DESCRIPTOR_BYTES \in Nat \ {0}
    /\ UINT64_MAX \in Nat
    /\ EFI_PAGE_BYTES \in Nat \ {0}

Word == 0 .. UINT64_MAX

\* The details a map result can carry ("null" when there is none).
Detail == {"null", "service_missing", "retry_limit", "allocation_failed",
           "allocation_null", "release_failed", "efi_error",
           "warning_status", "too_small_stride", "too_small_inconsistent",
           "size_limit", "buffer", "size_exceeds_buffer",
           "descriptor_version", "stride", "empty", "partial_descriptor",
           "pages_overflow", "range_overflow", "unaligned_physical"}

Result == [state : State, detail : Detail]

\* map_state and map_fail: a result that carries no observation.
map_state(s, detail) == [state |-> s, detail |-> detail]
Observed == map_state("observed", "null")

-----------------------------------------------------------------------------
(* Growing after EFI_BUFFER_TOO_SMALL.                                     *)

\* Mistaken variant: room for one descriptor only.
OneDescriptorOfSlack(stride) == stride

\* The room kept for a region that the next AllocatePool may split.
Slack(stride) == 2 * stride

StrideUnfit(stride) == stride < DESCRIPTOR_BYTES \/ stride > MAP_LIMIT

\* Mistaken variant: the slack is not checked against the limit.
SlackUnchecked(required, stride) == required > MAP_LIMIT

ExceedsLimit(required, stride) ==
    required > MAP_LIMIT \/ MAP_LIMIT - required < Slack(stride)

\* A refusal offers no capacity.
Refuse(verdict) == [next |-> 0, grow |-> verdict]

map_next_capacity(capacity, required, stride) ==
    IF StrideUnfit(stride)
      THEN Refuse(map_state("malformed", "too_small_stride"))
    ELSE IF required <= capacity
      THEN Refuse(map_state("malformed", "too_small_inconsistent"))
    ELSE IF ExceedsLimit(required, stride)
      THEN Refuse(map_state("unsupported", "size_limit"))
    ELSE [next |-> required + Slack(stride), grow |-> Observed]

-----------------------------------------------------------------------------
(* The checks parse_map makes before it reads a descriptor.  Its test for  *)
(* a null pointer is left out: the probe passes a buffer it was given.     *)

\* Mistaken variants: a check is forgotten.
SizeUnchecked(capacity, length) == FALSE
PartialUnchecked(length, stride) == FALSE

SizeExceedsBuffer(capacity, length) == length > capacity
PartialDescriptor(length, stride) == length % stride # 0

map_header(capacity, length, stride, version) ==
    IF capacity = 0 \/ capacity > MAP_LIMIT THEN map_state("malformed", "buffer")
    ELSE IF SizeExceedsBuffer(capacity, length)
           THEN map_state("malformed", "size_exceeds_buffer")
    ELSE IF version # 1 THEN map_state("unsupported", "descriptor_version")
    ELSE IF stride < DESCRIPTOR_BYTES \/ stride > capacity
           THEN map_state("malformed", "stride")
    ELSE IF length = 0 THEN map_state("malformed", "empty")
    ELSE IF PartialDescriptor(length, stride) THEN map_state("malformed", "partial_descriptor")
    ELSE Observed

-----------------------------------------------------------------------------
(* The checks on one descriptor.                                           *)

Descriptor == [physical : Word, virtual_address : Word, pages : Word]

\* Mistaken variants: a range may end at 2^64; the last byte is lost.
EndsAtTop(start, length) == length <= UINT64_MAX - start + 1
EndsBelowTop(start, length) == length < UINT64_MAX - start

range_ok(start, length) == length <= UINT64_MAX - start

PagesOverflow(pages) == pages > UINT64_MAX \div EFI_PAGE_BYTES

\* d.pages * EFI_PAGE_BYTES in unsigned 64-bit arithmetic.
RegionBytes(pages) == (pages * EFI_PAGE_BYTES) % (UINT64_MAX + 1)

descriptor_verdict(d) ==
    IF PagesOverflow(d.pages) THEN map_state("malformed", "pages_overflow")
    ELSE IF \/ ~range_ok(d.physical, RegionBytes(d.pages))
            \/ ~range_ok(d.virtual_address, RegionBytes(d.pages))
           THEN map_state("malformed", "range_overflow")
    ELSE IF d.physical % EFI_PAGE_BYTES # 0
           THEN map_state("malformed", "unaligned_physical")
    ELSE Observed

\* Every verdict the descriptor loop of parse_map can return.
LoopVerdicts == {Observed} \cup
    {map_state("malformed", w) :
        w \in {"pages_overflow", "range_overflow", "unaligned_physical"}}
=============================================================================
