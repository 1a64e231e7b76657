--------------------------- MODULE MapAcquisition ---------------------------
(***************************************************************************)
(* acquire_map of probe.c: the loop that allocates a pool buffer, asks the *)
(* firmware for its memory map, grows the buffer when it was too small,    *)
(* and releases every buffer it was given.                                 *)
(*                                                                         *)
(* The firmware is the other actor: it answers each AllocatePool,          *)
(* GetMemoryMap and FreePool in any way, and between two calls the probe   *)
(* takes one step of its own.  The pool is the firmware's view of the      *)
(* buffers, one per attempt.  The descriptors of a returned map are        *)
(* abstracted to the verdict that parse_map's loop reaches on them         *)
(* (module MapParser has the loop itself).                                 *)
(***************************************************************************)
EXTENDS MapChecks

CONSTANTS
    MAP_INITIAL,    \* capacity of the first attempt
    MAP_ATTEMPTS,   \* bound on AllocatePool calls
    Statuses,       \* statuses the firmware answers with (bounds the model)
    Sizes,          \* sizes GetMemoryMap may answer (bounds the model)
    Strides,        \* descriptor sizes GetMemoryMap may answer
    Versions,       \* descriptor versions GetMemoryMap may answer
    Contents        \* verdicts the descriptors of a map may deserve

ASSUME AcquisitionAssumption ==
    /\ MAP_INITIAL \in 1 .. MAP_LIMIT
    /\ MAP_ATTEMPTS \in Nat \ {0}
    /\ {"EFI_SUCCESS", "EFI_BUFFER_TOO_SMALL"} \subseteq Statuses
    /\ Statuses \subseteq EFI_STATUS
    /\ Sizes \subseteq Nat /\ Strides \subseteq Nat /\ Versions \subseteq Nat
    /\ Contents \subseteq LoopVerdicts

VARIABLES
    pc,              \* where acquire_map stands, named for its next call
    cap,             \* capacity of the next or current buffer
    attempts,        \* a.attempts
    releases,        \* a.releases
    release_status,  \* a.release_status: first FreePool answer not success
    efi_status,      \* a.efi_status
    map,             \* a.map
    buffer,          \* the buffer in scope, named by its attempt; 0 is NULL
    answer,          \* this attempt's GetMemoryMap answer
    growth,          \* what map_next_capacity said of the last answer
    pool,            \* firmware: each attempt's allocation and releases
    read             \* history: how much of a buffer parse_map has read

acquisition == <<cap, attempts, releases, release_status, efi_status, map>>
vars == <<pc, acquisition, buffer, answer, growth, pool, read>>

Attempts == 1 .. MAP_ATTEMPTS
Held == {"GetMemoryMap", "classify", "FreePool_retry", "FreePool_final"}
Steps == Held \cup {"entry", "AllocatePool", "done"}

NULL == 0
NoAnswer == [status |-> "EFI_SUCCESS", size |-> 0, stride |-> 0,
             version |-> 0, contents |-> Observed]
NoGrowth == [next |-> 0, grow |-> Observed]

\* A MapResult: verdict, descriptor count and stride.
MapResult(r, count, stride) ==
    [state |-> r.state, detail |-> r.detail, count |-> count, stride |-> stride]
map_fail(s, detail) == MapResult(map_state(s, detail), 0, 0)

Init ==
    /\ pc = "entry"
    /\ cap = MAP_INITIAL
    /\ attempts = 0 /\ releases = 0
    /\ release_status = "EFI_SUCCESS" /\ efi_status = "EFI_SUCCESS"
    /\ map = map_fail("unavailable", "service_missing")
    /\ buffer = NULL /\ answer = NoAnswer /\ growth = NoGrowth
    /\ pool = [b \in Attempts |-> [bytes |-> 0, tries |-> 0, status |-> "EFI_SUCCESS"]]
    /\ read = [bytes |-> 0, held |-> TRUE]

-----------------------------------------------------------------------------
(* Entry and allocation.                                                   *)

\* A boot service is missing: nothing is called.
ServiceMissing ==
    /\ pc = "entry"
    /\ pc' = "done"
    /\ UNCHANGED <<acquisition, buffer, answer, growth, pool, read>>

ServicesPresent ==
    /\ pc = "entry"
    /\ pc' = "AllocatePool"
    /\ UNCHANGED <<acquisition, buffer, answer, growth, pool, read>>

\* Mistaken variant: the bound is off by one.
OneAttemptMore == attempts <= MAP_ATTEMPTS

MayAttempt == attempts # MAP_ATTEMPTS

RetryLimit ==
    /\ pc = "AllocatePool"
    /\ ~MayAttempt
    /\ map' = map_fail("unsupported", "retry_limit")
    /\ pc' = "done"
    /\ UNCHANGED <<cap, attempts, releases, release_status, efi_status,
                   buffer, answer, growth, pool, read>>

\* The common part of every AllocatePool call.
Attempt ==
    /\ pc = "AllocatePool"
    /\ MayAttempt
    /\ attempts' = attempts + 1
    /\ UNCHANGED <<cap, releases, release_status, answer, growth, read>>

AllocationFailed(s) ==
    /\ Attempt
    /\ EFI_ERROR(s)
    /\ efi_status' = s
    /\ map' = map_fail("unavailable", "allocation_failed")
    /\ pc' = "done"
    /\ UNCHANGED <<buffer, pool>>

\* Success or a warning, but no buffer.
AllocationNull ==
    /\ Attempt
    /\ map' = map_fail("malformed", "allocation_null")
    /\ pc' = "done"
    /\ UNCHANGED <<efi_status, buffer, pool>>

\* Success or a warning with a buffer: the probe owns it from here on.
Allocated ==
    /\ Attempt
    /\ buffer' = attempts'
    /\ pool' = [pool EXCEPT ![attempts'].bytes = cap]
    /\ pc' = "GetMemoryMap"
    /\ UNCHANGED <<efi_status, map>>

-----------------------------------------------------------------------------
(* GetMemoryMap, and the classification of its answer.                     *)

GetMemoryMap(s, size, stride, version, contents) ==
    /\ pc = "GetMemoryMap"
    /\ answer' = [status |-> s, size |-> size, stride |-> stride,
                  version |-> version, contents |-> contents]
    /\ efi_status' = s
    /\ pc' = "classify"
    /\ UNCHANGED <<cap, attempts, releases, release_status, map, buffer,
                   growth, pool, read>>

\* Mistaken variants: an error returns without the release; a too small
\* buffer is offered again.
LeaksOnError(s) ==
    IF s = "EFI_BUFFER_TOO_SMALL" THEN "FreePool_retry"
    ELSE IF EFI_ERROR(s) THEN "done" ELSE "FreePool_final"
OffersSameBuffer(s) ==
    IF s = "EFI_BUFFER_TOO_SMALL" THEN "GetMemoryMap" ELSE "FreePool_final"

\* Which FreePool call the loop comes to after an answer.
AfterAnswer(s) ==
    IF s = "EFI_BUFFER_TOO_SMALL" THEN "FreePool_retry" ELSE "FreePool_final"

TooSmall ==
    /\ pc = "classify"
    /\ answer.status = "EFI_BUFFER_TOO_SMALL"
    /\ growth' = map_next_capacity(cap, answer.size, answer.stride)
    /\ pc' = AfterAnswer(answer.status)
    /\ UNCHANGED <<acquisition, buffer, answer, pool, read>>

\* parse_map on a returned map: the descriptors are read only once the
\* header checks have passed.
ParseMap ==
    LET header == map_header(cap, answer.size, answer.stride, answer.version)
        verdict == IF header = Observed THEN answer.contents ELSE header
    IN  /\ map' = IF verdict = Observed
                    THEN MapResult(Observed, answer.size \div answer.stride,
                                   answer.stride)
                    ELSE MapResult(verdict, 0, 0)
        /\ read' = [bytes |-> IF header = Observed THEN answer.size ELSE 0,
                    held  |-> buffer # NULL /\ pool[buffer].tries = 0]

Answered ==
    /\ pc = "classify"
    /\ answer.status # "EFI_BUFFER_TOO_SMALL"
    /\ CASE EFI_ERROR(answer.status)
              -> map' = map_fail("unavailable", "efi_error") /\ UNCHANGED read
         [] answer.status = "EFI_SUCCESS" -> ParseMap
         [] OTHER
              -> map' = map_fail("unsupported", "warning_status") /\ UNCHANGED read
    /\ pc' = AfterAnswer(answer.status)
    /\ UNCHANGED <<cap, attempts, releases, release_status, efi_status,
                   buffer, answer, growth, pool>>

-----------------------------------------------------------------------------
(* Releasing.                                                              *)

\* Mistaken variants: a FreePool warning is dropped, or taken for success.
FirstError(kept, s) == IF kept = "EFI_SUCCESS" /\ EFI_ERROR(s) THEN s ELSE kept
ReleasedUnlessError(s) == ~EFI_ERROR(s)

\* The status that is kept: the first FreePool answer that is not success.
FirstFailure(kept, s) == IF kept = "EFI_SUCCESS" THEN s ELSE kept

release(s) ==
    /\ releases' = releases + 1
    /\ release_status' = FirstFailure(release_status, s)
    /\ pool' = [pool EXCEPT ![buffer] =
                  [bytes |-> @.bytes, tries |-> @.tries + 1, status |-> s]]
    /\ buffer' = NULL

\* Any FreePool answer but success, warnings included, leaves it open
\* whether the buffer was reclaimed.
Released(s) == s = "EFI_SUCCESS"

ReleaseForRetry(s) ==
    /\ pc = "FreePool_retry"
    /\ release(s)
    /\ growth' = NoGrowth
    /\ IF Released(s) /\ growth.grow = Observed
         THEN /\ pc' = "AllocatePool"
              /\ cap' = growth.next
              /\ answer' = NoAnswer
              /\ UNCHANGED map
         ELSE /\ pc' = "done"
              /\ map' = IF Released(s) THEN MapResult(growth.grow, 0, 0)
                                       ELSE map_fail("not_probed", "release_failed")
              /\ UNCHANGED <<cap, answer>>
    /\ UNCHANGED <<attempts, efi_status, read>>

ReleaseFinal(s) ==
    /\ pc = "FreePool_final"
    /\ release(s)
    /\ pc' = "done"
    /\ UNCHANGED <<cap, attempts, efi_status, map, answer, growth, read>>

-----------------------------------------------------------------------------
(* The firmware chooses: any status, and for an answer that the probe      *)
(* looks into, any size, stride, version and contents.                     *)

FirmwareAnswers ==
    \/ \E s \in Statuses \ {"EFI_SUCCESS", "EFI_BUFFER_TOO_SMALL"} :
          GetMemoryMap(s, 0, 0, 0, Observed)
    \/ \E size \in Sizes, stride \in Strides :
          GetMemoryMap("EFI_BUFFER_TOO_SMALL", size, stride, 0, Observed)
    \/ \E size \in Sizes, stride \in Strides, version \in Versions,
          contents \in Contents :
          GetMemoryMap("EFI_SUCCESS", size, stride, version, contents)

Next ==
    \/ ServiceMissing \/ ServicesPresent \/ RetryLimit
    \/ \E s \in Statuses : AllocationFailed(s)
    \/ AllocationNull \/ Allocated
    \/ FirmwareAnswers
    \/ TooSmall \/ Answered
    \/ \E s \in Statuses : ReleaseForRetry(s) \/ ReleaseFinal(s)

\* Every firmware call returns, and the probe is the only thread there is.
Spec == Init /\ [][Next]_vars /\ WF_vars(Next)

-----------------------------------------------------------------------------
(* Properties.                                                             *)

TypeOK ==
    /\ pc \in Steps
    /\ cap \in Nat /\ attempts \in 0 .. MAP_ATTEMPTS /\ releases \in Nat
    /\ release_status \in EFI_STATUS /\ efi_status \in EFI_STATUS
    /\ map \in [state : State, detail : Detail, count : Nat, stride : Nat]
    /\ buffer \in 0 .. MAP_ATTEMPTS
    /\ answer \in [status : EFI_STATUS, size : Nat, stride : Nat,
                   version : Nat, contents : LoopVerdicts]
    /\ growth \in [next : Nat, grow : Result]
    /\ pool \in [Attempts -> [bytes : Nat, tries : Nat, status : EFI_STATUS]]
    /\ read \in [bytes : Nat, held : BOOLEAN]

GivenOut(b) == pool[b].bytes # 0
Leaked(b) == pool[b].tries # 0 /\ pool[b].status # "EFI_SUCCESS"

\* Ownership (README "Ownership and trust boundary", every return path of
\* acquire_map): each buffer the firmware gave out has exactly one release
\* attempt behind it once the loop is past it, none while it is in scope,
\* and a buffer never given out is never released.  a.releases counts them.
ReleasedExactlyOnce ==
    /\ \A b \in Attempts :
         pool[b].tries = IF GivenOut(b) /\ ~(buffer = b /\ pc \in Held) THEN 1 ELSE 0
    /\ pc = "done" => buffer = NULL

\* A leak is never hidden and never repeated: release_status stays success
\* exactly as long as every release succeeded, otherwise it is the answer
\* FreePool gave for the one buffer that may be leaked, the last one.
FailedReleaseReported ==
    /\ release_status = "EFI_SUCCESS" <=> ~\E b \in Attempts : Leaked(b)
    /\ \A b \in Attempts :
         Leaked(b) => pool[b].status = release_status /\ b = attempts

\* parse_map reads descriptors only from a buffer that is still owned and
\* never beyond the bytes that were allocated for it ("Before any
\* descriptor is read, the returned size is checked").
ReadsStayInBuffer ==
    read.bytes # 0 => read.held /\ read.bytes <= pool[attempts].bytes

\* Every buffer asked for is within MAP_LIMIT, and each retry asks for at
\* least two descriptors more than all the attempts before it.
CapacitiesGrow ==
    /\ cap <= MAP_LIMIT
    /\ \A b, c \in Attempts :
         b < c /\ GivenOut(c) =>
           GivenOut(b) /\ pool[b].bytes + 2 * DESCRIPTOR_BYTES < pool[c].bytes

\* What is reported at the end follows from the last answer: an observed
\* map is a whole number of descriptors inside the buffer of the last
\* attempt; retry_limit means that every attempt was answered too small
\* and was cleanly given back.  An allocation that fails, in whatever
\* attempt, leaves the buffers of the earlier ones given back and reports
\* its own error, and one without a buffer the status of the attempt before
\* it; efi_error is the error of the last answer.
ReportFollowsAnswers ==
    pc = "done" =>
      /\ map.state = "observed" =>
           /\ answer.status = "EFI_SUCCESS" /\ efi_status = "EFI_SUCCESS"
           /\ map.count > 0 /\ map.count * map.stride = answer.size
           /\ map.stride >= DESCRIPTOR_BYTES
           /\ answer.size <= pool[attempts].bytes
      /\ map.detail = "retry_limit" =>
           /\ attempts = MAP_ATTEMPTS /\ releases = MAP_ATTEMPTS
           /\ efi_status = "EFI_BUFFER_TOO_SMALL"
           /\ release_status = "EFI_SUCCESS"
      /\ map.detail \in {"allocation_failed", "allocation_null"} =>
           releases = attempts - 1 /\ release_status = "EFI_SUCCESS"
      /\ map.detail = "allocation_failed" => EFI_ERROR(efi_status)
      /\ map.detail = "allocation_null" =>
           efi_status = IF attempts = 1 THEN "EFI_SUCCESS" ELSE "EFI_BUFFER_TOO_SMALL"
      /\ map.detail = "efi_error" =>
           EFI_ERROR(efi_status) /\ efi_status = answer.status

\* A failed FreePool "stops further map attempts" (README): no AllocatePool
\* or GetMemoryMap call is ever made after it.
StopsAfterFailedRelease ==
    [][release_status # "EFI_SUCCESS" => UNCHANGED <<attempts, answer>>]_vars

\* acquire_map returns, however the firmware answers.
Terminates == <>(pc = "done")

\* core.h: "Exceeding a limit is reported as `unsupported` (a probe
\* limitation), never as `malformed` firmware data."  An answer that asks
\* for a whole number of descriptors and for more than the buffer has is
\* consistent; whatever limit it exceeds, it must not be called malformed.
ConsistentRequest(a) ==
    /\ a.status = "EFI_BUFFER_TOO_SMALL"
    /\ a.size > cap
    /\ a.stride >= DESCRIPTOR_BYTES /\ a.size % a.stride = 0

LimitNeverMalformed ==
    pc = "done" /\ ConsistentRequest(answer) => map.state # "malformed"
-----------------------------------------------------------------------------
(* acquire_map implements the pool discipline.                             *)

Discipline == INSTANCE PoolDiscipline WITH
    Limit    <- MAP_LIMIT,
    Attempts <- MAP_ATTEMPTS,
    owned    <- IF buffer = NULL THEN 0 ELSE pool[buffer].bytes,
    given    <- releases + (IF buffer = NULL THEN 0 ELSE 1),
    suspect  <- release_status # "EFI_SUCCESS",
    finished <- pc = "done"

\* acquire_map uses the firmware's pool only as PoolDiscipline allows, and
\* in the end leaves it alone.
ImplementsPoolDiscipline == Discipline!PoolSpec
=============================================================================
