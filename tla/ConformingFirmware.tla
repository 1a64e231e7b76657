------------------------- MODULE ConformingFirmware -------------------------
(***************************************************************************)
(* acquire_map together with a firmware that keeps the UEFI contract: its  *)
(* map has some number of descriptors, AllocatePool may split regions and  *)
(* so add up to MaxSplit of them, FreePool may merge two, GetMemoryMap     *)
(* answers truthfully and FreePool succeeds.  core.c sizes its retry for   *)
(* that firmware ("Two descriptors of slack: the next AllocatePool may     *)
(* split a region"); this module asks whether the slack is enough.         *)
(***************************************************************************)
EXTENDS MapAcquisition

CONSTANTS
    MaxSplit,            \* descriptors one AllocatePool may add
    InitialDescriptors,  \* sizes of the map before the probe allocates
    FirmwareStrides      \* descriptor sizes of the firmware

ASSUME FirmwareAssumption ==
    /\ MaxSplit \in 0 .. 2
    /\ InitialDescriptors \subseteq Nat \ {0}
    /\ FirmwareStrides \subseteq DESCRIPTOR_BYTES .. MAP_LIMIT

VARIABLES
    described,  \* descriptors in the firmware's map now
    fstride     \* its descriptor size

fvars == <<vars, described, fstride>>

MapBytes == described * fstride

FInit ==
    /\ Init
    /\ described \in InitialDescriptors /\ fstride \in FirmwareStrides

FAllocatePool ==
    /\ \/ Allocated /\ described' \in described .. described + MaxSplit
       \/ AllocationFailed("EFI_OUT_OF_RESOURCES") /\ UNCHANGED described
    /\ UNCHANGED fstride

FGetMemoryMap ==
    /\ IF MapBytes > cap
         THEN GetMemoryMap("EFI_BUFFER_TOO_SMALL", MapBytes, fstride, 1, Observed)
         ELSE GetMemoryMap("EFI_SUCCESS", MapBytes, fstride, 1, Observed)
    /\ UNCHANGED <<described, fstride>>

FFreePool ==
    /\ ReleaseForRetry("EFI_SUCCESS") \/ ReleaseFinal("EFI_SUCCESS")
    /\ described' \in {described, IF described > 1 THEN described - 1 ELSE 1}
    /\ UNCHANGED fstride

Probe ==
    /\ ServicesPresent \/ RetryLimit \/ TooSmall \/ Answered
    /\ UNCHANGED <<described, fstride>>

FNext == FAllocatePool \/ FGetMemoryMap \/ FFreePool \/ Probe

FSpec == FInit /\ [][FNext]_fvars

-----------------------------------------------------------------------------
(* Properties.                                                             *)

\* core.c, "Two descriptors of slack": one retry is always enough, the
\* second buffer holds the map although asking for it changed the map.
OneRetrySuffices == attempts <= 2

\* With such a firmware the probe ends with the map, unless an allocation
\* failed or the map and its slack do not fit MAP_LIMIT; and the map it
\* reports is the firmware's, but for what FreePool has merged since.
ConformingOutcome ==
    pc = "done" =>
      \/ /\ map.state = "observed" /\ map.stride = fstride
         /\ map.count - described \in {0, 1}
      \/ map.detail = "allocation_failed"
      \/ map.detail = "size_limit" /\ answer.size + 2 * fstride > MAP_LIMIT
=============================================================================
