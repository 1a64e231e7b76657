----------------------- MODULE MCConformingFirmware -----------------------
(***************************************************************************)
(* Maps just below and above the 4 KiB of the first buffer, and just below *)
(* and above the 256 KiB of the largest one, with descriptors of 40 and    *)
(* of 48 bytes.                                                            *)
(***************************************************************************)
EXTENDS ConformingFirmware

MCInitialDescriptors ==
    {1} \cup 81 .. 87 \cup 99 .. 105 \cup 5455 .. 5463 \cup 6547 .. 6555
MCFirmwareStrides == {40, 48}
MCStatuses == {"EFI_SUCCESS", "EFI_BUFFER_TOO_SMALL"}
\* The firmware of this module does not use the free choices of MapAcquisition.
MCNone == {}
=============================================================================
