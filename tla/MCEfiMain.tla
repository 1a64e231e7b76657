----------------------------- MODULE MCEfiMain -----------------------------
(***************************************************************************)
(* efi_main with every kind of outcome of the acquisition, and records on  *)
(* both sides of a chunk's end and of the record buffer's end.             *)
(***************************************************************************)
EXTENDS EfiMain

\* Success, an error, a warning, and the status that acquire_map retries.
MCStatuses == {"EFI_SUCCESS", "EFI_BUFFER_TOO_SMALL", "EFI_DEVICE_ERROR",
               "EFI_WARN_UNKNOWN_GLYPH"}

\* One size that is a valid map of the first buffer, one that asks for a
\* second attempt and one that the second buffer is too small for.
MCSizes == {4080, 4120, 8192}
MCStrides == {40}
MCVersions == {1}
MCContents == {Observed}

\* A record of 255 units fits the buffer, one of 256 does not: 126 and 252
\* are whole numbers of chunks.
MCRecordLengths == {1, 126, 127, 252, 253, 255, 256, 300}
=============================================================================
