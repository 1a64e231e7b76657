-------------------------------- MODULE Efi --------------------------------
(***************************************************************************)
(* The firmware vocabulary of the EFI inventory probe: EFI_STATUS values   *)
(* (efi.h) and the State of an observation (core.h).  A status is an error *)
(* exactly when its top bit is set; success is the single value zero;      *)
(* everything else is a warning.                                           *)
(***************************************************************************)

ErrorStatus == {"EFI_INVALID_PARAMETER", "EFI_UNSUPPORTED",
                "EFI_BAD_BUFFER_SIZE", "EFI_BUFFER_TOO_SMALL",
                "EFI_DEVICE_ERROR", "EFI_OUT_OF_RESOURCES", "EFI_NOT_FOUND",
                "EFI_SECURITY_VIOLATION"}

WarningStatus == {"EFI_WARN_UNKNOWN_GLYPH"}

EFI_STATUS == {"EFI_SUCCESS"} \cup ErrorStatus \cup WarningStatus

EFI_ERROR(s) == s \in ErrorStatus

State == {"observed", "unavailable", "unsupported", "malformed",
          "not_probed", "truncated"}
=============================================================================
