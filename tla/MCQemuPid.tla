----------------------------- MODULE MCQemuPid -----------------------------
(***************************************************************************)
(* Two launchers and a --terminate-only one that share three process ids,  *)
(* so that an id can pass from a QEMU to another process while a second    *)
(* QEMU runs.                                                              *)
(***************************************************************************)
EXTENDS QemuPid
=============================================================================
