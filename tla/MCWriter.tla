------------------------------ MODULE MCWriter ------------------------------
(***************************************************************************)
(* Writers without capacity, with room for the NUL only, and up to one     *)
(* unit more than any text needs.                                          *)
(***************************************************************************)
EXTENDS Writer

MCCapacities == 0 .. 8
=============================================================================
