-------------------------- MODULE MCMapAcquisition --------------------------
(***************************************************************************)
(* acquire_map at the limits of core.h: real byte counts, and answers on   *)
(* both sides of every comparison the code makes.                          *)
(***************************************************************************)
EXTENDS MapAcquisition

\* One status of each kind the code tells apart.
MCStatuses == {"EFI_SUCCESS", "EFI_BUFFER_TOO_SMALL", "EFI_DEVICE_ERROR",
               "EFI_WARN_UNKNOWN_GLYPH"}

\* 4096 is the first capacity; 4080 bytes hold whole descriptors and fit it,
\* 4120 do not fit, and enough larger sizes follow for all five attempts to
\* be too small.  262144 is MAP_LIMIT, and 262064 the largest request that
\* leaves two 40-byte descriptors of slack below it.
MCSizes == {0, 4080, 4096, 4120, 8192, 16384, 65520, 262064, 262065, 262145}
\* 39 and 262145 are just outside what a stride may be; 40 and 48 both
\* divide 4080, 262144 exceeds every capacity but the largest.
MCStrides == {39, 40, 48, 262144, 262145}
MCVersions == {1, 2}
MCContents == {Observed, map_state("malformed", "range_overflow")}
=============================================================================
