---------------------------- MODULE MCMapParser ----------------------------
(***************************************************************************)
(* parse_map with four-bit words, four-byte pages and five-byte            *)
(* descriptors: up to three descriptors in a map, two of them listed.      *)
(***************************************************************************)
EXTENDS MapParser

MCCapacities == {0, 12, 18, 20, 21}
MCLengths == {0, 5, 12, 15, 18, 19}
MCStrides == {4, 5, 6, 19}
MCVersions == {1, 2}
\* Aligned and unaligned starts, up to the last page and the last byte.
MCPhysical == {0, 4, 6, 12, 15}
\* 3 pages at 3 end on the last byte, at 4 one past it.
MCVirtual == {0, 3, 4}
\* 3 pages is the most whose byte count is a word; 4 pages wrap to zero.
MCPages == {0, 1, 2, 3, 4}
=============================================================================
