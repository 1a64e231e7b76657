---------------------------- MODULE MCDeviceTree ----------------------------
(***************************************************************************)
(* Blobs around the real header and entry sizes.  The small ones have room *)
(* for up to three reservation entries and two small blocks, in every      *)
(* order, adjacent, nested, empty, misaligned and past the end.  One of    *)
(* 118 bytes has a structure block of 14 words, enough for three levels,   *)
(* siblings, properties before and after subnodes and two models of the    *)
(* root, with the six bytes of "model" right behind it.                    *)
(***************************************************************************)
EXTENDS DeviceTree

MCSpans == {0, 39, 40, 88, 96}
MCTotals == {39, 40, 88, 97, 118, 119}
Format(version, last) == [version |-> version, last |-> last]
MCVersions == {Format(16, 16), Format(17, 17), Format(17, 18), Format(18, 16), Format(18, 18)}
MCOffsets == {36, 40, 44, 56, 64, 72, 88, 92, 112}
MCSizes == {0, 4, 6, 16, 56}
\* 0 with 0 ends the map, 2 with 2 has no representable end.
MCWords == {0, 2}
\* 3 fills a word with its NUL, 4 needs another one.
MCNameLengths == {0, 3, 4}
\* With DT_MODEL_LIMIT = 2, 3 is the longest model that is kept whole.
MCPropLengths == {0, 1, 3, 4, 5}
=============================================================================
