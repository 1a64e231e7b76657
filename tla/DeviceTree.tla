----------------------------- MODULE DeviceTree -----------------------------
(***************************************************************************)
(* The whole device tree parser of core.c: the header, the blocks and the  *)
(* reservation map (module DtBlocks), and then the structure walk (module  *)
(* DtStructure) over the structure block that they have placed.  The walk  *)
(* takes for granted what the checks before it have found out: that its    *)
(* block is a whole number of words, that it lies in the blob, and that    *)
(* property names are looked up in a block of their own.                   *)
(***************************************************************************)
EXTENDS DtBlocks, Sequences, FiniteSets

CONSTANTS
    DT_DEPTH_LIMIT, DT_MODEL_LIMIT,
    NameLengths,   \* lengths of node names (bounds the model)
    PropLengths    \* lengths of property values (bounds the model)

\* The sizes that the alignment check lets through.
WordSizes == {n \in Sizes : n % 4 = 0}

ASSUME TreeAssumption ==
    /\ DT_DEPTH_LIMIT \in Nat \ {0} /\ DT_MODEL_LIMIT \in Nat
    /\ NameLengths \subseteq Nat /\ PropLengths \subseteq Nat

VARIABLES
    walk_at, pos, depth, roots, has_child, model, walk_verdict, tokens, walk_extent

walk_vars == <<walk_at, pos, depth, roots, has_child, model, walk_verdict,
               tokens, walk_extent>>
tree_vars == <<vars, walk_vars>>

Walk == INSTANCE DtStructure WITH
    BlockSizes <- WordSizes, size <- layout.size_struct,
    at <- walk_at, verdict <- walk_verdict, extent <- walk_extent

TreeInit == Init /\ Walk!Init

\* A property's name is an offset: it may always lead out of the strings
\* block, and to the name "model" only when its six bytes fit.
NameBytes == [model |-> 6, other |-> 1, outside |-> 0]
Reachable == {name \in Walk!Names : NameBytes[name] <= layout.size_strings}

Check == Next /\ UNCHANGED walk_vars

WalkToken ==
    \/ Walk!MissingEnd \/ Walk!Nop \/ Walk!UnknownToken \/ Walk!EndNode \/ Walk!End
    \/ \E n \in NameLengths \cup {Walk!Unterminated} : Walk!BeginNode(n)
    \/ \E len \in PropLengths, name \in Reachable, value \in Walk!Values :
          Walk!Property(len, name, value)

WalkStep == at = "walk" /\ UNCHANGED vars /\ WalkToken

TreeNext == Check \/ WalkStep

TreeSpec == TreeInit /\ [][TreeNext]_tree_vars

-----------------------------------------------------------------------------
(* Properties.                                                             *)

\* Neither part of the parser leaves its types; the nesting depth stays
\* within has_child.
TreeTypeOK == TypeOK /\ (at = "walk" => Walk!TypeOK)

\* What the walk promises of its block, for the blocks that the checks
\* before it let through.
StaysInBlock == at = "walk" => Walk!StaysInBlock
AcceptsOnlyTrees == Walk!AcceptsOnlyTrees
RejectsOnlyOthers == Walk!RejectsOnlyOthers
ModelIsTheRoots == Walk!ModelIsTheRoots

\* Bytes of the blob that the walk has read.
WalkBytes == Bytes(layout.struct, walk_extent)

\* core.h: parse_dt "reads only [data, data + available)".  Together the two
\* parts keep that to the end, and no byte of the blob is read for two
\* purposes: the walk reads none of the header's, of a reservation entry's
\* or of the strings'.
EveryByteOnce ==
    at = "walk" =>
      /\ layout.struct + walk_extent <= available
      /\ InBlob(WalkBytes)
      /\ WalkBytes \cap (Bytes(layout.rsv, rsv - layout.rsv) \cup StringsBytes) = {}
=============================================================================
