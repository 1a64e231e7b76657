---------------------------- MODULE DtStructure ----------------------------
(***************************************************************************)
(* The structure block walk of parse_dt in core.c: one token per step, the *)
(* nesting depth, the has_child flags that order properties before         *)
(* subnodes, and the root's model property.                                *)
(*                                                                         *)
(* The blob is arbitrary memory of which the walk reads every byte once:   *)
(* tokens, names, lengths and values are chosen when they are read.  A     *)
(* name is its length, or none when no NUL is left in the block; what a    *)
(* property's name offset leads to in the strings block is "model",        *)
(* "other" or "outside"; its value matters only for what take_model tells  *)
(* apart.  Positions are bytes from the start of the block.                *)
(***************************************************************************)
EXTENDS Efi, Integers, Sequences, FiniteSets

CONSTANTS
    DT_DEPTH_LIMIT, DT_MODEL_LIMIT,
    BlockSizes,    \* values of size_struct (module DtBlocks has checked them)
    NameLengths,   \* lengths of node names (bounds the model)
    PropLengths    \* lengths of property values (bounds the model)

\* What the walk takes for granted, and module DeviceTree shows to hold when
\* the checks before the walk let a block through.
StructureConstants ==
    /\ DT_DEPTH_LIMIT \in Nat \ {0} /\ DT_MODEL_LIMIT \in Nat
    /\ BlockSizes \subseteq Nat /\ \A n \in BlockSizes : n % 4 = 0
    /\ NameLengths \subseteq Nat /\ PropLengths \subseteq Nat

VARIABLES
    at,         \* "loop" or "returned"
    size,       \* size_struct, the position of `end`
    pos, depth, roots, has_child,
    model,      \* r.model_state and r.model_length
    verdict,    \* r.state and r.detail
    tokens,     \* history: the tokens read, NOPs left out
    extent      \* history: end of the furthest byte read

vars == <<at, size, pos, depth, roots, has_child, model, verdict, tokens, extent>>

Result(s, detail) == [state |-> s, detail |-> detail]
malformed(detail) == Result("malformed", detail)
Observed == Result("observed", "null")
Details == {"null", "missing_end", "multiple_roots", "name_truncated",
            "root_name", "depth_limit", "unbalanced_end_node",
            "property_outside_root", "property_truncated", "property_name",
            "property_after_subnode", "unterminated_node",
            "trailing_structure", "token"}

Model(s, n) == [state |-> s, length |-> n]
Unterminated == -1
Names == {"model", "other", "outside"}
Values == {"text", "not_terminated", "not_text"}

Init ==
    /\ at = "loop" /\ size \in BlockSizes
    /\ pos = 0 /\ depth = 0 /\ roots = 0
    /\ has_child = [d \in 0 .. DT_DEPTH_LIMIT - 1 |-> FALSE]
    /\ model = Model("unavailable", 0) /\ verdict = Observed
    /\ tokens = <<>> /\ extent = 0

-----------------------------------------------------------------------------
(* Returning, and the token at pos.                                        *)

\* dt_state: an error leaves no model behind.
Fail(v) ==
    /\ at' = "returned" /\ verdict' = v /\ model' = Model("not_probed", 0)
    /\ UNCHANGED <<pos, depth, roots, has_child>>

AfterToken(p) == p + 4

\* The next token can be read; `end` is where its reading ends.
Read(token, end) ==
    /\ at = "loop" /\ size - pos >= 4
    /\ tokens' = Append(tokens, token)
    /\ extent' = end
    /\ UNCHANGED size

Token(kind, name, value) == [kind |-> kind, name |-> name, value |-> value]
Bare(kind) == Token(kind, "none", Model("unavailable", 0))

MissingEnd ==
    /\ at = "loop" /\ size - pos < 4
    /\ Fail(malformed("missing_end"))
    /\ UNCHANGED <<size, tokens, extent>>

Nop ==
    /\ at = "loop" /\ size - pos >= 4
    /\ pos' = AfterToken(pos) /\ extent' = pos + 4
    /\ UNCHANGED <<at, size, depth, roots, has_child, model, verdict, tokens>>

UnknownToken ==
    /\ Read(Bare("unknown"), pos + 4)
    /\ Fail(malformed("token"))

-----------------------------------------------------------------------------
(* Nodes.                                                                  *)

\* The first multiple of 4 that is not before p: tokens follow names and
\* values there.
Aligned(p) == ((p + 3) \div 4) * 4

\* Mistaken variant: the limit is noticed one level too late.
TooDeepLate == depth > DT_DEPTH_LIMIT

TooDeep == depth = DT_DEPTH_LIMIT

BeginVerdict(n) ==
    IF depth = 0 /\ roots # 0 THEN malformed("multiple_roots")
    ELSE IF n = Unterminated THEN malformed("name_truncated")
    ELSE IF depth = 0 /\ n # 0 THEN malformed("root_name")
    ELSE IF TooDeep THEN Result("unsupported", "depth_limit")
    ELSE Observed

\* Mistaken variant: the parent is not told that it has a subnode.
ChildUnnoticed == [has_child EXCEPT ![depth] = FALSE]

\* The parent has a subnode now, the new node has none.
ChildEntered ==
    [d \in DOMAIN has_child |->
        IF d = depth THEN FALSE ELSE d = depth - 1 \/ has_child[d]]

\* n is the length of the node's name, NUL excluded.
BeginNode(n) ==
    /\ n # Unterminated => AfterToken(pos) + n < size
    /\ Read(Bare(IF n = 0 THEN "begin_unnamed" ELSE "begin"),
            IF depth = 0 /\ roots # 0 THEN pos + 4
            ELSE IF n = Unterminated THEN size ELSE pos + 4 + n + 1)
    /\ IF BeginVerdict(n) = Observed
         THEN /\ pos' = Aligned(AfterToken(pos) + n + 1)
              /\ roots' = IF depth = 0 THEN roots + 1 ELSE roots
              /\ has_child' = ChildEntered
              /\ depth' = depth + 1
              /\ UNCHANGED <<at, model, verdict>>
         ELSE Fail(BeginVerdict(n))

EndNode ==
    /\ Read(Bare("end_node"), pos + 4)
    /\ IF depth = 0
         THEN Fail(malformed("unbalanced_end_node"))
         ELSE /\ pos' = AfterToken(pos)
              /\ depth' = depth - 1
              /\ has_child' = [has_child EXCEPT ![depth - 1] = FALSE]
              /\ UNCHANGED <<at, roots, model, verdict>>

End ==
    /\ Read(Bare("end"), pos + 4)
    /\ IF depth # 0 \/ roots = 0 THEN Fail(malformed("unterminated_node"))
       ELSE IF AfterToken(pos) # size THEN Fail(malformed("trailing_structure"))
       ELSE /\ at' = "returned" /\ pos' = AfterToken(pos)
            /\ UNCHANGED <<depth, roots, has_child, model, verdict>>

-----------------------------------------------------------------------------
(* Properties of nodes.                                                    *)

\* Mistaken variants: only the root's subnodes count; a model of any node
\* is taken; one byte beyond the block is taken for a part of the value.
RootHasChild == has_child[0]
ModelOfAnyNode(name) == name = "model"
LengthOffByOne(len) == len > size - (AfterToken(pos) + 8) + 1

HasSubnode == has_child[depth - 1]
IsRootModel(name) == depth = 1 /\ name = "model"
ExceedsBlock(len) == len > size - (AfterToken(pos) + 8)

HeaderFits == size - AfterToken(pos) >= 8

PropVerdict(len, name) ==
    IF depth = 0 THEN malformed("property_outside_root")
    ELSE IF ~HeaderFits THEN malformed("property_truncated")
    ELSE IF ExceedsBlock(len) THEN malformed("property_truncated")
    ELSE IF name = "outside" THEN malformed("property_name")
    ELSE IF HasSubnode THEN malformed("property_after_subnode")
    ELSE Observed

\* What a first model of len bytes deserves; a value that is not text has
\* a NUL or a non-ASCII byte before its last byte.
ModelValue(len, value) ==
    IF len = 0 \/ value = "not_terminated" THEN Model("malformed", 0)
    ELSE IF value = "not_text" /\ len > 1 THEN Model("unsupported", 0)
    ELSE Model(IF len - 1 > DT_MODEL_LIMIT THEN "truncated" ELSE "observed", len - 1)

\* A second model spoils the first, whatever it was.
take_model(len, value) ==
    IF model.state # "unavailable" THEN Model("malformed", 0)
    ELSE ModelValue(len, value)

Property(len, name, value) ==
    /\ Read(Token("prop", name, ModelValue(len, value)),
            IF depth = 0 \/ ~HeaderFits THEN pos + 4
            ELSE IF PropVerdict(len, name) = Observed /\ IsRootModel(name)
                   THEN pos + 12 + len ELSE pos + 12)
    /\ IF PropVerdict(len, name) = Observed
         THEN /\ pos' = Aligned(pos + 12 + len)
              /\ model' = IF IsRootModel(name) THEN take_model(len, value) ELSE model
              /\ UNCHANGED <<at, depth, roots, has_child, verdict>>
         ELSE Fail(PropVerdict(len, name))

Next ==
    \/ MissingEnd \/ Nop \/ UnknownToken \/ EndNode \/ End
    \/ \E n \in NameLengths \cup {Unterminated} : BeginNode(n)
    \/ \E len \in PropLengths, name \in Names, value \in Values :
          Property(len, name, value)

Spec == Init /\ [][Next]_vars

-----------------------------------------------------------------------------
(* Properties.                                                             *)

TypeOK ==
    /\ at \in {"loop", "returned"} /\ size \in BlockSizes
    /\ pos \in Nat /\ roots \in 0 .. 1 /\ extent \in Nat
    /\ depth \in 0 .. DT_DEPTH_LIMIT
    /\ has_child \in [0 .. DT_DEPTH_LIMIT - 1 -> BOOLEAN]
    /\ model \in [state : State, length : Nat]
    /\ verdict \in [state : State, detail : Details]

\* The walk reads only inside the block, and its position stays aligned
\* and inside it, so that none of the unsigned differences end - pos wraps
\* ("end is 4-aligned, so pos <= end").
StaysInBlock == pos % 4 = 0 /\ pos <= size /\ extent <= size

\* Nodes open after a sequence of tokens.
IsBegin(t) == t.kind \in {"begin", "begin_unnamed"}
Level(ts) ==
    Cardinality({i \in DOMAIN ts : IsBegin(ts[i])})
      - Cardinality({i \in DOMAIN ts : ts[i].kind = "end_node"})
Before(ts, i) == SubSeq(ts, 1, i - 1)

\* Token j closes a subnode of the node that is open before token i.
ClosesSubnode(ts, j, i) ==
    /\ ts[j].kind = "end_node"
    /\ \A k \in j + 1 .. i : Level(Before(ts, k)) >= Level(Before(ts, i))
    /\ Level(Before(ts, j + 1)) = Level(Before(ts, i))

\* README "Device tree contract": one unnamed root, balanced nesting of at
\* most DT_DEPTH_LIMIT levels, no property outside the root or after a
\* subnode of its node.
TokenInPlace(ts, i) ==
    CASE IsBegin(ts[i]) ->
           /\ Level(Before(ts, i)) < DT_DEPTH_LIMIT
           /\ Level(Before(ts, i)) = 0 => i = 1 /\ ts[i].kind = "begin_unnamed"
      [] ts[i].kind = "prop" ->
           /\ Level(Before(ts, i)) > 0
           /\ ~\E j \in 1 .. i - 1 : ClosesSubnode(ts, j, i)
      [] ts[i].kind = "end_node" -> Level(Before(ts, i)) > 0
      [] ts[i].kind = "end" -> Level(ts) = 0 /\ i > 1
      [] OTHER -> FALSE
IsTree(ts) == \A i \in DOMAIN ts : TokenInPlace(ts, i)

\* What was accepted so far is the beginning of a tree, and an observed
\* blob is a whole one that ends where the block ends.
AcceptsOnlyTrees ==
    /\ at = "loop" => IsTree(tokens) /\ depth = Level(tokens)
    /\ at = "returned" /\ verdict = Observed =>
         /\ IsTree(tokens) /\ tokens[Len(tokens)].kind = "end"
         /\ pos = size

\* A blob is called malformed or too deep only for what it is: a token that
\* is out of place, a block without FDT_END at its end, or a name or a
\* value that is not inside its block.
RejectsOnlyOthers ==
    at = "returned" /\ verdict # Observed =>
      \/ tokens # <<>> /\ ~TokenInPlace(tokens, Len(tokens))
      \/ verdict.detail \in {"missing_end", "trailing_structure", "name_truncated",
                             "property_truncated", "property_name"}

\* README: "a string list or non-ASCII model is unsupported; an empty,
\* unterminated or duplicated model is malformed; no model is unavailable";
\* only the root's model properties count, in whatever order they come.
RootModels == {i \in DOMAIN tokens :
    /\ tokens[i].kind = "prop" /\ tokens[i].name = "model"
    /\ Level(Before(tokens, i)) = 1}

ModelIsTheRoots ==
    IF at = "returned" /\ verdict # Observed
      THEN model = Model("not_probed", 0)
      ELSE CASE Cardinality(RootModels) = 0 -> model = Model("unavailable", 0)
             [] Cardinality(RootModels) = 1 ->
                  model \in {tokens[i].value : i \in RootModels}
             [] OTHER -> model = Model("malformed", 0)

\* Every round of the loop that goes on has consumed at least one token, so
\* that with StaysInBlock the loop ends, whatever the block holds.
Advances == [][at' = "loop" => pos' >= pos + 4]_vars
=============================================================================
