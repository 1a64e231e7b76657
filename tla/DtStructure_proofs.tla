------------------------- MODULE DtStructure_proofs -------------------------
(***************************************************************************)
(* The structure walk never leaves its block, never runs out of has_child  *)
(* flags, and always consumes what it goes past, for every block size,     *)
(* depth limit and content.  What it accepts is a tree, what it refuses is *)
(* none, and the model it reports is the root's: the variables of the walk *)
(* are compared, token by token, with the tokens it has read.              *)
(***************************************************************************)
EXTENDS DtStructure, FiniteSetTheorems, SequenceTheorems, TLAPS

\* Rounding up to a word stays below any aligned bound.
LEMMA AlignedBounds ==
    ASSUME NEW p \in Nat, NEW bound \in Nat, bound % 4 = 0, p <= bound
    PROVE  /\ Aligned(p) \in Nat /\ Aligned(p) % 4 = 0
           /\ p <= Aligned(p) /\ Aligned(p) <= bound
  BY DEF Aligned

\* Positions and flags are in range, and nothing was read outside.
SInv == TypeOK /\ StaysInBlock

Statement(v) == v \in [state : State, detail : Details]

LEMMA StructureInit ==
    ASSUME StructureConstants, Init
    PROVE  SInv
<1>1. size \in Nat /\ size % 4 = 0
  BY DEF Init, StructureConstants
<1>2. TypeOK
  BY DEF Init, StructureConstants, TypeOK, Model, Observed, Result, State,
         Details
<1>3. StaysInBlock
  BY <1>1 DEF Init, StaysInBlock
<1>. QED  BY <1>2, <1>3 DEF SInv

\* An action that reads a token leaves room for it.
LEMMA TokenFits ==
    ASSUME StructureConstants, SInv, at = "loop", size - pos >= 4
    PROVE  /\ pos \in Nat /\ size \in Nat /\ pos % 4 = 0 /\ size % 4 = 0
           /\ pos + 4 <= size /\ (pos + 4) % 4 = 0
           /\ AfterToken(pos) = pos + 4
  BY DEF StructureConstants, SInv, TypeOK, StaysInBlock, AfterToken

\* Leaving the loop with an error keeps the invariant, when the reading
\* before it did.
LEMMA FailStep ==
    ASSUME SInv, NEW v, Statement(v), Fail(v), size' = size,
           extent' \in Nat, extent' <= size
    PROVE  SInv'
<1>1. TypeOK'
  BY DEF SInv, TypeOK, Fail, Model, State, Statement
<1>2. StaysInBlock'
  BY DEF SInv, StaysInBlock, Fail
<1>. QED  BY <1>1, <1>2 DEF SInv

LEMMA Statements ==
    /\ \A d \in Details : Statement(malformed(d))
    /\ \A n : Statement(BeginVerdict(n))
    /\ \A len, name : Statement(PropVerdict(len, name))
<1>1. \A d \in Details : Statement(malformed(d))
  BY DEF Statement, malformed, Result, State
<1>2. Statement(Observed) /\ Statement(Result("unsupported", "depth_limit"))
  BY DEF Statement, Observed, Result, State, Details
<1>3. {"multiple_roots", "name_truncated", "root_name", "property_outside_root",
       "property_truncated", "property_name", "property_after_subnode"} \subseteq Details
  BY DEF Details
<1>. QED  BY <1>1, <1>2, <1>3 DEF BeginVerdict, PropVerdict

LEMMA PlainStep ==
    ASSUME StructureConstants, SInv, MissingEnd \/ Nop \/ UnknownToken
    PROVE  SInv'
<1>1. CASE MissingEnd
  <2>1. "missing_end" \in Details
    BY DEF Details
  <2>. QED  BY <1>1, <2>1, FailStep, Statements
            DEF StructureConstants, MissingEnd, SInv, TypeOK, StaysInBlock
<1>2. CASE Nop
  <2>1. TypeOK'
    BY <1>2, TokenFits DEF SInv, TypeOK, Nop
  <2>2. StaysInBlock'
    BY <1>2, TokenFits DEF SInv, StaysInBlock, Nop
  <2>. QED  BY <2>1, <2>2 DEF SInv
<1>3. CASE UnknownToken
  <2>1. "token" \in Details
    BY DEF Details
  <2>2. extent' = pos + 4 /\ size' = size /\ Fail(malformed("token"))
        /\ at = "loop" /\ size - pos >= 4
    BY <1>3 DEF UnknownToken, Read
  <2>. QED  BY <2>1, <2>2, FailStep, TokenFits, Statements
<1>. QED  BY <1>1, <1>2, <1>3

LEMMA BeginNodeStep ==
    ASSUME StructureConstants, SInv,
           NEW n \in NameLengths \cup {Unterminated}, BeginNode(n)
    PROVE  SInv'
<1>1. /\ pos \in Nat /\ size \in Nat /\ size % 4 = 0 /\ pos + 4 <= size
      /\ AfterToken(pos) = pos + 4 /\ size' = size
  BY TokenFits DEF BeginNode, Read
<1>2. n # Unterminated => n \in Nat /\ pos + 4 + n < size
  BY <1>1 DEF BeginNode, StructureConstants
<1>3. extent' \in Nat /\ extent' <= size
  BY <1>1, <1>2 DEF BeginNode, Read
<1>4. CASE BeginVerdict(n) = Observed
  <2>1. /\ n # Unterminated /\ depth # DT_DEPTH_LIMIT /\ ~(depth = 0 /\ roots # 0)
    BY <1>4 DEF BeginVerdict, malformed, Result, Observed, TooDeep
  <2>2. /\ pos' = Aligned(pos + 4 + n + 1) /\ depth' = depth + 1
        /\ has_child' = ChildEntered /\ roots' = IF depth = 0 THEN roots + 1 ELSE roots
        /\ UNCHANGED <<at, model, verdict>>
    BY <1>1, <1>4 DEF BeginNode
  <2>3. /\ Aligned(pos + 4 + n + 1) \in Nat /\ Aligned(pos + 4 + n + 1) % 4 = 0
        /\ Aligned(pos + 4 + n + 1) <= size
    <3>1. pos + 4 + n + 1 \in Nat /\ pos + 4 + n + 1 <= size
      BY <1>1, <1>2, <2>1
    <3>. QED  BY <1>1, <3>1, AlignedBounds
  <2>4. depth' \in 0 .. DT_DEPTH_LIMIT /\ roots' \in 0 .. 1
    BY <2>1, <2>2 DEF SInv, TypeOK, StructureConstants
  <2>5. has_child' \in [0 .. DT_DEPTH_LIMIT - 1 -> BOOLEAN]
    BY <2>2 DEF SInv, TypeOK, ChildEntered
  <2>6. TypeOK'
    BY <1>1, <1>3, <2>2, <2>3, <2>4, <2>5 DEF SInv, TypeOK
  <2>7. StaysInBlock'
    BY <1>1, <1>3, <2>2, <2>3 DEF StaysInBlock
  <2>. QED  BY <2>6, <2>7 DEF SInv
<1>5. CASE BeginVerdict(n) # Observed
  BY <1>1, <1>3, <1>5, FailStep, Statements DEF BeginNode
<1>. QED  BY <1>4, <1>5

LEMMA EndNodeStep ==
    ASSUME StructureConstants, SInv, EndNode
    PROVE  SInv'
<1>1. /\ pos \in Nat /\ size \in Nat /\ pos + 4 <= size /\ (pos + 4) % 4 = 0
      /\ AfterToken(pos) = pos + 4 /\ size' = size /\ extent' = pos + 4
  BY TokenFits DEF EndNode, Read
<1>2. CASE depth = 0
  <2>1. "unbalanced_end_node" \in Details
    BY DEF Details
  <2>. QED  BY <1>1, <1>2, <2>1, FailStep, Statements DEF EndNode
<1>3. CASE depth # 0
  <2>1. /\ pos' = pos + 4 /\ depth' = depth - 1
        /\ has_child' = [has_child EXCEPT ![depth - 1] = FALSE]
        /\ UNCHANGED <<at, roots, model, verdict>>
    BY <1>1, <1>3 DEF EndNode
  <2>2. depth' \in 0 .. DT_DEPTH_LIMIT
    BY <1>3, <2>1 DEF SInv, TypeOK, StructureConstants
  <2>3. has_child' \in [0 .. DT_DEPTH_LIMIT - 1 -> BOOLEAN]
    BY <2>1 DEF SInv, TypeOK
  <2>4. TypeOK'
    BY <1>1, <2>1, <2>2, <2>3 DEF SInv, TypeOK
  <2>5. StaysInBlock'
    BY <1>1, <2>1 DEF StaysInBlock
  <2>. QED  BY <2>4, <2>5 DEF SInv
<1>. QED  BY <1>2, <1>3

LEMMA EndStep ==
    ASSUME StructureConstants, SInv, End
    PROVE  SInv'
<1>1. /\ pos \in Nat /\ size \in Nat /\ pos + 4 <= size /\ (pos + 4) % 4 = 0
      /\ AfterToken(pos) = pos + 4 /\ size' = size /\ extent' = pos + 4
  BY TokenFits DEF End, Read
<1>2. {"unterminated_node", "trailing_structure"} \subseteq Details
  BY DEF Details
<1>3. CASE depth # 0 \/ roots = 0
  BY <1>1, <1>2, <1>3, FailStep, Statements DEF End
<1>4. CASE ~(depth # 0 \/ roots = 0) /\ AfterToken(pos) # size
  BY <1>1, <1>2, <1>4, FailStep, Statements DEF End
<1>5. CASE ~(depth # 0 \/ roots = 0) /\ AfterToken(pos) = size
  <2>1. /\ at' = "returned" /\ pos' = pos + 4
        /\ UNCHANGED <<depth, roots, has_child, model, verdict>>
    BY <1>1, <1>5 DEF End
  <2>2. TypeOK'
    BY <1>1, <2>1 DEF SInv, TypeOK
  <2>3. StaysInBlock'
    BY <1>1, <2>1 DEF StaysInBlock
  <2>. QED  BY <2>2, <2>3 DEF SInv
<1>. QED  BY <1>3, <1>4, <1>5

LEMMA PropertyStep ==
    ASSUME StructureConstants, SInv,
           NEW len \in PropLengths, NEW name \in Names, NEW value \in Values, Property(len, name, value)
    PROVE  SInv'
<1>1. /\ pos \in Nat /\ size \in Nat /\ size % 4 = 0 /\ pos + 4 <= size
      /\ AfterToken(pos) = pos + 4 /\ size' = size /\ len \in Nat
  BY TokenFits DEF Property, Read, StructureConstants
<1>2. HeaderFits => pos + 12 <= size
  BY <1>1 DEF HeaderFits
<1>3. PropVerdict(len, name) = Observed => HeaderFits /\ pos + 12 + len <= size
  <2> SUFFICES ASSUME PropVerdict(len, name) = Observed
               PROVE  HeaderFits /\ pos + 12 + len <= size
    OBVIOUS
  <2>1. HeaderFits /\ ~ExceedsBlock(len)
    BY DEF PropVerdict, malformed, Result, Observed
  <2>. QED  BY <1>1, <2>1 DEF ExceedsBlock
<1>4. extent' \in Nat /\ extent' <= size
  BY <1>1, <1>2, <1>3 DEF Property, Read
<1>5. CASE PropVerdict(len, name) = Observed
  <2>1. /\ pos' = Aligned(pos + 12 + len)
        /\ model' = IF IsRootModel(name) THEN take_model(len, value) ELSE model
        /\ UNCHANGED <<at, depth, roots, has_child, verdict>>
    BY <1>5 DEF Property
  <2>2. Aligned(pos + 12 + len) \in Nat /\ Aligned(pos + 12 + len) % 4 = 0
        /\ Aligned(pos + 12 + len) <= size
    <3>1. pos + 12 + len \in Nat /\ pos + 12 + len <= size
      BY <1>1, <1>3, <1>5
    <3>. QED  BY <1>1, <3>1, AlignedBounds
  <2>3. take_model(len, value) \in [state : State, length : Nat]
    BY <1>1 DEF take_model, ModelValue, Model, State
  <2>4. TypeOK'
    BY <1>1, <1>4, <2>1, <2>2, <2>3 DEF SInv, TypeOK
  <2>5. StaysInBlock'
    BY <1>1, <1>4, <2>1, <2>2 DEF StaysInBlock
  <2>. QED  BY <2>4, <2>5 DEF SInv
<1>6. CASE PropVerdict(len, name) # Observed
  BY <1>1, <1>4, <1>6, FailStep, Statements DEF Property
<1>. QED  BY <1>5, <1>6

LEMMA StructureNext ==
    ASSUME StructureConstants, SInv, [Next]_vars
    PROVE  SInv'
<1>1. CASE UNCHANGED vars
  BY <1>1 DEF vars, SInv, TypeOK, StaysInBlock
<1>2. CASE Next
  BY <1>2, PlainStep, BeginNodeStep, EndNodeStep, EndStep, PropertyStep DEF Next
<1>. QED  BY <1>1, <1>2

LEMMA StructureInvariance == ASSUME StructureConstants PROVE Spec => []SInv
  BY StructureInit, StructureNext, PTL DEF Spec

-----------------------------------------------------------------------------
(* Sequences of tokens, and what one more token makes of them.             *)

Kinds == {"begin", "begin_unnamed", "prop", "end_node", "end", "unknown"}
Tokens == {t \in [kind : Kinds, name : Names \cup {"none"},
                  value : [state : State, length : Nat]] :
             t.kind = "prop" => t.value.state # "unavailable"}

\* Some token has closed a subnode of the node that is open after ts.
HasClosed(ts) == \E j \in 1 .. Len(ts) : ClosesSubnode(ts, j, Len(ts) + 1)

\* What the walk's variables know of the tokens it has read: roots tells
\* whether there was any, the flag of the open node whether a subnode of it
\* was closed, and the nodes around it each have one, the open one.
TokenInv ==
    /\ tokens \in Seq(Tokens)
    /\ at = "loop" =>
         /\ verdict = Observed
         /\ \A i \in DOMAIN tokens : tokens[i].kind # "end"
         /\ roots = 0 <=> tokens = <<>>
         /\ depth > 0 => (has_child[depth - 1] <=> HasClosed(tokens))
         /\ \A d \in 1 .. depth - 1 : has_child[d - 1]

WalkInv == TokenInv /\ AcceptsOnlyTrees /\ RejectsOnlyOthers /\ ModelIsTheRoots

\* Marked tokens are counted one by one.
Marked(ts, K) == {i \in DOMAIN ts : ts[i].kind \in K}

LEMMA MarkedAppend ==
    ASSUME NEW S, NEW ts \in Seq(S), NEW t \in S, NEW K
    PROVE  /\ IsFiniteSet(Marked(ts, K)) /\ Cardinality(Marked(ts, K)) \in Nat
           /\ Cardinality(Marked(Append(ts, t), K)) =
                Cardinality(Marked(ts, K)) + (IF t.kind \in K THEN 1 ELSE 0)
<1>1. Len(ts) \in Nat /\ DOMAIN ts = 1 .. Len(ts)
  OBVIOUS
<1>2. /\ DOMAIN Append(ts, t) = 1 .. Len(ts) + 1
      /\ \A i \in 1 .. Len(ts) : Append(ts, t)[i] = ts[i]
      /\ Append(ts, t)[Len(ts) + 1] = t
  BY AppendProperties
<1>3. IsFiniteSet(Marked(ts, K)) /\ Cardinality(Marked(ts, K)) \in Nat
  <2>1. IsFiniteSet(1 .. Len(ts))
    BY <1>1, FS_Interval
  <2>2. Marked(ts, K) \in SUBSET (1 .. Len(ts))
    BY <1>1 DEF Marked
  <2>. QED  BY <2>1, <2>2, FS_Subset, FS_CardinalityType
<1>4. CASE t.kind \in K
  <2>1. Marked(Append(ts, t), K) = Marked(ts, K) \cup {Len(ts) + 1}
    BY <1>1, <1>2, <1>4 DEF Marked
  <2>2. Len(ts) + 1 \notin Marked(ts, K)
    BY <1>1 DEF Marked
  <2>. QED  BY <1>3, <1>4, <2>1, <2>2, FS_AddElement
<1>5. CASE t.kind \notin K
  <2>1. Marked(Append(ts, t), K) = Marked(ts, K)
    BY <1>1, <1>2, <1>5 DEF Marked
  <2>. QED  BY <1>3, <1>5, <2>1
<1>. QED  BY <1>3, <1>4, <1>5

\* A beginning opens a node, an end closes one, nothing else does either.
LEMMA LevelAppend ==
    ASSUME NEW ts \in Seq(Tokens), NEW t \in Tokens
    PROVE  /\ Level(ts) \in Int
           /\ IsBegin(t) => Level(Append(ts, t)) = Level(ts) + 1
           /\ t.kind = "end_node" => Level(Append(ts, t)) = Level(ts) - 1
           /\ ~IsBegin(t) /\ t.kind # "end_node" => Level(Append(ts, t)) = Level(ts)
<1>. DEFINE B == {"begin", "begin_unnamed"}
            E == {"end_node"}
<1>1. ASSUME NEW s
      PROVE  Level(s) = Cardinality(Marked(s, B)) - Cardinality(Marked(s, E))
  <2>1. {i \in DOMAIN s : IsBegin(s[i])} = Marked(s, B)
    BY DEF IsBegin, Marked
  <2>2. {i \in DOMAIN s : s[i].kind = "end_node"} = Marked(s, E)
    BY DEF Marked
  <2>. QED  BY <2>1, <2>2 DEF Level
<1>2. IsBegin(t) <=> t.kind \in B
  BY DEF IsBegin
<1>3. /\ Cardinality(Marked(ts, B)) \in Nat /\ Cardinality(Marked(ts, E)) \in Nat
      /\ Cardinality(Marked(Append(ts, t), B)) =
           Cardinality(Marked(ts, B)) + (IF t.kind \in B THEN 1 ELSE 0)
      /\ Cardinality(Marked(Append(ts, t), E)) =
           Cardinality(Marked(ts, E)) + (IF t.kind \in E THEN 1 ELSE 0)
  BY MarkedAppend
<1>4. /\ Level(ts) = Cardinality(Marked(ts, B)) - Cardinality(Marked(ts, E))
      /\ Level(Append(ts, t)) =
           Cardinality(Marked(Append(ts, t), B)) - Cardinality(Marked(Append(ts, t), E))
  BY <1>1
<1>. HIDE DEF B, E
<1>5. t.kind \in B => t.kind \notin E
  BY DEF B, E
<1>6. t.kind = "end_node" <=> t.kind \in E
  BY DEF E
<1>. QED  BY <1>2, <1>3, <1>4, <1>5, <1>6

LEMMA LevelEmpty == Level(<<>>) = 0
<1>1. {i \in DOMAIN <<>> : IsBegin(<<>>[i])} = {} /\ {i \in DOMAIN <<>> : <<>>[i].kind = "end_node"} = {}
  OBVIOUS
<1>. QED  BY <1>1, FS_EmptySet DEF Level

\* Only the token itself can see what was appended.
LEMMA BeforeAppend ==
    ASSUME NEW ts \in Seq(Tokens), NEW t \in Tokens, NEW i \in 1 .. Len(ts) + 1
    PROVE  Before(Append(ts, t), i) = Before(ts, i)
<1>. DEFINE us == Append(ts, t)
<1>1. /\ us \in Seq(Tokens) /\ Len(us) = Len(ts) + 1
      /\ \A k \in 1 .. Len(ts) : us[k] = ts[k]
      /\ Len(ts) \in Nat
  BY AppendProperties
<1>. HIDE DEF us
<1>2. i - 1 \in 0 .. Len(ts)
  BY <1>1
<1>3. \A k \in 1 .. i - 1 : ts[k] \in Tokens /\ us[k] = ts[k]
  BY <1>1, <1>2
<1>4. /\ SubSeq(ts, 1, i - 1) \in Seq(Tokens) /\ Len(SubSeq(ts, 1, i - 1)) = i - 1
      /\ \A k \in 1 .. i - 1 : SubSeq(ts, 1, i - 1)[k] = ts[k]
  BY <1>1, <1>2, <1>3, SubSeqProperties
<1>5. /\ SubSeq(us, 1, i - 1) \in Seq(Tokens) /\ Len(SubSeq(us, 1, i - 1)) = i - 1
      /\ \A k \in 1 .. i - 1 : SubSeq(us, 1, i - 1)[k] = us[k]
  BY <1>1, <1>2, <1>3, SubSeqProperties
<1>6. SubSeq(us, 1, i - 1) = SubSeq(ts, 1, i - 1)
  BY <1>3, <1>4, <1>5, SeqEqual
<1>. QED  BY <1>6 DEF Before, us

LEMMA BeforeEnd ==
    ASSUME NEW ts \in Seq(Tokens)
    PROVE  Before(ts, Len(ts) + 1) = ts
  BY SubSeqFull DEF Before

LEMMA LevelsKept ==
    ASSUME NEW ts \in Seq(Tokens), NEW t \in Tokens
    PROVE  /\ \A k \in 1 .. Len(ts) + 1 :
                Level(Before(Append(ts, t), k)) = Level(Before(ts, k))
           /\ Level(Before(Append(ts, t), Len(ts) + 1)) = Level(ts)
           /\ Level(Before(ts, Len(ts) + 1)) = Level(ts)
           /\ Level(Before(Append(ts, t), Len(ts) + 2)) = Level(Append(ts, t))
<1>1. Append(ts, t) \in Seq(Tokens) /\ Len(Append(ts, t)) = Len(ts) + 1 /\ Len(ts) \in Nat
  BY AppendProperties
<1>2. \A k \in 1 .. Len(ts) + 1 : Before(Append(ts, t), k) = Before(ts, k)
  BY BeforeAppend
<1>3. Before(Append(ts, t), Len(Append(ts, t)) + 1) = Append(ts, t)
  BY <1>1, BeforeEnd
<1>4. Len(Append(ts, t)) + 1 = Len(ts) + 2 /\ Len(ts) + 1 \in 1 .. Len(ts) + 1
  BY <1>1
<1>. QED  BY <1>2, <1>3, <1>4, BeforeEnd

\* Whether a subnode was closed before a token does not depend on what
\* follows that token.
LEMMA ClosesKept ==
    ASSUME NEW ts \in Seq(Tokens), NEW t \in Tokens,
           NEW i \in 1 .. Len(ts) + 1, NEW j \in 1 .. i - 1
    PROVE  ClosesSubnode(Append(ts, t), j, i) <=> ClosesSubnode(ts, j, i)
<1>1. Len(ts) \in Nat /\ Append(ts, t)[j] = ts[j]
  BY AppendProperties
<1>2. \A k \in 1 .. Len(ts) + 1 :
        Level(Before(Append(ts, t), k)) = Level(Before(ts, k))
  BY LevelsKept
<1>3. j + 1 \in 1 .. Len(ts) + 1 /\ \A k \in j + 1 .. i : k \in 1 .. Len(ts) + 1
  BY <1>1
<1>. QED  BY <1>1, <1>2, <1>3 DEF ClosesSubnode

\* A token that is in place stays in place; only FDT_END looks ahead.
LEMMA PlaceKept ==
    ASSUME NEW ts \in Seq(Tokens), NEW t \in Tokens,
           NEW i \in 1 .. Len(ts), ts[i].kind # "end", TokenInPlace(ts, i)
    PROVE  TokenInPlace(Append(ts, t), i)
<1>1. Len(ts) \in Nat /\ Append(ts, t)[i] = ts[i] /\ ts[i].kind \in Kinds
  BY AppendProperties DEF Tokens
<1>2. Level(Before(Append(ts, t), i)) = Level(Before(ts, i))
  BY LevelsKept, <1>1
<1>3. \A j \in 1 .. i - 1 : ClosesSubnode(Append(ts, t), j, i) <=> ClosesSubnode(ts, j, i)
  BY <1>1, ClosesKept
<1>. QED  BY <1>1, <1>2, <1>3 DEF TokenInPlace, IsBegin

\* Where a token is in place, said of the tokens before it.
LEMMA PlaceAppended ==
    ASSUME NEW ts \in Seq(Tokens), NEW t \in Tokens
    PROVE  LET last == TokenInPlace(Append(ts, t), Len(ts) + 1) IN
           /\ IsBegin(t) => (last <=>
                /\ Level(ts) < DT_DEPTH_LIMIT
                /\ Level(ts) = 0 => ts = <<>> /\ t.kind = "begin_unnamed")
           /\ t.kind = "prop" => (last <=> Level(ts) > 0 /\ ~HasClosed(ts))
           /\ t.kind = "end_node" => (last <=> Level(ts) > 0)
           /\ t.kind = "end" => (last <=> Level(ts) = 0 /\ ts # <<>>)
           /\ t.kind = "unknown" => ~last
<1>1. /\ Len(ts) \in Nat /\ Append(ts, t)[Len(ts) + 1] = t
      /\ ts = <<>> <=> Len(ts) + 1 = 1
      /\ Len(ts) + 1 > 1 <=> ts # <<>>
  BY AppendProperties
<1>2. Level(Before(Append(ts, t), Len(ts) + 1)) = Level(ts)
  BY LevelsKept
<1>3. (\E j \in 1 .. Len(ts) + 1 - 1 : ClosesSubnode(Append(ts, t), j, Len(ts) + 1))
        <=> HasClosed(ts)
  <2>1. \A j \in 1 .. Len(ts) : ClosesSubnode(Append(ts, t), j, Len(ts) + 1)
                                <=> ClosesSubnode(ts, j, Len(ts) + 1)
    BY <1>1, ClosesKept
  <2>. QED  BY <1>1, <2>1 DEF HasClosed
<1>4. IsBegin(t) => t.kind \notin {"prop", "end_node", "end", "unknown"}
  BY DEF IsBegin
<1>5. t.kind = "end" => Level(Append(ts, t)) = Level(ts)
  BY LevelAppend DEF IsBegin
<1>6. /\ t.kind = "prop" => ~IsBegin(t)
      /\ t.kind = "end_node" => ~IsBegin(t)
      /\ t.kind = "end" => ~IsBegin(t)
      /\ t.kind = "unknown" => ~IsBegin(t)
  BY DEF IsBegin
<1>7. IsBegin(t) => (TokenInPlace(Append(ts, t), Len(ts) + 1) <=>
                /\ Level(ts) < DT_DEPTH_LIMIT
                /\ Level(ts) = 0 => ts = <<>> /\ t.kind = "begin_unnamed")
  BY <1>1, <1>2, <1>4 DEF TokenInPlace
<1>8. t.kind = "prop" => (TokenInPlace(Append(ts, t), Len(ts) + 1)
                            <=> Level(ts) > 0 /\ ~HasClosed(ts))
  BY <1>1, <1>2, <1>3, <1>6 DEF TokenInPlace
<1>9. t.kind = "end_node" => (TokenInPlace(Append(ts, t), Len(ts) + 1) <=> Level(ts) > 0)
  BY <1>1, <1>2, <1>6 DEF TokenInPlace
<1>10. t.kind = "end" => (TokenInPlace(Append(ts, t), Len(ts) + 1)
                            <=> Level(ts) = 0 /\ ts # <<>>)
  BY <1>1, <1>5, <1>6 DEF TokenInPlace
<1>11. t.kind = "unknown" => ~TokenInPlace(Append(ts, t), Len(ts) + 1)
  BY <1>1, <1>6 DEF TokenInPlace
<1>. QED  BY <1>7, <1>8, <1>9, <1>10, <1>11

\* A tree that goes on with a token in its place is a tree.
LEMMA TreeAppended ==
    ASSUME NEW ts \in Seq(Tokens), NEW t \in Tokens,
           IsTree(ts), \A i \in DOMAIN ts : ts[i].kind # "end",
           TokenInPlace(Append(ts, t), Len(ts) + 1)
    PROVE  IsTree(Append(ts, t))
<1>1. Len(ts) \in Nat /\ DOMAIN ts = 1 .. Len(ts) /\ DOMAIN Append(ts, t) = 1 .. Len(ts) + 1
  BY AppendProperties
<1>2. \A i \in 1 .. Len(ts) : TokenInPlace(Append(ts, t), i)
  BY <1>1, PlaceKept DEF IsTree
<1>. QED  BY <1>1, <1>2 DEF IsTree

\* A new node has closed no subnode; its end closes one of its parent's; a
\* property closes none.
LEMMA ClosedAppend ==
    ASSUME NEW ts \in Seq(Tokens), NEW t \in Tokens
    PROVE  /\ IsBegin(t) => ~HasClosed(Append(ts, t))
           /\ t.kind = "end_node" => HasClosed(Append(ts, t))
           /\ t.kind = "prop" => (HasClosed(Append(ts, t)) <=> HasClosed(ts))
<1>. DEFINE us == Append(ts, t)
            n == Len(ts)
<1>1. /\ n \in Nat /\ Len(us) = n + 1 /\ us[n + 1] = t
      /\ \A j \in 1 .. n : us[j] = ts[j]
  BY AppendProperties
<1>2. /\ Level(Before(us, n + 1)) = Level(ts)
      /\ Level(Before(us, n + 2)) = Level(us)
      /\ Level(Before(ts, n + 1)) = Level(ts)
      /\ \A k \in 1 .. n + 1 : Level(Before(us, k)) = Level(Before(ts, k))
  BY LevelsKept
<1>3. /\ Level(ts) \in Int
      /\ IsBegin(t) => Level(us) = Level(ts) + 1
      /\ t.kind = "end_node" => Level(us) = Level(ts) - 1
      /\ t.kind = "prop" => Level(us) = Level(ts)
  BY LevelAppend DEF IsBegin
<1>. HIDE DEF us, n
<1>4. HasClosed(us) <=> \E j \in 1 .. n + 1 : ClosesSubnode(us, j, n + 2)
  <2>1. Len(us) + 1 = n + 2
    BY <1>1
  <2>. QED  BY <1>1, <2>1 DEF HasClosed
<1>5. ASSUME IsBegin(t), NEW j \in 1 .. n + 1 PROVE ~ClosesSubnode(us, j, n + 2)
  <2>1. CASE j = n + 1
    BY <1>1, <1>5, <2>1 DEF ClosesSubnode, IsBegin
  <2>2. CASE j # n + 1
    <3>1. n + 1 \in j + 1 .. n + 2
      BY <1>1, <2>2
    <3>2. ~(Level(Before(us, n + 1)) >= Level(Before(us, n + 2)))
      BY <1>2, <1>3, <1>5
    <3>. QED  BY <3>1, <3>2 DEF ClosesSubnode
  <2>. QED  BY <2>1, <2>2
<1>6. ASSUME t.kind = "end_node" PROVE ClosesSubnode(us, n + 1, n + 2)
  <2>1. Level(Before(us, n + 2)) \in Int
    BY <1>2, <1>3, <1>6
  <2>2. \A k \in n + 2 .. n + 2 : k = n + 2
    BY <1>1
  <2>3. (n + 1) + 1 = n + 2
    BY <1>1
  <2>. QED  BY <1>1, <1>6, <2>1, <2>2, <2>3 DEF ClosesSubnode
<1>7. ASSUME t.kind = "prop", NEW j \in 1 .. n
      PROVE  ClosesSubnode(us, j, n + 2) <=> ClosesSubnode(ts, j, n + 1)
  <2>1. us[j] = ts[j] /\ j + 1 \in 1 .. n + 1
    BY <1>1
  <2>2. Level(Before(us, n + 2)) = Level(Before(ts, n + 1)) /\ Level(Before(ts, n + 1)) \in Int
    BY <1>2, <1>3, <1>7
  <2>3. Level(Before(us, j + 1)) = Level(Before(ts, j + 1))
    BY <1>2, <2>1
  <2>4. (\A k \in j + 1 .. n + 2 : Level(Before(us, k)) >= Level(Before(us, n + 2)))
          <=> \A k \in j + 1 .. n + 1 : Level(Before(ts, k)) >= Level(Before(ts, n + 1))
    <3>1. \A k \in j + 1 .. n + 1 : /\ k \in j + 1 .. n + 2
                                    /\ Level(Before(us, k)) = Level(Before(ts, k))
      BY <1>1, <1>2
    <3>2. \A k \in j + 1 .. n + 2 : k \in j + 1 .. n + 1 \/ k = n + 2
      BY <1>1
    <3>. QED  BY <2>2, <3>1, <3>2
  <2>. QED  BY <2>1, <2>2, <2>3, <2>4 DEF ClosesSubnode
<1>8. t.kind = "prop" => ~ClosesSubnode(us, n + 1, n + 2)
  BY <1>1 DEF ClosesSubnode
<1>9. IsBegin(t) => ~HasClosed(us)
  BY <1>4, <1>5
<1>10. t.kind = "end_node" => HasClosed(us)
  <2>1. n + 1 \in 1 .. n + 1
    BY <1>1
  <2>. QED  BY <1>4, <1>6, <2>1
<1>11. t.kind = "prop" => (HasClosed(us) <=> HasClosed(ts))
  <2> SUFFICES ASSUME t.kind = "prop" PROVE HasClosed(us) <=> HasClosed(ts)
    OBVIOUS
  <2>1. \A j \in 1 .. n + 1 : j \in 1 .. n \/ j = n + 1
    BY <1>1
  <2>2. \A j \in 1 .. n : j \in 1 .. n + 1
    BY <1>1
  <2>3. HasClosed(ts) <=> \E j \in 1 .. n : ClosesSubnode(ts, j, n + 1)
    BY DEF HasClosed, n
  <2>. QED  BY <1>4, <1>7, <1>8, <2>1, <2>2, <2>3
<1>. QED  BY <1>9, <1>10, <1>11 DEF us

-----------------------------------------------------------------------------
(* The model, and what one more token makes of it.                         *)

RootModelsOf(ts) == {i \in DOMAIN ts :
    /\ ts[i].kind = "prop" /\ ts[i].name = "model"
    /\ Level(Before(ts, i)) = 1}

\* m is what the model properties of the root among ts come to.
IsModelOf(m, ts) ==
    /\ Cardinality(RootModelsOf(ts)) = 0 => m = Model("unavailable", 0)
    /\ Cardinality(RootModelsOf(ts)) = 1 => m \in {ts[i].value : i \in RootModelsOf(ts)}
    /\ Cardinality(RootModelsOf(ts)) > 1 => m = Model("malformed", 0)

LEMMA RootModelsFinite ==
    ASSUME NEW ts \in Seq(Tokens)
    PROVE  /\ RootModelsOf(ts) \subseteq 1 .. Len(ts)
           /\ IsFiniteSet(RootModelsOf(ts)) /\ Cardinality(RootModelsOf(ts)) \in Nat
<1>1. Len(ts) \in Nat /\ IsFiniteSet(1 .. Len(ts))
  BY FS_Interval
<1>2. RootModelsOf(ts) \in SUBSET (1 .. Len(ts))
  BY DEF RootModelsOf
<1>. QED  BY <1>1, <1>2, FS_Subset, FS_CardinalityType

LEMMA RootModelsAppend ==
    ASSUME NEW ts \in Seq(Tokens), NEW t \in Tokens
    PROVE  /\ IsFiniteSet(RootModelsOf(ts))
           /\ \A i \in RootModelsOf(ts) : i \in 1 .. Len(ts) /\ Append(ts, t)[i] = ts[i]
           /\ IF t.kind = "prop" /\ t.name = "model" /\ Level(ts) = 1
                THEN /\ RootModelsOf(Append(ts, t)) = RootModelsOf(ts) \cup {Len(ts) + 1}
                     /\ Cardinality(RootModelsOf(Append(ts, t))) =
                          Cardinality(RootModelsOf(ts)) + 1
                ELSE RootModelsOf(Append(ts, t)) = RootModelsOf(ts)
<1>1. /\ Len(ts) \in Nat /\ DOMAIN ts = 1 .. Len(ts)
      /\ DOMAIN Append(ts, t) = 1 .. Len(ts) + 1
      /\ \A i \in 1 .. Len(ts) : Append(ts, t)[i] = ts[i]
      /\ Append(ts, t)[Len(ts) + 1] = t
  BY AppendProperties
<1>2. /\ \A k \in 1 .. Len(ts) : Level(Before(Append(ts, t), k)) = Level(Before(ts, k))
      /\ Level(Before(Append(ts, t), Len(ts) + 1)) = Level(ts)
  BY LevelsKept, <1>1
<1>3. RootModelsOf(ts) \subseteq 1 .. Len(ts)
  BY RootModelsFinite
<1>4. IsFiniteSet(RootModelsOf(ts))
  BY RootModelsFinite
<1>5. CASE t.kind = "prop" /\ t.name = "model" /\ Level(ts) = 1
  <2>1. RootModelsOf(Append(ts, t)) = RootModelsOf(ts) \cup {Len(ts) + 1}
    BY <1>1, <1>2, <1>5 DEF RootModelsOf
  <2>2. Len(ts) + 1 \notin RootModelsOf(ts)
    BY <1>1, <1>3
  <2>. QED  BY <1>1, <1>3, <1>4, <1>5, <2>1, <2>2, FS_AddElement
<1>6. CASE ~(t.kind = "prop" /\ t.name = "model" /\ Level(ts) = 1)
  <2>1. RootModelsOf(Append(ts, t)) = RootModelsOf(ts)
    BY <1>1, <1>2, <1>6 DEF RootModelsOf
  <2>. QED  BY <1>1, <1>3, <1>4, <1>6, <2>1
<1>. QED  BY <1>5, <1>6

\* Other tokens leave the model alone; the first model counts as it is, and
\* every further one spoils it.
LEMMA ModelAppend ==
    ASSUME NEW ts \in Seq(Tokens), NEW t \in Tokens, NEW m, IsModelOf(m, ts)
    PROVE  IF t.kind = "prop" /\ t.name = "model" /\ Level(ts) = 1
             THEN IsModelOf(IF m.state # "unavailable" THEN Model("malformed", 0)
                            ELSE t.value, Append(ts, t))
             ELSE IsModelOf(m, Append(ts, t))
<1>1. /\ IsFiniteSet(RootModelsOf(ts)) /\ Cardinality(RootModelsOf(ts)) \in Nat
      /\ \A i \in RootModelsOf(ts) : i \in 1 .. Len(ts) /\ Append(ts, t)[i] = ts[i]
  BY RootModelsAppend, RootModelsFinite
<1>2. CASE ~(t.kind = "prop" /\ t.name = "model" /\ Level(ts) = 1)
  <2>1. RootModelsOf(Append(ts, t)) = RootModelsOf(ts)
    BY <1>2, RootModelsAppend
  <2>2. {Append(ts, t)[i].value : i \in RootModelsOf(ts)} = {ts[i].value : i \in RootModelsOf(ts)}
    BY <1>1
  <2>. QED  BY <1>2, <2>1, <2>2 DEF IsModelOf
<1>3. CASE t.kind = "prop" /\ t.name = "model" /\ Level(ts) = 1
  <2>1. /\ RootModelsOf(Append(ts, t)) = RootModelsOf(ts) \cup {Len(ts) + 1}
        /\ Cardinality(RootModelsOf(Append(ts, t))) = Cardinality(RootModelsOf(ts)) + 1
    BY <1>3, RootModelsAppend
  <2>2. CASE Cardinality(RootModelsOf(ts)) = 0
    <3>1. m = Model("unavailable", 0) /\ m.state = "unavailable"
      BY <2>2 DEF IsModelOf, Model
    <3>2. Append(ts, t)[Len(ts) + 1] = t
      BY AppendProperties
    <3>. QED  BY <1>3, <2>1, <2>2, <3>1, <3>2 DEF IsModelOf
  <2>3. CASE Cardinality(RootModelsOf(ts)) # 0
    <3>1. m.state # "unavailable"
      <4>1. CASE Cardinality(RootModelsOf(ts)) = 1
        <5>1. PICK i \in RootModelsOf(ts) : m = ts[i].value
          BY <4>1 DEF IsModelOf
        <5>2. ts[i] \in Tokens /\ ts[i].kind = "prop"
          BY <1>1 DEF RootModelsOf
        <5>. QED  BY <5>1, <5>2 DEF Tokens
      <4>2. CASE Cardinality(RootModelsOf(ts)) > 1
        BY <4>2 DEF IsModelOf, Model
      <4>. QED  BY <1>1, <2>3, <4>1, <4>2
    <3>2. Cardinality(RootModelsOf(Append(ts, t))) > 1
      BY <1>1, <2>1, <2>3
    <3>. QED  BY <1>3, <3>1, <3>2 DEF IsModelOf
  <2>. QED  BY <2>2, <2>3
<1>. QED  BY <1>2, <1>3

\* ModelIsTheRoots in these words.
LEMMA ModelWords ==
    ASSUME tokens \in Seq(Tokens)
    PROVE  ModelIsTheRoots <=>
             IF at = "returned" /\ verdict # Observed
               THEN model = Model("not_probed", 0) ELSE IsModelOf(model, tokens)
<1>1. RootModels = RootModelsOf(tokens)
  BY DEF RootModels, RootModelsOf
<1>2. Cardinality(RootModelsOf(tokens)) \in Nat
  BY RootModelsFinite
<1>. QED  BY <1>1, <1>2 DEF ModelIsTheRoots, IsModelOf

LEMMA ModelFollows ==
    ASSUME tokens' \in Seq(Tokens), IsModelOf(model', tokens'),
           at' = "loop" \/ verdict' = Observed
    PROVE  ModelIsTheRoots'
<1>. DEFINE R == RootModelsOf(tokens')
<1>1. RootModels' = R
  BY DEF RootModels, RootModelsOf
<1>2. /\ Cardinality(R) \in Nat
      /\ Cardinality(R) = 0 => model' = Model("unavailable", 0)
      /\ Cardinality(R) = 1 => model' \in {tokens'[i].value : i \in R}
      /\ Cardinality(R) > 1 => model' = Model("malformed", 0)
  BY RootModelsFinite DEF IsModelOf
<1>. HIDE DEF R
<1>3. Cardinality(R) = 0 \/ Cardinality(R) = 1 \/ Cardinality(R) > 1
  BY <1>2
<1>. QED  BY <1>1, <1>2, <1>3 DEF ModelIsTheRoots

-----------------------------------------------------------------------------
(* The steps of the walk.                                                  *)

LEMMA TokenTypes ==
    /\ \A k \in Kinds \ {"prop"} : Bare(k) \in Tokens /\ Bare(k).kind = k
    /\ \A value : \A len \in Nat, name \in Names :
         LET t == Token("prop", name, ModelValue(len, value)) IN
         /\ t \in Tokens /\ t.kind = "prop" /\ t.name = name
         /\ t.value = ModelValue(len, value)
<1>1. \A k \in Kinds \ {"prop"} : Bare(k) \in Tokens /\ Bare(k).kind = k
  BY DEF Bare, Token, Tokens, Model, State
<1>2. ASSUME NEW len \in Nat, NEW value
      PROVE  ModelValue(len, value) \in [state : State, length : Nat]
             /\ ModelValue(len, value).state # "unavailable"
  BY DEF ModelValue, Model, State
<1>. QED  BY <1>1, <1>2 DEF Token, Tokens, Kinds

\* Returning with a verdict that a misplaced token, or the block's end,
\* accounts for.
LEMMA FailWalk ==
    ASSUME WalkInv, at = "loop", NEW v, Fail(v), v # Observed,
           \/ tokens' = tokens
           \/ \E t \in Tokens : tokens' = Append(tokens, t),
           \/ v.detail \in {"missing_end", "trailing_structure", "name_truncated",
                            "property_truncated", "property_name"}
           \/ tokens' # <<>> /\ ~TokenInPlace(tokens', Len(tokens'))
    PROVE  WalkInv'
<1>1. at' = "returned" /\ verdict' = v /\ model' = Model("not_probed", 0)
  BY DEF Fail
<1>2. tokens' \in Seq(Tokens)
  BY AppendProperties DEF WalkInv, TokenInv
<1>3. TokenInv'
  BY <1>1, <1>2 DEF TokenInv
<1>4. AcceptsOnlyTrees'
  BY <1>1 DEF AcceptsOnlyTrees, Observed, Result
<1>5. RejectsOnlyOthers'
  BY <1>1 DEF RejectsOnlyOthers
<1>6. ModelIsTheRoots'
  BY <1>1 DEF ModelIsTheRoots, Observed, Result, Model
<1>. QED  BY <1>3, <1>4, <1>5, <1>6 DEF WalkInv

\* Going on behind a token that is in place.
LEMMA GoOn ==
    ASSUME WalkInv, at = "loop", at' = "loop",
           NEW t \in Tokens, t.kind # "end", tokens' = Append(tokens, t),
           TokenInPlace(Append(tokens, t), Len(tokens) + 1),
           depth' = Level(Append(tokens, t)), roots' # 0,
           depth' > 0 => (has_child'[depth' - 1] <=> HasClosed(Append(tokens, t))),
           \A d \in 1 .. depth' - 1 : has_child'[d - 1],
           verdict' = Observed, IsModelOf(model', Append(tokens, t))
    PROVE  WalkInv'
<1>1. /\ tokens \in Seq(Tokens) /\ IsTree(tokens)
      /\ \A i \in DOMAIN tokens : tokens[i].kind # "end"
  BY DEF WalkInv, TokenInv, AcceptsOnlyTrees
<1>2. tokens' \in Seq(Tokens) /\ tokens' # <<>>
  BY <1>1, AppendProperties
<1>3. \A i \in DOMAIN tokens' : tokens'[i].kind # "end"
  <2>1. /\ DOMAIN tokens' = 1 .. Len(tokens) + 1 /\ Len(tokens) \in Nat
        /\ \A i \in 1 .. Len(tokens) : tokens'[i] = tokens[i]
        /\ tokens'[Len(tokens) + 1] = t
    BY <1>1, AppendProperties
  <2>. QED  BY <1>1, <2>1
<1>4. TokenInv'
  BY <1>2, <1>3 DEF TokenInv
<1>5. IsTree(tokens')
  BY <1>1, TreeAppended
<1>6. AcceptsOnlyTrees'
  BY <1>5 DEF AcceptsOnlyTrees, IsTree
<1>7. ModelIsTheRoots'
  BY <1>2, ModelFollows
<1>. QED  BY <1>4, <1>6, <1>7 DEF WalkInv, RejectsOnlyOthers

\* What holds before the first token, whatever the size of the block.
LEMMA WalkStart ==
    ASSUME at = "loop", tokens = <<>>, roots = 0, depth = 0,
           model = Model("unavailable", 0), verdict = Observed
    PROVE  WalkInv
<1>1. DOMAIN tokens = {} /\ tokens \in Seq(Tokens)
  OBVIOUS
<1>2. TokenInv
  BY <1>1 DEF TokenInv
<1>3. AcceptsOnlyTrees
  BY <1>1, LevelEmpty DEF AcceptsOnlyTrees, IsTree
<1>4. RejectsOnlyOthers
  BY DEF RejectsOnlyOthers
<1>5. IsModelOf(model, tokens)
  <2>1. RootModelsOf(tokens) = {}
    BY <1>1 DEF RootModelsOf
  <2>2. Cardinality(RootModelsOf(tokens)) = 0
    BY <2>1, FS_EmptySet
  <2>. QED  BY <1>1, <2>2 DEF IsModelOf
<1>6. ModelIsTheRoots
  BY <1>1, <1>5, ModelWords
<1>. QED  BY <1>2, <1>3, <1>4, <1>6 DEF WalkInv

LEMMA WalkInit == Init => WalkInv
  BY WalkStart DEF Init

\* What the walk knows before it reads a token, and where it looks for it
\* afterwards.
LEMMA Reading ==
    ASSUME WalkInv, at = "loop"
    PROVE  /\ tokens \in Seq(Tokens) /\ IsTree(tokens) /\ verdict = Observed
           /\ \A i \in DOMAIN tokens : tokens[i].kind # "end"
           /\ depth = Level(tokens) /\ IsModelOf(model, tokens)
           /\ roots = 0 <=> tokens = <<>>
           /\ depth # 0 => roots # 0
           /\ depth > 0 => (has_child[depth - 1] <=> HasClosed(tokens))
           /\ \A d \in 1 .. depth - 1 : has_child[d - 1]
           /\ \A t \in Tokens : tokens' = Append(tokens, t) =>
                /\ tokens' # <<>>
                /\ TokenInPlace(tokens', Len(tokens'))
                     <=> TokenInPlace(Append(tokens, t), Len(tokens) + 1)
<1>1. /\ tokens \in Seq(Tokens) /\ IsTree(tokens) /\ depth = Level(tokens)
      /\ verdict = Observed
      /\ \A i \in DOMAIN tokens : tokens[i].kind # "end"
      /\ roots = 0 <=> tokens = <<>>
      /\ depth > 0 => (has_child[depth - 1] <=> HasClosed(tokens))
      /\ \A d \in 1 .. depth - 1 : has_child[d - 1]
  BY DEF WalkInv, TokenInv, AcceptsOnlyTrees
<1>2. IsModelOf(model, tokens)
  BY <1>1, ModelWords DEF WalkInv
<1>3. depth # 0 => roots # 0
  BY <1>1, LevelEmpty
<1>4. ASSUME NEW t \in Tokens, tokens' = Append(tokens, t)
      PROVE  tokens' # <<>> /\ Len(tokens') = Len(tokens) + 1
  BY <1>1, <1>4, AppendProperties
<1>. QED  BY <1>1, <1>2, <1>3, <1>4

LEMMA PlainWalk ==
    ASSUME WalkInv, MissingEnd \/ Nop \/ UnknownToken
    PROVE  WalkInv'
<1>1. CASE MissingEnd
  <2>1. at = "loop" /\ Fail(malformed("missing_end")) /\ tokens' = tokens
    BY <1>1 DEF MissingEnd
  <2>2. malformed("missing_end") # Observed
        /\ malformed("missing_end").detail = "missing_end"
    BY DEF malformed, Result, Observed
  <2>. QED  BY <2>1, <2>2, FailWalk
<1>2. CASE Nop
  <2>1. at = "loop"
        /\ UNCHANGED <<at, depth, roots, has_child, model, verdict, tokens>>
    BY <1>2 DEF Nop
  <2>2. TokenInv' /\ RejectsOnlyOthers'
    BY <2>1 DEF WalkInv, TokenInv, RejectsOnlyOthers
  <2>3. AcceptsOnlyTrees'
    BY <2>1 DEF WalkInv, AcceptsOnlyTrees
  <2>4. ModelIsTheRoots'
    <3>1. RootModels' = RootModels
      BY <2>1 DEF RootModels
    <3>. QED  BY <2>1, <3>1 DEF WalkInv, ModelIsTheRoots
  <2>. QED  BY <2>2, <2>3, <2>4 DEF WalkInv
<1>3. CASE UnknownToken
  <2>1. at = "loop" /\ Fail(malformed("token")) /\ tokens' = Append(tokens, Bare("unknown"))
    BY <1>3 DEF UnknownToken, Read
  <2>2. malformed("token") # Observed
    BY DEF malformed, Result, Observed
  <2>3. Bare("unknown") \in Tokens /\ Bare("unknown").kind = "unknown"
    BY TokenTypes DEF Kinds
  <2>4. ~TokenInPlace(Append(tokens, Bare("unknown")), Len(tokens) + 1)
    BY <2>1, <2>3, Reading, PlaceAppended
  <2>. QED  BY <2>1, <2>2, <2>3, <2>4, Reading, FailWalk
<1>. QED  BY <1>1, <1>2, <1>3

\* A node that begins in its place is entered, and one that does not is
\* what the verdict says.
LEMMA BeginNodeWalk ==
    ASSUME StructureConstants, SInv, WalkInv,
           NEW n \in NameLengths \cup {Unterminated}, BeginNode(n)
    PROVE  WalkInv'
<1>. DEFINE t == Bare(IF n = 0 THEN "begin_unnamed" ELSE "begin")
<1>1. at = "loop" /\ tokens' = Append(tokens, t)
  BY DEF BeginNode, Read
<1>2. /\ t \in Tokens /\ IsBegin(t) /\ t.kind # "end"
      /\ t.kind # "prop" /\ (t.kind = "begin_unnamed" <=> n = 0)
  BY TokenTypes DEF Kinds, IsBegin
<1>. HIDE DEF t
<1>3. /\ tokens \in Seq(Tokens) /\ depth = Level(tokens)
      /\ roots = 0 <=> tokens = <<>>
      /\ depth # 0 => roots # 0
      /\ \A d \in 1 .. depth - 1 : has_child[d - 1]
      /\ IsModelOf(model, tokens) /\ tokens' # <<>> /\ verdict = Observed
      /\ TokenInPlace(tokens', Len(tokens'))
           <=> TokenInPlace(Append(tokens, t), Len(tokens) + 1)
  BY <1>1, <1>2, Reading
<1>4. TokenInPlace(Append(tokens, t), Len(tokens) + 1) <=>
        /\ depth < DT_DEPTH_LIMIT
        /\ depth = 0 => roots = 0 /\ n = 0
  BY <1>2, <1>3, PlaceAppended
<1>5. depth \in 0 .. DT_DEPTH_LIMIT /\ DT_DEPTH_LIMIT \in Nat
  BY DEF SInv, TypeOK, StructureConstants
<1>6. CASE BeginVerdict(n) # Observed
  <2>1. Fail(BeginVerdict(n))
    BY <1>6 DEF BeginNode
  <2>2. \/ depth = 0 /\ roots # 0
        \/ BeginVerdict(n).detail = "name_truncated"
        \/ depth = 0 /\ n # 0
        \/ depth = DT_DEPTH_LIMIT
    BY <1>6 DEF BeginVerdict, malformed, Result, TooDeep
  <2>. QED  BY <1>1, <1>2, <1>3, <1>4, <1>5, <1>6, <2>1, <2>2, FailWalk
<1>7. CASE BeginVerdict(n) = Observed
  <2>1. /\ depth # DT_DEPTH_LIMIT /\ (depth = 0 => roots = 0 /\ n = 0)
    BY <1>7 DEF BeginVerdict, malformed, Result, Observed, TooDeep
  <2>2. /\ roots' = IF depth = 0 THEN roots + 1 ELSE roots
        /\ has_child' = ChildEntered /\ depth' = depth + 1
        /\ at' = at /\ model' = model /\ verdict' = verdict
    BY <1>7 DEF BeginNode
  <2>3. TokenInPlace(Append(tokens, t), Len(tokens) + 1)
    BY <1>4, <1>5, <2>1
  <2>4. depth' = Level(Append(tokens, t)) /\ roots' # 0
    <3>1. depth' = Level(Append(tokens, t))
      BY <1>2, <1>3, <2>2, LevelAppend
    <3>. QED  BY <1>3, <2>1, <2>2, <3>1
  <2>5. depth \in DOMAIN has_child /\ DOMAIN has_child = 0 .. DT_DEPTH_LIMIT - 1
    BY <1>5, <2>1 DEF SInv, TypeOK
  <2>6. depth' > 0 => (has_child'[depth' - 1] <=> HasClosed(Append(tokens, t)))
    <3>1. ~HasClosed(Append(tokens, t))
      BY <1>2, <1>3, ClosedAppend
    <3>2. depth' - 1 = depth
      BY <1>5, <2>2
    <3>3. ~has_child'[depth]
      BY <2>2, <2>5 DEF ChildEntered
    <3>. QED  BY <3>1, <3>2, <3>3
  <2>7. ASSUME NEW d \in 1 .. depth' - 1 PROVE has_child'[d - 1]
    <3>1. d \in 1 .. depth /\ d - 1 \in DOMAIN has_child /\ d - 1 # depth
      BY <1>5, <2>1, <2>2, <2>5
    <3>2. d - 1 = depth - 1 \/ d \in 1 .. depth - 1
      BY <1>5, <3>1
    <3>3. has_child'[d - 1] = (d - 1 = depth - 1 \/ has_child[d - 1])
      BY <2>2, <3>1 DEF ChildEntered
    <3>. QED  BY <1>3, <3>2, <3>3
  <2>8. IsModelOf(model', Append(tokens, t))
    BY <1>2, <1>3, <2>2, ModelAppend
  <2>. QED  BY <1>1, <1>2, <1>3, <2>2, <2>3, <2>4, <2>6, <2>7, <2>8, GoOn
<1>. QED  BY <1>6, <1>7

LEMMA EndNodeWalk ==
    ASSUME StructureConstants, SInv, WalkInv, EndNode
    PROVE  WalkInv'
<1>. DEFINE t == Bare("end_node")
<1>1. at = "loop" /\ tokens' = Append(tokens, t)
  BY DEF EndNode, Read
<1>2. t \in Tokens /\ t.kind = "end_node"
  BY TokenTypes DEF Kinds
<1>. HIDE DEF t
<1>3. /\ tokens \in Seq(Tokens) /\ depth = Level(tokens)
      /\ depth # 0 => roots # 0
      /\ \A d \in 1 .. depth - 1 : has_child[d - 1]
      /\ IsModelOf(model, tokens) /\ tokens' # <<>> /\ verdict = Observed
      /\ TokenInPlace(tokens', Len(tokens'))
           <=> TokenInPlace(Append(tokens, t), Len(tokens) + 1)
  BY <1>1, <1>2, Reading
<1>4. TokenInPlace(Append(tokens, t), Len(tokens) + 1) <=> depth > 0
  BY <1>2, <1>3, PlaceAppended
<1>5. depth \in 0 .. DT_DEPTH_LIMIT /\ DT_DEPTH_LIMIT \in Nat
  BY DEF SInv, TypeOK, StructureConstants
<1>6. CASE depth = 0
  <2>1. Fail(malformed("unbalanced_end_node"))
    BY <1>6 DEF EndNode
  <2>2. malformed("unbalanced_end_node") # Observed
    BY DEF malformed, Result, Observed
  <2>. QED  BY <1>1, <1>2, <1>3, <1>4, <1>6, <2>1, <2>2, FailWalk
<1>7. CASE depth # 0
  <2>1. /\ depth' = depth - 1 /\ has_child' = [has_child EXCEPT ![depth - 1] = FALSE]
        /\ at' = at /\ roots' = roots /\ model' = model /\ verdict' = verdict
    BY <1>7 DEF EndNode
  <2>2. TokenInPlace(Append(tokens, t), Len(tokens) + 1)
    BY <1>4, <1>5, <1>7
  <2>3. depth' = Level(Append(tokens, t)) /\ roots' # 0
    BY <1>2, <1>3, <1>7, <2>1, LevelAppend
  <2>4. ASSUME NEW d \in 1 .. depth' PROVE has_child'[d - 1]
    <3>1. d \in 1 .. depth - 1 /\ d - 1 # depth - 1
      BY <1>5, <2>1
    <3>2. has_child'[d - 1] = has_child[d - 1]
      BY <1>5, <2>1, <3>1 DEF SInv, TypeOK
    <3>. QED  BY <1>3, <3>1, <3>2
  <2>5. HasClosed(Append(tokens, t))
    BY <1>2, <1>3, ClosedAppend
  <2>6. depth' > 0 => (has_child'[depth' - 1] <=> HasClosed(Append(tokens, t)))
    <3>1. depth' > 0 => depth' \in 1 .. depth'
      BY <1>5, <2>1
    <3>. QED  BY <2>4, <2>5, <3>1
  <2>7. \A d \in 1 .. depth' - 1 : has_child'[d - 1]
    <3>1. \A d \in 1 .. depth' - 1 : d \in 1 .. depth'
      BY <1>5, <2>1
    <3>. QED  BY <2>4, <3>1
  <2>8. IsModelOf(model', Append(tokens, t))
    BY <1>2, <1>3, <2>1, ModelAppend
  <2>. QED  BY <1>1, <1>2, <1>3, <2>1, <2>2, <2>3, <2>6, <2>7, <2>8, GoOn
<1>. QED  BY <1>6, <1>7

\* FDT_END makes the tokens a whole tree, or does not close every node, or
\* leaves bytes behind it.
LEMMA EndWalk ==
    ASSUME StructureConstants, SInv, WalkInv, End
    PROVE  WalkInv'
<1>. DEFINE t == Bare("end")
<1>1. at = "loop" /\ size' = size /\ tokens' = Append(tokens, t)
  BY DEF End, Read
<1>2. t \in Tokens /\ t.kind = "end"
  BY TokenTypes DEF Kinds
<1>. HIDE DEF t
<1>3. /\ tokens \in Seq(Tokens) /\ depth = Level(tokens) /\ IsTree(tokens)
      /\ \A i \in DOMAIN tokens : tokens[i].kind # "end"
      /\ roots = 0 <=> tokens = <<>>
      /\ IsModelOf(model, tokens) /\ tokens' # <<>> /\ verdict = Observed
      /\ TokenInPlace(tokens', Len(tokens'))
           <=> TokenInPlace(Append(tokens, t), Len(tokens) + 1)
  BY <1>1, <1>2, Reading
<1>4. TokenInPlace(Append(tokens, t), Len(tokens) + 1) <=> depth = 0 /\ roots # 0
  BY <1>2, <1>3, PlaceAppended
<1>5. CASE depth # 0 \/ roots = 0
  <2>1. Fail(malformed("unterminated_node"))
    BY <1>5 DEF End
  <2>2. malformed("unterminated_node") # Observed
    BY DEF malformed, Result, Observed
  <2>. QED  BY <1>1, <1>2, <1>3, <1>4, <1>5, <2>1, <2>2, FailWalk
<1>6. CASE ~(depth # 0 \/ roots = 0) /\ AfterToken(pos) # size
  <2>1. Fail(malformed("trailing_structure"))
    BY <1>6 DEF End
  <2>2. malformed("trailing_structure") # Observed
        /\ malformed("trailing_structure").detail = "trailing_structure"
    BY DEF malformed, Result, Observed
  <2>. QED  BY <1>1, <1>2, <1>3, <2>1, <2>2, FailWalk
<1>7. CASE ~(depth # 0 \/ roots = 0) /\ AfterToken(pos) = size
  <2>1. /\ at' = "returned" /\ pos' = size' /\ model' = model /\ verdict' = Observed
    BY <1>1, <1>3, <1>7 DEF End
  <2>2. tokens' \in Seq(Tokens) /\ Len(tokens') = Len(tokens) + 1
        /\ tokens'[Len(tokens')] = t
    BY <1>1, <1>2, <1>3, AppendProperties
  <2>3. IsTree(tokens')
    BY <1>1, <1>2, <1>3, <1>4, <1>7, TreeAppended
  <2>4. IsModelOf(model', tokens')
    BY <1>1, <1>2, <1>3, <2>1, ModelAppend
  <2>5. TokenInv'
    BY <2>1, <2>2 DEF TokenInv
  <2>6. AcceptsOnlyTrees'
    BY <1>2, <2>1, <2>2, <2>3 DEF AcceptsOnlyTrees, IsTree
  <2>7. RejectsOnlyOthers'
    BY <2>1 DEF RejectsOnlyOthers
  <2>8. ModelIsTheRoots'
    BY <2>1, <2>2, <2>4, ModelFollows
  <2>. QED  BY <2>5, <2>6, <2>7, <2>8 DEF WalkInv
<1>. QED  BY <1>5, <1>6, <1>7

\* A property in its place gives the root its model or leaves it alone.
LEMMA PropertyWalk ==
    ASSUME StructureConstants, SInv, WalkInv,
           NEW len \in PropLengths, NEW name \in Names, NEW value \in Values,
           Property(len, name, value)
    PROVE  WalkInv'
<1>. DEFINE t == Token("prop", name, ModelValue(len, value))
<1>1. at = "loop" /\ tokens' = Append(tokens, t) /\ len \in Nat
  BY DEF Property, Read, StructureConstants
<1>2. /\ t \in Tokens /\ t.kind = "prop" /\ t.name = name
      /\ t.value = ModelValue(len, value) /\ ~IsBegin(t) /\ t.kind # "end_node"
  BY <1>1, TokenTypes DEF IsBegin
<1>. HIDE DEF t
<1>3. /\ tokens \in Seq(Tokens) /\ depth = Level(tokens)
      /\ depth # 0 => roots # 0
      /\ depth > 0 => (has_child[depth - 1] <=> HasClosed(tokens))
      /\ \A d \in 1 .. depth - 1 : has_child[d - 1]
      /\ IsModelOf(model, tokens) /\ tokens' # <<>> /\ verdict = Observed
      /\ TokenInPlace(tokens', Len(tokens'))
           <=> TokenInPlace(Append(tokens, t), Len(tokens) + 1)
  BY <1>1, <1>2, Reading
<1>4. TokenInPlace(Append(tokens, t), Len(tokens) + 1) <=> depth > 0 /\ ~HasClosed(tokens)
  BY <1>2, <1>3, PlaceAppended
<1>5. depth \in Nat
  BY DEF SInv, TypeOK
<1>6. CASE PropVerdict(len, name) # Observed
  <2>1. Fail(PropVerdict(len, name))
    BY <1>6 DEF Property
  <2>2. \/ depth = 0
        \/ PropVerdict(len, name).detail \in {"property_truncated", "property_name"}
        \/ depth # 0 /\ HasSubnode
    BY <1>6 DEF PropVerdict, malformed, Result
  <2>. QED  BY <1>1, <1>2, <1>3, <1>4, <1>5, <1>6, <2>1, <2>2, FailWalk DEF HasSubnode
<1>7. CASE PropVerdict(len, name) = Observed
  <2>1. depth # 0 /\ ~HasSubnode
    BY <1>7 DEF PropVerdict, malformed, Result, Observed
  <2>2. /\ model' = IF IsRootModel(name) THEN take_model(len, value) ELSE model
        /\ UNCHANGED <<at, depth, roots, has_child, verdict>>
    BY <1>7 DEF Property
  <2>3. TokenInPlace(Append(tokens, t), Len(tokens) + 1)
    BY <1>3, <1>4, <1>5, <2>1 DEF HasSubnode
  <2>4. depth' = Level(Append(tokens, t)) /\ roots' # 0
    BY <1>2, <1>3, <2>1, <2>2, LevelAppend
  <2>5. HasClosed(Append(tokens, t)) <=> HasClosed(tokens)
    BY <1>2, <1>3, ClosedAppend
  <2>6. IsModelOf(model', Append(tokens, t))
    <3>1. CASE IsRootModel(name)
      BY <1>2, <1>3, <2>2, <3>1, ModelAppend DEF IsRootModel, take_model
    <3>2. CASE ~IsRootModel(name)
      BY <1>2, <1>3, <2>2, <3>2, ModelAppend DEF IsRootModel
    <3>. QED  BY <3>1, <3>2
  <2>. QED  BY <1>1, <1>2, <1>3, <2>2, <2>3, <2>4, <2>5, <2>6, GoOn
<1>. QED  BY <1>6, <1>7

LEMMA WalkNext ==
    ASSUME StructureConstants, SInv, WalkInv, [Next]_vars
    PROVE  WalkInv'
<1>1. CASE UNCHANGED vars
  <2>1. /\ UNCHANGED <<at, size, pos, depth, roots, has_child, model, verdict, tokens>>
        /\ RootModels' = RootModels
    BY <1>1 DEF vars, RootModels
  <2>2. TokenInv' /\ AcceptsOnlyTrees' /\ RejectsOnlyOthers'
    BY <2>1 DEF WalkInv, TokenInv, AcceptsOnlyTrees, RejectsOnlyOthers
  <2>3. ModelIsTheRoots'
    BY <2>1 DEF WalkInv, ModelIsTheRoots
  <2>. QED  BY <2>2, <2>3 DEF WalkInv
<1>2. CASE Next
  BY <1>2, PlainWalk, BeginNodeWalk, EndNodeWalk, EndWalk, PropertyWalk DEF Next
<1>. QED  BY <1>1, <1>2

LEMMA WalkInvariance == ASSUME StructureConstants PROVE Spec => []WalkInv
  BY WalkInit, WalkNext, StructureInvariance, PTL DEF Spec

-----------------------------------------------------------------------------
(* The theorems.                                                           *)

\* The nesting depth stays within the limit and so within has_child, and
\* every other variable keeps its type.
THEOREM StructureTypes == ASSUME StructureConstants PROVE Spec => []TypeOK
  BY StructureInvariance, PTL DEF SInv

\* The walk reads only inside the structure block, and end - pos never
\* wraps.
THEOREM StructureReads == ASSUME StructureConstants PROVE Spec => []StaysInBlock
  BY StructureInvariance, PTL DEF SInv

\* Every round that goes on consumes a token, so the walk ends.
THEOREM StructureProgress == ASSUME StructureConstants PROVE Spec => Advances
<1>1. SInv /\ [Next]_vars => [at' = "loop" => pos' >= pos + 4]_vars
  <2> SUFFICES ASSUME SInv, Next, at' = "loop" PROVE pos' >= pos + 4
    BY DEF vars
  <2>1. pos \in Nat
    BY DEF SInv, TypeOK
  <2>2. CASE Nop \/ EndNode
    BY <2>1, <2>2 DEF Nop, EndNode, Fail, AfterToken
  <2>3. CASE \E n \in NameLengths \cup {Unterminated} : BeginNode(n)
    <3>1. PICK n \in NameLengths \cup {Unterminated} : BeginNode(n)
      BY <2>3
    <3>2. BeginVerdict(n) = Observed
      BY <3>1 DEF BeginNode, Fail
    <3>3. n \in Nat /\ pos' = Aligned(pos + 4 + n + 1)
      BY <2>1, <3>1, <3>2
      DEF StructureConstants, BeginNode, BeginVerdict, malformed, Result,
          Observed, AfterToken
    <3>. QED  BY <2>1, <3>3 DEF Aligned
  <2>4. CASE \E len \in PropLengths, name \in Names, value \in Values :
                Property(len, name, value)
    <3>1. PICK len \in PropLengths, name \in Names, value \in Values :
                Property(len, name, value)
      BY <2>4
    <3>2. len \in Nat /\ pos' = Aligned(pos + 12 + len)
      BY <3>1 DEF Property, Fail, StructureConstants
    <3>. QED  BY <2>1, <3>2 DEF Aligned
  <2>5. ~MissingEnd /\ ~UnknownToken /\ ~End
    BY DEF MissingEnd, UnknownToken, End, Fail
  <2>. QED  BY <2>2, <2>3, <2>4, <2>5 DEF Next
<1>. QED  BY <1>1, StructureInvariance, PTL DEF Spec, Advances

\* core.c 143-168: what the walk takes for a device tree is one: a single
\* unnamed root, balanced nodes within the depth limit, no property outside
\* the root or behind a subnode of its node, FDT_END at the block's end.
THEOREM StructureTrees == ASSUME StructureConstants PROVE Spec => []AcceptsOnlyTrees
  BY WalkInvariance, PTL DEF WalkInv

\* core.c 138-172: and it refuses nothing else, but for a name or a value
\* that leaves its block.
THEOREM StructureRefusals == ASSUME StructureConstants PROVE Spec => []RejectsOnlyOthers
  BY WalkInvariance, PTL DEF WalkInv

\* core.c 50-66, 160-166: the model reported is what the root's model
\* properties come to, however many there are and whatever follows them.
THEOREM StructureModel == ASSUME StructureConstants PROVE Spec => []ModelIsTheRoots
  BY WalkInvariance, PTL DEF WalkInv
=============================================================================
