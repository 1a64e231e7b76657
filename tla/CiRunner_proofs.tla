-------------------------- MODULE CiRunner_proofs --------------------------
(***************************************************************************)
(* What ci/run.sh builds, refuses and hands to nci, for every set of       *)
(* recipes and plans and every request.                                    *)
(***************************************************************************)
EXTENDS CiRunner, SequenceTheorems, TLAPS

\* The pieces that a recipe's string of plans is made of.
Pieces == Plans \cup {Space}

RunnerTypes ==
    /\ exp \in Requests
    /\ runner \in [DOMAIN runner -> Seq(Pieces)]
    /\ pc = "collect" => runner = <<>>
    /\ pc = "recipes" => left \in Seq(Names)
    /\ pc \in {"defaults", "setup"} => left \subseteq DOMAIN runner
    /\ pc = "plans" => left \in Seq(Plans \cup Missing)
    /\ pc = "nci" => left = {}
    /\ pc \in {"collect", "recipes", "defaults", "plans", "build", "refused"} =>
         nci_plans = <<>>
    /\ nci_plans \in Seq([recipe : DOMAIN runner, words : SUBSET Seq(Pieces)])
    /\ pc \in {"collect", "recipes", "defaults", "plans", "build", "setup",
               "nci", "refused", "failed"}

\* A recipe that has been looked at has a plan.
Planned ==
    /\ pc = "defaults" => \A r \in DOMAIN runner \ left : runner[r] # <<>>
    /\ pc = "plans" => \A r \in DOMAIN runner : runner[r] # <<>>
    /\ BuildsOnlyWhatRuns

\* What the loops let pass.
FitRecipe(r) == r \in InConfig /\ (r \in Arm64 => DefaultPlans[r] # <<>>)
FitPlan(p) == p \in Plans /\ Cardinality(PlanRecipe[p]) = 1

\* Which recipes are in the array: those asked for, without those that were
\* dropped for want of a plan, and then those of the plans asked for.  The
\* names that a loop is done with are fit.
Collected ==
    /\ pc = "recipes" => DOMAIN runner \cup RangeOf(left) = AskedRecipes
    /\ pc = "defaults" =>
         /\ DOMAIN runner \subseteq AskedRecipes
         /\ \A r \in AskedRecipes \ left : FitRecipe(r)
         /\ \A r \in AskedRecipes \ DOMAIN runner : DefaultPlans[r] = <<>>
         /\ \A r \in DOMAIN runner \ left : DefaultPlans[r] # <<>>
    /\ pc = "plans" =>
         /\ \A r \in AskedRecipes : FitRecipe(r)
         /\ \A r \in AskedRecipes \ DOMAIN runner : DefaultPlans[r] = <<>>
         /\ \A p \in RangeOf(exp.plans) : p \in RangeOf(left) \/ FitPlan(p)
         /\ RangeOf(left) \subseteq RangeOf(exp.plans)
         /\ left = exp.plans \/ DOMAIN runner # {}
         /\ exp.plans = <<>> =>
              \A r \in DOMAIN runner : r \in AskedRecipes /\ DefaultPlans[r] # <<>>
    /\ RefusesExactlyUnsupported

CInv == RunnerTypes /\ Planned /\ Collected

\* Where the strings of plans are as the script means them: no plan that is
\* asked for joins the default plans of its recipe, and no recipe has two
\* default plans.
PlansApart == \A q \in Requests : Apart(q)
OneDefaultPlan == \A r \in InConfig : Len(DefaultPlans[r]) <= 1

DefaultsAsked == UNION {{<<p>> : p \in RangeOf(DefaultPlans[r])} : r \in AskedRecipes}
PlansAsked == {<<p>> : p \in RangeOf(exp.plans)}

WordsOf(R) == UNION {Words(runner[r]) : r \in R}

\* A plan appended to s becomes a word of its own.
Parted(s) == s = <<>> \/ s[Len(s)] = Space

\* What is in the strings, and what of the request is still to come.
Gathered ==
    /\ pc = "recipes" => \A r \in DOMAIN runner : runner[r] = <<>>
    /\ pc = "defaults" =>
         /\ \A r \in left : runner[r] = <<>>
         /\ \A r \in DOMAIN runner \ left : runner[r] = DefaultPlans[r]
    /\ pc = "plans" =>
         /\ WordsOf(DOMAIN runner) \cup {<<p>> : p \in RangeOf(left)} =
              PlansAsked \cup DefaultsAsked
         /\ left # <<>> => \A r \in DOMAIN runner \ RangeOf(exp.recipes) : Parted(runner[r])
    /\ pc \in {"build", "setup", "nci"} =>
         WordsOf(DOMAIN runner) = PlansAsked \cup DefaultsAsked
    /\ pc \in {"setup", "nci"} =>
         UNION {n.words : n \in RangeOf(nci_plans)} = WordsOf(DOMAIN runner \ left)
-----------------------------------------------------------------------------
(* Sequences, arrays and requests.                                         *)

LEMMA Peeled ==
    ASSUME NEW S, NEW s \in Seq(S), s # <<>>
    PROVE  /\ Head(s) \in S /\ Tail(s) \in Seq(S)
           /\ RangeOf(s) = {Head(s)} \cup RangeOf(Tail(s))
<1>1. /\ Head(s) \in S /\ Tail(s) \in Seq(S) /\ Len(Tail(s)) = Len(s) - 1
      /\ \A i \in 1 .. Len(Tail(s)) : Tail(s)[i] = s[i + 1]
  BY HeadTailProperties
<1>2. Len(s) \in Nat \ {0} /\ DOMAIN s = 1 .. Len(s) /\ Head(s) = s[1]
  BY EmptySeq
<1>3. DOMAIN Tail(s) = 1 .. Len(s) - 1
  BY <1>1
<1>4. ASSUME NEW i \in DOMAIN s PROVE s[i] \in {Head(s)} \cup RangeOf(Tail(s))
  <2>1. CASE i = 1
    BY <1>2, <2>1
  <2>2. CASE i # 1
    <3>1. i - 1 \in DOMAIN Tail(s) /\ Tail(s)[i - 1] = s[i]
      BY <1>1, <1>2, <1>3, <2>2
    <3>. QED  BY <3>1 DEF RangeOf
  <2>. QED  BY <2>1, <2>2
<1>5. ASSUME NEW i \in DOMAIN Tail(s) PROVE Tail(s)[i] \in RangeOf(s)
  <2>1. i + 1 \in DOMAIN s /\ Tail(s)[i] = s[i + 1]
    BY <1>1, <1>2, <1>3
  <2>. QED  BY <2>1 DEF RangeOf
<1>6. Head(s) \in RangeOf(s)
  BY <1>2 DEF RangeOf
<1>7. RangeOf(s) \subseteq {Head(s)} \cup RangeOf(Tail(s))
  BY <1>4 DEF RangeOf
<1>8. RangeOf(Tail(s)) \subseteq RangeOf(s)
  BY <1>5 DEF RangeOf
<1>. QED  BY <1>1, <1>6, <1>7, <1>8

LEMMA RangeEmpty == RangeOf(<<>>) = {}
  BY DEF RangeOf

LEMMA RangeAppend ==
    ASSUME NEW S, NEW s \in Seq(S), NEW x \in S
    PROVE  RangeOf(Append(s, x)) = RangeOf(s) \cup {x}
<1>1. /\ Len(s) \in Nat /\ DOMAIN s = 1 .. Len(s)
      /\ DOMAIN Append(s, x) = 1 .. Len(s) + 1
      /\ \A i \in 1 .. Len(s) : Append(s, x)[i] = s[i]
      /\ Append(s, x)[Len(s) + 1] = x
  BY AppendProperties
<1>2. ASSUME NEW i \in DOMAIN Append(s, x) PROVE Append(s, x)[i] \in RangeOf(s) \cup {x}
  BY <1>1 DEF RangeOf
<1>3. ASSUME NEW i \in DOMAIN s PROVE s[i] \in RangeOf(Append(s, x))
  <2>1. i \in DOMAIN Append(s, x) /\ Append(s, x)[i] = s[i]
    BY <1>1
  <2>. QED  BY <2>1 DEF RangeOf
<1>4. x \in RangeOf(Append(s, x))
  <2>1. Len(s) + 1 \in DOMAIN Append(s, x)
    BY <1>1
  <2>. QED  BY <1>1, <2>1 DEF RangeOf
<1>5. RangeOf(Append(s, x)) \subseteq RangeOf(s) \cup {x}
  BY <1>2 DEF RangeOf
<1>6. RangeOf(s) \subseteq RangeOf(Append(s, x))
  BY <1>3 DEF RangeOf
<1>. QED  BY <1>4, <1>5, <1>6

LEMMA Asked ==
    ASSUME RunnerTypes
    PROVE  /\ exp.recipes \in Seq(Names) /\ exp.plans \in Seq(Plans \cup Missing)
           /\ <<>> \in Seq(Pieces) /\ Seq(Plans) \subseteq Seq(Pieces)
           /\ \A r \in InConfig : DefaultPlans[r] \in Seq(Plans)
                                  /\ DefaultPlans[r] \in Seq(Pieces)
           /\ Plans \subseteq Pieces /\ Space \in Pieces /\ Space \notin Plans
<1>1. exp.recipes \in Seq(Names) /\ exp.plans \in Seq(Plans \cup Missing)
  <2>1. exp \in [recipes : Seq(Names), plans : Seq(Plans \cup Missing)]
    BY RunnerAssumption DEF RunnerTypes
  <2>. QED  BY <2>1
<1>2. Seq(Plans) \subseteq Seq(Pieces)
  BY SeqMonotonic DEF Pieces
<1>3. DefaultPlans \in [InConfig -> Seq(Plans)] /\ Space \notin Plans
  BY RunnerAssumption
<1>. QED  BY <1>1, <1>2, <1>3 DEF Pieces

LEMMA AskedKept ==
    ASSUME exp' = exp
    PROVE  /\ AskedRecipes' = AskedRecipes /\ DefaultsAsked' = DefaultsAsked
           /\ PlansAsked' = PlansAsked /\ Unsupported' = Unsupported
  BY DEF AskedRecipes, DefaultsAsked, PlansAsked, Unsupported

-----------------------------------------------------------------------------
(* What is collected, and what is refused.                                 *)

LEMMA RunnerInit == Init => CInv
<1> SUFFICES ASSUME Init PROVE CInv
  OBVIOUS
<1>1. RunnerTypes
  BY DEF Init, RunnerTypes
<1>. QED  BY <1>1 DEF Init, CInv, Planned, Collected, BuildsOnlyWhatRuns, RefusesExactlyUnsupported

LEMMA CollectStep == ASSUME CInv, Collect PROVE CInv'
<1>1. /\ pc = "collect" /\ pc' = "recipes" /\ left' = exp.recipes
      /\ exp' = exp /\ nci_plans' = <<>> /\ runner = <<>>
  BY DEF Collect, CInv, RunnerTypes
<1>2. /\ exp.recipes \in Seq(Names) /\ <<>> \in Seq(Pieces)
      /\ AskedRecipes' = AskedRecipes
  BY <1>1, Asked, AskedKept DEF CInv
<1>3. runner' \in [DOMAIN runner' -> Seq(Pieces)]
  BY <1>1, <1>2 DEF Collect
<1>4. RunnerTypes'
  BY <1>1, <1>2, <1>3 DEF CInv, RunnerTypes
<1>5. DOMAIN runner' \cup RangeOf(left') = AskedRecipes
  <2>1. CASE exp.recipes = <<>> /\ exp.plans = <<>>
    BY <1>1, <2>1, RangeEmpty DEF Collect, AskedRecipes
  <2>2. CASE ~(exp.recipes = <<>> /\ exp.plans = <<>>)
    BY <1>1, <2>2 DEF Collect, AskedRecipes
  <2>. QED  BY <2>1, <2>2
<1>6. Collected'
  BY <1>1, <1>2, <1>5 DEF Collected, RefusesExactlyUnsupported
<1>. QED  BY <1>1, <1>4, <1>6 DEF CInv, Planned, BuildsOnlyWhatRuns

LEMMA RequestedRecipeStep == ASSUME CInv, RequestedRecipe PROVE CInv'
<1>. DEFINE h == Head(left)
<1>1. /\ pc = "recipes" /\ left \in Seq(Names) /\ left # <<>>
      /\ exp' = exp /\ nci_plans' = nci_plans /\ nci_plans = <<>>
  BY DEF RequestedRecipe, CInv, RunnerTypes
<1>2. /\ h \in Names /\ Tail(left) \in Seq(Names)
      /\ RangeOf(left) = {h} \cup RangeOf(Tail(left))
  BY <1>1, Peeled
<1>3. /\ AskedRecipes' = AskedRecipes /\ <<>> \in Seq(Pieces)
      /\ DOMAIN runner \cup RangeOf(left) = AskedRecipes
      /\ runner \in [DOMAIN runner -> Seq(Pieces)]
  BY <1>1, Asked, AskedKept DEF CInv, RunnerTypes, Collected
<1>4. CASE Supported(h)
  <2>1. /\ runner' = Assign(runner, h, <<>>) /\ left' = Tail(left) /\ pc' = pc
    BY <1>4 DEF RequestedRecipe
  <2>2. DOMAIN runner' = DOMAIN runner \cup {h} /\ runner' \in [DOMAIN runner' -> Seq(Pieces)]
    BY <1>3, <2>1 DEF Assign
  <2>4. RunnerTypes'
    BY <1>1, <1>2, <2>1, <2>2 DEF CInv, RunnerTypes
  <2>5. Collected'
    BY <1>1, <1>2, <1>3, <2>1, <2>2 DEF Collected, RefusesExactlyUnsupported
  <2>. QED  BY <1>1, <2>1, <2>4, <2>5 DEF CInv, Planned, BuildsOnlyWhatRuns
<1>5. CASE ~Supported(h)
  <2>1. pc' = "refused" /\ runner' = runner /\ left' = left
    BY <1>5 DEF RequestedRecipe, Refuse
  <2>2. Unsupported /\ Unsupported' = Unsupported
    BY <1>1, <1>2, <1>3, <1>5, AskedKept, RunnerAssumption DEF Supported, Unsupported
  <2>3. RunnerTypes'
    BY <1>1, <2>1 DEF CInv, RunnerTypes
  <2>4. RefusesExactlyUnsupported'
    BY <1>1, <2>1, <2>2 DEF RefusesExactlyUnsupported
  <2>. QED  BY <2>1, <2>3, <2>4 DEF CInv, Planned, Collected, BuildsOnlyWhatRuns
<1>. QED  BY <1>4, <1>5

LEMMA RecipesCheckedStep == ASSUME CInv, RecipesChecked PROVE CInv'
<1>1. /\ pc = "recipes" /\ left = <<>> /\ pc' = "defaults" /\ left' = DOMAIN runner
      /\ exp' = exp /\ nci_plans' = nci_plans /\ nci_plans = <<>> /\ runner' = runner
  BY DEF RecipesChecked, CInv, RunnerTypes
<1>2. AskedRecipes' = AskedRecipes /\ DOMAIN runner = AskedRecipes
  BY <1>1, AskedKept, RangeEmpty DEF CInv, Collected
<1>3. RunnerTypes'
  BY <1>1 DEF CInv, RunnerTypes
<1>4. Collected'
  BY <1>1, <1>2 DEF Collected, RefusesExactlyUnsupported
<1>. QED  BY <1>1, <1>3, <1>4 DEF CInv, Planned, BuildsOnlyWhatRuns

LEMMA RecipeDefaultsStep == ASSUME CInv, RecipeDefaults PROVE CInv'
<1>1. PICK r \in left :
        IF RefusedRecipe(r) THEN Refuse
        ELSE runner' = WithDefaults(r) /\ left' = left \ {r} /\ pc' = pc
  BY DEF RecipeDefaults
<1>2. /\ pc = "defaults" /\ left \subseteq DOMAIN runner
      /\ exp' = exp /\ nci_plans' = nci_plans /\ nci_plans = <<>>
      /\ runner \in [DOMAIN runner -> Seq(Pieces)]
  BY DEF RecipeDefaults, CInv, RunnerTypes
<1>3. /\ AskedRecipes' = AskedRecipes
      /\ DOMAIN runner \subseteq AskedRecipes
      /\ \A x \in AskedRecipes \ left : FitRecipe(x)
      /\ \A x \in AskedRecipes \ DOMAIN runner : DefaultPlans[x] = <<>>
      /\ \A x \in DOMAIN runner \ left : runner[x] # <<>> /\ DefaultPlans[x] # <<>>
  BY <1>2, AskedKept DEF CInv, Planned, Collected
<1>4. CASE RefusedRecipe(r)
  <2>1. pc' = "refused" /\ runner' = runner /\ left' = left
    BY <1>1, <1>4 DEF Refuse
  <2>2. Unsupported /\ Unsupported' = Unsupported
    BY <1>2, <1>3, <1>4, AskedKept DEF RefusedRecipe, Unsupported
  <2>3. RunnerTypes'
    BY <1>2, <2>1 DEF CInv, RunnerTypes
  <2>4. RefusesExactlyUnsupported'
    BY <1>2, <2>1, <2>2 DEF RefusesExactlyUnsupported
  <2>. QED  BY <2>1, <2>3, <2>4 DEF CInv, Planned, Collected, BuildsOnlyWhatRuns
<1>5. CASE ~RefusedRecipe(r)
  <2>1. runner' = WithDefaults(r) /\ left' = left \ {r} /\ pc' = pc
    BY <1>1, <1>5
  <2>2. r \in DOMAIN runner /\ r \in AskedRecipes /\ r \in InConfig
        /\ ~(r \in Arm64 /\ DefaultPlans[r] = <<>>) /\ FitRecipe(r)
    BY <1>2, <1>3, <1>5 DEF RefusedRecipe, FitRecipe
  <2>3. /\ DefaultPlans[r] \in Seq(Pieces) /\ runner[r] \in Seq(Pieces)
    BY <1>2, <2>2, Asked DEF CInv
  <2>4. CASE r \notin Arm64 /\ DefaultPlans[r] = <<>>
    <3>1. runner' = Unset(runner, r)
      BY <2>1, <2>4 DEF WithDefaults
    <3>2. /\ DOMAIN runner' = DOMAIN runner \ {r} /\ runner' \in [DOMAIN runner' -> Seq(Pieces)]
          /\ \A x \in DOMAIN runner \ {r} : runner'[x] = runner[x]
      BY <1>2, <3>1 DEF Unset
    <3>3. RunnerTypes'
      BY <1>2, <2>1, <3>2 DEF CInv, RunnerTypes
    <3>4. Collected'
      BY <1>2, <1>3, <2>1, <2>2, <2>4, <3>2 DEF Collected, RefusesExactlyUnsupported
    <3>5. Planned'
      BY <1>2, <1>3, <2>1, <3>2 DEF Planned, BuildsOnlyWhatRuns
    <3>. QED  BY <3>3, <3>4, <3>5 DEF CInv
  <2>5. CASE ~(r \notin Arm64 /\ DefaultPlans[r] = <<>>)
    <3>. DefaultPlans[r] # <<>>
      BY <2>2, <2>5
    <3>1. PICK v \in Seq(Pieces) : v # <<>> /\ runner' = Assign(runner, r, v)
      <4>1. DefaultPlans[r] # <<>>
        OBVIOUS
      <4>2. CASE r \in Arm64
        <5>1. runner' = Assign(runner, r, runner[r] \o DefaultPlans[r])
          BY <2>1, <2>2, <4>2 DEF WithDefaults, Plan
        <5>2. runner[r] \o DefaultPlans[r] \in Seq(Pieces)
              /\ runner[r] \o DefaultPlans[r] # <<>>
          BY <2>3, <4>1, ConcatProperties, ConcatEqualIffEmpty
        <5>. QED  BY <5>1, <5>2
      <4>3. CASE r \notin Arm64
        BY <2>1, <2>3, <4>1, <4>3 DEF WithDefaults
      <4>. QED  BY <4>2, <4>3
    <3>2. /\ DOMAIN runner' = DOMAIN runner /\ runner' \in [DOMAIN runner' -> Seq(Pieces)]
          /\ \A x \in DOMAIN runner \ {r} : runner'[x] = runner[x]
          /\ runner'[r] = v
      BY <1>2, <2>2, <3>1 DEF Assign
    <3>3. RunnerTypes'
      BY <1>2, <2>1, <3>2 DEF CInv, RunnerTypes
    <3>4. Collected'
      BY <1>2, <1>3, <2>1, <2>2, <3>2 DEF Collected, RefusesExactlyUnsupported
    <3>5. Planned'
      BY <1>2, <1>3, <2>1, <3>1, <3>2 DEF Planned, BuildsOnlyWhatRuns
    <3>. QED  BY <3>3, <3>4, <3>5 DEF CInv
  <2>. QED  BY <2>4, <2>5
<1>. QED  BY <1>4, <1>5

LEMMA DefaultsChosenStep == ASSUME CInv, DefaultsChosen PROVE CInv'
<1>1. /\ pc = "defaults" /\ left = {} /\ pc' = "plans" /\ left' = exp.plans
      /\ exp' = exp /\ nci_plans' = nci_plans /\ nci_plans = <<>> /\ runner' = runner
  BY DEF DefaultsChosen, CInv, RunnerTypes
<1>2. AskedRecipes' = AskedRecipes /\ exp.plans \in Seq(Plans \cup Missing)
  BY <1>1, AskedKept, Asked DEF CInv
<1>3. RunnerTypes'
  BY <1>1, <1>2 DEF CInv, RunnerTypes
<1>4. Collected'
  BY <1>1, <1>2, RangeEmpty DEF CInv, Collected, RefusesExactlyUnsupported
<1>. QED  BY <1>1, <1>3, <1>4 DEF CInv, Planned, BuildsOnlyWhatRuns

\* A plan that is taken goes behind what its one recipe has already.
LEMMA PlanTaken ==
    ASSUME CInv, RequestedPlan, pc' # "refused"
    PROVE  /\ Head(left) \in Plans /\ FitPlan(Head(left))
           /\ PlanRecipe[Head(left)] \subseteq Recipes
           /\ \E r \in PlanRecipe[Head(left)] :
                /\ runner' = Assign(runner, r, Plan(r) \o Separated(Head(left)))
                /\ Plan(r) \in Seq(Pieces)
           /\ left' = Tail(left) /\ pc' = pc
<1>. DEFINE p == Head(left)
<1>1. /\ pc = "plans" /\ left \in Seq(Plans \cup Missing) /\ left # <<>>
      /\ runner \in [DOMAIN runner -> Seq(Pieces)]
  BY DEF RequestedPlan, CInv, RunnerTypes
<1>2. p \in Plans \cup Missing
  BY <1>1, Peeled
<1>3. /\ p \notin Missing /\ Cardinality(PlanRecipe[p]) = 1
      /\ \E r \in PlanRecipe[p] : /\ runner' = Assign(runner, r, Plan(r) \o Separated(p))
                                  /\ left' = Tail(left) /\ pc' = pc
  BY DEF RequestedPlan, Refuse
<1>4. PlanRecipe[p] \subseteq Recipes
  BY <1>2, <1>3, RunnerAssumption
<1>5. \A r : Plan(r) \in Seq(Pieces)
  BY <1>1, EmptySeq DEF Plan
<1>. QED  BY <1>2, <1>3, <1>4, <1>5 DEF FitPlan

LEMMA SeparatedPlan ==
    ASSUME NEW p \in Plans, NEW s \in Seq(Pieces)
    PROVE  /\ Separated(p) \in Seq(Pieces) /\ Len(Separated(p)) = 2
           /\ Separated(p)[1] = p /\ Separated(p)[2] = Space
           /\ s \o Separated(p) \in Seq(Pieces) /\ s \o Separated(p) # <<>>
<1>1. /\ Separated(p) \in Seq(Pieces) /\ Len(Separated(p)) = 2
      /\ Separated(p)[1] = p /\ Separated(p)[2] = Space
  BY DEF Separated, Pieces
<1>2. s \o Separated(p) \in Seq(Pieces)
      /\ Len(s \o Separated(p)) = Len(s) + Len(Separated(p))
  BY <1>1, ConcatProperties
<1>3. Len(s) + 2 # 0
  OBVIOUS
<1>. QED  BY <1>1, <1>2, <1>3

LEMMA RequestedPlanStep == ASSUME CInv, RequestedPlan PROVE CInv'
<1>. DEFINE p == Head(left)
<1>1. /\ pc = "plans" /\ left \in Seq(Plans \cup Missing) /\ left # <<>>
      /\ exp' = exp /\ nci_plans' = nci_plans /\ nci_plans = <<>>
      /\ runner \in [DOMAIN runner -> Seq(Pieces)]
  BY DEF RequestedPlan, CInv, RunnerTypes
<1>2. /\ p \in Plans \cup Missing /\ Tail(left) \in Seq(Plans \cup Missing)
      /\ RangeOf(left) = {p} \cup RangeOf(Tail(left))
  BY <1>1, Peeled
<1>3. /\ AskedRecipes' = AskedRecipes /\ RangeOf(left) \subseteq RangeOf(exp.plans)
      /\ \A x \in AskedRecipes : FitRecipe(x)
      /\ \A x \in AskedRecipes \ DOMAIN runner : DefaultPlans[x] = <<>>
      /\ \A x \in RangeOf(exp.plans) : x \in RangeOf(left) \/ FitPlan(x)
      /\ \A r \in DOMAIN runner : runner[r] # <<>>
      /\ exp.plans # <<>>
  <2>1. p \in RangeOf(left) /\ (pc = "plans" => RangeOf(left) \subseteq RangeOf(exp.plans))
    BY <1>2 DEF CInv, Collected
  <2>2. exp.plans # <<>>
    BY <1>1, <2>1, RangeEmpty
  <2>. QED  BY <1>1, <2>2, AskedKept DEF CInv, Planned, Collected
<1>4. CASE pc' = "refused"
  <2>1. runner' = runner /\ left' = left
        /\ (p \in Missing \/ Cardinality(PlanRecipe[p]) # 1)
    BY <1>1, <1>4 DEF RequestedPlan, Refuse
  <2>2. Unsupported /\ Unsupported' = Unsupported
    BY <1>1, <1>2, <1>3, <2>1, AskedKept, RunnerAssumption DEF Unsupported
  <2>3. RunnerTypes'
    BY <1>1, <1>4, <2>1 DEF CInv, RunnerTypes
  <2>4. RefusesExactlyUnsupported'
    BY <1>1, <1>4, <2>2 DEF RefusesExactlyUnsupported
  <2>. QED  BY <1>4, <2>3, <2>4 DEF CInv, Planned, Collected, BuildsOnlyWhatRuns
<1>5. CASE pc' # "refused"
  <2>1. p \in Plans /\ FitPlan(p) /\ left' = Tail(left) /\ pc' = pc
    BY <1>5, PlanTaken
  <2>2. PICK r \in PlanRecipe[p] : /\ runner' = Assign(runner, r, Plan(r) \o Separated(p))
                                   /\ Plan(r) \in Seq(Pieces)
    BY <1>5, PlanTaken
  <2>. DEFINE v == Plan(r) \o Separated(p)
  <2>3. v \in Seq(Pieces) /\ v # <<>>
    BY <2>1, <2>2, SeparatedPlan
  <2>. HIDE DEF v
  <2>4. runner' = Assign(runner, r, v)
    BY <2>2 DEF v
  <2>5. /\ DOMAIN runner' = DOMAIN runner \cup {r} /\ runner' \in [DOMAIN runner' -> Seq(Pieces)]
        /\ \A x \in DOMAIN runner \ {r} : runner'[x] = runner[x]
        /\ runner'[r] = v
    BY <1>1, <2>3, <2>4 DEF Assign
  <2>6. RunnerTypes'
    BY <1>1, <1>2, <2>1, <2>5 DEF CInv, RunnerTypes
  <2>7. Collected'
    BY <1>1, <1>2, <1>3, <2>1, <2>5 DEF Collected, RefusesExactlyUnsupported
  <2>8. Planned'
    BY <1>1, <1>3, <2>1, <2>3, <2>5 DEF Planned, BuildsOnlyWhatRuns
  <2>. QED  BY <2>6, <2>7, <2>8 DEF CInv
<1>. QED  BY <1>4, <1>5

LEMMA PlansCheckedStep == ASSUME CInv, PlansChecked PROVE CInv'
<1>1. /\ pc = "plans" /\ left = <<>> /\ left' = left /\ exp' = exp
      /\ pc' = IF DOMAIN runner = {} THEN "refused" ELSE "build"
      /\ nci_plans' = nci_plans /\ nci_plans = <<>> /\ runner' = runner
  BY DEF PlansChecked, CInv, RunnerTypes
<1>2. /\ AskedRecipes' = AskedRecipes
      /\ Unsupported' = Unsupported
      /\ \A x \in AskedRecipes : FitRecipe(x)
      /\ \A x \in AskedRecipes \ DOMAIN runner : DefaultPlans[x] = <<>>
      /\ \A x \in RangeOf(exp.plans) : FitPlan(x)
      /\ left = exp.plans \/ DOMAIN runner # {}
      /\ exp.plans = <<>> =>
           \A r \in DOMAIN runner : r \in AskedRecipes /\ DefaultPlans[r] # <<>>
      /\ \A r \in DOMAIN runner : runner[r] # <<>>
  BY <1>1, AskedKept, RangeEmpty DEF CInv, Planned, Collected
<1>3. RunnerTypes'
  BY <1>1 DEF CInv, RunnerTypes
<1>4. CASE DOMAIN runner = {}
  <2>1. Unsupported
    BY <1>1, <1>2, <1>4 DEF Unsupported
  <2>. QED  BY <1>1, <1>2, <1>3, <1>4, <2>1
            DEF CInv, Planned, Collected, BuildsOnlyWhatRuns, RefusesExactlyUnsupported
<1>5. CASE DOMAIN runner # {}
  <2>1. ~Unsupported
    BY <1>2, <1>5, RunnerAssumption DEF Unsupported, FitRecipe, FitPlan
  <2>. QED  BY <1>1, <1>2, <1>3, <1>5, <2>1
            DEF CInv, Planned, Collected, BuildsOnlyWhatRuns, RefusesExactlyUnsupported
<1>. QED  BY <1>4, <1>5

LEMMA BuildStep == ASSUME CInv, Build PROVE CInv'
<1>1. /\ pc = "build" /\ exp' = exp /\ nci_plans' = nci_plans /\ nci_plans = <<>>
      /\ runner' = runner
      /\ \/ pc' = "setup" /\ left' = DOMAIN runner
         \/ pc' = "failed" /\ left' = left
  BY DEF Build, CInv, RunnerTypes
<1>2. RunnerTypes'
  BY <1>1 DEF CInv, RunnerTypes
<1>. QED  BY <1>1, <1>2, AskedKept DEF CInv, Planned, Collected, BuildsOnlyWhatRuns,
                                       RefusesExactlyUnsupported

LEMMA WordsTypes ==
    ASSUME NEW s \in Seq(Pieces) PROVE Words(s) \in SUBSET Seq(Pieces)
<1>1. ASSUME NEW b \in DOMAIN s, NEW e \in DOMAIN s, IsWord(s, b, e)
      PROVE  SubSeq(s, b, e) \in Seq(Pieces)
  <2>1. /\ b \in Int /\ e \in Int /\ \A i \in b .. e : s[i] \in Pieces
    BY LenProperties
  <2>. QED  BY <2>1, SubSeqProperties
<1>. QED  BY <1>1 DEF Words

LEMMA SetupStep == ASSUME CInv, Setup PROVE CInv'
<1>1. /\ pc = "setup" /\ exp' = exp /\ runner' = runner /\ left \subseteq DOMAIN runner
      /\ runner \in [DOMAIN runner -> Seq(Pieces)]
      /\ nci_plans \in Seq([recipe : DOMAIN runner, words : SUBSET Seq(Pieces)])
  BY DEF Setup, CInv, RunnerTypes
<1>2. PICK r \in left :
        \/ /\ nci_plans' = Append(nci_plans, [recipe |-> r, words |-> Words(runner[r])])
           /\ left' = left \ {r} /\ pc' = pc
        \/ pc' = "failed" /\ left' = left /\ nci_plans' = nci_plans
  BY DEF Setup
<1>3. [recipe |-> r, words |-> Words(runner[r])]
        \in [recipe : DOMAIN runner, words : SUBSET Seq(Pieces)]
  BY <1>1, WordsTypes
<1>4. nci_plans' \in Seq([recipe : DOMAIN runner, words : SUBSET Seq(Pieces)])
  <2>1. Append(nci_plans, [recipe |-> r, words |-> Words(runner[r])])
          \in Seq([recipe : DOMAIN runner, words : SUBSET Seq(Pieces)])
    BY <1>1, <1>3, AppendProperties
  <2>. QED  BY <1>1, <1>2, <2>1
<1>5. RunnerTypes'
  BY <1>1, <1>2, <1>4 DEF CInv, RunnerTypes
<1>. QED  BY <1>1, <1>2, <1>5, AskedKept
          DEF CInv, Planned, Collected, BuildsOnlyWhatRuns, RefusesExactlyUnsupported

LEMMA RunNciStep == ASSUME CInv, RunNci PROVE CInv'
<1>1. /\ pc = "setup" /\ left = {} /\ pc' = "nci"
      /\ UNCHANGED <<exp, left, runner, nci_plans>>
  BY DEF RunNci
<1>2. RunnerTypes'
  BY <1>1 DEF CInv, RunnerTypes
<1>. QED  BY <1>1, <1>2, AskedKept DEF CInv, Planned, Collected, BuildsOnlyWhatRuns,
                                       RefusesExactlyUnsupported

LEMMA RunnerNext == CInv /\ [Next]_vars => CInv'
<1> SUFFICES ASSUME CInv, [Next]_vars PROVE CInv'
  OBVIOUS
<1>1. CASE Next
  BY <1>1, CollectStep, RequestedRecipeStep, RecipesCheckedStep, RecipeDefaultsStep,
     DefaultsChosenStep, RequestedPlanStep, PlansCheckedStep, BuildStep, SetupStep,
     RunNciStep
  DEF Next
<1>2. CASE UNCHANGED vars
  <2>1. UNCHANGED <<pc, exp, left, runner, nci_plans>> /\ AskedRecipes' = AskedRecipes
    BY <1>2, AskedKept DEF vars
  <2>2. RunnerTypes'
    BY <2>1 DEF CInv, RunnerTypes
  <2>3. Planned'
    BY <2>1 DEF CInv, Planned, BuildsOnlyWhatRuns
  <2>4. Collected'
    BY <2>1, AskedKept DEF CInv, Collected, RefusesExactlyUnsupported
  <2>. QED  BY <2>2, <2>3, <2>4 DEF CInv
<1>. QED  BY <1>1, <1>2

LEMMA RunnerInvariance == Spec => []CInv
  BY RunnerInit, RunnerNext, PTL DEF Spec

-----------------------------------------------------------------------------
(* Words.                                                                  *)

LEMMA WordsBetween ==
    ASSUME NEW s, NEW x
    PROVE  x \in Words(s) <=>
             \E b, e \in DOMAIN s : IsWord(s, b, e) /\ x = SubSeq(s, b, e)
<1>1. ASSUME x \in Words(s)
      PROVE  \E b, e \in DOMAIN s : IsWord(s, b, e) /\ x = SubSeq(s, b, e)
  BY <1>1 DEF Words
<1>2. ASSUME NEW b \in DOMAIN s, NEW e \in DOMAIN s, IsWord(s, b, e), x = SubSeq(s, b, e)
      PROVE  x \in Words(s)
  <2>1. /\ <<b, e>> \in (DOMAIN s) \X (DOMAIN s)
        /\ <<b, e>>[1] = b /\ <<b, e>>[2] = e
    OBVIOUS
  <2>. QED  BY <1>2, <2>1 DEF Words
<1>. QED  BY <1>1, <1>2

LEMMA NoWords == Words(<<>>) = {}
  BY WordsBetween

\* One piece of a sequence.
LEMMA Single ==
    ASSUME NEW S, NEW s \in Seq(S), NEW i \in 1 .. Len(s)
    PROVE  SubSeq(s, i, i) = <<s[i]>>
<1>1. i \in Int /\ \A k \in i .. i : s[k] \in S
  OBVIOUS
<1>2. /\ SubSeq(s, i, i) \in Seq(S) /\ Len(SubSeq(s, i, i)) = 1
      /\ \A k \in 1 .. 1 : SubSeq(s, i, i)[k] = s[i + k - 1]
  BY <1>1, SubSeqProperties
<1>3. /\ <<s[i]>> \in Seq(S) /\ Len(<<s[i]>>) = 1
      /\ \A k \in 1 .. 1 : <<s[i]>>[k] = s[i + k - 1]
  OBVIOUS
<1>. QED  BY <1>2, <1>3, SeqEqual

LEMMA OneWord ==
    ASSUME NEW s \in Seq(Plans), Len(s) <= 1
    PROVE  Words(s) = {<<p>> : p \in RangeOf(s)}
<1>1. CASE s = <<>>
  BY <1>1, NoWords, RangeEmpty
<1>2. CASE s # <<>>
  <2>1. Len(s) = 1 /\ DOMAIN s = {1} /\ s[1] \in Plans /\ s[1] # Space
    <3>1. Len(s) \in Nat \ {0} /\ DOMAIN s = 1 .. Len(s)
      BY <1>2, EmptySeq
    <3>. QED  BY <3>1, RunnerAssumption
  <2>2. SubSeq(s, 1, 1) = <<s[1]>>
    BY <2>1, Single
  <2>3. IsWord(s, 1, 1)
    BY <2>1 DEF IsWord
  <2>4. \A x : x \in Words(s) <=> x = <<s[1]>>
    BY <2>1, <2>2, <2>3, WordsBetween
  <2>5. RangeOf(s) = {s[1]}
    BY <2>1 DEF RangeOf
  <2>. QED  BY <2>4, <2>5
<1>. QED  BY <1>1, <1>2

\* The words of a string that ends with Space stay words when a plan and a
\* Space are appended, and the plan is one more.
LEMMA AppendedWord ==
    ASSUME NEW s \in Seq(Pieces), NEW p \in Plans, Parted(s)
    PROVE  /\ Words(s \o Separated(p)) = Words(s) \cup {<<p>>}
           /\ Parted(s \o Separated(p))
<1>. DEFINE u == s \o Separated(p)
            n == Len(s)
<1>1. /\ Separated(p) \in Seq(Pieces) /\ Len(Separated(p)) = 2
      /\ Separated(p)[1] = p /\ Separated(p)[2] = Space
      /\ u \in Seq(Pieces) /\ u # <<>>
  BY SeparatedPlan
<1>2. /\ Len(u) = n + Len(Separated(p))
      /\ \A i \in 1 .. n + Len(Separated(p)) :
           u[i] = IF i <= n THEN s[i] ELSE Separated(p)[i - n]
  BY <1>1, ConcatProperties
<1>3. n \in Nat /\ DOMAIN s = 1 .. n /\ Plans \subseteq Pieces
  BY DEF Pieces
<1>. HIDE DEF u, n
<1>4. /\ Len(u) = n + 2 /\ DOMAIN u = 1 .. n + 2
      /\ \A i \in 1 .. n : u[i] = s[i]
      /\ u[n + 1] = p /\ u[n + 2] = Space
  <2>1. Len(u) = n + 2 /\ DOMAIN u = 1 .. Len(u)
    BY <1>1, <1>2
  <2>2. \A i \in 1 .. n + 2 : u[i] = IF i <= n THEN s[i] ELSE Separated(p)[i - n]
    BY <1>1, <1>2
  <2>3. n + 1 - n = 1 /\ n + 2 - n = 2 /\ n + 1 \in 1 .. n + 2 /\ n + 2 \in 1 .. n + 2
    BY <1>3
  <2>. QED  BY <1>1, <1>3, <2>1, <2>2, <2>3
<1>5. p # Space
  BY RunnerAssumption
<1>6. n > 0 => s[n] = Space /\ u[n] = Space
  BY <1>3, <1>4 DEF Parted, n
<1>7. ASSUME NEW b \in 1 .. n, NEW e \in 1 .. n, b <= e
      PROVE  SubSeq(u, b, e) = SubSeq(s, b, e)
  <2>1. b \in Int /\ e \in Int /\ \A i \in b .. e : s[i] \in Pieces /\ u[i] = s[i]
    BY <1>3, <1>4
  <2>2. /\ SubSeq(s, b, e) \in Seq(Pieces) /\ Len(SubSeq(s, b, e)) = e - b + 1
        /\ \A i \in 1 .. e - b + 1 : SubSeq(s, b, e)[i] = s[b + i - 1]
    BY <1>7, <2>1, SubSeqProperties
  <2>3. /\ SubSeq(u, b, e) \in Seq(Pieces) /\ Len(SubSeq(u, b, e)) = e - b + 1
        /\ \A i \in 1 .. e - b + 1 : SubSeq(u, b, e)[i] = u[b + i - 1]
    BY <1>7, <2>1, SubSeqProperties
  <2>4. \A i \in 1 .. e - b + 1 : b + i - 1 \in b .. e
    BY <2>1
  <2>. QED  BY <2>1, <2>2, <2>3, <2>4, SeqEqual
<1>8. ASSUME NEW b \in DOMAIN u, NEW e \in DOMAIN u, IsWord(u, b, e)
      PROVE  SubSeq(u, b, e) \in Words(s) \cup {<<p>>}
  <2>1. b <= e /\ \A i \in b .. e : u[i] # Space
    BY <1>8 DEF IsWord
  <2>2. e # n + 2
    BY <1>3, <1>4, <2>1
  <2>3. CASE e = n + 1
    <3>1. b = n + 1
      <4>1. b # n + 1 => n > 0 /\ n \in b .. e
        BY <1>3, <1>4, <2>1, <2>3
      <4>. QED  BY <1>6, <2>1, <4>1
    <3>2. SubSeq(u, n + 1, n + 1) = <<u[n + 1]>>
      <4>1. n + 1 \in 1 .. Len(u)
        BY <1>3, <1>4
      <4>. QED  BY <1>1, <4>1, Single
    <3>. QED  BY <1>4, <2>3, <3>1, <3>2
  <2>4. CASE e \in 1 .. n
    <3>1. b \in 1 .. n
      BY <1>3, <1>4, <2>1, <2>4
    <3>2. IsWord(s, b, e)
      <4>1. \A i \in b .. e : s[i] # Space
        BY <1>3, <1>4, <2>1, <2>4, <3>1
      <4>2. b > 1 => s[b - 1] = Space
        BY <1>3, <1>4, <1>8, <3>1 DEF IsWord
      <4>3. e < n => s[e + 1] = Space
        BY <1>3, <1>4, <1>8, <2>4 DEF IsWord
      <4>. QED  BY <2>1, <4>1, <4>2, <4>3 DEF IsWord, n
    <3>3. SubSeq(s, b, e) \in Words(s)
      BY <1>3, <2>4, <3>1, <3>2, WordsBetween
    <3>. QED  BY <1>7, <2>1, <2>4, <3>1, <3>3
  <2>. QED  BY <1>3, <1>4, <2>2, <2>3, <2>4
<1>9. ASSUME NEW b \in DOMAIN s, NEW e \in DOMAIN s, IsWord(s, b, e)
      PROVE  SubSeq(s, b, e) \in Words(u)
  <2>1. b <= e /\ b \in 1 .. n /\ e \in 1 .. n /\ e # n
    BY <1>3, <1>6, <1>9 DEF IsWord
  <2>2. \A i \in b .. e : u[i] # Space
    BY <1>3, <1>4, <1>9, <2>1 DEF IsWord
  <2>3. b > 1 => u[b - 1] = Space
    BY <1>3, <1>4, <1>9, <2>1 DEF IsWord
  <2>4. u[e + 1] = Space
    <3>1. e < n /\ e + 1 \in 1 .. n
      BY <1>3, <2>1
    <3>. QED  BY <1>4, <1>9, <3>1 DEF IsWord, n
  <2>5. IsWord(u, b, e) /\ b \in DOMAIN u /\ e \in DOMAIN u
    BY <1>3, <1>4, <2>1, <2>2, <2>3, <2>4 DEF IsWord
  <2>6. SubSeq(u, b, e) = SubSeq(s, b, e)
    BY <1>7, <2>1
  <2>. QED  BY <2>5, <2>6, WordsBetween
<1>10. <<p>> \in Words(u)
  <2>1. IsWord(u, n + 1, n + 1)
    <3>1. \A i \in n + 1 .. n + 1 : u[i] # Space
      BY <1>3, <1>4, <1>5
    <3>2. n + 1 > 1 => u[n + 1 - 1] = Space
      BY <1>3, <1>6
    <3>3. u[n + 1 + 1] = Space
      BY <1>3, <1>4
    <3>. QED  BY <1>3, <3>1, <3>2, <3>3 DEF IsWord
  <2>2. n + 1 \in 1 .. Len(u) /\ n + 1 \in DOMAIN u
    BY <1>3, <1>4
  <2>3. SubSeq(u, n + 1, n + 1) = <<p>>
    BY <1>1, <1>4, <2>2, Single
  <2>. QED  BY <2>1, <2>2, <2>3, WordsBetween
<1>11. ASSUME NEW x \in Words(u) PROVE x \in Words(s) \cup {<<p>>}
  <2>1. PICK b, e \in DOMAIN u : IsWord(u, b, e) /\ x = SubSeq(u, b, e)
    BY WordsBetween
  <2>. QED  BY <1>8, <2>1
<1>12. ASSUME NEW x \in Words(s) PROVE x \in Words(u)
  <2>1. PICK b, e \in DOMAIN s : IsWord(s, b, e) /\ x = SubSeq(s, b, e)
    BY WordsBetween
  <2>. QED  BY <1>9, <2>1
<1>13. Parted(u)
  BY <1>4 DEF Parted
<1>14. Words(u) = Words(s) \cup {<<p>>}
  BY <1>10, <1>11, <1>12
<1>. QED  BY <1>13, <1>14 DEF u

-----------------------------------------------------------------------------
(* What nci is given.                                                      *)

LEMMA DefaultWords ==
    ASSUME OneDefaultPlan, NEW r \in InConfig
    PROVE  Words(DefaultPlans[r]) = {<<p>> : p \in RangeOf(DefaultPlans[r])}
<1>1. DefaultPlans[r] \in Seq(Plans) /\ Len(DefaultPlans[r]) <= 1
  BY RunnerAssumption DEF OneDefaultPlan
<1>. QED  BY <1>1, OneWord

LEMMA GatheredInit == ASSUME Init PROVE Gathered
  BY DEF Init, Gathered

LEMMA GatheredRecipes ==
    ASSUME CInv, Gathered, Collect \/ RequestedRecipe \/ RecipesChecked
    PROVE  Gathered'
<1>1. CASE Collect
  <2>1. pc' = "recipes" /\ runner = <<>>
    BY <1>1 DEF Collect, CInv, RunnerTypes
  <2>2. \A r \in DOMAIN runner' : runner'[r] = <<>>
    BY <1>1, <2>1 DEF Collect
  <2>. QED  BY <2>1, <2>2 DEF Gathered
<1>2. CASE RequestedRecipe
  <2>1. pc = "recipes" /\ \A r \in DOMAIN runner : runner[r] = <<>>
    BY <1>2 DEF RequestedRecipe, Gathered
  <2>2. CASE Supported(Head(left))
    <3>1. pc' = "recipes" /\ runner' = Assign(runner, Head(left), <<>>)
      BY <1>2, <2>1, <2>2 DEF RequestedRecipe
    <3>2. \A r \in DOMAIN runner' : runner'[r] = <<>>
      BY <2>1, <3>1 DEF Assign
    <3>. QED  BY <3>1, <3>2 DEF Gathered
  <2>3. CASE ~Supported(Head(left))
    BY <1>2, <2>3 DEF RequestedRecipe, Refuse, Gathered
  <2>. QED  BY <2>2, <2>3
<1>3. CASE RecipesChecked
  BY <1>3 DEF RecipesChecked, Gathered
<1>. QED  BY <1>1, <1>2, <1>3

LEMMA GatheredDefaults ==
    ASSUME CInv, Gathered, RecipeDefaults
    PROVE  Gathered'
<1>1. /\ pc = "defaults" /\ left \subseteq DOMAIN runner
      /\ \A r \in left : runner[r] = <<>>
      /\ \A r \in DOMAIN runner \ left : runner[r] = DefaultPlans[r]
      /\ runner \in [DOMAIN runner -> Seq(Pieces)]
  BY DEF RecipeDefaults, CInv, RunnerTypes, Collected, Gathered
<1>2. PICK r \in left :
        IF RefusedRecipe(r) THEN Refuse
        ELSE runner' = WithDefaults(r) /\ left' = left \ {r} /\ pc' = pc
  BY DEF RecipeDefaults
<1>3. CASE RefusedRecipe(r)
  BY <1>2, <1>3 DEF Refuse, Gathered
<1>4. CASE ~RefusedRecipe(r)
  <2>1. r \in InConfig /\ runner' = WithDefaults(r) /\ left' = left \ {r} /\ pc' = pc
    BY <1>1, <1>2, <1>4 DEF RefusedRecipe
  <2>2. CASE r \notin Arm64 /\ DefaultPlans[r] = <<>>
    <3>1. runner' = Unset(runner, r)
      BY <2>1, <2>2 DEF WithDefaults
    <3>2. /\ DOMAIN runner' = DOMAIN runner \ {r}
          /\ \A x \in DOMAIN runner \ {r} : runner'[x] = runner[x]
      BY <1>1, <3>1 DEF Unset
    <3>. QED  BY <1>1, <2>1, <3>2 DEF Gathered
  <2>3. CASE ~(r \notin Arm64 /\ DefaultPlans[r] = <<>>)
    <3>1. runner' = Assign(runner, r, DefaultPlans[r])
      <4>1. <<>> \o DefaultPlans[r] = DefaultPlans[r]
        BY <2>1, Asked, ConcatEmptySeq DEF CInv
      <4>. QED  BY <1>1, <2>1, <2>3, <4>1 DEF WithDefaults, Plan
    <3>2. /\ DOMAIN runner' = DOMAIN runner /\ runner'[r] = DefaultPlans[r]
          /\ \A x \in DOMAIN runner \ {r} : runner'[x] = runner[x]
      BY <1>1, <3>1 DEF Assign
    <3>. QED  BY <1>1, <2>1, <3>2 DEF Gathered
  <2>. QED  BY <2>2, <2>3
<1>. QED  BY <1>3, <1>4

LEMMA GatheredChosen ==
    ASSUME OneDefaultPlan, CInv, Gathered, DefaultsChosen
    PROVE  Gathered'
<1>1. /\ pc = "defaults" /\ left = {} /\ pc' = "plans" /\ left' = exp.plans
      /\ exp' = exp /\ runner' = runner
      /\ DOMAIN runner \subseteq AskedRecipes /\ AskedRecipes \subseteq InConfig
      /\ \A r \in AskedRecipes \ DOMAIN runner : DefaultPlans[r] = <<>>
      /\ \A r \in DOMAIN runner : runner[r] = DefaultPlans[r]
  BY DEF DefaultsChosen, CInv, Collected, FitRecipe, Gathered
<1>2. WordsOf(DOMAIN runner) = DefaultsAsked
  <2>1. \A r \in DOMAIN runner :
          Words(runner[r]) = {<<p>> : p \in RangeOf(DefaultPlans[r])}
    BY <1>1, DefaultWords
  <2>2. \A r \in AskedRecipes \ DOMAIN runner :
          {<<p>> : p \in RangeOf(DefaultPlans[r])} = {}
    BY <1>1, RangeEmpty
  <2>. QED  BY <1>1, <2>1, <2>2 DEF WordsOf, DefaultsAsked
<1>3. exp.plans # <<>> => DOMAIN runner \subseteq RangeOf(exp.recipes)
  BY <1>1 DEF AskedRecipes
<1>4. WordsOf(DOMAIN runner)' = WordsOf(DOMAIN runner)
  BY <1>1 DEF WordsOf
<1>5. PlansAsked' = PlansAsked /\ DefaultsAsked' = DefaultsAsked
  BY <1>1, AskedKept
<1>. QED  BY <1>1, <1>2, <1>3, <1>4, <1>5 DEF Gathered, PlansAsked

LEMMA GatheredPlan ==
    ASSUME PlansApart, CInv, Gathered, RequestedPlan
    PROVE  Gathered'
<1>. DEFINE p == Head(left)
<1>1. /\ pc = "plans" /\ left \in Seq(Plans \cup Missing) /\ left # <<>> /\ exp' = exp
      /\ runner \in [DOMAIN runner -> Seq(Pieces)]
      /\ WordsOf(DOMAIN runner) \cup {<<q>> : q \in RangeOf(left)} =
           PlansAsked \cup DefaultsAsked
      /\ \A r \in DOMAIN runner \ RangeOf(exp.recipes) : Parted(runner[r])
      /\ RangeOf(left) \subseteq RangeOf(exp.plans) /\ exp \in Requests
  BY DEF RequestedPlan, CInv, RunnerTypes, Collected, Gathered
<1>2. CASE pc' = "refused"
  BY <1>2 DEF Gathered
<1>3. CASE pc' # "refused"
  <2>1. p \in Plans /\ left' = Tail(left) /\ pc' = pc
    BY <1>3, PlanTaken
  <2>2. RangeOf(left) = {p} \cup RangeOf(left')
    BY <1>1, <2>1, Peeled
  <2>3. PICK r \in PlanRecipe[p] : /\ runner' = Assign(runner, r, Plan(r) \o Separated(p))
                                   /\ Plan(r) \in Seq(Pieces)
    BY <1>3, PlanTaken
  <2>4. r \notin RangeOf(exp.recipes)
    BY <1>1, <2>1, <2>2, <2>3 DEF PlansApart, Apart
  <2>. DEFINE v == Plan(r) \o Separated(p)
  <2>5. Parted(Plan(r))
    BY <1>1, <2>4 DEF Plan, Parted
  <2>6. Words(v) = Words(Plan(r)) \cup {<<p>>} /\ Parted(v)
    BY <2>1, <2>3, <2>5, AppendedWord
  <2>7. Words(Plan(r)) = IF r \in DOMAIN runner THEN Words(runner[r]) ELSE {}
    BY NoWords DEF Plan
  <2>8. runner' = Assign(runner, r, v)
    BY <2>3
  <2>. HIDE DEF v, p
  <2>9. /\ DOMAIN runner' = DOMAIN runner \cup {r} /\ runner'[r] = v
        /\ \A x \in DOMAIN runner \ {r} : runner'[x] = runner[x]
    BY <2>8 DEF Assign
  <2>10. WordsOf(DOMAIN runner)' = WordsOf(DOMAIN runner) \cup {<<p>>}
    <3>1. WordsOf(DOMAIN runner)' = UNION {Words(runner'[x]) : x \in DOMAIN runner'}
      BY DEF WordsOf
    <3>2. UNION {Words(runner'[x]) : x \in DOMAIN runner'} \subseteq
            WordsOf(DOMAIN runner) \cup {<<p>>}
      BY <2>6, <2>7, <2>9 DEF WordsOf
    <3>3. ASSUME NEW x \in DOMAIN runner
          PROVE  Words(runner[x]) \subseteq UNION {Words(runner'[y]) : y \in DOMAIN runner'}
      BY <2>6, <2>7, <2>9
    <3>4. WordsOf(DOMAIN runner) \subseteq UNION {Words(runner'[y]) : y \in DOMAIN runner'}
      BY <3>3 DEF WordsOf
    <3>5. <<p>> \in UNION {Words(runner'[y]) : y \in DOMAIN runner'}
      BY <2>6, <2>9
    <3>. QED  BY <3>1, <3>2, <3>4, <3>5
  <2>11. \A x \in DOMAIN runner' \ RangeOf(exp.recipes) : Parted(runner'[x])
    BY <1>1, <2>6, <2>9
  <2>12. {<<q>> : q \in RangeOf(left)} = {<<p>>} \cup {<<q>> : q \in RangeOf(left')}
    BY <2>2
  <2>13. PlansAsked' = PlansAsked /\ DefaultsAsked' = DefaultsAsked
    BY <1>1, AskedKept
  <2>14. (WordsOf(DOMAIN runner) \cup {<<q>> : q \in RangeOf(left)})' =
           (PlansAsked \cup DefaultsAsked)'
    <3>1. RangeOf(left)' = RangeOf(left')
      BY DEF RangeOf
    <3>. QED  BY <1>1, <2>10, <2>12, <2>13, <3>1
  <2>. QED  BY <1>1, <2>1, <2>11, <2>14 DEF Gathered
<1>. QED  BY <1>2, <1>3

LEMMA GatheredBuilds ==
    ASSUME CInv, Gathered, PlansChecked \/ Build \/ Setup \/ RunNci
    PROVE  Gathered'
<1>1. UNCHANGED <<exp, runner>>
  BY DEF PlansChecked, Build, Setup, RunNci
<1>2. /\ PlansAsked' = PlansAsked /\ DefaultsAsked' = DefaultsAsked
      /\ WordsOf(DOMAIN runner)' = WordsOf(DOMAIN runner)
  BY <1>1, AskedKept DEF WordsOf
<1>3. CASE PlansChecked
  <2>1. pc = "plans" /\ left = <<>> /\ pc' \in {"build", "refused"}
    BY <1>3 DEF PlansChecked
  <2>2. WordsOf(DOMAIN runner) = PlansAsked \cup DefaultsAsked
    BY <2>1, RangeEmpty DEF Gathered
  <2>. QED  BY <1>2, <2>1, <2>2 DEF Gathered
<1>4. CASE Build
  <2>1. /\ pc = "build" /\ nci_plans' = <<>>
        /\ \/ pc' = "setup" /\ left' = DOMAIN runner
           \/ pc' = "failed"
    BY <1>4 DEF Build, CInv, RunnerTypes
  <2>2. WordsOf(DOMAIN runner) = PlansAsked \cup DefaultsAsked
    BY <2>1 DEF Gathered
  <2>3. CASE pc' = "setup"
    <3>1. left' = DOMAIN runner' /\ DOMAIN runner' \ left' = {}
      BY <1>1, <2>1, <2>3
    <3>2. UNION {n.words : n \in RangeOf(nci_plans')} = {}
      BY <2>1, RangeEmpty
    <3>3. WordsOf(DOMAIN runner \ left)' = {}
      BY <3>1 DEF WordsOf
    <3>4. RangeOf(nci_plans)' = RangeOf(nci_plans')
      BY DEF RangeOf
    <3>. QED  BY <1>2, <2>2, <2>3, <3>2, <3>3, <3>4 DEF Gathered
  <2>4. CASE pc' = "failed"
    BY <2>4 DEF Gathered
  <2>. QED  BY <2>1, <2>3, <2>4
<1>5. CASE Setup
  <2>1. /\ pc = "setup" /\ left \subseteq DOMAIN runner
        /\ nci_plans \in Seq([recipe : DOMAIN runner, words : SUBSET Seq(Pieces)])
        /\ runner \in [DOMAIN runner -> Seq(Pieces)]
        /\ WordsOf(DOMAIN runner) = PlansAsked \cup DefaultsAsked
        /\ UNION {n.words : n \in RangeOf(nci_plans)} = WordsOf(DOMAIN runner \ left)
    BY <1>5 DEF Setup, CInv, RunnerTypes, Gathered
  <2>2. PICK r \in left :
          \/ /\ nci_plans' = Append(nci_plans, [recipe |-> r, words |-> Words(runner[r])])
             /\ left' = left \ {r} /\ pc' = pc
          \/ pc' = "failed"
    BY <1>5 DEF Setup
  <2>3. CASE pc' = "failed"
    BY <2>3 DEF Gathered
  <2>4. CASE pc' # "failed"
    <3>. DEFINE n0 == [recipe |-> r, words |-> Words(runner[r])]
    <3>1. nci_plans' = Append(nci_plans, n0) /\ left' = left \ {r} /\ pc' = "setup"
      BY <2>1, <2>2, <2>4
    <3>2. n0 \in [recipe : DOMAIN runner, words : SUBSET Seq(Pieces)]
          /\ n0.words = Words(runner[r])
      BY <2>1, WordsTypes
    <3>. HIDE DEF n0
    <3>3. RangeOf(nci_plans') = RangeOf(nci_plans) \cup {n0}
      <4>. DEFINE S == [recipe : DOMAIN runner, words : SUBSET Seq(Pieces)]
      <4>1. nci_plans \in Seq(S) /\ n0 \in S
        BY <2>1, <3>2
      <4>. HIDE DEF S
      <4>2. RangeOf(Append(nci_plans, n0)) = RangeOf(nci_plans) \cup {n0}
        BY <4>1, RangeAppend
      <4>. QED  BY <3>1, <4>2
    <3>4. UNION {n.words : n \in RangeOf(nci_plans')} =
            WordsOf(DOMAIN runner \ left) \cup Words(runner[r])
      BY <2>1, <3>2, <3>3
    <3>5. DOMAIN runner \ left' = (DOMAIN runner \ left) \cup {r}
      BY <2>1, <3>1
    <3>6. WordsOf(DOMAIN runner \ left)' = WordsOf(DOMAIN runner \ left) \cup Words(runner[r])
      BY <1>1, <3>5 DEF WordsOf
    <3>7. RangeOf(nci_plans)' = RangeOf(nci_plans')
      BY DEF RangeOf
    <3>. QED  BY <1>2, <2>1, <3>1, <3>4, <3>6, <3>7 DEF Gathered
  <2>. QED  BY <2>3, <2>4
<1>6. CASE RunNci
  <2>1. /\ pc = "setup" /\ pc' = "nci" /\ left' = left /\ nci_plans' = nci_plans
    BY <1>6 DEF RunNci
  <2>2. WordsOf(DOMAIN runner \ left)' = WordsOf(DOMAIN runner \ left)
        /\ RangeOf(nci_plans)' = RangeOf(nci_plans)
    BY <1>1, <2>1 DEF WordsOf, RangeOf
  <2>. QED  BY <1>2, <2>1, <2>2 DEF Gathered
<1>. QED  BY <1>3, <1>4, <1>5, <1>6

LEMMA GatheredNext ==
    ASSUME PlansApart, OneDefaultPlan, CInv, Gathered, [Next]_vars
    PROVE  Gathered'
<1>1. CASE Next
  BY <1>1, GatheredRecipes, GatheredDefaults, GatheredChosen, GatheredPlan, GatheredBuilds
  DEF Next
<1>2. CASE UNCHANGED vars
  <2>1. UNCHANGED <<pc, exp, left, runner, nci_plans>>
    BY <1>2 DEF vars
  <2>2. /\ PlansAsked' = PlansAsked /\ DefaultsAsked' = DefaultsAsked
        /\ WordsOf(DOMAIN runner)' = WordsOf(DOMAIN runner)
        /\ WordsOf(DOMAIN runner \ left)' = WordsOf(DOMAIN runner \ left)
        /\ RangeOf(left)' = RangeOf(left) /\ RangeOf(nci_plans)' = RangeOf(nci_plans)
    BY <2>1, AskedKept DEF WordsOf, RangeOf
  <2>. QED  BY <2>1, <2>2 DEF Gathered
<1>. QED  BY <1>1, <1>2

-----------------------------------------------------------------------------
(* The theorems.                                                           *)

\* run.sh 150-181: a recipe whose default plans are none is dropped or
\* refused before it is built, and no later step takes a plan away.
THEOREM BuildsWhatRuns == Spec => []BuildsOnlyWhatRuns
<1>1. CInv => BuildsOnlyWhatRuns
  BY DEF CInv, Planned
<1>. QED  BY RunnerInvariance, <1>1, PTL

\* run.sh 132-220: a request is refused, before anything is built, exactly
\* when a name in it is not what it should be or nothing of it can be run,
\* whatever order the keys of the array are taken in.
THEOREM RefusesUnsupportedOnly == Spec => []RefusesExactlyUnsupported
<1>1. CInv => RefusesExactlyUnsupported
  BY DEF CInv, Collected
<1>. QED  BY RunnerInvariance, <1>1, PTL

\* run.sh 150-265: every plan that was asked for, or is a default of a recipe
\* that was, reaches nci as a word of its own, and nothing else does; as long
\* as no request names a plan together with its own recipe and no recipe has
\* two default plans, because the script puts nothing between default plans
\* and what follows them.
THEOREM RunsAsked ==
    ASSUME PlansApart, OneDefaultPlan PROVE Spec => []RunsWhatWasAsked
<1>1. Init => Gathered
  BY GatheredInit
<1>2. CInv /\ Gathered /\ [Next]_vars => Gathered'
  BY GatheredNext
<1>3. CInv /\ Gathered => RunsWhatWasAsked
  <2> SUFFICES ASSUME CInv, Gathered, pc = "nci"
               PROVE  UNION {n.words : n \in RangeOf(nci_plans)} = PlansAsked \cup DefaultsAsked
    BY DEF RunsWhatWasAsked, PlansAsked, DefaultsAsked
  <2>1. DOMAIN runner \ left = DOMAIN runner
    BY DEF CInv, RunnerTypes
  <2>. QED  BY <2>1 DEF Gathered
<1>. QED  BY RunnerInvariance, <1>1, <1>2, <1>3, PTL DEF Spec
=============================================================================
