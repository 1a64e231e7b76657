------------------------------ MODULE CiRunner ------------------------------
(***************************************************************************)
(* ci/run.sh: from the recipes (-r) and plans (-p) that were asked for to  *)
(* the plans that are handed to nci.                                       *)
(*                                                                         *)
(* The script keeps the plans of a recipe in one string, runner[r], which  *)
(* the shell splits into words at the end.  Here the string is a sequence  *)
(* of plans and Space.  What bob knows and what lies in nci-config are     *)
(* constants; the for loops over the keys of the associative array take    *)
(* them in any order.                                                      *)
(***************************************************************************)
EXTENDS Sequences, FiniteSets, Naturals

CONSTANTS
    Recipes,       \* what `bob ls` lists
    DefaultSet,    \* those selected when nothing is asked for
    Suffixes,      \* other names that `grep -w "${r}$"` finds in the list
    Unknown,       \* names of recipes it does not find
    Arm64, X86,    \* recipes of these architectures; nci-config has no
                   \* directory for any other
    Plans,         \* files in nci-config
    DefaultPlans,  \* their default plans, in the order of `find`
    PlanRecipe,    \* the recipes that `bob ls | grep` finds for a plan
    Missing,       \* names of plans without a file
    Space,
    Requests       \* the arguments (bounds the model)

Names == Recipes \cup Suffixes \cup Unknown
InConfig == Arm64 \cup X86

ASSUME RunnerAssumption ==
    /\ DefaultSet \subseteq InConfig /\ InConfig \subseteq Recipes
    /\ Arm64 \cap X86 = {}
    /\ Suffixes \cap Recipes = {} /\ Unknown \cap (Recipes \cup Suffixes) = {}
    /\ DefaultPlans \in [InConfig -> Seq(Plans)]
    /\ \A r \in X86 : Len(DefaultPlans[r]) <= 1
    /\ PlanRecipe \in [Plans -> SUBSET Recipes]
    /\ Space \notin Plans /\ Missing \cap Plans = {}
    /\ Requests \subseteq [recipes : Seq(Names), plans : Seq(Plans \cup Missing)]

VARIABLES
    pc,
    exp,       \* exp_recipes and exp_plans
    left,      \* the part of a for loop that is left: a sequence or a set
    runner,    \* the associative array: recipe to string of plans
    nci_plans  \* the words handed to nci

vars == <<pc, exp, left, runner, nci_plans>>

Init ==
    /\ pc = "collect" /\ exp \in Requests
    /\ left = <<>> /\ runner = <<>> /\ nci_plans = <<>>

\* runner[r]=v, and `unset`.
Assign(f, r, v) == [x \in DOMAIN f \cup {r} |-> IF x = r THEN v ELSE f[x]]
Unset(f, r) == [x \in DOMAIN f \ {r} |-> f[x]]
\* ${runner[r]:-}
Plan(r) == IF r \in DOMAIN runner THEN runner[r] ELSE <<>>

Refuse == pc' = "refused" /\ UNCHANGED <<left, runner>>

-----------------------------------------------------------------------------
(* Recipes.                                                                *)

Collect ==
    /\ pc = "collect"
    /\ runner' = IF exp.recipes = <<>> /\ exp.plans = <<>>
                   THEN [r \in DefaultSet |-> <<>>] ELSE runner
    /\ pc' = "recipes" /\ left' = exp.recipes
    /\ UNCHANGED <<exp, nci_plans>>

Supported(r) == r \notin Unknown

RequestedRecipe ==
    /\ pc = "recipes" /\ left # <<>>
    /\ IF Supported(Head(left))
         THEN /\ runner' = Assign(runner, Head(left), <<>>)
              /\ left' = Tail(left) /\ UNCHANGED pc
         ELSE Refuse
    /\ UNCHANGED <<exp, nci_plans>>

RecipesChecked ==
    /\ pc = "recipes" /\ left = <<>>
    /\ pc' = "defaults" /\ left' = DOMAIN runner
    /\ UNCHANGED <<exp, runner, nci_plans>>

-----------------------------------------------------------------------------
(* The default plans of every recipe.                                      *)

\* Mistaken variant: the recipe stays, without a plan.
KeepsPlanless(r) == Assign(runner, r, <<>>)

\* arm64 appends every default plan, x86 assigns its one plan or drops the
\* recipe.
WithDefaults(r) ==
    IF r \in Arm64 THEN Assign(runner, r, Plan(r) \o DefaultPlans[r])
    ELSE IF DefaultPlans[r] = <<>> THEN Unset(runner, r)
    ELSE Assign(runner, r, DefaultPlans[r])

\* Mistaken variant: a recipe whose plan is missing stops the script.
RefusedPlanless(r) == r \notin InConfig \/ DefaultPlans[r] = <<>>

\* A directory of nci-config is missing, `find` fails and `set -e` ends the
\* script; or the recipe is arm64 and without a default plan.
RefusedRecipe(r) == r \notin InConfig \/ (r \in Arm64 /\ DefaultPlans[r] = <<>>)

RecipeDefaults ==
    /\ pc = "defaults"
    /\ \E r \in left :
          IF RefusedRecipe(r) THEN Refuse
          ELSE /\ runner' = WithDefaults(r)
               /\ left' = left \ {r} /\ UNCHANGED pc
    /\ UNCHANGED <<exp, nci_plans>>

DefaultsChosen ==
    /\ pc = "defaults" /\ left = {}
    /\ pc' = "plans" /\ left' = exp.plans
    /\ UNCHANGED <<exp, runner, nci_plans>>

-----------------------------------------------------------------------------
(* Plans.                                                                  *)

\* Mistaken variant: nothing separates the plan from the next one.
Unseparated(p) == <<p>>

Separated(p) == <<p, Space>>

RequestedPlan ==
    /\ pc = "plans" /\ left # <<>>
    /\ LET p == Head(left) IN
       IF p \in Missing THEN Refuse
       ELSE IF Cardinality(PlanRecipe[p]) # 1 THEN Refuse
       ELSE \E r \in PlanRecipe[p] :
              /\ runner' = Assign(runner, r, Plan(r) \o Separated(p))
              /\ left' = Tail(left) /\ UNCHANGED pc
    /\ UNCHANGED <<exp, nci_plans>>

PlansChecked ==
    /\ pc = "plans" /\ left = <<>>
    /\ pc' = IF DOMAIN runner = {} THEN "refused" ELSE "build"
    /\ UNCHANGED <<exp, left, runner, nci_plans>>

-----------------------------------------------------------------------------
(* Building and running.                                                   *)

\* The build of the recipes, of the tools and the path queries: any of them
\* may fail, and ends the script.
Build ==
    /\ pc = "build"
    /\ \/ pc' = "setup" /\ left' = DOMAIN runner
       \/ pc' = "failed" /\ UNCHANGED left
    /\ UNCHANGED <<exp, runner, nci_plans>>

\* The words of a string: the runs of plans between Spaces.  A run of
\* several plans is the name of no file.
IsWord(s, b, e) ==
    /\ b <= e /\ \A i \in b .. e : s[i] # Space
    /\ b > 1 => s[b - 1] = Space
    /\ e < Len(s) => s[e + 1] = Space
Words(s) == {SubSeq(s, w[1], w[2]) :
                w \in {w \in (DOMAIN s) \X (DOMAIN s) : IsWord(s, w[1], w[2])}}

Setup ==
    /\ pc = "setup"
    /\ \E r \in left :
          \/ /\ nci_plans' = Append(nci_plans, [recipe |-> r, words |-> Words(runner[r])])
             /\ left' = left \ {r} /\ UNCHANGED pc
          \/ pc' = "failed" /\ UNCHANGED <<left, nci_plans>>
    /\ UNCHANGED <<exp, runner>>

RunNci ==
    /\ pc = "setup" /\ left = {}
    /\ pc' = "nci"
    /\ UNCHANGED <<exp, left, runner, nci_plans>>

Next ==
    \/ Collect \/ RequestedRecipe \/ RecipesChecked
    \/ RecipeDefaults \/ DefaultsChosen \/ RequestedPlan \/ PlansChecked
    \/ Build \/ Setup \/ RunNci

Spec == Init /\ [][Next]_vars

-----------------------------------------------------------------------------
(* Properties.                                                             *)

RangeOf(s) == {s[i] : i \in DOMAIN s}
AskedRecipes ==
    IF exp.recipes = <<>> /\ exp.plans = <<>> THEN DefaultSet ELSE RangeOf(exp.recipes)

\* No plan that a request names belongs to a recipe that it names as well.
Apart(q) == \A p \in RangeOf(q.plans) \cap Plans :
                PlanRecipe[p] \cap RangeOf(q.recipes) = {}

\* run.sh, usage: "-r Run specific bob recipes with default plans", "-p Run
\* specific nci plans".  nci is given every plan that was asked for and the
\* default plans of every recipe that was asked for, each as a word of its
\* own, and nothing else.
RunsWhatWasAsked ==
    pc = "nci" =>
      UNION {n.words : n \in RangeOf(nci_plans)} =
        {<<p>> : p \in RangeOf(exp.plans)}
          \cup UNION {{<<p>> : p \in RangeOf(DefaultPlans[r])} : r \in AskedRecipes}

\* A recipe that bob does not list, that has no directory of plans or that
\* is arm64 and has no default plan; a plan that is no file or does not belong
\* to one recipe; or a request of which nothing is left, as x86 recipes
\* without a plan are skipped.
Unsupported ==
    \/ \E r \in AskedRecipes :
          r \notin Recipes \cap InConfig \/ (r \in Arm64 /\ DefaultPlans[r] = <<>>)
    \/ \E p \in RangeOf(exp.plans) : p \notin Plans \/ Cardinality(PlanRecipe[p]) # 1
    \/ exp.plans = <<>> /\ \A r \in AskedRecipes : DefaultPlans[r] = <<>>

\* The script refuses exactly the requests that it cannot serve, and those
\* before it builds anything: the order in which the names are looked at, and
\* what is in the array when one is, make no difference.
RefusesExactlyUnsupported ==
    /\ pc = "refused" => Unsupported /\ nci_plans = <<>>
    /\ pc \in {"build", "setup", "nci", "failed"} => ~Unsupported

\* Every recipe that is built has a plan to be run.
BuildsOnlyWhatRuns == pc \in {"build", "setup", "nci"} => \A r \in DOMAIN runner : runner[r] # <<>>
=============================================================================
