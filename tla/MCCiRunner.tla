----------------------------- MODULE MCCiRunner -----------------------------
(***************************************************************************)
(* Two arm64 recipes, one of them without a default plan, two x86 recipes, *)
(* one of them without a plan, a recipe of neither (as muen_unittests is), *)
(* and plans that belong to one recipe, to two and to none.                *)
(***************************************************************************)
EXTENDS CiRunner

MCRecipes == {"a-debug", "a-bare", "x-debug", "x-skip", "unittests"}
MCArm64 == {"a-debug", "a-bare"}
MCX86 == {"x-debug", "x-skip"}
MCPlans == {"a-sdcard", "a-tftp", "x-plan", "both", "stray"}
MCDefaultPlans ==
    [r \in MCArm64 \cup MCX86 |->
        IF r = "a-debug" THEN <<"a-sdcard">>
        ELSE IF r = "x-debug" THEN <<"x-plan">> ELSE <<>>]
MCPlanRecipe ==
    [p \in MCPlans |->
        IF p \in {"a-sdcard", "a-tftp"} THEN {"a-debug"}
        ELSE IF p = "x-plan" THEN {"x-debug"}
        ELSE IF p = "both" THEN {"a-bare", "x-skip"} ELSE {}]

UpTo2(S) == {<<>>} \cup {<<x>> : x \in S} \cup {<<x, y>> : x \in S, y \in S}
Request(r, p) == [recipes |-> r, plans |-> p]
\* Recipes or plans, or neither; both; and those of them in which no plan
\* meets its own recipe.
OneKind ==
    {Request(r, <<>>) : r \in UpTo2(MCRecipes \cup {"debug", "nothing"})}
      \cup {Request(<<>>, p) : p \in UpTo2(MCPlans \cup {"no-file"})}
BothKinds == {Request(<<r>>, <<p>>) : r \in MCRecipes, p \in MCPlans}
MCRequests == OneKind \cup {q \in BothKinds : Apart(q)}
=============================================================================
