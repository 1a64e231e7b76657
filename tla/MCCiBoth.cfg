\* The script ends.
CHECK_DEADLOCK FALSE
CONSTANTS
    Recipes <- MCRecipes
    DefaultSet = {"a-debug", "x-debug", "x-skip"}
    Suffixes = {"debug"}
    Unknown = {"nothing"}
    Arm64 <- MCArm64
    X86 <- MCX86
    Plans <- MCPlans
    DefaultPlans <- MCDefaultPlans
    PlanRecipe <- MCPlanRecipe
    Missing = {"no-file"}
    Space = " "
    Requests <- BothKinds
SPECIFICATION Spec
INVARIANT
    RunsWhatWasAsked
