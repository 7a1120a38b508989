\* one execution, budgeted, cancelled and resumed at will, and all it may fail on
CONSTANTS
    Handles = {h1}
    NoBudget = NoBudget
    Budgets = {NoBudget, 0, 2}
    MaxSeq = 9
    MaxDepth = 2
    compiled = compiled
    hosted = hosted
    broken = broken
    Impls = {compiled, hosted, broken}
    ModuleOf <- MCModuleOf
    Plans <- MCPlans
    Values = {v}
    NoValue = NoValue
SPECIFICATION FairSpec
INVARIANTS ReportIsTrue DeliveredInOrder EndHasResult
PROPERTIES RunsReturn
CHECK_DEADLOCK FALSE
