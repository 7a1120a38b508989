\* two handles whose bodies and loops use each other, and spin on a budget
CONSTANTS
    Handles = {h1, h2}
    NoBudget = NoBudget
    Budgets = {NoBudget, 1}
    MaxSeq = 2
    MaxDepth = 4
SPECIFICATION FairSpec
INVARIANTS HandlesOK  SeqsGrow BudgetIsKept 
PROPERTIES EndIsFinal CancelIsObeyed LoopsEnd
CHECK_DEADLOCK FALSE
