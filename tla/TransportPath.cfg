SPECIFICATION Spec
CONSTANTS
    Units <- MCUnits
    StreamCounts <- MCStreamCounts
    Budgets <- MCBudgets
INVARIANT PacketsAreWhole
PROPERTY UnitsComeOut
PROPERTY ProgramMapArrives
CHECK_DEADLOCK FALSE
