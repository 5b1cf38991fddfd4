SPECIFICATION Spec
CONSTANTS
    Insns <- MCInsns
    After = 195
CHECK_DEADLOCK FALSE
INVARIANTS
    TypeOK
    SlotsClear
    RunsTheInstruction
