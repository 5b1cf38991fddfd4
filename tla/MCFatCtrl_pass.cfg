SPECIFICATION Spec
CONSTANTS
    PageSize = 4
    MAX_INT3 = 9
    MAX_Redir_Code_Page = 6
    FuncDB <- MCFuncDB
    Starts = {13, 4}
    StartDest = 4
    ReadsSeeCopy = TRUE
CHECK_DEADLOCK FALSE
INVARIANTS
    TypeOK
    HooksInOwnPage
    CalleeProbed
    EmulatesTheCall
    TablesBounded
    ProbesStayArmed
