CONSTANTS
    Threads = {t1, t2}
    NoThread = NoThread
    Ids <- MCIds
    Names <- OneName
    TableNames <- KnownTables
    Blank = ""
    MayReuse = FALSE
SPECIFICATION Spec
INVARIANT AnswerJoinsNamedTables
