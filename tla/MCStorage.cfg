CONSTANTS
    Threads = {t1, t2}
    NoThread = NoThread
    Ids <- MCIds
    Names <- MCNames
    TableNames <- MCTableNames
    Blank = ""
    MayReuse = TRUE
SPECIFICATION Spec
INVARIANTS TypeOK PrimaryKey AnswerIsSnapshot TableAUnreachable
PROPERTIES RowsOnlyTruncated Linearizable HolderReleases
CHECK_DEADLOCK FALSE
