\* Arrays fill up at four entries, regions at six pages, chunks at three: eight pages and
\* seven errors need two of each.
CONSTANTS
    EntriesPerPage = 2
    MAX_CAPACITY_PER_TABLE = 4
    MAX_VA_ARRAYS = 2
    LogsPerPage = 1
    MAX_RESULT_TABLE_ENTRIES = 2
    MAX_PAGES_IN_SGL = 6
    SG_CHUNK_SIZE = 3
    MaxPages = 8
    MaxMms = 2
    MaxErrors = 7
    MaxIterations = 2
SPECIFICATION Spec
INVARIANTS TablesTypeOK ServerReadsWalk ServerReadsErrors 
\* Behaviours end at the bound, when the server is lost, and where they are undefined.
CHECK_DEADLOCK FALSE
