CONSTANTS
    NumberOf <- MCNumberOf
    ListOf <- MCListOf
    UpperOf <- MCUpperOf
    Files <- MCFiles
    CommandLines <- MCCommandLines
    Dirs <- MCDirs
    DiskMayFill = TRUE
    MaxLaunches = 3
SPECIFICATION Spec
INVARIANTS
    InductiveInvariant
    CommandLineWins
    RefusedLeavesNoTrace
    ReportsAsWritten
    ExitMeansReports
PROPERTY ReplacedOnlyOnResume
