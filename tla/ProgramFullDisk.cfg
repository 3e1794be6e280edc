CONSTANTS
    NumberOf <- MCNumberOf
    ListOf <- MCListOf
    UpperOf <- MCUpperOf
    Files <- MCFiles
    CommandLines <- MCCommandLines
    Dirs <- MCDirs
    DiskMayFill = TRUE
    MaxLaunches = 1
SPECIFICATION Spec
INVARIANT WrittenOrThrown
