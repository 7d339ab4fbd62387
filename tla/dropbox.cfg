\* One file and two starts, two files and one start, or three clients at once.
SPECIFICATION MCSpec
CONSTANTS
    Uploads = {1, 2, 3, 4, 5}
    Contents = {c1, c2, c3}
    TooLarge = {c3}
    Missing = Missing
    Servers = {0, 1}
    ServerOf <- MCServerOf
    MaxServerFaults = 1
    Paths = {p1, p2}
    Absent = Absent
    MaxEdits = 2
    MaxLaunches = 2
    MaxGuests = 3
INVARIANTS
    TypeOK
    AnsweredIsCleanedUp RowsResolve UnchangedIsNotSent
PROPERTIES
    FilesAreImmutable SettledFilesSynced
