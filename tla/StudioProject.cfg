SPECIFICATION SessionSpec
CONSTANTS
    Order <- MCOrder
    Opened <- MCOpened
    Revisions = {0, 1}
    Absent = Absent
    None = None
    Starter <- MCStarter
    Valid <- MCValid
    Linked <- MCLinked
    UndoDepth = 1
    MaxEdits = 2
    MaxFaults = 2
    MaxCrashes = 1
    Templates = {"blank", "kitting"}
    Sources <- MCSources
    Blank <- MCBlank
    Requests <- MCRequests
    Seeded <- MCSeeded
    SoundTree <- MCSoundTree
    MaxChanges = 2
PROPERTIES ReviewedIsFresh AtomicSave OnlyReviewed
CHECK_DEADLOCK FALSE
