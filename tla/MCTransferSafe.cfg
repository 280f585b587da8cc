\* Attempts at two files while anything goes wrong four times, where a link is
\* created or not as it comes.
SPECIFICATION Spec
CONSTANTS
    Senders = {s1}
    NumFiles = 2
    Contents <- MCTwo
    Selections <- MCShortSelection
    Target <- MCApart
    HardLinks = {TRUE, FALSE}
    MaxNameTries = 5
    Buffered = 1
    Troubles = {"edit", "delete", "drop", "crash", "decline", "foreign", "week"}
    MaxTroubles = 4
INVARIANTS
    TypeOK
    SavedFilesAreKept
    DeliveredIsSaved
    OffsetsFit
PROPERTIES
    NothingIsReplaced
    BytesLandWhereRead
