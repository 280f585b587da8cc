\* A receiver that keeps trying, where a link is created or not as it comes.
SPECIFICATION FairSpec
CONSTANTS
    Senders = {s1}
    NumFiles = 2
    Contents <- MCContents
    Selections <- MCSelections
    Target <- MCApart
    HardLinks = {TRUE, FALSE}
    MaxNameTries = 4
    Buffered = 1
    Troubles = {"edit", "delete", "drop", "crash", "decline", "foreign", "week"}
    MaxTroubles = 2
PROPERTIES
    KeepTryingEnds
