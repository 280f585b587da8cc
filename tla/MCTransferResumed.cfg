\* One receiver that stops between the link and the unlink, and a file that its
\* owner edits three times.
SPECIFICATION Spec
CONSTANTS
    Senders = {s1}
    NumFiles = 1
    Contents <- MCTwo
    Selections <- MCShortSelection
    Target <- MCApart
    HardLinks = {TRUE}
    MaxNameTries = 2
    Buffered = 1
    Troubles = {"edit", "crash"}
    MaxTroubles = 4
INVARIANT SavedFilesAreWhole
