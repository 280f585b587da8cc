\* Two receivers save the same file into the same folder at the same time.
SPECIFICATION Spec
CONSTANTS
    Senders = {s1, s2}
    NumFiles = 1
    Contents <- MCContents
    Selections <- MCFirstSelection
    Target <- MCApart
    HardLinks = {TRUE}
    MaxNameTries = 2
    Buffered = 1
    Troubles = {}
    MaxTroubles = 0
INVARIANT SavedFilesAreWhole
