SPECIFICATION Spec
CONSTANTS
    Plain <- MCPlain
    Letters <- MCLetters
    Digits <- MCDigits
    WordList <- MCWordList
    MaxCodeLen = 12
    Inputs <- MCInputs
    Spoken <- MCSpoken
    Spellings <- MCSpellings
    HolePunchAttempts = 3
    Systems = {"linux", "darwin", "windows"}
    Installed <- MCInstalled
    Releases <- MCReleases
    Nodes = {1, 2}
    Capacity = 1
    s1 = s1
    Serves = {s1}
    Commands = {"tui", "send", "receive", "update"}
    Plans <- MCPlans
    Troubles = {"files", "server", "codes"}
    Routes = {TRUE, FALSE}
INVARIANTS
    TypeOK
    OneReader
    QuestionStays
    StrayNodesIdle
    CodeIsUnderstood
    WatchedIsOpen
    ResultIsTrue
    AProgramIsLeft
    InstalledIsRight
    NeverOlder
