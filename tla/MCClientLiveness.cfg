SPECIFICATION FairSpec
CONSTANTS
    Plain <- MCPlain
    Letters <- MCLetters
    Digits <- MCDigits
    WordList <- MCWordList
    MaxCodeLen = 12
    Inputs <- MCInputs
    Spoken <- MCSpoken
    Spellings <- MCSpellings
    HolePunchAttempts = 3
    Systems = {"linux", "darwin", "windows"}
    Installed <- MCInstalled
    Releases <- MCReleases
    Nodes = {1}
    Capacity = 1
    s1 = s1
    s2 = s2
    Serves = {s1, s2}
    Commands = {"tui", "send", "receive"}
    Plans <- MCSingle
    Troubles = {}
    Routes = {TRUE}
PROPERTIES
    FinishedIsShown
    RunningIsShown
    UpgradeIsShown
    EmittersReleased
    GiveUpEndsWait
    CommandReturns
