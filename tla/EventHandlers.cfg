CONSTANTS
    Commands = {"options", "casino", "wrench", "country", "world", "wlt", "save", "chat", "mention"}
    Modes = {"Pull"}
    Uids = {"owner"}
    Boxes = {"roulette2", "wrenchpull", "fastdrop", "worldbanmod", "visualspin"}
    MaxOn = 3
    Percents = {59, 99}
    Counts = {4, 5, 195}
    MaxPopups = 1
    People = {1, 2, 3}
    Ignored0 <- IgnoredBefore
    Given = {2}
    MaxAsks = 2
    MaxOpens = 1
    MaxSessions = 2
SPECIFICATION Spec
INVARIANTS TypesOK SettledOnce TaxWithin
    OptionsFaithful PopupAgrees
    IgnoreListRestored ResolvesTheAsked ResolutionUnseen
PROPERTY ResolutionEnds
CHECK_DEADLOCK FALSE
