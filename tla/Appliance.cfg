SPECIFICATION Spec
CONSTANTS
    Commands = {k1, k2}
    Modifiers = {"CTRL", "SHIFT", "WIN"}
    Named = {"ENTER"}
    Chars = {"a", "B"}
    Shifted = {"B"}
    Foreign = {"VOLUME_UP"}
    Chords <- SomeChords
    Texts <- SomeTexts
    DragSteps = 2
    Nothing = Nothing

    Vms = {vm1, vm2}
    Phones = {ph, tcp}
    TcpPhones = {tcp}
    Desktops = {pc}
    Port = Port
    Nobody = Nobody
    InputSizes = {1, 2}
    FirstSize = 2
    ShotSize = 1
    Execute = TRUE
    MaxMoves = 2

    Builds = {b1, b2}
    InstallRuns = {r1, r2}
    MaxTroubles = 2

    Clients = {c1, c2}
    Names = {n1}
    Tokens = {t1}
    ServiceTokens = {s1}
    NoOne = NoOne
    Limit = 1
    Window = 2
    Duration = 1
    MaxTime = 2
    MaxRestarts = 1

    ImageIds = {1, 2}
    Deploys = {d1, d2}
    NoImage = NoImage
    Custom = Custom
    MaxCatalog = 2
    MaxUpsets = 2
INVARIANTS TypeOK NothingStaysHeld CommandsArriveAsMeant InstallsAreVerified AccessIsEarned LaunchesAreWhole
CHECK_DEADLOCK FALSE
