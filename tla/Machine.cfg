SPECIFICATION MachineSpec
CONSTANTS
    Parts = {"helper", "lifecycle", "update", "handoff"}
    Session = {s1, s2}
    RootedSets = {{}, {s2}}
    Helper = {u1, u2}
    Slots = 1
    Config <- MCConfig
    Plan <- WindowsPlan
    Up = Up
    OtherRoutes = {}
    Nobody = Nobody
    Terminal = {t1, t2}
    Job = Job
    Command = {"pair", "resume", "foreground", "stop", "delete", "uninstall", "refresh"}
    Platforms = {"user", "agent", "tasks"}
    MaxCommands = 3
    MaxTroubles = 1
    None = None
    Systems = {"unix", "windows"}
    Modes = {"online", "manifest", "offline"}
    Archive <- MCArchive
    Sums <- MCSums
    Cases <- MCCases
    Exchanged <- MCExchanged
    MaxEntries = 4
    MaxExtracted = 4
    Files <- MCFiles
    Installed <- MCInstalled
    MaxBreaks = 3
INVARIANTS
    MachineTypeOK
    InterfacesKept
    EndpointIsOwn
    EndsHold
    HandoffAtomic
    UpdateTrusted
PROPERTIES
    OnlyItsOwn
    MachineProgress
CHECK_DEADLOCK FALSE
