SPECIFICATION MachineSpec
CONSTANTS
    Parts = {"handoff"}
    Session = {s1, s2}
    RootedSets = {{}, {s2}}
    Helper = {u1, u2}
    Slots = 1
    Config <- MCConfig
    Plan <- LinuxPlan
    OtherRoutes = {}
    Up = Up
    Nobody = Nobody
    Terminal = {t1, t2}
    Job = Job
    Command = {"pair", "resume", "foreground", "stop", "delete", "uninstall", "refresh"}
    Platforms = {"user", "agent", "tasks"}
    MaxCommands = 3
    MaxTroubles = 1
    None = None
    Systems = {"unix", "windows"}
    Modes = {"online", "manifest", "offline"}
    Archive <- MCArchive
    Sums <- MCSums
    Cases <- MCCases
    Exchanged <- MCExchanged
    MaxEntries = 4
    MaxExtracted = 4
    Files <- MCFiles
    Installed <- MCInstalled
    MaxBreaks = 1
INVARIANTS
    RollbackRestoresAll
CHECK_DEADLOCK FALSE
