\* Two processes on one live system; any terminal, launch, I/O or network
\* call may fail; commands exit 0.  Hydra clones into /tmp, Gnome does not.
CONSTANTS
    Editions = {"Gnome", "Hydra"}
    Branches = {"Testing"}
    Filesystems = {"Ext4"}
    Disks = {"sda"}
    ExitCodes = {"ok"}
    HttpStatuses = {"ok"}
    Faults = TRUE
    HostPrograms <- MCHostPrograms
    TermFaults = TRUE
    MaxRuns = 2
SPECIFICATION ISpec
INVARIANT TerminalRestoredUnlessItFails
