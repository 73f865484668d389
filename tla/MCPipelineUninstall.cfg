\* Any launch, I/O or network call may fail; commands exit 0.
CONSTANTS
    Editions = {"Gnome"}
    Branches = {"Testing"}
    Filesystems = {"Ext4"}
    Disks = {"sda"}
    ExitCodes = {"ok"}
    HttpStatuses = {"ok"}
    Faults = TRUE
    HostPrograms <- MCHostPrograms
SPECIFICATION Spec
INVARIANT UninstallOnlyOnSuccess
