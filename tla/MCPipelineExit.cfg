\* Commands may exit non-zero; nothing else fails.
CONSTANTS
    Editions = {"Gnome"}
    Branches = {"Testing"}
    Filesystems = {"Ext4"}
    Disks = {"sda"}
    ExitCodes = {"ok", "nonzero"}
    HttpStatuses = {"ok"}
    Faults = FALSE
    HostPrograms <- MCHostPrograms
SPECIFICATION Spec
INVARIANT FailFast
