\* Reliable environment with zpool installed; the Zfs choice included.
CONSTANTS
    Editions = {"Gnome"}
    Branches = {"Testing"}
    Filesystems <- MCAllFilesystems
    Disks = {"sda"}
    ExitCodes = {"ok"}
    HttpStatuses = {"ok"}
    Faults = FALSE
    HostPrograms <- MCHostPrograms
SPECIFICATION Spec
PROPERTY ReachesReboot
