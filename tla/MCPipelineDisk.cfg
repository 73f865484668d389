\* The user may choose /dev/sda or /dev/vdb; commands exit 0.
CONSTANTS
    Editions = {"Gnome"}
    Branches = {"Testing"}
    Filesystems = {"Ext4"}
    Disks = {"sda", "vdb"}
    ExitCodes = {"ok"}
    HttpStatuses = {"ok"}
    Faults = FALSE
    HostPrograms <- MCHostPrograms
SPECIFICATION Spec
INVARIANT DestructiveOnChosenDisk
