\* Every command exits 0 and nothing fails.
CONSTANTS
    Editions = {"Gnome"}
    Branches = {"Testing"}
    Filesystems = {"Ext4"}
    Disks = {"sda"}
    ExitCodes = {"ok"}
    HttpStatuses = {"ok"}
    Faults = FALSE
    HostPrograms <- MCHostPrograms
SPECIFICATION Spec
PROPERTY UnmountInReverse
