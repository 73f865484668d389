\* Reliable environment: every tool installed, nothing fails, exit 0.
\* Zfs is left out: its formatter cannot be launched (see MCPipelineZfs).
CONSTANTS
    Editions <- MCAllEditions
    Branches = {"Testing"}
    Filesystems = {"Btrfs", "Ext4"}
    Disks = {"sda", "vdb"}
    ExitCodes = {"ok"}
    HttpStatuses = {"ok"}
    Faults = FALSE
    HostPrograms <- MCHostPrograms
SPECIFICATION Spec
PROPERTY ReachesReboot
