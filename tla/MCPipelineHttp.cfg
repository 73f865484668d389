\* The release server may answer with an error status (404, 5xx).
CONSTANTS
    Editions = {"Atomic"}
    Branches = {"Testing"}
    Filesystems = {"Ext4"}
    Disks = {"sda"}
    ExitCodes = {"ok"}
    HttpStatuses = {"ok", "error"}
    Faults = FALSE
    HostPrograms <- MCHostPrograms
SPECIFICATION Spec
INVARIANT FetchRejectsHttpError
