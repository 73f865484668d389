\* Every configuration; commands exit 0; any launch, I/O or network call
\* may fail.
CONSTANTS
    Editions <- MCAllEditions
    Branches = {"Stable", "Testing", "Unstable"}
    Filesystems <- MCAllFilesystems
    Disks = {"sda", "vdb"}
    ExitCodes = {"ok"}
    HttpStatuses = {"ok"}
    Faults = TRUE
    HostPrograms <- MCHostPrograms
SPECIFICATION Spec
INVARIANT TypeOK
INVARIANT NoRebootWhileMounted
PROPERTY TargetRootDiscipline
PROPERTY PhaseSpec
