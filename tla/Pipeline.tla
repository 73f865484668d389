------------------------------ MODULE Pipeline ------------------------------
(***************************************************************************)
(* The installation pipeline of the HackerOS installer:                    *)
(* perform_installation, install_edition, download_file and copy_dir       *)
(* (src/Installer/src/main.rs).                                            *)
(*                                                                         *)
(* The code is one async function that issues a fixed list of external    *)
(* calls, each followed by `?`.  We model that list as data: Prog(cfg) is  *)
(* the sequence of operations perform_installation issues for the frozen   *)
(* configuration cfg, and pc points at the next one.  Every operation kind *)
(* is an action that models what the call does and how its result is      *)
(* handled by `?`:                                                         *)
(*   - Command::status()? fails only when the program cannot be launched;  *)
(*     a launched program's exit status (zero or not) is dropped and the   *)
(*     pipeline carries on;                                                *)
(*   - fs:: calls, the git clone and the body of download_file fail on an  *)
(*     I/O or network error, which ends the pipeline;                      *)
(*   - reqwest's send() does not fail on a non-success HTTP status, so an  *)
(*     error page is written to the destination like a binary.             *)
(* The external world (which programs exist, which exit codes and HTTP     *)
(* statuses occur, whether I/O can fail) is given by constants.            *)
(***************************************************************************)
EXTENDS Naturals, Sequences, FiniteSets

CONSTANTS
    Editions,      \* editions the frozen configuration may hold
    Branches,      \* Debian branches it may hold
    Filesystems,   \* filesystems it may hold
    Disks,         \* disk names it may hold ("sda" is the one the code hardcodes)
    ExitCodes,     \* exit statuses launched programs may return
    HttpStatuses,  \* HTTP statuses download_file may receive
    Faults,        \* whether launching, I/O and network calls may fail
    HostPrograms   \* executable names found on the live system's PATH

AllEditions == {"Official", "Gnome", "Xfce", "Blue", "Hydra",
                "Cybersecurity", "Wayfire", "Atomic"}
AllBranches == {"Stable", "Testing", "Unstable"}
AllFilesystems == {"Btrfs", "Ext4", "Zfs"}

ASSUME ConfigAssumption ==
    /\ Editions \subseteq AllEditions /\ Editions # {}
    /\ Branches \subseteq AllBranches /\ Branches # {}
    /\ Filesystems \subseteq AllFilesystems /\ Filesystems # {}
    /\ Disks # {}

ASSUME EnvAssumption ==
    /\ ExitCodes \subseteq {"ok", "nonzero"} /\ ExitCodes # {}
    /\ HttpStatuses \subseteq {"ok", "error"} /\ HttpStatuses # {}
    /\ Faults \in BOOLEAN

Configs == [edition : Editions, branch : Branches, fs : Filesystems,
            manual : BOOLEAN, disk : Disks]

(***************************************************************************)
(* The fixed tables of perform_installation.                               *)
(***************************************************************************)
\* Mutant: Stable still mapped to the previous release.
CodenameStale(b) == CASE b = "Stable"   -> "bookworm"
                      [] b = "Testing"  -> "forky"
                      [] b = "Unstable" -> "sid"

Codename(b) == CASE b = "Stable"   -> "trixie"
                 [] b = "Testing"  -> "forky"
                 [] b = "Unstable" -> "sid"

\* Command::new takes the whole string as the program name: "zpool create"
\* names an executable with a space in it.
\* Mutant: the ext4 formatter written as "mkfs ext4".
FsToolSpaced(f) == CASE f = "Btrfs" -> "mkfs.btrfs"
                     [] f = "Ext4"  -> "mkfs ext4"
                     [] f = "Zfs"   -> "zpool create"

FsTool(f) == CASE f = "Btrfs" -> "mkfs.btrfs"
               [] f = "Ext4"  -> "mkfs.ext4"
               [] f = "Zfs"   -> "zpool create"

CodeDisk == "sda"   \* "/dev/sda2" is formatted and "/dev/sda" gets grub

MountPoints == {"root", "boot", "dev", "proc", "sys", "run"}
BindDirs == <<"dev", "proc", "sys", "run">>
InstallerFiles == {"assets", "binary", "profile"}
DesktopEntries == {"Blue-Environment.desktop"}
NoDev == "none"

(***************************************************************************)
(* Operations.  kind is the call, arg its argument, dev the disk a         *)
(* destructive command is aimed at, mnt whether it writes below /mnt.      *)
(***************************************************************************)
Op(k, a) == [kind |-> k, arg |-> a, dev |-> NoDev, mnt |-> FALSE]
MntOp(k, a) == [kind |-> k, arg |-> a, dev |-> NoDev, mnt |-> TRUE]
DevOp(k, a, d) == [kind |-> k, arg |-> a, dev |-> d, mnt |-> k = "chroot"]

ExecKinds == {"run", "mount", "umount", "bootstrap", "chroot", "reboot"}
FsKinds == {"write", "mkdir", "copy", "remove", "clone"}
Program(op) == IF op.kind = "run" THEN op.arg
               ELSE IF op.kind = "bootstrap" THEN "debootstrap"
               ELSE op.kind

\* download_file: fetch the body to path, then chmod +x unless the path is
\* a directory or a .desktop entry.
Download(f) == <<MntOp("fetch", f)>> \o
               (IF f \in DesktopEntries THEN << >> ELSE <<Op("run", "chmod")>>)

\* for name in list { download_file(...)? } for names that all get chmod.
Downloads(names) ==
    [i \in 1..2 * Len(names) |->
        IF i % 2 = 1 THEN MntOp("fetch", names[(i + 1) \div 2])
                     ELSE Op("run", "chmod")]

BlueComponents == <<"wm", "shell", "launcher", "Desktop", "decorations", "core">>
HammerComponents == <<"hammer-updater", "hammer-tui", "hammer-core", "hammer-builder">>

\* install_edition: the common overlay copy, then one action per edition.
EditionProg(e) ==
    <<MntOp("copy", "official")>> \o
    CASE e \in {"Official", "Wayfire"} -> <<MntOp("chroot", "apt-desktop-sddm")>>
      [] e = "Gnome"         -> <<MntOp("chroot", "apt-gnome")>>
      [] e = "Xfce"          -> <<MntOp("chroot", "apt-xfce")>>
      [] e = "Cybersecurity" -> <<MntOp("chroot", "apt-tools")>>
      [] e = "Blue"   -> <<MntOp("mkdir", "blue-home")>> \o Downloads(BlueComponents)
                         \o Download("Blue-Environment")
                         \o Download("Blue-Environment.desktop")
                         \o <<MntOp("chroot", "apt-sddm")>>
      [] e = "Hydra"  -> <<Op("clone", "hydra"), MntOp("copy", "hydra")>>
      [] e = "Atomic" -> Download("hammer") \o <<MntOp("mkdir", "hammer-lib")>>
                         \o Downloads(HammerComponents)
                         \o <<MntOp("chroot", "apt-desktop-sddm"),
                              MntOp("chroot", "hammer-setup")>>

\* Mutant: the bind-mount loop stops before /run.
BindMountsNoRun ==
    [i \in 1..2 * (Len(BindDirs) - 1) |->
        IF i % 2 = 1 THEN MntOp("mkdir", BindDirs[(i + 1) \div 2])
                     ELSE Op("mount", BindDirs[i \div 2])]

\* Mutant: the bind-mount loop is missing altogether.
BindMountsNone == << >>

\* for dir in ["/dev", "/proc", "/sys", "/run"]: create_dir_all, mount --bind.
BindMounts ==
    [i \in 1..2 * Len(BindDirs) |->
        IF i % 2 = 1 THEN MntOp("mkdir", BindDirs[(i + 1) \div 2])
                     ELSE Op("mount", BindDirs[i \div 2])]

\* Mutant: /mnt itself is never unmounted.
UnmountAllNoRoot ==
    [i \in 1..Len(BindDirs) |-> Op("umount", BindDirs[i])] \o <<Op("umount", "boot")>>

\* The cleanup: umount each bind mount, then /mnt/boot, then /mnt.
UnmountAll ==
    [i \in 1..Len(BindDirs) |-> Op("umount", BindDirs[i])]
    \o << Op("umount", "boot"), Op("umount", "root") >>

\* perform_installation, in the order of its calls.
Prog(c) ==
    << Op("write", "sources"), Op("run", "apt"),
       DevOp("run", IF c.manual THEN "cfdisk" ELSE "sfdisk", c.disk),
       DevOp("run", FsTool(c.fs), CodeDisk),
       Op("mkdir", "mnt"), Op("mount", "root"),
       MntOp("mkdir", "boot"), Op("mount", "boot"),
       MntOp("bootstrap", Codename(c.branch)) >>
    \o BindMounts
    \o << MntOp("chroot", "apt-update"), MntOp("chroot", "apt-base"),
          MntOp("chroot", "useradd"), MntOp("chroot", "chpasswd"),
          MntOp("chroot", "sudoers"), MntOp("write", "hostname") >>
    \o EditionProg(c.edition)
    \o << DevOp("chroot", "grub-install", CodeDisk), MntOp("chroot", "update-grub") >>
    \o UnmountAll
    \o << Op("remove", "assets"), Op("remove", "binary"), Op("remove", "profile"),
          Op("reboot", "reboot") >>

Files == {"wm", "shell", "launcher", "Desktop", "decorations", "core",
          "Blue-Environment", "Blue-Environment.desktop", "hammer",
          "hammer-updater", "hammer-tui", "hammer-core", "hammer-builder"}

-----------------------------------------------------------------------------
VARIABLES
    cfg,        \* the frozen InstallerState the pipeline reads
    pc,         \* index in Prog(cfg) of the next call
    status,     \* "running", "failed" (an Err reached main) or "done" (Ok)
    mountedAt,  \* mount point -> the pcs of the mounts stacked on it, newest first
    sources,    \* what /etc/apt/sources.list names: "host" or a codename
    baseOn,     \* where debootstrap put the base system: "none", "target", "host"
    targets,    \* disks that partition, format and grub commands were aimed at
    badFetch,   \* downloaded files that hold an HTTP error body
    installer,  \* the installer's own files still on the host
    rebooted,   \* the reboot command ran successfully
    lastExit,   \* exit status of the last launched command
    cloned      \* /tmp/hydra-look-and-feel exists on the host

vars == <<cfg, pc, status, mountedAt, sources, baseOn, targets, badFetch,
          installer, rebooted, lastExit, cloned>>

TypeOK ==
    /\ cfg \in Configs
    /\ pc \in 1..Len(Prog(cfg)) + 1
    /\ status \in {"running", "failed", "done"}
    /\ mountedAt \in [MountPoints -> Seq(Nat)]
    /\ sources \in {"host", "trixie", "forky", "sid"}
    /\ baseOn \in {"none", "target", "host"}
    /\ targets \subseteq Disks \cup {CodeDisk}
    /\ badFetch \subseteq Files
    /\ installer \subseteq InstallerFiles
    /\ rebooted \in BOOLEAN
    /\ lastExit \in {"none", "ok", "nonzero"}
    /\ cloned \in BOOLEAN

Init ==
    /\ cfg \in Configs
    /\ pc = 1
    /\ status = "running"
    /\ mountedAt = [m \in MountPoints |-> << >>]
    /\ sources = "host"
    /\ baseOn = "none"
    /\ targets = {}
    /\ badFetch = {}
    /\ installer = InstallerFiles
    /\ rebooted = FALSE
    /\ lastExit = "none"
    /\ cloned = FALSE

Cur == Prog(cfg)[pc]
Running == status = "running"
Mounted(m) == mountedAt[m] # << >>
\* The pc of the mount on top of m, 0 if nothing is mounted there.
Stamp(m) == IF Mounted(m) THEN Head(mountedAt[m]) ELSE 0

\* The call returned: go on with the next one, or return Ok after the last.
Advance ==
    /\ pc' = pc + 1
    /\ status' = IF pc = Len(Prog(cfg)) THEN "done" ELSE "running"

\* Exit statuses a launched command can return here: chroot finds no
\* /bin/bash under an empty /mnt; mount refuses a device that is already
\* mounted (a bind mount stacks instead); umount fails on a mount point that
\* is not mounted, and on /mnt while something below it is (EBUSY);
\* otherwise whatever the environment allows.
ExitOutcomes ==
    IF \/ Cur.kind = "chroot" /\ baseOn = "none"
       \/ Cur.kind = "mount" /\ Cur.arg \in {"root", "boot"} /\ Mounted(Cur.arg)
       \/ Cur.kind = "umount" /\ ~Mounted(Cur.arg)
       \/ Cur.kind = "umount" /\ Cur.arg = "root"
            /\ \E m \in MountPoints \ {"root"} : Mounted(m)
    THEN {"nonzero"}
    ELSE ExitCodes

\* Command::new(..).status()? returned Ok(x): the program ran and exited x,
\* and `?` lets the pipeline go on whatever x is.
Launch(k, x) ==
    /\ Running
    /\ Cur.kind = k
    /\ Program(Cur) \in HostPrograms
    /\ x \in ExitOutcomes
    /\ Advance
    /\ lastExit' = x
    /\ targets' = IF Cur.dev = NoDev THEN targets ELSE targets \cup {Cur.dev}

\* apt update, cfdisk, sfdisk, mkfs.*, chmod on the host.
RunCommand(x) ==
    /\ Launch("run", x)
    /\ UNCHANGED <<cfg, mountedAt, sources, baseOn, badFetch, installer, rebooted, cloned>>

\* mount /dev/sda2 /mnt, mount /dev/sda1 /mnt/boot, mount --bind d /mnt/d.
Mount(x) ==
    /\ Launch("mount", x)
    /\ mountedAt' = IF x = "ok" THEN [mountedAt EXCEPT ![Cur.arg] = <<pc>> \o @]
                                ELSE mountedAt
    /\ UNCHANGED <<cfg, sources, baseOn, badFetch, installer, rebooted, cloned>>

\* umount /mnt/d, umount /mnt/boot, umount /mnt.
Unmount(x) ==
    /\ Launch("umount", x)
    /\ mountedAt' = IF x = "ok" THEN [mountedAt EXCEPT ![Cur.arg] = Tail(@)]
                                ELSE mountedAt
    /\ UNCHANGED <<cfg, sources, baseOn, badFetch, installer, rebooted, cloned>>

\* debootstrap <codename> /mnt fills whatever /mnt is at that moment.
Bootstrap(x) ==
    /\ Launch("bootstrap", x)
    /\ baseOn' = IF x = "ok" THEN IF Mounted("root") THEN "target" ELSE "host"
                              ELSE baseOn
    /\ UNCHANGED <<cfg, mountedAt, sources, badFetch, installer, rebooted, cloned>>

\* chroot /mnt /bin/bash -c <cmd>, the chroot_cmd closure.
Chroot(x) ==
    /\ Launch("chroot", x)
    /\ UNCHANGED <<cfg, mountedAt, sources, baseOn, badFetch, installer, rebooted, cloned>>

\* Command::new("reboot").status()?, then Ok(()).
Reboot(x) ==
    /\ Launch("reboot", x)
    /\ rebooted' = (x = "ok")
    /\ UNCHANGED <<cfg, mountedAt, sources, baseOn, badFetch, installer, cloned>>

\* fs::write of sources.list or /mnt/etc/hostname.
WriteFile ==
    /\ Running
    /\ Cur.kind = "write"
    /\ Advance
    /\ sources' = IF Cur.arg = "sources" THEN Codename(cfg.branch) ELSE sources
    /\ UNCHANGED <<cfg, mountedAt, baseOn, targets, badFetch, installer,
                   rebooted, lastExit, cloned>>

\* What copy_dir reads: the installer's asset directory for the common
\* overlay, the clone in /tmp for Hydra.
SourcePresent(a) == IF a = "official" THEN "assets" \in installer ELSE cloned

\* Calls that return Err whatever the environment: Repository::clone into a
\* directory that exists, copy_dir whose read_dir finds no source, removal
\* of an installer file that is already gone.
Unavailable ==
    \/ Cur.kind = "clone" /\ cloned
    \/ Cur.kind = "copy" /\ ~SourcePresent(Cur.arg)
    \/ Cur.kind = "remove" /\ Cur.arg \notin installer

\* fs::create_dir_all, copy_dir, Repository::clone that succeed.
FsCall ==
    /\ Running
    /\ Cur.kind \in {"mkdir", "copy", "clone"}
    /\ ~Unavailable
    /\ Advance
    /\ cloned' = (cloned \/ Cur.kind = "clone")
    /\ UNCHANGED <<cfg, mountedAt, sources, baseOn, targets, badFetch,
                   installer, rebooted, lastExit>>

\* fs::remove_dir_all / fs::remove_file of an installer file.
RemoveFile ==
    /\ Running
    /\ Cur.kind = "remove"
    /\ ~Unavailable
    /\ Advance
    /\ installer' = installer \ {Cur.arg}
    /\ UNCHANGED <<cfg, mountedAt, sources, baseOn, targets, badFetch,
                   rebooted, lastExit, cloned>>

\* download_file: send() and the body copy succeed whatever the status h.
Fetch(h) ==
    /\ Running
    /\ Cur.kind = "fetch"
    /\ h \in HttpStatuses
    /\ Advance
    /\ badFetch' = IF h = "ok" THEN badFetch \ {Cur.arg}
                                ELSE badFetch \cup {Cur.arg}
    /\ UNCHANGED <<cfg, mountedAt, sources, baseOn, targets, installer,
                   rebooted, lastExit, cloned>>

\* The call returns Err: a program that is not on PATH cannot be launched,
\* and with Faults any launch, I/O or network call can fail.  `?` sends
\* the error to main; nothing is undone.
Fail ==
    /\ Running
    /\ \/ Faults
       \/ Cur.kind \in ExecKinds /\ Program(Cur) \notin HostPrograms
       \/ Unavailable
    /\ status' = "failed"
    /\ UNCHANGED <<cfg, pc, mountedAt, sources, baseOn, targets, badFetch,
                   installer, rebooted, lastExit, cloned>>

\* The process has returned from perform_installation.
Terminated ==
    /\ ~Running
    /\ UNCHANGED vars

Next ==
    \/ \E x \in {"ok", "nonzero"} :
          RunCommand(x) \/ Mount(x) \/ Unmount(x) \/ Bootstrap(x)
          \/ Chroot(x) \/ Reboot(x)
    \/ \E h \in {"ok", "error"} : Fetch(h)
    \/ WriteFile \/ FsCall \/ RemoveFile
    \/ Fail
    \/ Terminated

\* perform_installation runs to its end once started: each call blocks
\* until the command exits, and nothing else runs in between.
Spec == Init /\ [][Next]_vars /\ WF_vars(Next)
-----------------------------------------------------------------------------
(***************************************************************************)
(* Properties.                                                             *)
(***************************************************************************)

\* Every call that writes below /mnt (debootstrap, mkdir, fs::write,
\* copy_dir, download_file, chroot) lands on the mounted target root, and
\* every chroot_cmd runs in the bootstrapped target with /dev, /proc, /sys
\* and /run bind-mounted: the order of perform_installation's mounts,
\* debootstrap and chroot calls, whichever edition is installed.
TargetRootDiscipline ==
    [][ (Running /\ pc' = pc + 1 /\ Cur.mnt) =>
          /\ Mounted("root")
          /\ Cur.kind = "chroot" =>
                /\ baseOn = "target"
                /\ \A i \in 1..Len(BindDirs) : Mounted(BindDirs[i]) ]_vars

\* The reboot at the end of perform_installation only happens after every
\* bind mount, /mnt/boot and /mnt have been unmounted.
NoRebootWhileMounted ==
    rebooted => \A m \in MountPoints : ~Mounted(m)

\* Spec 8: a failing command at any phase prevents all later phases.  A
\* command that exited non-zero leaves the pipeline stopped.
FailFast ==
    lastExit = "nonzero" => ~Running

\* Spec 8: unmounting happens in the reverse order of the mounts: when a
\* mount point is unmounted, every mount made after it is already gone.
UnmountInReverse ==
    [][ \A m \in MountPoints :
          (Mounted(m) /\ ~Mounted(m)') =>
             \A n \in MountPoints : Stamp(n) > Stamp(m) => ~Mounted(n)' ]_vars

\* Spec 4.4: partitioning, filesystem creation and the bootloader are
\* aimed at the disk the user chose, and at no other disk.
DestructiveOnChosenDisk ==
    targets \subseteq {cfg.disk}

\* Spec 4.2: download_file fails on a non-success HTTP status, so no error
\* body is ever left in place of a binary while the pipeline goes on.
FetchRejectsHttpError ==
    badFetch = {}

\* Spec 6 and 9: the installer removes its own files only on successful
\* completion, never on a failure path: a run that ends in an error leaves
\* the installer whole, so it can be started again.
UninstallOnlyOnSuccess ==
    status = "failed" => installer = InstallerFiles

\* With every tool installed, no call failing and every command exiting 0,
\* perform_installation reaches the reboot for every configuration.
ReachesReboot ==
    <>rebooted
-----------------------------------------------------------------------------
(***************************************************************************)
(* Refinement: the pipeline implements the phase order of InstallPhases.   *)
(* The phase of a call is read off the call itself (not its position), by *)
(* the section of perform_installation it belongs to, so a call issued in *)
(* the wrong section or a section left out shows as a phase out of order. *)
(***************************************************************************)
PhaseOf(op) ==
    LET binds == {BindDirs[i] : i \in 1..Len(BindDirs)}
    IN CASE op.kind = "write" -> IF op.arg = "sources" THEN 1 ELSE 8
         [] op.kind = "run" -> IF op.arg = "apt" THEN 1
                               ELSE IF op.arg \in {"cfdisk", "sfdisk"} THEN 2
                               ELSE IF op.arg = "chmod" THEN 9
                               ELSE 3
         [] op.kind \in {"mkdir", "mount"} ->
                IF op.arg \in {"mnt", "root", "boot"} THEN 4
                ELSE IF op.arg \in binds THEN 6
                ELSE 9
         [] op.kind = "bootstrap" -> 5
         [] op.kind = "chroot" ->
                IF op.arg \in {"apt-update", "apt-base", "useradd", "chpasswd",
                                "sudoers"} THEN 7
                ELSE IF op.arg \in {"grub-install", "update-grub"} THEN 10
                ELSE 9
         [] op.kind \in {"copy", "clone", "fetch"} -> 9
         [] op.kind \in {"umount", "remove"} -> 11
         [] op.kind = "reboot" -> 12

\* The phase the pipeline is in: that of the next call, or the last one
\* once every call has returned.
PhaseNow == IF pc > Len(Prog(cfg)) THEN 12 ELSE PhaseOf(Prog(cfg)[pc])

Phases == INSTANCE InstallPhases
            WITH phase <- PhaseNow, result <- status, booted <- rebooted

\* Spec 4.4: perform_installation runs the phases in their fixed order, none
\* skipped or revisited, for every edition and whatever fails, and always
\* ends, with Ok after the reboot or with the first Err.
PhaseSpec == Phases!Spec
=============================================================================
