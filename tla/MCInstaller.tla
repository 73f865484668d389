---------------------------- MODULE MCInstaller -----------------------------
(***************************************************************************)
(* Model-checking instance of Installer: the same live system as           *)
(* MCPipeline, with the installer started up to MaxRuns times.            *)
(***************************************************************************)
EXTENDS Installer

MCHostPrograms ==
    {"apt", "cfdisk", "sfdisk", "mkfs.btrfs", "mkfs.ext4", "zpool", "mount",
     "umount", "debootstrap", "chroot", "chmod", "reboot"}
=============================================================================
