----------------------------- MODULE MCPipeline -----------------------------
(***************************************************************************)
(* Model-checking instance of Pipeline: the programs a Debian live system  *)
(* with the installer's dependencies has on its PATH.                      *)
(***************************************************************************)
EXTENDS Pipeline

MCHostPrograms ==
    {"apt", "cfdisk", "sfdisk", "mkfs.btrfs", "mkfs.ext4", "zpool", "mount",
     "umount", "debootstrap", "chroot", "chmod", "reboot"}

MCAllEditions == AllEditions
MCAllFilesystems == AllFilesystems
=============================================================================
