--------------------------- MODULE PipelineProofs ---------------------------
(***************************************************************************)
(* Proofs about the installation pipeline.                                 *)
(***************************************************************************)
EXTENDS Pipeline, SequenceTheorems, TLAPS

(***************************************************************************)
(* Well-formed operations: a destructive command names a disk the user     *)
(* could choose or the hardcoded one, and a download names one of the      *)
(* release files.                                                          *)
(***************************************************************************)
DevSet == Disks \cup {CodeDisk, NoDev}
Kinds == ExecKinds \cup FsKinds \cup {"fetch"}
Args == Files \cup MountPoints \cup InstallerFiles \cup
        {"sources", "hostname", "apt", "cfdisk", "sfdisk", "mkfs.btrfs",
         "mkfs.ext4", "zpool create", "mnt", "trixie", "forky", "sid",
         "apt-update", "apt-base", "useradd", "chpasswd", "sudoers",
         "official", "apt-desktop-sddm", "apt-gnome", "apt-xfce", "apt-tools",
         "blue-home", "chmod", "apt-sddm", "hydra", "hammer-lib",
         "hammer-setup", "grub-install", "update-grub", "reboot"}
Ops == {o \in [kind : Kinds, arg : Args, dev : DevSet, mnt : BOOLEAN] :
          o.kind = "fetch" => o.arg \in Files}

LEMMA OpType ==
  ASSUME NEW k \in Kinds, NEW a \in Args, k = "fetch" => a \in Files
  PROVE  /\ Op(k, a) \in Ops
         /\ MntOp(k, a) \in Ops
  BY DEF Op, MntOp, Ops, DevSet, NoDev

LEMMA DevOpType ==
  ASSUME NEW k \in Kinds, NEW a \in Args, NEW d \in DevSet, k # "fetch"
  PROVE  DevOp(k, a, d) \in Ops
  BY DEF DevOp, Ops

\* A function on 1..m into S is a sequence over S.
LEMMA FunIsSeq ==
  ASSUME NEW S, NEW m \in Nat, NEW f \in [1..m -> S]
  PROVE  f \in Seq(S)
  BY SeqDef

\* The body of a bounded for-loop, two calls per element, is a sequence of
\* well-formed operations.
LEMMA PairsType ==
  ASSUME NEW names \in Seq(Files)
  PROVE  Downloads(names) \in Seq(Ops)
  <1> DEFINE n == Len(names)
  <1>0. n \in Nat
    BY LenProperties
  <1>1. ASSUME NEW i \in 1..2 * n
        PROVE  MntOp("fetch", names[(i + 1) \div 2]) \in Ops
    <2>1. (i + 1) \div 2 \in 1..n
      BY <1>0
    <2>2. names[(i + 1) \div 2] \in Files
      BY <2>1, ElementOfSeq
    <2>3. QED
      BY <2>2, OpType DEF Kinds, Args
  <1>2. Op("run", "chmod") \in Ops
    BY OpType DEF Kinds, Args, ExecKinds
  <1>3. Downloads(names) \in [1..2 * n -> Ops]
    BY <1>1, <1>2 DEF Downloads
  <1>4. QED
    BY <1>0, <1>3, FunIsSeq

\* Concatenation and short literals stay sequences of operations.
LEMMA ConcatOps ==
  ASSUME NEW s \in Seq(Ops), NEW t \in Seq(Ops)
  PROVE  s \o t \in Seq(Ops)
  BY ConcatProperties

LEMMA Tuple1 ==
  ASSUME NEW a \in Ops
  PROVE  <<a>> \in Seq(Ops)
  BY FunIsSeq

LEMMA Tuple2 ==
  ASSUME NEW a \in Ops, NEW b \in Ops
  PROVE  <<a, b>> \in Seq(Ops)
  BY FunIsSeq

\* download_file's calls for one file.
LEMMA DownloadType ==
  ASSUME NEW f \in Files
  PROVE  Download(f) \in Seq(Ops)
  <1>1. MntOp("fetch", f) \in Ops /\ Op("run", "chmod") \in Ops
    BY OpType DEF Kinds, Args, ExecKinds
  <1>2. << >> \in Seq(Ops)
    BY EmptySeq
  <1>3. (IF f \in DesktopEntries THEN << >> ELSE <<Op("run", "chmod")>>) \in Seq(Ops)
    BY <1>1, <1>2, Tuple1
  <1>4. QED
    BY <1>1, <1>3, Tuple1, ConcatOps DEF Download

LEMMA BindDirsArgs == \A j \in 1..4 : BindDirs[j] \in Args
  <1>1. ASSUME NEW j \in 1..4 PROVE BindDirs[j] \in MountPoints
    <2>1. j = 1 \/ j = 2 \/ j = 3 \/ j = 4
      OBVIOUS
    <2>2. QED
      BY <2>1 DEF BindDirs, MountPoints
  <1>2. MountPoints \subseteq Args
    BY DEF Args
  <1>3. QED
    BY <1>1, <1>2

LEMMA BindMountsType == BindMounts \in Seq(Ops)
  <1>1. ASSUME NEW i \in 1..8
        PROVE  IF i % 2 = 1 THEN MntOp("mkdir", BindDirs[(i + 1) \div 2]) \in Ops
                            ELSE Op("mount", BindDirs[i \div 2]) \in Ops
    <2>1. CASE i % 2 = 1
      <3>0. (i + 1) \div 2 \in 1..4
        OBVIOUS
      <3>1. BindDirs[(i + 1) \div 2] \in Args
        BY <3>0, BindDirsArgs
      <3>2. QED
        BY <2>1, <3>1, OpType DEF Kinds, FsKinds
    <2>2. CASE i % 2 # 1
      <3>0. i \div 2 \in 1..4
        BY <2>2
      <3>1. BindDirs[i \div 2] \in Args
        BY <3>0, BindDirsArgs
      <3>2. QED
        BY <2>2, <3>1, OpType DEF Kinds, ExecKinds
    <2>3. QED
      BY <2>1, <2>2
  <1>2. BindMounts \in [1..8 -> Ops]
    BY <1>1 DEF BindMounts, BindDirs
  <1>3. QED
    BY <1>2, FunIsSeq

LEMMA UnmountAllType == UnmountAll \in Seq(Ops)
  <1>1. ASSUME NEW i \in 1..4 PROVE Op("umount", BindDirs[i]) \in Ops
    BY BindDirsArgs, OpType DEF Kinds, ExecKinds
  <1>2. [i \in 1..Len(BindDirs) |-> Op("umount", BindDirs[i])] \in [1..4 -> Ops]
    BY <1>1 DEF BindDirs
  <1>3. Op("umount", "boot") \in Ops /\ Op("umount", "root") \in Ops
    BY OpType DEF Kinds, ExecKinds, Args, MountPoints
  <1>4. QED
    BY <1>2, <1>3, FunIsSeq, Tuple2, ConcatOps DEF UnmountAll

\* The component lists of the Blue and Atomic editions name release files.
LEMMA ComponentsType ==
  BlueComponents \in Seq(Files) /\ HammerComponents \in Seq(Files)
  <1>1. BlueComponents \in [1..6 -> Files]
    BY DEF BlueComponents, Files
  <1>2. HammerComponents \in [1..4 -> Files]
    BY DEF HammerComponents, Files
  <1>3. QED
    BY <1>1, <1>2, FunIsSeq

\* Every edition's install_edition arm is a sequence of operations.
LEMMA EditionProgType ==
  ASSUME NEW e \in AllEditions
  PROVE  EditionProg(e) \in Seq(Ops)
  <1> DEFINE M(a) == MntOp("chroot", a)
  <1>1. /\ MntOp("copy", "official") \in Ops
        /\ M("apt-desktop-sddm") \in Ops /\ M("apt-gnome") \in Ops
        /\ M("apt-xfce") \in Ops /\ M("apt-tools") \in Ops
        /\ M("apt-sddm") \in Ops /\ M("hammer-setup") \in Ops
        /\ MntOp("mkdir", "blue-home") \in Ops /\ MntOp("mkdir", "hammer-lib") \in Ops
        /\ Op("clone", "hydra") \in Ops /\ MntOp("copy", "hydra") \in Ops
    BY OpType DEF Kinds, ExecKinds, FsKinds, Args
  <1>2. /\ Download("Blue-Environment") \in Seq(Ops)
        /\ Download("Blue-Environment.desktop") \in Seq(Ops)
        /\ Download("hammer") \in Seq(Ops)
    BY DownloadType DEF Files
  <1>3. Downloads(BlueComponents) \in Seq(Ops) /\ Downloads(HammerComponents) \in Seq(Ops)
    BY ComponentsType, PairsType
  <1>4. CASE e = "Blue"
    <2>1. <<MntOp("mkdir", "blue-home")>> \o Downloads(BlueComponents)
            \o Download("Blue-Environment") \o Download("Blue-Environment.desktop")
            \o <<M("apt-sddm")>> \in Seq(Ops)
      BY <1>1, <1>2, <1>3, Tuple1, ConcatOps
    <2>2. QED
      BY <1>1, <1>4, <2>1, Tuple1, ConcatOps DEF EditionProg
  <1>5. CASE e = "Atomic"
    <2>1. Download("hammer") \o <<MntOp("mkdir", "hammer-lib")>>
            \o Downloads(HammerComponents)
            \o <<M("apt-desktop-sddm"), M("hammer-setup")>> \in Seq(Ops)
      BY <1>1, <1>2, <1>3, Tuple1, Tuple2, ConcatOps
    <2>2. QED
      BY <1>1, <1>5, <2>1, Tuple1, ConcatOps DEF EditionProg
  <1>6. CASE e \notin {"Blue", "Atomic"}
    <2>1. e \in {"Official", "Wayfire", "Gnome", "Xfce", "Cybersecurity", "Hydra"}
      BY <1>6 DEF AllEditions
    <2>2. QED
      BY <1>1, <2>1, Tuple1, Tuple2, ConcatOps DEF EditionProg
  <1>7. QED
    BY <1>4, <1>5, <1>6

\* perform_installation's whole call sequence, for every configuration.
LEMMA ProgType ==
  ASSUME NEW c \in Configs
  PROVE  Prog(c) \in Seq(Ops)
  <1>1. /\ c.edition \in AllEditions /\ c.disk \in DevSet
        /\ Codename(c.branch) \in Args /\ FsTool(c.fs) \in Args
        /\ (IF c.manual THEN "cfdisk" ELSE "sfdisk") \in Args
    BY ConfigAssumption DEF Configs, AllEditions, AllBranches, AllFilesystems,
                            DevSet, Codename, FsTool, Args
  <1>2. /\ DevOp("run", IF c.manual THEN "cfdisk" ELSE "sfdisk", c.disk) \in Ops
        /\ DevOp("run", FsTool(c.fs), CodeDisk) \in Ops
        /\ DevOp("chroot", "grub-install", CodeDisk) \in Ops
    BY <1>1, DevOpType DEF Kinds, ExecKinds, Args, DevSet
  <1>3. /\ MntOp("bootstrap", Codename(c.branch)) \in Ops
        /\ Op("write", "sources") \in Ops /\ Op("run", "apt") \in Ops
        /\ Op("mkdir", "mnt") \in Ops /\ Op("mount", "root") \in Ops
        /\ MntOp("mkdir", "boot") \in Ops /\ Op("mount", "boot") \in Ops
        /\ MntOp("chroot", "apt-update") \in Ops /\ MntOp("chroot", "apt-base") \in Ops
        /\ MntOp("chroot", "useradd") \in Ops /\ MntOp("chroot", "chpasswd") \in Ops
        /\ MntOp("chroot", "sudoers") \in Ops /\ MntOp("write", "hostname") \in Ops
        /\ MntOp("chroot", "update-grub") \in Ops
        /\ Op("remove", "assets") \in Ops /\ Op("remove", "binary") \in Ops
        /\ Op("remove", "profile") \in Ops /\ Op("reboot", "reboot") \in Ops
    BY <1>1, OpType DEF Kinds, ExecKinds, FsKinds, Args, InstallerFiles, MountPoints
  <1> DEFINE
        Prelude == << Op("write", "sources"), Op("run", "apt"),
                   DevOp("run", IF c.manual THEN "cfdisk" ELSE "sfdisk", c.disk),
                   DevOp("run", FsTool(c.fs), CodeDisk),
                   Op("mkdir", "mnt"), Op("mount", "root"),
                   MntOp("mkdir", "boot"), Op("mount", "boot"),
                   MntOp("bootstrap", Codename(c.branch)) >>
        Base == << MntOp("chroot", "apt-update"), MntOp("chroot", "apt-base"),
                   MntOp("chroot", "useradd"), MntOp("chroot", "chpasswd"),
                   MntOp("chroot", "sudoers"), MntOp("write", "hostname") >>
        Grub == << DevOp("chroot", "grub-install", CodeDisk),
                   MntOp("chroot", "update-grub") >>
        Epilogue == << Op("remove", "assets"), Op("remove", "binary"),
                   Op("remove", "profile"), Op("reboot", "reboot") >>
  <1>4. Prelude \in Seq(Ops)
    BY <1>2, <1>3, FunIsSeq
  <1>5. Base \in Seq(Ops)
    BY <1>3, FunIsSeq
  <1>6. Grub \in Seq(Ops) /\ Epilogue \in Seq(Ops)
    BY <1>2, <1>3, FunIsSeq
  <1>7. EditionProg(c.edition) \in Seq(Ops)
    BY <1>1, EditionProgType
  <1>8. Prog(c) = Prelude \o BindMounts \o Base \o EditionProg(c.edition) \o Grub
                  \o UnmountAll \o Epilogue
    BY DEF Prog
  <1>9. QED
    BY <1>4, <1>5, <1>6, <1>7, <1>8, BindMountsType, UnmountAllType, ConcatOps
-----------------------------------------------------------------------------
(***************************************************************************)
(* The inductive invariant.  TypeOK alone is not inductive: a step that    *)
(* advances pc past the last call must not happen, so while the pipeline   *)
(* runs pc still points at a call.  The Boolean flags are kept apart so   *)
(* that Zenon handles them and SMT the rest.                               *)
(***************************************************************************)
Data ==
    /\ cfg \in Configs
    /\ pc \in 1..Len(Prog(cfg)) + 1
    /\ status \in {"running", "failed", "done"}
    /\ mountedAt \in [MountPoints -> Seq(Nat)]
    /\ sources \in {"host", "trixie", "forky", "sid"}
    /\ baseOn \in {"none", "target", "host"}
    /\ targets \subseteq Disks \cup {CodeDisk}
    /\ badFetch \subseteq Files
    /\ installer \subseteq InstallerFiles
    /\ lastExit \in {"none", "ok", "nonzero"}
    /\ Running => pc <= Len(Prog(cfg))

Flags == rebooted \in BOOLEAN /\ cloned \in BOOLEAN

IInv == Flags /\ Data

LEMMA IInvTypeOK == IInv => TypeOK
  BY Zenon DEF IInv, Flags, Data, TypeOK

LEMMA InitIInv == Init => IInv
  <1> SUFFICES ASSUME Init PROVE IInv
    OBVIOUS
  <1>1. Flags
    BY Zenon DEF Init, Flags
  <1>2. Len(Prog(cfg)) \in Nat /\ Len(Prog(cfg)) >= 1
    <2>1. Prog(cfg) \in Seq(Ops)
      BY ProgType DEF Init
    <2>2. Prog(cfg) # << >>
      BY DEF Prog
    <2>3. QED
      BY <2>1, <2>2, LenProperties, EmptySeq
  <1>3. Data
    BY <1>2, EmptySeq DEF Init, Data, Running, InstallerFiles, MountPoints
  <1>4. QED
    BY <1>1, <1>3 DEF IInv

\* The call pc points at while the pipeline runs is a well-formed operation.
LEMMA CurOp ==
  ASSUME Data, Running
  PROVE  Cur \in Ops /\ Len(Prog(cfg)) \in Nat /\ pc \in 1..Len(Prog(cfg))
  <1>1. Prog(cfg) \in Seq(Ops)
    BY ProgType DEF Data
  <1>2. Len(Prog(cfg)) \in Nat
    BY <1>1, LenProperties
  <1>3. pc \in 1..Len(Prog(cfg))
    BY <1>2 DEF Data
  <1>4. QED
    BY <1>1, <1>2, <1>3, ElementOfSeq DEF Cur

\* What every call that returns leaves of pc and status: Advance keeps the
\* invariant's bookkeeping.
LEMMA AdvanceOK ==
  ASSUME Data, Running, Advance, UNCHANGED cfg
  PROVE  /\ pc' \in 1..Len(Prog(cfg')) + 1
         /\ status' \in {"running", "failed", "done"}
         /\ status' = "running" => pc' <= Len(Prog(cfg'))
  BY CurOp DEF Advance, Running

\* The fields every launched command sets: its exit status and the disk a
\* destructive command was aimed at.
LEMMA LaunchOK ==
  ASSUME Data, NEW k, NEW x \in {"ok", "nonzero"}, Launch(k, x)
  PROVE  /\ lastExit' \in {"none", "ok", "nonzero"}
         /\ targets' \subseteq Disks \cup {CodeDisk}
         /\ Running /\ Advance /\ Cur \in Ops
  <1>1. Running /\ Advance /\ lastExit' = x
        /\ targets' = IF Cur.dev = NoDev THEN targets ELSE targets \cup {Cur.dev}
    BY Zenon DEF Launch
  <1>2. Cur \in Ops
    BY <1>1, CurOp
  <1>3. Cur.dev = NoDev \/ Cur.dev \in Disks \cup {CodeDisk}
    BY <1>2 DEF Ops, DevSet
  <1>4. QED
    BY <1>1, <1>2, <1>3 DEF Data

\* The reboot flag and the clone flag stay Boolean.
LEMMA NextFlag == Flags /\ [Next]_vars => Flags'
  BY Zenon DEF Next, RunCommand, Mount, Unmount, Bootstrap, Chroot, Reboot, Fetch,
               WriteFile, FsCall, RemoveFile, Fail, Terminated, vars, Flags

LEMMA NextData == Data /\ [Next]_vars => Data'
  <1> SUFFICES ASSUME Data, [Next]_vars PROVE Data'
    OBVIOUS
  <1>1. ASSUME NEW x \in {"ok", "nonzero"}, RunCommand(x) PROVE Data'
    <2>1. UNCHANGED <<cfg, mountedAt, sources, baseOn, badFetch, installer>>
      BY <1>1, Zenon DEF RunCommand
    <2>2. QED
      BY <1>1, <2>1, LaunchOK, AdvanceOK DEF RunCommand, Data, Running
  <1>2. ASSUME NEW x \in {"ok", "nonzero"}, Mount(x) PROVE Data'
    <2>1. UNCHANGED <<cfg, sources, baseOn, badFetch, installer>>
      BY <1>2, Zenon DEF Mount
    <2>2. mountedAt' \in [MountPoints -> Seq(Nat)]
      <3>1. mountedAt' = IF x = "ok" THEN [mountedAt EXCEPT ![Cur.arg] = <<pc>> \o @]
                                      ELSE mountedAt
        BY <1>2, Zenon DEF Mount
      <3>2. pc \in Nat /\ mountedAt \in [MountPoints -> Seq(Nat)]
        BY DEF Data
      <3>3. <<pc>> \in Seq(Nat)
        BY <3>2, FunIsSeq
      <3>4. \A m \in MountPoints : <<pc>> \o mountedAt[m] \in Seq(Nat)
        BY <3>2, <3>3, ConcatProperties
      <3>5. QED
        BY <3>1, <3>2, <3>4
    <2>3. QED
      BY <1>2, <2>1, <2>2, LaunchOK, AdvanceOK DEF Mount, Data, Running
  <1>3. ASSUME NEW x \in {"ok", "nonzero"}, Unmount(x) PROVE Data'
    <2>1. UNCHANGED <<cfg, sources, baseOn, badFetch, installer>>
      BY <1>3, Zenon DEF Unmount
    <2>2. mountedAt' \in [MountPoints -> Seq(Nat)]
      <3>1. mountedAt' = IF x = "ok" THEN [mountedAt EXCEPT ![Cur.arg] = Tail(@)]
                                      ELSE mountedAt
        BY <1>3, Zenon DEF Unmount
      <3>2. x = "ok" => mountedAt[Cur.arg] # << >>
        BY <1>3 DEF Unmount, Launch, ExitOutcomes, Mounted
      <3>3. x = "ok" /\ Cur.arg \in MountPoints => Tail(mountedAt[Cur.arg]) \in Seq(Nat)
        BY <3>2, HeadTailProperties DEF Data
      <3>4. QED
        BY <3>1, <3>3 DEF Data
    <2>3. QED
      BY <1>3, <2>1, <2>2, LaunchOK, AdvanceOK DEF Unmount, Data, Running
  <1>4. ASSUME NEW x \in {"ok", "nonzero"}, Bootstrap(x) PROVE Data'
    <2>1. UNCHANGED <<cfg, mountedAt, sources, badFetch, installer>>
      BY <1>4, Zenon DEF Bootstrap
    <2>2. baseOn' \in {"none", "target", "host"}
      BY <1>4 DEF Bootstrap, Data
    <2>3. QED
      BY <1>4, <2>1, <2>2, LaunchOK, AdvanceOK DEF Bootstrap, Data, Running
  <1>5. ASSUME NEW x \in {"ok", "nonzero"}, Chroot(x) PROVE Data'
    <2>1. UNCHANGED <<cfg, mountedAt, sources, baseOn, badFetch, installer>>
      BY <1>5, Zenon DEF Chroot
    <2>2. QED
      BY <1>5, <2>1, LaunchOK, AdvanceOK DEF Chroot, Data, Running
  <1>6. ASSUME NEW x \in {"ok", "nonzero"}, Reboot(x) PROVE Data'
    <2>1. UNCHANGED <<cfg, mountedAt, sources, baseOn, badFetch, installer>>
      BY <1>6, Zenon DEF Reboot
    <2>2. QED
      BY <1>6, <2>1, LaunchOK, AdvanceOK DEF Reboot, Data, Running
  <1>7. ASSUME NEW h \in {"ok", "error"}, Fetch(h) PROVE Data'
    <2>1. /\ Running /\ Cur.kind = "fetch" /\ Advance
          /\ badFetch' = IF h = "ok" THEN badFetch \ {Cur.arg} ELSE badFetch \cup {Cur.arg}
          /\ UNCHANGED <<cfg, mountedAt, sources, baseOn, targets, installer, lastExit>>
      BY <1>7, Zenon DEF Fetch
    <2>2. Cur.arg \in Files
      BY <2>1, CurOp DEF Ops
    <2>3. QED
      BY <2>1, <2>2, AdvanceOK DEF Data, Running
  <1>8. CASE WriteFile
    <2>1. /\ Running /\ Advance
          /\ sources' = IF Cur.arg = "sources" THEN Codename(cfg.branch) ELSE sources
          /\ UNCHANGED <<cfg, mountedAt, baseOn, targets, badFetch, installer, lastExit>>
      BY <1>8, Zenon DEF WriteFile
    <2>2. Codename(cfg.branch) \in {"trixie", "forky", "sid"}
      BY ConfigAssumption DEF Data, Configs, AllBranches, Codename
    <2>3. QED
      BY <2>1, <2>2, AdvanceOK DEF Data, Running
  <1>9. CASE FsCall
    <2>1. /\ Running /\ Advance
          /\ UNCHANGED <<cfg, mountedAt, sources, baseOn, targets, badFetch,
                         installer, lastExit>>
      BY <1>9, Zenon DEF FsCall
    <2>2. QED
      BY <2>1, AdvanceOK DEF Data, Running
  <1>10. CASE RemoveFile
    <2>1. /\ Running /\ Advance /\ installer' = installer \ {Cur.arg}
          /\ UNCHANGED <<cfg, mountedAt, sources, baseOn, targets, badFetch, lastExit>>
      BY <1>10, Zenon DEF RemoveFile
    <2>2. QED
      BY <2>1, AdvanceOK DEF Data, Running
  <1>11. CASE Fail
    <2>1. /\ status' = "failed"
          /\ UNCHANGED <<cfg, pc, mountedAt, sources, baseOn, targets, badFetch,
                         installer, lastExit>>
      BY <1>11, Zenon DEF Fail
    <2>2. QED
      BY <2>1 DEF Data, Running
  <1>12. CASE Terminated \/ UNCHANGED vars
    <2>1. UNCHANGED <<cfg, pc, status, mountedAt, sources, baseOn, targets, badFetch,
                      installer, lastExit>>
      BY <1>12, Zenon DEF Terminated, vars
    <2>2. QED
      BY <2>1 DEF Data, Running
  <1>13. QED
    BY <1>1, <1>2, <1>3, <1>4, <1>5, <1>6, <1>7, <1>8, <1>9, <1>10, <1>11, <1>12
       DEF Next

\* The pipeline's state always has its type, for every set of editions,
\* branches, filesystems and disks: in particular pc never runs past the
\* last call of perform_installation, whatever the configuration.
THEOREM TypeCorrect == Spec => []TypeOK
  <1>1. IInv /\ [Next]_vars => IInv'
    BY NextFlag, NextData DEF IInv
  <1>2. QED
    BY InitIInv, <1>1, IInvTypeOK, PTL DEF Spec
=============================================================================
