------------------------ MODULE PipelineMountProofs ------------------------
(***************************************************************************)
(* Proof that perform_installation never reboots with anything mounted    *)
(* below /mnt, for every configuration, when every command it launches    *)
(* exits 0.  (With non-zero exits it does: an ignored failing umount      *)
(* leaves its mount behind, and a failed mount is written through; TLC    *)
(* finds both properties violated with the constants of MCPipelineExit.)  *)
(*                                                                         *)
(* The argument is about positions in Prog(c): the six mounts sit at fixed *)
(* positions in its first part, the six umounts and the reboot at fixed    *)
(* distances from its end, and no edition's calls mount, unmount or        *)
(* reboot.  So while the pipeline runs, which mount points are mounted is  *)
(* a function of pc alone (MountsByPc), the reboot is the last call       *)
(* (RebootAtEnd), and the bootstrap is the ninth call (BaseInv), which     *)
(* also gives that every call run under /mnt runs once the base system is  *)
(* there and with /mnt mounted (TargetRootDiscipline).                     *)
(***************************************************************************)
EXTENDS PipelineProofs

\* Position in Prog(c) of the mount of each mount point.
MountAt == [root |-> 6, boot |-> 8, dev |-> 11, proc |-> 13, sys |-> 15, run |-> 17]

\* Distance from the end of Prog(c) of the umount of each mount point.
UmountGap == [dev |-> 9, proc |-> 8, sys |-> 7, run |-> 6, boot |-> 5, root |-> 4]

UmountPos(c, m) == Len(Prog(c)) - UmountGap[m]

(***************************************************************************)
(* Prog(c) written as a concatenation of literal segments.                *)
(***************************************************************************)
PreOps(c) ==
    << Op("write", "sources"), Op("run", "apt"),
       DevOp("run", IF c.manual THEN "cfdisk" ELSE "sfdisk", c.disk),
       DevOp("run", FsTool(c.fs), CodeDisk),
       Op("mkdir", "mnt"), Op("mount", "root"),
       MntOp("mkdir", "boot"), Op("mount", "boot"),
       MntOp("bootstrap", Codename(c.branch)) >>
BindOps ==
    << MntOp("mkdir", "dev"), Op("mount", "dev"), MntOp("mkdir", "proc"),
       Op("mount", "proc"), MntOp("mkdir", "sys"), Op("mount", "sys"),
       MntOp("mkdir", "run"), Op("mount", "run") >>
BaseOps ==
    << MntOp("chroot", "apt-update"), MntOp("chroot", "apt-base"),
       MntOp("chroot", "useradd"), MntOp("chroot", "chpasswd"),
       MntOp("chroot", "sudoers"), MntOp("write", "hostname") >>
GrubOps ==
    << DevOp("chroot", "grub-install", CodeDisk), MntOp("chroot", "update-grub") >>
UmountOps ==
    << Op("umount", "dev"), Op("umount", "proc"), Op("umount", "sys"),
       Op("umount", "run"), Op("umount", "boot"), Op("umount", "root") >>
EndOps ==
    << Op("remove", "assets"), Op("remove", "binary"), Op("remove", "profile"),
       Op("reboot", "reboot") >>

\* The loop of four bind mounts, unrolled.
LEMMA BindMountsIs == BindMounts = BindOps
  BY DEF BindMounts, BindOps, BindDirs

\* The cleanup loop and the two last umounts, unrolled.
LEMMA UnmountAllIs == UnmountAll = UmountOps
  <1>1. [i \in 1..Len(BindDirs) |-> Op("umount", BindDirs[i])]
          = << Op("umount", "dev"), Op("umount", "proc"), Op("umount", "sys"),
               Op("umount", "run") >>
    BY DEF BindDirs
  <1> DEFINE U(m) == Op("umount", m)
             Binds == << U("dev"), U("proc"), U("sys"), U("run") >>
             Last == << U("boot"), U("root") >>
  <1>2. \A m \in MountPoints : U(m) \in Ops
    BY OpType DEF Kinds, ExecKinds, Args
  <1>3. Binds \in Seq(Ops) /\ Last \in Seq(Ops) /\ UmountOps \in Seq(Ops)
    BY <1>2, FunIsSeq DEF MountPoints, UmountOps
  <1>4. /\ Len(Binds \o Last) = 6
        /\ \A i \in 1..6 : (Binds \o Last)[i] = IF i <= 4 THEN Binds[i] ELSE Last[i - 4]
    BY <1>3, ConcatProperties
  <1>5. Binds \o Last = UmountOps
    <2>1. Binds \o Last \in Seq(Ops)
      BY <1>3, ConcatProperties
    <2>2. ASSUME NEW i \in 1..6 PROVE (Binds \o Last)[i] = UmountOps[i]
      <3>1. i = 1 \/ i = 2 \/ i = 3 \/ i = 4 \/ i = 5 \/ i = 6
        OBVIOUS
      <3>2. QED
        BY <1>4, <3>1 DEF UmountOps
    <2>3. Len(UmountOps) = 6
      BY DEF UmountOps
    <2>4. QED
      BY <1>3, <1>4, <2>1, <2>2, <2>3, SeqEqual
  <1>6. QED
    BY <1>1, <1>5 DEF UnmountAll

(***************************************************************************)
(* No call of install_edition mounts, unmounts, bootstraps or reboots.    *)
(***************************************************************************)
QOps == {o \in Ops : o.kind \notin {"mount", "umount", "bootstrap", "reboot"}}

LEMMA QuietOp ==
  ASSUME NEW k \in Kinds \ {"mount", "umount", "bootstrap", "reboot"}, NEW a \in Args,
         k = "fetch" => a \in Files
  PROVE  Op(k, a) \in QOps /\ MntOp(k, a) \in QOps
  BY OpType DEF QOps, Op, MntOp

LEMMA QuietConcat ==
  ASSUME NEW s \in Seq(QOps), NEW t \in Seq(QOps)
  PROVE  s \o t \in Seq(QOps)
  BY ConcatProperties

LEMMA QuietDownloads ==
  ASSUME NEW names \in Seq(Files)
  PROVE  Downloads(names) \in Seq(QOps)
  <1> DEFINE n == Len(names)
  <1>0. n \in Nat
    BY LenProperties
  <1>1. ASSUME NEW i \in 1..2 * n
        PROVE  MntOp("fetch", names[(i + 1) \div 2]) \in QOps
    <2>1. names[(i + 1) \div 2] \in Files
      BY <1>0, ElementOfSeq
    <2>2. QED
      BY <2>1, QuietOp DEF Kinds, Args
  <1>2. Op("run", "chmod") \in QOps
    BY QuietOp DEF Kinds, Args, ExecKinds
  <1>3. QED
    BY <1>0, <1>1, <1>2, FunIsSeq DEF Downloads

LEMMA QuietDownload ==
  ASSUME NEW f \in Files
  PROVE  Download(f) \in Seq(QOps)
  <1>1. MntOp("fetch", f) \in QOps /\ Op("run", "chmod") \in QOps
    BY QuietOp DEF Kinds, Args, ExecKinds
  <1>2. << >> \in Seq(QOps) /\ <<MntOp("fetch", f)>> \in Seq(QOps)
        /\ <<Op("run", "chmod")>> \in Seq(QOps)
    BY <1>1, EmptySeq, FunIsSeq
  <1>3. QED
    BY <1>2, QuietConcat DEF Download

\* Every edition's arm of install_edition.
LEMMA EditionQuiet ==
  ASSUME NEW e \in AllEditions
  PROVE  EditionProg(e) \in Seq(QOps)
  <1> DEFINE M(a) == MntOp("chroot", a)
             One(o) == <<o>>
  <1>1. /\ MntOp("copy", "official") \in QOps
        /\ M("apt-desktop-sddm") \in QOps /\ M("apt-gnome") \in QOps
        /\ M("apt-xfce") \in QOps /\ M("apt-tools") \in QOps
        /\ M("apt-sddm") \in QOps /\ M("hammer-setup") \in QOps
        /\ MntOp("mkdir", "blue-home") \in QOps /\ MntOp("mkdir", "hammer-lib") \in QOps
        /\ Op("clone", "hydra") \in QOps /\ MntOp("copy", "hydra") \in QOps
    BY QuietOp DEF Kinds, ExecKinds, FsKinds, Args
  <1>2. \A o \in QOps : One(o) \in Seq(QOps)
    BY FunIsSeq
  <1>3. \A a, b \in QOps : <<a, b>> \in Seq(QOps)
    BY FunIsSeq
  <1>4. /\ Download("Blue-Environment") \in Seq(QOps)
        /\ Download("Blue-Environment.desktop") \in Seq(QOps)
        /\ Download("hammer") \in Seq(QOps)
        /\ Downloads(BlueComponents) \in Seq(QOps)
        /\ Downloads(HammerComponents) \in Seq(QOps)
    BY ComponentsType, QuietDownload, QuietDownloads DEF Files
  <1>5. CASE e = "Blue"
    <2>1. <<MntOp("mkdir", "blue-home")>> \o Downloads(BlueComponents)
            \o Download("Blue-Environment") \o Download("Blue-Environment.desktop")
            \o <<M("apt-sddm")>> \in Seq(QOps)
      BY <1>1, <1>2, <1>4, QuietConcat
    <2>2. QED
      BY <1>1, <1>2, <1>5, <2>1, QuietConcat DEF EditionProg
  <1>6. CASE e = "Atomic"
    <2>1. Download("hammer") \o <<MntOp("mkdir", "hammer-lib")>>
            \o Downloads(HammerComponents)
            \o <<M("apt-desktop-sddm"), M("hammer-setup")>> \in Seq(QOps)
      BY <1>1, <1>2, <1>3, <1>4, QuietConcat
    <2>2. QED
      BY <1>1, <1>2, <1>6, <2>1, QuietConcat DEF EditionProg
  <1>7. CASE e \notin {"Blue", "Atomic"}
    <2>1. e \in {"Official", "Wayfire", "Gnome", "Xfce", "Cybersecurity", "Hydra"}
      BY <1>7 DEF AllEditions
    <2>2. QED
      BY <1>1, <1>2, <1>3, <2>1, QuietConcat DEF EditionProg
  <1>8. QED
    BY <1>5, <1>6, <1>7

(***************************************************************************)
(* The layout of Prog(c).                                                 *)
(***************************************************************************)
EdOf(c) == EditionProg(c.edition)

\* Every literal segment is a sequence of well-formed operations.
LEMMA SegmentsType ==
  ASSUME NEW c \in Configs
  PROVE  /\ PreOps(c) \in Seq(Ops) /\ BindOps \in Seq(Ops) /\ BaseOps \in Seq(Ops)
         /\ EdOf(c) \in Seq(Ops) /\ GrubOps \in Seq(Ops)
         /\ UmountOps \in Seq(Ops) /\ EndOps \in Seq(Ops)
  <1>1. /\ c.edition \in AllEditions /\ c.disk \in DevSet
        /\ Codename(c.branch) \in Args /\ FsTool(c.fs) \in Args
        /\ (IF c.manual THEN "cfdisk" ELSE "sfdisk") \in Args
    BY ConfigAssumption DEF Configs, AllEditions, AllBranches, AllFilesystems,
                            DevSet, Codename, FsTool, Args
  <1>2. /\ DevOp("run", IF c.manual THEN "cfdisk" ELSE "sfdisk", c.disk) \in Ops
        /\ DevOp("run", FsTool(c.fs), CodeDisk) \in Ops
        /\ DevOp("chroot", "grub-install", CodeDisk) \in Ops
    BY <1>1, DevOpType DEF Kinds, ExecKinds, Args, DevSet
  <1>3. /\ MntOp("bootstrap", Codename(c.branch)) \in Ops
        /\ \A a \in {"sources", "hostname"} : Op("write", a) \in Ops /\ MntOp("write", a) \in Ops
        /\ Op("run", "apt") \in Ops
        /\ \A a \in {"mnt", "boot", "dev", "proc", "sys", "run"} : MntOp("mkdir", a) \in Ops /\ Op("mkdir", a) \in Ops
        /\ \A m \in MountPoints : Op("mount", m) \in Ops /\ Op("umount", m) \in Ops
        /\ \A a \in {"apt-update", "apt-base", "useradd", "chpasswd", "sudoers",
                     "update-grub"} : MntOp("chroot", a) \in Ops
        /\ \A f \in InstallerFiles : Op("remove", f) \in Ops
        /\ Op("reboot", "reboot") \in Ops
    BY <1>1, OpType DEF Kinds, ExecKinds, FsKinds, Args, InstallerFiles, MountPoints
  <1>4. PreOps(c) \in Seq(Ops)
    BY <1>2, <1>3, FunIsSeq DEF PreOps, MountPoints
  <1>5. BindOps \in Seq(Ops) /\ BaseOps \in Seq(Ops)
    BY <1>3, FunIsSeq DEF BindOps, BaseOps, MountPoints
  <1>6. GrubOps \in Seq(Ops) /\ UmountOps \in Seq(Ops) /\ EndOps \in Seq(Ops)
    BY <1>2, <1>3, FunIsSeq DEF GrubOps, UmountOps, EndOps, MountPoints, InstallerFiles
  <1>7. EdOf(c) \in Seq(Ops)
    BY <1>1, EditionProgType DEF EdOf
  <1>8. QED
    BY <1>4, <1>5, <1>6, <1>7

\* Concatenation of two sequences of operations, position by position.
LEMMA ConcatAt ==
  ASSUME NEW s \in Seq(Ops), NEW t \in Seq(Ops)
  PROVE  /\ s \o t \in Seq(Ops)
         /\ Len(s \o t) = Len(s) + Len(t)
         /\ \A i \in 1..Len(s) + Len(t) :
              (s \o t)[i] = IF i <= Len(s) THEN s[i] ELSE t[i - Len(s)]
  BY ConcatProperties

\* The call at each position of Prog(c), segment by segment.
LEMMA ProgIndex ==
  ASSUME NEW c \in Configs
  PROVE  LET n == Len(EdOf(c)) IN
         /\ n \in Nat
         /\ Prog(c) \in Seq(Ops)
         /\ Len(Prog(c)) = 35 + n
         /\ \A i \in 1..35 + n :
              Prog(c)[i] = IF i <= 9 THEN PreOps(c)[i]
                           ELSE IF i <= 17 THEN BindOps[i - 9]
                           ELSE IF i <= 23 THEN BaseOps[i - 17]
                           ELSE IF i <= 23 + n THEN EdOf(c)[i - 23]
                           ELSE IF i <= 25 + n THEN GrubOps[i - 23 - n]
                           ELSE IF i <= 31 + n THEN UmountOps[i - 25 - n]
                           ELSE EndOps[i - 31 - n]
  <1> DEFINE n == Len(EdOf(c))
             A1 == PreOps(c) \o BindOps
             A2 == A1 \o BaseOps
             A3 == A2 \o EdOf(c)
             A4 == A3 \o GrubOps
             A5 == A4 \o UmountOps
             A6 == A5 \o EndOps
  <1>0. /\ PreOps(c) \in Seq(Ops) /\ BindOps \in Seq(Ops) /\ BaseOps \in Seq(Ops)
        /\ EdOf(c) \in Seq(Ops) /\ GrubOps \in Seq(Ops)
        /\ UmountOps \in Seq(Ops) /\ EndOps \in Seq(Ops)
    BY SegmentsType
  <1>1. Prog(c) = A6
    BY BindMountsIs, UnmountAllIs DEF Prog, PreOps, BaseOps, GrubOps, EndOps, EdOf,
                                      A1, A2, A3, A4, A5, A6
  <1>2. n \in Nat
    BY <1>0, LenProperties DEF n
  <1>3. Len(PreOps(c)) = 9 /\ Len(BindOps) = 8 /\ Len(BaseOps) = 6
        /\ Len(GrubOps) = 2 /\ Len(UmountOps) = 6 /\ Len(EndOps) = 4
    BY DEF PreOps, BindOps, BaseOps, GrubOps, UmountOps, EndOps
  <1>4. /\ A1 \in Seq(Ops) /\ Len(A1) = 17
        /\ \A i \in 1..17 : A1[i] = IF i <= 9 THEN PreOps(c)[i] ELSE BindOps[i - (9)]
    <2>1. PreOps(c) \in Seq(Ops) /\ BindOps \in Seq(Ops)
      BY <1>0
    <2>2. /\ A1 \in Seq(Ops) /\ Len(A1) = Len(PreOps(c)) + Len(BindOps)
          /\ \A i \in 1..Len(PreOps(c)) + Len(BindOps) :
               A1[i] = IF i <= Len(PreOps(c)) THEN PreOps(c)[i] ELSE BindOps[i - Len(PreOps(c))]
      BY <2>1, ConcatAt DEF A1
    <2>3. Len(PreOps(c)) = 9 /\ Len(BindOps) = 17 - (9)
      BY <1>2, <1>3
    <2>4. \A i \in 1..17 : A1[i] = IF i <= 9 THEN PreOps(c)[i] ELSE BindOps[i - (9)]
      <3> SUFFICES ASSUME NEW i \in 1..17
                   PROVE  A1[i] = IF i <= 9 THEN PreOps(c)[i] ELSE BindOps[i - (9)]
        OBVIOUS
      <3>1. i \in 1..Len(PreOps(c)) + Len(BindOps)
        BY <2>3
      <3>2. A1[i] = IF i <= Len(PreOps(c)) THEN PreOps(c)[i] ELSE BindOps[i - Len(PreOps(c))]
        BY <3>1, <2>2
      <3> QED
        BY <3>2, <2>3
    <2>5. Len(A1) = 17
      BY <2>2, <2>3
    <2>6. QED
      BY <2>2, <2>4, <2>5
  <1>5. /\ A2 \in Seq(Ops) /\ Len(A2) = 23
        /\ \A i \in 1..23 : A2[i] = IF i <= 17 THEN A1[i] ELSE BaseOps[i - (17)]
    <2>1. A1 \in Seq(Ops) /\ BaseOps \in Seq(Ops)
      BY <1>0, <1>4
    <2>2. /\ A2 \in Seq(Ops) /\ Len(A2) = Len(A1) + Len(BaseOps)
          /\ \A i \in 1..Len(A1) + Len(BaseOps) :
               A2[i] = IF i <= Len(A1) THEN A1[i] ELSE BaseOps[i - Len(A1)]
      BY <2>1, ConcatAt DEF A2
    <2>3. Len(A1) = 17 /\ Len(BaseOps) = 23 - (17)
      BY <1>2, <1>3, <1>0, <1>4
    <2>4. \A i \in 1..23 : A2[i] = IF i <= 17 THEN A1[i] ELSE BaseOps[i - (17)]
      <3> SUFFICES ASSUME NEW i \in 1..23
                   PROVE  A2[i] = IF i <= 17 THEN A1[i] ELSE BaseOps[i - (17)]
        OBVIOUS
      <3>1. i \in 1..Len(A1) + Len(BaseOps)
        BY <2>3
      <3>2. A2[i] = IF i <= Len(A1) THEN A1[i] ELSE BaseOps[i - Len(A1)]
        BY <3>1, <2>2
      <3> QED
        BY <3>2, <2>3
    <2>5. Len(A2) = 23
      BY <2>2, <2>3
    <2>6. QED
      BY <2>2, <2>4, <2>5
  <1>6. /\ A3 \in Seq(Ops) /\ Len(A3) = 23 + n
        /\ \A i \in 1..23 + n : A3[i] = IF i <= 23 THEN A2[i] ELSE EdOf(c)[i - (23)]
    <2>1. A2 \in Seq(Ops) /\ EdOf(c) \in Seq(Ops)
      BY <1>0, <1>5
    <2>2. /\ A3 \in Seq(Ops) /\ Len(A3) = Len(A2) + Len(EdOf(c))
          /\ \A i \in 1..Len(A2) + Len(EdOf(c)) :
               A3[i] = IF i <= Len(A2) THEN A2[i] ELSE EdOf(c)[i - Len(A2)]
      BY <2>1, ConcatAt DEF A3
    <2>3. Len(A2) = 23 /\ Len(EdOf(c)) = 23 + n - (23)
      BY <1>2, <1>3, <1>0, <1>5
    <2>4. QED
      BY <1>2, <2>2, <2>3
  <1>7. /\ A4 \in Seq(Ops) /\ Len(A4) = 25 + n
        /\ \A i \in 1..25 + n : A4[i] = IF i <= 23 + n THEN A3[i] ELSE GrubOps[i - (23 + n)]
    <2>1. A3 \in Seq(Ops) /\ GrubOps \in Seq(Ops)
      BY <1>0, <1>6
    <2>2. /\ A4 \in Seq(Ops) /\ Len(A4) = Len(A3) + Len(GrubOps)
          /\ \A i \in 1..Len(A3) + Len(GrubOps) :
               A4[i] = IF i <= Len(A3) THEN A3[i] ELSE GrubOps[i - Len(A3)]
      BY <2>1, ConcatAt DEF A4
    <2>3. Len(A3) = 23 + n /\ Len(GrubOps) = 25 + n - (23 + n)
      BY <1>2, <1>3, <1>0, <1>6
    <2>4. QED
      BY <1>2, <2>2, <2>3
  <1>8. /\ A5 \in Seq(Ops) /\ Len(A5) = 31 + n
        /\ \A i \in 1..31 + n : A5[i] = IF i <= 25 + n THEN A4[i] ELSE UmountOps[i - (25 + n)]
    <2>1. A4 \in Seq(Ops) /\ UmountOps \in Seq(Ops)
      BY <1>0, <1>7
    <2>2. /\ A5 \in Seq(Ops) /\ Len(A5) = Len(A4) + Len(UmountOps)
          /\ \A i \in 1..Len(A4) + Len(UmountOps) :
               A5[i] = IF i <= Len(A4) THEN A4[i] ELSE UmountOps[i - Len(A4)]
      BY <2>1, ConcatAt DEF A5
    <2>3. Len(A4) = 25 + n /\ Len(UmountOps) = 31 + n - (25 + n)
      BY <1>2, <1>3, <1>0, <1>7
    <2>4. QED
      BY <1>2, <2>2, <2>3
  <1>9. /\ A6 \in Seq(Ops) /\ Len(A6) = 35 + n
        /\ \A i \in 1..35 + n : A6[i] = IF i <= 31 + n THEN A5[i] ELSE EndOps[i - (31 + n)]
    <2>1. A5 \in Seq(Ops) /\ EndOps \in Seq(Ops)
      BY <1>0, <1>8
    <2>2. /\ A6 \in Seq(Ops) /\ Len(A6) = Len(A5) + Len(EndOps)
          /\ \A i \in 1..Len(A5) + Len(EndOps) :
               A6[i] = IF i <= Len(A5) THEN A5[i] ELSE EndOps[i - Len(A5)]
      BY <2>1, ConcatAt DEF A6
    <2>3. Len(A5) = 31 + n /\ Len(EndOps) = 35 + n - (31 + n)
      BY <1>2, <1>3, <1>0, <1>8
    <2>4. QED
      BY <1>2, <2>2, <2>3
  <1>10. \A i \in 1..35 + n :
              A6[i] = IF i <= 9 THEN PreOps(c)[i]
                      ELSE IF i <= 17 THEN BindOps[i - 9]
                      ELSE IF i <= 23 THEN BaseOps[i - 17]
                      ELSE IF i <= 23 + n THEN EdOf(c)[i - 23]
                      ELSE IF i <= 25 + n THEN GrubOps[i - 23 - n]
                      ELSE IF i <= 31 + n THEN UmountOps[i - 25 - n]
                      ELSE EndOps[i - 31 - n]
    <2> SUFFICES ASSUME NEW i \in 1..35 + n
                 PROVE  A6[i] = IF i <= 9 THEN PreOps(c)[i]
                                ELSE IF i <= 17 THEN BindOps[i - 9]
                                ELSE IF i <= 23 THEN BaseOps[i - 17]
                                ELSE IF i <= 23 + n THEN EdOf(c)[i - 23]
                                ELSE IF i <= 25 + n THEN GrubOps[i - 23 - n]
                                ELSE IF i <= 31 + n THEN UmountOps[i - 25 - n]
                                ELSE EndOps[i - 31 - n]
      OBVIOUS
    <2> DEFINE Rhs == IF i <= 9 THEN PreOps(c)[i]
                      ELSE IF i <= 17 THEN BindOps[i - 9]
                      ELSE IF i <= 23 THEN BaseOps[i - 17]
                      ELSE IF i <= 23 + n THEN EdOf(c)[i - 23]
                      ELSE IF i <= 25 + n THEN GrubOps[i - 23 - n]
                      ELSE IF i <= 31 + n THEN UmountOps[i - 25 - n]
                      ELSE EndOps[i - 31 - n]
    <2>1. i <= 31 + n => A6[i] = A5[i]
      <3> SUFFICES ASSUME i <= 31 + n PROVE A6[i] = A5[i]
        OBVIOUS
      <3>1. i \in 1..35 + n
        BY <1>2
      <3>2. A6[i] = IF i <= 31 + n THEN A5[i] ELSE EndOps[i - (31 + n)]
        BY <3>1, <1>9, Zenon
      <3> QED
        BY <3>2, Zenon
    <2>2. i <= 25 + n => A5[i] = A4[i]
      <3> SUFFICES ASSUME i <= 25 + n PROVE A5[i] = A4[i]
        OBVIOUS
      <3>1. i \in 1..31 + n
        BY <1>2
      <3>2. A5[i] = IF i <= 25 + n THEN A4[i] ELSE UmountOps[i - (25 + n)]
        BY <3>1, <1>8, Zenon
      <3> QED
        BY <3>2, Zenon
    <2>3. i <= 23 + n => A4[i] = A3[i]
      <3> SUFFICES ASSUME i <= 23 + n PROVE A4[i] = A3[i]
        OBVIOUS
      <3>1. i \in 1..25 + n
        BY <1>2
      <3>2. A4[i] = IF i <= 23 + n THEN A3[i] ELSE GrubOps[i - (23 + n)]
        BY <3>1, <1>7, Zenon
      <3> QED
        BY <3>2, Zenon
    <2>4. i <= 23 => A3[i] = A2[i]
      <3> SUFFICES ASSUME i <= 23 PROVE A3[i] = A2[i]
        OBVIOUS
      <3>1. i \in 1..23 + n
        BY <1>2
      <3>2. A3[i] = IF i <= 23 THEN A2[i] ELSE EdOf(c)[i - (23)]
        BY <3>1, <1>6, Zenon
      <3> QED
        BY <3>2, Zenon
    <2>5. i <= 17 => A2[i] = A1[i]
      <3> SUFFICES ASSUME i <= 17 PROVE A2[i] = A1[i]
        OBVIOUS
      <3>1. i \in 1..23
        BY <1>2
      <3>2. A2[i] = IF i <= 17 THEN A1[i] ELSE BaseOps[i - (17)]
        BY <3>1, <1>5, Zenon
      <3> QED
        BY <3>2, Zenon
    <2>6. CASE i > 31 + n
      <3>1. i \in 1..35 + n
        BY <2>6, <1>2
      <3>2. A6[i] = IF i <= 31 + n THEN A5[i] ELSE EndOps[i - (31 + n)]
        BY <3>1, <1>9, Zenon
      <3>3. i - (31 + n) = i - 31 - n
        BY <1>2
      <3>4. Rhs = EndOps[i - 31 - n]
        BY <2>6, <1>2 DEF Rhs
      <3>5. ~(i <= 31 + n)
        BY <2>6, <1>2
      <3> QED
        BY <2>6, <3>2, <3>3, <3>4, <3>5, Zenon DEF Rhs
    <2>7. CASE i <= 31 + n /\ i > 25 + n
      <3>1. i \in 1..31 + n
        BY <2>7, <1>2
      <3>2. A5[i] = IF i <= 25 + n THEN A4[i] ELSE UmountOps[i - (25 + n)]
        BY <3>1, <1>8, Zenon
      <3>3. i - (25 + n) = i - 25 - n
        BY <1>2
      <3>4. Rhs = UmountOps[i - 25 - n]
        BY <2>7, <1>2 DEF Rhs
      <3>5. ~(i <= 25 + n)
        BY <2>7, <1>2
      <3> QED
        BY <2>7, <3>2, <3>3, <3>4, <3>5, <2>1, Zenon DEF Rhs
    <2>8. CASE i <= 25 + n /\ i > 23 + n
      <3>1. i \in 1..25 + n
        BY <2>8, <1>2
      <3>2. A4[i] = IF i <= 23 + n THEN A3[i] ELSE GrubOps[i - (23 + n)]
        BY <3>1, <1>7, Zenon
      <3>3. i - (23 + n) = i - 23 - n
        BY <1>2
      <3>4. Rhs = GrubOps[i - 23 - n]
        BY <2>8, <1>2 DEF Rhs
      <3>5. ~(i <= 23 + n)
        BY <2>8, <1>2
      <3>6. i <= 31 + n /\ i <= 25 + n
        BY <2>8, <1>2
      <3> QED
        BY <2>8, <3>6, <3>2, <3>3, <3>4, <3>5, <2>1, <2>2, Zenon DEF Rhs
    <2>9. CASE i <= 23 + n /\ i > 23
      <3>1. i \in 1..23 + n
        BY <2>9, <1>2
      <3>2. A3[i] = IF i <= 23 THEN A2[i] ELSE EdOf(c)[i - (23)]
        BY <3>1, <1>6, Zenon
      <3>3. i - (23) = i - 23
        BY <1>2
      <3>4. Rhs = EdOf(c)[i - 23]
        BY <2>9, <1>2 DEF Rhs
      <3>5. ~(i <= 23)
        BY <2>9, <1>2
      <3>6. i <= 31 + n /\ i <= 25 + n /\ i <= 23 + n
        BY <2>9, <1>2
      <3> QED
        BY <2>9, <3>6, <3>2, <3>3, <3>4, <3>5, <2>1, <2>2, <2>3, Zenon DEF Rhs
    <2>10. CASE i <= 23 /\ i > 17
      <3>1. i \in 1..23
        BY <2>10, <1>2
      <3>2. A2[i] = IF i <= 17 THEN A1[i] ELSE BaseOps[i - (17)]
        BY <3>1, <1>5, Zenon
      <3>3. i - (17) = i - 17
        BY <1>2
      <3>4. Rhs = BaseOps[i - 17]
        BY <2>10, <1>2 DEF Rhs
      <3>5. ~(i <= 17)
        BY <2>10, <1>2
      <3>6. i <= 31 + n /\ i <= 25 + n /\ i <= 23 + n /\ i <= 23
        BY <2>10, <1>2
      <3> QED
        BY <2>10, <3>6, <3>2, <3>3, <3>4, <3>5, <2>1, <2>2, <2>3, <2>4, Zenon DEF Rhs
    <2>11. CASE i <= 17
      <3>1. i \in 1..17
        BY <2>11, <1>2
      <3>2. A1[i] = IF i <= 9 THEN PreOps(c)[i] ELSE BindOps[i - (9)]
        BY <3>1, <1>4, Zenon
      <3>3. i - (9) = i - 9
        BY <1>2
      <3>4. Rhs = IF i <= 9 THEN PreOps(c)[i] ELSE BindOps[i - 9]
        BY <2>11, <1>2 DEF Rhs
      <3>6. i <= 31 + n /\ i <= 25 + n /\ i <= 23 + n /\ i <= 23 /\ i <= 17
        BY <2>11, <1>2
      <3> QED
        BY <2>11, <3>6, <3>2, <3>3, <3>4, <2>1, <2>2, <2>3, <2>4, <2>5, Zenon DEF Rhs
    <2>12. \/ i > 31 + n \/ (i <= 31 + n /\ i > 25 + n)
           \/ (i <= 25 + n /\ i > 23 + n) \/ (i <= 23 + n /\ i > 23)
           \/ (i <= 23 /\ i > 17) \/ i <= 17
      BY <1>2
    <2> QED
      BY <2>6, <2>7, <2>8, <2>9, <2>10, <2>11, <2>12, Zenon
  <1>11. QED
    BY <1>1, <1>2, <1>9, <1>10
(***************************************************************************)
(* Which calls of each segment mount, unmount or reboot.                  *)
(***************************************************************************)
LEMMA PreOpsKinds ==
  ASSUME NEW c \in Configs, NEW j \in 1..9
  PROVE  /\ PreOps(c)[j].kind \notin {"umount", "reboot", "chroot"}
         /\ PreOps(c)[j].kind = "mount" =>
              PreOps(c)[j].arg \in MountPoints /\ j = MountAt[PreOps(c)[j].arg]
         /\ PreOps(c)[j].kind = "bootstrap" => j = 9
         /\ PreOps(c)[j].mnt => 6 < j
  <1>1. j = 1 \/ j = 2 \/ j = 3 \/ j = 4 \/ j = 5 \/ j = 6 \/ j = 7 \/ j = 8 \/ j = 9
    OBVIOUS
  <1>2. PreOps(c)[j].kind \notin {"umount", "reboot", "chroot"}
    BY <1>1 DEF PreOps, Op, MntOp, DevOp
  <1>3. PreOps(c)[j].kind = "mount" =>
          PreOps(c)[j].arg \in MountPoints /\ j = MountAt[PreOps(c)[j].arg]
    BY <1>1 DEF PreOps, Op, MntOp, DevOp, MountAt, MountPoints
  <1>4. PreOps(c)[j].kind = "bootstrap" => j = 9
    BY <1>1 DEF PreOps, Op, MntOp, DevOp
  <1>5. PreOps(c)[j].mnt => 6 < j
    <2>1. CASE j \in 7..9
      BY <2>1
    <2>2. CASE j = 1
      BY <2>2, Zenon DEF PreOps, Op, MntOp, DevOp
    <2>3. CASE j = 2
      BY <2>3, Zenon DEF PreOps, Op, MntOp, DevOp
    <2>4. CASE j = 3
      BY <2>4, Zenon DEF PreOps, Op, MntOp, DevOp
    <2>5. CASE j = 4
      BY <2>5, Zenon DEF PreOps, Op, MntOp, DevOp
    <2>6. CASE j = 5
      BY <2>6, Zenon DEF PreOps, Op, MntOp, DevOp
    <2>7. CASE j = 6
      BY <2>7, Zenon DEF PreOps, Op, MntOp, DevOp
    <2>8. QED
      BY <1>1, <2>1, <2>2, <2>3, <2>4, <2>5, <2>6, <2>7
  <1>6. QED
    BY <1>2, <1>3, <1>4, <1>5

LEMMA BindOpsKinds ==
  ASSUME NEW j \in 1..8
  PROVE  /\ BindOps[j].kind \notin {"umount", "reboot", "chroot", "bootstrap"}
         /\ BindOps[j].kind = "mount" =>
              BindOps[j].arg \in MountPoints /\ 9 + j = MountAt[BindOps[j].arg]
  <1>1. j = 1 \/ j = 2 \/ j = 3 \/ j = 4 \/ j = 5 \/ j = 6 \/ j = 7 \/ j = 8
    OBVIOUS
  <1>2. QED
    BY <1>1 DEF BindOps, Op, MntOp, MountAt, MountPoints

LEMMA BaseGrubKinds ==
  /\ \A j \in 1..6 : BaseOps[j].kind \notin {"mount", "umount", "bootstrap", "reboot"}
  /\ \A j \in 1..2 : GrubOps[j].kind \notin {"mount", "umount", "bootstrap", "reboot"}
  <1>1. \A j \in 1..6 : j = 1 \/ j = 2 \/ j = 3 \/ j = 4 \/ j = 5 \/ j = 6
    OBVIOUS
  <1>2. QED
    BY <1>1 DEF BaseOps, GrubOps, Op, MntOp, DevOp

LEMMA UmountOpsKinds ==
  ASSUME NEW j \in 1..6
  PROVE  /\ UmountOps[j].kind = "umount" /\ ~UmountOps[j].mnt
         /\ UmountOps[j].arg \in MountPoints
         /\ j = 10 - UmountGap[UmountOps[j].arg]
  <1>1. j = 1 \/ j = 2 \/ j = 3 \/ j = 4 \/ j = 5 \/ j = 6
    OBVIOUS
  <1>2. QED
    BY <1>1 DEF UmountOps, Op, UmountGap, MountPoints

LEMMA EndOpsKinds ==
  ASSUME NEW j \in 1..4
  PROVE  /\ EndOps[j].kind \notin {"mount", "umount", "chroot", "bootstrap"}
         /\ ~EndOps[j].mnt
         /\ EndOps[j].kind = "reboot" => j = 4
  <1>1. j = 1 \/ j = 2 \/ j = 3 \/ j = 4
    OBVIOUS
  <1>2. QED
    BY <1>1 DEF EndOps, Op
LEMMA EdKinds ==
  ASSUME NEW c \in Configs, NEW j \in 1..Len(EdOf(c))
  PROVE  EdOf(c)[j].kind \notin {"mount", "umount", "bootstrap", "reboot"}
  <1>1. c.edition \in AllEditions
    BY ConfigAssumption DEF Configs
  <1>2. EdOf(c)[j] \in QOps
    BY <1>1, EditionQuiet, ElementOfSeq DEF EdOf
  <1>3. QED
    BY <1>2 DEF QOps

\* A call of Prog(c) that mounts, unmounts, bootstraps or reboots is the one
\* at its fixed position; a call below /mnt comes after the mount of /mnt
\* and before the cleanup, a chroot after the bind mounts.
LEMMA KindPositions ==
  ASSUME NEW c \in Configs, NEW i \in 1..Len(Prog(c))
  PROVE  /\ Prog(c)[i].kind = "mount" =>
              Prog(c)[i].arg \in MountPoints /\ i = MountAt[Prog(c)[i].arg]
         /\ Prog(c)[i].kind = "umount" =>
              Prog(c)[i].arg \in MountPoints /\ i = UmountPos(c, Prog(c)[i].arg)
         /\ Prog(c)[i].kind = "reboot" => i = Len(Prog(c))
         /\ Prog(c)[i].kind = "bootstrap" => i = 9
         /\ Prog(c)[i].mnt => 6 < i /\ i <= Len(Prog(c)) - 10
         /\ Prog(c)[i].kind = "chroot" => 17 < i
  <1> DEFINE n == Len(EdOf(c))
             o == Prog(c)[i]
  <1>1. n \in Nat /\ Len(Prog(c)) = 35 + n
    BY ProgIndex
  <1>2. i \in 1..35 + n
    BY <1>1
  <1>3. o = IF i <= 9 THEN PreOps(c)[i]
            ELSE IF i <= 17 THEN BindOps[i - 9]
            ELSE IF i <= 23 THEN BaseOps[i - 17]
            ELSE IF i <= 23 + n THEN EdOf(c)[i - 23]
            ELSE IF i <= 25 + n THEN GrubOps[i - 23 - n]
            ELSE IF i <= 31 + n THEN UmountOps[i - 25 - n]
            ELSE EndOps[i - 31 - n]
    BY <1>2, ProgIndex, Zenon
  <1>4. CASE i <= 9
    <2>1. o = PreOps(c)[i]
      BY <1>3, <1>4, Zenon
    <2>2. i \in 1..9 /\ i <= Len(Prog(c)) - 10
      BY <1>1, <1>2, <1>4
    <2>3. QED
      BY <1>1, <2>1, <2>2, PreOpsKinds, Zenon
  <1>5. CASE 9 < i /\ i <= 17
    <2>1. o = BindOps[i - 9]
      <3>1. ~(i <= 9)
        BY <1>5
      <3>2. QED
        BY <1>3, <1>5, <3>1, Zenon
    <2>2. i - 9 \in 1..8 /\ 9 + (i - 9) = i /\ 6 < i /\ i <= Len(Prog(c)) - 10
      BY <1>1, <1>2, <1>5
    <2>3. QED
      BY <1>1, <2>1, <2>2, BindOpsKinds, Zenon
  <1>6. CASE 17 < i /\ i <= 23
    <2>1. o = BaseOps[i - 17]
      <3>1. ~(i <= 9) /\ ~(i <= 17)
        BY <1>6
      <3>2. QED
        BY <1>3, <1>6, <3>1, Zenon
    <2>2. i - 17 \in 1..6 /\ 6 < i /\ i <= Len(Prog(c)) - 10
      BY <1>1, <1>2, <1>6
    <2>3. QED
      BY <1>1, <1>6, <2>1, <2>2, BaseGrubKinds, Zenon
  <1>7. CASE 23 < i /\ i <= 23 + n
    <2>1. o = EdOf(c)[i - 23]
      <3>1. ~(i <= 9) /\ ~(i <= 17) /\ ~(i <= 23)
        BY <1>7
      <3>2. QED
        BY <1>3, <1>7, <3>1, Zenon
    <2>2. i - 23 \in 1..n /\ 6 < i /\ 17 < i /\ i <= Len(Prog(c)) - 10
      BY <1>1, <1>2, <1>7
    <2>3. QED
      BY <1>1, <2>1, <2>2, EdKinds, Zenon
  <1>8. CASE 23 + n < i /\ i <= 25 + n
    <2>1. o = GrubOps[i - 23 - n]
      <3>1. ~(i <= 9) /\ ~(i <= 17) /\ ~(i <= 23) /\ ~(i <= 23 + n)
        BY <1>1, <1>8
      <3>2. QED
        BY <1>3, <1>8, <3>1, Zenon
    <2>2. i - 23 - n \in 1..2 /\ 6 < i /\ 17 < i /\ i <= Len(Prog(c)) - 10
      BY <1>1, <1>2, <1>8
    <2>3. QED
      BY <1>1, <2>1, <2>2, BaseGrubKinds, Zenon
  <1>9. CASE 25 + n < i /\ i <= 31 + n
    <2>1. o = UmountOps[i - 25 - n]
      <3>1. ~(i <= 9) /\ ~(i <= 17) /\ ~(i <= 23) /\ ~(i <= 23 + n) /\ ~(i <= 25 + n)
        BY <1>1, <1>9
      <3>2. QED
        BY <1>3, <1>9, <3>1, Zenon
    <2>2. i - 25 - n \in 1..6
      BY <1>1, <1>2, <1>9
    <2>3. /\ o.kind = "umount" /\ ~o.mnt /\ o.arg \in MountPoints
          /\ i - 25 - n = 10 - UmountGap[o.arg]
      BY <2>1, <2>2, UmountOpsKinds, Zenon
    <2>4. UmountGap[o.arg] \in Int
      BY <2>3 DEF UmountGap, MountPoints
    <2>5. i = UmountPos(c, o.arg)
      BY <1>1, <1>2, <2>3, <2>4 DEF UmountPos
    <2>6. QED
      BY <2>3, <2>5
  <1>10. CASE 31 + n < i
    <2>1. o = EndOps[i - 31 - n]
      <3>1. /\ ~(i <= 9) /\ ~(i <= 17) /\ ~(i <= 23) /\ ~(i <= 23 + n)
            /\ ~(i <= 25 + n) /\ ~(i <= 31 + n)
        BY <1>1, <1>10
      <3>2. QED
        BY <1>3, <3>1, Zenon
    <2>2. i - 31 - n \in 1..4
      BY <1>1, <1>2, <1>10
    <2>3. /\ o.kind \notin {"mount", "umount", "chroot", "bootstrap"} /\ ~o.mnt
          /\ (o.kind = "reboot" => i - 31 - n = 4)
      BY <2>1, <2>2, EndOpsKinds, Zenon
    <2>4. i - 31 - n = 4 => i = Len(Prog(c))
      BY <1>1, <1>2
    <2>5. QED
      BY <2>3, <2>4
  <1>11. QED
    BY <1>1, <1>2, <1>4, <1>5, <1>6, <1>7, <1>8, <1>9, <1>10

\* Each mount point is mounted once, in the first part of Prog(c), and
\* unmounted once, near its end, after the last edition call; the reboot is
\* the last call.
LEMMA MountPositions ==
  ASSUME NEW c \in Configs
  PROVE  /\ Len(Prog(c)) \in Nat /\ Len(Prog(c)) >= 35
         /\ Prog(c)[Len(Prog(c))] = Op("reboot", "reboot")
         /\ \A m \in MountPoints :
              /\ MountAt[m] \in 6..17
              /\ UmountPos(c, m) \in Len(Prog(c)) - 9..Len(Prog(c)) - 4
              /\ Prog(c)[MountAt[m]] = Op("mount", m)
              /\ Prog(c)[UmountPos(c, m)] = Op("umount", m)
  <1> DEFINE n == Len(EdOf(c))
             Seg(i) == IF i <= 9 THEN PreOps(c)[i]
                       ELSE IF i <= 17 THEN BindOps[i - 9]
                       ELSE IF i <= 23 THEN BaseOps[i - 17]
                       ELSE IF i <= 23 + n THEN EdOf(c)[i - 23]
                       ELSE IF i <= 25 + n THEN GrubOps[i - 23 - n]
                       ELSE IF i <= 31 + n THEN UmountOps[i - 25 - n]
                       ELSE EndOps[i - 31 - n]
  <1>1. n \in Nat /\ Len(Prog(c)) = 35 + n
    BY ProgIndex
  <1>2. \A i \in 1..35 + n : Prog(c)[i] = Seg(i)
    BY ProgIndex, Zenon
  <1>3. Prog(c)[35 + n] = Op("reboot", "reboot")
    <2>1. Seg(35 + n) = EndOps[4]
      BY <1>1
    <2>2. 35 + n \in 1..35 + n
      BY <1>1
    <2>3. QED
      BY <1>2, <2>1, <2>2 DEF EndOps
  <1>4. ASSUME NEW m \in MountPoints
        PROVE  /\ MountAt[m] \in 6..17
               /\ Prog(c)[MountAt[m]] = Op("mount", m)
    <2>1. MountAt[m] \in 6..17 /\ MountAt[m] \in 1..35 + n
      BY <1>1 DEF MountAt, MountPoints
    <2>2. Seg(MountAt[m]) = Op("mount", m)
      <3>1. CASE m = "root"
        BY <3>1 DEF MountAt, PreOps
      <3>2. CASE m = "boot"
        BY <3>2 DEF MountAt, PreOps
      <3>3. CASE m \in {"dev", "proc", "sys", "run"}
        BY <3>3 DEF MountAt, BindOps
      <3>4. QED
        BY <3>1, <3>2, <3>3 DEF MountPoints
    <2>3. QED
      BY <1>2, <2>1, <2>2
  <1>5. ASSUME NEW m \in MountPoints
        PROVE  /\ UmountPos(c, m) \in Len(Prog(c)) - 9..Len(Prog(c)) - 4
               /\ Prog(c)[UmountPos(c, m)] = Op("umount", m)
    <2>1. UmountPos(c, m) = 35 + n - UmountGap[m] /\ UmountGap[m] \in 4..9
      BY <1>1 DEF UmountPos, UmountGap, MountPoints
    <2>2. UmountPos(c, m) \in 1..35 + n
      BY <1>1, <2>1
    <2>3. Seg(UmountPos(c, m)) = UmountOps[10 - UmountGap[m]]
      <3>1. /\ ~(UmountPos(c, m) <= 9) /\ ~(UmountPos(c, m) <= 17)
            /\ ~(UmountPos(c, m) <= 23) /\ ~(UmountPos(c, m) <= 23 + n)
            /\ ~(UmountPos(c, m) <= 25 + n) /\ UmountPos(c, m) <= 31 + n
            /\ UmountPos(c, m) - 25 - n = 10 - UmountGap[m]
        <4> DEFINE g == UmountGap[m]
                   u == UmountPos(c, m)
        <4>1. g \in 4..9 /\ u = 35 + n - g /\ n \in Nat
          BY <1>1, <2>1
        <4>2. ASSUME NEW k \in Nat, NEW h \in 4..9, NEW v \in Int, v = 35 + k - h
              PROVE  /\ ~(v <= 9) /\ ~(v <= 17) /\ ~(v <= 23) /\ ~(v <= 23 + k)
                     /\ ~(v <= 25 + k) /\ v <= 31 + k /\ v - 25 - k = 10 - h
          BY <4>2
        <4>3. u \in Int
          BY <4>1
        <4>4. PICK k \in Nat : k = n
          BY <4>1
        <4>5. PICK h \in 4..9 : h = g
          BY <4>1
        <4>6. PICK v \in Int : v = u
          BY <4>3
        <4>7. v = 35 + k - h
          BY <4>1, <4>4, <4>5, <4>6, Zenon
        <4>8. /\ ~(v <= 9) /\ ~(v <= 17) /\ ~(v <= 23) /\ ~(v <= 23 + k)
              /\ ~(v <= 25 + k) /\ v <= 31 + k /\ v - 25 - k = 10 - h
          BY <4>7, <4>2
        <4>9. QED
          BY <4>4, <4>5, <4>6, <4>8, Zenon
      <3>2. UmountPos(c, m) - 25 - n = 10 - UmountGap[m]
        BY <3>1
      <3>3. QED
        BY <3>1, <3>2, Zenon DEF Seg
    <2>4. UmountOps[10 - UmountGap[m]] = Op("umount", m)
      BY DEF UmountGap, UmountOps, MountPoints
    <2>5. UmountPos(c, m) \in Len(Prog(c)) - 9..Len(Prog(c)) - 4
      BY <1>1, <2>1
    <2>6. Prog(c)[UmountPos(c, m)] = Seg(UmountPos(c, m))
      BY <1>2, <2>2, Zenon
    <2>7. QED
      BY <2>3, <2>4, <2>5, <2>6, Zenon
  <1>6. QED
    BY <1>1, <1>3, <1>4, <1>5
(***************************************************************************)
(* The inductive invariant: which mount points are mounted is a function  *)
(* of pc, and the reboot, once it ran, was the last call.                 *)
(***************************************************************************)
\* pc is past the mount of m and not past its umount.
Window(c, m, p) == MountAt[m] < p /\ p <= UmountPos(c, m)

MountsByPc ==
    \A m \in MountPoints :
        mountedAt[m] = IF Window(cfg, m, pc) THEN <<MountAt[m]>> ELSE << >>

RebootAtEnd == rebooted => pc = Len(Prog(cfg)) + 1

MountInv == MountsByPc /\ RebootAtEnd

LEMMA WindowShift ==
  ASSUME NEW a \in Int, NEW b \in Int, NEW p \in Int, p # a, p # b
  PROVE  (a < p + 1 /\ p + 1 <= b) <=> (a < p /\ p <= b)
  OBVIOUS

\* A call that neither mounts nor unmounts keeps every mount point's
\* window: pc is at neither end of it.
LEMMA QuietStep ==
  ASSUME Data, MountsByPc, Running, pc' = pc + 1, cfg' = cfg,
         mountedAt' = mountedAt, Cur.kind \notin {"mount", "umount"}
  PROVE  MountsByPc'
  <1> SUFFICES ASSUME NEW m \in MountPoints
               PROVE  mountedAt'[m] = IF Window(cfg', m, pc') THEN <<MountAt[m]>> ELSE << >>
    BY DEF MountsByPc
  <1>1. cfg \in Configs /\ pc \in 1..Len(Prog(cfg))
    BY CurOp DEF Data
  <1>2. /\ MountAt[m] \in 6..17
        /\ UmountPos(cfg, m) \in Len(Prog(cfg)) - 9..Len(Prog(cfg)) - 4
        /\ Len(Prog(cfg)) \in Nat
        /\ Prog(cfg)[MountAt[m]] = Op("mount", m)
        /\ Prog(cfg)[UmountPos(cfg, m)] = Op("umount", m)
    BY <1>1, MountPositions
  <1>3. pc # MountAt[m] /\ pc # UmountPos(cfg, m)
    BY <1>2 DEF Cur, Op
  <1>4. MountAt[m] \in Int /\ UmountPos(cfg, m) \in Int /\ pc \in Int
    BY <1>1, <1>2
  <1>5. Window(cfg, m, pc + 1) <=> Window(cfg, m, pc)
    BY <1>3, <1>4, WindowShift DEF Window
  <1>6. QED
    BY <1>5, Zenon DEF MountsByPc
\* Every mount comes before every umount; no two mount points share a
\* mount or an umount position; /mnt is unmounted last.
LEMMA EndsFacts ==
  ASSUME NEW c \in Configs, NEW m \in MountPoints, NEW a \in MountPoints
  PROVE  /\ MountAt[m] \in Int /\ UmountPos(c, a) \in Int
         /\ MountAt[m] < UmountPos(c, a)
         /\ m # a => MountAt[m] # MountAt[a] /\ UmountPos(c, m) # UmountPos(c, a)
         /\ a = "root" /\ m # a => UmountPos(c, m) < UmountPos(c, a)
  <1>1. PICK L \in {k \in Nat : k >= 35} : L = Len(Prog(c))
    BY MountPositions
  <1>2. PICK g \in 4..9 : g = UmountGap[m]
    BY DEF UmountGap, MountPoints
  <1>3. PICK h \in 4..9 : h = UmountGap[a]
    BY DEF UmountGap, MountPoints
  <1>4. PICK x \in 6..17 : x = MountAt[m]
    BY DEF MountAt, MountPoints
  <1>5. PICK y \in 6..17 : y = MountAt[a]
    BY DEF MountAt, MountPoints
  <1>6. /\ m # a => g # h /\ x # y
        /\ a = "root" /\ m # a => h = 4 /\ g > 4
    BY <1>2, <1>3, <1>4, <1>5 DEF UmountGap, MountAt, MountPoints
  <1>7. /\ x \in Int /\ L - h \in Int /\ x < L - h
        /\ g # h => L - g # L - h
        /\ h = 4 /\ g > 4 => L - g < L - h
    OBVIOUS
  <1>8. UmountPos(c, m) = L - g /\ UmountPos(c, a) = L - h
    BY <1>1, <1>2, <1>3, Zenon DEF UmountPos
  <1>9. QED
    BY <1>4, <1>5, <1>6, <1>7, <1>8, Zenon

LEMMA LessNeq ==
  ASSUME NEW p \in Int, NEW q \in Int, p < q
  PROVE  p # q
  OBVIOUS

LEMMA LessNotGeq ==
  ASSUME NEW p \in Int, NEW q \in Int, q < p
  PROVE  ~(p <= q)
  OBVIOUS

LEMMA WindowEnds ==
  ASSUME NEW a \in Int, NEW b \in Int, a < b
  PROVE  /\ ~(a < a /\ a <= b) /\ (a < a + 1 /\ a + 1 <= b)
         /\ (a < b /\ b <= b) /\ ~(a < b + 1 /\ b + 1 <= b)
  OBVIOUS

\* The mount of m opens its window, its umount closes it.
LEMMA WindowFacts ==
  ASSUME NEW c \in Configs, NEW m \in MountPoints
  PROVE  /\ ~Window(c, m, MountAt[m]) /\ Window(c, m, MountAt[m] + 1)
         /\ Window(c, m, UmountPos(c, m)) /\ ~Window(c, m, UmountPos(c, m) + 1)
  <1>1. MountAt[m] \in Int /\ UmountPos(c, m) \in Int /\ MountAt[m] < UmountPos(c, m)
    BY EndsFacts
  <1>2. QED
    BY <1>1, WindowEnds, Zenon DEF Window
\* mount: the call at MountAt[a] finds a unmounted, so mount exits 0 and
\* pushes pc on a's stack; no other window changes.
LEMMA MountStep ==
  ASSUME ExitCodes = {"ok"}, Data, MountsByPc, NEW x \in {"ok", "nonzero"}, Mount(x)
  PROVE  MountsByPc'
  <1> DEFINE a == Cur.arg
  <1>1. /\ Running /\ Advance /\ Cur.kind = "mount" /\ x \in ExitOutcomes
        /\ cfg' = cfg
        /\ mountedAt' = IF x = "ok" THEN [mountedAt EXCEPT ![a] = <<pc>> \o @]
                                    ELSE mountedAt
    BY Zenon DEF Mount, Launch
  <1>2. cfg \in Configs /\ pc \in 1..Len(Prog(cfg)) /\ pc' = pc + 1
        /\ mountedAt \in [MountPoints -> Seq(Nat)]
    BY <1>1, CurOp DEF Data, Advance
  <1>3. a \in MountPoints /\ pc = MountAt[a]
    BY <1>1, <1>2, KindPositions DEF Cur
  <1>4. ~Window(cfg, a, pc) /\ Window(cfg, a, pc + 1)
    BY <1>2, <1>3, WindowFacts
  <1>5. mountedAt[a] = << >>
    BY <1>3, <1>4, Zenon DEF MountsByPc
  <1>6. x = "ok"
    <2>1. ExitOutcomes = ExitCodes
      BY <1>1, <1>5 DEF ExitOutcomes, Mounted
    <2>2. QED
      BY <1>1, <2>1
  <1>7. mountedAt' = [mountedAt EXCEPT ![a] = <<pc>>]
    BY <1>1, <1>3, <1>5, <1>6
  <1> SUFFICES ASSUME NEW m \in MountPoints
               PROVE  mountedAt'[m] = IF Window(cfg', m, pc') THEN <<MountAt[m]>> ELSE << >>
    BY DEF MountsByPc
  <1>8. CASE m = a
    <2>1. mountedAt'[a] = <<pc>>
      BY <1>2, <1>3, <1>7
    <2>2. QED
      BY <2>1, <1>1, <1>2, <1>3, <1>4, <1>8, Zenon
  <1>9. CASE m # a
    <2>1. mountedAt'[m] = mountedAt[m]
      BY <1>2, <1>7, <1>9
    <2>2. pc # MountAt[m] /\ pc # UmountPos(cfg, m)
      <3>1. /\ MountAt[m] # MountAt[a] /\ MountAt[a] < UmountPos(cfg, m)
            /\ MountAt[a] \in Int /\ UmountPos(cfg, m) \in Int
        BY <1>2, <1>3, <1>9, EndsFacts
      <3>2. MountAt[a] # UmountPos(cfg, m)
        BY <3>1, LessNeq, Zenon
      <3>3. QED
        BY <1>3, <3>1, <3>2, Zenon
    <2>3. MountAt[m] \in Int /\ UmountPos(cfg, m) \in Int /\ pc \in Int
      BY <1>2, EndsFacts
    <2>4. Window(cfg, m, pc + 1) <=> Window(cfg, m, pc)
      BY <2>2, <2>3, WindowShift DEF Window
    <2>5. QED
      BY <1>1, <1>2, <2>1, <2>4, Zenon DEF MountsByPc
  <1>10. QED
    BY <1>8, <1>9
\* umount: the call at UmountPos(c, a) finds a mounted and, for /mnt,
\* everything below it already unmounted, so umount exits 0 and pops a's
\* stack; no other window changes.
LEMMA UnmountStep ==
  ASSUME ExitCodes = {"ok"}, Data, MountsByPc, NEW x \in {"ok", "nonzero"}, Unmount(x)
  PROVE  MountsByPc'
  <1> DEFINE a == Cur.arg
  <1>1. /\ Running /\ Advance /\ Cur.kind = "umount" /\ x \in ExitOutcomes
        /\ cfg' = cfg
        /\ mountedAt' = IF x = "ok" THEN [mountedAt EXCEPT ![a] = Tail(@)]
                                    ELSE mountedAt
    BY Zenon DEF Unmount, Launch
  <1>2. cfg \in Configs /\ pc \in 1..Len(Prog(cfg)) /\ pc' = pc + 1
        /\ mountedAt \in [MountPoints -> Seq(Nat)]
    BY <1>1, CurOp DEF Data, Advance
  <1>3. a \in MountPoints /\ pc = UmountPos(cfg, a)
    BY <1>1, <1>2, KindPositions DEF Cur
  <1>4. Window(cfg, a, pc) /\ ~Window(cfg, a, pc + 1)
    BY <1>2, <1>3, WindowFacts
  <1>5. mountedAt[a] = <<MountAt[a]>>
    BY <1>3, <1>4, Zenon DEF MountsByPc
  <1>6. a = "root" => \A m \in MountPoints \ {"root"} : ~Mounted(m)
    <2> SUFFICES ASSUME a = "root", NEW m \in MountPoints \ {"root"}
                 PROVE  ~Mounted(m)
      OBVIOUS
    <2>1. UmountPos(cfg, m) < pc /\ UmountPos(cfg, m) \in Int /\ pc \in Int
      BY <1>2, <1>3, EndsFacts
    <2>2. ~Window(cfg, m, pc)
      BY <2>1, LessNotGeq, Zenon DEF Window
    <2>3. mountedAt[m] = << >>
      BY <2>2, Zenon DEF MountsByPc
    <2>4. QED
      BY <2>3 DEF Mounted
  <1>7. x = "ok"
    <2>1. Mounted(a)
      BY <1>5 DEF Mounted
    <2>2. ExitOutcomes = ExitCodes
      BY <1>1, <1>6, <2>1 DEF ExitOutcomes
    <2>3. QED
      BY <1>1, <2>2
  <1>8. mountedAt' = [mountedAt EXCEPT ![a] = << >>]
    BY <1>1, <1>3, <1>5, <1>7
  <1> SUFFICES ASSUME NEW m \in MountPoints
               PROVE  mountedAt'[m] = IF Window(cfg', m, pc') THEN <<MountAt[m]>> ELSE << >>
    BY DEF MountsByPc
  <1>9. CASE m = a
    <2>1. mountedAt'[a] = << >>
      BY <1>2, <1>3, <1>8
    <2>2. QED
      BY <2>1, <1>1, <1>2, <1>4, <1>9, Zenon
  <1>10. CASE m # a
    <2>1. mountedAt'[m] = mountedAt[m]
      BY <1>2, <1>8, <1>10
    <2>2. pc # MountAt[m] /\ pc # UmountPos(cfg, m)
      <3>1. /\ MountAt[m] < UmountPos(cfg, a) /\ UmountPos(cfg, m) # UmountPos(cfg, a)
            /\ MountAt[m] \in Int /\ UmountPos(cfg, a) \in Int
        BY <1>2, <1>3, <1>10, EndsFacts
      <3>2. MountAt[m] # UmountPos(cfg, a)
        BY <3>1, LessNeq, Zenon
      <3>3. QED
        BY <1>3, <3>1, <3>2, Zenon
    <2>3. MountAt[m] \in Int /\ UmountPos(cfg, m) \in Int /\ pc \in Int
      BY <1>2, EndsFacts
    <2>4. Window(cfg, m, pc + 1) <=> Window(cfg, m, pc)
      BY <2>2, <2>3, WindowShift DEF Window
    <2>5. QED
      BY <1>1, <1>2, <2>1, <2>4, Zenon DEF MountsByPc
  <1>11. QED
    BY <1>9, <1>10
LEMMA NotPast ==
  ASSUME NEW q \in Nat, NEW p \in 1..q
  PROVE  p # q + 1
  OBVIOUS

\* While the pipeline runs, the reboot has not run.
LEMMA RunningNotRebooted ==
  ASSUME Data, RebootAtEnd, Running
  PROVE  ~rebooted
  <1>1. pc \in 1..Len(Prog(cfg)) /\ Len(Prog(cfg)) \in Nat
    BY CurOp
  <1>2. pc # Len(Prog(cfg)) + 1
    BY <1>1, NotPast, Zenon
  <1>3. QED
    BY <1>2, Zenon DEF RebootAtEnd

\* A returning call that is not the reboot keeps rebooted FALSE.
LEMMA QuietFlag ==
  ASSUME Data, RebootAtEnd, Running, rebooted' = rebooted
  PROVE  RebootAtEnd'
  BY RunningNotRebooted, Zenon DEF RebootAtEnd

\* Every step of perform_installation keeps MountInv when every command
\* exits 0.
LEMMA NextMountInv ==
  ASSUME ExitCodes = {"ok"}, IInv, MountInv, [Next]_vars
  PROVE  MountInv'
  <1>0. Data /\ MountsByPc /\ RebootAtEnd
    BY Zenon DEF IInv, MountInv
  <1> SUFFICES MountsByPc' /\ RebootAtEnd'
    BY DEF MountInv
  <1>1. CASE UNCHANGED vars \/ Terminated
    <2>1. UNCHANGED vars
      BY <1>1 DEF Terminated
    <2>2. QED
      BY <1>0, <2>1, Zenon DEF vars, MountsByPc, RebootAtEnd
  <1>2. CASE Fail
    BY <1>0, <1>2, Zenon DEF Fail, MountsByPc, RebootAtEnd
  <1>3. ASSUME NEW x \in {"ok", "nonzero"}, RunCommand(x) \/ Bootstrap(x) \/ Chroot(x)
        PROVE  MountsByPc' /\ RebootAtEnd'
    <2>1. /\ Running /\ pc' = pc + 1 /\ cfg' = cfg /\ mountedAt' = mountedAt
          /\ rebooted' = rebooted /\ Cur.kind \in {"run", "bootstrap", "chroot"}
      BY <1>3, Zenon DEF RunCommand, Bootstrap, Chroot, Launch, Advance
    <2>2. QED
      BY <1>0, <2>1, QuietStep, QuietFlag
  <1>4. ASSUME NEW x \in {"ok", "nonzero"}, Mount(x)
        PROVE  MountsByPc' /\ RebootAtEnd'
    <2>1. Running /\ rebooted' = rebooted
      BY <1>4, Zenon DEF Mount, Launch
    <2>2. QED
      BY <1>0, <1>4, <2>1, MountStep, QuietFlag
  <1>5. ASSUME NEW x \in {"ok", "nonzero"}, Unmount(x)
        PROVE  MountsByPc' /\ RebootAtEnd'
    <2>1. Running /\ rebooted' = rebooted
      BY <1>5, Zenon DEF Unmount, Launch
    <2>2. QED
      BY <1>0, <1>5, <2>1, UnmountStep, QuietFlag
  <1>6. ASSUME NEW x \in {"ok", "nonzero"}, Reboot(x)
        PROVE  MountsByPc' /\ RebootAtEnd'
    <2>1. /\ Running /\ pc' = pc + 1 /\ cfg' = cfg /\ mountedAt' = mountedAt
          /\ Cur.kind = "reboot"
      BY <1>6, Zenon DEF Reboot, Launch, Advance
    <2>2. MountsByPc'
      BY <1>0, <2>1, QuietStep
    <2>3. pc = Len(Prog(cfg))
      <3>1. cfg \in Configs /\ pc \in 1..Len(Prog(cfg))
        BY <1>0, <2>1, CurOp DEF Data
      <3>2. QED
        BY <2>1, <3>1, KindPositions, Zenon DEF Cur
    <2>4. QED
      BY <2>1, <2>2, <2>3, Zenon DEF RebootAtEnd
  <1>7. ASSUME NEW h \in {"ok", "error"}, Fetch(h)
        PROVE  MountsByPc' /\ RebootAtEnd'
    <2>1. /\ Running /\ pc' = pc + 1 /\ cfg' = cfg /\ mountedAt' = mountedAt
          /\ rebooted' = rebooted /\ Cur.kind = "fetch"
      BY <1>7, Zenon DEF Fetch, Advance
    <2>2. QED
      BY <1>0, <2>1, QuietStep, QuietFlag
  <1>8. CASE WriteFile \/ FsCall \/ RemoveFile
    <2>1. /\ Running /\ pc' = pc + 1 /\ cfg' = cfg /\ mountedAt' = mountedAt
          /\ rebooted' = rebooted /\ Cur.kind \in {"write", "mkdir", "copy", "clone", "remove"}
      BY <1>8, Zenon DEF WriteFile, FsCall, RemoveFile, Advance
    <2>2. QED
      BY <1>0, <2>1, QuietStep, QuietFlag
  <1>9. QED
    BY <1>1, <1>2, <1>3, <1>4, <1>5, <1>6, <1>7, <1>8 DEF Next
LEMMA BeforeMounts ==
  ASSUME NEW a \in 6..17
  PROVE  ~(a < 1)
  OBVIOUS

LEMMA AfterUmounts ==
  ASSUME NEW L \in Nat, NEW u \in L - 9..L - 4
  PROVE  ~(L + 1 <= u)
  OBVIOUS

\* Before the first call nothing is mounted and nothing rebooted.
LEMMA InitMountInv == Init => MountInv
  <1> SUFFICES ASSUME Init PROVE MountInv
    OBVIOUS
  <1>1. ASSUME NEW m \in MountPoints PROVE ~Window(cfg, m, pc)
    <2>1. MountAt[m] \in 6..17 /\ pc = 1
      BY MountPositions DEF Init
    <2>2. QED
      BY <2>1, BeforeMounts, Zenon DEF Window
  <1>2. QED
    BY <1>1, Zenon DEF Init, MountInv, MountsByPc, RebootAtEnd

\* After the reboot pc is past every umount, so every stack is empty.
LEMMA MountInvSafe == IInv /\ MountInv => NoRebootWhileMounted
  <1> SUFFICES ASSUME IInv, MountInv, rebooted, NEW m \in MountPoints
               PROVE  ~Mounted(m)
    BY DEF NoRebootWhileMounted
  <1>1. cfg \in Configs /\ pc = Len(Prog(cfg)) + 1
    BY Zenon DEF IInv, Data, MountInv, RebootAtEnd
  <1>2. Len(Prog(cfg)) \in Nat
        /\ UmountPos(cfg, m) \in Len(Prog(cfg)) - 9..Len(Prog(cfg)) - 4
    BY <1>1, MountPositions
  <1>3. ~Window(cfg, m, pc)
    BY <1>1, <1>2, AfterUmounts, Zenon DEF Window
  <1>4. mountedAt[m] = << >>
    BY <1>3, Zenon DEF MountInv, MountsByPc
  <1>5. QED
    BY <1>4 DEF Mounted

(***************************************************************************)
(* perform_installation never reboots with anything mounted below /mnt,   *)
(* whatever the edition, branch, filesystem or disk, provided every       *)
(* command it launches exits 0 (the steps of NoRebootWhileMounted that    *)
(* the pipeline_safety run checks for one configuration set).             *)
(***************************************************************************)
THEOREM RebootUnmounted ==
  ASSUME ExitCodes = {"ok"}
  PROVE  Spec => []NoRebootWhileMounted
  <1>1. Init => IInv /\ MountInv
    BY InitIInv, InitMountInv
  <1>2. IInv /\ MountInv /\ [Next]_vars => IInv' /\ MountInv'
    BY NextFlag, NextData, NextMountInv DEF IInv
  <1>3. IInv /\ MountInv => NoRebootWhileMounted
    BY MountInvSafe
  <1>4. QED
    BY <1>1, <1>2, <1>3, PTL DEF Spec
(***************************************************************************)
(* TargetRootDiscipline: every call below /mnt finds the target root      *)
(* mounted, and every chroot finds the bootstrapped target with the bind  *)
(* mounts in place.                                                       *)
(***************************************************************************)
\* Once debootstrap (the ninth call) has returned, it filled the target root.
BaseInv == pc > 9 => baseOn = "target"

LEMMA BootstrapAt ==
  ASSUME NEW c \in Configs
  PROVE  Prog(c)[9].kind = "bootstrap"
  <1>1. Len(EdOf(c)) \in Nat /\ 9 \in 1..35 + Len(EdOf(c)) /\ 9 <= 9
    BY ProgIndex
  <1>2. Prog(c)[9] = PreOps(c)[9]
    BY <1>1, ProgIndex, Zenon
  <1>3. QED
    BY <1>2 DEF PreOps, MntOp

\* A call other than debootstrap leaves baseOn alone and is not the ninth.
LEMMA QuietBase ==
  ASSUME Data, BaseInv, Running, pc' = pc + 1, baseOn' = baseOn,
         Cur.kind # "bootstrap"
  PROVE  BaseInv'
  <1>1. cfg \in Configs /\ pc \in 1..Len(Prog(cfg))
    BY CurOp DEF Data
  <1>2. pc # 9
    BY <1>1, BootstrapAt DEF Cur
  <1>3. pc + 1 > 9 => pc > 9
    BY <1>1, <1>2
  <1>4. QED
    BY <1>3, Zenon DEF BaseInv

LEMMA NextBase ==
  ASSUME ExitCodes = {"ok"}, IInv, MountInv, BaseInv, [Next]_vars
  PROVE  BaseInv'
  <1>0. Data /\ MountsByPc
    BY Zenon DEF IInv, MountInv
  <1>1. CASE UNCHANGED vars \/ Terminated \/ Fail
    <2>1. pc' = pc /\ baseOn' = baseOn
      BY <1>1, Zenon DEF vars, Terminated, Fail
    <2>2. QED
      BY <2>1, Zenon DEF BaseInv
  <1>2. ASSUME NEW x \in {"ok", "nonzero"}, Bootstrap(x)
        PROVE  BaseInv'
    <2>1. /\ Running /\ Advance /\ Cur.kind = "bootstrap" /\ x \in ExitOutcomes
          /\ baseOn' = IF x = "ok" THEN IF Mounted("root") THEN "target" ELSE "host"
                                   ELSE baseOn
      BY <1>2, Zenon DEF Bootstrap, Launch
    <2>2. cfg \in Configs /\ pc \in 1..Len(Prog(cfg))
      BY <1>0, <2>1, CurOp DEF Data
    <2>3. pc = 9
      BY <2>1, <2>2, KindPositions DEF Cur
    <2>4. x = "ok"
      <3>1. ExitOutcomes = ExitCodes
        BY <2>1 DEF ExitOutcomes
      <3>2. QED
        BY <2>1, <3>1
    <2>5. Mounted("root")
      <3>1. Window(cfg, "root", 9)
        <4>1. PICK L \in {k \in Nat : k >= 35} : L = Len(Prog(cfg))
          BY <2>2, MountPositions
        <4>2. UmountPos(cfg, "root") = L - 4
          BY <4>1, Zenon DEF UmountPos, UmountGap
        <4>3. 6 < 9 /\ 9 <= L - 4
          OBVIOUS
        <4>4. QED
          BY <4>2, <4>3, Zenon DEF Window, MountAt
      <3>2. mountedAt["root"] = <<MountAt["root"]>>
        BY <1>0, <2>3, <3>1, Zenon DEF MountsByPc, MountPoints
      <3>3. QED
        BY <3>2 DEF Mounted
    <2>6. QED
      BY <2>1, <2>4, <2>5, Zenon DEF BaseInv
  <1>3. ASSUME NEW x \in {"ok", "nonzero"},
               \/ RunCommand(x) \/ Mount(x) \/ Unmount(x) \/ Chroot(x) \/ Reboot(x)
        PROVE  BaseInv'
    <2>1. /\ Running /\ pc' = pc + 1 /\ baseOn' = baseOn
          /\ Cur.kind \in {"run", "mount", "umount", "chroot", "reboot"}
      BY <1>3, Zenon DEF RunCommand, Mount, Unmount, Chroot, Reboot, Launch, Advance
    <2>2. QED
      BY <1>0, <2>1, QuietBase
  <1>4. ASSUME NEW h \in {"ok", "error"}, Fetch(h)
        PROVE  BaseInv'
    <2>1. Running /\ pc' = pc + 1 /\ baseOn' = baseOn /\ Cur.kind = "fetch"
      BY <1>4, Zenon DEF Fetch, Advance
    <2>2. QED
      BY <1>0, <2>1, QuietBase
  <1>5. CASE WriteFile \/ FsCall \/ RemoveFile
    <2>1. /\ Running /\ pc' = pc + 1 /\ baseOn' = baseOn
          /\ Cur.kind \in {"write", "mkdir", "copy", "clone", "remove"}
      BY <1>5, Zenon DEF WriteFile, FsCall, RemoveFile, Advance
    <2>2. QED
      BY <1>0, <2>1, QuietBase
  <1>6. QED
    BY <1>1, <1>2, <1>3, <1>4, <1>5 DEF Next
LEMMA BeforeUmounts ==
  ASSUME NEW L \in Nat, NEW u \in L - 9..L - 4, NEW p \in Int, p <= L - 10
  PROVE  p <= u
  OBVIOUS

LEMMA AfterBinds ==
  ASSUME NEW a \in 6..17, NEW p \in Int, 17 < p
  PROVE  a < p
  OBVIOUS

\* In every state the invariants allow, the call about to return satisfies
\* the step condition of TargetRootDiscipline.
LEMMA DisciplineStep ==
  ASSUME IInv, MountInv, BaseInv, Running, Cur.mnt
  PROVE  /\ Mounted("root")
         /\ Cur.kind = "chroot" =>
               /\ baseOn = "target"
               /\ \A i \in 1..Len(BindDirs) : Mounted(BindDirs[i])
  <1>1. cfg \in Configs /\ pc \in 1..Len(Prog(cfg)) /\ Data /\ MountsByPc
    BY CurOp, Zenon DEF IInv, Data, MountInv
  <1>2. /\ 6 < pc /\ pc <= Len(Prog(cfg)) - 10
        /\ Cur.kind = "chroot" => 17 < pc
    BY <1>1, KindPositions DEF Cur
  <1>3. ASSUME NEW m \in MountPoints, MountAt[m] < pc
        PROVE  Mounted(m)
    <2>1. /\ Len(Prog(cfg)) \in Nat
          /\ UmountPos(cfg, m) \in Len(Prog(cfg)) - 9..Len(Prog(cfg)) - 4
      BY <1>1, MountPositions
    <2>2. pc <= UmountPos(cfg, m)
      <3>1. pc \in Int
        BY <1>1
      <3>2. QED
        BY <1>2, <2>1, <3>1, BeforeUmounts, Zenon
    <2>3. Window(cfg, m, pc)
      BY <1>3, <2>2, Zenon DEF Window
    <2>4. mountedAt[m] = <<MountAt[m]>>
      BY <1>1, <2>3, Zenon DEF MountsByPc
    <2>5. QED
      BY <2>4 DEF Mounted
  <1>4. Mounted("root")
    <2>1. MountAt["root"] < pc
      BY <1>1, <1>2 DEF MountAt
    <2>2. QED
      BY <2>1, <1>3 DEF MountPoints
  <1>5. ASSUME Cur.kind = "chroot"
        PROVE  /\ baseOn = "target"
               /\ \A i \in 1..Len(BindDirs) : Mounted(BindDirs[i])
    <2>1. 17 < pc /\ pc > 9 /\ pc \in Int
      BY <1>1, <1>2, <1>5
    <2>2. baseOn = "target"
      BY <2>1 DEF BaseInv
    <2>3. ASSUME NEW i \in 1..Len(BindDirs) PROVE Mounted(BindDirs[i])
      <3>1. BindDirs[i] \in MountPoints
        BY DEF BindDirs, MountPoints
      <3>2. MountAt[BindDirs[i]] \in 6..17
        BY <1>1, <3>1, MountPositions
      <3>3. MountAt[BindDirs[i]] < pc
        BY <2>1, <3>2, AfterBinds, Zenon
      <3>4. QED
        BY <3>1, <3>3, <1>3
    <2>4. QED
      BY <2>2, <2>3
  <1>6. QED
    BY <1>4, <1>5

(***************************************************************************)
(* Every call of perform_installation that writes below /mnt finds the    *)
(* target root mounted, and every chroot_cmd runs in the bootstrapped     *)
(* target with the four bind mounts in place (TargetRootDiscipline, which *)
(* the pipeline_safety run checks), for every configuration, when every   *)
(* command exits 0.                                                       *)
(***************************************************************************)
THEOREM TargetRootHolds ==
  ASSUME ExitCodes = {"ok"}
  PROVE  Spec => TargetRootDiscipline
  <1> DEFINE Inv == IInv /\ MountInv /\ BaseInv
  <1>1. Init => Inv
    <2>1. Init => BaseInv
      BY DEF Init, BaseInv
    <2>2. QED
      BY <2>1, InitIInv, InitMountInv
  <1>2. Inv /\ [Next]_vars => Inv'
    BY NextFlag, NextData, NextMountInv, NextBase DEF IInv
  <1>3. Inv => [ (Running /\ pc' = pc + 1 /\ Cur.mnt) =>
                    /\ Mounted("root")
                    /\ Cur.kind = "chroot" =>
                          /\ baseOn = "target"
                          /\ \A i \in 1..Len(BindDirs) : Mounted(BindDirs[i]) ]_vars
    BY DisciplineStep
  <1>4. QED
    BY <1>1, <1>2, <1>3, PTL DEF Spec, TargetRootDiscipline
=============================================================================
