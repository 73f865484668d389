---------------------------- MODULE WizardProofs ----------------------------
(***************************************************************************)
(* Proofs about the wizard: it only ever hands a complete configuration    *)
(* to perform_installation, for every bound on text length and cursor.    *)
(***************************************************************************)
EXTENDS Wizard, SequenceTheorems, TLAPS

(***************************************************************************)
(* The inductive invariant.  InstallGate alone is not inductive: it speaks *)
(* only of the hand-over state.  Each stage passed must already have left  *)
(* its answer filled in, the hostname is never empty (it starts as the     *)
(* default and is only appended to), and the wizard is still running only  *)
(* below stage 10.                                                          *)
(***************************************************************************)
AnswersBehind ==
    /\ step > 1 => username # << >>
    /\ step > 2 => password # << >>
    /\ hostname # << >>
    /\ step > 4 => edition # None
    /\ step > 5 => branch # None
    /\ step > 6 => filesystem # None
    /\ step > 8 => disk # << >>

\* TypeOK in two halves: the Boolean flags (for Zenon) and the data (for SMT).
TypeFlags == manual \in BOOLEAN /\ preview \in BOOLEAN /\ quit \in BOOLEAN
TypeData ==
    /\ step \in 0..10
    /\ username \in Text /\ password \in Text
    /\ hostname \in Text /\ disk \in Text
    /\ edition \in {None} \cup {EditionAt[i] : i \in 1..8}
    /\ branch \in {None} \cup {BranchAt[i] : i \in 1..3}
    /\ filesystem \in {None} \cup {FilesystemAt[i] : i \in 1..3}
    /\ cursor \in {NoSel} \cup 0..MaxCursor
    /\ mode \in {"wizard", "install", "exit"}

LEMMA TypeSplit == TypeOK <=> TypeData /\ TypeFlags
  BY Zenon DEF TypeOK, TypeData, TypeFlags

\* The invariant the proofs carry: the data half of the type, the answers
\* behind the current stage, and how the mode relates to the stage.
Core ==
    /\ TypeData
    /\ AnswersBehind
    /\ mode = "wizard" => step < 10
    /\ mode = "install" => step = 10

IInv == TypeFlags /\ Core

LEMMA InitFlags == Init => TypeFlags
  BY Zenon DEF Init, TypeFlags

LEMMA InitCore == Init => Core
  BY DEF Init, Core, TypeData, AnswersBehind, Text, NoSel, None

LEMMA InitIInv == Init => IInv
  BY InitFlags, InitCore DEF IInv

\* Draw leaves the cursor in range.
LEMMA DrawnType ==
  ASSUME TypeData
  PROVE  Drawn \in {NoSel} \cup 0..MaxCursor
  BY WizardAssumption DEF Drawn, TypeData, NoSel

\* Every step keeps the flags Boolean.
LEMMA NextFlags == TypeFlags /\ [Next]_vars => TypeFlags'
  <1> SUFFICES ASSUME TypeFlags, [Next]_vars PROVE TypeFlags'
    OBVIOUS
  <1>1. CASE KeyEnter
    <2>1. CASE OutOfList(Drawn)
      BY <1>1, <2>1, Zenon DEF KeyEnter, TypeFlags, answers
    <2>2. CASE ~OutOfList(Drawn)
      BY <1>1, <2>2, Zenon DEF KeyEnter, TypeFlags
    <2>3. QED
      BY <2>1, <2>2
  <1>2. QED
    BY <1>1, Zenon DEF Next, KeyQuit, KeyUp, KeyDown, KeyOther, KeyChar, Finished,
                       TypeFlags, vars, answers

LEMMA NextCore == Core /\ [Next]_vars => Core'
  <1> SUFFICES ASSUME Core, [Next]_vars PROVE Core'
    OBVIOUS
  <1>0. Drawn \in {NoSel} \cup 0..MaxCursor
    BY DrawnType DEF Core
  <1>1. CASE KeyQuit
    BY <1>0, <1>1 DEF KeyQuit, Continue, Core, TypeData, AnswersBehind, answers
  <1>2. CASE KeyEnter
    <2> DEFINE d == Drawn
    <2>1. CASE OutOfList(d)
      BY <1>0, <1>2, <2>1 DEF KeyEnter, Continue, Core, TypeData, AnswersBehind, answers
    <2>2. CASE ~OutOfList(d)
      <3>1. step' = IF Accepts(d) THEN step + 1 ELSE step
        BY <1>2, <2>2 DEF KeyEnter
      <3>2. /\ hostname' = IF step = 3 /\ hostname = << >> THEN <<DefaultHost>> ELSE hostname
            /\ edition' = IF step = 4 /\ d # NoSel THEN EditionAt[d + 1] ELSE edition
            /\ branch' = IF step = 5 /\ d # NoSel THEN BranchAt[d + 1] ELSE branch
            /\ filesystem' = IF step = 6 /\ d # NoSel THEN FilesystemAt[d + 1] ELSE filesystem
            /\ cursor' = NoSel
            /\ UNCHANGED <<username, password, disk>>
            /\ mode = "wizard"
            /\ Continue(FALSE, step')
        BY <1>2, <2>2 DEF KeyEnter, AfterEnter
      <3>3. step \in 0..9
        BY <1>2 DEF Core, TypeData, KeyEnter
      <3>4. step = 4 /\ d # NoSel => d \in 0..7
        BY <1>0, <2>2 DEF OutOfList, NumOptions, EditionAt, NoSel
      <3>5. step \in {5, 6} /\ d # NoSel => d \in 0..2
        BY <1>0, <2>2 DEF OutOfList, NumOptions, BranchAt, FilesystemAt, NoSel
      <3>6. step \in ListSteps => d # NoSel
        BY <1>0 DEF Drawn, ListSteps, NoSel
      <3>a. step' \in 0..10 /\ cursor' \in {NoSel} \cup 0..MaxCursor
        BY <3>1, <3>2, <3>3, WizardAssumption DEF NoSel
      <3>b. edition' \in {None} \cup {EditionAt[i] : i \in 1..8}
        BY <3>2, <3>4 DEF Core, TypeData
      <3>c. branch' \in {None} \cup {BranchAt[i] : i \in 1..3}
        BY <3>2, <3>5 DEF Core, TypeData
      <3>d. filesystem' \in {None} \cup {FilesystemAt[i] : i \in 1..3}
        BY <3>2, <3>5 DEF Core, TypeData
      <3>e. hostname' \in Text
        <4>1. <<DefaultHost>> \in Text
          BY AppendProperties, EmptySeq DEF Text
        <4>2. QED
          BY <3>2, <4>1 DEF Core, TypeData
      <3>f. mode' \in {"wizard", "install", "exit"}
        BY <3>2 DEF Continue
      <3>7. TypeData'
        BY <3>a, <3>b, <3>c, <3>d, <3>e, <3>f, <3>2 DEF Core, TypeData
      <3>8. AnswersBehind'
        BY <3>1, <3>2, <3>3, <3>4, <3>5, <3>6
           DEF Core, TypeData, AnswersBehind, Accepts, ListSteps, None, NoSel,
               EditionAt, BranchAt, FilesystemAt
      <3>9. QED
        BY <3>1, <3>2, <3>3, <3>7, <3>8 DEF Core, Continue
    <2>3. QED
      BY <2>1, <2>2
  <1>3. CASE KeyUp
    <2>1. /\ cursor' = IF Drawn # NoSel /\ Drawn > 0 THEN Drawn - 1 ELSE Drawn
          /\ mode = "wizard" /\ Continue(FALSE, step)
          /\ UNCHANGED <<step, username, password, hostname, disk, edition, branch, filesystem>>
      BY <1>3, Zenon DEF KeyUp, answers
    <2>2. QED
      BY <1>0, <2>1, WizardAssumption DEF Continue, Core, TypeData, AnswersBehind, NoSel
  <1>4. CASE KeyDown
    <2>1. /\ Drawn < MaxCursor
          /\ cursor' = IF Drawn # NoSel THEN Drawn + 1 ELSE Drawn
          /\ mode = "wizard" /\ Continue(FALSE, step)
          /\ UNCHANGED <<step, username, password, hostname, disk, edition, branch, filesystem>>
      BY <1>4, Zenon DEF KeyDown, answers
    <2>2. QED
      BY <1>0, <2>1, WizardAssumption DEF Continue, Core, TypeData, AnswersBehind, NoSel
  <1>5. CASE KeyOther
    BY <1>0, <1>5 DEF KeyOther, Continue, Core, TypeData, AnswersBehind, answers
  <1>6. ASSUME NEW c \in Chars, KeyChar(c)
        PROVE  Core'
    <2> DEFINE t == CharTarget(step)
    <2>1. /\ username' = IF t = "username" THEN Append(username, c) ELSE username
          /\ password' = IF t = "password" THEN Append(password, c) ELSE password
          /\ hostname' = IF t = "hostname" THEN Append(hostname, c) ELSE hostname
          /\ disk' = IF t = "disk" THEN Append(disk, c) ELSE disk
          /\ cursor' = Drawn
          /\ mode = "wizard" /\ Continue(FALSE, step)
          /\ UNCHANGED <<step, edition, branch, filesystem>>
      BY <1>6, Zenon DEF KeyChar
    <2>2. c \in Chars \cup {DefaultHost}
      OBVIOUS
    <2>3. \A f \in Text : Append(f, c) \in Text /\ Append(f, c) # << >>
      BY <2>2, AppendProperties DEF Text
    <2>4. TypeData'
      BY <1>0, <2>1, <2>3 DEF Core, TypeData, Continue
    <2>5. AnswersBehind'
      BY <2>1, <2>3 DEF Core, TypeData, AnswersBehind
    <2>6. QED
      BY <2>1, <2>4, <2>5 DEF Core, TypeData, Continue
  <1>7. CASE Finished
    BY <1>7 DEF Finished, vars, answers, Core, TypeData, AnswersBehind
  <1>8. CASE UNCHANGED vars
    BY <1>8 DEF vars, answers, Core, TypeData, AnswersBehind
  <1>9. QED
    BY <1>1, <1>2, <1>3, <1>4, <1>5, <1>6, <1>7, <1>8 DEF Next

LEMMA NextIInv == IInv /\ [Next]_vars => IInv'
  BY NextFlags, NextCore DEF IInv

\* The wizard's state always has its type.
THEOREM TypeCorrect == Spec => []TypeOK
  <1>1. IInv => TypeOK
    BY TypeSplit DEF IInv, Core
  <1>2. QED
    BY InitIInv, NextIInv, <1>1, PTL DEF Spec

\* perform_installation is only ever entered with every field it reads set:
\* the unwrap()s cannot panic and no string it interpolates is empty.
THEOREM InstallGateHolds == Spec => []InstallGate
  <1>1. IInv => InstallGate
    BY DEF IInv, Core, AnswersBehind, InstallGate, Complete
  <1>2. QED
    BY InitIInv, NextIInv, <1>1, PTL DEF Spec
=============================================================================
