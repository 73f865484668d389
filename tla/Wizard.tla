------------------------------- MODULE Wizard -------------------------------
(***************************************************************************)
(* The terminal wizard of the HackerOS installer: the loop of run_app,     *)
(* handle_enter, handle_char_input, and the parts of draw_ui that change   *)
(* state (src/Installer/src/main.rs).                                      *)
(*                                                                         *)
(* One iteration of run_app's loop is one action: draw_ui (which selects   *)
(* index 0 of an unselected list and clears the preview flag), then the    *)
(* handler of the key read, then the two checks: quit ends the program,    *)
(* current_step >= 10 hands the state to perform_installation.             *)
(* Text is a sequence of characters from Chars; the string "hackeros"      *)
(* that InstallerState::default() puts in hostname is the one token        *)
(* DefaultHost.  ListState's Option<usize> is NoSel or a number.           *)
(***************************************************************************)
EXTENDS Integers, Sequences

CONSTANTS
    Chars,      \* characters the user may type ("q" among them)
    MaxLen,     \* bound on the length of a typed field
    MaxCursor   \* bound on the list cursor, which Down never clamps

ASSUME WizardAssumption ==
    /\ "q" \in Chars
    /\ MaxLen \in Nat /\ MaxCursor \in Nat

DefaultHost == "hackeros"
NoSel == -1
None == "none"

EditionAt == <<"Official", "Gnome", "Xfce", "Blue", "Hydra",
               "Cybersecurity", "Wayfire", "Atomic">>
BranchAt == <<"Stable", "Testing", "Unstable">>
FilesystemAt == <<"Btrfs", "Ext4", "Zfs">>

\* The stages whose screen is a list, and the length of each list.
ListSteps == {4, 5, 6, 7}
NumOptions(s) == CASE s = 4 -> Len(EditionAt)
                   [] s = 5 -> Len(BranchAt)
                   [] s = 6 -> Len(FilesystemAt)
                   [] s = 7 -> 2

Text == Seq(Chars \cup {DefaultHost})

VARIABLES
    step,         \* current_step
    username, password, hostname, disk,
    edition, branch, filesystem, manual,
    preview,      \* preview_image
    quit,
    cursor,       \* list_state.selected()
    mode          \* "wizard", "install" (perform_installation called), "exit"

answers == <<username, password, hostname, disk, edition, branch, filesystem, manual>>
vars == <<step, answers, preview, quit, cursor, mode>>

TypeOK ==
    /\ step \in 0..10
    /\ username \in Text /\ password \in Text
    /\ hostname \in Text /\ disk \in Text
    /\ edition \in {None} \cup {EditionAt[i] : i \in 1..8}
    /\ branch \in {None} \cup {BranchAt[i] : i \in 1..3}
    /\ filesystem \in {None} \cup {FilesystemAt[i] : i \in 1..3}
    /\ manual \in BOOLEAN /\ preview \in BOOLEAN /\ quit \in BOOLEAN
    /\ cursor \in {NoSel} \cup 0..MaxCursor
    /\ mode \in {"wizard", "install", "exit"}

\* InstallerState::default() and ListState::default().
Init ==
    /\ step = 0
    /\ username = << >> /\ password = << >>
    /\ hostname = <<DefaultHost>> /\ disk = << >>
    /\ edition = None /\ branch = None /\ filesystem = None
    /\ manual = FALSE /\ preview = FALSE /\ quit = FALSE
    /\ cursor = NoSel
    /\ mode = "wizard"

\* The cursor as draw_ui leaves it: a list stage selects index 0 if unset.
Drawn == IF step \in ListSteps /\ cursor = NoSel THEN 0 ELSE cursor

\* The end of the loop body: quit breaks, current_step >= 10 installs.
Continue(q, s) == mode' = IF q THEN "exit" ELSE IF s >= 10 THEN "install" ELSE "wizard"

\* KeyCode::Char('q').
KeyQuit ==
    /\ mode = "wizard"
    /\ quit' = TRUE
    /\ cursor' = Drawn /\ preview' = FALSE
    /\ Continue(TRUE, step)
    /\ UNCHANGED <<step, answers>>

\* Mutant: the username stage advances without checking the field.
AcceptsAnyUser(d) ==
    CASE step \in {0, 1, 3, 9} -> TRUE
      [] step = 2 -> password # << >>
      [] step \in ListSteps -> d # NoSel
      [] step = 8 -> disk # << >>

\* handle_enter accepts the stage: the rule of each match arm.
Accepts(d) ==
    CASE step \in {0, 3, 9} -> TRUE
      [] step = 1 -> username # << >>
      [] step = 2 -> password # << >>
      [] step \in ListSteps -> d # NoSel
      [] step = 8 -> disk # << >>
      [] OTHER -> FALSE

\* The `_ => return Ok(())` arm of a list stage: the cursor is past the list.
OutOfList(d) == step \in {4, 5, 6} /\ d # NoSel /\ d >= NumOptions(step)

AfterEnter(d) == NoSel

\* KeyCode::Enter: handle_enter, then list_state.select(None) unless the
\* match returned early.
KeyEnter ==
    LET d == Drawn IN
    /\ mode = "wizard"
    /\ IF OutOfList(d)
       THEN /\ cursor' = d /\ preview' = FALSE
            /\ UNCHANGED <<step, answers>>
       ELSE /\ step' = IF Accepts(d) THEN step + 1 ELSE step
            /\ hostname' = IF step = 3 /\ hostname = << >> THEN <<DefaultHost>>
                                                           ELSE hostname
            /\ edition' = IF step = 4 /\ d # NoSel THEN EditionAt[d + 1] ELSE edition
            /\ preview' = (step = 4 /\ d # NoSel)
            /\ branch' = IF step = 5 /\ d # NoSel THEN BranchAt[d + 1] ELSE branch
            /\ filesystem' = IF step = 6 /\ d # NoSel THEN FilesystemAt[d + 1]
                                                     ELSE filesystem
            /\ manual' = IF step = 7 /\ d # NoSel THEN d = 1 ELSE manual
            /\ cursor' = AfterEnter(d)
            /\ UNCHANGED <<username, password, disk>>
    /\ Continue(FALSE, step')
    /\ UNCHANGED quit

\* KeyCode::Up: move up if something is selected and it is not index 0.
KeyUp ==
    LET d == Drawn IN
    /\ mode = "wizard"
    /\ cursor' = IF d # NoSel /\ d > 0 THEN d - 1 ELSE d
    /\ preview' = FALSE
    /\ Continue(FALSE, step)
    /\ UNCHANGED <<step, answers, quit>>

\* KeyCode::Down: select(selected + 1) with no upper bound.
KeyDown ==
    LET d == Drawn IN
    /\ mode = "wizard"
    /\ d < MaxCursor
    /\ cursor' = IF d # NoSel THEN d + 1 ELSE d
    /\ preview' = FALSE
    /\ Continue(FALSE, step)
    /\ UNCHANGED <<step, answers, quit>>

\* Mutant: the disk arm of handle_char_input also matches the summary stage.
CharTargetPastDisk(s) ==
    CASE s = 1 -> "username" [] s = 2 -> "password" [] s = 3 -> "hostname"
      [] s \in {8, 9} -> "disk" [] OTHER -> "none"

\* The field handle_char_input pushes onto at stage s.
CharTarget(s) ==
    CASE s = 1 -> "username" [] s = 2 -> "password" [] s = 3 -> "hostname"
      [] s = 8 -> "disk" [] OTHER -> "none"

\* KeyCode::Char(c) for c other than 'q' (matched first, as quit):
\* handle_char_input pushes c onto the field of a text stage and ignores it
\* elsewhere.
KeyChar(c) ==
    LET t == CharTarget(step)
        Push(f, name) == IF t = name THEN Append(f, c) ELSE f
    IN
    /\ mode = "wizard"
    /\ c # "q"
    /\ t = "username" => Len(username) < MaxLen
    /\ t = "password" => Len(password) < MaxLen
    /\ t = "hostname" => Len(hostname) < MaxLen
    /\ t = "disk" => Len(disk) < MaxLen
    /\ username' = Push(username, "username")
    /\ password' = Push(password, "password")
    /\ hostname' = Push(hostname, "hostname")
    /\ disk' = Push(disk, "disk")
    /\ cursor' = Drawn /\ preview' = FALSE
    /\ Continue(FALSE, step)
    /\ UNCHANGED <<step, edition, branch, filesystem, manual, quit>>

\* Any other key, or a key release: only draw_ui's effect.
KeyOther ==
    /\ mode = "wizard"
    /\ cursor' = Drawn /\ preview' = FALSE
    /\ Continue(FALSE, step)
    /\ UNCHANGED <<step, answers, quit>>

\* The wizard has handed over to perform_installation or exited.
Finished ==
    /\ mode # "wizard"
    /\ UNCHANGED vars

Next ==
    \/ KeyQuit \/ KeyEnter \/ KeyUp \/ KeyDown \/ KeyOther
    \/ \E c \in Chars : KeyChar(c)
    \/ Finished

\* No fairness: the user may stop pressing keys at any time.
Spec == Init /\ [][Next]_vars
-----------------------------------------------------------------------------
(***************************************************************************)
(* Properties.                                                             *)
(***************************************************************************)

\* Every field perform_installation reads is filled in when the wizard
\* hands over: the unwrap() calls on branch, filesystem and edition cannot
\* panic, and user, password, hostname and disk are non-empty.  handle_enter
\* is the only gate (spec 3).
Complete ==
    /\ username # << >> /\ password # << >>
    /\ hostname # << >> /\ disk # << >>
    /\ edition # None /\ branch # None /\ filesystem # None

InstallGate ==
    mode = "install" => Complete

\* An answer never changes once its stage has been passed: neither a key
\* typed on a later stage nor a later confirmation touches it.
FrozenAnswers ==
    [][ /\ step > 1 => username' = username
        /\ step > 2 => password' = password
        /\ step > 3 => hostname' = hostname
        /\ step > 4 => edition' = edition
        /\ step > 5 => branch' = branch
        /\ step > 6 => filesystem' = filesystem
        /\ step > 7 => manual' = manual
        /\ step > 8 => disk' = disk ]_vars

\* Spec 4.1: a list stage is confirmed only with the selected index mapped
\* through its positional table, i.e. with the cursor inside the list.
ConfirmedSelectionInRange ==
    [][ (step \in ListSteps /\ step' = step + 1) => Drawn < NumOptions(step) ]_vars

\* Spec 3: the hostname is the default only when left blank; otherwise it
\* is what the user typed, with no trace of the default in it.
Letters(s) == {s[i] : i \in DOMAIN s}
HostnameDefaultOrTyped ==
    mode = "install" => (hostname = <<DefaultHost>> \/ DefaultHost \notin Letters(hostname))
=============================================================================
