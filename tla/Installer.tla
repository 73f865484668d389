------------------------------ MODULE Installer ------------------------------
(***************************************************************************)
(* The installer process as a whole, run one or more times on the same    *)
(* live system: main (setup_terminal, run_app, teardown_terminal) around   *)
(* the wizard and the pipeline (src/Installer/src/main.rs).               *)
(*                                                                         *)
(* The wizard is abstracted to its outcome: the user quits, a terminal    *)
(* call of run_app fails, or a configuration from Configs is handed to     *)
(* perform_installation (WizardProofs shows every handed-over              *)
(* configuration is complete).  The pipeline is Pipeline's actions.  What  *)
(* outlives a process is the host's state: the tty's raw mode and          *)
(* alternate screen, the mounts, /tmp/hydra-look-and-feel, the installer's *)
(* own files and the target disk.  A new process starts with a fresh       *)
(* InstallerState but finds all of that as the last one left it.          *)
(***************************************************************************)
EXTENDS Pipeline

CONSTANTS
    TermFaults,  \* whether crossterm's terminal calls may return Err
    MaxRuns      \* how many times the installer is started

ASSUME InstallerAssumption ==
    TermFaults \in BOOLEAN /\ MaxRuns \in Nat

VARIABLES
    proc,     \* where the current process is; "none" when no process runs
    raw,      \* the tty is in raw mode
    alt,      \* the tty shows the alternate screen
    runs,     \* processes started so far
    termErr   \* a terminal call of the current process returned Err

ivars == <<proc, raw, alt, runs, termErr>>
allvars == <<vars, ivars>>

Procs == {"none", "setup", "screen", "wizard", "install", "teardown", "leave"}

\* Outcomes of a crossterm call: TRUE for Ok.
TermOutcomes == IF TermFaults THEN BOOLEAN ELSE {TRUE}

\* Mutant: main propagates run_app's error with `?` before the teardown.
AfterAppPropagate(ok) == IF ok THEN "teardown" ELSE "none"

\* main keeps run_app's result in res and calls teardown_terminal either way.
AfterApp(ok) == "teardown"

\* A fresh live system: nothing mounted, the installer installed, no clone
\* in /tmp, the tty in its normal mode.  No perform_installation has run:
\* status is "done" only so that no pipeline action is enabled.
IInit ==
    /\ cfg \in Configs
    /\ pc = 1
    /\ status = "done"
    /\ mountedAt = [m \in MountPoints |-> << >>]
    /\ sources = "host"
    /\ baseOn = "none"
    /\ targets = {}
    /\ badFetch = {}
    /\ installer = InstallerFiles
    /\ rebooted = FALSE
    /\ lastExit = "none"
    /\ cloned = FALSE
    /\ proc = "none"
    /\ raw = FALSE /\ alt = FALSE
    /\ runs = 0
    /\ termErr = FALSE

\* The user starts the installer (from its binary) on the live system.
Start ==
    /\ proc = "none"
    /\ ~rebooted
    /\ "binary" \in installer
    /\ runs < MaxRuns
    /\ proc' = "setup"
    /\ runs' = runs + 1
    /\ termErr' = FALSE
    /\ UNCHANGED <<vars, raw, alt>>

\* A crossterm call of main that returned Err: `?` ends the process.
TermFailed ==
    /\ termErr' = TRUE
    /\ proc' = "none"

\* setup_terminal: enable_raw_mode()?
EnableRaw(ok) ==
    /\ proc = "setup"
    /\ ok \in TermOutcomes
    /\ IF ok THEN raw' = TRUE /\ proc' = "screen" /\ UNCHANGED termErr
             ELSE TermFailed /\ UNCHANGED raw
    /\ UNCHANGED <<vars, alt, runs>>

\* setup_terminal: execute!(stdout, EnterAlternateScreen)?
EnterScreen(ok) ==
    /\ proc = "screen"
    /\ ok \in TermOutcomes
    /\ IF ok THEN alt' = TRUE /\ proc' = "wizard" /\ UNCHANGED termErr
             ELSE TermFailed /\ UNCHANGED alt
    /\ UNCHANGED <<vars, raw, runs>>

\* run_app returns Ok(()) on quit, or Err when Terminal::new, draw or
\* event::read fails.
AppReturns(ok) ==
    /\ proc = "wizard"
    /\ ok \in TermOutcomes
    /\ proc' = AfterApp(ok)
    /\ UNCHANGED <<vars, raw, alt, runs, termErr>>

\* current_step reached 10: perform_installation(state) with the answers of
\* this process; the host state is whatever earlier processes left.
BeginInstall ==
    /\ proc = "wizard"
    /\ proc' = "install"
    /\ cfg' \in Configs
    /\ pc' = 1
    /\ status' = "running"
    /\ lastExit' = "none"
    /\ UNCHANGED <<mountedAt, sources, baseOn, targets, badFetch, installer,
                   rebooted, cloned, raw, alt, runs, termErr>>

\* One call of perform_installation.
PipelineStep ==
    /\ proc = "install"
    /\ Next
    /\ Running
    /\ UNCHANGED ivars

\* perform_installation(state).await? returned; run_app breaks out.
InstallReturns ==
    /\ proc = "install"
    /\ ~Running
    /\ proc' = AfterApp(status = "done")
    /\ UNCHANGED <<vars, raw, alt, runs, termErr>>

\* teardown_terminal: disable_raw_mode()?
DisableRaw(ok) ==
    /\ proc = "teardown"
    /\ ok \in TermOutcomes
    /\ IF ok THEN raw' = FALSE /\ proc' = "leave" /\ UNCHANGED termErr
             ELSE TermFailed /\ UNCHANGED raw
    /\ UNCHANGED <<vars, alt, runs>>

\* teardown_terminal: execute!(stdout, LeaveAlternateScreen)?, then main
\* returns res.
LeaveScreen(ok) ==
    /\ proc = "leave"
    /\ ok \in TermOutcomes
    /\ IF ok THEN alt' = FALSE /\ proc' = "none" /\ UNCHANGED termErr
             ELSE TermFailed /\ UNCHANGED alt
    /\ UNCHANGED <<vars, raw, runs>>

\* No process runs and none is started again: the system rebooted, the
\* installer binary is gone, or the user stopped trying.
Halted ==
    /\ proc = "none"
    /\ UNCHANGED allvars

\* The steps the process takes by itself, as opposed to the user's.
ProcessStep ==
    \/ \E ok \in BOOLEAN : EnableRaw(ok) \/ EnterScreen(ok)
                           \/ DisableRaw(ok) \/ LeaveScreen(ok)
    \/ PipelineStep
    \/ InstallReturns

INext ==
    \/ Start
    \/ \E ok \in BOOLEAN : AppReturns(ok)
    \/ BeginInstall
    \/ ProcessStep
    \/ Halted

\* The process runs to its end once the user has answered; the user is
\* under no obligation to start it, answer or start it again.
ISpec == IInit /\ [][INext]_allvars /\ WF_allvars(ProcessStep)
-----------------------------------------------------------------------------
(***************************************************************************)
(* Properties.                                                             *)
(***************************************************************************)

\* main hands the terminal back on every path of run_app and the pipeline:
\* once a process has ended without a failing terminal call of its own,
\* raw mode and the alternate screen are off, even if an earlier process
\* left them on.
TerminalRestoredUnlessItFails ==
    proc = "none" /\ ~termErr => ~raw /\ ~alt
=============================================================================
