--------------------------- MODULE InstallerProofs ---------------------------
(***************************************************************************)
(* Proofs about the installer process: main hands the terminal back       *)
(* whenever its own terminal calls succeed, for every number of runs and  *)
(* every configuration.                                                    *)
(***************************************************************************)
EXTENDS Installer, TLAPS

\* The strengthening: between disable_raw_mode and LeaveAlternateScreen raw
\* mode is already off.
TermInv ==
    /\ TerminalRestoredUnlessItFails
    /\ proc = "leave" => ~raw

\* Nothing outside main's terminal calls touches the terminal variables.
LEMMA UserAndPipelineKeepTerm ==
    ASSUME TermInv,
           \/ Start
           \/ \E ok \in BOOLEAN : AppReturns(ok)
           \/ BeginInstall \/ PipelineStep \/ InstallReturns \/ Halted
           \/ UNCHANGED allvars
    PROVE  TermInv'
BY DEF TermInv, TerminalRestoredUnlessItFails, Start, AppReturns, AfterApp,
       BeginInstall, PipelineStep, InstallReturns, Halted, allvars, ivars

\* The four crossterm calls of setup_terminal and teardown_terminal.
LEMMA TermCallsKeepTerm ==
    ASSUME TermInv, NEW ok \in BOOLEAN,
           EnableRaw(ok) \/ EnterScreen(ok) \/ DisableRaw(ok) \/ LeaveScreen(ok)
    PROVE  TermInv'
<1>1. CASE EnableRaw(ok)
  BY <1>1 DEF TermInv, TerminalRestoredUnlessItFails, EnableRaw, TermFailed
<1>2. CASE EnterScreen(ok)
  BY <1>2 DEF TermInv, TerminalRestoredUnlessItFails, EnterScreen, TermFailed
<1>3. CASE DisableRaw(ok)
  BY <1>3 DEF TermInv, TerminalRestoredUnlessItFails, DisableRaw, TermFailed
<1>4. CASE LeaveScreen(ok)
  BY <1>4 DEF TermInv, TerminalRestoredUnlessItFails, LeaveScreen, TermFailed
<1>5. QED
  BY <1>1, <1>2, <1>3, <1>4

\* main restores the terminal on every path of run_app and of the pipeline:
\* a process that ends without a failing terminal call of its own leaves
\* the tty out of raw mode and off the alternate screen.
THEOREM TerminalRestoredHolds == ISpec => []TerminalRestoredUnlessItFails
<1>1. IInit => TermInv
  BY DEF IInit, TermInv, TerminalRestoredUnlessItFails
<1>2. TermInv /\ [INext]_allvars => TermInv'
  <2> SUFFICES ASSUME TermInv, [INext]_allvars PROVE TermInv'
    OBVIOUS
  <2>1. CASE \E ok \in BOOLEAN : EnableRaw(ok) \/ EnterScreen(ok)
                                 \/ DisableRaw(ok) \/ LeaveScreen(ok)
    BY <2>1, TermCallsKeepTerm
  <2>2. CASE ~\E ok \in BOOLEAN : EnableRaw(ok) \/ EnterScreen(ok)
                                  \/ DisableRaw(ok) \/ LeaveScreen(ok)
    BY <2>2, UserAndPipelineKeepTerm DEF INext, ProcessStep
  <2>3. QED
    BY <2>1, <2>2
<1>3. TermInv => TerminalRestoredUnlessItFails
  BY DEF TermInv
<1>4. QED
  BY <1>1, <1>2, <1>3, PTL DEF ISpec
=============================================================================
