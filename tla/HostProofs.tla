----------------------------- MODULE HostProofs -----------------------------
(***************************************************************************)
(* Theorems about Host, for any number of commands and faults: what the    *)
(* two commands say about a Linux host is true; in the second part, what   *)
(* they say about Windows.                                                 *)
(***************************************************************************)
EXTENDS Host, Sequences, SequenceTheorems, TLAPS

StepNames == {"stop", "copy", "query", "disable", "remove", "reload", "write", "enable", "say",
              "start", "delete", "admin", "Stop-Service", "Get-Service", "New-Service",
              "Start-Service", "sc-stop", "sc-delete"}
Instr == [do : StepNames, must : BOOLEAN]
Scripts == Seq(Instr)

\* s is what is left of plan.
Ends(s, plan) ==
  Len(s) <= Len(plan) /\ \A i \in 1..Len(s) : s[i] = plan[Len(plan) - Len(s) + i]

LEMMA Advance ==
  ASSUME NEW plan \in Scripts, NEW s \in Scripts, Ends(s, plan), s # << >>
  PROVE  /\ Tail(s) \in Scripts /\ Len(Tail(s)) = Len(s) - 1 /\ Ends(Tail(s), plan)
         /\ Len(s) \in 1..Len(plan) /\ Head(s) = plan[Len(plan) - Len(s) + 1]
  BY DEF Ends, Scripts

LEMMA Suffix ==
  ASSUME NEW plan \in Scripts, NEW s \in Scripts, Ends(s, plan), NEW m \in 1..Len(s)
  PROVE  /\ SubSeq(s, m, Len(s)) \in Scripts /\ Ends(SubSeq(s, m, Len(s)), plan)
         /\ Len(SubSeq(s, m, Len(s))) = Len(s) - m + 1
  <1> DEFINE t == SubSeq(s, m, Len(s))
  <1>1. Len(s) \in Nat /\ m \in Int /\ m <= Len(s) /\ m >= 1
    BY DEF Scripts
  <1>2. \A i \in m..Len(s) : s[i] \in Instr
    BY <1>1 DEF Scripts
  <1>3. t \in Scripts /\ Len(t) = Len(s) - m + 1 /\ \A i \in 1..(Len(s) - m + 1) : t[i] = s[m + i - 1]
    BY <1>1, <1>2, SubSeqProperties DEF Scripts
  <1>4. Len(plan) \in Nat
    BY DEF Scripts
  <1> HIDE DEF t
  <1>5. Ends(t, plan)
    BY <1>1, <1>3, <1>4 DEF Ends
  <1> QED BY <1>3, <1>5 DEF t

LEMMA Plans ==
  /\ L!Installation \in Scripts /\ Len(L!Installation) = 12
  /\ L!UninstallSystemd \in Scripts /\ Len(L!UninstallSystemd) = 6
  BY DEF L!Installation, L!UninstallSystemd, L!Try, L!Must, StepNames, Instr, Scripts

LEMMA Empty == ASSUME NEW plan \in Scripts PROVE << >> \in Scripts /\ Len(<< >>) = 0 /\ Ends(<< >>, plan)
  BY DEF Scripts, Ends

LEMMA Begun ==
  /\ L!InstallSystemd(FALSE) = L!Installation
  /\ Ends(L!Installation, L!Installation)
  /\ Ends(L!UninstallSystemd, L!UninstallSystemd)
  /\ L!InstallSystemd(TRUE) \in Scripts
  /\ Ends(L!InstallSystemd(TRUE), L!Installation)
  /\ Len(L!InstallSystemd(TRUE)) = 10
  <1>1. Ends(L!Installation, L!Installation) /\ Ends(L!UninstallSystemd, L!UninstallSystemd)
    BY Plans DEF Ends, Scripts
  <1>2. 3 \in 1..Len(L!Installation)
    BY Plans
  <1> DEFINE t == SubSeq(L!Installation, 3, Len(L!Installation))
  <1>3. t \in Scripts /\ Ends(t, L!Installation) /\ Len(t) = Len(L!Installation) - 3 + 1
    BY <1>1, <1>2, Plans, Suffix
  <1>4. L!InstallSystemd(TRUE) = t /\ L!InstallSystemd(FALSE) = L!Installation
    BY DEF L!InstallSystemd
  <1> HIDE DEF t
  <1>5. Len(t) = 10
    BY <1>3, Plans
  <1> QED BY <1>1, <1>3, <1>4, <1>5

-----------------------------------------------------------------------------
Plan(c) == IF c = "uninstall" THEN L!UninstallSystemd ELSE L!Installation

ScriptInv ==
  /\ command \in {"none", "install", "uninstall"}
  /\ script \in Scripts /\ Ends(script, Plan(command))
  /\ command = "none" => script = << >>
  /\ runs \in Nat /\ (script # << >> => runs > 0)

LEMMA InstallationSteps ==
  ASSUME NEW k \in 1..12, NEW c, c = L!Installation[k]
  PROVE  /\ c.do = "stop" => k \in {1, 4}
         /\ c.do = "copy" => k = 2
         /\ c.do = "query" => k = 3
         /\ c.do = "disable" => k = 5
         /\ c.do = "remove" => k = 6
         /\ c.do = "reload" => k \in {7, 9}
         /\ c.do = "write" => k = 8
         /\ c.do = "enable" => k = 10
         /\ c.do = "say" => k = 11
         /\ c.do = "start" => k = 12
         /\ c.do # "delete"
         /\ c.must <=> k \in {2, 8, 9, 10}
  BY DEF L!Installation, L!Try, L!Must

LEMMA UninstallSteps ==
  ASSUME NEW k \in 1..6, NEW c, c = L!UninstallSystemd[k]
  PROVE  /\ c.do = "stop" => k = 1
         /\ c.do = "disable" => k = 2
         /\ c.do = "remove" => k = 3
         /\ c.do = "reload" => k = 4
         /\ c.do = "delete" => k = 5
         /\ c.do = "say" => k = 6
         /\ c.do \notin {"copy", "query", "write", "enable", "start"}
         /\ c.must <=> k \in {3, 4}
  BY DEF L!UninstallSystemd, L!Try, L!Must

LEMMA Backwards ==
  /\ \A n \in 1..12 : 12 - n + 1 \in 1..12 /\ n = 13 - (12 - n + 1)
  /\ \A n \in 1..6 : 6 - n + 1 \in 1..6 /\ n = 7 - (6 - n + 1)
  OBVIOUS

\* The number of steps left.
Left == Len(script)

LEMMA Positions ==
  ASSUME ScriptInv, script # << >>
  PROVE  /\ command = "install" =>
              /\ Left \in 1..12
              /\ L!Step("stop") => Left \in {12, 9}
              /\ L!Step("copy") => Left = 11
              /\ L!Step("query") => Left = 10
              /\ L!Step("disable") => Left = 8
              /\ L!Step("remove") => Left = 7
              /\ L!Step("reload") => Left \in {6, 4}
              /\ L!Step("write") => Left = 5
              /\ L!Step("enable") => Left = 3
              /\ L!Step("say") => Left = 2
              /\ L!Step("start") => Left = 1
              /\ ~L!Step("delete")
              /\ Head(script).must <=> Left \in {11, 5, 4, 3}
         /\ command = "uninstall" =>
              /\ Left \in 1..6
              /\ L!Step("stop") => Left = 6
              /\ L!Step("disable") => Left = 5
              /\ L!Step("remove") => Left = 4
              /\ L!Step("reload") => Left = 3
              /\ L!Step("delete") => Left = 2
              /\ L!Step("say") => Left = 1
              /\ \A s \in {"copy", "query", "write", "enable", "start"} : ~L!Step(s)
              /\ Head(script).must <=> Left \in {4, 3}
         /\ command \in {"install", "uninstall"}
  <1>1. CASE command = "install"
    <2>1. PICK k \in 1..12 : Left = 13 - k /\ Head(script) = L!Installation[k]
      <3>1. Len(script) \in 1..12 /\ Head(script) = L!Installation[12 - Len(script) + 1]
        BY <1>1, Plans, Advance, ZenonT(40) DEF ScriptInv, Plan
      <3>2. 12 - Len(script) + 1 \in 1..12 /\ Len(script) = 13 - (12 - Len(script) + 1)
        BY <3>1, Backwards
      <3> QED BY <3>1, <3>2 DEF Left
    <2> QED BY <1>1, <2>1, InstallationSteps DEF L!Step
  <1>2. CASE command = "uninstall"
    <2>1. PICK k \in 1..6 : Left = 7 - k /\ Head(script) = L!UninstallSystemd[k]
      <3>1. Len(script) \in 1..6 /\ Head(script) = L!UninstallSystemd[6 - Len(script) + 1]
        BY <1>2, Plans, Advance DEF ScriptInv, Plan
      <3>2. 6 - Len(script) + 1 \in 1..6 /\ Len(script) = 7 - (6 - Len(script) + 1)
        BY <3>1, Backwards
      <3> QED BY <3>1, <3>2 DEF Left
    <2> QED BY <1>2, <2>1, UninstallSteps DEF L!Step
  <1> QED BY <1>1, <1>2 DEF ScriptInv

LEMMA Onward ==
  ASSUME ScriptInv, script # << >>, UNCHANGED <<command, runs>>, script' = Tail(script)
  PROVE  ScriptInv' /\ Left' = Left - 1
  <1>1. Plan(command) \in Scripts
    BY Plans DEF Plan
  <1> QED BY <1>1, Advance DEF ScriptInv, Plan, Left

LEMMA Ended ==
  ASSUME ScriptInv, UNCHANGED <<command, runs>>, script' = << >>
  PROVE  ScriptInv' /\ Left' = 0
  <1>1. Plan(command) \in Scripts
    BY Plans DEF Plan
  <1> QED BY <1>1, Empty DEF ScriptInv, Plan, Left

\* An install that found no service goes on after the removal.
LEMMA Skipped ==
  ASSUME ScriptInv, command = "install", Left = 10, UNCHANGED <<command, runs>>,
         script' = L!AfterRemoval
  PROVE  ScriptInv' /\ Left' = 5
  <1>1. script \in Scripts /\ Ends(script, L!Installation) /\ Len(script) = 10
    BY DEF ScriptInv, Plan, Left
  <1> DEFINE t == SubSeq(script, 6, Len(script))
  <1>2. 6 \in 1..Len(script)
    BY <1>1
  <1>3. t \in Scripts /\ Ends(t, L!Installation) /\ Len(t) = Len(script) - 6 + 1
    BY <1>1, <1>2, Plans, Suffix
  <1>4. script' = t
    BY DEF L!AfterRemoval
  <1> HIDE DEF t
  <1>5. Left' = 5
    BY <1>1, <1>3, <1>4 DEF Left
  <1>6. runs > 0
    BY <1>1 DEF ScriptInv
  <1>7. ScriptInv'
    BY <1>3, <1>4, <1>6 DEF ScriptInv, Plan
  <1> QED BY <1>5, <1>7

-----------------------------------------------------------------------------
\* What an install has achieved when there are n steps left, and when it says so.
InstallInv ==
  /\ command = "install" /\ Left > 0 =>
       /\ Left <= 10 => exe \notin {None, L!Partial}
       /\ Left <= 4 => unit = runs
       /\ Left <= 3 => loaded = runs
       /\ Left <= 2 => enabled
  /\ said = "installed" =>
       /\ command = "install" /\ Left <= 1 /\ runs > 0
       /\ exe \notin {None, L!Partial} /\ unit = runs /\ loaded = runs /\ enabled

\* An install without a fault has stopped the old process, and starts its own last.
\* None waits to be restarted before that, unless the query has missed it.
RepairInv ==
  clean /\ command = "install" /\ ~waiting =>
    /\ Left > 0 /\ Left <= 8 => proc = None /\ idle # "activating"
    /\ Left <= 1 => said = "installed"
    /\ Left = 0 => \/ proc = [cfg |-> runs, exe |-> exe]
                   \/ idle = "activating" /\ loaded = runs

\* What an uninstall without a fault has removed when there are n steps left.
UninstallInv ==
  /\ clean /\ command = "uninstall" /\ Left > 0 =>
       /\ Left <= 5 => proc = None /\ idle # "activating"
       /\ Left <= 4 => ~enabled
       /\ Left <= 3 => unit = None
       /\ Left <= 2 => loaded = None
       /\ Left <= 1 => exe = None
  /\ said = "uninstalled" =>
       /\ command = "uninstall" /\ Left = 0
       /\ clean => /\ exe = None /\ unit = None /\ loaded = None /\ ~enabled
                   /\ proc = None /\ idle # "activating"

FlagsInv == clean \in BOOLEAN /\ enabled \in BOOLEAN /\ waiting \in BOOLEAN

LinuxInv == ScriptInv /\ FlagsInv /\ InstallInv /\ RepairInv /\ UninstallInv

LEMMA EmptyLen == ASSUME ScriptInv PROVE Left \in Nat /\ (Left = 0 <=> script = << >>)
  BY DEF ScriptInv, Scripts, Left

LEMMA LinuxStep == LinuxInv /\ [L!Next]_(L!vars) => LinuxInv'
  <1> SUFFICES ASSUME LinuxInv, [L!Next]_(L!vars) PROVE LinuxInv'
    OBVIOUS
  <1> USE HostAssumption DEF HostAssumption
  <1>0. ScriptInv
    BY DEF LinuxInv
  <1>flags. FlagsInv /\ Left \in Nat /\ runs \in Nat
    BY <1>0, EmptyLen DEF LinuxInv, ScriptInv
  <1>install. InstallInv
    BY DEF LinuxInv
  <1>repair. RepairInv
    BY DEF LinuxInv
  <1>uninstall. UninstallInv
    BY DEF LinuxInv
  <1>1. CASE \E inTarget \in BOOLEAN : L!Install(inTarget)
    <2>1. PICK inTarget \in BOOLEAN : L!Install(inTarget)
      BY <1>1
    <2>2. /\ command' = "install" /\ runs' = runs + 1 /\ said' = "none" /\ clean' = TRUE /\ waiting' = FALSE
          /\ UNCHANGED <<exe, unit, loaded, enabled, proc, idle>>
          /\ script' = L!InstallSystemd(inTarget)
          /\ inTarget => exe \notin {None, L!Partial}
      BY <2>1 DEF L!Install, L!files, L!process, L!manager
    <2>3. script' \in Scripts /\ Ends(script', L!Installation)
          /\ (Left' = 12 \/ (Left' = 10 /\ exe \notin {None, L!Partial}))
      <3>1. CASE inTarget = TRUE
        BY <2>2, <3>1, Begun DEF Left
      <3>2. CASE inTarget = FALSE
        BY <2>2, <3>2, Begun, Plans DEF Left
      <3> QED BY <3>1, <3>2
    <2>4. ScriptInv'
      <3>1. Plan(command') = L!Installation
        BY <2>2 DEF Plan
      <3>2. runs' > 0 /\ runs' \in Nat
        BY <1>0, <2>2 DEF ScriptInv
      <3>3. Ends(script', Plan(command'))
        BY <2>3, <3>1
      <3>4. Ends(script, Plan(command))'
        BY <3>3 DEF Ends, Plan
      <3> QED BY <2>2, <2>3, <3>2, <3>4 DEF ScriptInv
    <2>7. FlagsInv'
      BY <1>flags, <2>2, <2>3 DEF FlagsInv
    <2>8. InstallInv'
      BY <1>flags, <1>install, <2>2, <2>3 DEF InstallInv, FlagsInv
    <2>9. RepairInv'
      BY <1>flags, <1>repair, <2>2, <2>3 DEF RepairInv, FlagsInv
    <2>10. UninstallInv'
      BY <1>flags, <1>uninstall, <2>2, <2>3 DEF UninstallInv, FlagsInv
    <2> QED BY <2>4, <2>7, <2>8, <2>9, <2>10 DEF LinuxInv
  <1>2. CASE L!Uninstall
    <2>1. /\ command' = "uninstall" /\ runs' = runs + 1 /\ said' \in {"none", "absent"}
          /\ clean' = TRUE /\ waiting' = FALSE /\ UNCHANGED <<exe, unit, loaded, enabled, proc, idle>>
          /\ script' \in {L!UninstallSystemd, << >>}
      BY <1>2 DEF L!Uninstall, L!files, L!process, L!manager
    <2>2. script' \in Scripts /\ Ends(script', L!UninstallSystemd)
          /\ (Left' = 6 \/ Left' = 0)
      BY <2>1, Begun, Plans, Empty DEF Left
    <2>3. ScriptInv'
      <3>1. Plan(command') = L!UninstallSystemd
        BY <2>1 DEF Plan
      <3>2. runs' > 0 /\ runs' \in Nat
        BY <1>0, <2>1 DEF ScriptInv
      <3>3. Ends(script', Plan(command'))
        BY <2>2, <3>1
      <3>4. Ends(script, Plan(command))'
        BY <3>3 DEF Ends, Plan
      <3> QED BY <2>1, <2>2, <3>2, <3>4 DEF ScriptInv
    <2>7. FlagsInv'
      BY <1>flags, <2>1, <2>2 DEF FlagsInv
    <2>8. InstallInv'
      BY <1>flags, <1>install, <2>1, <2>2 DEF InstallInv, FlagsInv
    <2>9. RepairInv'
      BY <1>flags, <1>repair, <2>1, <2>2 DEF RepairInv, FlagsInv
    <2>10. UninstallInv'
      BY <1>flags, <1>uninstall, <2>1, <2>2 DEF UninstallInv, FlagsInv
    <2> QED BY <2>3, <2>7, <2>8, <2>9, <2>10 DEF LinuxInv
  <1>3. CASE L!Stop
    <2>1. script # << >> /\ L!Step("stop") /\ script' = Tail(script) /\ UNCHANGED <<command, runs>>
      BY <1>3 DEF L!Stop, L!Step, L!Goto, L!files, L!process, L!manager, L!bounds
    <2>2. UNCHANGED <<command, clean, runs, exe, unit, loaded, enabled, said, waiting>> /\ proc' = None
          /\ idle' # "activating"
      BY <1>3 DEF L!Stop, L!Step, L!Goto, L!files, L!process, L!manager, L!bounds
    <2>3. (command = "install" /\ (Left = 9 \/ Left = 12)) \/ (command = "uninstall" /\ Left = 6)
      BY <1>0, <2>1, Positions
    <2>4. ScriptInv' /\ Left' = Left - 1
      BY <1>0, <2>1, Onward
    <2>7. FlagsInv'
      BY <1>flags, <2>2, <2>3, <2>4 DEF FlagsInv
    <2>8. InstallInv'
      BY <1>flags, <1>install, <2>2, <2>3, <2>4 DEF InstallInv, FlagsInv
    <2>9. RepairInv'
      BY <1>flags, <1>repair, <2>2, <2>3, <2>4 DEF RepairInv, FlagsInv
    <2>10. UninstallInv'
      BY <1>flags, <1>uninstall, <2>2, <2>3, <2>4 DEF UninstallInv, FlagsInv
    <2> QED BY <2>4, <2>7, <2>8, <2>9, <2>10 DEF LinuxInv
  <1>4. CASE L!Copy
    <2>1. script # << >> /\ L!Step("copy") /\ script' = Tail(script) /\ UNCHANGED <<command, runs>>
      BY <1>4 DEF L!Copy, L!Step, L!Goto, L!files, L!process, L!manager, L!bounds
    <2>2. UNCHANGED <<command, clean, runs, unit, loaded, enabled, proc, idle, said, waiting>> /\ exe' = runs
      BY <1>4 DEF L!Copy, L!Step, L!Goto, L!files, L!process, L!manager, L!bounds
    <2>3. command = "install" /\ Left = 11
      BY <1>0, <2>1, Positions
    <2>4. ScriptInv' /\ Left' = Left - 1
      BY <1>0, <2>1, Onward
    <2>5. runs > 0
      BY <1>0, <2>1 DEF ScriptInv
    <2>7. FlagsInv'
      BY <1>flags, <2>2, <2>3, <2>4, <2>5 DEF FlagsInv
    <2>8. InstallInv'
      BY <1>flags, <1>install, <2>2, <2>3, <2>4, <2>5 DEF InstallInv, FlagsInv, L!Partial
    <2>9. RepairInv'
      BY <1>flags, <1>repair, <2>2, <2>3, <2>4, <2>5 DEF RepairInv, FlagsInv, L!Partial
    <2>10. UninstallInv'
      BY <1>flags, <1>uninstall, <2>2, <2>3, <2>4, <2>5 DEF UninstallInv, FlagsInv, L!Partial
    <2> QED BY <2>4, <2>7, <2>8, <2>9, <2>10 DEF LinuxInv
  <1>5. CASE L!Query
    <2>1. /\ script # << >> /\ L!Step("query") /\ script' \in {Tail(script), L!AfterRemoval}
          /\ UNCHANGED <<command, clean, runs, exe, unit, loaded, enabled, proc, idle, said>>
      BY <1>5 DEF L!Query, L!Step, L!files, L!process, L!manager, L!bounds
    <2>2. waiting' = (idle = "activating" /\ ~enabled)
      BY <1>5 DEF L!Query
    <2>3. command = "install" /\ Left = 10
      BY <1>0, <2>1, Positions
    <2>4. script' = L!AfterRemoval /\ script' # Tail(script) => proc = None /\ ~enabled
      BY <1>5 DEF L!Query, L!Exists, L!IsActive
    <2>5. ScriptInv' /\ (Left' = 9 \/ (Left' = 5 /\ proc = None /\ ~enabled))
      <3>1. CASE script' = Tail(script)
        BY <1>0, <2>1, <2>3, <3>1, Onward
      <3>2. CASE script' # Tail(script)
        BY <1>0, <2>1, <2>3, <2>4, <3>2, Skipped
      <3> QED BY <3>1, <3>2
    <2>6. ~waiting' /\ ~enabled => idle # "activating"
      BY <2>2
    <2>7. FlagsInv'
      BY <1>flags, <2>1, <2>2, <2>3, <2>5 DEF FlagsInv
    <2>8. InstallInv'
      BY <1>flags, <1>install, <2>1, <2>3, <2>5 DEF InstallInv, FlagsInv
    <2>9. RepairInv'
      <3>1. Left' = 9 \/ (Left' = 5 /\ proc' = None /\ (~waiting' => idle' # "activating"))
        BY <2>1, <2>5, <2>6
      <3> QED BY <2>3, <3>1 DEF RepairInv
    <2>10. UninstallInv'
      BY <1>flags, <1>uninstall, <2>1, <2>3, <2>5 DEF UninstallInv, FlagsInv
    <2> QED BY <2>5, <2>7, <2>8, <2>9, <2>10 DEF LinuxInv
  <1>6. CASE L!Disable
    <2>1. script # << >> /\ L!Step("disable") /\ script' = Tail(script) /\ UNCHANGED <<command, runs>>
      BY <1>6 DEF L!Disable, L!Step, L!Goto, L!files, L!process, L!manager, L!bounds
    <2>2. UNCHANGED <<command, clean, runs, exe, unit, proc, idle, said, waiting>> /\ enabled' = FALSE /\ loaded' = unit
      BY <1>6 DEF L!Disable, L!Step, L!Goto, L!files, L!process, L!manager, L!bounds
    <2>3. (command = "install" /\ Left = 8) \/ (command = "uninstall" /\ Left = 5)
      BY <1>0, <2>1, Positions
    <2>4. ScriptInv' /\ Left' = Left - 1
      BY <1>0, <2>1, Onward
    <2>7. FlagsInv'
      BY <1>flags, <2>2, <2>3, <2>4 DEF FlagsInv
    <2>8. InstallInv'
      BY <1>flags, <1>install, <2>2, <2>3, <2>4 DEF InstallInv, FlagsInv
    <2>9. RepairInv'
      BY <1>flags, <1>repair, <2>2, <2>3, <2>4 DEF RepairInv, FlagsInv
    <2>10. UninstallInv'
      BY <1>flags, <1>uninstall, <2>2, <2>3, <2>4 DEF UninstallInv, FlagsInv
    <2> QED BY <2>4, <2>7, <2>8, <2>9, <2>10 DEF LinuxInv
  <1>7. CASE L!Remove
    <2>1. script # << >> /\ L!Step("remove") /\ script' = Tail(script) /\ UNCHANGED <<command, runs>>
      BY <1>7 DEF L!Remove, L!Step, L!Goto, L!files, L!process, L!manager, L!bounds
    <2>2. UNCHANGED <<command, clean, runs, exe, loaded, enabled, proc, idle, said, waiting>> /\ unit' = None
      BY <1>7 DEF L!Remove, L!Step, L!Goto, L!files, L!process, L!manager, L!bounds
    <2>3. (command = "install" /\ Left = 7) \/ (command = "uninstall" /\ Left = 4)
      BY <1>0, <2>1, Positions
    <2>4. ScriptInv' /\ Left' = Left - 1
      BY <1>0, <2>1, Onward
    <2>7. FlagsInv'
      BY <1>flags, <2>2, <2>3, <2>4 DEF FlagsInv
    <2>8. InstallInv'
      BY <1>flags, <1>install, <2>2, <2>3, <2>4 DEF InstallInv, FlagsInv
    <2>9. RepairInv'
      BY <1>flags, <1>repair, <2>2, <2>3, <2>4 DEF RepairInv, FlagsInv
    <2>10. UninstallInv'
      BY <1>flags, <1>uninstall, <2>2, <2>3, <2>4 DEF UninstallInv, FlagsInv
    <2> QED BY <2>4, <2>7, <2>8, <2>9, <2>10 DEF LinuxInv
  <1>8. CASE L!Reload
    <2>1. script # << >> /\ L!Step("reload") /\ script' = Tail(script) /\ UNCHANGED <<command, runs>>
      BY <1>8 DEF L!Reload, L!Step, L!Goto, L!files, L!process, L!manager, L!bounds
    <2>2. UNCHANGED <<command, clean, runs, exe, unit, enabled, proc, idle, said, waiting>> /\ loaded' = unit
      BY <1>8 DEF L!Reload, L!Step, L!Goto, L!files, L!process, L!manager, L!bounds
    <2>3. (command = "install" /\ (Left = 6 \/ Left = 4)) \/ (command = "uninstall" /\ Left = 3)
      BY <1>0, <2>1, Positions
    <2>4. ScriptInv' /\ Left' = Left - 1
      BY <1>0, <2>1, Onward
    <2>7. FlagsInv'
      BY <1>flags, <2>2, <2>3, <2>4 DEF FlagsInv
    <2>8. InstallInv'
      BY <1>flags, <1>install, <2>2, <2>3, <2>4 DEF InstallInv, FlagsInv
    <2>9. RepairInv'
      BY <1>flags, <1>repair, <2>2, <2>3, <2>4 DEF RepairInv, FlagsInv
    <2>10. UninstallInv'
      BY <1>flags, <1>uninstall, <2>2, <2>3, <2>4 DEF UninstallInv, FlagsInv
    <2> QED BY <2>4, <2>7, <2>8, <2>9, <2>10 DEF LinuxInv
  <1>9. CASE L!Write
    <2>1. script # << >> /\ L!Step("write") /\ script' = Tail(script) /\ UNCHANGED <<command, runs>>
      BY <1>9 DEF L!Write, L!Step, L!Goto, L!files, L!process, L!manager, L!bounds
    <2>2. UNCHANGED <<command, clean, runs, exe, loaded, enabled, proc, idle, said, waiting>> /\ unit' = runs
      BY <1>9 DEF L!Write, L!Step, L!Goto, L!files, L!process, L!manager, L!bounds
    <2>3. command = "install" /\ Left = 5
      BY <1>0, <2>1, Positions
    <2>4. ScriptInv' /\ Left' = Left - 1
      BY <1>0, <2>1, Onward
    <2>7. FlagsInv'
      BY <1>flags, <2>2, <2>3, <2>4 DEF FlagsInv
    <2>8. InstallInv'
      BY <1>flags, <1>install, <2>2, <2>3, <2>4 DEF InstallInv, FlagsInv
    <2>9. RepairInv'
      BY <1>flags, <1>repair, <2>2, <2>3, <2>4 DEF RepairInv, FlagsInv
    <2>10. UninstallInv'
      BY <1>flags, <1>uninstall, <2>2, <2>3, <2>4 DEF UninstallInv, FlagsInv
    <2> QED BY <2>4, <2>7, <2>8, <2>9, <2>10 DEF LinuxInv
  <1>10. CASE L!Enable
    <2>1. script # << >> /\ L!Step("enable") /\ script' = Tail(script) /\ UNCHANGED <<command, runs>>
      BY <1>10 DEF L!Enable, L!Step, L!Goto, L!files, L!process, L!manager, L!bounds
    <2>2. UNCHANGED <<command, clean, runs, exe, unit, proc, idle, said, waiting>> /\ enabled' = TRUE /\ loaded' = unit
      BY <1>10 DEF L!Enable, L!Step, L!Goto, L!files, L!process, L!manager, L!bounds
    <2>3. command = "install" /\ Left = 3
      BY <1>0, <2>1, Positions
    <2>4. ScriptInv' /\ Left' = Left - 1
      BY <1>0, <2>1, Onward
    <2>7. FlagsInv'
      BY <1>flags, <2>2, <2>3, <2>4 DEF FlagsInv
    <2>8. InstallInv'
      BY <1>flags, <1>install, <2>2, <2>3, <2>4 DEF InstallInv, FlagsInv
    <2>9. RepairInv'
      BY <1>flags, <1>repair, <2>2, <2>3, <2>4 DEF RepairInv, FlagsInv
    <2>10. UninstallInv'
      BY <1>flags, <1>uninstall, <2>2, <2>3, <2>4 DEF UninstallInv, FlagsInv
    <2> QED BY <2>4, <2>7, <2>8, <2>9, <2>10 DEF LinuxInv
  <1>11. CASE L!Start
    <2>1. script # << >> /\ L!Step("start") /\ script' = Tail(script) /\ UNCHANGED <<command, runs>>
      BY <1>11 DEF L!Start, L!Step, L!Goto, L!files, L!process, L!manager, L!bounds
    <2>2. UNCHANGED <<command, clean, runs, exe, unit, loaded, enabled, said, waiting>> 
          /\ IF proc = None /\ L!Whole(L!Unit) THEN L!Run(L!Unit) ELSE UNCHANGED <<proc, idle>>
      BY <1>11 DEF L!Start, L!Step, L!Goto, L!files, L!process, L!manager, L!bounds
    <2>3. command = "install" /\ Left = 1
      BY <1>0, <2>1, Positions
    <2>4. ScriptInv' /\ Left' = Left - 1
      BY <1>0, <2>1, Onward
    <2>5. runs > 0
      BY <1>0, <2>1 DEF ScriptInv
    <2>7. FlagsInv'
      BY <1>flags, <2>2, <2>3, <2>4, <2>5 DEF FlagsInv
    <2>8. InstallInv'
      BY <1>flags, <1>install, <2>2, <2>3, <2>4, <2>5 DEF InstallInv, FlagsInv, L!Run, L!Whole, L!Unit, L!Partial
    <2>9. RepairInv'
      <3> SUFFICES ASSUME clean, ~waiting
                   PROVE  said = "installed" /\ proc' = [cfg |-> runs, exe |-> exe]
        BY <1>flags, <2>2, <2>3, <2>4 DEF RepairInv, FlagsInv
      <3>1. proc = None /\ said = "installed"
        BY <1>repair, <2>3 DEF RepairInv
      <3>2. L!Whole(exe) /\ L!Unit = runs /\ L!Whole(runs)
        BY <1>install, <1>flags, <2>3, <2>5 DEF InstallInv, L!Whole, L!Unit, L!Partial
      <3> QED BY <2>2, <3>1, <3>2 DEF L!Run
    <2>10. UninstallInv'
      BY <1>flags, <1>uninstall, <2>2, <2>3, <2>4, <2>5 DEF UninstallInv, FlagsInv, L!Run, L!Whole, L!Unit, L!Partial
    <2> QED BY <2>4, <2>7, <2>8, <2>9, <2>10 DEF LinuxInv
  <1>12. CASE L!Delete
    <2>1. script # << >> /\ L!Step("delete") /\ script' = Tail(script) /\ UNCHANGED <<command, runs>>
      BY <1>12 DEF L!Delete, L!Step, L!Goto, L!files, L!process, L!manager, L!bounds
    <2>2. UNCHANGED <<command, clean, runs, unit, loaded, enabled, proc, idle, said, waiting>> /\ exe' = None
      BY <1>12 DEF L!Delete, L!Step, L!Goto, L!files, L!process, L!manager, L!bounds
    <2>3. command = "uninstall" /\ Left = 2
      BY <1>0, <2>1, Positions
    <2>4. ScriptInv' /\ Left' = Left - 1
      BY <1>0, <2>1, Onward
    <2>7. FlagsInv'
      BY <1>flags, <2>2, <2>3, <2>4 DEF FlagsInv
    <2>8. InstallInv'
      BY <1>flags, <1>install, <2>2, <2>3, <2>4 DEF InstallInv, FlagsInv
    <2>9. RepairInv'
      BY <1>flags, <1>repair, <2>2, <2>3, <2>4 DEF RepairInv, FlagsInv
    <2>10. UninstallInv'
      BY <1>flags, <1>uninstall, <2>2, <2>3, <2>4 DEF UninstallInv, FlagsInv
    <2> QED BY <2>4, <2>7, <2>8, <2>9, <2>10 DEF LinuxInv
  <1>13. CASE L!Say
    <2>1. script # << >> /\ L!Step("say") /\ script' = Tail(script) /\ UNCHANGED <<command, runs>>
      BY <1>13 DEF L!Say, L!Step, L!Goto, L!files, L!process, L!manager, L!bounds
    <2>2. UNCHANGED <<command, clean, runs, exe, unit, loaded, enabled, proc, idle, waiting>> /\ said' = IF command = "install" THEN "installed" ELSE "uninstalled"
      BY <1>13 DEF L!Say, L!Step, L!Goto, L!files, L!process, L!manager, L!bounds
    <2>3. (command = "install" /\ Left = 2) \/ (command = "uninstall" /\ Left = 1)
      BY <1>0, <2>1, Positions
    <2>4. ScriptInv' /\ Left' = Left - 1
      BY <1>0, <2>1, Onward
    <2>5. runs > 0
      BY <1>0, <2>1 DEF ScriptInv
    <2>7. FlagsInv'
      BY <1>flags, <2>2, <2>3, <2>4, <2>5 DEF FlagsInv
    <2>8. InstallInv'
      BY <1>flags, <1>install, <2>2, <2>3, <2>4, <2>5 DEF InstallInv, FlagsInv
    <2>9. RepairInv'
      BY <1>flags, <1>repair, <2>2, <2>3, <2>4, <2>5 DEF RepairInv, FlagsInv
    <2>10. UninstallInv'
      BY <1>flags, <1>uninstall, <2>2, <2>3, <2>4, <2>5 DEF UninstallInv, FlagsInv
    <2> QED BY <2>4, <2>7, <2>8, <2>9, <2>10 DEF LinuxInv
  <1>14. CASE L!CopyBusy \/ L!Fails
    <2>1. /\ script # << >> /\ clean' = FALSE /\ UNCHANGED <<loaded, enabled, proc, idle, waiting, command, runs>>
          /\ exe' = exe \/ L!Step("copy")
          /\ unit' = unit \/ L!Step("write")
          /\ L!Failed
      BY <1>14 DEF L!CopyBusy, L!Fails, L!Failed, L!Step, L!files, L!process, L!manager, L!bounds
    <2>2. CASE Head(script).must
      <3>1. script' = << >> /\ said' = "error"
        BY <2>1, <2>2 DEF L!Failed
      <3>2. ScriptInv' /\ Left' = 0
        BY <1>0, <2>1, <3>1, Ended
      <3>7. FlagsInv'
        BY <1>flags, <2>1, <3>1, <3>2 DEF FlagsInv
      <3>8. InstallInv'
        BY <1>flags, <1>install, <2>1, <3>1, <3>2 DEF InstallInv, FlagsInv
      <3>9. RepairInv'
        BY <1>flags, <1>repair, <2>1, <3>1, <3>2 DEF RepairInv, FlagsInv
      <3>10. UninstallInv'
        BY <1>flags, <1>uninstall, <2>1, <3>1, <3>2 DEF UninstallInv, FlagsInv
      <3> QED BY <3>2, <3>7, <3>8, <3>9, <3>10 DEF LinuxInv
    <2>3. CASE ~Head(script).must
      <3>1. said' = said /\ script' = IF L!Step("query") THEN L!AfterRemoval ELSE Tail(script)
        BY <2>1, <2>3 DEF L!Failed
      <3>2. exe' = exe /\ unit' = unit
        BY <1>0, <2>1, <2>3, Positions
      <3>3. ScriptInv' /\ (Left' = Left - 1 \/ Left' = 5) /\ (Left' = 5 => (Left = 6 \/ Left = 10))
        <4>1. CASE L!Step("query")
          <5>1. Left = 10 /\ command = "install"
            BY <1>0, <2>1, <4>1, Positions
          <5>2. script' = L!AfterRemoval
            BY <3>1, <4>1
          <5> QED BY <1>0, <2>1, <5>1, <5>2, Skipped
        <4>2. CASE ~L!Step("query")
          <5>1. script' = Tail(script)
            BY <3>1, <4>2
          <5>2. ScriptInv' /\ Left' = Left - 1
            BY <1>0, <2>1, <5>1, Onward
          <5> QED BY <1>0, <5>2, EmptyLen
        <4> QED BY <4>1, <4>2
      <3>4. \/ command = "install" /\ (Left = 1 \/ Left = 2 \/ Left = 6 \/ Left = 7 \/ Left = 8 \/ Left = 9 \/ Left = 10 \/ Left = 12)
            \/ command = "uninstall" /\ Left \in 1..6
        BY <1>0, <2>1, <2>3, Positions
      <3>7. FlagsInv'
        BY <1>flags, <2>1, <3>1, <3>2, <3>3, <3>4 DEF FlagsInv
      <3>8. InstallInv'
        BY <1>flags, <1>install, <2>1, <3>1, <3>2, <3>3, <3>4 DEF InstallInv, FlagsInv
      <3>9. RepairInv'
        BY <1>flags, <1>repair, <2>1, <3>1, <3>2, <3>3, <3>4 DEF RepairInv, FlagsInv
      <3>10. UninstallInv'
        BY <1>flags, <1>uninstall, <2>1, <3>1, <3>2, <3>3, <3>4 DEF UninstallInv, FlagsInv
      <3> QED BY <3>3, <3>7, <3>8, <3>9, <3>10 DEF LinuxInv
    <2> QED BY <2>2, <2>3
  <1>15. CASE L!CutOff
    <2>1. script' = << >> /\ clean' = FALSE /\ UNCHANGED <<exe, unit, loaded, enabled, proc, idle, waiting, command, said, runs>>
      BY <1>15 DEF L!CutOff, L!files, L!process, L!manager
    <2>2. ScriptInv' /\ Left' = 0
      BY <1>0, <2>1, Ended
    <2>7. FlagsInv'
      BY <1>flags, <2>1, <2>2 DEF FlagsInv
    <2>8. InstallInv'
      BY <1>flags, <1>install, <2>1, <2>2 DEF InstallInv, FlagsInv
    <2>9. RepairInv'
      BY <1>flags, <1>repair, <2>1, <2>2 DEF RepairInv, FlagsInv
    <2>10. UninstallInv'
      BY <1>flags, <1>uninstall, <2>1, <2>2 DEF UninstallInv, FlagsInv
    <2> QED BY <2>2, <2>7, <2>8, <2>9, <2>10 DEF LinuxInv
  <1>16. CASE L!Die
    <2>1. /\ ScriptInv' /\ proc # None /\ proc' = None
          /\ idle' \in IF L!Whole(loaded) THEN {"activating"} ELSE {"inactive", "failed"}
          /\ UNCHANGED <<exe, unit, loaded, enabled, command, script, said, clean, waiting, runs>>
      BY <1>0, <1>16 DEF L!Die, L!files, ScriptInv
    <2>2. runs \in Nat /\ Left' = Left
      BY <1>0, <2>1 DEF ScriptInv, Left
    <2>7. FlagsInv'
      BY <1>flags, <2>1, <2>2 DEF FlagsInv
    <2>8. InstallInv'
      BY <1>flags, <1>install, <2>1, <2>2 DEF InstallInv, FlagsInv
    <2>9. RepairInv'
      <3>1. CASE clean /\ command = "install" /\ ~waiting /\ Left = 0
        <4>1. said = "installed" /\ runs > 0 /\ loaded = runs
          BY <3>1, <1>repair, <1>install DEF RepairInv, InstallInv
        <4>2. idle' = "activating"
          BY <2>1, <2>2, <4>1 DEF L!Whole, L!Partial
        <4> QED BY <3>1, <2>1, <2>2, <4>1, <4>2 DEF RepairInv
      <3>2. CASE ~(clean /\ command = "install" /\ ~waiting /\ Left = 0)
        BY <3>2, <1>repair, <1>flags, <2>1, <2>2 DEF RepairInv
      <3> QED BY <3>1, <3>2
    <2>10. UninstallInv'
      BY <1>flags, <1>uninstall, <2>1, <2>2 DEF UninstallInv, FlagsInv, L!Whole
    <2> QED BY <2>1, <2>7, <2>8, <2>9, <2>10 DEF LinuxInv
  <1>17. CASE L!Restart
    <2>1. /\ ScriptInv' /\ idle = "activating"
          /\ IF L!Whole(L!Unit) THEN L!Whole(exe) /\ L!Run(L!Unit) ELSE idle' = "failed" /\ proc' = proc
          /\ UNCHANGED <<exe, unit, loaded, enabled, command, script, said, clean, waiting, runs>>
      BY <1>0, <1>17 DEF L!Restart, L!files, L!bounds, ScriptInv
    <2>2. runs \in Nat /\ Left' = Left
      BY <1>0, <2>1 DEF ScriptInv, Left
    <2>7. FlagsInv'
      BY <1>flags, <2>1, <2>2 DEF FlagsInv
    <2>8. InstallInv'
      BY <1>flags, <1>install, <2>1, <2>2 DEF InstallInv, FlagsInv
    <2>9. RepairInv'
      <3>1. CASE clean /\ command = "install" /\ ~waiting /\ Left = 0
        <4>1. said = "installed" /\ runs > 0 /\ loaded = runs
          BY <3>1, <1>repair, <1>install DEF RepairInv, InstallInv
        <4>2. L!Unit = runs /\ L!Whole(L!Unit)
          BY <2>2, <4>1 DEF L!Unit, L!Whole, L!Partial
        <4>3. proc' = [cfg |-> runs, exe |-> exe]
          BY <2>1, <4>2 DEF L!Run
        <4> QED BY <3>1, <2>1, <2>2, <4>1, <4>3 DEF RepairInv
      <3>2. CASE ~(clean /\ command = "install" /\ ~waiting /\ Left = 0)
        BY <3>2, <1>repair, <1>flags, <2>1, <2>2 DEF RepairInv
      <3> QED BY <3>1, <3>2
    <2>10. UninstallInv'
      BY <1>flags, <1>uninstall, <2>1, <2>2 DEF UninstallInv, FlagsInv
    <2> QED BY <2>1, <2>7, <2>8, <2>9, <2>10 DEF LinuxInv
  <1>18. CASE L!Boot
    <2>1. /\ script' = << >> /\ clean' = (clean /\ script = << >>) /\ loaded' = unit
          /\ IF L!Wanted THEN L!Run(unit) ELSE proc' = None /\ idle' = "inactive"
          /\ UNCHANGED <<exe, unit, enabled, command, said, waiting, runs>>
      BY <1>18 DEF L!Boot, L!files
    <2>2. ScriptInv' /\ Left' = 0
      BY <1>0, <2>1, Ended
    <2>3. script = << >> <=> Left = 0
      BY <1>0, EmptyLen
    <2>4. runs \in Nat
      BY <1>0 DEF ScriptInv
    <2>7. FlagsInv'
      BY <1>flags, <2>1, <2>2, <2>3, <2>4 DEF FlagsInv
    <2>8. InstallInv'
      BY <1>flags, <1>install, <2>1, <2>2, <2>3, <2>4 DEF InstallInv, FlagsInv
    <2>9. RepairInv'
      <3> SUFFICES ASSUME clean', command = "install", ~waiting
                   PROVE  said = "installed" /\ proc' = [cfg |-> runs, exe |-> exe]
        BY <2>1, <2>2 DEF RepairInv
      <3>1. clean /\ Left = 0
        BY <2>1, <2>3
      <3>2. said = "installed"
        BY <1>repair, <3>1 DEF RepairInv
      <3>3. exe \notin {None, L!Partial} /\ unit = runs /\ enabled /\ runs > 0
        BY <1>install, <3>2 DEF InstallInv
      <3>4. L!Wanted /\ L!Whole(exe)
        BY <2>4, <3>3 DEF L!Wanted, L!Whole, L!Partial
      <3> QED BY <2>1, <3>2, <3>3, <3>4 DEF L!Run
    <2>10. UninstallInv'
      BY <1>flags, <1>uninstall, <2>1, <2>2, <2>3, <2>4 DEF UninstallInv, FlagsInv, L!Wanted
    <2> QED BY <2>2, <2>7, <2>8, <2>9, <2>10 DEF LinuxInv
  <1>19. CASE UNCHANGED L!vars
    <2>1. UNCHANGED <<exe, unit, loaded, enabled, proc, idle, waiting, command, script, said, clean, runs>>
      BY <1>19 DEF L!vars, L!files, L!process, L!manager, L!bounds
    <2> QED BY <2>1 DEF LinuxInv, ScriptInv, FlagsInv, InstallInv, RepairInv, UninstallInv, Left
  <1> QED BY <1>1, <1>2, <1>3, <1>4, <1>5, <1>6, <1>7, <1>8, <1>9, <1>10, <1>11, <1>12, <1>13, <1>14, <1>15, <1>16, <1>17, <1>18, <1>19 DEF L!Next

LEMMA LinuxInit == L!Init => LinuxInv
  <1> SUFFICES ASSUME L!Init PROVE LinuxInv
    OBVIOUS
  <1> USE DEF L!Init
  <1>1. Plan(command) \in Scripts
    BY Plans DEF Plan
  <1>2. ScriptInv /\ Left = 0
    BY <1>1, Empty DEF ScriptInv, Left
  <1>3. FlagsInv /\ command = "none" /\ said = "none"
    BY DEF FlagsInv
  <1> QED BY <1>2, <1>3 DEF LinuxInv, InstallInv, RepairInv, UninstallInv

-----------------------------------------------------------------------------
HostInv == os \in {"linux", "windows"} /\ (os = "linux" => LinuxInv)

LEMMA HostStep == HostInv /\ [Next]_vars => HostInv'
  <1> SUFFICES ASSUME HostInv, [Next]_vars PROVE HostInv'
    OBVIOUS
  <1>1. CASE Linux
    <2>1. LinuxInv /\ os = "linux" /\ UNCHANGED os /\ [L!Next]_(L!vars)
      BY <1>1 DEF HostInv, Linux
    <2>2. LinuxInv'
      BY <2>1, LinuxStep
    <2> QED BY <2>1, <2>2 DEF HostInv
  <1>2. CASE Windows
    <2>1. os = "windows" /\ UNCHANGED os
      BY <1>2 DEF Windows
    <2> QED BY <2>1 DEF HostInv
  <1>3. CASE UNCHANGED vars
    <2>1. UNCHANGED os /\ UNCHANGED L!vars
      BY <1>3 DEF vars, linux, shared, L!vars, L!files, L!process, L!manager, L!bounds
    <2>2. LinuxInv => LinuxInv'
      BY <2>1, LinuxStep
    <2> QED BY <2>1, <2>2 DEF HostInv
  <1> QED BY <1>1, <1>2, <1>3 DEF Next

LEMMA HostAlways == Spec => []HostInv
  <1>1. Init => HostInv
    BY LinuxInit DEF Init, HostInv
  <1> QED BY <1>1, HostStep, PTL DEF Spec

(***************************************************************************)
(* Whatever fails, is cut off or is overtaken by a boot, and whatever      *)
(* earlier commands left behind: an install that has said "Service         *)
(* installed" has put a whole binary and an enabled unit there.            *)
(***************************************************************************)
THEOREM InstalledIsTrueAlways == Spec => []InstalledIsTrue
  <1>1. HostInv => InstalledIsTrue
    BY DEF HostInv, LinuxInv, InstallInv, InstalledIsTrue, L!InstalledIsTrue
  <1> QED BY <1>1, HostAlways, PTL

(***************************************************************************)
(* An install none of whose steps failed ends with its configuration       *)
(* running, or waiting to be restarted, whatever it found: also when the   *)
(* query answers "failed" and the removal is skipped.  The one exception   *)
(* is a service that was not enabled and waited for its restart.           *)
(***************************************************************************)
THEOREM InstallRepairsAlways == Spec => []InstallRepairs
  <1>1. HostInv => InstallRepairs
    <2> SUFFICES ASSUME HostInv, os = "linux", command = "install", script = << >>, clean, ~waiting
                 PROVE  /\ said = "installed"
                        /\ \/ proc = [cfg |-> runs, exe |-> exe]
                           \/ idle = "activating" /\ loaded = runs
      BY DEF InstallRepairs, L!InstallRepairs
    <2>1. RepairInv /\ Left = 0
      BY EmptyLen DEF HostInv, LinuxInv
    <2> QED BY <2>1 DEF RepairInv
  <1> QED BY <1>1, HostAlways, PTL

(***************************************************************************)
(* An uninstall none of whose steps failed leaves nothing, through the     *)
(* boots and restarts that follow.                                         *)
(***************************************************************************)
THEOREM UninstallLeavesNothingAlways == Spec => []UninstallLeavesNothing
  <1>1. HostInv => UninstallLeavesNothing
    BY DEF HostInv, LinuxInv, UninstallInv, UninstallLeavesNothing, L!UninstallLeavesNothing
  <1> QED BY <1>1, HostAlways, PTL

-----------------------------------------------------------------------------
(***************************************************************************)
(* Theorems about Host on Windows, for any number of commands, requests    *)
(* and faults: what an install without a fault says is true.  The types of *)
(* both systems' variables are at the end.                                 *)
(***************************************************************************)

Outside == W!InstallWindows(FALSE)
InPlace == W!InstallWindows(TRUE)

LEMMA WindowsPlans ==
  /\ Outside \in Scripts /\ Len(Outside) = 7 /\ Ends(Outside, Outside)
  /\ InPlace \in Scripts /\ Len(InPlace) = 5 /\ Ends(InPlace, InPlace)
  <1>1. Outside \in Scripts /\ Len(Outside) = 7
    BY DEF Outside, W!InstallWindows, W!Try, W!Must, StepNames, Instr, Scripts
  <1>2. InPlace \in Scripts /\ Len(InPlace) = 5
    BY DEF InPlace, W!InstallWindows, W!Try, W!Must, StepNames, Instr, Scripts
  <1> QED BY <1>1, <1>2 DEF Ends, Scripts

\* Which step comes at which place.
LEMMA OutsideSteps ==
  ASSUME NEW k \in 1..7, NEW c, c = Outside[k]
  PROVE  /\ c.do = "admin" => k = 1
         /\ c.do = "Stop-Service" => k = 2
         /\ c.do = "copy" => k = 3
         /\ c.do = "Get-Service" => k = 4
         /\ c.do = "New-Service" => k = 5
         /\ c.do = "say" => k = 6
         /\ c.do = "Start-Service" => k = 7
         /\ c.do # "sc-stop" /\ c.do # "sc-delete"
         /\ c.must => k = 1 \/ k = 3
         /\ k = 3 => c.must /\ c.do = "copy"
  BY DEF Outside, W!InstallWindows, W!Try, W!Must

LEMMA InPlaceSteps ==
  ASSUME NEW k \in 1..5, NEW c, c = InPlace[k]
  PROVE  /\ c.do = "admin" => k = 1
         /\ c.do = "Get-Service" => k = 2
         /\ c.do = "New-Service" => k = 3
         /\ c.do = "say" => k = 4
         /\ c.do = "Start-Service" => k = 5
         /\ c.do # "copy" /\ c.do # "Stop-Service" /\ c.do # "sc-stop" /\ c.do # "sc-delete"
         /\ c.must => k = 1
  BY DEF InPlace, W!InstallWindows, W!Try, W!Must

-----------------------------------------------------------------------------
Whole == wexe # None /\ wexe # W!Partial

\* An install on its way, and what it has made sure of.
PlanInv ==
  command = "install" =>
    /\ script \in Scripts
    /\ \/ Ends(script, Outside) /\ (0 < Left /\ Left <= 4 => Whole)
       \/ Ends(script, InPlace) /\ (0 < Left => Whole)

CommandInv ==
  /\ command \in {"none", "install", "uninstall"} /\ clean \in BOOLEAN
  /\ command = "none" => script = << >>
  /\ runs \in Nat /\ (script # << >> => runs > 0)
  /\ command = "install" => runs > 0

\* The process runs what is registered, and only a registration is deleted.
ProcessInv ==
  /\ doomed \in BOOLEAN
  /\ main = "off" => cfg = None
  /\ main # "off" => cfg = service /\ service # None
  /\ service = None => ~doomed

RegisteredInv ==
  /\ command = "install" /\ clean =>
       /\ Left = 3 => service = None
       /\ Left = 2 \/ Left = 1 => service = runs /\ ~doomed
  /\ said = "installed" =>
       /\ command = "install" /\ Left <= 1 /\ Whole
       /\ clean => service = runs /\ ~doomed

WindowsInv == PlanInv /\ CommandInv /\ ProcessInv /\ RegisteredInv

LEMMA FromTheEnd ==
  /\ \A n \in 1..7 : 7 - n + 1 \in 1..7 /\ n = 8 - (7 - n + 1)
  /\ \A n \in 1..5 : 5 - n + 1 \in 1..5 /\ n = 6 - (5 - n + 1)
  OBVIOUS

LEMMA Places ==
  ASSUME PlanInv, command = "install", script # << >>
  PROVE  /\ Left \in Nat /\ Left > 0
         /\ W!Step("admin") => Left = 7 \/ Left = 5
         /\ W!Step("Stop-Service") => Left = 6
         /\ W!Step("copy") => Left = 5
         /\ W!Step("Get-Service") => Left = 4
         /\ W!Step("New-Service") => Left = 3
         /\ W!Step("say") => Left = 2
         /\ W!Step("Start-Service") => Left = 1
         /\ ~W!Step("sc-stop") /\ ~W!Step("sc-delete")
         /\ W!Step("Get-Service") \/ W!Step("New-Service") \/ W!Step("say") \/ W!Step("Start-Service")
              => Whole /\ ~Head(script).must
         /\ W!Step("copy") => Head(script).must
         /\ Left = 5 => W!Step("copy") \/ Whole
  <1>0. script \in Scripts
    BY DEF PlanInv
  <1>1. CASE Ends(script, Outside) /\ (0 < Left /\ Left <= 4 => Whole)
    <2>1. PICK k \in 1..7 : Left = 8 - k /\ Head(script) = Outside[k]
      <3>1. Len(script) \in 1..7 /\ Head(script) = Outside[7 - Len(script) + 1]
        BY <1>0, <1>1, WindowsPlans, Advance
      <3>2. 7 - Len(script) + 1 \in 1..7 /\ Len(script) = 8 - (7 - Len(script) + 1)
        BY <3>1, FromTheEnd
      <3> QED BY <3>1, <3>2 DEF Left
    <2> QED BY <1>1, <2>1, OutsideSteps DEF W!Step
  <1>2. CASE Ends(script, InPlace) /\ (0 < Left => Whole)
    <2>1. PICK k \in 1..5 : Left = 6 - k /\ Head(script) = InPlace[k]
      <3>1. Len(script) \in 1..5 /\ Head(script) = InPlace[5 - Len(script) + 1]
        BY <1>0, <1>2, WindowsPlans, Advance
      <3>2. 5 - Len(script) + 1 \in 1..5 /\ Len(script) = 6 - (5 - Len(script) + 1)
        BY <3>1, FromTheEnd
      <3> QED BY <3>1, <3>2 DEF Left
    <2> QED BY <1>2, <2>1, InPlaceSteps DEF W!Step
  <1> QED BY <1>1, <1>2 DEF PlanInv

\* The three ways a step leaves the script.
LEMMA PlanOnward ==
  ASSUME PlanInv, script # << >>, UNCHANGED command, script' = Tail(script),
         Whole => Whole', command = "install" /\ Left = 5 => Whole'
  PROVE  PlanInv' /\ (command = "install" => Left' = Left - 1)
  <1> SUFFICES ASSUME command = "install" PROVE PlanInv' /\ Left' = Left - 1
    BY DEF PlanInv
  <1>0. script \in Scripts /\ Left \in Nat /\ Left > 0
    BY Places DEF PlanInv
  <1>1. CASE Ends(script, Outside) /\ (0 < Left /\ Left <= 4 => Whole)
    <2>1. script' \in Scripts /\ Ends(script', Outside) /\ Left' = Left - 1
      BY <1>0, <1>1, WindowsPlans, Advance DEF Left
    <2>2. 0 < Left' /\ Left' <= 4 => Whole'
      BY <1>0, <1>1, <2>1
    <2>3. Ends(script, Outside)'
      BY <2>1 DEF Ends, Outside, W!InstallWindows, W!Try, W!Must
    <2> QED BY <2>1, <2>2, <2>3 DEF PlanInv
  <1>2. CASE Ends(script, InPlace) /\ (0 < Left => Whole)
    <2>1. script' \in Scripts /\ Ends(script', InPlace) /\ Left' = Left - 1
      BY <1>0, <1>2, WindowsPlans, Advance DEF Left
    <2>2. Whole'
      BY <1>0, <1>2
    <2>3. Ends(script, InPlace)'
      BY <2>1 DEF Ends, InPlace, W!InstallWindows, W!Try, W!Must
    <2> QED BY <2>1, <2>2, <2>3 DEF PlanInv
  <1> QED BY <1>1, <1>2 DEF PlanInv

LEMMA PlanEnded ==
  ASSUME UNCHANGED command, script' = << >>
  PROVE  PlanInv' /\ Left' = 0
  <1>1. << >> \in Scripts /\ Len(<< >>) = 0 /\ Ends(<< >>, Outside)
    BY WindowsPlans, Empty
  <1>2. Ends(script, Outside)' /\ Left' = 0 /\ script' \in Scripts
    BY <1>1 DEF Left, Ends, Outside, W!InstallWindows, W!Try, W!Must
  <1> QED BY <1>2 DEF PlanInv

LEMMA PlanStays ==
  ASSUME PlanInv, UNCHANGED <<command, script>>, Whole => Whole'
  PROVE  PlanInv' /\ Left' = Left
  <1>1. Left' = Left
    BY DEF Left
  <1>2. Ends(script, Outside) => Ends(script, Outside)'
    BY DEF Ends, Outside, W!InstallWindows, W!Try, W!Must
  <1>3. Ends(script, InPlace) => Ends(script, InPlace)'
    BY DEF Ends, InPlace, W!InstallWindows, W!Try, W!Must
  <1> QED BY <1>1, <1>2, <1>3 DEF PlanInv

-----------------------------------------------------------------------------
LEMMA WindowsInit == Init => WindowsInv
  <1> SUFFICES ASSUME Init PROVE WindowsInv
    OBVIOUS
  <1> USE HostAssumption DEF HostAssumption
  <1>1. /\ command = "none" /\ script = << >> /\ said = "none" /\ clean = TRUE /\ runs = 0
        /\ doomed = FALSE /\ main = "off" /\ cfg = None /\ service = None
    BY DEF Init, W!Init
  <1> QED BY <1>1 DEF WindowsInv, PlanInv, CommandInv, ProcessInv, RegisteredInv

LEMMA WindowsStep == WindowsInv /\ [W!Next]_(W!vars) => WindowsInv'
  <1> SUFFICES ASSUME WindowsInv, [W!Next]_(W!vars) PROVE WindowsInv'
    OBVIOUS
  <1> USE HostAssumption DEF HostAssumption
  <1>plan. PlanInv
    BY DEF WindowsInv
  <1>cmd. CommandInv
    BY DEF WindowsInv
  <1>proc. ProcessInv
    BY DEF WindowsInv
  <1>reg. RegisteredInv
    BY DEF WindowsInv
  <1>1. CASE W!Execute \/ W!RecvFails \/ W!Ask
    <2>1. /\ UNCHANGED <<wexe, service, doomed, command, script, said, clean, runs>>
          /\ \/ main' = main /\ cfg' = cfg
             \/ main # "off" /\ main' # "off" /\ cfg' = cfg
             \/ main' = "off" /\ cfg' = None
      <3> USE DEF W!host, W!cmd, W!bounds, W!Fault
      <3>1. CASE W!ReportRunning
        BY <3>1 DEF W!ReportRunning
      <3>2. CASE W!ReceiveErr
        BY <3>2 DEF W!ReceiveErr
      <3>3. CASE W!Interrogate
        BY <3>3 DEF W!Interrogate
      <3>4. CASE W!StopOrShutdown
        BY <3>4 DEF W!StopOrShutdown
      <3>5. CASE W!Leave
        BY <3>5 DEF W!Leave
      <3>6. CASE W!RecvFails
        BY <3>6 DEF W!RecvFails
      <3>7. CASE W!Ask
        BY <3>7 DEF W!Ask
      <3> QED BY <1>1, <3>1, <3>2, <3>3, <3>4, <3>5, <3>6, <3>7 DEF W!Execute
    <2>2. PlanInv' /\ Left' = Left
      BY <1>plan, <2>1, PlanStays DEF Whole
    <2>3. CommandInv'
      BY <1>cmd, <2>1 DEF CommandInv
    <2>4. ProcessInv'
      BY <1>proc, <2>1 DEF ProcessInv
    <2>5. RegisteredInv'
      BY <1>reg, <2>1, <2>2 DEF RegisteredInv, Whole
    <2> QED BY <2>2, <2>3, <2>4, <2>5 DEF WindowsInv
  <1>2. CASE \E inTarget \in BOOLEAN : W!Install(inTarget)
    <2>1. PICK inTarget \in BOOLEAN : W!Install(inTarget)
      BY <1>2
    <2>2. /\ UNCHANGED <<wexe, service, doomed, main, cfg>>
          /\ command' = "install" /\ said' = "none" /\ clean' = TRUE /\ runs' = runs + 1
          /\ inTarget => Whole
          /\ script' = IF inTarget THEN InPlace ELSE Outside
      BY <2>1 DEF W!Install, W!InstallWindows, InPlace, Outside, Whole, W!host, W!process
    <2>3. script' \in Scripts /\ Left' \in {7, 5}
      BY <2>2, WindowsPlans DEF Left
    <2>4. PlanInv'
      <3>1. CASE inTarget = TRUE
        <4>1. script' = InPlace /\ Whole'
          BY <2>2, <3>1 DEF Whole
        <4>2. Ends(script', InPlace)
          BY <4>1, WindowsPlans
        <4>3. Ends(script, InPlace)'
          BY <4>2 DEF Ends, InPlace, W!InstallWindows, W!Try, W!Must
        <4> QED BY <2>2, <2>3, <4>1, <4>3 DEF PlanInv
      <3>2. CASE inTarget = FALSE
        <4>1. script' = Outside /\ Left' = 7
          BY <2>2, <3>2, WindowsPlans DEF Left
        <4>2. Ends(script', Outside)
          BY <4>1, WindowsPlans
        <4>3. Ends(script, Outside)'
          BY <4>2 DEF Ends, Outside, W!InstallWindows, W!Try, W!Must
        <4> QED BY <2>3, <4>1, <4>3 DEF PlanInv
      <3> QED BY <3>1, <3>2
    <2>5. CommandInv'
      BY <1>cmd, <2>2 DEF CommandInv
    <2>6. ProcessInv'
      BY <1>proc, <2>2 DEF ProcessInv
    <2>7. RegisteredInv'
      BY <2>2, <2>3 DEF RegisteredInv
    <2> QED BY <2>4, <2>5, <2>6, <2>7 DEF WindowsInv
  <1>3. CASE W!Uninstall
    <2>1. /\ UNCHANGED <<wexe, service, doomed, main, cfg>>
          /\ command' = "uninstall" /\ said' = "none" /\ clean' = TRUE /\ runs' = runs + 1
      BY <1>3 DEF W!Uninstall, W!host, W!process
    <2>2. PlanInv'
      BY <2>1 DEF PlanInv
    <2>3. CommandInv'
      BY <1>cmd, <2>1 DEF CommandInv
    <2>4. ProcessInv'
      BY <1>proc, <2>1 DEF ProcessInv
    <2>5. RegisteredInv'
      BY <2>1 DEF RegisteredInv
    <2> QED BY <2>2, <2>3, <2>4, <2>5 DEF WindowsInv
  <1>4. CASE W!Admin
    <2>1. /\ script # << >> /\ UNCHANGED <<wexe, service, doomed, cfg, main, command, said, clean, runs>>
          /\ script' = Tail(script)
      BY <1>4 DEF W!Admin, W!Step, W!Goto, W!host, W!process, W!cmd, W!bounds
    <2>2. command = "install" => (Left = 5 => Whole) /\ (Left = 7 \/ Left = 5)
      BY <1>plan, <1>4, <2>1, Places DEF W!Admin, W!Step
    <2>3. PlanInv' /\ (command = "install" => Left' = Left - 1 /\ Left \in Nat)
      BY <1>plan, <2>1, <2>2, Places, PlanOnward DEF Whole
    <2>4. CommandInv'
      BY <1>cmd, <2>1 DEF CommandInv
    <2>5. ProcessInv'
      BY <1>proc, <2>1 DEF ProcessInv
    <2>6. RegisteredInv'
      BY <1>cmd, <1>reg, <2>1, <2>2, <2>3 DEF RegisteredInv, CommandInv, Whole
    <2> QED BY <2>3, <2>4, <2>5, <2>6 DEF WindowsInv
  <1>5. CASE W!StopService
    <2>1. /\ script # << >> /\ UNCHANGED <<wexe, service, doomed, main, cfg, command, said, clean, runs>>
          /\ script' = Tail(script) \/ script' = script
      BY <1>5 DEF W!StopService, W!Step, W!Goto, W!host, W!process, W!cmd, W!bounds
    <2>2. command = "install" => Left = 6
      BY <1>plan, <1>5, <2>1, Places DEF W!StopService, W!Step
    <2>3. PlanInv' /\ (command = "install" => Left' \in {5, 6})
      <3>1. CASE script' = Tail(script)
        BY <1>plan, <2>1, <2>2, <3>1, PlanOnward DEF Whole
      <3>2. CASE script' = script
        BY <1>plan, <2>1, <2>2, <3>2, PlanStays DEF Whole
      <3> QED BY <2>1, <3>1, <3>2
    <2>4. CommandInv'
      BY <1>cmd, <2>1 DEF CommandInv
    <2>5. ProcessInv'
      BY <1>proc, <2>1 DEF ProcessInv
    <2>6. RegisteredInv'
      BY <1>cmd, <1>reg, <2>1, <2>2, <2>3 DEF RegisteredInv, CommandInv, Whole
    <2> QED BY <2>3, <2>4, <2>5, <2>6 DEF WindowsInv
  <1>6. CASE W!ScStop
    <2>1. /\ script # << >> /\ UNCHANGED <<wexe, service, doomed, main, cfg, command, said, clean, runs>>
          /\ script' = Tail(script)
      BY <1>6 DEF W!ScStop, W!Step, W!Goto, W!host, W!process, W!cmd, W!bounds
    <2>2. command # "install"
      BY <1>plan, <1>6, <2>1, Places DEF W!ScStop, W!Step
    <2>3. PlanInv' /\ (command = "install" => Left' = Left - 1 /\ Left \in Nat)
      BY <1>plan, <2>1, <2>2, Places, PlanOnward DEF Whole
    <2>4. CommandInv'
      BY <1>cmd, <2>1 DEF CommandInv
    <2>5. ProcessInv'
      BY <1>proc, <2>1 DEF ProcessInv
    <2>6. RegisteredInv'
      BY <1>cmd, <1>reg, <2>1, <2>2, <2>3 DEF RegisteredInv, CommandInv, Whole
    <2> QED BY <2>3, <2>4, <2>5, <2>6 DEF WindowsInv
  <1>7. CASE W!Copy
    <2>1. /\ script # << >> /\ UNCHANGED <<service, doomed, main, cfg, command, said, clean, runs>>
          /\ script' = Tail(script)
          /\ wexe' = runs
      BY <1>7 DEF W!Copy, W!Step, W!Goto, W!host, W!process, W!cmd, W!bounds
    <2>2. Whole' /\ (command = "install" => Left = 5)
      <3>1. Whole'
        BY <1>cmd, <2>1 DEF CommandInv, Whole, W!Partial
      <3> QED BY <1>plan, <1>7, <2>1, <3>1, Places DEF W!Copy, W!Step
    <2>3. PlanInv' /\ (command = "install" => Left' = Left - 1 /\ Left \in Nat)
      BY <1>plan, <2>1, <2>2, Places, PlanOnward DEF Whole
    <2>4. CommandInv'
      BY <1>cmd, <2>1 DEF CommandInv
    <2>5. ProcessInv'
      BY <1>proc, <2>1 DEF ProcessInv
    <2>6. RegisteredInv'
      BY <1>cmd, <1>reg, <2>1, <2>2, <2>3 DEF RegisteredInv, CommandInv, Whole
    <2> QED BY <2>3, <2>4, <2>5, <2>6 DEF WindowsInv
  <1>8. CASE W!GetService
    <2>1. /\ script # << >> /\ UNCHANGED <<wexe, service, doomed, main, cfg, command, clean, runs>>
          /\ \/ script' = << >> /\ said' \in {"error", "absent"}
             \/ script' = Tail(script) /\ said' = said /\ (command = "install" => service = None)
      BY <1>8 DEF W!GetService, W!Step, W!Goto, W!host, W!process, W!cmd, W!bounds
    <2>2. command = "install" => Left = 4
      BY <1>plan, <1>8, <2>1, Places DEF W!GetService, W!Step
    <2>3. PlanInv' /\ (command = "install" => Left' = 0 \/ (Left' = 3 /\ said' = said /\ service = None))
      <3>1. CASE script' = << >>
        BY <2>1, <3>1, PlanEnded
      <3>2. CASE script' = Tail(script) /\ said' = said /\ (command = "install" => service = None)
        BY <1>plan, <2>1, <2>2, <3>2, PlanOnward, Places DEF Whole
      <3> QED BY <2>1, <3>1, <3>2
    <2>4. CommandInv'
      BY <1>cmd, <2>1 DEF CommandInv
    <2>5. ProcessInv'
      BY <1>proc, <2>1 DEF ProcessInv
    <2>6. RegisteredInv'
      BY <1>cmd, <1>reg, <2>1, <2>2, <2>3 DEF RegisteredInv, CommandInv, Whole
    <2> QED BY <2>3, <2>4, <2>5, <2>6 DEF WindowsInv
  <1>9. CASE W!NewService
    <2>1. /\ script # << >> /\ UNCHANGED <<wexe, doomed, main, cfg, command, said, clean, runs>>
          /\ script' = Tail(script)
          /\ service' = IF service = None THEN runs ELSE service
      BY <1>9 DEF W!NewService, W!Step, W!Goto, W!host, W!process, W!cmd, W!bounds
    <2>2. (command = "install" => Left = 3) /\ (command # "install" => said' # "installed")
      <3>1. command # "install" => said' # "installed"
        BY <1>reg, <2>1 DEF RegisteredInv
      <3> QED BY <1>plan, <1>9, <2>1, <3>1, Places DEF W!NewService, W!Step
    <2>3. PlanInv' /\ (command = "install" => Left' = Left - 1 /\ Left \in Nat)
      BY <1>plan, <2>1, <2>2, Places, PlanOnward DEF Whole
    <2>4. CommandInv'
      BY <1>cmd, <2>1 DEF CommandInv
    <2>5. ProcessInv'
      BY <1>proc, <2>1 DEF ProcessInv
    <2>6. RegisteredInv'
      BY <1>cmd, <1>reg, <1>proc, <2>1, <2>2, <2>3 DEF RegisteredInv, ProcessInv, CommandInv, Whole
    <2> QED BY <2>3, <2>4, <2>5, <2>6 DEF WindowsInv
  <1>10. CASE W!StartService
    <2>1. /\ script # << >> /\ UNCHANGED <<wexe, service, doomed, command, said, clean, runs>>
          /\ script' = Tail(script)
          /\ \/ main' = main /\ cfg' = cfg
             \/ main' = "starting" /\ cfg' = service /\ service # None
      BY <1>10 DEF W!StartService, W!Step, W!Goto, W!host, W!process, W!cmd, W!bounds, W!Started, W!Startable
    <2>2. command = "install" => Left = 1
      BY <1>plan, <1>10, <2>1, Places DEF W!StartService, W!Step, W!Started, W!Startable
    <2>3. PlanInv' /\ (command = "install" => Left' = Left - 1 /\ Left \in Nat)
      BY <1>plan, <2>1, <2>2, Places, PlanOnward DEF Whole
    <2>4. CommandInv'
      BY <1>cmd, <2>1 DEF CommandInv
    <2>5. ProcessInv'
      BY <1>proc, <2>1 DEF ProcessInv
    <2>6. RegisteredInv'
      BY <1>cmd, <1>reg, <2>1, <2>2, <2>3 DEF RegisteredInv, CommandInv, Whole
    <2> QED BY <2>3, <2>4, <2>5, <2>6 DEF WindowsInv
  <1>11. CASE W!ScDelete
    <2>1. /\ script # << >> /\ UNCHANGED <<wexe, service, main, cfg, command, said, clean, runs>>
          /\ script' = Tail(script)
          /\ doomed' = (service # None)
      BY <1>11 DEF W!ScDelete, W!Step, W!Goto, W!host, W!process, W!cmd, W!bounds
    <2>2. command # "install" /\ said # "installed"
      <3>1. command # "install"
        BY <1>plan, <1>11, <2>1, Places DEF W!ScDelete, W!Step
      <3> QED BY <1>reg, <3>1 DEF RegisteredInv
    <2>3. PlanInv' /\ (command = "install" => Left' = Left - 1 /\ Left \in Nat)
      BY <1>plan, <2>1, <2>2, Places, PlanOnward DEF Whole
    <2>4. CommandInv'
      BY <1>cmd, <2>1 DEF CommandInv
    <2>5. ProcessInv'
      BY <1>proc, <2>1 DEF ProcessInv
    <2>6. RegisteredInv'
      BY <1>cmd, <1>reg, <2>1, <2>2, <2>3 DEF RegisteredInv, CommandInv, Whole
    <2> QED BY <2>3, <2>4, <2>5, <2>6 DEF WindowsInv
  <1>12. CASE W!Say
    <2>1. /\ script # << >> /\ UNCHANGED <<wexe, service, doomed, main, cfg, command, clean, runs>>
          /\ script' = Tail(script)
          /\ said' = IF command = "install" THEN "installed" ELSE "uninstalled"
      BY <1>12 DEF W!Say, W!Step, W!Goto, W!host, W!process, W!cmd, W!bounds
    <2>2. command = "install" => Left = 2 /\ Whole
      BY <1>plan, <1>12, <2>1, Places DEF W!Say, W!Step
    <2>3. PlanInv' /\ (command = "install" => Left' = Left - 1 /\ Left \in Nat)
      BY <1>plan, <2>1, <2>2, Places, PlanOnward DEF Whole
    <2>4. CommandInv'
      BY <1>cmd, <2>1 DEF CommandInv
    <2>5. ProcessInv'
      BY <1>proc, <2>1 DEF ProcessInv
    <2>6. RegisteredInv'
      BY <1>cmd, <1>reg, <2>1, <2>2, <2>3 DEF RegisteredInv, CommandInv, Whole
    <2> QED BY <2>3, <2>4, <2>5, <2>6 DEF WindowsInv
  <1>13. CASE W!TurnedDown
    <2>1. /\ script # << >> /\ UNCHANGED <<wexe, service, doomed, main, cfg, command, runs>> /\ clean' = FALSE
          /\ \/ script' = << >> /\ said' \in {"error", "absent"}
             \/ script' = Tail(script) /\ said' = said /\ ~Head(script).must
      BY <1>13 DEF W!TurnedDown, W!Failed, W!Step, W!Goto, W!host, W!process, W!cmd, W!bounds
    <2>3. PlanInv' /\ (said' = "installed" =>
             said = "installed" /\ Whole' /\ Left' \in {0, Left - 1} /\ Left \in Nat /\ Left > 0)
      <3>1. CASE script' = << >> /\ said' \in {"error", "absent"}
        BY <2>1, <3>1, PlanEnded
      <3>2. CASE script' = Tail(script) /\ said' = said /\ ~Head(script).must
        <4>1. command = "install" => ~W!Step("copy") /\ (Left = 5 => Whole) /\ Left \in Nat /\ Left > 0
          BY <1>plan, <2>1, <3>2, Places
        <4>2. command = "install" => wexe' = wexe
          BY <2>1, <3>2, <4>1
        <4>3. PlanInv' /\ (command = "install" => Left' = Left - 1)
          <5>1. CASE command = "install"
            BY <1>plan, <2>1, <3>2, <4>1, <4>2, <5>1, PlanOnward DEF Whole
          <5>2. CASE command # "install"
            BY <2>1, <5>2 DEF PlanInv
          <5> QED BY <5>1, <5>2
        <4> QED BY <1>reg, <3>2, <4>1, <4>2, <4>3 DEF RegisteredInv, Whole
      <3> QED BY <2>1, <3>1, <3>2
    <2>4. CommandInv'
      BY <1>cmd, <2>1 DEF CommandInv
    <2>5. ProcessInv'
      BY <1>proc, <2>1 DEF ProcessInv
    <2>6. RegisteredInv'
      BY <1>cmd, <1>reg, <2>1, <2>3 DEF RegisteredInv, CommandInv
    <2> QED BY <2>3, <2>4, <2>5, <2>6 DEF WindowsInv
  <1>14. CASE W!Fails
    <2>1. /\ script # << >> /\ UNCHANGED <<service, doomed, main, cfg, command, runs>> /\ clean' = FALSE
          /\ \/ script' = << >> /\ said' \in {"error", "absent"}
             \/ script' = Tail(script) /\ said' = said /\ ~Head(script).must
                /\ (~W!Step("copy") => wexe' = wexe)
      BY <1>14 DEF W!Fails, W!Failed, W!Fault, W!Step, W!host, W!process, W!cmd, W!bounds
    <2>3. PlanInv' /\ (said' = "installed" =>
             said = "installed" /\ Whole' /\ Left' \in {0, Left - 1} /\ Left \in Nat /\ Left > 0)
      <3>1. CASE script' = << >> /\ said' \in {"error", "absent"}
        BY <2>1, <3>1, PlanEnded
      <3>2. CASE script' = Tail(script) /\ said' = said /\ ~Head(script).must
                 /\ (~W!Step("copy") => wexe' = wexe)
        <4>1. command = "install" => ~W!Step("copy") /\ (Left = 5 => Whole) /\ Left \in Nat /\ Left > 0
          BY <1>plan, <2>1, <3>2, Places
        <4>2. command = "install" => wexe' = wexe
          BY <2>1, <3>2, <4>1
        <4>3. PlanInv' /\ (command = "install" => Left' = Left - 1)
          <5>1. CASE command = "install"
            BY <1>plan, <2>1, <3>2, <4>1, <4>2, <5>1, PlanOnward DEF Whole
          <5>2. CASE command # "install"
            BY <2>1, <5>2 DEF PlanInv
          <5> QED BY <5>1, <5>2
        <4> QED BY <1>reg, <3>2, <4>1, <4>2, <4>3 DEF RegisteredInv, Whole
      <3> QED BY <2>1, <3>1, <3>2
    <2>4. CommandInv'
      BY <1>cmd, <2>1 DEF CommandInv
    <2>5. ProcessInv'
      BY <1>proc, <2>1 DEF ProcessInv
    <2>6. RegisteredInv'
      BY <1>cmd, <1>reg, <2>1, <2>3 DEF RegisteredInv, CommandInv
    <2> QED BY <2>3, <2>4, <2>5, <2>6 DEF WindowsInv
  <1>15. CASE W!CutOff
    <2>1. /\ UNCHANGED <<wexe, service, doomed, main, cfg, command, said, runs>> /\ clean' = FALSE
          /\ script' = << >>
      BY <1>15 DEF W!CutOff, W!Fault, W!host, W!process, W!cmd, W!bounds
    <2>2. PlanInv' /\ Left' = 0
      BY <2>1, PlanEnded
    <2>3. CommandInv'
      BY <1>cmd, <2>1 DEF CommandInv
    <2>4. ProcessInv'
      BY <1>proc, <2>1 DEF ProcessInv
    <2>5. RegisteredInv'
      BY <1>reg, <2>1, <2>2 DEF RegisteredInv, Whole
    <2> QED BY <2>2, <2>3, <2>4, <2>5 DEF WindowsInv
  <1>16. CASE W!Purge
    <2>1. /\ UNCHANGED <<wexe, main, cfg, command, script, said, clean, runs>>
          /\ doomed /\ main = "off" /\ service' = None /\ doomed' = FALSE
      BY <1>16 DEF W!Purge, W!host, W!process, W!cmd, W!bounds
    <2>2. PlanInv' /\ Left' = Left
      BY <1>plan, <2>1, PlanStays DEF Whole
    <2>3. CommandInv'
      BY <1>cmd, <2>1 DEF CommandInv
    <2>4. ProcessInv'
      BY <1>proc, <2>1 DEF ProcessInv
    <2>5. RegisteredInv'
      BY <1>reg, <1>proc, <2>1, <2>2 DEF RegisteredInv, ProcessInv, Whole
    <2> QED BY <2>2, <2>3, <2>4, <2>5 DEF WindowsInv
  <1>17. CASE W!Boot
    <2>1. /\ UNCHANGED <<wexe, command, said, runs>> /\ script' = << >>
          /\ clean' = (clean /\ script = << >>)
          /\ service' = (IF doomed THEN None ELSE service) /\ doomed' = FALSE
          /\ \/ main' = "starting" /\ cfg' = service /\ service # None /\ ~doomed
             \/ main' = "off" /\ cfg' = None
      BY <1>17 DEF W!Boot, W!Started, W!Fault
    <2>2. PlanInv' /\ Left' = 0
      BY <2>1, PlanEnded
    <2>3. CommandInv'
      <3>1. clean' \in BOOLEAN
        BY <1>cmd, <2>1 DEF CommandInv
      <3> QED BY <1>cmd, <2>1, <3>1 DEF CommandInv
    <2>4. ProcessInv'
      BY <1>proc, <2>1 DEF ProcessInv
    <2>5. RegisteredInv'
      <3>1. clean' => clean
        BY <2>1
      <3> QED BY <1>reg, <2>1, <2>2, <3>1 DEF RegisteredInv, Whole
    <2> QED BY <2>2, <2>3, <2>4, <2>5 DEF WindowsInv
  <1>18. CASE UNCHANGED W!vars
    <2>1. UNCHANGED <<wexe, service, doomed, main, cfg, command, script, said, clean, runs>>
      BY <1>18 DEF W!vars, W!host, W!process, W!cmd, W!bounds
    <2>2. PlanInv' /\ Left' = Left
      BY <1>plan, <2>1, PlanStays DEF Whole
    <2>3. CommandInv'
      BY <1>cmd, <2>1 DEF CommandInv
    <2>4. ProcessInv'
      BY <1>proc, <2>1 DEF ProcessInv
    <2>5. RegisteredInv'
      BY <1>reg, <2>1, <2>2 DEF RegisteredInv, Whole
    <2> QED BY <2>2, <2>3, <2>4, <2>5 DEF WindowsInv
  <1> QED
    BY <1>1, <1>2, <1>3, <1>4, <1>5, <1>6, <1>7, <1>8, <1>9, <1>10, <1>11, <1>12, <1>13, <1>14,
       <1>15, <1>16, <1>17, <1>18
       DEF W!Next, W!Execute, W!Steps

-----------------------------------------------------------------------------
OnWindows == os = "windows" => WindowsInv

LEMMA OnWindowsAlways == Spec => []OnWindows
  <1>1. Init => OnWindows
    BY WindowsInit DEF OnWindows
  <1>2. OnWindows /\ [Next]_vars => OnWindows'
    <2> SUFFICES ASSUME OnWindows, [Next]_vars PROVE OnWindows'
      OBVIOUS
    <2>1. CASE Windows
      <3>1. os = "windows" /\ WindowsInv /\ [W!Next]_(W!vars)
        BY <2>1 DEF Windows, OnWindows
      <3> QED BY <3>1, WindowsStep DEF OnWindows
    <2>2. CASE Linux
      BY <2>2 DEF Linux, OnWindows
    <2>3. CASE UNCHANGED vars
      <3>1. UNCHANGED os /\ UNCHANGED W!vars
        BY <2>3 DEF vars, windows, shared, W!vars, W!host, W!process, W!cmd, W!bounds
      <3> QED BY <3>1, WindowsStep DEF OnWindows
    <2> QED BY <2>1, <2>2, <2>3 DEF Next
  <1> QED BY <1>1, <1>2, PTL DEF Spec

(***************************************************************************)
(* New-Service fails without a word when the name is taken: an install     *)
(* that says "Service installed" and had no fault has registered its own   *)
(* configuration all the same, before and after boots, requests and        *)
(* receivers that fail.                                                    *)
(***************************************************************************)
THEOREM InstalledIsRegisteredAlways == Spec => []InstalledIsRegistered
  <1>1. OnWindows => InstalledIsRegistered
    <2> SUFFICES ASSUME WindowsInv, said = "installed", clean
                 PROVE  service = runs /\ ~doomed /\ wexe \notin {None, W!Partial} /\ cfg \in {None, runs}
      BY DEF OnWindows, InstalledIsRegistered, W!InstalledIsRegistered
    <2> QED BY DEF WindowsInv, RegisteredInv, ProcessInv, Whole
  <1> QED BY <1>1, OnWindowsAlways, PTL
-----------------------------------------------------------------------------
\* A step is done by a command that was run: what it writes is numbered from 1.
Numbered == script # << >> => runs > 0

LEMMA RunType ==
  ASSUME L!TypeOK, NEW u \in {unit, L!Unit}, L!Whole(u), L!Run(u)
  PROVE  /\ proc' \in [cfg : 1..MaxRuns, exe : 1..MaxRuns] \cup {None}
         /\ idle' \in {"inactive", "activating"} /\ (proc' # None => idle' = "inactive")
  <1> USE HostAssumption DEF HostAssumption
  <1>1. u \in 1..MaxRuns /\ (L!Whole(exe) => exe \in 1..MaxRuns)
    BY DEF L!TypeOK, L!Whole, L!Unit, L!Partial
  <1> QED BY <1>1 DEF L!Run

LEMMA LinuxTypesStep == L!TypeOK /\ Numbered /\ [L!Next]_(L!vars) => L!TypeOK' /\ Numbered'
  <1> SUFFICES ASSUME L!TypeOK, Numbered, [L!Next]_(L!vars) PROVE L!TypeOK' /\ Numbered'
    OBVIOUS
  <1> USE HostAssumption DEF HostAssumption, L!TypeOK, Numbered
  <1>1. CASE \E inTarget \in BOOLEAN : L!Install(inTarget)
    <2>1. PICK inTarget \in BOOLEAN : L!Install(inTarget)
      BY <1>1
    <2>2. clean' \in BOOLEAN /\ waiting' \in BOOLEAN /\ UNCHANGED <<exe, unit, loaded, enabled, proc, idle, faults>>
      BY <2>1 DEF L!Install, L!files, L!process, L!manager
    <2> QED BY <2>1, <2>2 DEF L!Install
  <1>2. CASE L!Uninstall
    <2>1. clean' \in BOOLEAN /\ waiting' \in BOOLEAN /\ UNCHANGED <<exe, unit, loaded, enabled, proc, idle, faults>>
      BY <1>2 DEF L!Uninstall, L!files, L!process, L!manager
    <2> QED BY <1>2, <2>1 DEF L!Uninstall
  <1>3. CASE L!Stop
    BY <1>3 DEF L!Stop, L!Step, L!Goto, L!files, L!process, L!bounds
  <1>4. CASE L!Copy
    BY <1>4 DEF L!Copy, L!Step, L!Goto, L!process, L!manager, L!bounds
  <1>5. CASE L!Query
    BY <1>5 DEF L!Query, L!Step, L!Goto, L!files, L!process, L!manager, L!bounds
  <1>6. CASE L!Disable
    BY <1>6 DEF L!Disable, L!Step, L!Goto, L!files, L!process, L!bounds
  <1>7. CASE L!Remove
    BY <1>7 DEF L!Remove, L!Step, L!Goto, L!process, L!manager, L!bounds
  <1>8. CASE L!Reload
    BY <1>8 DEF L!Reload, L!Step, L!Goto, L!files, L!process, L!bounds
  <1>9. CASE L!Write
    BY <1>9 DEF L!Write, L!Step, L!Goto, L!process, L!manager, L!bounds
  <1>10. CASE L!Enable
    BY <1>10 DEF L!Enable, L!Step, L!Goto, L!files, L!process, L!bounds
  <1>11. CASE L!Start
    <2>1. CASE proc = None /\ L!Whole(L!Unit)
      <3>1. L!Run(L!Unit)
        BY <1>11, <2>1 DEF L!Start
      <3> QED BY <1>11, <2>1, <3>1, RunType DEF L!Start, L!Step, L!Goto, L!files, L!bounds
    <2>2. CASE ~(proc = None /\ L!Whole(L!Unit))
      BY <1>11, <2>2 DEF L!Start, L!Step, L!Goto, L!files, L!process, L!bounds
    <2> QED BY <2>1, <2>2
  <1>12. CASE L!Delete
    BY <1>12 DEF L!Delete, L!Step, L!Goto, L!process, L!manager, L!bounds
  <1>13. CASE L!Say
    BY <1>13 DEF L!Say, L!Step, L!Goto, L!files, L!process, L!manager, L!bounds
  <1>14. CASE L!CopyBusy
    <2>1. clean' \in BOOLEAN
      BY <1>14 DEF L!CopyBusy, L!Failed
    <2> QED BY <1>14, <2>1 DEF L!CopyBusy, L!Step, L!Failed, L!files, L!process, L!manager, L!bounds
  <1>15. CASE L!Fails
    <2>1. exe' \in 0..MaxRuns \cup {None} /\ unit' \in 0..MaxRuns \cup {None}
      BY <1>15 DEF L!Fails, L!Partial
    <2>2. clean' \in BOOLEAN
      BY <1>15 DEF L!Fails, L!Failed
    <2> QED BY <1>15, <2>1, <2>2 DEF L!Fails, L!Fault, L!Failed, L!process, L!manager
  <1>16. CASE L!CutOff
    <2>1. clean' \in BOOLEAN
      BY <1>16 DEF L!CutOff, L!Failed
    <2> QED BY <1>16, <2>1 DEF L!CutOff, L!Fault, L!files, L!process, L!manager
  <1>17. CASE L!Die
    BY <1>17 DEF L!Die, L!Fault, L!files
  <1>18. CASE L!Restart
    <2>1. CASE L!Whole(L!Unit)
      <3>1. L!Run(L!Unit)
        BY <1>18, <2>1 DEF L!Restart
      <3> QED BY <1>18, <2>1, <3>1, RunType DEF L!Restart, L!files, L!bounds
    <2>2. CASE ~L!Whole(L!Unit)
      BY <1>18, <2>2 DEF L!Restart, L!files, L!bounds
    <2> QED BY <2>1, <2>2
  <1>19. CASE L!Boot
    <2>1. /\ proc' \in [cfg : 1..MaxRuns, exe : 1..MaxRuns] \cup {None}
          /\ idle' \in {"inactive", "activating"} /\ (proc' # None => idle' = "inactive")
      <3>1. CASE L!Wanted
        <4>1. L!Whole(unit) /\ L!Run(unit)
          BY <1>19, <3>1 DEF L!Boot, L!Wanted
        <4> QED BY <4>1, RunType
      <3>2. CASE ~L!Wanted
        BY <1>19, <3>2 DEF L!Boot
      <3> QED BY <3>1, <3>2
    <2>2. clean' \in BOOLEAN
      BY <1>19 DEF L!Boot
    <2> QED BY <1>19, <2>1, <2>2 DEF L!Boot, L!Fault, L!files
  <1>20. CASE UNCHANGED L!vars
    BY <1>20 DEF L!vars, L!files, L!process, L!manager, L!bounds
  <1> QED BY <1>1, <1>2, <1>3, <1>4, <1>5, <1>6, <1>7, <1>8, <1>9, <1>10, <1>11, <1>12, <1>13, <1>14, <1>15, <1>16, <1>17, <1>18, <1>19, <1>20 DEF L!Next

LEMMA WindowsTypesStep == W!TypeOK /\ Numbered /\ [W!Next]_(W!vars) => W!TypeOK' /\ Numbered'
  <1> SUFFICES ASSUME W!TypeOK, Numbered, [W!Next]_(W!vars) PROVE W!TypeOK' /\ Numbered'
    OBVIOUS
  <1> USE HostAssumption DEF HostAssumption, W!TypeOK, Numbered
  <1>1. CASE \E inTarget \in BOOLEAN : W!Install(inTarget)
    <2>1. PICK inTarget \in BOOLEAN : W!Install(inTarget)
      BY <1>1
    <2> QED BY <2>1 DEF W!Install, W!host, W!process
  <1>2. CASE W!Uninstall
    BY <1>2 DEF W!Uninstall, W!host, W!process
  <1>3. CASE W!ReportRunning
    BY <1>3 DEF W!ReportRunning, W!host, W!cmd, W!bounds
  <1>4. CASE W!ReceiveErr
    <2>1. doomed' \in BOOLEAN /\ errCh' \in BOOLEAN /\ clean' \in BOOLEAN
      BY <1>4 DEF W!ReceiveErr, W!host, W!cmd, W!bounds
    <2> QED BY <1>4, <2>1 DEF W!ReceiveErr, W!host, W!cmd, W!bounds
  <1>5. CASE W!Interrogate
    BY <1>5 DEF W!Interrogate, W!host, W!cmd, W!bounds
  <1>6. CASE W!StopOrShutdown
    BY <1>6 DEF W!StopOrShutdown, W!host, W!cmd, W!bounds
  <1>7. CASE W!Leave
    <2>1. doomed' \in BOOLEAN /\ errCh' \in BOOLEAN /\ clean' \in BOOLEAN
      BY <1>7 DEF W!Leave, W!host, W!cmd, W!bounds
    <2> QED BY <1>7, <2>1 DEF W!Leave, W!host, W!cmd, W!bounds
  <1>8. CASE W!RecvFails
    BY <1>8 DEF W!RecvFails, W!Fault, W!host, W!cmd
  <1>9. CASE W!Admin
    BY <1>9 DEF W!Admin, W!Step, W!Goto, W!host, W!process, W!bounds
  <1>10. CASE W!StopService
    BY <1>10 DEF W!StopService, W!Step, W!Goto, W!host, W!bounds
  <1>11. CASE W!ScStop
    BY <1>11 DEF W!ScStop, W!Step, W!Goto, W!host, W!bounds
  <1>12. CASE W!Copy
    BY <1>12 DEF W!Copy, W!Step, W!Goto, W!process, W!bounds
  <1>13. CASE W!GetService
    BY <1>13 DEF W!GetService, W!Step, W!host, W!process, W!bounds
  <1>14. CASE W!NewService
    BY <1>14 DEF W!NewService, W!Step, W!Goto, W!process, W!bounds
  <1>15. CASE W!StartService
    <2>1. doomed' \in BOOLEAN /\ errCh' \in BOOLEAN /\ clean' \in BOOLEAN
      BY <1>15 DEF W!StartService, W!Startable, W!Started, W!Step, W!Goto, W!host, W!process, W!bounds
    <2> QED BY <1>15, <2>1 DEF W!StartService, W!Startable, W!Started, W!Step, W!Goto, W!host, W!process, W!bounds
  <1>16. CASE W!ScDelete
    <2>1. doomed' \in BOOLEAN /\ errCh' \in BOOLEAN /\ clean' \in BOOLEAN
      BY <1>16 DEF W!ScDelete, W!Step, W!Goto, W!process, W!bounds
    <2> QED BY <1>16, <2>1 DEF W!ScDelete, W!Step, W!Goto, W!process, W!bounds
  <1>17. CASE W!Say
    BY <1>17 DEF W!Say, W!Step, W!host, W!process, W!bounds
  <1>18. CASE W!TurnedDown
    <2>1. doomed' \in BOOLEAN /\ errCh' \in BOOLEAN /\ clean' \in BOOLEAN
      BY <1>18 DEF W!TurnedDown, W!Step, W!Failed, W!host, W!process, W!bounds
    <2> QED BY <1>18, <2>1 DEF W!TurnedDown, W!Step, W!Failed, W!host, W!process, W!bounds
  <1>19. CASE W!Fails
    <2>1. doomed' \in BOOLEAN /\ errCh' \in BOOLEAN /\ clean' \in BOOLEAN
      BY <1>19 DEF W!Fails, W!Fault, W!Failed, W!process, W!Partial
    <2>2. wexe' \in 0..MaxRuns \cup {None}
      BY <1>19 DEF W!Fails, W!Partial
    <2> QED BY <1>19, <2>1, <2>2 DEF W!Fails, W!Fault, W!Failed, W!process, W!Partial
  <1>20. CASE W!CutOff
    <2>1. doomed' \in BOOLEAN /\ errCh' \in BOOLEAN /\ clean' \in BOOLEAN
      BY <1>20 DEF W!CutOff, W!Fault, W!host, W!process
    <2> QED BY <1>20, <2>1 DEF W!CutOff, W!Fault, W!host, W!process
  <1>21. CASE W!Ask
    BY <1>21 DEF W!Ask, W!host, W!cmd
  <1>22. CASE W!Purge
    <2>1. doomed' \in BOOLEAN /\ errCh' \in BOOLEAN /\ clean' \in BOOLEAN
      BY <1>22 DEF W!Purge, W!process, W!cmd, W!bounds
    <2> QED BY <1>22, <2>1 DEF W!Purge, W!process, W!cmd, W!bounds
  <1>23. CASE W!Boot
    <2>1. doomed' \in BOOLEAN /\ errCh' \in BOOLEAN /\ clean' \in BOOLEAN
      BY <1>23 DEF W!Boot, W!Fault, W!Started
    <2>2. main' \in {"off", "starting"} /\ cfg' \in {None, service} /\ recv' \in {"off", "running"}
          /\ status' \in {"Stopped", "StartPending"} /\ exit' = 0 /\ request' = None
      BY <1>23 DEF W!Boot, W!Started
    <2> QED BY <1>23, <2>1, <2>2 DEF W!Boot, W!Fault, W!Started
  <1>24. CASE UNCHANGED W!vars
    BY <1>24 DEF W!vars, W!host, W!process, W!cmd, W!bounds
  <1> QED BY <1>1, <1>2, <1>3, <1>4, <1>5, <1>6, <1>7, <1>8, <1>9, <1>10, <1>11, <1>12, <1>13, <1>14, <1>15, <1>16, <1>17, <1>18, <1>19, <1>20, <1>21, <1>22, <1>23, <1>24
          DEF W!Next, W!Execute, W!Steps

(***************************************************************************)
(* The types of both systems' variables.  A file, a unit or a registration *)
(* that is not partial carries the number of the command that made it,     *)
(* because only a command that was begun has steps left to do; and a       *)
(* process is only started from files that are whole.                      *)
(***************************************************************************)
THEOREM HostTypes == Spec => []TypeOK
  <1>1. Init => TypeOK /\ Numbered
    <2> SUFFICES ASSUME Init PROVE TypeOK /\ Numbered
      OBVIOUS
    <2>1. enabled \in BOOLEAN /\ clean \in BOOLEAN /\ waiting \in BOOLEAN /\ doomed \in BOOLEAN /\ errCh \in BOOLEAN
      BY DEF Init, L!Init, W!Init
    <2>2. L!TypeOK
      BY <2>1, HostAssumption DEF HostAssumption, Init, L!Init, L!TypeOK
    <2>3. W!TypeOK
      BY <2>1, HostAssumption DEF HostAssumption, Init, L!Init, W!Init, W!TypeOK
    <2> QED BY <2>2, <2>3 DEF Init, L!Init, TypeOK, Numbered
  <1>2. TypeOK /\ Numbered /\ [Next]_vars => TypeOK' /\ Numbered'
    <2> SUFFICES ASSUME TypeOK, Numbered, [Next]_vars PROVE TypeOK' /\ Numbered'
      OBVIOUS
    <2>1. CASE Linux
      <3>1. L!TypeOK' /\ Numbered'
        BY <2>1, LinuxTypesStep DEF Linux, TypeOK
      <3>2. UNCHANGED windows
        BY <2>1 DEF Linux
      <3> QED BY <3>1, <3>2 DEF TypeOK, windows, L!TypeOK, W!TypeOK
    <2>2. CASE Windows
      <3>1. W!TypeOK' /\ Numbered'
        BY <2>2, WindowsTypesStep DEF Windows, TypeOK
      <3>2. UNCHANGED linux
        BY <2>2 DEF Windows
      <3> QED BY <3>1, <3>2 DEF TypeOK, linux, L!TypeOK, W!TypeOK
    <2>3. CASE UNCHANGED vars
      BY <2>3 DEF vars, linux, windows, shared, TypeOK, L!TypeOK, W!TypeOK, Numbered
    <2> QED BY <2>1, <2>2, <2>3 DEF Next
  <1> QED BY <1>1, <1>2, PTL DEF Spec
=============================================================================
