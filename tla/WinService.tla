----------------------------- MODULE WinService -----------------------------
(***************************************************************************)
(* boltgo as a Windows service: service install and uninstall              *)
(* (cmd/boltgo/service.go), the service control manager they talk to, and  *)
(* the process it starts, whose Execute answers its requests while a       *)
(* goroutine runs the receiver (cmd/boltgo/service_win.go).                *)
(*                                                                         *)
(* psRun turns every error into empty output, sc.exe's results are ignored *)
(* and its stop does not wait.  The command that is the n-th to run        *)
(* installs binary n with configuration n.  A definition named X_Fault is  *)
(* the code of X with a plausible bug; no behaviour of Spec uses one.      *)
(***************************************************************************)
EXTENDS Integers, Sequences

CONSTANTS
  MaxRuns,    \* bound: commands that are run
  MaxFaults,  \* bound: steps that fail, receivers that fail, boots
  MaxAsked,   \* bound: Interrogate requests
  None        \* no file, no service, no request

VARIABLES
  exe,     \* C:\Windows\boltgo.exe: whose copy it is, Partial or None
  service, \* the registration: its configuration, or None
  doomed,  \* has it been marked for deletion?
  main,    \* Execute: "off", "starting", "select" or "returned"
  cfg,     \* the configuration the process was started with
  recv,    \* the goroutine: "off", "running", "sent"
  errCh,   \* does the channel hold an error?
  status,  \* the state the process has reported
  exit,    \* its exit code
  request, \* the request the control manager has sent, or None
  command, \* the command that runs or ran last
  script,  \* the steps it still has to do
  said,    \* the line it has printed: Service installed, Service uninstalled,
           \* not installed or Error
  clean,   \* history: has every step of it done its work?
  runs,    \* number of commands so far
  faults,  \* number of faults so far
  asked    \* number of Interrogate requests so far

host == <<exe, service, doomed>>
process == <<main, cfg, recv, errCh, status, exit, request>>
cmd == <<command, script, said, clean>>
bounds == <<runs, faults, asked>>
vars == <<host, process, cmd, bounds>>

Partial == 0

Init ==
  /\ exe = None /\ service = None /\ doomed = FALSE
  /\ main = "off" /\ cfg = None /\ recv = "off" /\ errCh = FALSE
  /\ status = "Stopped" /\ exit = 0 /\ request = None
  /\ command = "none" /\ script = << >> /\ said = "none" /\ clean = TRUE
  /\ runs = 0 /\ faults = 0 /\ asked = 0

Fault == faults < MaxFaults /\ faults' = faults + 1 /\ UNCHANGED <<runs, asked>>
-----------------------------------------------------------------------------
(***************************************************************************)
(* The process: Execute and its goroutine, which shares the channel errCh  *)
(* with it and is ended by the end of the process, not waited for.         *)
(***************************************************************************)
\* StartPending is reported before the goroutine runs, Running before it listens.
ReportRunning ==
  /\ main = "starting"
  /\ main' = "select" /\ status' = "Running"
  /\ UNCHANGED <<host, cfg, recv, errCh, exit, request, cmd, bounds>>

\* RunServer returns an error.
RecvFails ==
  /\ Fault /\ recv = "running"
  /\ recv' = "sent" /\ errCh' = TRUE
  /\ UNCHANGED <<host, main, cfg, status, exit, request, cmd>>

ReceiveErr_Stays ==
  /\ main = "select" /\ errCh
  /\ errCh' = FALSE
  /\ UNCHANGED <<host, main, cfg, recv, status, exit, request, cmd, bounds>>

ReceiveErr ==
  /\ main = "select" /\ errCh
  /\ main' = "returned" /\ errCh' = FALSE /\ status' = "StopPending" /\ exit' = 1
  /\ UNCHANGED <<host, cfg, recv, request, cmd, bounds>>

Interrogate ==
  /\ main = "select" /\ request = "Interrogate"
  /\ request' = None
  /\ UNCHANGED <<host, main, cfg, recv, errCh, status, exit, cmd, bounds>>

\* Waits for the goroutine without having cancelled it: only an error ends it.
StopOrShutdown_Waits ==
  /\ main = "select" /\ request = "Stop" /\ recv = "sent"
  /\ main' = "returned" /\ request' = None /\ status' = "StopPending" /\ exit' = 0
  /\ UNCHANGED <<host, cfg, recv, errCh, cmd, bounds>>

StopOrShutdown ==
  /\ main = "select" /\ request = "Stop"
  /\ main' = "returned" /\ request' = None /\ status' = "StopPending" /\ exit' = 0
  /\ UNCHANGED <<host, cfg, recv, errCh, cmd, bounds>>

\* svc.Run returns, and main with it.
Leave ==
  /\ main = "returned"
  /\ main' = "off" /\ cfg' = None /\ recv' = "off" /\ errCh' = FALSE
  /\ status' = "Stopped" /\ request' = None
  /\ UNCHANGED <<host, exit, cmd, bounds>>

Execute == ReportRunning \/ ReceiveErr \/ Interrogate \/ StopOrShutdown \/ Leave
-----------------------------------------------------------------------------
(***************************************************************************)
(* The commands.                                                           *)
(***************************************************************************)
Try(s) == [do |-> s, must |-> FALSE]
Must(s) == [do |-> s, must |-> TRUE]

InstallWindows(inTarget) ==
  IF inTarget
  THEN <<Must("admin"), Try("Get-Service"), Try("New-Service"), Try("say"), Try("Start-Service")>>
  ELSE <<Must("admin"), Try("Stop-Service"), Must("copy"), Try("Get-Service"), Try("New-Service"),
         Try("say"), Try("Start-Service")>>

UninstallWindows == <<Try("Get-Service"), Try("sc-stop"), Try("sc-delete"), Try("say")>>

Install(inTarget) ==
  /\ script = << >> /\ runs < MaxRuns
  /\ inTarget => exe \notin {None, Partial}
  /\ script' = InstallWindows(inTarget)
  /\ command' = "install" /\ said' = "none" /\ clean' = TRUE /\ runs' = runs + 1
  /\ UNCHANGED <<host, process, faults, asked>>

Uninstall ==
  /\ script = << >> /\ runs < MaxRuns
  /\ script' = UninstallWindows
  /\ command' = "uninstall" /\ said' = "none" /\ clean' = TRUE /\ runs' = runs + 1
  /\ UNCHANGED <<host, process, faults, asked>>

Step(s) == script # << >> /\ Head(script).do = s
Goto(rest) == script' = rest /\ UNCHANGED <<command, said, clean, bounds>>

\* The control manager passes one request on at a time, and a stop only to a
\* process that reports Running.
StopPossible == status = "Running" /\ request = None

Admin == Step("admin") /\ Goto(Tail(script)) /\ UNCHANGED <<host, process>>

\* Stop-Service waits for the process to end.
StopService ==
  /\ Step("Stop-Service")
  /\ \/ main = "off" /\ Goto(Tail(script)) /\ UNCHANGED request
     \/ StopPossible /\ request' = "Stop" /\ Goto(script)
  /\ UNCHANGED <<host, main, cfg, recv, errCh, status, exit>>

ScStop ==
  /\ Step("sc-stop")
  /\ \/ main = "off" /\ UNCHANGED request
     \/ StopPossible /\ request' = "Stop"
  /\ Goto(Tail(script)) /\ UNCHANGED <<host, main, cfg, recv, errCh, status, exit>>

Copy ==
  /\ Step("copy") /\ main = "off"
  /\ exe' = runs
  /\ Goto(Tail(script)) /\ UNCHANGED <<service, doomed, process>>

\* A service that is there ends an install; one that is not, an uninstall.
GetService_Ignored ==
  /\ Step("Get-Service")
  /\ LET ends == command = "uninstall" /\ service = None
     IN /\ script' = IF ends THEN << >> ELSE Tail(script)
        /\ said' = IF ends THEN "absent" ELSE said
  /\ UNCHANGED <<host, process, command, clean, bounds>>

GetService ==
  /\ Step("Get-Service")
  /\ LET ends == (command = "install") = (service # None)
     IN /\ script' = IF ends THEN << >> ELSE Tail(script)
        /\ said' = IF ~ends THEN said ELSE IF command = "install" THEN "error" ELSE "absent"
  /\ UNCHANGED <<host, process, command, clean, bounds>>

\* Fails when the name is taken, also by a service that is marked for deletion.
NewService ==
  /\ Step("New-Service")
  /\ service' = IF service = None THEN runs ELSE service
  /\ Goto(Tail(script)) /\ UNCHANGED <<exe, doomed, process>>

Started ==
  /\ main' = "starting" /\ cfg' = service /\ recv' = "running" /\ errCh' = FALSE
  /\ status' = "StartPending" /\ exit' = 0 /\ request' = None

Startable == main = "off" /\ service # None /\ ~doomed /\ exe \notin {None, Partial}

StartService ==
  /\ Step("Start-Service")
  /\ IF Startable THEN Started ELSE UNCHANGED process
  /\ Goto(Tail(script)) /\ UNCHANGED host

ScDelete ==
  /\ Step("sc-delete")
  /\ doomed' = (service # None)
  /\ Goto(Tail(script)) /\ UNCHANGED <<exe, service, process>>

Say ==
  /\ Step("say")
  /\ said' = IF command = "install" THEN "installed" ELSE "uninstalled"
  /\ script' = Tail(script)
  /\ UNCHANGED <<host, process, command, clean, bounds>>

\* A failure ends the command or looks like a success without output.  An
\* error of Get-Service reads like "no such service".
Failed ==
  /\ clean' = FALSE
  /\ LET none == Step("Get-Service") /\ command = "uninstall"
     IN /\ script' = IF Head(script).must \/ none THEN << >> ELSE Tail(script)
        /\ said' = IF Head(script).must THEN "error" ELSE IF none THEN "absent" ELSE said
  /\ UNCHANGED command

\* The running binary is locked; a process that starts, and for sc.exe one
\* that stops, accepts no stop.
TurnedDown ==
  /\ \/ Step("copy") /\ main # "off"
     \/ Step("sc-stop") /\ status \in {"StartPending", "StopPending"}
     \/ Step("Stop-Service") /\ status = "StartPending"
  /\ Failed
  /\ UNCHANGED <<host, process, bounds>>

Fails ==
  /\ Fault /\ script # << >> /\ ~Step("say") /\ Failed
  /\ exe' \in {exe} \cup (IF Step("copy") /\ main = "off" THEN {Partial} ELSE {})
  /\ UNCHANGED <<service, doomed, process>>

CutOff ==
  /\ Fault /\ script # << >>
  /\ script' = << >> /\ clean' = FALSE
  /\ UNCHANGED <<host, process, command, said>>

-----------------------------------------------------------------------------
(***************************************************************************)
(* The control manager.                                                    *)
(***************************************************************************)
Ask ==
  /\ asked < MaxAsked /\ request = None /\ main \in {"starting", "select"}
  /\ request' = "Interrogate" /\ asked' = asked + 1
  /\ UNCHANGED <<host, main, cfg, recv, errCh, status, exit, cmd, runs, faults>>

\* A service that is marked for deletion goes when its process has ended.
Purge ==
  /\ doomed /\ main = "off"
  /\ service' = None /\ doomed' = FALSE
  /\ UNCHANGED <<exe, process, cmd, bounds>>

\* The host goes down and comes back; the service starts automatically.
Boot ==
  /\ Fault
  /\ service' = IF doomed THEN None ELSE service
  /\ doomed' = FALSE
  /\ IF service # None /\ ~doomed /\ exe \notin {None, Partial}
     THEN Started
     ELSE /\ main' = "off" /\ cfg' = None /\ recv' = "off" /\ errCh' = FALSE
          /\ status' = "Stopped" /\ exit' = 0 /\ request' = None
  /\ script' = << >> /\ clean' = (clean /\ script = << >>)
  /\ UNCHANGED <<exe, command, said>>

Steps ==
  \/ Admin \/ StopService \/ ScStop \/ Copy \/ GetService \/ NewService \/ StartService
  \/ ScDelete \/ Say \/ TurnedDown

Next ==
  \/ Execute \/ RecvFails
  \/ (\E inTarget \in BOOLEAN : Install(inTarget)) \/ Uninstall
  \/ Steps \/ Fails \/ CutOff
  \/ Ask \/ Purge \/ Boot

Spec == Init /\ [][Next]_vars

\* Execute and the control manager are scheduled, and so is a command.
Fairness == WF_vars(Execute) /\ WF_vars(Purge) /\ WF_vars(Steps)

FairSpec == Spec /\ Fairness
-----------------------------------------------------------------------------
TypeOK ==
  /\ exe \in 0..MaxRuns \cup {None} /\ service \in 1..MaxRuns \cup {None}
  /\ doomed \in BOOLEAN /\ errCh \in BOOLEAN /\ clean \in BOOLEAN
  /\ main \in {"off", "starting", "select", "returned"}
  /\ cfg \in 1..MaxRuns \cup {None}
  /\ recv \in {"off", "running", "sent"}
  /\ status \in {"Stopped", "StartPending", "Running", "StopPending"}
  /\ exit \in 0..1 /\ request \in {None, "Interrogate", "Stop"}
  /\ command \in {"none", "install", "uninstall"}
  /\ said \in {"none", "absent", "installed", "uninstalled", "error"}
  /\ runs \in 0..MaxRuns /\ faults \in 0..MaxFaults /\ asked \in 0..MaxAsked

(***************************************************************************)
(* An install that says "Service installed" and all of whose steps did     *)
(* their work has registered this configuration, never left an older one   *)
(* under the message (service.go:182-208).                                 *)
(***************************************************************************)
InstalledIsRegistered ==
  said = "installed" /\ clean =>
    service = runs /\ ~doomed /\ exe \notin {None, Partial} /\ cfg \in {None, runs}

(***************************************************************************)
(* "Service uninstalled" comes true when the steps did their work: Execute *)
(* answers the stop although nothing waits for it, and the service that is *)
(* marked for deletion goes (service.go:224-232, service_win.go:45-53).    *)
(***************************************************************************)
UninstallTakesEffect ==
  said = "uninstalled" /\ clean ~>
    service = None \/ said # "uninstalled" \/ ~clean

(***************************************************************************)
(* A receiver that fails does not leave a service behind that runs and     *)
(* receives nothing: Execute reports the end (service_win.go:36-42).       *)
(***************************************************************************)
FailureEndsTheService == recv = "sent" ~> recv # "sent"
=============================================================================
