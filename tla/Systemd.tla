------------------------------ MODULE Systemd ------------------------------
(***************************************************************************)
(* boltgo service install and uninstall on Linux (cmd/boltgo/service.go):  *)
(* lists of systemctl calls and file operations, most of whose failures    *)
(* are not looked at, against what the host holds: the binary in           *)
(* /usr/local/bin, the unit file, and systemd's own state.                 *)
(*                                                                         *)
(* A command is a script of steps.  Any step may fail, and the command or  *)
(* the host may stop between two steps.  The command that is the n-th to   *)
(* run installs binary n with configuration n.  A definition named X_Fault *)
(* is the code of X with a plausible bug; no behaviour of Spec uses one.   *)
(***************************************************************************)
EXTENDS Integers, Sequences

CONSTANTS
  MaxRuns,    \* bound: commands that are run
  MaxFaults,  \* bound: steps that fail, commands cut off, deaths and boots
  None        \* no file, no process

VARIABLES
  exe,     \* /usr/local/bin/boltgo: whose copy it is, Partial or None
  unit,    \* the unit file: its configuration, Partial or None
  loaded,  \* the unit systemd has read
  enabled, \* is it wanted at boot?
  proc,    \* the running receiver [cfg, exe], or None
  idle,    \* without one: "inactive", "failed", or "activating" while systemd
           \* waits for the next restart
  command, \* the command that runs or ran last
  script,  \* the steps it still has to do
  said,    \* the line it has printed: Service installed, Service uninstalled,
           \* not installed or Error
  clean,   \* history: has every step of it done its work?
  waiting, \* history: when it looked for a service, was one that is not enabled
           \* waiting for its restart?
  runs,    \* number of commands so far
  faults   \* number of faults so far

files == <<exe, unit>>
process == <<proc, idle>>
manager == <<loaded, enabled, process>>
bounds == <<runs, faults>>
vars == <<files, manager, command, script, said, clean, waiting, bounds>>

Partial == 0

Init ==
  /\ exe = None /\ unit = None /\ loaded = None /\ enabled = FALSE
  /\ proc = None /\ idle = "inactive"
  /\ command = "none" /\ script = << >> /\ said = "none"
  /\ clean = TRUE /\ waiting = FALSE
  /\ runs = 0 /\ faults = 0

-----------------------------------------------------------------------------
\* The result of a step is not looked at, or ends the command.
Try(s) == [do |-> s, must |-> FALSE]
Must(s) == [do |-> s, must |-> TRUE]

\* The four steps after the query remove an existing service.
Installation_Unchecked ==
  <<Try("stop"), Try("copy"), Try("query"), Try("stop"), Try("disable"), Try("remove"), Try("reload"),
    Must("write"), Must("reload"), Must("enable"), Try("say"), Try("start")>>

Installation ==
  <<Try("stop"), Must("copy"), Try("query"), Try("stop"), Try("disable"), Try("remove"), Try("reload"),
    Must("write"), Must("reload"), Must("enable"), Try("say"), Try("start")>>

\* A binary that is in its place is not copied.
InstallSystemd(inTarget) ==
  IF inTarget THEN SubSeq(Installation, 3, Len(Installation)) ELSE Installation

UninstallSystemd_NoReload ==
  <<Try("stop"), Try("disable"), Must("remove"), Try("delete"), Try("say")>>

UninstallSystemd ==
  <<Try("stop"), Try("disable"), Must("remove"), Must("reload"), Try("delete"), Try("say")>>

\* cmdServiceInstall; inTarget: the command is the installed binary itself.
Install(inTarget) ==
  /\ script = << >> /\ runs < MaxRuns
  /\ inTarget => exe \notin {None, Partial}
  /\ script' = InstallSystemd(inTarget)
  /\ command' = "install" /\ said' = "none"
  /\ clean' = TRUE /\ waiting' = FALSE /\ runs' = runs + 1
  /\ UNCHANGED <<files, manager, faults>>

\* cmdServiceUninstall, which looks at the unit file only.
Uninstall ==
  /\ script = << >> /\ runs < MaxRuns
  /\ script' = IF unit = None THEN << >> ELSE UninstallSystemd
  /\ said' = IF unit = None THEN "absent" ELSE "none"
  /\ command' = "uninstall"
  /\ clean' = TRUE /\ waiting' = FALSE /\ runs' = runs + 1
  /\ UNCHANGED <<files, manager, faults>>

-----------------------------------------------------------------------------
\* What the steps do.  A unit that is not loaded is read when it is started.
Whole_Partial(f) == f # None
Whole(f) == f \notin {None, Partial}
Unit == IF loaded # None THEN loaded ELSE unit

\* systemd starts configuration u.  A binary that cannot be executed counts as
\* a process that ends, and Restart=always has it tried again.
Run(u) ==
  IF Whole(exe) THEN proc' = [cfg |-> u, exe |-> exe] /\ idle' = "inactive"
                ELSE proc' = None /\ idle' = "activating"

\* A file that is being executed cannot be opened for writing.
Busy == proc # None /\ exe # None /\ proc.exe = exe

\* What is-active prints; of a unit that does not exist "inactive".  That
\* contains "active", and neither "failed" nor "activating" does.
IsActive == IF proc # None THEN "active" ELSE idle
Exists_Enabled == enabled
Exists == IsActive \in {"active", "inactive"} \/ enabled

Goto(rest) == script' = rest /\ UNCHANGED <<command, clean, waiting, bounds>>

Step(s) == script # << >> /\ Head(script).do = s

\* It also ends the wait for a restart.  A process that has to be killed, or
\* ends with an error, leaves the unit failed.
Stop ==
  /\ Step("stop")
  /\ proc' = None
  /\ idle' \in IF proc # None THEN {"inactive", "failed"}
               ELSE IF idle = "activating" THEN {"inactive"} ELSE {idle}
  /\ Goto(Tail(script)) /\ UNCHANGED <<files, loaded, enabled, said>>

Copy ==
  /\ Step("copy") /\ ~Busy
  /\ exe' = runs
  /\ Goto(Tail(script)) /\ UNCHANGED <<unit, manager, said>>

\* Without Exists the removal is skipped.
AfterRemoval == SubSeq(script, 6, Len(script))

Query ==
  /\ Step("query")
  /\ script' = IF Exists THEN Tail(script) ELSE AfterRemoval
  /\ waiting' = (idle = "activating" /\ ~enabled)
  /\ UNCHANGED <<files, manager, command, said, clean, bounds>>

Disable ==
  /\ Step("disable")
  /\ enabled' = FALSE /\ loaded' = unit
  /\ Goto(Tail(script)) /\ UNCHANGED <<files, process, said>>

Remove == Step("remove") /\ unit' = None /\ Goto(Tail(script)) /\ UNCHANGED <<exe, manager, said>>

Reload ==
  /\ Step("reload")
  /\ loaded' = unit
  /\ Goto(Tail(script)) /\ UNCHANGED <<files, enabled, process, said>>

Write == Step("write") /\ unit' = runs /\ Goto(Tail(script)) /\ UNCHANGED <<exe, manager, said>>

Enable ==
  /\ Step("enable")
  /\ enabled' = TRUE /\ loaded' = unit
  /\ Goto(Tail(script)) /\ UNCHANGED <<files, process, said>>

\* Starting a service that runs does nothing.
Start ==
  /\ Step("start")
  /\ IF proc = None /\ Whole(Unit) THEN Run(Unit) ELSE UNCHANGED process
  /\ Goto(Tail(script)) /\ UNCHANGED <<files, loaded, enabled, said>>

Delete == Step("delete") /\ exe' = None /\ Goto(Tail(script)) /\ UNCHANGED <<unit, manager, said>>

Say ==
  /\ Step("say")
  /\ said' = IF command = "install" THEN "installed" ELSE "uninstalled"
  /\ Goto(Tail(script)) /\ UNCHANGED <<files, manager>>

-----------------------------------------------------------------------------
Fault == faults < MaxFaults /\ faults' = faults + 1

\* A failure ends the command or is passed over; no output means no service.
Failed ==
  /\ clean' = FALSE
  /\ IF Head(script).must
     THEN script' = << >> /\ said' = "error"
     ELSE /\ script' = IF Step("query") THEN AfterRemoval ELSE Tail(script)
          /\ said' = said

CopyBusy ==
  /\ Step("copy") /\ Busy /\ Failed
  /\ UNCHANGED <<files, manager, command, waiting, bounds>>

\* A step fails without an effect; a copy or a write may leave a truncated file.
Fails ==
  /\ Fault /\ script # << >> /\ ~Step("say") /\ Failed
  /\ exe' \in {exe} \cup (IF Step("copy") /\ ~Busy THEN {Partial} ELSE {})
  /\ unit' \in {unit} \cup (IF Step("write") THEN {Partial} ELSE {})
  /\ UNCHANGED <<manager, command, waiting, runs>>

\* The command is killed.
CutOff ==
  /\ Fault /\ script # << >>
  /\ script' = << >> /\ clean' = FALSE
  /\ UNCHANGED <<files, manager, command, said, waiting, runs>>

\* The receiver ends, and systemd will restart it (Restart=always) unless it
\* no longer has its unit.
Die ==
  /\ Fault /\ proc # None
  /\ proc' = None
  /\ idle' \in IF Whole(loaded) THEN {"activating"} ELSE {"inactive", "failed"}
  /\ UNCHANGED <<files, loaded, enabled, command, script, said, clean, waiting, runs>>

\* Five seconds later (RestartSec=5).  A binary that cannot be executed is
\* tried for ever.
Restart ==
  /\ idle = "activating"
  /\ IF Whole(Unit) THEN Whole(exe) /\ Run(Unit)
                    ELSE idle' = "failed" /\ UNCHANGED proc
  /\ UNCHANGED <<files, loaded, enabled, command, script, said, clean, waiting, bounds>>

Wanted == enabled /\ Whole(unit)

\* The host goes down and comes back.
Boot ==
  /\ Fault
  /\ loaded' = unit
  /\ IF Wanted THEN Run(unit) ELSE proc' = None /\ idle' = "inactive"
  /\ script' = << >> /\ clean' = (clean /\ script = << >>)
  /\ UNCHANGED <<files, enabled, command, said, waiting, runs>>

Next ==
  \/ \E inTarget \in BOOLEAN : Install(inTarget)
  \/ Uninstall
  \/ Stop \/ Copy \/ Query \/ Disable \/ Remove \/ Reload \/ Write \/ Enable \/ Start \/ Delete \/ Say
  \/ CopyBusy \/ Fails \/ CutOff \/ Die \/ Restart \/ Boot

Spec == Init /\ [][Next]_vars
-----------------------------------------------------------------------------
TypeOK ==
  /\ exe \in 0..MaxRuns \cup {None}
  /\ unit \in 0..MaxRuns \cup {None} /\ loaded \in 0..MaxRuns \cup {None}
  /\ enabled \in BOOLEAN /\ clean \in BOOLEAN /\ waiting \in BOOLEAN
  /\ proc \in [cfg : 1..MaxRuns, exe : 1..MaxRuns] \cup {None}
  /\ idle \in {"inactive", "failed", "activating"} /\ (proc # None => idle = "inactive")
  /\ command \in {"none", "install", "uninstall"}
  /\ said \in {"none", "absent", "installed", "uninstalled", "error"}
  /\ runs \in 0..MaxRuns /\ faults \in 0..MaxFaults

(***************************************************************************)
(* "Service installed" is not said too early: by then the unit file of     *)
(* this command is written, read by systemd and enabled, and there is a    *)
(* whole binary, whatever failed on the way and whatever earlier commands  *)
(* left behind, so that the next boot starts it (service.go:112-126).      *)
(***************************************************************************)
InstalledIsTrue ==
  said = "installed" =>
    /\ unit = runs /\ loaded = runs /\ enabled
    /\ exe \notin {None, Partial}

(***************************************************************************)
(* An install whose steps all succeed repairs what commands that failed,   *)
(* were cut off or were overtaken by a death or a boot have left: it ends  *)
(* with this configuration running, or about to run again, from the        *)
(* installed binary (service.go:60-133).  One exception is left, against   *)
(* "If service already exists, remove it first" (service.go:77): a service *)
(* that is not enabled and waits for its restart when the query is made.   *)
(***************************************************************************)
InstallRepairs ==
  command = "install" /\ script = << >> /\ clean /\ ~waiting =>
    /\ said = "installed"
    /\ \/ proc = [cfg |-> runs, exe |-> exe]
       \/ idle = "activating" /\ loaded = runs

(***************************************************************************)
(* An uninstall whose steps all succeed, and which finds the unit file,    *)
(* leaves nothing of the service, nor anything that comes back             *)
(* (service.go:135-158).                                                   *)
(***************************************************************************)
UninstallLeavesNothing ==
  said = "uninstalled" /\ clean =>
    /\ exe = None /\ unit = None /\ loaded = None /\ ~enabled
    /\ proc = None /\ idle # "activating"
=============================================================================
