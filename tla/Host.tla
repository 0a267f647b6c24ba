-------------------------------- MODULE Host --------------------------------
(***************************************************************************)
(* boltgo service on the two systems it supports: cmdServiceInstall and    *)
(* cmdServiceUninstall ask runtime.GOOS (cmd/boltgo/service.go:31-57).     *)
(* The system is chosen by Init and never changes; the variables of the    *)
(* other one keep their initial values.                                    *)
(***************************************************************************)
EXTENDS Integers

CONSTANTS
  MaxRuns,    \* bound: commands that are run
  MaxFaults,  \* bound: faults of any kind
  MaxAsked,   \* bound: Interrogate requests
  None        \* no file, no service, no process

ASSUME HostAssumption ==
  MaxRuns \in Nat /\ MaxFaults \in Nat /\ MaxAsked \in Nat /\ None \notin Nat

VARIABLES
  os,                                        \* runtime.GOOS
  exe, unit, loaded, enabled, proc, idle,    \* see Systemd
  waiting,
  wexe, service, doomed,                     \* see WinService
  main, cfg, recv, errCh, status, exit, request,
  command, script, said, clean, runs, faults, asked

L == INSTANCE Systemd
W == INSTANCE WinService WITH exe <- wexe

linux == <<exe, unit, loaded, enabled, proc, idle, waiting>>
windows == <<wexe, service, doomed, main, cfg, recv, errCh, status, exit, request, asked>>
shared == <<command, script, said, clean, runs, faults>>
vars == <<os, linux, windows, shared>>

Init == os \in {"linux", "windows"} /\ L!Init /\ W!Init

Linux == os = "linux" /\ L!Next /\ UNCHANGED <<os, windows>>
Windows == os = "windows" /\ W!Next /\ UNCHANGED <<os, linux>>

Next == Linux \/ Windows

Spec == Init /\ [][Next]_vars

\* On Windows a process that was asked and a command that was begun go on.
Fairness ==
  /\ WF_vars(os = "windows" /\ W!Execute /\ UNCHANGED <<os, linux>>)
  /\ WF_vars(os = "windows" /\ W!Purge /\ UNCHANGED <<os, linux>>)
  /\ WF_vars(os = "windows" /\ W!Steps /\ UNCHANGED <<os, linux>>)

FairSpec == Spec /\ Fairness
-----------------------------------------------------------------------------
(***************************************************************************)
(* The types of both systems' variables.                                   *)
(***************************************************************************)
TypeOK == L!TypeOK /\ W!TypeOK

(***************************************************************************)
(* Linux: what "Service installed" promises holds (Systemd).               *)
(***************************************************************************)
InstalledIsTrue == os = "linux" => L!InstalledIsTrue

(***************************************************************************)
(* Linux: an install without a fault repairs what is there (Systemd).      *)
(***************************************************************************)
InstallRepairs == os = "linux" => L!InstallRepairs

(***************************************************************************)
(* Linux: an uninstall without a fault leaves nothing (Systemd).           *)
(***************************************************************************)
UninstallLeavesNothing == os = "linux" => L!UninstallLeavesNothing

(***************************************************************************)
(* Windows: an older registration never hides under "Service installed"    *)
(* unless a step failed (WinService).                                      *)
(***************************************************************************)
InstalledIsRegistered == os = "windows" => W!InstalledIsRegistered

(***************************************************************************)
(* Windows: "Service uninstalled" comes true without a fault (WinService). *)
(***************************************************************************)
UninstallTakesEffect == W!UninstallTakesEffect

(***************************************************************************)
(* Windows: a receiver that fails ends the service (WinService).           *)
(***************************************************************************)
FailureEndsTheService == W!FailureEndsTheService
=============================================================================
