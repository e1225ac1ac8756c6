------------------------------- MODULE Service -------------------------------
(***************************************************************************)
(* How the backend comes to run on Linux: `serve' in a terminal, and the   *)
(* systemd user unit that `service install', `service uninstall' and       *)
(* `restart' manage (linux_service.py, commands_service.py, serve.py).     *)
(*                                                                         *)
(* A command is a few systemctl calls, any of which may fail, and may be   *)
(* interrupted between two; it is then run again.  systemd, uvicorn and    *)
(* the package manager are external.                                       *)
(***************************************************************************)
EXTENDS Naturals

CONSTANTS
  Path, NoPath, \* where a kurukuru command is installed
  MaxCommands,  \* bound: commands
  MaxReleases   \* bound: upgrades in place

ASSUME ServiceAssumption ==
  /\ Path # {} /\ NoPath \notin Path
  /\ MaxCommands \in Nat /\ MaxReleases \in Nat

VARIABLES
  unit,      \* the unit file, and what systemd has of it
  installed, \* the release at each path
  proc,      \* the backend of the unit and the one in a terminal
  command,   \* the command that runs and what it has still to do
  done       \* history: the last thing the user did, if an install that went through

serviceVars == <<unit, installed, proc, command, done>>

-----------------------------------------------------------------------------
Release == 0..MaxReleases
Place   == {"unit", "terminal"}

\* wanted: systemd keeps it up.
Unit   == [file : Path \union {NoPath}, loaded : Path \union {NoPath}, enabled : BOOLEAN, wanted : BOOLEAN]
NoUnit == [file |-> NoPath, loaded |-> NoPath, enabled |-> FALSE, wanted |-> FALSE]

Running == [pc : {"down", "starting", "listening"}, path : Path \union {NoPath}, release : Release]
Down    == [pc |-> "down", path |-> NoPath, release |-> 0]

\* Started now, from there.
Started(path) == [pc |-> "starting", path |-> path, release |-> installed[path]]
Listening     == \E x \in Place : proc[x].pc = "listening"

NotDone == [path |-> NoPath, release |-> 0]

Take(step) ==
  /\ command.pc = "idle" /\ command.left > 0
  /\ command' = [pc |-> step, left |-> command.left - 1]
  /\ done' = NotDone

Performs(step) == command.pc = step
NextStep(step) == command' = [command EXCEPT !.pc = step] /\ UNCHANGED done
GiveUp         == NextStep("idle")

-----------------------------------------------------------------------------
(***************************************************************************)
(* service install                                                         *)
(***************************************************************************)

\* The command that runs is the one to install; the file is written if it
\* differs, and whether it does changes nothing else.
InstallUnit(p) ==
  /\ Take("reload")
  /\ unit' = [unit EXCEPT !.file = p]
  /\ UNCHANGED <<installed, proc>>

Reload ==
  /\ Performs("reload")
  /\ \/ unit' = [unit EXCEPT !.loaded = unit.file] /\ NextStep("enable")
     \/ UNCHANGED unit /\ GiveUp
  /\ UNCHANGED <<installed, proc>>

\* systemd reloads by itself when it enables.
Enable ==
  /\ Performs("enable")
  /\ \/ unit' = [unit EXCEPT !.enabled = TRUE, !.loaded = unit.file] /\ NextStep("restart")
     \/ UNCHANGED unit /\ GiveUp
  /\ UNCHANGED <<installed, proc>>

\* Mutant: start, which leaves a unit that runs as it is.
StartUnit == /\ unit' = [unit EXCEPT !.wanted = TRUE]
             /\ proc' = IF proc["unit"].pc = "down" THEN [proc EXCEPT !["unit"] = Started(unit.loaded)] ELSE proc

\* systemctl restart: what is loaded, and what is there of it now.
RestartUnit == /\ unit' = [unit EXCEPT !.wanted = TRUE]
               /\ proc' = [proc EXCEPT !["unit"] = Started(unit.loaded)]

\* When it fails the old backend may be gone already.
RestartFails == proc' \in {proc, [proc EXCEPT !["unit"] = Down]} /\ UNCHANGED unit

FinishInstall ==
  /\ Performs("restart")
  /\ \/ /\ RestartUnit
        /\ command' = [command EXCEPT !.pc = "idle"]
        /\ done' = [path |-> unit.file, release |-> installed[unit.file]]
     \/ RestartFails /\ GiveUp
  /\ UNCHANGED installed

-----------------------------------------------------------------------------
(***************************************************************************)
(* service uninstall, restart                                              *)
(***************************************************************************)

Uninstall ==
  /\ unit.file # NoPath
  /\ Take("disable")
  /\ UNCHANGED <<unit, installed, proc>>

\* disable --now stops it too.
Disable ==
  /\ Performs("disable")
  /\ \/ /\ unit' = [unit EXCEPT !.enabled = FALSE, !.wanted = FALSE, !.loaded = unit.file]
        /\ proc' = [proc EXCEPT !["unit"] = Down]
        /\ NextStep("unlink")
     \/ UNCHANGED <<unit, proc>> /\ GiveUp
  /\ UNCHANGED installed

Unlink ==
  /\ Performs("unlink")
  /\ unit' = [unit EXCEPT !.file = NoPath]
  /\ NextStep("forget")
  /\ UNCHANGED <<installed, proc>>

Forget ==
  /\ Performs("forget")
  /\ unit' \in {unit, [unit EXCEPT !.loaded = NoPath]}
  /\ GiveUp
  /\ UNCHANGED <<installed, proc>>

\* `restart' asks for a unit file and restarts what systemd has loaded; that
\* something listens on the port afterwards is all it waits for.
RestartService ==
  /\ unit.file # NoPath /\ unit.loaded # NoPath
  /\ command.pc = "idle" /\ command.left > 0
  /\ command' = [command EXCEPT !.left = @ - 1]
  /\ RestartUnit \/ RestartFails
  /\ UNCHANGED <<installed, done>>

CutShort ==
  /\ command.pc # "idle"
  /\ GiveUp
  /\ UNCHANGED <<unit, installed, proc>>

-----------------------------------------------------------------------------
(***************************************************************************)
(* Backends                                                                *)
(***************************************************************************)

\* serve looks whether the port can be bound, and starts up before it binds.
Serve(p) ==
  /\ proc["terminal"].pc = "down" /\ ~Listening
  /\ proc' = [proc EXCEPT !["terminal"] = Started(p)]
  /\ UNCHANGED <<unit, installed, command, done>>

\* The port may have been taken meanwhile.
Bind(x) ==
  /\ proc[x].pc = "starting"
  /\ proc' = [proc EXCEPT ![x] = IF Listening THEN Down ELSE [@ EXCEPT !.pc = "listening"]]
  /\ UNCHANGED <<unit, installed, command, done>>

Exit(x) ==
  /\ proc[x].pc # "down"
  /\ proc' = [proc EXCEPT ![x] = Down]
  /\ UNCHANGED <<unit, installed, command, done>>

\* Restart=on-failure; the probe of serve may send it away again.
StartAgain ==
  /\ unit.wanted /\ unit.loaded # NoPath /\ proc["unit"].pc = "down"
  /\ proc' = [proc EXCEPT !["unit"] = Started(unit.loaded)]
  /\ UNCHANGED <<unit, installed, command, done>>

\* A new session of the user, or the host.
LogIn ==
  /\ command.pc = "idle"
  /\ unit' = [unit EXCEPT !.loaded = unit.file, !.wanted = unit.enabled /\ unit.file # NoPath]
  /\ proc' = [proc EXCEPT !["unit"] = IF unit.enabled /\ unit.file # NoPath THEN Started(unit.file) ELSE Down,
                          !["terminal"] = Down]
  /\ UNCHANGED <<installed, command, done>>

Upgrade(p) ==
  /\ installed[p] < MaxReleases
  /\ installed' = [installed EXCEPT ![p] = @ + 1]
  /\ UNCHANGED <<unit, proc, command, done>>

-----------------------------------------------------------------------------
ServiceInit ==
  /\ unit = NoUnit
  /\ installed = [p \in Path |-> 0]
  /\ proc = [x \in Place |-> Down]
  /\ command = [pc |-> "idle", left |-> MaxCommands]
  /\ done = NotDone

ServiceNext ==
  \/ \E p \in Path : InstallUnit(p) \/ Serve(p) \/ Upgrade(p)
  \/ Reload \/ Enable \/ FinishInstall
  \/ Uninstall \/ Disable \/ Unlink \/ Forget
  \/ RestartService \/ CutShort
  \/ \E x \in Place : Bind(x) \/ Exit(x)
  \/ StartAgain \/ LogIn

ServiceSpec == ServiceInit /\ [][ServiceNext]_serviceVars

-----------------------------------------------------------------------------
(***************************************************************************)
(* Properties                                                              *)
(***************************************************************************)

\* Every variable has its type, and one backend at most has the port.
ServiceTypeOK ==
  /\ unit \in Unit
  /\ installed \in [Path -> Release]
  /\ proc \in [Place -> Running]
  /\ command \in [pc : {"idle", "reload", "enable", "restart", "disable", "unlink", "forget"},
                  left : 0..MaxCommands]
  /\ done \in [path : Path \union {NoPath}, release : Release]
  /\ \A x, y \in Place : proc[x].pc = "listening" /\ proc[y].pc = "listening" => x = y

\* Once an install has gone through, and until the user installs or
\* uninstalls again, systemd knows the unit it wrote, starts it with the
\* session, and whatever it runs is that command, no older than it was then:
\* also when an earlier install of the same unit was cut short, the command
\* was upgraded in place, or backends came and went since (install).
InstallTakesEffect ==
  done.path # NoPath =>
    /\ unit.file = done.path /\ unit.loaded = done.path /\ unit.enabled /\ unit.wanted
    /\ proc["unit"].pc # "down" =>
         proc["unit"].path = done.path /\ proc["unit"].release >= done.release
=============================================================================
