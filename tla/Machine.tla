------------------------------ MODULE Machine -------------------------------
(***************************************************************************)
(* What the driver promises of the virtual machine behind a name.          *)
(* InstanceLifecycle is written against these moves (its vm, with          *)
(* "running" split in two); Driver, which has the files and the processes, *)
(* is shown to make no other.                                              *)
(*                                                                         *)
(* "contested" is a name about which nothing is promised: calls on it      *)
(* overlapped, or something failed or died half way.  It is left when the  *)
(* directory is gone for good.                                             *)
(***************************************************************************)

CONSTANT Machines

VARIABLE machine

MachineState == {"absent", "bare", "stopped", "running", "contested"}

Move(m, from, to) ==
  /\ machine[m] = from
  /\ machine' = [machine EXCEPT ![m] = to]

\* provision makes a directory, which then gets its runtime file; a
\* build that fails takes the directory away again.
Build(m)   == Move(m, "absent", "bare")
Pin(m)     == Move(m, "bare", "stopped")
Unbuild(m) == Move(m, "bare", "absent")

Boot(m) == Move(m, "stopped", "running")

\* Guests go, at a call or by themselves; a call that puts out the guest on
\* a port and the one with a number may take two.
Halt(ms) ==
  /\ \A m \in ms : machine[m] = "running"
  /\ machine' = [m \in Machines |-> IF m \in ms THEN "stopped" ELSE machine[m]]

\* Destroyed: never while it runs.
Discard(m) == Move(m, "stopped", "absent")

\* Calls overlap on several names at once, and a crash hits all its calls.
Contest(ms) ==
  machine' = [m \in Machines |-> IF m \in ms THEN "contested" ELSE machine[m]]

Settle(m)  == Move(m, "contested", "absent")

MachineInit == machine \in [Machines -> {"absent", "stopped", "running"}]

MachineNext ==
  \/ \E m \in Machines : Build(m) \/ Pin(m) \/ Unbuild(m)
                        \/ Boot(m) \/ Discard(m) \/ Settle(m)
  \/ \E ms \in SUBSET Machines : Halt(ms) \/ Contest(ms)

MachineSpec == MachineInit /\ [][MachineNext]_machine
=============================================================================
