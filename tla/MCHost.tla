------------------------------- MODULE MCHost -------------------------------
(***************************************************************************)
(* One model of the host for TLC: a behaviour is one of the driver or one  *)
(* of the launches, so the two state spaces add up and are explored        *)
(* together.  Driver has the files and processes under a name, Launches    *)
(* what stands above it; each takes the other's part as done in one step.  *)
(***************************************************************************)
EXTENDS Driver, Launches, TLC

CONSTANTS side, k1

\* The default project with a key, another without.
Wishes == {[project |-> DefaultProject, links |-> {k1}], [project |-> side, links |-> {}]}

VARIABLE part

hostVars == <<driverVars, launchesVars, part>>

\* The part that rests has one initial state.
HostInit ==
  /\ DriverInit /\ LaunchesInit
  /\ part \in {"driver", "launches"}
  /\ part = "driver" => \A g \in Image \ {Builtin} : catalog[g] = "Available"
  /\ part = "launches" => \A n \in Name : standing[n] = "none"

HostNext ==
  \/ part = "driver" /\ DriverNext /\ UNCHANGED <<launchesVars, part>>
  \/ part = "launches" /\ LaunchesNext /\ UNCHANGED <<driverVars, part>>

HostSpec == HostInit /\ [][HostNext]_hostVars

\* Types of both.
HostTypeOK == DriverTypeOK /\ LaunchesTypeOK

\* Slot is Name and Client is Thread in the configuration: the parts share
\* the symmetry.
HostSymmetry == Permutations(Name) \union Permutations(Pid) \union Permutations(Thread)
=============================================================================
