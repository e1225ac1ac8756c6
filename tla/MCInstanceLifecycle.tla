------------------------ MODULE MCInstanceLifecycle ------------------------
(***************************************************************************)
(* Instances of InstanceLifecycle for TLC.  The .cfg files give the sets;  *)
(* the functions from rows to names are defined here.                      *)
(***************************************************************************)
EXTENDS InstanceLifecycle, TLC

CONSTANTS n1, n2

\* Every row is created under the same name.
SharedNameOf == [r \in Row |-> n1]

\* One row has a name of its own, the others share one.
SplitNameOf == [r \in Row |-> IF r = AnyRow THEN n1 ELSE n2]

Requests == Permutations(Request)
=============================================================================
