----------------------------- MODULE MCControl ------------------------------
(***************************************************************************)
(* What the backend keeps about itself, for TLC: the credentials and the   *)
(* token file of the command line, what is remembered of the emulator, the *)
(* shape of the database, and the service it runs as.  They share no       *)
(* state, so a behaviour is one of them and their state spaces add up.     *)
(***************************************************************************)
EXTENDS Keyring, Accelerator, Schema, Service, TLC

VARIABLE part

controlVars == <<keyringVars, acceleratorVars, schemaVars, serviceVars, part>>

\* The parts that rest have one initial state.
ControlInit ==
  /\ part \in {"keyring", "accelerator", "schema", "service"}
  /\ KeyringInit /\ AcceleratorInit /\ SchemaInit /\ ServiceInit
  /\ part # "keyring" => \A u \in User : ~Exists(u)
  /\ part # "accelerator" => emulator.works /\ emulator.found
  /\ part # "schema" => ~db.there

ControlNext ==
  /\ UNCHANGED part
  /\ \/ /\ part = "keyring" /\ KeyringNext
        /\ UNCHANGED <<acceleratorVars, schemaVars, serviceVars>>
     \/ /\ part = "accelerator" /\ AcceleratorNext
        /\ UNCHANGED <<keyringVars, schemaVars, serviceVars>>
     \/ /\ part = "schema" /\ SchemaNext
        /\ UNCHANGED <<keyringVars, acceleratorVars, serviceVars>>
     \/ /\ part = "service" /\ ServiceNext
        /\ UNCHANGED <<keyringVars, acceleratorVars, schemaVars>>

ControlSpec == ControlInit /\ [][ControlNext]_controlVars

\* Types of all.
ControlTypeOK == KeyringTypeOK /\ AcceleratorTypeOK /\ SchemaTypeOK /\ ServiceTypeOK

\* Asker is Caller in the configuration: the parts share the symmetry.
ControlSymmetry == Permutations(Caller)
=============================================================================
