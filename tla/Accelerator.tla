----------------------------- MODULE Accelerator -----------------------------
(***************************************************************************)
(* What the backend remembers of the emulator: the accelerator, measured   *)
(* in six seconds, kept for the process and in accel-probe.json            *)
(* (accel_cache.py); whether the tools run, for a few seconds; version and *)
(* capabilities, for the process (QemuEngine).                             *)
(*                                                                         *)
(* The binary may be replaced and the accelerator turned on or off at any  *)
(* time, so also while a thread measures.  A build is a version and a      *)
(* revision of it, which only its size and modification time tell apart.   *)
(***************************************************************************)
EXTENDS Naturals, FiniteSets

CONSTANTS
  Asker,        \* threads that ask
  Version, Revision,
  Unread, Untold, \* no version read yet; the binary would not tell it
  MaxChanges    \* bound: changes of the host, the clock, the process

ASSUME AcceleratorAssumption ==
  /\ IsFiniteSet(Asker)
  /\ Version # {} /\ Revision # {}
  /\ Unread \notin Version \union {Untold} /\ Untold \notin Version \union (Version \X Revision)
  /\ MaxChanges \in Nat

VARIABLES
  emulator, \* the installed build and what the host lets it do
  entry,    \* accel-probe.json
  engine,   \* QemuEngine of the running process
  asking,   \* what each thread does
  changes   \* how often something changed

acceleratorVars == <<emulator, entry, engine, asking, changes>>

-----------------------------------------------------------------------------
Build == Version \X Revision

\* found: the configured name is a path that can be looked up.
Emulator == [build : Build, works : BOOLEAN, runs : BOOLEAN, found : BOOLEAN]

\* stamp is what _identity said when the answer was stored.  History: of is
\* the build that was measured, swapped that it was replaced meanwhile.
NoEntry == [stored |-> FALSE]
Entry ==
  {NoEntry} \union
  [stored : {TRUE}, stamp : (Version \union {Untold}) \X (Build \union {Untold}), fresh : BOOLEAN,
   of : Build, swapped : BOOLEAN]

\* probes, history: measurements of this process.
Engine ==
  [accel : {"unset", "hardware", "tcg"}, version : Version \union {Unread, Untold},
   available : {"unset", "yes", "no"}, fresh : BOOLEAN, support : Version \union {Unread, Untold},
   probes : 0..Cardinality(Asker)]
NewEngine == [accel |-> "unset", version |-> Unread, available |-> "unset", fresh |-> FALSE,
              support |-> Unread, probes |-> 0]

\* of and works are what the measuring thread started with.
Asking == [pc : {"idle", "waiting", "probing", "checking"}, of : Build, works : BOOLEAN, swapped : BOOLEAN]
NotAsking == [pc |-> "idle", of |-> CHOOSE b \in Build : TRUE, works |-> FALSE, swapped |-> FALSE]

Doing(q, pc)  == asking[q].pc = pc
Turn(q, pc)   == asking' = [asking EXCEPT ![q].pc = pc]
SomeoneIs(pc) == \E q \in Asker : Doing(q, pc)

\* _binary_version: asked once a process, and an answer that cannot be had
\* is remembered too.
ReadVersion(v) ==
  v \in IF engine.version # Unread THEN {engine.version} ELSE {emulator.build[1], Untold}

\* Mutant: the path and the version alone.
IdentityByName(v) == <<v, Untold>>

\* _identity
Identity(v) == <<v, IF emulator.found THEN emulator.build ELSE Untold>>

\* load
Loads(v) == entry.stored /\ entry.fresh /\ entry.stamp = Identity(v)

Measured == [engine EXCEPT !.probes = @ + 1]

-----------------------------------------------------------------------------
(***************************************************************************)
(* accel                                                                   *)
(***************************************************************************)

\* The memo is looked at without the lock.
AskAccel(q) ==
  /\ Doing(q, "idle") /\ engine.accel = "unset"
  /\ Turn(q, "waiting")
  /\ UNCHANGED <<emulator, entry, engine, changes>>

Answered(q) ==
  /\ Doing(q, "waiting") /\ ~SomeoneIs("probing") /\ engine.accel # "unset"
  /\ Turn(q, "idle")
  /\ UNCHANGED <<emulator, entry, engine, changes>>

\* Mutant: the memo alone, as it was before it had a lock.
TakeNoLock(q) == Doing(q, "waiting") /\ engine.accel = "unset"

TakeLock(q) == Doing(q, "waiting") /\ ~SomeoneIs("probing") /\ engine.accel = "unset"

\* No accelerator for this platform, or /dev/kvm missing or not ours.
NoneHere(q) ==
  /\ TakeLock(q) /\ ~emulator.works
  /\ engine' = [engine EXCEPT !.accel = "tcg"]
  /\ Turn(q, "idle")
  /\ UNCHANGED <<emulator, entry, changes>>

TakeStored(q) ==
  /\ TakeLock(q)
  /\ \E v \in Version \union {Untold} :
       /\ ReadVersion(v) /\ Loads(v)
       /\ engine' = [engine EXCEPT !.accel = "hardware", !.version = v]
  /\ Turn(q, "idle")
  /\ UNCHANGED <<emulator, entry, changes>>

\* The version is read only if there is an entry to compare it with.
BeginProbe(q) ==
  /\ TakeLock(q)
  /\ \/ ~entry.stored /\ engine' = Measured
     \/ /\ entry.stored
        /\ \E v \in Version \union {Untold} :
             /\ ReadVersion(v) /\ ~Loads(v)
             /\ engine' = [Measured EXCEPT !.version = v]
  /\ asking' = [asking EXCEPT ![q] = [pc |-> "probing", of |-> emulator.build,
                                      works |-> emulator.works /\ emulator.runs, swapped |-> FALSE]]
  /\ UNCHANGED <<emulator, entry, changes>>

\* The identity is computed now; the file may not be writable.
Operational(q) ==
  /\ Doing(q, "probing") /\ asking[q].works
  /\ \E v \in Version \union {Untold} :
       /\ ReadVersion(v)
       /\ engine' = [engine EXCEPT !.accel = "hardware", !.version = v]
       /\ entry' \in {entry, [stored |-> TRUE, stamp |-> Identity(v), fresh |-> TRUE,
                              of |-> asking[q].of, swapped |-> asking[q].swapped]}
  /\ Turn(q, "idle")
  /\ UNCHANGED <<emulator, changes>>

\* Only a success is stored.
NotOperational(q) ==
  /\ Doing(q, "probing") /\ ~asking[q].works
  /\ engine' = [engine EXCEPT !.accel = "tcg"]
  /\ Turn(q, "idle")
  /\ UNCHANGED <<emulator, entry, changes>>

\* An accelerated guest did not come up: clear.  The memo stays.
LaunchFails ==
  /\ engine.accel = "hardware" /\ entry.stored
  /\ entry' = NoEntry
  /\ UNCHANGED <<emulator, engine, asking, changes>>

-----------------------------------------------------------------------------
(***************************************************************************)
(* is_available, support                                                   *)
(***************************************************************************)

\* Under its own lock; a fresh answer is given without it.
CheckAvailable(q) ==
  /\ Doing(q, "idle") /\ ~SomeoneIs("checking")
  /\ ~(engine.available # "unset" /\ engine.fresh)
  /\ Turn(q, "checking")
  /\ UNCHANGED <<emulator, entry, engine, changes>>

\* The answer is dated from before the tools were run.
MeasureAvailability(q) ==
  /\ Doing(q, "checking")
  /\ \E fresh \in BOOLEAN :
       engine' = [engine EXCEPT !.available = IF emulator.runs THEN "yes" ELSE "no", !.fresh = fresh]
  /\ Turn(q, "idle")
  /\ UNCHANGED <<emulator, entry, changes>>

\* cached_support: keyed on the path, so for as long as the process lives.
\* Launches stamp instances with it.
Support(q) ==
  /\ Doing(q, "idle") /\ engine.accel # "unset" /\ engine.support = Unread
  /\ engine' = [engine EXCEPT !.support = IF emulator.runs THEN emulator.build[1] ELSE Untold]
  /\ UNCHANGED <<emulator, entry, asking, changes>>

-----------------------------------------------------------------------------
(***************************************************************************)
(* The host                                                                *)
(***************************************************************************)

Change == changes < MaxChanges /\ changes' = changes + 1

Install(b) ==
  /\ Change /\ b # emulator.build
  /\ emulator' = [emulator EXCEPT !.build = b]
  /\ asking' = [q \in Asker |-> [asking[q] EXCEPT !.swapped = @ \/ Doing(q, "probing")]]
  /\ UNCHANGED <<entry, engine>>

Toggle ==
  /\ Change
  /\ emulator' \in {[emulator EXCEPT !.works = ~@], [emulator EXCEPT !.runs = ~@]}
  /\ UNCHANGED <<entry, engine, asking>>

\* Two weeks pass, or the clock is set, back or forth.
Clock ==
  /\ Change /\ entry.stored
  /\ entry' = [entry EXCEPT !.fresh = ~@]
  /\ UNCHANGED <<emulator, engine, asking>>

\* A few seconds.
AvailabilityAges ==
  /\ engine.fresh
  /\ engine' = [engine EXCEPT !.fresh = FALSE]
  /\ UNCHANGED <<emulator, entry, asking, changes>>

RestartBackend ==
  /\ Change
  /\ engine' = NewEngine
  /\ asking' = [q \in Asker |-> NotAsking]
  /\ UNCHANGED <<emulator, entry>>

-----------------------------------------------------------------------------
AcceleratorInit ==
  /\ emulator \in [build : {CHOOSE b \in Build : TRUE}, works : BOOLEAN, runs : {TRUE}, found : BOOLEAN]
  /\ entry = NoEntry
  /\ engine = NewEngine
  /\ asking = [q \in Asker |-> NotAsking]
  /\ changes = 0

AcceleratorNext ==
  \/ \E q \in Asker :
       \/ AskAccel(q) \/ Answered(q)
       \/ NoneHere(q) \/ TakeStored(q) \/ BeginProbe(q)
       \/ Operational(q) \/ NotOperational(q)
       \/ CheckAvailable(q) \/ MeasureAvailability(q) \/ Support(q)
  \/ LaunchFails
  \/ \E b \in Build : Install(b)
  \/ Toggle \/ Clock \/ AvailabilityAges \/ RestartBackend

AcceleratorSpec == AcceleratorInit /\ [][AcceleratorNext]_acceleratorVars

-----------------------------------------------------------------------------
(***************************************************************************)
(* Properties                                                              *)
(***************************************************************************)

\* Every variable has its type, and each lock one holder.
AcceleratorTypeOK ==
  /\ emulator \in Emulator /\ entry \in Entry /\ engine \in Engine
  /\ asking \in [Asker -> Asking]
  /\ changes \in 0..MaxChanges
  /\ \A q, r \in Asker : q # r /\ asking[q].pc = asking[r].pc => asking[q].pc \in {"idle", "waiting"}

\* However many threads ask at once, a process measures once; and what the
\* next process would take from the file instead of measuring was measured
\* with the build that is installed then (accel, accel_cache).  Exempt, since
\* the code allows them: a build replaced during the six seconds, and a name
\* that cannot be looked up, whose revisions of one version look the same.
MeasuredOnce ==
  /\ engine.probes <= 1
  /\ \A v \in {emulator.build[1], Untold} :
       Loads(v) => entry.swapped \/ ~emulator.found \/ entry.of = emulator.build
=============================================================================
