------------------------------ MODULE Volumes ------------------------------
(***************************************************************************)
(* Disks: the volumes and their attachment to instances, the snapshots     *)
(* kept inside volumes and inside instance overlays, and the jobs that     *)
(* make and remove them, beside the instance routes that boot from what    *)
(* is attached.                                                            *)
(*                                                                         *)
(* A row says what the user asked for; runtime.json is the driver's replay *)
(* copy, written by the router after every attach and detach and read by   *)
(* every start.  Routes and jobs run on threads and nothing claims a       *)
(* volume, so the model notes which of them overlapped.                    *)
(***************************************************************************)
EXTENDS Integers, FiniteSets

CONSTANTS
  Instance, Volume, Snapshot,  \* identifiers of rows
  Nobody,                      \* no row
  Request,                     \* threads serving API requests
  MaxRequests,                 \* bound: requests accepted
  Failures                     \* bound: calls that fail, crashes

ASSUME VolumesAssumption ==
  /\ Nobody \notin Instance \union Volume \union Snapshot
  /\ Instance # {} /\ Volume # {} /\ Snapshot # {}
  /\ Instance \intersect Volume = {}
  /\ Snapshot \intersect (Instance \union Volume) = {}
  /\ IsFiniteSet(Volume)
  /\ MaxRequests \in Nat
  /\ Failures \in Nat

VARIABLES
  inst,    \* status column of each instance
  qemu,    \* its directory and process: absent, off, on
  boots,   \* volumes of its runtime.json: the place of each in the list
  open,    \* the same of the live process
  vol,     \* the volumes table
  file,    \* the volumes whose qcow2 exists
  making,  \* _create_job of each volume
  snap,    \* the two tables of snapshots
  saved,   \* the snapshots each disk holds
  taking,  \* _create_job of each snapshot
  dropping, \* _delete_job of each snapshot
  req,     \* one record per request thread
  raced,   \* history: what requests or jobs overlapped on
  astray,  \* history: what a failure left half done
  left     \* requests and failures left

machines == <<inst, qemu, boots, open>>
disks    == <<vol, file, making>>
shots    == <<snap, saved, taking, dropping>>
history  == <<raced, astray>>
vars     == <<machines, disks, shots, req, history, left>>

-----------------------------------------------------------------------------
Disk == Volume \union Instance

InstanceStatus == {"Running", "Stopped", "Error", "Terminated"}
VolumeStatus   == {"Creating", "Available", "Attached", "Error"}
SnapshotStatus == {"Creating", "Available", "Deleting", "Error"}

\* attach_order is null while detached.
NoOrder == -1

\* A row that does not exist yet is "unborn", one that was deleted "gone".
VolumeRow == [st : VolumeStatus \union {"unborn", "gone"},
              owner : Instance \union {Nobody}, order : Nat \union {NoOrder}]

SnapshotRow == [st : SnapshotStatus \union {"unborn", "gone"}, of : Disk \union {Nobody}]

Loose(st) == [st |-> st, owner |-> Nobody, order |-> NoOrder]

Exists(rw) == rw.st \notin {"unborn", "gone"}

\* The volumes a query by attached_instance_id returns, and the place of
\* each when they are ordered by attach_order.
AttachedTo(i) == {v \in Volume : vol[v].owner = i}
Place(i, v)   == Cardinality({w \in AttachedTo(i) : vol[w].order < vol[v].order})

\* _attached_paths
AttachedPaths(i) == [v \in AttachedTo(i) |-> Place(i, v)]

NoPaths == [v \in {} |-> 0]

Lists == UNION {[S -> 0..Cardinality(Volume)] : S \in SUBSET Volume}

-----------------------------------------------------------------------------
(***************************************************************************)
(* Requests                                                                *)
(***************************************************************************)

RequestRecord ==
  [pc : {"idle", "loaded", "compacting", "pushing", "telling", "unlinked", "booting",
         "halted", "destroyed", "restoring"},
   op : {"attach", "detach", "delete", "start", "stop", "terminate", "restore"},
   v : Volume \union {Nobody}, i : Instance \union {Nobody}, s : Snapshot \union {Nobody},
   on    : SUBSET (Disk \union Snapshot),   \* what it works on
   order : Nat \union {NoOrder},            \* the order an attach computed
   paths : Lists]                           \* the list it read

NoRequest == [pc |-> "idle", op |-> "attach", v |-> Nobody, i |-> Nobody, s |-> Nobody,
              on |-> {}, order |-> NoOrder, paths |-> NoPaths]

At(q, op, pc) == req[q].pc = pc /\ req[q].op = op
GoTo(q, pc)   == req' = [req EXCEPT ![q].pc = pc]
Answer(q)     == req' = [req EXCEPT ![q] = NoRequest]
Busy(x)       == \E q \in Request : x \in req[q].on

\* A request on r.on is accepted, and what else is at work there noted.
Accept(q, r) ==
  LET others == {p \in Request : req[p].on \intersect r.on # {}} IN
  /\ req[q].pc = "idle"
  /\ left.requests > 0 /\ left' = [left EXCEPT !.requests = @ - 1]
  /\ req' = [req EXCEPT ![q] = r]
  /\ raced' = raced
       \union (IF others = {} THEN {} ELSE r.on \union UNION {req[p].on : p \in others})
       \union {v \in r.on \intersect Volume : r.op = "delete" /\ making[v] # "none"}

Fails == left.failures > 0 /\ left' = [left EXCEPT !.failures = @ - 1]

\* Mutant: an attached volume is attached again.
LoadAttachAgain(q, v, i) ==
  LET used == {vol[w].order : w \in AttachedTo(i)} \ {NoOrder}
      next == IF used = {} THEN 0 ELSE (CHOOSE n \in used : \A m \in used : m <= n) + 1
  IN
  /\ vol[v].st \in {"Available", "Attached"}
  /\ inst[i] = "Stopped"
  /\ Accept(q, [NoRequest EXCEPT !.pc = "loaded", !.op = "attach", !.v = v, !.i = i,
                                 !.on = {v, i}, !.order = next])
  /\ UNCHANGED <<machines, disks, shots, astray>>

\* attach_volume: the checks, and the order one past the highest in use.
LoadAttach(q, v, i) ==
  LET used == {vol[w].order : w \in AttachedTo(i)} \ {NoOrder}
      next == IF used = {} THEN 0 ELSE (CHOOSE n \in used : \A m \in used : m <= n) + 1
  IN
  /\ vol[v].st = "Available"
  /\ inst[i] = "Stopped"
  /\ Accept(q, [NoRequest EXCEPT !.pc = "loaded", !.op = "attach", !.v = v, !.i = i,
                                 !.on = {v, i}, !.order = next])
  /\ UNCHANGED <<machines, disks, shots, astray>>

\* An UPDATE of a row that was deleted is an error, and the request ends.
CommitAttach(q) ==
  LET r == req[q] IN
  /\ At(q, "attach", "loaded")
  /\ IF Exists(vol[r.v])
     THEN /\ vol' = [vol EXCEPT ![r.v] = [st |-> "Attached", owner |-> r.i, order |-> r.order]]
          /\ GoTo(q, "pushing")
     ELSE Answer(q) /\ UNCHANGED vol
  /\ UNCHANGED <<machines, file, making, shots, history, left>>

\* _push_to_engine: the query, then set_volumes.
ReadPaths(q) ==
  /\ req[q].pc = "pushing"
  /\ req' = [req EXCEPT ![q].pc = "telling", ![q].paths = AttachedPaths(req[q].i)]
  /\ UNCHANGED <<machines, disks, shots, history, left>>

SetVolumes(q) ==
  LET i == req[q].i IN
  /\ req[q].pc = "telling"
  /\ boots' = IF qemu[i] = "absent" THEN boots ELSE [boots EXCEPT ![i] = req[q].paths]
  /\ Answer(q)
  /\ UNCHANGED <<inst, qemu, open, disks, shots, history, left>>

\* The file cannot be written, or read: a warning in the log.
SetVolumesFails(q) ==
  /\ req[q].pc = "telling"
  /\ Fails
  /\ astray' = astray \union {req[q].i}
  /\ Answer(q)
  /\ UNCHANGED <<machines, disks, shots, raced>>

LoadDetach(q, v, i) ==
  /\ vol[v].st = "Attached" /\ vol[v].owner = i
  /\ inst[i] = "Stopped"
  /\ Accept(q, [NoRequest EXCEPT !.pc = "loaded", !.op = "detach", !.v = v, !.i = i,
                                 !.on = {v, i}])
  /\ UNCHANGED <<machines, disks, shots, astray>>

\* Mutant: the volume keeps its place.
CommitDetachOnly(q) ==
  LET v == req[q].v IN
  /\ At(q, "detach", "loaded")
  /\ IF Exists(vol[v])
     THEN /\ vol' = [vol EXCEPT ![v] = [@ EXCEPT !.st = "Available", !.owner = Nobody]]
          /\ GoTo(q, "compacting")
     ELSE Answer(q) /\ UNCHANGED vol
  /\ UNCHANGED <<machines, file, making, shots, history, left>>

CommitDetach(q) ==
  LET v == req[q].v IN
  /\ At(q, "detach", "loaded")
  /\ IF Exists(vol[v])
     THEN vol' = [vol EXCEPT ![v] = Loose("Available")] /\ GoTo(q, "compacting")
     ELSE Answer(q) /\ UNCHANGED vol
  /\ UNCHANGED <<machines, file, making, shots, history, left>>

\* Mutant: the orders are left as they are.
CompactNothing(q) ==
  /\ req[q].pc = "compacting"
  /\ GoTo(q, "pushing")
  /\ UNCHANGED <<machines, disks, shots, history, left>>

\* _compact_order, in a transaction of its own: the rows queried here.
Compact(q) ==
  LET i == req[q].i IN
  /\ req[q].pc = "compacting"
  /\ vol' = [v \in Volume |->
       IF vol[v].owner = i THEN [vol[v] EXCEPT !.order = Place(i, v)] ELSE vol[v]]
  /\ GoTo(q, "pushing")
  /\ UNCHANGED <<machines, file, making, shots, history, left>>

LoadDelete(q, v) ==
  /\ Exists(vol[v]) /\ vol[v].st # "Attached"
  /\ Accept(q, [NoRequest EXCEPT !.pc = "loaded", !.op = "delete", !.v = v, !.on = {v}])
  /\ UNCHANGED <<machines, disks, shots, astray>>

\* The snapshots inside the file go with it.  A failure is a 502.
Unlink(q) ==
  LET v == req[q].v IN
  /\ At(q, "delete", "loaded")
  /\ \/ /\ file' = file \ {v}
        /\ saved' = [saved EXCEPT ![v] = {}]
        /\ GoTo(q, "unlinked")
        /\ UNCHANGED left
     \/ Fails /\ Answer(q) /\ UNCHANGED <<file, saved>>
  /\ UNCHANGED <<machines, vol, making, snap, taking, dropping, history>>

\* The snapshots on d, with their rows deleted.
WithoutSnapshotsOf(d) ==
  [s \in Snapshot |->
     IF Exists(snap[s]) /\ snap[s].of = d THEN [snap[s] EXCEPT !.st = "gone"] ELSE snap[s]]

\* Mutant: the rows of the snapshots stay.
RemoveVolumeRowOnly(q) ==
  LET v == req[q].v IN
  /\ req[q].pc = "unlinked"
  /\ vol' = [vol EXCEPT ![v] = Loose("gone")]
  /\ Answer(q)
  /\ UNCHANGED <<machines, file, making, shots, history, left>>

RemoveRows(q) ==
  LET v == req[q].v IN
  /\ req[q].pc = "unlinked"
  /\ vol' = [vol EXCEPT ![v] = Loose("gone")]
  /\ snap' = WithoutSnapshotsOf(v)
  /\ Answer(q)
  /\ UNCHANGED <<machines, file, making, saved, taking, dropping, history, left>>

VolumeRequest(q) ==
  \/ \E v \in Volume, i \in Instance : LoadAttach(q, v, i) \/ LoadDetach(q, v, i)
  \/ CommitAttach(q) \/ CommitDetach(q) \/ Compact(q)
  \/ ReadPaths(q) \/ SetVolumes(q) \/ SetVolumesFails(q)
  \/ \E v \in Volume : LoadDelete(q, v)
  \/ Unlink(q) \/ RemoveRows(q)

-----------------------------------------------------------------------------
(***************************************************************************)
(* The instance routes, for what they do to disks.  The row says Stopped   *)
(* until a start returns: there is no status for a boot under way.  In a   *)
(* restart it says Running throughout, which the routes above refuse.      *)
(***************************************************************************)

Reported(i) == CASE qemu[i] = "on"     -> "Running"
                 [] qemu[i] = "off"    -> "Stopped"
                 [] qemu[i] = "absent" -> "Error"

\* The status a request saves, having loaded the row as `loaded'.
SaveStatus(i, loaded, st) ==
  inst' = IF st = loaded THEN inst ELSE [inst EXCEPT ![i] = st]

\* start_instance of the driver reads runtime.json before it waits for the
\* ports, and writes what it read back with the new pid.
LoadStart(q, i) ==
  /\ inst[i] = "Stopped"
  /\ Accept(q, [NoRequest EXCEPT !.pc = "loaded", !.op = "start", !.i = i, !.on = {i},
                                 !.paths = boots[i]])
  /\ UNCHANGED <<machines, disks, shots, astray>>

Spawn(q) ==
  LET i == req[q].i IN
  /\ At(q, "start", "loaded")
  /\ qemu[i] = "off" /\ DOMAIN req[q].paths \subseteq file
  /\ qemu' = [qemu EXCEPT ![i] = "on"]
  /\ open' = [open EXCEPT ![i] = req[q].paths]
  /\ boots' = [boots EXCEPT ![i] = req[q].paths]
  /\ GoTo(q, "booting")
  /\ UNCHANGED <<inst, disks, shots, history, left>>

\* Up already, and the row behind: nothing is spawned.
FindRunning(q) ==
  /\ At(q, "start", "loaded") /\ qemu[req[q].i] = "on"
  /\ GoTo(q, "booting")
  /\ UNCHANGED <<machines, disks, shots, history, left>>

\* A directory or a disk that is not there, a port in use; or QEMU itself
\* cannot be run, and the row is left alone.
SpawnFails(q) ==
  LET i == req[q].i
      Error == [inst EXCEPT ![i] = "Error"]
  IN
  /\ At(q, "start", "loaded")
  /\ \/ /\ qemu[i] = "absent"
        /\ inst' = Error /\ UNCHANGED <<boots, left>>
     \/ /\ qemu[i] = "off" /\ ~(DOMAIN req[q].paths \subseteq file)
        /\ inst' = Error /\ UNCHANGED left
        /\ boots' = [boots EXCEPT ![i] = req[q].paths]
     \/ /\ qemu[i] = "off" /\ Fails
        /\ inst' \in {inst, Error} /\ UNCHANGED boots
  /\ Answer(q)
  /\ UNCHANGED <<qemu, open, disks, shots, history>>

EndStart(q) ==
  LET i == req[q].i IN
  /\ req[q].pc = "booting"
  /\ SaveStatus(i, "Stopped", Reported(i))
  /\ Answer(q)
  /\ UNCHANGED <<qemu, boots, open, disks, shots, history, left>>

\* The guest did not answer in time: the process is left alone.
BootFails(q) ==
  /\ req[q].pc = "booting"
  /\ Fails
  /\ inst' = [inst EXCEPT ![req[q].i] = "Error"]
  /\ Answer(q)
  /\ UNCHANGED <<qemu, boots, open, disks, shots, history>>

\* The process of i exits.
SwitchOff(i) ==
  /\ qemu' = [qemu EXCEPT ![i] = IF @ = "on" THEN "off" ELSE @]
  /\ open' = [open EXCEPT ![i] = NoPaths]

LoadStop(q, i) ==
  /\ inst[i] = "Running"
  /\ Accept(q, [NoRequest EXCEPT !.pc = "loaded", !.op = "stop", !.i = i, !.on = {i}])
  /\ UNCHANGED <<machines, disks, shots, astray>>

Halt(q) ==
  LET i == req[q].i IN
  /\ At(q, "stop", "loaded")
  /\ IF qemu[i] = "absent"
     THEN inst' = [inst EXCEPT ![i] = "Error"] /\ Answer(q) /\ UNCHANGED <<qemu, open>>
     ELSE SwitchOff(i) /\ GoTo(q, "halted") /\ UNCHANGED inst
  /\ UNCHANGED <<boots, disks, shots, history, left>>

EndStop(q) ==
  LET i == req[q].i IN
  /\ req[q].pc = "halted"
  /\ SaveStatus(i, "Running", Reported(i))
  /\ Answer(q)
  /\ UNCHANGED <<qemu, boots, open, disks, shots, history, left>>

LoadTerminate(q, i) ==
  /\ inst[i] # "Terminated"
  /\ Accept(q, [NoRequest EXCEPT !.pc = "loaded", !.op = "terminate", !.i = i, !.on = {i}])
  /\ UNCHANGED <<machines, disks, shots, astray>>

\* The overlay goes, and the snapshots inside it.
Remove(i) ==
  /\ qemu' = [qemu EXCEPT ![i] = "absent"]
  /\ boots' = [boots EXCEPT ![i] = NoPaths]
  /\ open' = [open EXCEPT ![i] = NoPaths]
  /\ saved' = [saved EXCEPT ![i] = {}]

Destroy(q) ==
  /\ At(q, "terminate", "loaded")
  /\ Remove(req[q].i)
  /\ GoTo(q, "destroyed")
  /\ UNCHANGED <<inst, disks, snap, taking, dropping, history, left>>

\* The process survives, or a file in the directory is held open by then and
\* the directory stays, or half of it.  Forced, the route goes on.
DestroyFails(q) ==
  LET i == req[q].i IN
  /\ At(q, "terminate", "loaded")
  /\ qemu[i] # "absent" /\ Fails
  /\ \/ UNCHANGED <<qemu, boots, open, saved>>
     \/ SwitchOff(i) /\ UNCHANGED <<boots, saved>>
     \/ Remove(i)
  /\ astray' = astray \union {i}
  /\ \/ GoTo(q, "destroyed") /\ UNCHANGED inst
     \/ Answer(q) /\ inst' = [inst EXCEPT ![i] = "Error"]
  /\ UNCHANGED <<disks, snap, taking, dropping, raced>>

\* Mutant: the attachments are left to be detached by hand.
TerminateRowOnly(q) ==
  LET i == req[q].i IN
  /\ req[q].pc = "destroyed"
  /\ inst' = [inst EXCEPT ![i] = "Terminated"]
  /\ snap' = WithoutSnapshotsOf(i)
  /\ Answer(q)
  /\ UNCHANGED <<qemu, boots, open, disks, saved, taking, dropping, history, left>>

\* One transaction: the snapshots' rows, the attachments, the status.
Terminate(q) ==
  LET i == req[q].i IN
  /\ req[q].pc = "destroyed"
  /\ inst' = [inst EXCEPT ![i] = "Terminated"]
  /\ vol' = [v \in Volume |-> IF vol[v].owner = i THEN Loose("Available") ELSE vol[v]]
  /\ snap' = WithoutSnapshotsOf(i)
  /\ Answer(q)
  /\ UNCHANGED <<qemu, boots, open, file, making, saved, taking, dropping, history, left>>

Claimed(i) ==
  \E q \in Request : req[q].i = i /\ req[q].pc # "idle"
                       /\ req[q].op \in {"start", "stop", "terminate"}

\* The reconciler, for a row that nobody has claimed.
Reconcile(i) ==
  /\ inst[i] \notin {"Terminated", Reported(i)} /\ ~Claimed(i)
  /\ inst' = [inst EXCEPT ![i] = Reported(i)]
  /\ UNCHANGED <<qemu, boots, open, disks, shots, req, history, left>>

GuestPowersOff(i) ==
  /\ qemu[i] = "on" /\ Fails
  /\ SwitchOff(i)
  /\ UNCHANGED <<inst, boots, disks, shots, req, history>>

InstanceRequest(q) ==
  \/ \E i \in Instance : LoadStart(q, i) \/ LoadStop(q, i) \/ LoadTerminate(q, i)
  \/ Spawn(q) \/ FindRunning(q) \/ SpawnFails(q) \/ EndStart(q) \/ BootFails(q)
  \/ Halt(q) \/ EndStop(q)
  \/ Destroy(q) \/ DestroyFails(q) \/ Terminate(q)

-----------------------------------------------------------------------------
(***************************************************************************)
(* Jobs: a volume's file                                                   *)
(***************************************************************************)

\* create_volume: the row, and the job in the background.
CreateVolume(v) ==
  /\ vol[v].st = "unborn"
  /\ left.requests > 0 /\ left' = [left EXCEPT !.requests = @ - 1]
  /\ vol' = [vol EXCEPT ![v] = Loose("Creating")]
  /\ making' = [making EXCEPT ![v] = "queued"]
  /\ UNCHANGED <<machines, file, shots, req, history>>

MakeGoTo(v, pc) == making' = [making EXCEPT ![v] = pc]

\* Deleted before the job ran: nothing to make.
BeginMaking(v) ==
  /\ making[v] = "queued"
  /\ MakeGoTo(v, IF Exists(vol[v]) THEN "writing" ELSE "none")
  /\ UNCHANGED <<machines, vol, file, shots, req, history, left>>

MakeFile(v) ==
  /\ making[v] = "writing"
  /\ \/ file' = file \union {v} /\ MakeGoTo(v, "recording") /\ UNCHANGED left
     \/ Fails /\ MakeGoTo(v, "failing") /\ UNCHANGED file
  /\ UNCHANGED <<machines, vol, shots, req, history>>

\* Mutant: a failure is recorded as a success.
RecordAvailable(v) ==
  /\ making[v] \in {"recording", "failing"}
  /\ vol' = [vol EXCEPT ![v].st = IF Exists(vol[v]) THEN "Available" ELSE @]
  /\ MakeGoTo(v, "none")
  /\ UNCHANGED <<machines, file, shots, req, history, left>>

RecordVolume(v) ==
  /\ making[v] \in {"recording", "failing"}
  /\ vol' = [vol EXCEPT ![v].st = IF ~Exists(vol[v]) THEN @
                                  ELSE IF making[v] = "recording" THEN "Available"
                                  ELSE "Error"]
  /\ MakeGoTo(v, "none")
  /\ UNCHANGED <<machines, file, shots, req, history, left>>

-----------------------------------------------------------------------------
(***************************************************************************)
(* Snapshots, of a volume or of an instance's overlay                      *)
(***************************************************************************)

DiskThere(d)   == IF d \in Volume THEN d \in file ELSE qemu[d] # "absent"
LiveOverlay(d) == d \in Instance /\ qemu[d] = "on"

\* The checks of the routes, on rows.
Holders(d) == IF d \in Volume THEN {vol[d].owner} \ {Nobody} ELSE {d}
AtRest(d)  == \A i \in Holders(d) : inst[i] = "Stopped"
Usable(d)  == d \in Volume => vol[d].st \in {"Available", "Attached"}

CreateSnapshot(s, d) ==
  /\ snap[s].st = "unborn"
  /\ Usable(d) /\ AtRest(d)
  /\ left.requests > 0 /\ left' = [left EXCEPT !.requests = @ - 1]
  /\ snap' = [snap EXCEPT ![s] = [st |-> "Creating", of |-> d]]
  /\ taking' = [taking EXCEPT ![s] = "queued"]
  /\ UNCHANGED <<machines, disks, saved, dropping, req, history>>

\* Accepted in every state, Creating included.  A second one while the job
\* runs is left out: its job would find the snapshot gone.
DeleteSnapshot(s) ==
  /\ Exists(snap[s]) /\ dropping[s] = "none"
  /\ AtRest(snap[s].of)
  /\ left.requests > 0 /\ left' = [left EXCEPT !.requests = @ - 1]
  /\ snap' = [snap EXCEPT ![s].st = "Deleting"]
  /\ dropping' = [dropping EXCEPT ![s] = "queued"]
  /\ raced' = IF taking[s] = "none" THEN raced ELSE raced \union {s}
  /\ UNCHANGED <<machines, disks, saved, taking, req, astray>>

TakeGoTo(s, pc) == taking' = [taking EXCEPT ![s] = pc]

\* The driver looks at the process before it touches an overlay, and at
\* nothing before it touches a volume.
BeginTaking(s) ==
  LET d == snap[s].of IN
  /\ taking[s] = "queued"
  /\ TakeGoTo(s, IF ~Exists(snap[s]) THEN "none"
                 ELSE IF DiskThere(d) /\ ~LiveOverlay(d) THEN "writing" ELSE "failing")
  /\ UNCHANGED <<machines, disks, snap, saved, dropping, req, history, left>>

\* qemu-img snapshot -c
Take(s) ==
  LET d == snap[s].of IN
  /\ taking[s] = "writing"
  /\ \/ /\ DiskThere(d)
        /\ saved' = [saved EXCEPT ![d] = @ \union {s}]
        /\ TakeGoTo(s, "recording")
        /\ UNCHANGED left
     \/ ~DiskThere(d) /\ TakeGoTo(s, "failing") /\ UNCHANGED <<saved, left>>
     \/ Fails /\ TakeGoTo(s, "failing") /\ UNCHANGED saved
  /\ UNCHANGED <<machines, disks, snap, dropping, req, history>>

RecordSnapshot(s) ==
  /\ taking[s] \in {"recording", "failing"}
  /\ snap' = [snap EXCEPT ![s].st = IF ~Exists(snap[s]) THEN @
                                    ELSE IF taking[s] = "recording" THEN "Available"
                                    ELSE "Error"]
  /\ TakeGoTo(s, "none")
  /\ UNCHANGED <<machines, disks, saved, dropping, req, history, left>>

DropGoTo(s, pc) == dropping' = [dropping EXCEPT ![s] = pc]

BeginDropping(s) ==
  LET d == snap[s].of IN
  /\ dropping[s] = "queued"
  /\ DropGoTo(s, IF ~Exists(snap[s]) THEN "none"
                 ELSE IF ~DiskThere(d) \/ s \notin saved[d] THEN "recording"
                 ELSE IF LiveOverlay(d) THEN "failing"
                 ELSE "writing")
  /\ UNCHANGED <<machines, disks, snap, saved, taking, req, history, left>>

\* qemu-img snapshot -d
Drop(s) ==
  LET d == snap[s].of IN
  /\ dropping[s] = "writing"
  /\ \/ /\ DiskThere(d)
        /\ saved' = [saved EXCEPT ![d] = @ \ {s}]
        /\ DropGoTo(s, "recording")
        /\ UNCHANGED left
     \/ ~DiskThere(d) /\ DropGoTo(s, "failing") /\ UNCHANGED <<saved, left>>
     \/ Fails /\ DropGoTo(s, "failing") /\ UNCHANGED saved
  /\ UNCHANGED <<machines, disks, snap, taking, req, history>>

\* Mutant: the row goes even when qemu-img failed.
RecordGone(s) ==
  /\ dropping[s] \in {"recording", "failing"}
  /\ snap' = [snap EXCEPT ![s].st = "gone"]
  /\ DropGoTo(s, "none")
  /\ UNCHANGED <<machines, disks, saved, taking, req, history, left>>

RecordDropped(s) ==
  /\ dropping[s] \in {"recording", "failing"}
  /\ snap' = [snap EXCEPT ![s].st = IF dropping[s] = "recording" \/ ~Exists(snap[s])
                                    THEN "gone" ELSE "Error"]
  /\ DropGoTo(s, "none")
  /\ UNCHANGED <<machines, disks, saved, taking, req, history, left>>

\* restore_snapshot: qemu-img snapshot -a, for as long as the request lasts.
Restore(q, s) ==
  LET d == snap[s].of IN
  /\ snap[s].st = "Available"
  /\ Usable(d) /\ AtRest(d)
  /\ DiskThere(d) /\ ~LiveOverlay(d)
  /\ Accept(q, [NoRequest EXCEPT !.pc = "restoring", !.op = "restore", !.s = s, !.on = {s}])
  /\ UNCHANGED <<machines, disks, shots, astray>>

EndRestore(q) ==
  /\ req[q].pc = "restoring"
  /\ Answer(q)
  /\ UNCHANGED <<machines, disks, shots, history, left>>

-----------------------------------------------------------------------------
\* The backend dies: requests and jobs are gone, rows, files and QEMU stay.
Crash ==
  /\ Fails
  /\ astray' = astray \union (UNION {req[q].on : q \in Request})
                 \union {v \in Volume : making[v] # "none"}
                 \union {s \in Snapshot : taking[s] # "none" \/ dropping[s] # "none"}
  /\ req' = [q \in Request |-> NoRequest]
  /\ making' = [v \in Volume |-> "none"]
  /\ taking' = [s \in Snapshot |-> "none"]
  /\ dropping' = [s \in Snapshot |-> "none"]
  /\ UNCHANGED <<machines, vol, file, snap, saved, raced>>

\* The old volumes, those held attached to the holder.
FirstRows(old, held, holder, place) ==
  [v \in Volume |->
     IF v \notin old THEN Loose("unborn")
     ELSE IF v \notin held THEN Loose("Available")
     ELSE [st |-> "Attached", owner |-> holder, order |-> place[v]]]

\* Instances stopped or running; volumes not made yet, unattached, or attached
\* to one of them in some order.
Init ==
  /\ inst \in [Instance -> {"Stopped", "Running"}]
  /\ qemu = [i \in Instance |-> IF inst[i] = "Running" THEN "on" ELSE "off"]
  /\ \E old \in SUBSET Volume : \E held \in SUBSET old :
     \E holder \in Instance, place \in [held -> 0..(Cardinality(held) - 1)] :
       /\ \A v, w \in held : place[v] = place[w] => v = w
       /\ vol = FirstRows(old, held, holder, place)
       /\ boots = [i \in Instance |-> IF i = holder THEN place ELSE NoPaths]
       /\ file = old
  /\ open = [i \in Instance |-> IF qemu[i] = "on" THEN boots[i] ELSE NoPaths]
  /\ making = [v \in Volume |-> "none"]
  /\ snap = [s \in Snapshot |-> [st |-> "unborn", of |-> Nobody]]
  /\ saved = [d \in Disk |-> {}]
  /\ taking = [s \in Snapshot |-> "none"]
  /\ dropping = [s \in Snapshot |-> "none"]
  /\ req = [q \in Request |-> NoRequest]
  /\ raced = {} /\ astray = {}
  /\ left = [requests |-> MaxRequests, failures |-> Failures]

VolumeJob(v) == BeginMaking(v) \/ MakeFile(v) \/ RecordVolume(v)

SnapshotJob(s) == BeginTaking(s) \/ Take(s) \/ RecordSnapshot(s)
                    \/ BeginDropping(s) \/ Drop(s) \/ RecordDropped(s)

Next ==
  \/ \E q \in Request : VolumeRequest(q) \/ InstanceRequest(q) \/ EndRestore(q)
  \/ \E q \in Request, s \in Snapshot : Restore(q, s)
  \/ \E v \in Volume : CreateVolume(v) \/ VolumeJob(v)
  \/ \E s \in Snapshot, d \in Disk : CreateSnapshot(s, d)
  \/ \E s \in Snapshot : DeleteSnapshot(s) \/ SnapshotJob(s)
  \/ \E i \in Instance : Reconcile(i) \/ GuestPowersOff(i)
  \/ Crash

Spec == Init /\ [][Next]_vars

-----------------------------------------------------------------------------
(***************************************************************************)
(* Properties                                                              *)
(***************************************************************************)

JobState == {"none", "queued", "writing", "recording", "failing"}

\* Every variable has its type, a volume has an owner and a place exactly
\* while it is Attached, and only a live process has disks open.
TypeOK ==
  /\ inst \in [Instance -> InstanceStatus]
  /\ qemu \in [Instance -> {"absent", "off", "on"}]
  /\ boots \in [Instance -> Lists] /\ open \in [Instance -> Lists]
  /\ \A i \in Instance : qemu[i] # "on" => open[i] = NoPaths
  /\ vol \in [Volume -> VolumeRow] /\ file \subseteq Volume
  /\ \A v \in Volume : /\ vol[v].st = "Attached" <=> vol[v].owner # Nobody
                       /\ vol[v].st = "Attached" <=> vol[v].order # NoOrder
  /\ making \in [Volume -> JobState]
  /\ snap \in [Snapshot -> SnapshotRow] /\ saved \in [Disk -> SUBSET Snapshot]
  /\ taking \in [Snapshot -> JobState] /\ dropping \in [Snapshot -> JobState]
  /\ req \in [Request -> RequestRecord]
  /\ raced \subseteq Disk \union Snapshot /\ astray \subseteq Disk \union Snapshot
  /\ left \in [requests : 0..MaxRequests, failures : 0..Failures]

\* No requests overlapped on x, and no failure left it half done.
Clean(x) == x \notin raced \union astray

\* The list an instance boots with is its rows, each volume at the place its
\* attach_order names, and a live guest has the same disks open: attaching,
\* detaching and renumbering always reach the engine.
EngineFollowsRows ==
  \A i \in Instance : Clean(i) /\ ~Busy(i) /\ qemu[i] # "absent" =>
    /\ boots[i] = [v \in AttachedTo(i) |-> vol[v].order]
    /\ qemu[i] = "on" => open[i] = boots[i]

\* Two guests never write to one volume.
OneWriter ==
  \A i, j \in Instance : \A v \in DOMAIN open[i] \intersect DOMAIN open[j] :
    i # j => ~(Clean(i) /\ Clean(j))

\* A volume can always be freed: it is not attached to an instance that was
\* terminated, from which it could neither be detached nor deleted.
NoDeadEnd ==
  \A v \in Volume : vol[v].st = "Attached" /\ inst[vol[v].owner] = "Terminated" => v \in raced

\* A volume that may be attached has its file, and a file has its row.
FilesFollowRows ==
  \A v \in Volume : Clean(v) /\ ~(\E q \in Request : At(q, "delete", "unlinked") /\ req[q].v = v) =>
    /\ vol[v].st \in {"Available", "Attached"} => v \in file
    /\ v \in file => Exists(vol[v])

\* The disk of this snapshot is going, with its rows to follow.
DiskGoing(d) ==
  \E q \in Request : d \in req[q].on /\ req[q].pc \in {"unlinked", "destroyed"}

\* A snapshot that says Available is in its disk, and can be restored.
SnapshotsAreThere ==
  \A s \in Snapshot : snap[s].st = "Available" /\ Clean(s) /\ Clean(snap[s].of) =>
    s \in saved[snap[s].of] \/ DiskGoing(snap[s].of)

\* No snapshot that was deleted is left inside its disk.
NoSnapshotLeft ==
  \A d \in Disk : \A s \in saved[d] : Clean(s) /\ Clean(d) => Exists(snap[s]) \/ DiskGoing(d)

\* qemu-img writes to d.
Written(d) ==
  \/ \E s \in Snapshot : snap[s].of = d /\ "writing" \in {taking[s], dropping[s]}
  \/ \E q \in Request : req[q].pc = "restoring" /\ snap[req[q].s].of = d

\* No running instance holds a volume that qemu-img writes to.
NotUnderAGuest ==
  \A i \in Instance : \A v \in DOMAIN open[i] : ~Written(v)

=============================================================================
