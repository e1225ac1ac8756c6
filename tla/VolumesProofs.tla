--------------------------- MODULE VolumesProofs ---------------------------
(***************************************************************************)
(* The theorems about Volumes, for any instances, volumes, snapshots and   *)
(* requests:                                                               *)
(*                                                                         *)
(*   - only an attach that overlapped another request leaves a volume      *)
(*     attached to an instance that was terminated;                        *)
(*   - the types, and that a volume has an owner and a place exactly while *)
(*     it is attached;                                                     *)
(*   - what an instance boots with, and what a guest has open, is what its *)
(*     rows say, and no two guests write to one volume;                    *)
(*   - a volume that can be attached has its file;                         *)
(*   - a snapshot that is Available is in its disk, and none is left there *)
(*     that was deleted.                                                   *)
(*                                                                         *)
(* The last three are of what no two requests overlapped on and no failure *)
(* left half done.  Each layer of the invariant has its helpers, a lemma   *)
(* for each action, and one for a step; the theorems come last.            *)
(***************************************************************************)
EXTENDS Volumes, TLAPS, FiniteSetTheorems, FunctionTheorems, WellFoundedInduction

\* Records and rows have their fields, an instance a status and a process
\* that is there or not.
Shape ==
  /\ DOMAIN req = Request
  /\ \A q \in Request : DOMAIN req[q] = {"pc", "op", "v", "i", "s", "on", "order", "paths"}
  /\ DOMAIN vol = Volume
  /\ \A v \in Volume : DOMAIN vol[v] = {"st", "owner", "order"}
  /\ inst \in [Instance -> InstanceStatus]
  /\ qemu \in [Instance -> {"absent", "off", "on"}]

\* A request says what it works on.
Aim(r) ==
  /\ r.pc = "idle" => r.on = {}
  /\ r.pc = "loaded" /\ r.op = "attach" =>
       r.v \in Volume /\ r.i \in Instance /\ r.v \in r.on /\ r.i \in r.on
  /\ (r.pc = "loaded" /\ r.op = "terminate") \/ r.pc = "destroyed" =>
       r.i \in Instance /\ r.i \in r.on
Aims == \A q \in Request : Aim(req[q])

\* Whatever two requests that overlap work on is noted as raced.
Overlaps ==
  \A p, q \in Request : p # q /\ req[p].on \intersect req[q].on # {} =>
    req[p].on \union req[q].on \subseteq raced

\* An attach whose instance was terminated meanwhile has been overlapped.
Doomed ==
  \A q \in Request : At(q, "attach", "loaded") /\ inst[req[q].i] = "Terminated" =>
    req[q].v \in raced

Owners == \A v \in Volume : vol[v].st = "Attached" => vol[v].owner \in Instance

Inductive == Shape /\ Aims /\ Overlaps /\ Doomed /\ Owners /\ NoDeadEnd

-----------------------------------------------------------------------------
(***************************************************************************)
(* What the helpers do to the requests                                     *)
(***************************************************************************)

\* A request that goes on keeps everything but its place.
LEMMA GoesOn ==
  ASSUME Shape, NEW q \in Request, NEW pc, GoTo(q, pc)
  PROVE  /\ DOMAIN req' = Request
         /\ \A p \in Request :
              /\ DOMAIN req'[p] = {"pc", "op", "v", "i", "s", "on", "order", "paths"}
              /\ req'[p].on = req[p].on /\ req'[p].op = req[p].op
              /\ req'[p].v = req[p].v /\ req'[p].i = req[p].i
              /\ req'[p].pc = IF p = q THEN pc ELSE req[p].pc
BY DEF Shape, GoTo

\* One that is answered leaves the thread idle.
LEMMA Answers ==
  ASSUME Shape, NEW q \in Request, Answer(q)
  PROVE  /\ DOMAIN req' = Request
         /\ \A p \in Request :
              /\ DOMAIN req'[p] = {"pc", "op", "v", "i", "s", "on", "order", "paths"}
              /\ p # q => req'[p] = req[p]
         /\ req'[q].pc = "idle" /\ req'[q].on = {}
BY DEF Shape, Answer, NoRequest

\* What a step may do to the requests without disturbing the invariant: keep
\* what they work on, forget it, and move no attach back to its start.
Advances ==
  /\ DOMAIN req' = Request
  /\ \A p \in Request :
       /\ DOMAIN req'[p] = {"pc", "op", "v", "i", "s", "on", "order", "paths"}
       /\ \/ req'[p].pc = "idle" /\ req'[p].on = {}
          \/ /\ req'[p].on = req[p].on /\ req'[p].op = req[p].op
             /\ req'[p].v = req[p].v /\ req'[p].i = req[p].i
             /\ req'[p].pc = req[p].pc \/ req'[p].pc \notin {"idle", "loaded", "destroyed"}
                  \/ (req'[p].pc = "destroyed" /\ At(p, "terminate", "loaded"))

\* A request in its turn either goes on or is answered.
LEMMA Moves ==
  ASSUME Shape, NEW q \in Request,
         \/ Answer(q)
         \/ \E pc : /\ GoTo(q, pc)
                    /\ \/ pc \notin {"idle", "loaded", "destroyed"}
                       \/ pc = "destroyed" /\ At(q, "terminate", "loaded")
  PROVE  Advances
<1>1. CASE Answer(q)
  <2>1. \A p \in Request : p # q => req'[p] = req[p]
    BY <1>1, Answers
  <2>2. QED
    BY <1>1, <2>1, Answers DEF Advances
<1>2. ASSUME NEW pc, GoTo(q, pc),
             \/ pc \notin {"idle", "loaded", "destroyed"}
             \/ pc = "destroyed" /\ At(q, "terminate", "loaded")
      PROVE  Advances
  BY <1>2, GoesOn DEF Advances
<1>3. QED
  BY <1>1, <1>2

\* Then the three invariants about requests survive, where nothing that was
\* raced is forgotten and no instance becomes Terminated.
LEMMA RequestsSurvive ==
  ASSUME Inductive, Advances, raced \subseteq raced',
         \A i \in Instance : inst'[i] = "Terminated" => inst[i] = "Terminated"
  PROVE  Aims' /\ Overlaps' /\ Doomed'
<1>1. Aims'
  BY DEF Inductive, Advances, Aims, Aim, At
<1>2. Overlaps'
  <2> SUFFICES ASSUME NEW p \in Request, NEW q \in Request, p # q,
                      req'[p].on \intersect req'[q].on # {}
               PROVE  req'[p].on \union req'[q].on \subseteq raced'
    BY DEF Overlaps
  <2>1. req'[p].on = req[p].on /\ req'[q].on = req[q].on
    BY DEF Advances
  <2>2. QED
    BY <2>1 DEF Inductive, Overlaps
<1>3. Doomed'
  <2> SUFFICES ASSUME NEW q \in Request, req'[q].pc = "loaded", req'[q].op = "attach",
                      inst'[req'[q].i] = "Terminated"
               PROVE  req'[q].v \in raced'
    BY DEF Doomed, At
  <2>1. At(q, "attach", "loaded") /\ req'[q].i = req[q].i /\ req'[q].v = req[q].v
    BY DEF Advances, At
  <2>2. req[q].i \in Instance
    BY <2>1 DEF Inductive, Aims, Aim, At
  <2>3. QED
    BY <2>1, <2>2 DEF Inductive, Doomed
<1>4. QED
  BY <1>1, <1>2, <1>3

\* The volumes survive a step that attaches none of them.
LEMMA VolumesSurvive ==
  ASSUME Inductive, raced \subseteq raced',
         \A i \in Instance : inst'[i] = "Terminated" => inst[i] = "Terminated",
         \A v \in Volume : vol'[v].st = "Attached" =>
           vol[v].st = "Attached" /\ vol'[v].owner = vol[v].owner
  PROVE  Owners' /\ NoDeadEnd'
BY DEF Inductive, Owners, NoDeadEnd

\* A step of this kind, with rows that keep their fields, is all most
\* actions are.
LEMMA Survives ==
  ASSUME Inductive, Advances, raced \subseteq raced',
         inst' \in [Instance -> InstanceStatus],
         qemu' \in [Instance -> {"absent", "off", "on"}],
         \A i \in Instance : inst'[i] = "Terminated" => inst[i] = "Terminated",
         DOMAIN vol' = Volume,
         \A v \in Volume :
           /\ DOMAIN vol'[v] = {"st", "owner", "order"}
           /\ vol'[v].st = "Attached" =>
                vol[v].st = "Attached" /\ vol'[v].owner = vol[v].owner
  PROVE  Inductive'
<1>1. Shape'
  BY DEF Advances, Shape
<1>2. Aims' /\ Overlaps' /\ Doomed'
  BY RequestsSurvive
<1>3. Owners' /\ NoDeadEnd'
  BY VolumesSurvive
<1>4. QED
  BY <1>1, <1>2, <1>3 DEF Inductive

\* A request that is accepted notes what it overlaps.
LEMMA Accepted ==
  ASSUME Inductive, NEW q \in Request, NEW r, Accept(q, r), Aim(r),
         DOMAIN r = {"pc", "op", "v", "i", "s", "on", "order", "paths"},
         r.pc = "loaded" /\ r.op = "attach" => inst[r.i] # "Terminated",
         UNCHANGED <<inst, qemu, vol>>
  PROVE  Inductive'
<1> DEFINE others == {p \in Request : req[p].on \intersect r.on # {}}
<1>1. /\ req' = [req EXCEPT ![q] = r]
      /\ raced \subseteq raced'
      /\ others # {} => r.on \union UNION {req[p].on : p \in others} \subseteq raced'
      /\ req[q].pc = "idle"
  BY DEF Accept
<1>2. /\ DOMAIN req' = Request /\ req'[q] = r
      /\ \A p \in Request : p # q => req'[p] = req[p]
  BY <1>1 DEF Inductive, Shape
<1>3. Shape'
  BY <1>2 DEF Inductive, Shape
<1>4. Aims'
  BY <1>2 DEF Inductive, Aims
<1>5. \A p \in Request : p # q /\ req[p].on \intersect r.on # {} =>
        req[p].on \union r.on \subseteq raced'
  BY <1>1
<1>6. Overlaps'
  BY <1>1, <1>2, <1>5 DEF Inductive, Overlaps
<1>7. Doomed'
  BY <1>1, <1>2 DEF Inductive, Doomed, At
<1>8. Owners' /\ NoDeadEnd'
  BY <1>1 DEF Inductive, Owners, NoDeadEnd
<1>9. QED
  BY <1>3, <1>4, <1>6, <1>7, <1>8 DEF Inductive

\* A request in its turn that leaves volumes and instances alone.
LEMMA TurnSurvives ==
  ASSUME Inductive, Advances, raced \subseteq raced', UNCHANGED <<inst, qemu, vol>>
  PROVE  Inductive'
BY Survives DEF Inductive, Shape

\* A job's step that touches neither requests nor instances, and attaches
\* no volume.
LEMMA JobSurvives ==
  ASSUME Inductive, UNCHANGED <<inst, qemu, req>>, raced \subseteq raced',
         DOMAIN vol' = Volume,
         \A v \in Volume :
           /\ DOMAIN vol'[v] = {"st", "owner", "order"}
           /\ vol'[v].st = "Attached" =>
                vol[v].st = "Attached" /\ vol'[v].owner = vol[v].owner
  PROVE  Inductive'
<1>1. Advances
  BY DEF Inductive, Shape, Advances
<1>2. QED
  BY <1>1, Survives DEF Inductive, Shape

-----------------------------------------------------------------------------
(***************************************************************************)
(* Every action preserves the invariant                                    *)
(***************************************************************************)

LEMMA InitHolds == Init => Inductive
<1> SUFFICES ASSUME Init PROVE Inductive
  OBVIOUS
<1>1. Shape /\ Owners
  <2>1. inst \in [Instance -> InstanceStatus] /\ qemu \in [Instance -> {"absent", "off", "on"}]
    BY DEF Init, InstanceStatus
  <2>2. /\ DOMAIN req = Request
        /\ \A q \in Request : DOMAIN req[q] = {"pc", "op", "v", "i", "s", "on", "order", "paths"}
    BY DEF Init, NoRequest
  <2>3. PICK old \in SUBSET Volume : \E held \in SUBSET old :
          \E holder \in Instance, place \in [held -> 0..(Cardinality(held) - 1)] :
            vol = FirstRows(old, held, holder, place)
    BY DEF Init
  <2>4. /\ DOMAIN vol = Volume
        /\ \A v \in Volume : DOMAIN vol[v] = {"st", "owner", "order"}
        /\ \A v \in Volume : vol[v].st = "Attached" => vol[v].owner \in Instance
    BY <2>3 DEF FirstRows, Loose
  <2>5. QED
    BY <2>1, <2>2, <2>4 DEF Shape, Owners
<1>2. \A q \in Request : req[q].pc = "idle" /\ req[q].on = {}
  BY DEF Init, NoRequest
<1>3. Aims /\ Overlaps /\ Doomed
  BY <1>2 DEF Aims, Aim, Overlaps, Doomed, At
<1>4. NoDeadEnd
  <2>1. \A i \in Instance : inst[i] # "Terminated"
    BY DEF Init
  <2>2. QED
    BY <1>1, <2>1 DEF NoDeadEnd, Owners
<1>5. QED
  BY <1>1, <1>3, <1>4 DEF Inductive

\* The commit of an attach: if its instance is gone by now, it was overlapped.
LEMMA CommitAttachHolds ==
  ASSUME Inductive, NEW q \in Request, CommitAttach(q)
  PROVE  Inductive'
<1>1. Advances
  BY Moves DEF CommitAttach, Inductive
<1>2. CASE UNCHANGED vol
  BY <1>1, <1>2, TurnSurvives DEF CommitAttach, machines, history
<1>3. CASE vol' # vol
  <2> DEFINE r == req[q]
  <2>1. /\ r.v \in Volume /\ r.i \in Instance
        /\ vol' = [vol EXCEPT ![r.v] = [st |-> "Attached", owner |-> r.i, order |-> r.order]]
        /\ inst' = inst /\ qemu' = qemu /\ raced' = raced
        /\ At(q, "attach", "loaded")
    BY <1>3 DEF CommitAttach, machines, history, Inductive, Aims, Aim, At
  <2>2. Shape'
    BY <1>1, <2>1 DEF Inductive, Shape, Advances
  <2>3. Aims' /\ Overlaps' /\ Doomed'
    BY <1>1, <2>1, RequestsSurvive
  <2>4. Owners'
    BY <2>1 DEF Inductive, Shape, Owners
  <2>5. NoDeadEnd'
    BY <2>1 DEF Inductive, Shape, NoDeadEnd, Doomed
  <2>6. QED
    BY <2>2, <2>3, <2>4, <2>5 DEF Inductive
<1>4. QED
  BY <1>2, <1>3

\* Terminating detaches whatever is attached, and an attach of this instance
\* that is still to commit overlaps it.
LEMMA TerminateHolds ==
  ASSUME Inductive, NEW q \in Request, Terminate(q)
  PROVE  Inductive'
<1> DEFINE i == req[q].i
<1>1. Advances
  BY Moves DEF Terminate, Inductive
<1>2. /\ i \in Instance /\ i \in req[q].on
      /\ inst' = [inst EXCEPT ![i] = "Terminated"]
      /\ vol' = [v \in Volume |-> IF vol[v].owner = i THEN Loose("Available") ELSE vol[v]]
      /\ qemu' = qemu /\ raced' = raced
      /\ Answer(q)
  BY DEF Terminate, Inductive, Aims, Aim, history
<1>3. Shape'
  BY <1>1, <1>2 DEF Inductive, Shape, Advances, InstanceStatus, Loose
<1>4. Aims' /\ Overlaps'
  <2>1. Aims'
    BY <1>1 DEF Inductive, Advances, Aims, Aim, At
  <2>2. Overlaps'
    BY <1>1, <1>2 DEF Inductive, Advances, Overlaps
  <2>3. QED
    BY <2>1, <2>2
<1>5. Doomed'
  <2> SUFFICES ASSUME NEW p \in Request, req'[p].pc = "loaded", req'[p].op = "attach",
                      inst'[req'[p].i] = "Terminated"
               PROVE  req'[p].v \in raced'
    BY DEF Doomed, At
  <2>1. p # q
    BY <1>2, Answers DEF Inductive
  <2>2. /\ At(p, "attach", "loaded") /\ req'[p].i = req[p].i /\ req'[p].v = req[p].v
        /\ req[p].i \in Instance /\ req[p].i \in req[p].on /\ req[p].v \in req[p].on
    BY <1>1 DEF Advances, At, Inductive, Aims, Aim
  <2>3. CASE req[p].i = i
    BY <1>2, <2>1, <2>2, <2>3 DEF Inductive, Overlaps
  <2>4. CASE req[p].i # i
    BY <1>2, <2>2, <2>4 DEF Inductive, Doomed, Shape
  <2>5. QED
    BY <2>3, <2>4
<1>6. Owners' /\ NoDeadEnd'
  BY <1>2 DEF Inductive, Shape, Owners, NoDeadEnd, Loose
<1>7. QED
  BY <1>3, <1>4, <1>5, <1>6 DEF Inductive

\* The other steps of a volume request.
LEMMA VolumeRequestHolds ==
  ASSUME Inductive, NEW q \in Request, VolumeRequest(q)
  PROVE  Inductive'
<1>1. ASSUME NEW v \in Volume, NEW i \in Instance, LoadAttach(q, v, i)
      PROVE  Inductive'
  BY <1>1, Accepted DEF LoadAttach, NoRequest, Aim, machines, disks
<1>2. CASE CommitAttach(q)
  BY <1>2, CommitAttachHolds
<1>3. CASE ReadPaths(q)
  <2>1. Advances
    BY <1>3 DEF ReadPaths, Inductive, Shape, Advances
  <2>2. QED
    BY <1>3, <2>1, TurnSurvives DEF ReadPaths, machines, disks, history
<1>4. CASE SetVolumes(q)
  BY <1>4, Moves, TurnSurvives DEF SetVolumes, Inductive, disks, history
<1>5. CASE SetVolumesFails(q)
  BY <1>5, Moves, TurnSurvives DEF SetVolumesFails, Inductive, machines, disks
<1>6. ASSUME NEW v \in Volume, NEW i \in Instance, LoadDetach(q, v, i)
      PROVE  Inductive'
  BY <1>6, Accepted DEF LoadDetach, NoRequest, Aim, machines, disks
<1>7. CASE CommitDetach(q)
  <2>1. Advances
    BY <1>7, Moves DEF CommitDetach, Inductive
  <2>2. /\ DOMAIN vol' = Volume
        /\ \A v \in Volume : \/ vol'[v] = vol[v]
                              \/ vol'[v] = Loose("Available")
    BY <1>7 DEF CommitDetach, Inductive, Shape
  <2>3. QED
    BY <1>7, <2>1, <2>2, Survives DEF CommitDetach, Inductive, Shape, Loose, machines, history
<1>8. CASE Compact(q)
  <2>1. Advances
    BY <1>8, Moves DEF Compact, Inductive
  <2>2. /\ DOMAIN vol' = Volume
        /\ \A v \in Volume : /\ DOMAIN vol'[v] = {"st", "owner", "order"}
                              /\ vol'[v].st = vol[v].st /\ vol'[v].owner = vol[v].owner
    BY <1>8 DEF Compact, Inductive, Shape
  <2>3. QED
    BY <1>8, <2>1, <2>2, Survives DEF Compact, Inductive, Shape, machines, history
<1>9. ASSUME NEW v \in Volume, LoadDelete(q, v)
      PROVE  Inductive'
  BY <1>9, Accepted DEF LoadDelete, NoRequest, Aim, machines, disks
<1>10. CASE Unlink(q)
  <2>1. Advances
    BY <1>10, Moves DEF Unlink, Inductive
  <2>2. QED
    BY <1>10, <2>1, TurnSurvives DEF Unlink, machines, history
<1>11. CASE RemoveRows(q)
  <2>1. Advances
    BY <1>11, Moves DEF RemoveRows, Inductive
  <2>2. /\ DOMAIN vol' = Volume
        /\ \A v \in Volume : \/ vol'[v] = vol[v]
                              \/ vol'[v] = Loose("gone")
    BY <1>11 DEF RemoveRows, Inductive, Shape
  <2>3. QED
    BY <1>11, <2>1, <2>2, Survives DEF RemoveRows, Inductive, Shape, Loose, machines, history
<1>12. QED
  BY <1>1, <1>2, <1>3, <1>4, <1>5, <1>6, <1>7, <1>8, <1>9, <1>10, <1>11 DEF VolumeRequest

\* A process that is switched off was there or is not there.
LEMMA SwitchedOff ==
  ASSUME Shape, NEW i, SwitchOff(i)
  PROVE  qemu' \in [Instance -> {"absent", "off", "on"}]
BY DEF Shape, SwitchOff

\* The status of one instance is saved, and it is not Terminated.
Saves ==
  /\ inst' \in [Instance -> InstanceStatus]
  /\ \A i \in Instance : inst'[i] = "Terminated" => inst[i] = "Terminated"

\* A step of an instance request that terminates nothing.
LEMMA InstanceSurvives ==
  ASSUME Inductive, Advances, Saves, raced \subseteq raced', UNCHANGED vol,
         qemu' \in [Instance -> {"absent", "off", "on"}]
  PROVE  Inductive'
BY Survives DEF Inductive, Shape, Saves

\* What the engine reports of a process never reads Terminated.
LEMMA Reports ==
  ASSUME Shape, NEW i \in Instance
  PROVE  Reported(i) \in InstanceStatus \ {"Terminated"}
BY DEF Shape, Reported, InstanceStatus

LEMMA ReportSaved ==
  ASSUME Shape, NEW i, NEW loaded, SaveStatus(i, loaded, Reported(i))
  PROVE  Saves
<1>1. CASE i \in Instance
  BY <1>1, Reports DEF Shape, SaveStatus, Saves
<1>2. CASE i \notin Instance
  BY <1>2 DEF Shape, SaveStatus, Saves
<1>3. QED
  BY <1>1, <1>2

LEMMA InstanceRequestHolds ==
  ASSUME Inductive, NEW q \in Request, InstanceRequest(q)
  PROVE  Inductive'
<1> USE DEF machines, disks, history
<1>1. ASSUME NEW i \in Instance, LoadStart(q, i) \/ LoadStop(q, i)
      PROVE  Inductive'
  BY <1>1, Accepted DEF LoadStart, LoadStop, NoRequest, Aim
<1>2. ASSUME NEW i \in Instance, LoadTerminate(q, i)
      PROVE  Inductive'
  BY <1>2, Accepted DEF LoadTerminate, NoRequest, Aim
<1>3. CASE Spawn(q)
  <2>1. Advances
    BY <1>3, Moves DEF Spawn, Inductive
  <2>2. Saves
    BY <1>3 DEF Spawn, Saves, Inductive, Shape, InstanceStatus
  <2>3. qemu' \in [Instance -> {"absent", "off", "on"}]
    BY <1>3 DEF Spawn, Inductive, Shape
  <2>4. QED
    BY <1>3, <2>1, <2>2, <2>3, InstanceSurvives DEF Spawn
<1>4. CASE FindRunning(q)
  BY <1>4, Moves, TurnSurvives DEF FindRunning, Inductive
<1>5. CASE SpawnFails(q)
  <2>1. Advances
    BY <1>5, Moves DEF SpawnFails, Inductive
  <2>2. Saves
    BY <1>5 DEF SpawnFails, Saves, Inductive, Shape, InstanceStatus
  <2>3. qemu' \in [Instance -> {"absent", "off", "on"}]
    BY <1>5 DEF SpawnFails, Inductive, Shape
  <2>4. QED
    BY <1>5, <2>1, <2>2, <2>3, InstanceSurvives DEF SpawnFails
<1>6. CASE EndStart(q)
  <2>1. Advances
    BY <1>6, Moves DEF EndStart, Inductive
  <2>2. Saves
    BY <1>6, ReportSaved DEF EndStart, Inductive
  <2>3. qemu' \in [Instance -> {"absent", "off", "on"}]
    BY <1>6 DEF EndStart, Inductive, Shape
  <2>4. QED
    BY <1>6, <2>1, <2>2, <2>3, InstanceSurvives DEF EndStart
<1>7. CASE BootFails(q)
  <2>1. Advances
    BY <1>7, Moves DEF BootFails, Inductive
  <2>2. Saves
    BY <1>7 DEF BootFails, Saves, Inductive, Shape, InstanceStatus
  <2>3. qemu' \in [Instance -> {"absent", "off", "on"}]
    BY <1>7 DEF BootFails, Inductive, Shape
  <2>4. QED
    BY <1>7, <2>1, <2>2, <2>3, InstanceSurvives DEF BootFails
<1>8. CASE Halt(q)
  <2>1. Advances
    BY <1>8, Moves DEF Halt, Inductive
  <2>2. Saves
    BY <1>8 DEF Halt, Saves, Inductive, Shape, InstanceStatus
  <2>3. qemu' \in [Instance -> {"absent", "off", "on"}]
    BY <1>8, SwitchedOff DEF Halt, Inductive, Shape
  <2>4. QED
    BY <1>8, <2>1, <2>2, <2>3, InstanceSurvives DEF Halt
<1>9. CASE EndStop(q)
  <2>1. Advances
    BY <1>9, Moves DEF EndStop, Inductive
  <2>2. Saves
    BY <1>9, ReportSaved DEF EndStop, Inductive
  <2>3. qemu' \in [Instance -> {"absent", "off", "on"}]
    BY <1>9 DEF EndStop, Inductive, Shape
  <2>4. QED
    BY <1>9, <2>1, <2>2, <2>3, InstanceSurvives DEF EndStop
<1>10. CASE Destroy(q)
  <2>1. Advances
    BY <1>10, Moves DEF Destroy, Inductive
  <2>2. Saves
    BY <1>10 DEF Destroy, Saves, Inductive, Shape, InstanceStatus
  <2>3. qemu' \in [Instance -> {"absent", "off", "on"}]
    BY <1>10 DEF Destroy, Remove, Inductive, Shape
  <2>4. QED
    BY <1>10, <2>1, <2>2, <2>3, InstanceSurvives DEF Destroy
<1>11. CASE DestroyFails(q)
  <2>1. Advances
    BY <1>11, Moves DEF DestroyFails, Inductive
  <2>2. Saves
    BY <1>11 DEF DestroyFails, Saves, Inductive, Shape, InstanceStatus
  <2>3. qemu' \in [Instance -> {"absent", "off", "on"}]
    BY <1>11, SwitchedOff DEF DestroyFails, Remove, Inductive, Shape
  <2>4. QED
    BY <1>11, <2>1, <2>2, <2>3, InstanceSurvives DEF DestroyFails
<1>12. CASE Terminate(q)
  BY <1>12, TerminateHolds
<1>13. QED
  BY <1>1, <1>2, <1>3, <1>4, <1>5, <1>6, <1>7, <1>8, <1>9, <1>10, <1>11, <1>12 DEF InstanceRequest

\* Jobs, snapshots and the world around the requests.
LEMMA OthersHold ==
  /\ \A v \in Volume : Inductive /\ (CreateVolume(v) \/ VolumeJob(v)) => Inductive'
  /\ \A s \in Snapshot, d \in Disk : Inductive /\ CreateSnapshot(s, d) => Inductive'
  /\ \A s \in Snapshot : Inductive /\ (DeleteSnapshot(s) \/ SnapshotJob(s)) => Inductive'
  /\ \A q \in Request, s \in Snapshot : Inductive /\ Restore(q, s) => Inductive'
  /\ \A q \in Request : Inductive /\ EndRestore(q) => Inductive'
  /\ \A i \in Instance : Inductive /\ (Reconcile(i) \/ GuestPowersOff(i)) => Inductive'
  /\ Inductive /\ Crash => Inductive'
<1> USE DEF machines, disks, shots, history
<1>1. ASSUME Inductive, NEW v \in Volume, CreateVolume(v) \/ VolumeJob(v)
      PROVE  Inductive'
  <2>1. /\ DOMAIN vol' = Volume
        /\ \A w \in Volume :
             /\ DOMAIN vol'[w] = {"st", "owner", "order"}
             /\ vol'[w].st = "Attached" => vol[w].st = "Attached" /\ vol'[w].owner = vol[w].owner
    BY <1>1 DEF CreateVolume, VolumeJob, BeginMaking, MakeFile, RecordVolume, Loose, Inductive, Shape
  <2>2. UNCHANGED <<inst, qemu, req>> /\ raced' = raced
    BY <1>1 DEF CreateVolume, VolumeJob, BeginMaking, MakeFile, RecordVolume
  <2>3. QED
    BY <1>1, <2>1, <2>2, JobSurvives
<1>2. ASSUME Inductive, UNCHANGED <<inst, qemu, vol, req>>, raced \subseteq raced'
      PROVE  Inductive'
  BY <1>2, JobSurvives DEF Inductive, Shape
<1>3. ASSUME Inductive, NEW s \in Snapshot, NEW d \in Disk, CreateSnapshot(s, d)
      PROVE  Inductive'
  BY <1>2, <1>3 DEF CreateSnapshot
<1>4. ASSUME Inductive, NEW s \in Snapshot, DeleteSnapshot(s) \/ SnapshotJob(s)
      PROVE  Inductive'
  BY <1>2, <1>4 DEF DeleteSnapshot, SnapshotJob, BeginTaking, Take, RecordSnapshot,
                    BeginDropping, Drop, RecordDropped
<1>5. ASSUME Inductive, NEW q \in Request, NEW s \in Snapshot, Restore(q, s)
      PROVE  Inductive'
  BY <1>5, Accepted DEF Restore, NoRequest, Aim
<1>6. ASSUME Inductive, NEW q \in Request, EndRestore(q)
      PROVE  Inductive'
  BY <1>6, Moves, TurnSurvives DEF EndRestore, Inductive
<1>7. ASSUME Inductive, NEW i \in Instance, Reconcile(i) \/ GuestPowersOff(i)
      PROVE  Inductive'
  <2>1. Advances
    BY <1>7 DEF Reconcile, GuestPowersOff, Inductive, Shape, Advances
  <2>2. qemu' \in [Instance -> {"absent", "off", "on"}]
    BY <1>7, SwitchedOff DEF Reconcile, GuestPowersOff, Inductive, Shape
  <2>3. Saves
    BY <1>7, Reports DEF Reconcile, GuestPowersOff, Saves, Inductive, Shape
  <2>4. QED
    BY <1>7, <2>1, <2>2, <2>3, InstanceSurvives DEF Reconcile, GuestPowersOff
<1>8. ASSUME Inductive, Crash
      PROVE  Inductive'
  <2>1. Advances
    BY <1>8 DEF Crash, NoRequest, Advances
  <2>2. QED
    BY <1>8, <2>1, TurnSurvives DEF Crash
<1>9. QED
  BY <1>1, <1>3, <1>4, <1>5, <1>6, <1>7, <1>8

\* The inductive invariant: who overlaps whom is noted, and so an attach of
\* an instance that is terminated is one that was overlapped.
THEOREM InductiveInvariant == Spec => []Inductive
<1>1. Inductive /\ [Next]_vars => Inductive'
  <2> SUFFICES ASSUME Inductive, [Next]_vars PROVE Inductive'
    OBVIOUS
  <2>1. CASE UNCHANGED vars
    BY <2>1 DEF vars, machines, disks, shots, history, Inductive, Shape, Aims, Aim,
                Overlaps, Doomed, Owners, NoDeadEnd, At
  <2>2. CASE Next
    BY <2>2, VolumeRequestHolds, InstanceRequestHolds, OthersHold DEF Next
  <2>3. QED
    BY <2>1, <2>2
<1>2. QED
  BY <1>1, InitHolds, PTL DEF Spec

\* Unless requests overlapped on it, a volume is never left attached to an
\* instance that was terminated, whatever the number of rows and requests,
\* and whatever failed or crashed.
THEOREM NoVolumeIsStuck == Spec => []NoDeadEnd
BY InductiveInvariant, PTL DEF Inductive

-----------------------------------------------------------------------------
(***************************************************************************)
(* Places in a list                                                        *)
(***************************************************************************)

\* The table of volumes, as far as its types say.
Table == [Volume -> VolumeRow]

\* In any table: the volumes of i, those before v among them, and how many.
Owned(rows, i)     == {v \in Volume : rows[v].owner = i}
Before(rows, i, v) == {w \in Owned(rows, i) : rows[w].order < rows[v].order}
Rank(rows, i, v)   == Cardinality(Before(rows, i, v))

\* No two volumes of i have one place, and each place is its rank.
Distinct(rows, i) ==
  \A v, w \in Owned(rows, i) : rows[v].order = rows[w].order => v = w
Numbered(rows, i) == \A v \in Owned(rows, i) : rows[v].order = Rank(rows, i, v)

LEMMA RowsHave ==
  ASSUME NEW rows \in Table, NEW v \in Volume
  PROVE  rows[v].order \in Int /\ rows[v].order >= -1
BY DEF Table, VolumeRow, NoOrder

LEMMA Counted ==
  ASSUME NEW rows \in Table, NEW i, NEW v \in Volume
  PROVE  /\ IsFiniteSet(Owned(rows, i)) /\ IsFiniteSet(Before(rows, i, v))
         /\ Rank(rows, i, v) \in 0..Cardinality(Volume)
         /\ Cardinality(Owned(rows, i)) \in Nat
<1>1. Owned(rows, i) \in SUBSET Volume /\ Before(rows, i, v) \in SUBSET Volume
  BY DEF Owned, Before
<1>2. IsFiniteSet(Volume) /\ Cardinality(Volume) \in Nat
  BY VolumesAssumption, FS_CardinalityType
<1>3. /\ IsFiniteSet(Owned(rows, i)) /\ IsFiniteSet(Before(rows, i, v))
      /\ Cardinality(Before(rows, i, v)) <= Cardinality(Volume)
  BY <1>1, <1>2, FS_Subset
<1>4. Cardinality(Owned(rows, i)) \in Nat /\ Cardinality(Before(rows, i, v)) \in Nat
  BY <1>3, FS_CardinalityType
<1> QED  BY <1>2, <1>3, <1>4 DEF Rank

\* A volume further down the list has a higher rank.
LEMMA RankGrows ==
  ASSUME NEW rows \in Table, NEW i, NEW v \in Owned(rows, i), NEW w \in Owned(rows, i)
  PROVE  /\ rows[v].order < rows[w].order => Rank(rows, i, v) < Rank(rows, i, w)
         /\ rows[v].order <= rows[w].order => Rank(rows, i, v) <= Rank(rows, i, w)
<1>1. v \in Volume /\ w \in Volume /\ Owned(rows, i) \subseteq Volume
  BY DEF Owned
<1>2. /\ IsFiniteSet(Before(rows, i, w))
      /\ Rank(rows, i, v) \in Int /\ Rank(rows, i, w) \in Int
  BY <1>1, Counted
<1>3. ASSUME rows[v].order <= rows[w].order
      PROVE  Before(rows, i, v) \in SUBSET Before(rows, i, w)
  BY <1>1, <1>3, RowsHave DEF Before
<1>4. ASSUME rows[v].order <= rows[w].order
      PROVE  Rank(rows, i, v) <= Rank(rows, i, w)
  BY <1>2, <1>3, <1>4, FS_Subset DEF Rank
<1>5. ASSUME rows[v].order < rows[w].order
      PROVE  Rank(rows, i, v) < Rank(rows, i, w)
  <2>1. rows[v].order <= rows[w].order
    BY <1>1, <1>5, RowsHave
  <2>2. v \in Before(rows, i, w) /\ v \notin Before(rows, i, v)
    BY <1>1, <1>5, RowsHave DEF Before
  <2>3. Rank(rows, i, v) # Rank(rows, i, w)
    BY <1>2, <1>3, <2>1, <2>2, FS_Subset DEF Rank
  <2> QED  BY <1>2, <1>4, <2>1, <2>3
<1> QED  BY <1>4, <1>5

\* Some volume is the last of i's.
LEMMA Last ==
  ASSUME NEW rows \in Table, NEW i, Owned(rows, i) # {}
  PROVE  \E v \in Owned(rows, i) : \A w \in Owned(rows, i) : rows[w].order <= rows[v].order
<1> DEFINE S   == Owned(rows, i)
           Ends(T) == \E v \in T : \A w \in T : rows[w].order <= rows[v].order
           Bad == {T \in SUBSET S : T # {} /\ ~Ends(T)}
<1>1. IsFiniteSet(S) /\ S \subseteq Volume
  <2>1. PICK v \in Volume : TRUE
    BY VolumesAssumption
  <2> QED  BY <2>1, Counted DEF Owned
<1>2. SUFFICES ASSUME Bad # {}  PROVE  FALSE
  BY DEF Owned
<1>3. Bad \subseteq FiniteSubsetsOf(S)
  BY <1>1, FS_FiniteSubsetsOfFinite
<1>4. PICK T \in Bad : \A U \in Bad : ~(<<U, T>> \in StrictSubsetOrdering(S))
  <2>1. IsWellFoundedOn(StrictSubsetOrdering(S), FiniteSubsetsOf(S))
    BY FS_StrictSubsetOrderingWellFounded
  <2> QED  BY <1>2, <1>3, <2>1, WFMin
<1>5. PICK x \in T : TRUE
  OBVIOUS
<1>6. T \ {x} \notin Bad
  BY <1>4, <1>5 DEF StrictSubsetOrdering
<1>7. \A u \in T : rows[u].order \in Int
  BY <1>1, RowsHave
<1>8. CASE T \ {x} = {}
  <2>1. \A w \in T : rows[w].order <= rows[x].order
    BY <1>5, <1>7, <1>8
  <2> QED  BY <1>5, <2>1
<1>9. CASE T \ {x} # {}
  <2>1. PICK v \in T \ {x} : \A w \in T \ {x} : rows[w].order <= rows[v].order
    BY <1>6, <1>9
  <2>2. \/ \A w \in T : rows[w].order <= rows[v].order
        \/ \A w \in T : rows[w].order <= rows[x].order
    BY <1>5, <1>7, <2>1
  <2> QED  BY <1>5, <2>1, <2>2
<1> QED  BY <1>8, <1>9

\* The place an attach computes for i.
NextPlace(rows, i) ==
  LET used == {rows[w].order : w \in Owned(rows, i)} \ {NoOrder}
  IN  IF used = {} THEN 0 ELSE (CHOOSE n \in used : \A m \in used : m <= n) + 1

\* It is a place, and if the list is in order, the one after its end.
LEMMA NextPlaceIs ==
  ASSUME NEW rows \in Table, NEW i, \A v \in Owned(rows, i) : rows[v].order # NoOrder
  PROVE  /\ NextPlace(rows, i) \in Nat
         /\ \A v \in Owned(rows, i) : rows[v].order < NextPlace(rows, i)
         /\ Numbered(rows, i) /\ Distinct(rows, i) =>
              NextPlace(rows, i) = Cardinality(Owned(rows, i))
<1> DEFINE S == Owned(rows, i)
           used == {rows[w].order : w \in S} \ {NoOrder}
<1>1. S \subseteq Volume /\ \A v \in S : rows[v].order \in Nat
  BY DEF Owned, Table, VolumeRow
<1>2. CASE S = {}
  <2>1. used = {}
    BY <1>2
  <2> QED  BY <1>2, <2>1, FS_EmptySet DEF NextPlace
<1>3. CASE S # {}
  <2>1. PICK v \in S : \A w \in S : rows[w].order <= rows[v].order
    BY <1>3, Last
  <2>2. rows[v].order \in used /\ \A m \in used : m \in Nat /\ m <= rows[v].order
    BY <1>1, <2>1
  <2> DEFINE n == CHOOSE n \in used : \A m \in used : m <= n
  <2>3. n \in used /\ \A m \in used : m <= n
    BY <2>2
  <2>4. n = rows[v].order
    BY <2>2, <2>3
  <2>5. NextPlace(rows, i) = rows[v].order + 1
    BY <2>2, <2>4 DEF NextPlace
  <2>6. ASSUME Numbered(rows, i), Distinct(rows, i)
        PROVE  rows[v].order + 1 = Cardinality(S)
    <3>1. Before(rows, i, v) = S \ {v}
      BY <1>1, <2>1, <2>6 DEF Before, Distinct
    <3>2. Cardinality(S \ {v}) = Cardinality(S) - 1 /\ Cardinality(S) \in Nat
      BY <1>1, Counted, FS_RemoveElement
    <3>3. rows[v].order = Cardinality(S \ {v})
      BY <2>6, <3>1 DEF Numbered, Rank
    <3> QED  BY <3>2, <3>3
  <2> QED  BY <1>1, <2>1, <2>5, <2>6
<1> QED  BY <1>2, <1>3

\* A list that gets one more volume at its end stays in order.
LEMMA Appended ==
  ASSUME NEW rows \in Table, NEW new \in Table, NEW i, NEW v \in Volume,
         Numbered(rows, i), Distinct(rows, i), v \notin Owned(rows, i),
         \A w \in Volume \ {v} : new[w] = rows[w],
         new[v].owner = i, new[v].order = Cardinality(Owned(rows, i)),
         \A w \in Owned(rows, i) : rows[w].order < new[v].order
  PROVE  Numbered(new, i) /\ Distinct(new, i)
<1>1. Owned(new, i) = Owned(rows, i) \union {v} /\ Owned(rows, i) \subseteq Volume
  BY DEF Owned
<1>2. \A w \in Volume : rows[w].order \in Int /\ new[w].order \in Int
  BY RowsHave
<1>3. Before(new, i, v) = Owned(rows, i)
  BY <1>1, <1>2 DEF Before
<1>4. ASSUME NEW w \in Owned(rows, i)  PROVE  Before(new, i, w) = Before(rows, i, w)
  BY <1>1, <1>2 DEF Before
<1>5. Distinct(new, i)
  BY <1>1, <1>2 DEF Distinct
<1>6. Numbered(new, i)
  BY <1>1, <1>3, <1>4 DEF Numbered, Rank
<1> QED  BY <1>5, <1>6

\* Renumbering puts a list in order.
LEMMA Renumbered ==
  ASSUME NEW rows \in Table, NEW new \in Table, NEW i, Distinct(rows, i),
         \A v \in Volume : new[v].owner = rows[v].owner,
         \A v \in Owned(rows, i) : new[v].order = Rank(rows, i, v)
  PROVE  Numbered(new, i) /\ Distinct(new, i)
<1>1. Owned(new, i) = Owned(rows, i) /\ Owned(rows, i) \subseteq Volume
  BY DEF Owned
<1>2. ASSUME NEW v \in Owned(rows, i), NEW w \in Owned(rows, i)
      PROVE  new[v].order < new[w].order <=> rows[v].order < rows[w].order
  <2>1. /\ rows[v].order \in Int /\ rows[w].order \in Int
        /\ Rank(rows, i, v) \in Int /\ Rank(rows, i, w) \in Int
    BY <1>1, RowsHave, Counted
  <2> QED  BY <2>1, RankGrows
<1>3. \A v \in Owned(rows, i) : Before(new, i, v) = Before(rows, i, v)
  BY <1>1, <1>2 DEF Before
<1>4. Numbered(new, i)
  BY <1>1, <1>3 DEF Numbered, Rank
<1>5. Distinct(new, i)
  <2>1. \A v \in Volume : rows[v].order \in Int /\ new[v].order \in Int
    BY RowsHave
  <2> QED  BY <1>1, <1>2, <2>1 DEF Distinct
<1> QED  BY <1>4, <1>5

\* A list nobody touched is as it was, and one that lost volumes has no
\* place twice.
LEMMA Untouched ==
  ASSUME NEW rows, NEW new, NEW i, Owned(new, i) \subseteq Owned(rows, i),
         \A v \in Owned(new, i) : new[v].order = rows[v].order
  PROVE  /\ Distinct(rows, i) => Distinct(new, i)
         /\ Owned(new, i) = Owned(rows, i) =>
              /\ Numbered(rows, i) => Numbered(new, i)
              /\ \A v \in Owned(rows, i) : Rank(new, i, v) = Rank(rows, i, v)
<1>1. Distinct(rows, i) => Distinct(new, i)
  BY DEF Distinct
<1>2. ASSUME Owned(new, i) = Owned(rows, i), NEW v \in Owned(rows, i)
      PROVE  Rank(new, i, v) = Rank(rows, i, v)
  <2>1. Before(new, i, v) = Before(rows, i, v)
    BY <1>2 DEF Before
  <2> QED  BY <2>1 DEF Rank
<1> QED  BY <1>1, <1>2 DEF Numbered

-----------------------------------------------------------------------------
(***************************************************************************)
(* Types, and what a request is for                                        *)
(***************************************************************************)

\* The stage and the operation of a request agree, and it works on what the
\* operation is about.
Purpose(r) ==
  /\ r.pc = "idle" <=> r.on = {}
  /\ r.pc = "compacting" => r.op = "detach"
  /\ r.pc \in {"pushing", "telling"} => r.op \in {"attach", "detach"}
  /\ r.pc = "unlinked" => r.op = "delete"
  /\ r.pc = "booting" => r.op = "start"
  /\ r.pc = "halted" => r.op = "stop"
  /\ r.pc = "destroyed" => r.op = "terminate"
  /\ r.pc = "restoring" <=> r.op = "restore"
  /\ r.pc # "idle" =>
       /\ r.op \in {"attach", "detach"} =>
            r.v \in Volume /\ r.i \in Instance /\ r.on = {r.v, r.i}
       /\ r.op = "attach" => r.order # NoOrder
       /\ r.op = "delete" => r.v \in Volume /\ r.on = {r.v}
       /\ r.op \in {"start", "stop", "terminate"} => r.i \in Instance /\ r.on = {r.i}
       /\ r.op = "restore" => r.s \in Snapshot /\ r.on = {r.s}
Purposes == \A q \in Request : Purpose(req[q])

Requests == [Request -> RequestRecord]

LEMMA NoPathsListed == NoPaths \in Lists
<1>1. NoPaths \in [{} -> 0..Cardinality(Volume)] /\ {} \in SUBSET Volume
  BY DEF NoPaths
<1> QED  BY <1>1 DEF Lists

LEMMA NoRequestTyped == NoRequest \in RequestRecord /\ Purpose(NoRequest)
BY NoPathsListed DEF NoRequest, RequestRecord, Purpose

\* The list that is read for i.
LEMMA PathsListed ==
  ASSUME vol \in Table, NEW i
  PROVE  /\ AttachedPaths(i) \in Lists
         /\ AttachedTo(i) = Owned(vol, i)
         /\ \A v \in Volume : Place(i, v) = Rank(vol, i, v) /\ Place(i, v) \in Nat
<1>1. AttachedTo(i) = Owned(vol, i)
  BY DEF AttachedTo, Owned
<1>2. \A v \in Volume : Place(i, v) = Rank(vol, i, v) /\ Place(i, v) \in 0..Cardinality(Volume)
  BY <1>1, Counted DEF Place, Rank, Before
<1>3. AttachedTo(i) \in SUBSET Volume
  BY DEF AttachedTo
<1>4. AttachedPaths(i) \in [AttachedTo(i) -> 0..Cardinality(Volume)]
  BY <1>2, <1>3 DEF AttachedPaths
<1> QED  BY <1>1, <1>2, <1>3, <1>4 DEF Lists

\* A request that goes on to stage pc.
Reaches(q, pc) ==
  /\ req' \in Requests
  /\ \A p \in Request \ {q} : req'[p] = req[p]
  /\ req'[q].pc = pc /\ req'[q].op = req[q].op /\ req'[q].v = req[q].v /\ req'[q].i = req[q].i
  /\ req'[q].s = req[q].s /\ req'[q].on = req[q].on /\ req'[q].order = req[q].order

\* A request that becomes r: one that is accepted, or is answered.
Becomes(q, r) ==
  /\ req' \in Requests
  /\ \A p \in Request \ {q} : req'[p] = req[p]
  /\ req'[q] = r

Stage == {"idle", "loaded", "compacting", "pushing", "telling", "unlinked", "booting",
          "halted", "destroyed", "restoring"}

LEMMA GoToReaches ==
  ASSUME req \in Requests, NEW q \in Request, NEW pc \in Stage, GoTo(q, pc)
  PROVE  Reaches(q, pc) /\ req'[q].paths = req[q].paths
BY ZenonT(60) DEF Requests, RequestRecord, GoTo, Reaches, Stage

LEMMA AnswerBecomes ==
  ASSUME req \in Requests, NEW q \in Request, Answer(q)
  PROVE  Becomes(q, NoRequest)
BY NoRequestTyped DEF Requests, Answer, Becomes

\* Whoever works on something r works on is noted.
Notes(q, r) ==
  /\ raced \subseteq raced' /\ raced' \subseteq Disk \union Snapshot
  /\ \A p \in Request \ {q} :
       req[p].on \intersect r.on # {} => r.on \union req[p].on \subseteq raced'
  /\ \A v \in r.on \intersect Volume : r.op = "delete" /\ making[v] # "none" => v \in raced'

LEMMA AcceptBecomes ==
  ASSUME TypeOK, Purposes, NEW q \in Request, NEW r \in RequestRecord, Accept(q, r)
  PROVE  /\ Becomes(q, r) /\ Notes(q, r)
         /\ req[q].pc = "idle" /\ req[q].on = {}
         /\ left' \in [requests : 0..MaxRequests, failures : 0..Failures]
<1> DEFINE others == {p \in Request : req[p].on \intersect r.on # {}}
<1>1. /\ req' = [req EXCEPT ![q] = r] /\ req[q].pc = "idle" /\ req \in Requests
      /\ req[q].on = {}
      /\ left' = [left EXCEPT !.requests = @ - 1] /\ left.requests > 0
      /\ left \in [requests : 0..MaxRequests, failures : 0..Failures]
      /\ raced' = raced
       \union (IF others = {} THEN {} ELSE r.on \union UNION {req[p].on : p \in others})
       \union {v \in r.on \intersect Volume : r.op = "delete" /\ making[v] # "none"}
  BY DEF Accept, TypeOK, Requests, Purposes, Purpose
<1>2. Becomes(q, r)
  BY <1>1 DEF Becomes, Requests
<1>3. raced' \subseteq Disk \union Snapshot
  <2>1. r.on \subseteq Disk \union Snapshot /\ \A p \in Request : req[p].on \subseteq Disk \union Snapshot
    BY <1>1 DEF RequestRecord, Requests
  <2>2. raced \subseteq Disk \union Snapshot
    BY DEF TypeOK
  <2> QED  BY <1>1, <2>1, <2>2
<1>4. left' \in [requests : 0..MaxRequests, failures : 0..Failures]
  BY <1>1, VolumesAssumption
<1>5. \A p \in Request \ {q} :
       req[p].on \intersect r.on # {} => r.on \union req[p].on \subseteq raced'
  BY <1>1
<1> QED  BY <1>1, <1>2, <1>3, <1>4, <1>5 DEF Notes

LEMMA FailsLeft ==
  ASSUME TypeOK, Fails
  PROVE  left' \in [requests : 0..MaxRequests, failures : 0..Failures]
BY VolumesAssumption DEF TypeOK, Fails

\* Purposes survive a request that goes on or becomes what has one.
LEMMA PurposesKept ==
  ASSUME Purposes, NEW q \in Request, NEW r,
         \A p \in Request \ {q} : req'[p] = req[p], req'[q] = r, Purpose(r)
  PROVE  Purposes'
BY DEF Purposes

MachineTypes ==
  /\ inst \in [Instance -> InstanceStatus]
  /\ qemu \in [Instance -> {"absent", "off", "on"}]
  /\ boots \in [Instance -> Lists] /\ open \in [Instance -> Lists]
  /\ \A i \in Instance : qemu[i] # "on" => open[i] = NoPaths

DiskTypes ==
  /\ vol \in [Volume -> VolumeRow] /\ file \subseteq Volume
  /\ \A v \in Volume : /\ vol[v].st = "Attached" <=> vol[v].owner # Nobody
                       /\ vol[v].st = "Attached" <=> vol[v].order # NoOrder
  /\ making \in [Volume -> JobState]

ShotTypes ==
  /\ snap \in [Snapshot -> SnapshotRow] /\ saved \in [Disk -> SUBSET Snapshot]
  /\ taking \in [Snapshot -> JobState] /\ dropping \in [Snapshot -> JobState]

NoteTypes ==
  /\ raced \subseteq Disk \union Snapshot /\ astray \subseteq Disk \union Snapshot
  /\ left \in [requests : 0..MaxRequests, failures : 0..Failures]

LEMMA TypesAre ==
  TypeOK <=> MachineTypes /\ DiskTypes /\ ShotTypes /\ req \in Requests /\ NoteTypes
BY DEF TypeOK, MachineTypes, DiskTypes, ShotTypes, Requests, NoteTypes

LEMMA LooseIs ==
  ASSUME NEW st \in (VolumeStatus \ {"Attached"}) \union {"unborn", "gone"}
  PROVE  /\ Loose(st) \in VolumeRow
         /\ Loose(st).st = st /\ Loose(st).owner = Nobody /\ Loose(st).order = NoOrder
BY DEF Loose, VolumeRow, VolumeStatus

LEMMA TypesAreNext ==
  MachineTypes' /\ DiskTypes' /\ ShotTypes' /\ req' \in Requests /\ NoteTypes' => TypeOK'
BY DEF TypeOK, MachineTypes, DiskTypes, ShotTypes, Requests, NoteTypes

LEMMA CommitAttachTypes ==
  ASSUME TypeOK, Purposes, NEW q \in Request, CommitAttach(q)  PROVE  TypeOK' /\ Purposes'
<1> USE DEF machines, disks, shots, history
<1>1. /\ req \in Requests /\ Purpose(req[q]) /\ vol \in Table
      /\ MachineTypes /\ DiskTypes /\ ShotTypes /\ NoteTypes
  BY TypesAre DEF TypeOK, Requests, Table, Purposes
<1>2. Reaches(q, "pushing") \/ Becomes(q, NoRequest)
  BY <1>1, GoToReaches, AnswerBecomes DEF CommitAttach, Stage
<1>3. Purposes'
  BY <1>1, <1>2, NoRequestTyped DEF CommitAttach, At, Reaches, Becomes, Purposes, Purpose
<1>4. MachineTypes'
  BY <1>1 DEF CommitAttach, MachineTypes
<1>5. DiskTypes'
  <2>1. file' = file /\ making' = making
    BY DEF CommitAttach
  <2>2. CASE vol' = vol
    BY <1>1, <2>1, <2>2 DEF DiskTypes
  <2>3. CASE vol' # vol
    <3>1. PICK row : row = [st |-> "Attached", owner |-> req[q].i, order |-> req[q].order]
      OBVIOUS
    <3>2. /\ vol' = [vol EXCEPT ![req[q].v] = row]
          /\ req[q].i \in Instance /\ req[q].order \in Nat
      BY <1>1, <2>3, <3>1 DEF CommitAttach, At, Purpose, Requests, RequestRecord
    <3>3. row \in VolumeRow /\ row.st = "Attached" /\ row.owner # Nobody /\ row.order # NoOrder
      BY <3>1, <3>2, VolumesAssumption DEF VolumeRow, VolumeStatus, NoOrder
    <3> QED  BY <1>1, <2>1, <3>2, <3>3 DEF DiskTypes
  <2> QED  BY <2>2, <2>3
<1>6. ShotTypes'
  BY <1>1 DEF CommitAttach, ShotTypes
<1>7. NoteTypes'
  BY <1>1 DEF CommitAttach, NoteTypes
<1> QED  BY <1>2, <1>3, <1>4, <1>5, <1>6, <1>7, TypesAreNext DEF Reaches, Becomes

LEMMA CommitDetachTypes ==
  ASSUME TypeOK, Purposes, NEW q \in Request, CommitDetach(q)  PROVE  TypeOK' /\ Purposes'
<1> USE DEF machines, disks, shots, history
<1>1. /\ req \in Requests /\ Purpose(req[q]) /\ vol \in Table
      /\ MachineTypes /\ DiskTypes /\ ShotTypes /\ NoteTypes
  BY TypesAre DEF TypeOK, Requests, Table, Purposes
<1>2. Reaches(q, "compacting") \/ Becomes(q, NoRequest)
  BY <1>1, GoToReaches, AnswerBecomes DEF CommitDetach, Stage
<1>3. Purposes'
  BY <1>1, <1>2, NoRequestTyped DEF CommitDetach, At, Reaches, Becomes, Purposes, Purpose
<1>4. MachineTypes'
  BY <1>1 DEF CommitDetach, MachineTypes
<1>5. DiskTypes'
  <2>1. /\ file' = file /\ making' = making
        /\ vol' = vol \/ vol' = [vol EXCEPT ![req[q].v] = Loose("Available")]
    BY DEF CommitDetach
  <2>2. PICK row : row = Loose("Available")
    OBVIOUS
  <2>3. row \in VolumeRow /\ row.st = "Available" /\ row.owner = Nobody /\ row.order = NoOrder
    BY <2>2, LooseIs DEF VolumeStatus
  <2> QED  BY <1>1, <2>1, <2>2, <2>3 DEF DiskTypes
<1>6. ShotTypes'
  BY <1>1 DEF CommitDetach, ShotTypes
<1>7. NoteTypes'
  BY <1>1 DEF CommitDetach, NoteTypes
<1> QED  BY <1>2, <1>3, <1>4, <1>5, <1>6, <1>7, TypesAreNext DEF Reaches, Becomes

LEMMA CompactTypes ==
  ASSUME TypeOK, Purposes, NEW q \in Request, Compact(q)  PROVE  TypeOK' /\ Purposes'
<1> USE DEF machines, disks, shots, history
<1>1. /\ req \in Requests /\ Purpose(req[q]) /\ vol \in Table
      /\ MachineTypes /\ DiskTypes /\ ShotTypes /\ NoteTypes
  BY TypesAre DEF TypeOK, Requests, Table, Purposes
<1>2. Reaches(q, "pushing")
  BY <1>1, GoToReaches, AnswerBecomes DEF Compact, Stage
<1>3. Purposes'
  BY <1>1, <1>2, NoRequestTyped DEF Compact, At, Reaches, Becomes, Purposes, Purpose
<1>4. MachineTypes'
  BY <1>1 DEF Compact, MachineTypes
<1>5. DiskTypes'
  <2>1. file' = file /\ making' = making
    BY DEF Compact
  <2>2. ASSUME NEW v \in Volume
        PROVE  /\ vol'[v] \in VolumeRow
               /\ vol'[v].st = vol[v].st /\ vol'[v].owner = vol[v].owner
               /\ vol'[v].order = NoOrder <=> vol[v].order = NoOrder
    <3>1. CASE vol[v].owner # req[q].i
      BY <1>1, <3>1 DEF Compact, DiskTypes
    <3>2. CASE vol[v].owner = req[q].i
      <4>1. vol'[v] = [vol[v] EXCEPT !.order = Place(req[q].i, v)]
        BY <3>2 DEF Compact
      <4>2. Place(req[q].i, v) \in Nat
        BY <1>1, PathsListed
      <4>3. vol[v] \in VolumeRow /\ vol[v].order # NoOrder
        <5>1. req[q].i \in Instance
          BY <1>1 DEF Compact, Purpose
        <5> QED  BY <1>1, <3>2, <5>1, VolumesAssumption DEF DiskTypes
      <4> QED  BY <4>1, <4>2, <4>3 DEF VolumeRow, NoOrder
    <3> QED  BY <3>1, <3>2
  <2>3. vol' \in [Volume -> VolumeRow]
    BY <2>2 DEF Compact
  <2> QED  BY <1>1, <2>1, <2>2, <2>3 DEF DiskTypes
<1>6. ShotTypes'
  BY <1>1 DEF Compact, ShotTypes
<1>7. NoteTypes'
  BY <1>1, FailsLeft DEF Compact, NoteTypes, At, Purpose, Requests, RequestRecord
<1> QED  BY <1>2, <1>3, <1>4, <1>5, <1>6, <1>7, TypesAreNext DEF Reaches, Becomes

LEMMA ReadPathsTypes ==
  ASSUME TypeOK, Purposes, NEW q \in Request, ReadPaths(q)  PROVE  TypeOK' /\ Purposes'
<1> USE DEF machines, disks, shots, history
<1>1. /\ req \in Requests /\ Purpose(req[q]) /\ vol \in Table
      /\ MachineTypes /\ DiskTypes /\ ShotTypes /\ NoteTypes
  BY TypesAre DEF TypeOK, Requests, Table, Purposes
<1>2. Reaches(q, "telling")
  BY <1>1, PathsListed, ZenonT(60) DEF ReadPaths, Requests, RequestRecord, Reaches
<1>3. Purposes'
  <2>1. req[q].pc = "pushing"
    BY DEF ReadPaths
  <2> QED  BY <1>1, <1>2, <2>1 DEF Reaches, Purposes, Purpose
<1>4. MachineTypes'
  BY <1>1 DEF ReadPaths, MachineTypes
<1>5. DiskTypes'
  BY <1>1 DEF ReadPaths, DiskTypes
<1>6. ShotTypes'
  BY <1>1 DEF ReadPaths, ShotTypes
<1>7. NoteTypes'
  BY <1>1, FailsLeft DEF ReadPaths, NoteTypes, At, Purpose, Requests, RequestRecord
<1> QED  BY <1>2, <1>3, <1>4, <1>5, <1>6, <1>7, TypesAreNext DEF Reaches, Becomes

LEMMA SetVolumesTypes ==
  ASSUME TypeOK, Purposes, NEW q \in Request, SetVolumes(q)  PROVE  TypeOK' /\ Purposes'
<1> USE DEF machines, disks, shots, history
<1>1. /\ req \in Requests /\ Purpose(req[q]) /\ vol \in Table
      /\ MachineTypes /\ DiskTypes /\ ShotTypes /\ NoteTypes
  BY TypesAre DEF TypeOK, Requests, Table, Purposes
<1>2. Becomes(q, NoRequest)
  BY <1>1, GoToReaches, AnswerBecomes DEF SetVolumes, Stage
<1>3. Purposes'
  BY <1>1, <1>2, NoRequestTyped DEF Becomes, Purposes
<1>4. MachineTypes'
  BY <1>1 DEF SetVolumes, MachineTypes, Requests, RequestRecord
<1>5. DiskTypes'
  BY <1>1 DEF SetVolumes, DiskTypes
<1>6. ShotTypes'
  BY <1>1 DEF SetVolumes, ShotTypes
<1>7. NoteTypes'
  BY <1>1, FailsLeft DEF SetVolumes, NoteTypes, At, Purpose, Requests, RequestRecord
<1> QED  BY <1>2, <1>3, <1>4, <1>5, <1>6, <1>7, TypesAreNext DEF Reaches, Becomes

LEMMA SetVolumesFailsTypes ==
  ASSUME TypeOK, Purposes, NEW q \in Request, SetVolumesFails(q)  PROVE  TypeOK' /\ Purposes'
<1> USE DEF machines, disks, shots, history
<1>1. /\ req \in Requests /\ Purpose(req[q]) /\ vol \in Table
      /\ MachineTypes /\ DiskTypes /\ ShotTypes /\ NoteTypes
  BY TypesAre DEF TypeOK, Requests, Table, Purposes
<1>2. Becomes(q, NoRequest)
  BY <1>1, GoToReaches, AnswerBecomes DEF SetVolumesFails, Stage
<1>3. Purposes'
  BY <1>1, <1>2, NoRequestTyped DEF Becomes, Purposes
<1>4. MachineTypes'
  BY <1>1 DEF SetVolumesFails, MachineTypes
<1>5. DiskTypes'
  BY <1>1 DEF SetVolumesFails, DiskTypes
<1>6. ShotTypes'
  BY <1>1 DEF SetVolumesFails, ShotTypes
<1>7. NoteTypes'
  BY <1>1, FailsLeft DEF SetVolumesFails, NoteTypes, Purpose, Requests, RequestRecord
<1> QED  BY <1>2, <1>3, <1>4, <1>5, <1>6, <1>7, TypesAreNext DEF Reaches, Becomes

LEMMA UnlinkTypes ==
  ASSUME TypeOK, Purposes, NEW q \in Request, Unlink(q)  PROVE  TypeOK' /\ Purposes'
<1> USE DEF machines, disks, shots, history
<1>1. /\ req \in Requests /\ Purpose(req[q]) /\ vol \in Table
      /\ MachineTypes /\ DiskTypes /\ ShotTypes /\ NoteTypes
  BY TypesAre DEF TypeOK, Requests, Table, Purposes
<1>2. Reaches(q, "unlinked") \/ Becomes(q, NoRequest)
  BY <1>1, GoToReaches, AnswerBecomes DEF Unlink, Stage
<1>3. Purposes'
  BY <1>1, <1>2, NoRequestTyped DEF Unlink, At, Reaches, Becomes, Purposes, Purpose
<1>4. MachineTypes'
  BY <1>1 DEF Unlink, MachineTypes
<1>5. DiskTypes'
  BY <1>1 DEF Unlink, DiskTypes
<1>6. ShotTypes'
  BY <1>1 DEF Unlink, ShotTypes
<1>7. NoteTypes'
  BY <1>1, FailsLeft DEF Unlink, NoteTypes, At, Purpose, Requests, RequestRecord
<1> QED  BY <1>2, <1>3, <1>4, <1>5, <1>6, <1>7, TypesAreNext DEF Reaches, Becomes

LEMMA RemoveRowsTypes ==
  ASSUME TypeOK, Purposes, NEW q \in Request, RemoveRows(q)  PROVE  TypeOK' /\ Purposes'
<1> USE DEF machines, disks, shots, history
<1>1. /\ req \in Requests /\ Purpose(req[q]) /\ vol \in Table
      /\ MachineTypes /\ DiskTypes /\ ShotTypes /\ NoteTypes
  BY TypesAre DEF TypeOK, Requests, Table, Purposes
<1>2. Becomes(q, NoRequest)
  BY <1>1, GoToReaches, AnswerBecomes DEF RemoveRows, Stage
<1>3. Purposes'
  BY <1>1, <1>2, NoRequestTyped DEF Becomes, Purposes
<1>4. MachineTypes'
  BY <1>1 DEF RemoveRows, MachineTypes
<1>5. DiskTypes'
  <2>1. file' = file /\ making' = making /\ vol' = [vol EXCEPT ![req[q].v] = Loose("gone")]
    BY DEF RemoveRows
  <2> QED  BY <1>1, <2>1, LooseIs DEF DiskTypes
<1>6. ShotTypes'
  BY <1>1 DEF RemoveRows, WithoutSnapshotsOf, ShotTypes, SnapshotRow
<1>7. NoteTypes'
  BY <1>1 DEF RemoveRows, NoteTypes
<1> QED  BY <1>2, <1>3, <1>4, <1>5, <1>6, <1>7, TypesAreNext DEF Reaches, Becomes

LEMMA SpawnTypes ==
  ASSUME TypeOK, Purposes, NEW q \in Request, Spawn(q)  PROVE  TypeOK' /\ Purposes'
<1> USE DEF machines, disks, shots, history
<1>1. /\ req \in Requests /\ Purpose(req[q]) /\ vol \in Table
      /\ MachineTypes /\ DiskTypes /\ ShotTypes /\ NoteTypes
  BY TypesAre DEF TypeOK, Requests, Table, Purposes
<1>2. Reaches(q, "booting")
  BY <1>1, GoToReaches, AnswerBecomes DEF Spawn, Stage
<1>3. Purposes'
  BY <1>1, <1>2, NoRequestTyped DEF Spawn, At, Reaches, Becomes, Purposes, Purpose
<1>4. MachineTypes'
  BY <1>1 DEF Spawn, MachineTypes, Requests, RequestRecord
<1>5. DiskTypes'
  BY <1>1 DEF Spawn, DiskTypes
<1>6. ShotTypes'
  BY <1>1 DEF Spawn, ShotTypes
<1>7. NoteTypes'
  BY <1>1, FailsLeft DEF Spawn, NoteTypes, At, Purpose, Requests, RequestRecord
<1> QED  BY <1>2, <1>3, <1>4, <1>5, <1>6, <1>7, TypesAreNext DEF Reaches, Becomes

LEMMA FindRunningTypes ==
  ASSUME TypeOK, Purposes, NEW q \in Request, FindRunning(q)  PROVE  TypeOK' /\ Purposes'
<1> USE DEF machines, disks, shots, history
<1>1. /\ req \in Requests /\ Purpose(req[q]) /\ vol \in Table
      /\ MachineTypes /\ DiskTypes /\ ShotTypes /\ NoteTypes
  BY TypesAre DEF TypeOK, Requests, Table, Purposes
<1>2. Reaches(q, "booting")
  BY <1>1, GoToReaches, AnswerBecomes DEF FindRunning, Stage
<1>3. Purposes'
  BY <1>1, <1>2 DEF FindRunning, At, Reaches, Purposes, Purpose
<1>4. MachineTypes'
  BY <1>1 DEF FindRunning, MachineTypes
<1>5. DiskTypes'
  BY <1>1 DEF FindRunning, DiskTypes
<1>6. ShotTypes'
  BY <1>1 DEF FindRunning, ShotTypes
<1>7. NoteTypes'
  BY <1>1, FailsLeft DEF FindRunning, NoteTypes, At, Purpose, Requests, RequestRecord
<1> QED  BY <1>2, <1>3, <1>4, <1>5, <1>6, <1>7, TypesAreNext DEF Reaches, Becomes

LEMMA SpawnFailsTypes ==
  ASSUME TypeOK, Purposes, NEW q \in Request, SpawnFails(q)  PROVE  TypeOK' /\ Purposes'
<1> USE DEF machines, disks, shots, history
<1>1. /\ req \in Requests /\ Purpose(req[q]) /\ vol \in Table
      /\ MachineTypes /\ DiskTypes /\ ShotTypes /\ NoteTypes
  BY TypesAre DEF TypeOK, Requests, Table, Purposes
<1>2. Becomes(q, NoRequest)
  BY <1>1, GoToReaches, AnswerBecomes DEF SpawnFails, Stage
<1>3. Purposes'
  BY <1>1, <1>2, NoRequestTyped DEF Becomes, Purposes
<1>4. MachineTypes'
  BY <1>1 DEF SpawnFails, InstanceStatus, MachineTypes, Requests, RequestRecord
<1>5. DiskTypes'
  BY <1>1 DEF SpawnFails, DiskTypes
<1>6. ShotTypes'
  BY <1>1 DEF SpawnFails, ShotTypes
<1>7. NoteTypes'
  BY <1>1, FailsLeft DEF SpawnFails, NoteTypes, At, Purpose, Requests, RequestRecord
<1> QED  BY <1>2, <1>3, <1>4, <1>5, <1>6, <1>7, TypesAreNext DEF Reaches, Becomes

LEMMA EndStartTypes ==
  ASSUME TypeOK, Purposes, NEW q \in Request, EndStart(q)  PROVE  TypeOK' /\ Purposes'
<1> USE DEF machines, disks, shots, history
<1>1. /\ req \in Requests /\ Purpose(req[q]) /\ vol \in Table
      /\ MachineTypes /\ DiskTypes /\ ShotTypes /\ NoteTypes
  BY TypesAre DEF TypeOK, Requests, Table, Purposes
<1>2. Becomes(q, NoRequest)
  BY <1>1, GoToReaches, AnswerBecomes DEF EndStart, Stage
<1>3. Purposes'
  BY <1>1, <1>2, NoRequestTyped DEF EndStart, At, Reaches, Becomes, Purposes, Purpose
<1>4. MachineTypes'
  BY <1>1 DEF EndStart, SaveStatus, Reported, InstanceStatus, MachineTypes
<1>5. DiskTypes'
  BY <1>1 DEF EndStart, DiskTypes
<1>6. ShotTypes'
  BY <1>1 DEF EndStart, ShotTypes
<1>7. NoteTypes'
  BY <1>1 DEF EndStart, NoteTypes
<1> QED  BY <1>2, <1>3, <1>4, <1>5, <1>6, <1>7, TypesAreNext DEF Reaches, Becomes

LEMMA BootFailsTypes ==
  ASSUME TypeOK, Purposes, NEW q \in Request, BootFails(q)  PROVE  TypeOK' /\ Purposes'
<1> USE DEF machines, disks, shots, history
<1>1. /\ req \in Requests /\ Purpose(req[q]) /\ vol \in Table
      /\ MachineTypes /\ DiskTypes /\ ShotTypes /\ NoteTypes
  BY TypesAre DEF TypeOK, Requests, Table, Purposes
<1>2. Becomes(q, NoRequest)
  BY <1>1, GoToReaches, AnswerBecomes DEF BootFails, Stage
<1>3. Purposes'
  BY <1>1, <1>2, NoRequestTyped DEF Becomes, Purposes
<1>4. MachineTypes'
  BY <1>1 DEF BootFails, InstanceStatus, MachineTypes
<1>5. DiskTypes'
  BY <1>1 DEF BootFails, DiskTypes
<1>6. ShotTypes'
  BY <1>1 DEF BootFails, ShotTypes
<1>7. NoteTypes'
  BY <1>1, FailsLeft DEF BootFails, NoteTypes, At, Purpose, Requests, RequestRecord
<1> QED  BY <1>2, <1>3, <1>4, <1>5, <1>6, <1>7, TypesAreNext DEF Reaches, Becomes

LEMMA HaltTypes ==
  ASSUME TypeOK, Purposes, NEW q \in Request, Halt(q)  PROVE  TypeOK' /\ Purposes'
<1> USE DEF machines, disks, shots, history
<1>1. /\ req \in Requests /\ Purpose(req[q]) /\ vol \in Table
      /\ MachineTypes /\ DiskTypes /\ ShotTypes /\ NoteTypes
  BY TypesAre DEF TypeOK, Requests, Table, Purposes
<1>2. Reaches(q, "halted") \/ Becomes(q, NoRequest)
  BY <1>1, GoToReaches, AnswerBecomes DEF Halt, Stage
<1>3. Purposes'
  BY <1>1, <1>2, NoRequestTyped DEF Halt, At, Reaches, Becomes, Purposes, Purpose
<1>4. MachineTypes'
  BY <1>1, NoPathsListed DEF Halt, SwitchOff, InstanceStatus, MachineTypes
<1>5. DiskTypes'
  BY <1>1 DEF Halt, DiskTypes
<1>6. ShotTypes'
  BY <1>1 DEF Halt, ShotTypes
<1>7. NoteTypes'
  BY <1>1 DEF Halt, NoteTypes
<1> QED  BY <1>2, <1>3, <1>4, <1>5, <1>6, <1>7, TypesAreNext DEF Reaches, Becomes

LEMMA EndStopTypes ==
  ASSUME TypeOK, Purposes, NEW q \in Request, EndStop(q)  PROVE  TypeOK' /\ Purposes'
<1> USE DEF machines, disks, shots, history
<1>1. /\ req \in Requests /\ Purpose(req[q]) /\ vol \in Table
      /\ MachineTypes /\ DiskTypes /\ ShotTypes /\ NoteTypes
  BY TypesAre DEF TypeOK, Requests, Table, Purposes
<1>2. Becomes(q, NoRequest)
  BY <1>1, GoToReaches, AnswerBecomes DEF EndStop, Stage
<1>3. Purposes'
  BY <1>1, <1>2, NoRequestTyped DEF EndStop, At, Reaches, Becomes, Purposes, Purpose
<1>4. MachineTypes'
  BY <1>1 DEF EndStop, SaveStatus, Reported, InstanceStatus, MachineTypes
<1>5. DiskTypes'
  BY <1>1 DEF EndStop, DiskTypes
<1>6. ShotTypes'
  BY <1>1 DEF EndStop, ShotTypes
<1>7. NoteTypes'
  BY <1>1 DEF EndStop, NoteTypes
<1> QED  BY <1>2, <1>3, <1>4, <1>5, <1>6, <1>7, TypesAreNext DEF Reaches, Becomes

LEMMA DestroyTypes ==
  ASSUME TypeOK, Purposes, NEW q \in Request, Destroy(q)  PROVE  TypeOK' /\ Purposes'
<1> USE DEF machines, disks, shots, history
<1>1. /\ req \in Requests /\ Purpose(req[q]) /\ vol \in Table
      /\ MachineTypes /\ DiskTypes /\ ShotTypes /\ NoteTypes
  BY TypesAre DEF TypeOK, Requests, Table, Purposes
<1>2. Reaches(q, "destroyed")
  BY <1>1, GoToReaches, AnswerBecomes DEF Destroy, Stage
<1>3. Purposes'
  BY <1>1, <1>2, NoRequestTyped DEF Destroy, At, Reaches, Becomes, Purposes, Purpose
<1>4. MachineTypes'
  BY <1>1, NoPathsListed DEF Destroy, Remove, MachineTypes
<1>5. DiskTypes'
  BY <1>1 DEF Destroy, DiskTypes
<1>6. ShotTypes'
  BY <1>1 DEF Destroy, Remove, ShotTypes
<1>7. NoteTypes'
  BY <1>1 DEF Destroy, NoteTypes
<1> QED  BY <1>2, <1>3, <1>4, <1>5, <1>6, <1>7, TypesAreNext DEF Reaches, Becomes

LEMMA DestroyFailsTypes ==
  ASSUME TypeOK, Purposes, NEW q \in Request, DestroyFails(q)  PROVE  TypeOK' /\ Purposes'
<1> USE DEF machines, disks, shots, history
<1>1. /\ req \in Requests /\ Purpose(req[q]) /\ vol \in Table
      /\ MachineTypes /\ DiskTypes /\ ShotTypes /\ NoteTypes
  BY TypesAre DEF TypeOK, Requests, Table, Purposes
<1>2. Reaches(q, "destroyed") \/ Becomes(q, NoRequest)
  BY <1>1, GoToReaches, AnswerBecomes DEF DestroyFails, Stage
<1>3. Purposes'
  BY <1>1, <1>2, NoRequestTyped DEF DestroyFails, At, Reaches, Becomes, Purposes, Purpose
<1>4. MachineTypes'
  BY <1>1, NoPathsListed DEF DestroyFails, SwitchOff, Remove, InstanceStatus, MachineTypes
<1>5. DiskTypes'
  BY <1>1 DEF DestroyFails, DiskTypes
<1>6. ShotTypes'
  BY <1>1 DEF DestroyFails, Remove, ShotTypes
<1>7. NoteTypes'
  BY <1>1, FailsLeft DEF DestroyFails, NoteTypes, At, Purpose, Requests, RequestRecord
<1> QED  BY <1>2, <1>3, <1>4, <1>5, <1>6, <1>7, TypesAreNext DEF Reaches, Becomes

LEMMA TerminateTypes ==
  ASSUME TypeOK, Purposes, NEW q \in Request, Terminate(q)  PROVE  TypeOK' /\ Purposes'
<1> USE DEF machines, disks, shots, history
<1>1. /\ req \in Requests /\ Purpose(req[q]) /\ vol \in Table
      /\ MachineTypes /\ DiskTypes /\ ShotTypes /\ NoteTypes
  BY TypesAre DEF TypeOK, Requests, Table, Purposes
<1>2. Becomes(q, NoRequest)
  BY <1>1, GoToReaches, AnswerBecomes DEF Terminate, Stage
<1>3. Purposes'
  BY <1>1, <1>2, NoRequestTyped DEF Becomes, Purposes
<1>4. MachineTypes'
  BY <1>1 DEF Terminate, InstanceStatus, MachineTypes
<1>5. DiskTypes'
  BY <1>1 DEF Terminate, Loose, DiskTypes, VolumeRow, VolumeStatus
<1>6. ShotTypes'
  BY <1>1 DEF Terminate, WithoutSnapshotsOf, ShotTypes, SnapshotRow
<1>7. NoteTypes'
  BY <1>1 DEF Terminate, NoteTypes
<1> QED  BY <1>2, <1>3, <1>4, <1>5, <1>6, <1>7, TypesAreNext DEF Reaches, Becomes

LEMMA EndRestoreTypes ==
  ASSUME TypeOK, Purposes, NEW q \in Request, EndRestore(q)  PROVE  TypeOK' /\ Purposes'
<1> USE DEF machines, disks, shots, history
<1>1. /\ req \in Requests /\ Purpose(req[q]) /\ vol \in Table
      /\ MachineTypes /\ DiskTypes /\ ShotTypes /\ NoteTypes
  BY TypesAre DEF TypeOK, Requests, Table, Purposes
<1>2. Becomes(q, NoRequest)
  BY <1>1, GoToReaches, AnswerBecomes DEF EndRestore, Stage
<1>3. Purposes'
  BY <1>1, <1>2, NoRequestTyped DEF Becomes, Purposes
<1>4. MachineTypes'
  BY <1>1 DEF EndRestore, MachineTypes
<1>5. DiskTypes'
  BY <1>1 DEF EndRestore, DiskTypes
<1>6. ShotTypes'
  BY <1>1 DEF EndRestore, ShotTypes
<1>7. NoteTypes'
  BY <1>1, FailsLeft DEF EndRestore, NoteTypes, At, Purpose, Requests, RequestRecord
<1> QED  BY <1>2, <1>3, <1>4, <1>5, <1>6, <1>7, TypesAreNext DEF Reaches, Becomes

\* A volume whose job is at work has not been used yet.
MadeOnce ==
  /\ \A v \in Volume : making[v] # "none" => vol[v].st \in {"Creating", "gone"}
  /\ \A q \in Request : req[q].op \in {"attach", "detach"} /\ req[q].pc # "idle" =>
       vol[req[q].v].st # "unborn" /\ making[req[q].v] = "none"

\* A request that q admits as r.
Admitted(q, r) ==
  /\ r \in RequestRecord /\ Purpose(r) /\ r.pc \in {"loaded", "restoring"}
  /\ Becomes(q, r) /\ Notes(q, r) /\ req[q].pc = "idle" /\ req[q].on = {}
  /\ left' \in [requests : 0..MaxRequests, failures : 0..Failures]
  /\ UNCHANGED <<machines, disks, shots, astray>>

LEMMA LoadAttachAdmits ==
  ASSUME TypeOK, Purposes, NEW q \in Request, NEW v \in Volume, NEW i \in Instance, LoadAttach(q, v, i)
  PROVE  \E r : /\ Admitted(q, r)
               /\ r.pc = "loaded" /\ r.op = "attach" /\ r.v = v /\ r.i = i /\ r.on = {v, i} /\ r.order = NextPlace(vol, i)
<1>1. req \in Requests /\ vol \in Table /\ MachineTypes /\ DiskTypes
  BY TypesAre DEF TypeOK, Requests, Table
<1>2. PICK r : r = [NoRequest EXCEPT !.pc = "loaded", !.op = "attach", !.v = v, !.i = i, !.on = {v, i}, !.order = NextPlace(vol, i)]
  OBVIOUS
<1>3. Accept(q, r)
  <2>1. AttachedTo(i) = Owned(vol, i)
    BY <1>1, PathsListed
  <2> QED  BY <1>2, <2>1 DEF LoadAttach, NextPlace
<1>4. r \in RequestRecord /\ Purpose(r)
  <2>1. NextPlace(vol, i) \in Nat
    <3>1. \A w \in Owned(vol, i) : vol[w].order # NoOrder
      BY <1>1, VolumesAssumption DEF Owned, DiskTypes
    <3> QED  BY <1>1, <3>1, NextPlaceIs
  <2>2. r = [pc |-> "loaded", op |-> "attach", v |-> v, i |-> i, s |-> Nobody, on |-> {v, i},
             order |-> NextPlace(vol, i), paths |-> NoPaths]
    BY <1>2 DEF NoRequest
  <2> QED  BY <2>1, <2>2, NoPathsListed DEF RequestRecord, Purpose, NoOrder, Disk
<1>5. UNCHANGED <<machines, disks, shots, astray>>
  BY DEF LoadAttach, machines, disks, shots
<1>6. /\ Becomes(q, r) /\ Notes(q, r) /\ req[q].pc = "idle" /\ req[q].on = {}
      /\ left' \in [requests : 0..MaxRequests, failures : 0..Failures]
  BY <1>3, <1>4, AcceptBecomes
<1>7. r.pc = "loaded" /\ r.op = "attach" /\ r.v = v /\ r.i = i /\ r.on = {v, i} /\ r.order = NextPlace(vol, i)
  BY <1>2 DEF NoRequest
<1>8. Admitted(q, r)
  BY <1>4, <1>5, <1>6, <1>7 DEF Admitted, machines, disks, shots
<1> QED  BY <1>7, <1>8

LEMMA LoadDetachAdmits ==
  ASSUME TypeOK, Purposes, NEW q \in Request, NEW v \in Volume, NEW i \in Instance, LoadDetach(q, v, i)
  PROVE  \E r : /\ Admitted(q, r)
               /\ r.pc = "loaded" /\ r.op = "detach" /\ r.v = v /\ r.i = i /\ r.on = {v, i}
<1>1. req \in Requests /\ vol \in Table /\ MachineTypes /\ DiskTypes
  BY TypesAre DEF TypeOK, Requests, Table
<1>2. PICK r : r = [NoRequest EXCEPT !.pc = "loaded", !.op = "detach", !.v = v, !.i = i, !.on = {v, i}]
  OBVIOUS
<1>3. Accept(q, r)
  BY <1>2 DEF LoadDetach
<1>4. r \in RequestRecord /\ Purpose(r)
  BY <1>1, <1>2, NoRequestTyped DEF RequestRecord, Purpose, Disk
<1>5. UNCHANGED <<machines, disks, shots, astray>>
  BY DEF LoadDetach, machines, disks, shots
<1>6. /\ Becomes(q, r) /\ Notes(q, r) /\ req[q].pc = "idle" /\ req[q].on = {}
      /\ left' \in [requests : 0..MaxRequests, failures : 0..Failures]
  BY <1>3, <1>4, AcceptBecomes
<1>7. r.pc = "loaded" /\ r.op = "detach" /\ r.v = v /\ r.i = i /\ r.on = {v, i}
  BY <1>2 DEF NoRequest
<1>8. Admitted(q, r)
  BY <1>4, <1>5, <1>6, <1>7 DEF Admitted, machines, disks, shots
<1> QED  BY <1>7, <1>8

LEMMA LoadDeleteAdmits ==
  ASSUME TypeOK, Purposes, NEW q \in Request, NEW v \in Volume, LoadDelete(q, v)
  PROVE  \E r : /\ Admitted(q, r)
               /\ r.pc = "loaded" /\ r.op = "delete" /\ r.v = v /\ r.on = {v}
<1>1. req \in Requests /\ vol \in Table /\ MachineTypes /\ DiskTypes
  BY TypesAre DEF TypeOK, Requests, Table
<1>2. PICK r : r = [NoRequest EXCEPT !.pc = "loaded", !.op = "delete", !.v = v, !.on = {v}]
  OBVIOUS
<1>3. Accept(q, r)
  BY <1>2 DEF LoadDelete
<1>4. r \in RequestRecord /\ Purpose(r)
  BY <1>1, <1>2, NoRequestTyped DEF RequestRecord, Purpose, Disk
<1>5. UNCHANGED <<machines, disks, shots, astray>>
  BY DEF LoadDelete, machines, disks, shots
<1>6. /\ Becomes(q, r) /\ Notes(q, r) /\ req[q].pc = "idle" /\ req[q].on = {}
      /\ left' \in [requests : 0..MaxRequests, failures : 0..Failures]
  BY <1>3, <1>4, AcceptBecomes
<1>7. r.pc = "loaded" /\ r.op = "delete" /\ r.v = v /\ r.on = {v}
  BY <1>2 DEF NoRequest
<1>8. Admitted(q, r)
  BY <1>4, <1>5, <1>6, <1>7 DEF Admitted, machines, disks, shots
<1> QED  BY <1>7, <1>8

LEMMA LoadStartAdmits ==
  ASSUME TypeOK, Purposes, NEW q \in Request, NEW i \in Instance, LoadStart(q, i)
  PROVE  \E r : /\ Admitted(q, r)
               /\ r.pc = "loaded" /\ r.op = "start" /\ r.i = i /\ r.on = {i} /\ r.paths = boots[i]
<1>1. req \in Requests /\ vol \in Table /\ MachineTypes /\ DiskTypes
  BY TypesAre DEF TypeOK, Requests, Table
<1>2. PICK r : r = [NoRequest EXCEPT !.pc = "loaded", !.op = "start", !.i = i, !.on = {i}, !.paths = boots[i]]
  OBVIOUS
<1>3. Accept(q, r)
  BY <1>2 DEF LoadStart
<1>4. r \in RequestRecord /\ Purpose(r)
  BY <1>1, <1>2, NoRequestTyped DEF RequestRecord, Purpose, Disk, MachineTypes
<1>5. UNCHANGED <<machines, disks, shots, astray>>
  BY DEF LoadStart, machines, disks, shots
<1>6. /\ Becomes(q, r) /\ Notes(q, r) /\ req[q].pc = "idle" /\ req[q].on = {}
      /\ left' \in [requests : 0..MaxRequests, failures : 0..Failures]
  BY <1>3, <1>4, AcceptBecomes
<1>7. r.pc = "loaded" /\ r.op = "start" /\ r.i = i /\ r.on = {i} /\ r.paths = boots[i]
  BY <1>2 DEF NoRequest
<1>8. Admitted(q, r)
  BY <1>4, <1>5, <1>6, <1>7 DEF Admitted, machines, disks, shots
<1> QED  BY <1>7, <1>8

LEMMA LoadStopAdmits ==
  ASSUME TypeOK, Purposes, NEW q \in Request, NEW i \in Instance, LoadStop(q, i)
  PROVE  \E r : /\ Admitted(q, r)
               /\ r.pc = "loaded" /\ r.op = "stop" /\ r.i = i /\ r.on = {i}
<1>1. req \in Requests /\ vol \in Table /\ MachineTypes /\ DiskTypes
  BY TypesAre DEF TypeOK, Requests, Table
<1>2. PICK r : r = [NoRequest EXCEPT !.pc = "loaded", !.op = "stop", !.i = i, !.on = {i}]
  OBVIOUS
<1>3. Accept(q, r)
  BY <1>2 DEF LoadStop
<1>4. r \in RequestRecord /\ Purpose(r)
  BY <1>1, <1>2, NoRequestTyped DEF RequestRecord, Purpose, Disk
<1>5. UNCHANGED <<machines, disks, shots, astray>>
  BY DEF LoadStop, machines, disks, shots
<1>6. /\ Becomes(q, r) /\ Notes(q, r) /\ req[q].pc = "idle" /\ req[q].on = {}
      /\ left' \in [requests : 0..MaxRequests, failures : 0..Failures]
  BY <1>3, <1>4, AcceptBecomes
<1>7. r.pc = "loaded" /\ r.op = "stop" /\ r.i = i /\ r.on = {i}
  BY <1>2 DEF NoRequest
<1>8. Admitted(q, r)
  BY <1>4, <1>5, <1>6, <1>7 DEF Admitted, machines, disks, shots
<1> QED  BY <1>7, <1>8

LEMMA LoadTerminateAdmits ==
  ASSUME TypeOK, Purposes, NEW q \in Request, NEW i \in Instance, LoadTerminate(q, i)
  PROVE  \E r : /\ Admitted(q, r)
               /\ r.pc = "loaded" /\ r.op = "terminate" /\ r.i = i /\ r.on = {i}
<1>1. req \in Requests /\ vol \in Table /\ MachineTypes /\ DiskTypes
  BY TypesAre DEF TypeOK, Requests, Table
<1>2. PICK r : r = [NoRequest EXCEPT !.pc = "loaded", !.op = "terminate", !.i = i, !.on = {i}]
  OBVIOUS
<1>3. Accept(q, r)
  BY <1>2 DEF LoadTerminate
<1>4. r \in RequestRecord /\ Purpose(r)
  BY <1>1, <1>2, NoRequestTyped DEF RequestRecord, Purpose, Disk
<1>5. UNCHANGED <<machines, disks, shots, astray>>
  BY DEF LoadTerminate, machines, disks, shots
<1>6. /\ Becomes(q, r) /\ Notes(q, r) /\ req[q].pc = "idle" /\ req[q].on = {}
      /\ left' \in [requests : 0..MaxRequests, failures : 0..Failures]
  BY <1>3, <1>4, AcceptBecomes
<1>7. r.pc = "loaded" /\ r.op = "terminate" /\ r.i = i /\ r.on = {i}
  BY <1>2 DEF NoRequest
<1>8. Admitted(q, r)
  BY <1>4, <1>5, <1>6, <1>7 DEF Admitted, machines, disks, shots
<1> QED  BY <1>7, <1>8

LEMMA RestoreAdmits ==
  ASSUME TypeOK, Purposes, NEW q \in Request, NEW s \in Snapshot, Restore(q, s)
  PROVE  \E r : /\ Admitted(q, r)
               /\ r.pc = "restoring" /\ r.op = "restore" /\ r.s = s /\ r.on = {s}
<1>1. req \in Requests /\ vol \in Table /\ MachineTypes /\ DiskTypes
  BY TypesAre DEF TypeOK, Requests, Table
<1>2. PICK r : r = [NoRequest EXCEPT !.pc = "restoring", !.op = "restore", !.s = s, !.on = {s}]
  OBVIOUS
<1>3. Accept(q, r)
  BY <1>2 DEF Restore
<1>4. r \in RequestRecord /\ Purpose(r)
  BY <1>1, <1>2, NoRequestTyped DEF RequestRecord, Purpose
<1>5. UNCHANGED <<machines, disks, shots, astray>>
  BY DEF Restore, machines, disks, shots
<1>6. /\ Becomes(q, r) /\ Notes(q, r) /\ req[q].pc = "idle" /\ req[q].on = {}
      /\ left' \in [requests : 0..MaxRequests, failures : 0..Failures]
  BY <1>3, <1>4, AcceptBecomes
<1>7. r.pc = "restoring" /\ r.op = "restore" /\ r.s = s /\ r.on = {s}
  BY <1>2 DEF NoRequest
<1>8. Admitted(q, r)
  BY <1>4, <1>5, <1>6, <1>7 DEF Admitted, machines, disks, shots
<1> QED  BY <1>7, <1>8

LEMMA AdmittedTypes ==
  ASSUME TypeOK, Purposes, NEW q \in Request, NEW r, Admitted(q, r)
  PROVE  TypeOK' /\ Purposes'
<1> USE DEF machines, disks, shots
<1>1. Purposes'
  BY PurposesKept DEF Admitted, Becomes
<1>2. MachineTypes' /\ DiskTypes' /\ ShotTypes' /\ NoteTypes'
  BY TypesAre DEF Admitted, MachineTypes, DiskTypes, ShotTypes, NoteTypes, Notes
<1> QED  BY <1>1, <1>2, TypesAreNext DEF Admitted, Becomes

LEMMA CreateVolumeTypes ==
  ASSUME TypeOK, Purposes, NEW v \in Volume, CreateVolume(v)
  PROVE  TypeOK' /\ Purposes'
<1> USE DEF machines, disks, shots, history
<1>1. /\ req \in Requests /\ req' = req
      /\ MachineTypes /\ DiskTypes /\ ShotTypes /\ NoteTypes
  BY TypesAre DEF CreateVolume
<1>2. Purposes'
  BY <1>1 DEF Purposes
<1>3. MachineTypes'
  BY <1>1, NoPathsListed DEF CreateVolume, Loose, InstanceStatus, MachineTypes
<1>4. DiskTypes'
  BY <1>1 DEF CreateVolume, Loose, DiskTypes, VolumeRow, VolumeStatus, JobState
<1>5. ShotTypes'
  BY <1>1 DEF CreateVolume, Loose, ShotTypes, SnapshotRow, SnapshotStatus, JobState
<1>6. NoteTypes'
  BY <1>1, FailsLeft, VolumesAssumption DEF CreateVolume, Loose, NoteTypes, Disk
<1> QED  BY <1>1, <1>2, <1>3, <1>4, <1>5, <1>6, TypesAreNext

LEMMA BeginMakingTypes ==
  ASSUME TypeOK, Purposes, NEW v \in Volume, BeginMaking(v)
  PROVE  TypeOK' /\ Purposes'
<1> USE DEF machines, disks, shots, history
<1>1. /\ req \in Requests /\ req' = req
      /\ MachineTypes /\ DiskTypes /\ ShotTypes /\ NoteTypes
  BY TypesAre DEF BeginMaking
<1>2. Purposes'
  BY <1>1 DEF Purposes
<1>3. MachineTypes'
  BY <1>1 DEF BeginMaking, MachineTypes
<1>4. DiskTypes'
  BY <1>1 DEF BeginMaking, MakeGoTo, DiskTypes, JobState
<1>5. ShotTypes'
  BY <1>1 DEF BeginMaking, ShotTypes
<1>6. NoteTypes'
  BY <1>1 DEF BeginMaking, NoteTypes
<1> QED  BY <1>1, <1>2, <1>3, <1>4, <1>5, <1>6, TypesAreNext

LEMMA MakeFileTypes ==
  ASSUME TypeOK, Purposes, NEW v \in Volume, MakeFile(v)
  PROVE  TypeOK' /\ Purposes'
<1> USE DEF machines, disks, shots, history
<1>1. /\ req \in Requests /\ req' = req
      /\ MachineTypes /\ DiskTypes /\ ShotTypes /\ NoteTypes
  BY TypesAre DEF MakeFile
<1>2. Purposes'
  BY <1>1 DEF Purposes
<1>3. MachineTypes'
  BY <1>1, NoPathsListed DEF MakeFile, MakeGoTo, InstanceStatus, MachineTypes
<1>4. DiskTypes'
  BY <1>1 DEF MakeFile, MakeGoTo, DiskTypes, JobState
<1>5. ShotTypes'
  BY <1>1 DEF MakeFile, MakeGoTo, ShotTypes, SnapshotRow, SnapshotStatus, JobState
<1>6. NoteTypes'
  BY <1>1, FailsLeft, VolumesAssumption DEF MakeFile, MakeGoTo, NoteTypes, Disk
<1> QED  BY <1>1, <1>2, <1>3, <1>4, <1>5, <1>6, TypesAreNext

LEMMA RecordVolumeTypes ==
  ASSUME TypeOK, Purposes, MadeOnce, NEW v \in Volume, RecordVolume(v)
  PROVE  TypeOK' /\ Purposes'
<1> USE DEF machines, disks, shots, history
<1>1. /\ req \in Requests /\ req' = req
      /\ MachineTypes /\ DiskTypes /\ ShotTypes /\ NoteTypes
  BY TypesAre DEF RecordVolume
<1>2. Purposes'
  BY <1>1 DEF Purposes
<1>3. MachineTypes'
  BY <1>1 DEF RecordVolume, MachineTypes
<1>4. DiskTypes'
  <2>1. /\ file' = file /\ making' = [making EXCEPT ![v] = "none"]
        /\ vol[v].st \in {"Creating", "gone"}
    BY DEF RecordVolume, MakeGoTo, MadeOnce
  <2>2. PICK st \in {"Available", "Error", "gone"} : vol' = [vol EXCEPT ![v].st = st]
    BY <2>1 DEF RecordVolume, Exists
  <2>3. vol' \in [Volume -> VolumeRow]
    BY <1>1, <2>2 DEF DiskTypes, VolumeRow, VolumeStatus
  <2> QED  BY <1>1, <2>1, <2>2, <2>3 DEF DiskTypes, JobState
<1>5. ShotTypes'
  BY <1>1 DEF RecordVolume, ShotTypes
<1>6. NoteTypes'
  BY <1>1 DEF RecordVolume, NoteTypes
<1> QED  BY <1>1, <1>2, <1>3, <1>4, <1>5, <1>6, TypesAreNext

LEMMA CreateSnapshotTypes ==
  ASSUME TypeOK, Purposes, NEW s \in Snapshot, NEW d \in Disk, CreateSnapshot(s, d)
  PROVE  TypeOK' /\ Purposes'
<1> USE DEF machines, disks, shots, history
<1>1. /\ req \in Requests /\ req' = req
      /\ MachineTypes /\ DiskTypes /\ ShotTypes /\ NoteTypes
  BY TypesAre DEF CreateSnapshot
<1>2. Purposes'
  BY <1>1 DEF Purposes
<1>3. MachineTypes'
  BY <1>1 DEF CreateSnapshot, MachineTypes
<1>4. DiskTypes'
  BY <1>1 DEF CreateSnapshot, DiskTypes
<1>5. ShotTypes'
  BY <1>1 DEF CreateSnapshot, ShotTypes, SnapshotRow, SnapshotStatus, JobState
<1>6. NoteTypes'
  BY <1>1, VolumesAssumption DEF CreateSnapshot, NoteTypes
<1> QED  BY <1>1, <1>2, <1>3, <1>4, <1>5, <1>6, TypesAreNext

LEMMA DeleteSnapshotTypes ==
  ASSUME TypeOK, Purposes, NEW s \in Snapshot, DeleteSnapshot(s)
  PROVE  TypeOK' /\ Purposes'
<1> USE DEF machines, disks, shots, history
<1>1. /\ req \in Requests /\ req' = req
      /\ MachineTypes /\ DiskTypes /\ ShotTypes /\ NoteTypes
  BY TypesAre DEF DeleteSnapshot
<1>2. Purposes'
  BY <1>1 DEF Purposes
<1>3. MachineTypes'
  BY <1>1 DEF DeleteSnapshot, MachineTypes
<1>4. DiskTypes'
  BY <1>1 DEF DeleteSnapshot, DiskTypes
<1>5. ShotTypes'
  BY <1>1 DEF DeleteSnapshot, ShotTypes, SnapshotRow, SnapshotStatus, JobState
<1>6. NoteTypes'
  BY <1>1, VolumesAssumption DEF DeleteSnapshot, NoteTypes
<1> QED  BY <1>1, <1>2, <1>3, <1>4, <1>5, <1>6, TypesAreNext

LEMMA BeginTakingTypes ==
  ASSUME TypeOK, Purposes, NEW s \in Snapshot, BeginTaking(s)
  PROVE  TypeOK' /\ Purposes'
<1> USE DEF machines, disks, shots, history
<1>1. /\ req \in Requests /\ req' = req
      /\ MachineTypes /\ DiskTypes /\ ShotTypes /\ NoteTypes
  BY TypesAre DEF BeginTaking
<1>2. Purposes'
  BY <1>1 DEF Purposes
<1>3. MachineTypes'
  BY <1>1 DEF BeginTaking, MachineTypes
<1>4. DiskTypes'
  BY <1>1 DEF BeginTaking, DiskTypes
<1>5. ShotTypes'
  BY <1>1 DEF BeginTaking, TakeGoTo, ShotTypes, JobState
<1>6. NoteTypes'
  BY <1>1 DEF BeginTaking, NoteTypes
<1> QED  BY <1>1, <1>2, <1>3, <1>4, <1>5, <1>6, TypesAreNext

LEMMA TakeTypes ==
  ASSUME TypeOK, Purposes, NEW s \in Snapshot, Take(s)
  PROVE  TypeOK' /\ Purposes'
<1> USE DEF machines, disks, shots, history
<1>1. /\ req \in Requests /\ req' = req
      /\ MachineTypes /\ DiskTypes /\ ShotTypes /\ NoteTypes
  BY TypesAre DEF Take
<1>2. Purposes'
  BY <1>1 DEF Purposes
<1>3. MachineTypes'
  BY <1>1, NoPathsListed DEF Take, DiskThere, TakeGoTo, InstanceStatus, MachineTypes
<1>4. DiskTypes'
  BY <1>1 DEF Take, DiskTypes
<1>5. ShotTypes'
  BY <1>1 DEF Take, TakeGoTo, ShotTypes, JobState
<1>6. NoteTypes'
  BY <1>1, FailsLeft DEF Take, NoteTypes
<1> QED  BY <1>1, <1>2, <1>3, <1>4, <1>5, <1>6, TypesAreNext

LEMMA RecordSnapshotTypes ==
  ASSUME TypeOK, Purposes, NEW s \in Snapshot, RecordSnapshot(s)
  PROVE  TypeOK' /\ Purposes'
<1> USE DEF machines, disks, shots, history
<1>1. /\ req \in Requests /\ req' = req
      /\ MachineTypes /\ DiskTypes /\ ShotTypes /\ NoteTypes
  BY TypesAre DEF RecordSnapshot
<1>2. Purposes'
  BY <1>1 DEF Purposes
<1>3. MachineTypes'
  BY <1>1 DEF RecordSnapshot, MachineTypes
<1>4. DiskTypes'
  BY <1>1 DEF RecordSnapshot, DiskTypes
<1>5. ShotTypes'
  BY <1>1 DEF RecordSnapshot, TakeGoTo, ShotTypes, SnapshotRow, SnapshotStatus, JobState
<1>6. NoteTypes'
  BY <1>1 DEF RecordSnapshot, NoteTypes
<1> QED  BY <1>1, <1>2, <1>3, <1>4, <1>5, <1>6, TypesAreNext

LEMMA BeginDroppingTypes ==
  ASSUME TypeOK, Purposes, NEW s \in Snapshot, BeginDropping(s)
  PROVE  TypeOK' /\ Purposes'
<1> USE DEF machines, disks, shots, history
<1>1. /\ req \in Requests /\ req' = req
      /\ MachineTypes /\ DiskTypes /\ ShotTypes /\ NoteTypes
  BY TypesAre DEF BeginDropping
<1>2. Purposes'
  BY <1>1 DEF Purposes
<1>3. MachineTypes'
  BY <1>1 DEF BeginDropping, MachineTypes
<1>4. DiskTypes'
  BY <1>1 DEF BeginDropping, DiskTypes
<1>5. ShotTypes'
  BY <1>1 DEF BeginDropping, DropGoTo, ShotTypes, JobState
<1>6. NoteTypes'
  BY <1>1 DEF BeginDropping, NoteTypes
<1> QED  BY <1>1, <1>2, <1>3, <1>4, <1>5, <1>6, TypesAreNext

LEMMA DropTypes ==
  ASSUME TypeOK, Purposes, NEW s \in Snapshot, Drop(s)
  PROVE  TypeOK' /\ Purposes'
<1> USE DEF machines, disks, shots, history
<1>1. /\ req \in Requests /\ req' = req
      /\ MachineTypes /\ DiskTypes /\ ShotTypes /\ NoteTypes
  BY TypesAre DEF Drop
<1>2. Purposes'
  BY <1>1 DEF Purposes
<1>3. MachineTypes'
  BY <1>1, NoPathsListed DEF Drop, DiskThere, DropGoTo, InstanceStatus, MachineTypes
<1>4. DiskTypes'
  BY <1>1 DEF Drop, DiskTypes
<1>5. ShotTypes'
  BY <1>1 DEF Drop, DropGoTo, ShotTypes, JobState
<1>6. NoteTypes'
  BY <1>1, FailsLeft DEF Drop, NoteTypes
<1> QED  BY <1>1, <1>2, <1>3, <1>4, <1>5, <1>6, TypesAreNext

LEMMA RecordDroppedTypes ==
  ASSUME TypeOK, Purposes, NEW s \in Snapshot, RecordDropped(s)
  PROVE  TypeOK' /\ Purposes'
<1> USE DEF machines, disks, shots, history
<1>1. /\ req \in Requests /\ req' = req
      /\ MachineTypes /\ DiskTypes /\ ShotTypes /\ NoteTypes
  BY TypesAre DEF RecordDropped
<1>2. Purposes'
  BY <1>1 DEF Purposes
<1>3. MachineTypes'
  BY <1>1 DEF RecordDropped, MachineTypes
<1>4. DiskTypes'
  BY <1>1 DEF RecordDropped, DiskTypes
<1>5. ShotTypes'
  BY <1>1 DEF RecordDropped, DropGoTo, ShotTypes, SnapshotRow, SnapshotStatus, JobState
<1>6. NoteTypes'
  BY <1>1 DEF RecordDropped, NoteTypes
<1> QED  BY <1>1, <1>2, <1>3, <1>4, <1>5, <1>6, TypesAreNext

LEMMA ReconcileTypes ==
  ASSUME TypeOK, Purposes, NEW i \in Instance, Reconcile(i)
  PROVE  TypeOK' /\ Purposes'
<1> USE DEF machines, disks, shots, history
<1>1. /\ req \in Requests /\ req' = req
      /\ MachineTypes /\ DiskTypes /\ ShotTypes /\ NoteTypes
  BY TypesAre DEF Reconcile
<1>2. Purposes'
  BY <1>1 DEF Purposes
<1>3. MachineTypes'
  BY <1>1, NoPathsListed DEF Reconcile, Reported, InstanceStatus, MachineTypes
<1>4. DiskTypes'
  BY <1>1 DEF Reconcile, DiskTypes
<1>5. ShotTypes'
  BY <1>1 DEF Reconcile, Reported, ShotTypes, SnapshotRow, SnapshotStatus, JobState
<1>6. NoteTypes'
  BY <1>1, FailsLeft, VolumesAssumption DEF Reconcile, Reported, NoteTypes, Disk
<1> QED  BY <1>1, <1>2, <1>3, <1>4, <1>5, <1>6, TypesAreNext

LEMMA GuestPowersOffTypes ==
  ASSUME TypeOK, Purposes, NEW i \in Instance, GuestPowersOff(i)
  PROVE  TypeOK' /\ Purposes'
<1> USE DEF machines, disks, shots, history
<1>1. /\ req \in Requests /\ req' = req
      /\ MachineTypes /\ DiskTypes /\ ShotTypes /\ NoteTypes
  BY TypesAre DEF GuestPowersOff
<1>2. Purposes'
  BY <1>1 DEF Purposes
<1>3. MachineTypes'
  BY <1>1, NoPathsListed DEF GuestPowersOff, SwitchOff, InstanceStatus, MachineTypes
<1>4. DiskTypes'
  BY <1>1 DEF GuestPowersOff, DiskTypes
<1>5. ShotTypes'
  BY <1>1 DEF GuestPowersOff, ShotTypes
<1>6. NoteTypes'
  BY <1>1, FailsLeft DEF GuestPowersOff, NoteTypes
<1> QED  BY <1>1, <1>2, <1>3, <1>4, <1>5, <1>6, TypesAreNext

LEMMA CrashTypes ==
  ASSUME TypeOK, Purposes, Crash  PROVE  TypeOK' /\ Purposes'
<1> USE DEF machines, disks, shots, history
<1>1. /\ req \in Requests
      /\ MachineTypes /\ DiskTypes /\ ShotTypes /\ NoteTypes
  BY TypesAre
<1>2. req' \in Requests /\ Purposes'
  BY NoRequestTyped DEF Crash, Requests, Purposes
<1>3. MachineTypes' /\ DiskTypes' /\ ShotTypes'
  BY <1>1 DEF Crash, MachineTypes, DiskTypes, ShotTypes, JobState
<1>4. NoteTypes'
  <2>1. \A q \in Request : req[q].on \subseteq Disk \union Snapshot
    BY <1>1 DEF Requests, RequestRecord
  <2>2. astray' \subseteq Disk \union Snapshot
    <3> DEFINE worked == UNION {req[q].on : q \in Request}
               made   == {v \in Volume : making[v] # "none"}
               shot   == {s \in Snapshot : taking[s] # "none" \/ dropping[s] # "none"}
    <3>1. worked \subseteq Disk \union Snapshot
      BY <2>1
    <3>2. made \subseteq Disk \union Snapshot /\ shot \subseteq Disk \union Snapshot
      BY DEF Disk
    <3>3. astray \subseteq Disk \union Snapshot
      BY <1>1 DEF NoteTypes
    <3>4. astray' = astray \union worked \union made \union shot
      BY DEF Crash
    <3> HIDE DEF worked, made, shot
    <3> QED  BY <3>1, <3>2, <3>3, <3>4
  <2> QED  BY <1>1, <2>2, FailsLeft DEF Crash, NoteTypes
<1> QED  BY <1>2, <1>3, <1>4, TypesAreNext

LEMMA FirstTypes == ASSUME Init  PROVE  TypeOK /\ Purposes
<1>1. PICK old, held, holder, place :
        /\ old \in SUBSET Volume /\ held \in SUBSET old /\ holder \in Instance
        /\ place \in [held -> 0..(Cardinality(held) - 1)]
        /\ \A v, w \in held : place[v] = place[w] => v = w
        /\ vol = FirstRows(old, held, holder, place)
        /\ boots = [i \in Instance |-> IF i = holder THEN place ELSE NoPaths]
        /\ file = old
  BY DEF Init
<1>2. place \in Lists /\ \A v \in held : place[v] \in Nat
  <2>1. held \in SUBSET Volume
    BY <1>1
  <2>2. Cardinality(held) - 1 <= Cardinality(Volume)
        /\ Cardinality(held) \in Nat /\ Cardinality(Volume) \in Nat
    BY <2>1, VolumesAssumption, FS_Subset, FS_CardinalityType
  <2>3. \A v \in held : place[v] \in 0..Cardinality(Volume)
    BY <1>1, <2>2
  <2>4. place \in [held -> 0..Cardinality(Volume)]
    BY <1>1, <2>3
  <2> QED  BY <2>1, <2>2, <2>4 DEF Lists
<1>3. MachineTypes
  BY <1>1, <1>2, NoPathsListed DEF Init, MachineTypes, InstanceStatus
<1>4. DiskTypes
  <2>1. ASSUME NEW v \in Volume
        PROVE  /\ vol[v] \in VolumeRow
               /\ vol[v].st = "Attached" <=> vol[v].owner # Nobody
               /\ vol[v].st = "Attached" <=> vol[v].order # NoOrder
    <3>1. CASE v \notin held
      BY <1>1, <3>1, LooseIs DEF FirstRows, VolumeStatus
    <3>2. CASE v \in held
      <4>1. vol[v] = [st |-> "Attached", owner |-> holder, order |-> place[v]]
        BY <1>1, <3>2 DEF FirstRows
      <4>2. PICK n \in Nat : n = place[v]
        BY <1>2, <3>2
      <4>3. holder \in Instance /\ holder # Nobody
        BY <1>1, VolumesAssumption
      <4> QED  BY <4>1, <4>2, <4>3 DEF VolumeRow, VolumeStatus, NoOrder
    <3> QED  BY <3>1, <3>2
  <2>2. vol \in [Volume -> VolumeRow]
    BY <1>1, <2>1 DEF FirstRows
  <2> QED  BY <1>1, <2>1, <2>2 DEF Init, DiskTypes, JobState
<1>5. ShotTypes
  BY DEF Init, ShotTypes, SnapshotRow, JobState
<1>6. NoteTypes
  BY VolumesAssumption DEF Init, NoteTypes
<1>7. req \in Requests /\ Purposes
  BY NoRequestTyped DEF Init, Requests, Purposes
<1> QED  BY <1>3, <1>4, <1>5, <1>6, <1>7, TypesAre

-----------------------------------------------------------------------------
(***************************************************************************)
(* Requests and jobs that meet on a volume                                 *)
(***************************************************************************)

Deleting(q, v) == req[q].op = "delete" /\ req[q].pc # "idle" /\ req[q].v = v

\* A volume somebody works on is attached, if at all, to an instance of the
\* same request or to one that is noted.
Held ==
  \A q \in Request : \A v \in Volume : v \in req[q].on /\ vol[v].st = "Attached" =>
    vol[v].owner \in req[q].on \union raced

\* What a request was admitted on still holds when it commits, or it is noted.
Meant ==
  \A q \in Request :
    /\ At(q, "attach", "loaded") => vol[req[q].v].st = "Available" \/ req[q].on \subseteq raced
    /\ At(q, "detach", "loaded") =>
         \/ vol[req[q].v].st = "Attached" /\ vol[req[q].v].owner = req[q].i
         \/ req[q].on \subseteq raced

\* A volume that is deleted existed, and is noted if its job was at work.
Made ==
  /\ \A v \in Volume : making[v] # "none" /\ vol[v].st = "gone" => v \in raced
  /\ \A q \in Request, v \in Volume : Deleting(q, v) =>
       vol[v].st # "unborn" /\ (making[v] # "none" => v \in raced)

Meetings == MadeOnce /\ Held /\ Meant /\ Made

\* Every request goes on, or ends.
Onward ==
  \A p \in Request :
    \/ req'[p].pc = "idle" /\ req'[p].on = {}
    \/ /\ req'[p].on = req[p].on /\ req'[p].op = req[p].op /\ req[p].pc # "idle"
       /\ req'[p].v = req[p].v /\ req'[p].i = req[p].i /\ req'[p].s = req[p].s
       /\ req'[p].order = req[p].order
       /\ req'[p].pc = req[p].pc \/ req'[p].pc \notin {"idle", "loaded"}

LEMMA GoesOnward ==
  ASSUME Purposes, NEW q \in Request, NEW pc, pc \notin {"idle", "loaded"}, req[q].pc # "idle",
         Reaches(q, pc) \/ Becomes(q, NoRequest)
  PROVE  Onward
BY DEF Purposes, Purpose, Reaches, Becomes, NoRequest, Onward

LEMMA EndsOnward ==
  ASSUME Purposes, NEW q \in Request, Becomes(q, NoRequest)
  PROVE  Onward /\ req'[q].pc = "idle"
BY DEF Purposes, Purpose, Becomes, NoRequest, Onward

LEMMA StaysOnward == ASSUME Purposes, req' = req  PROVE Onward
BY DEF Purposes, Purpose, Onward

\* A step that leaves the volumes and their jobs alone.
LEMMA MeetingsStay ==
  ASSUME Meetings, Onward, UNCHANGED <<vol, making>>, raced \subseteq raced'
  PROVE  Meetings'
<1>1. MadeOnce'
  BY DEF Meetings, MadeOnce, Onward
<1>2. Held'
  BY DEF Meetings, Held, Onward
<1>3. Meant'
  BY DEF Meetings, Meant, Onward, At
<1>4. Made'
  BY DEF Meetings, Made, Onward, Deleting
<1> QED  BY <1>1, <1>2, <1>3, <1>4 DEF Meetings

\* A request that is admitted.
LEMMA MeetingsAdmit ==
  ASSUME Meetings, TypeOK, NEW q \in Request, NEW r \in RequestRecord, Becomes(q, r),
         Notes(q, r), Purpose(r), UNCHANGED <<vol, making>>, r.pc \in {"loaded", "restoring"},
         r.op = "attach" => vol[r.v].st = "Available",
         r.op = "detach" => vol[r.v].st = "Attached" /\ vol[r.v].owner = r.i,
         r.op = "delete" => Exists(vol[r.v]) /\ vol[r.v].st # "Attached"
  PROVE  Meetings'
<1>1. MadeOnce'
  BY DEF Meetings, MadeOnce, Becomes, Purpose
<1>2. Held'
  <2>1. ASSUME NEW v \in Volume, v \in r.on, vol[v].st = "Attached"
        PROVE  vol[v].owner \in r.on
    BY <2>1, VolumesAssumption DEF Purpose, RequestRecord
  <2> QED  BY <2>1 DEF Meetings, Held, Becomes, Notes
<1>3. Meant'
  BY DEF Meetings, Meant, Becomes, Notes, At
<1>4. Made'
  <2>1. ASSUME NEW v \in Volume, r.op = "delete", r.v = v
        PROVE  vol[v].st # "unborn" /\ (making[v] # "none" => v \in raced')
    BY <2>1 DEF Exists, Notes, Purpose
  <2> QED  BY <2>1 DEF Meetings, Made, Deleting, Becomes, Notes
<1> QED  BY <1>1, <1>2, <1>3, <1>4 DEF Meetings

LEMMA CommitAttachMeetings ==
  ASSUME Meetings, TypeOK, Purposes, Overlaps, NEW q \in Request, CommitAttach(q)
  PROVE  Meetings'
<1>1. /\ At(q, "attach", "loaded") /\ req \in Requests /\ Purpose(req[q])
      /\ making' = making /\ raced' = raced
  BY DEF CommitAttach, TypeOK, Requests, Purposes, history
<1>2. Onward
  BY <1>1, GoToReaches, AnswerBecomes, GoesOnward DEF CommitAttach, At, Stage
<1>3. CASE vol' = vol
  BY <1>1, <1>2, <1>3, MeetingsStay
<1>4. CASE vol' # vol
  <2> DEFINE v == req[q].v
             i == req[q].i
  <2>1. /\ v \in Volume /\ i \in Instance /\ req[q].on = {v, i} /\ i \notin Volume
        /\ vol'[v].st = "Attached" /\ vol'[v].owner = i /\ \A w \in Volume \ {v} : vol'[w] = vol[w]
        /\ making[v] = "none"
        /\ req'[q].pc \notin {"idle", "loaded"} /\ req'[q].v = v /\ req'[q].op = "attach"
    BY <1>1, <1>4, VolumesAssumption, GoToReaches
    DEF CommitAttach, At, Purpose, TypeOK, Meetings, MadeOnce, Reaches, Stage
  <2>2. \A p \in Request \ {q} : v \in req[p].on => req[p].on \union {i} \subseteq raced
    BY <2>1 DEF Overlaps
  <2>3. \A p \in Request : req'[p].pc # "idle" /\ req'[p].op \in {"attach", "detach", "delete"} =>
          req'[p].v \in Volume /\ req'[p].v \in req'[p].on
    BY <1>2 DEF Purposes, Purpose, Onward
  <2>4. MadeOnce'
    BY <1>1, <1>2, <2>1, <2>3 DEF Meetings, MadeOnce, Onward
  <2>5. Held'
    BY <1>1, <1>2, <2>1, <2>2 DEF Meetings, Held, Onward
  <2>6. Meant'
    BY <1>1, <1>2, <2>1, <2>2, <2>3 DEF Meetings, Meant, Onward, At
  <2>7. Made'
    BY <1>1, <1>2, <2>1 DEF Meetings, Made, Onward, Deleting
  <2> QED  BY <2>4, <2>5, <2>6, <2>7 DEF Meetings
<1> QED  BY <1>3, <1>4

\* A request of q that frees or deletes the volume v it works on.
LEMMA LoosenedMeetings ==
  ASSUME Meetings, TypeOK, Purposes, Overlaps, Onward, NEW q \in Request, NEW v \in Volume,
         NEW st \in {"Available", "gone"},
         v \in req[q].on, req'[q].pc \notin {"loaded"}, raced' = raced, making' = making,
         vol' = [vol EXCEPT ![v] = Loose(st)],
         st = "Available" => making[v] = "none",
         st = "gone" => Deleting(q, v) /\ req'[q].pc = "idle"
  PROVE  Meetings'
<1>1. /\ vol'[v].st = st /\ \A w \in Volume \ {v} : vol'[w] = vol[w]
  BY DEF TypeOK, Loose
<1>2. \A p \in Request \ {q} : v \in req[p].on => req[p].on \subseteq raced
  BY DEF Overlaps
<1>3. \A p \in Request : req'[p].pc # "idle" /\ req'[p].op \in {"attach", "detach", "delete"} =>
        req'[p].v \in Volume /\ req'[p].v \in req'[p].on
  BY DEF Purposes, Purpose, Onward
<1>4. MadeOnce'
  BY <1>1, <1>3 DEF Meetings, MadeOnce, Onward
<1>5. Held'
  BY <1>1 DEF Meetings, Held, Onward
<1>6. Meant'
  BY <1>1, <1>2, <1>3 DEF Meetings, Meant, Onward, At
<1>7. Made'
  BY <1>1 DEF Meetings, Made, Onward, Deleting
<1> QED  BY <1>4, <1>5, <1>6, <1>7 DEF Meetings

LEMMA CommitDetachMeetings ==
  ASSUME Meetings, TypeOK, Purposes, Overlaps, NEW q \in Request, CommitDetach(q)
  PROVE  Meetings'
<1>1. /\ At(q, "detach", "loaded") /\ req \in Requests /\ Purpose(req[q])
      /\ making' = making /\ raced' = raced
      /\ Reaches(q, "compacting") \/ Becomes(q, NoRequest)
  BY GoToReaches, AnswerBecomes DEF CommitDetach, TypeOK, Requests, Purposes, history, Stage
<1>2. Onward /\ req'[q].pc # "loaded"
  BY <1>1, GoesOnward, SMTT(30) DEF At, Reaches, Becomes, NoRequest
<1>3. CASE vol' = vol
  BY <1>1, <1>2, <1>3, MeetingsStay
<1>4. CASE vol' = [vol EXCEPT ![req[q].v] = Loose("Available")]
  <2>1. req[q].v \in Volume /\ req[q].v \in req[q].on /\ making[req[q].v] = "none"
    BY <1>1 DEF At, Purpose, Meetings, MadeOnce
  <2> QED  BY <1>1, <1>2, <1>4, <2>1, LoosenedMeetings
<1> QED  BY <1>3, <1>4 DEF CommitDetach

LEMMA RemoveRowsMeetings ==
  ASSUME Meetings, TypeOK, Purposes, Overlaps, NEW q \in Request, RemoveRows(q)
  PROVE  Meetings'
<1>1. /\ req[q].pc = "unlinked" /\ req \in Requests /\ Purpose(req[q])
      /\ making' = making /\ raced' = raced /\ Becomes(q, NoRequest)
      /\ vol' = [vol EXCEPT ![req[q].v] = Loose("gone")]
  BY AnswerBecomes DEF RemoveRows, TypeOK, Requests, Purposes, history
<1>2. Onward /\ req'[q].pc = "idle"
  BY <1>1, EndsOnward
<1>3. req[q].v \in Volume /\ req[q].v \in req[q].on /\ Deleting(q, req[q].v)
  BY <1>1 DEF Purpose, Deleting
<1> QED  BY <1>1, <1>2, <1>3, LoosenedMeetings

\* A step that changes no more of the volumes than their order.
LEMMA CompactMeetings ==
  ASSUME Meetings, TypeOK, Purposes, NEW q \in Request, Compact(q)
  PROVE  Meetings'
<1>1. /\ req[q].pc = "compacting" /\ Reaches(q, "pushing") /\ making' = making /\ raced' = raced
  BY GoToReaches DEF Compact, TypeOK, Requests, history, Stage
<1>2. Onward
  BY <1>1, GoesOnward
<1>3. \A v \in Volume : vol'[v].st = vol[v].st /\ vol'[v].owner = vol[v].owner
  BY DEF Compact, TypeOK, VolumeRow
<1>4. \A p \in Request : req'[p].pc # "idle" /\ req'[p].op \in {"attach", "detach", "delete"} =>
        req'[p].v \in Volume
  BY <1>2 DEF Purposes, Purpose, Onward
<1>5. MadeOnce'
  BY <1>1, <1>2, <1>3, <1>4 DEF Meetings, MadeOnce, Onward
<1>6. Held'
  BY <1>1, <1>2, <1>3 DEF Meetings, Held, Onward
<1>7. Meant'
  BY <1>1, <1>2, <1>3, <1>4 DEF Meetings, Meant, Onward, At
<1>8. Made'
  BY <1>1, <1>2, <1>3 DEF Meetings, Made, Onward, Deleting
<1> QED  BY <1>5, <1>6, <1>7, <1>8 DEF Meetings

\* What a terminated instance held becomes available.  A detach of it that
\* has not committed yet overlaps.
LEMMA TerminateMeetings ==
  ASSUME Meetings, TypeOK, Purposes, Overlaps, NEW q \in Request, Terminate(q)
  PROVE  Meetings'
<1> DEFINE i == req[q].i
<1>1. /\ req[q].pc = "destroyed" /\ req \in Requests /\ Purpose(req[q])
      /\ making' = making /\ raced' = raced /\ Becomes(q, NoRequest)
      /\ vol' = [v \in Volume |-> IF vol[v].owner = i THEN Loose("Available") ELSE vol[v]]
  BY AnswerBecomes DEF Terminate, TypeOK, Requests, Purposes, history
<1>2. Onward /\ req'[q].pc = "idle"
  BY <1>1, EndsOnward
<1>3. i \in Instance /\ i \in req[q].on
  BY <1>1 DEF Purpose
<1>4. \A v \in Volume : \/ vol'[v] = vol[v]
                        \/ /\ vol[v].owner = i /\ vol[v].st = "Attached"
                           /\ vol'[v].st = "Available" /\ making[v] = "none"
  BY <1>1, <1>3, VolumesAssumption DEF TypeOK, Loose, Meetings, MadeOnce
<1>5. \A p \in Request : req'[p].pc # "idle" /\ req'[p].op \in {"attach", "detach", "delete"} =>
        /\ req'[p].v \in Volume /\ req'[p].v \in req'[p].on
        /\ req'[p].op = "detach" => req'[p].i \in req'[p].on
  BY <1>2 DEF Purposes, Purpose, Onward
<1>6. MadeOnce'
  BY <1>1, <1>2, <1>4, <1>5 DEF Meetings, MadeOnce, Onward
<1>7. Held'
  BY <1>1, <1>2, <1>4 DEF Meetings, Held, Onward
<1>8. Meant'
  <2> SUFFICES ASSUME NEW p \in Request
               PROVE  /\ At(p, "attach", "loaded")' =>
                           vol'[req'[p].v].st = "Available" \/ req'[p].on \subseteq raced
                      /\ At(p, "detach", "loaded")' =>
                           \/ vol'[req'[p].v].st = "Attached" /\ vol'[req'[p].v].owner = req'[p].i
                           \/ req'[p].on \subseteq raced
    BY <1>1 DEF Meant
  <2>1. CASE At(p, "attach", "loaded")'
    BY <1>2, <1>4, <1>5, <2>1 DEF Meetings, Meant, Onward, At
  <2>2. CASE At(p, "detach", "loaded")'
    <3>1. /\ At(p, "detach", "loaded") /\ req'[p].on = req[p].on /\ req'[p].v = req[p].v
          /\ req'[p].i = req[p].i /\ p # q /\ req[p].i \in req[p].on /\ req[p].v \in Volume
      BY <1>2, <1>5, <2>2 DEF Onward, At
    <3>2. CASE req[p].i = i
      BY <1>3, <3>1, <3>2 DEF Overlaps
    <3>3. CASE req[p].i # i
      <4>1. \/ vol[req[p].v].st = "Attached" /\ vol[req[p].v].owner = req[p].i
            \/ req[p].on \subseteq raced
        BY <3>1 DEF Meetings, Meant
      <4>2. vol[req[p].v].owner = req[p].i => vol'[req[p].v] = vol[req[p].v]
        BY <1>4, <3>1, <3>3
      <4> QED  BY <1>1, <2>2, <3>1, <4>1, <4>2 DEF At
    <3> QED  BY <3>2, <3>3
  <2> QED  BY <2>1, <2>2 DEF At
<1>9. Made'
  BY <1>1, <1>2, <1>4 DEF Meetings, Made, Onward, Deleting
<1> QED  BY <1>6, <1>7, <1>8, <1>9 DEF Meetings

\* The jobs of volumes.
LEMMA JobMeetings ==
  ASSUME Meetings, TypeOK, Purposes, NEW v \in Volume, CreateVolume(v) \/ VolumeJob(v)
  PROVE  Meetings'
<1>1. req' = req /\ raced' = raced /\ \A w \in Volume \ {v} : vol'[w] = vol[w] /\ making'[w] = making[w]
  BY DEF CreateVolume, VolumeJob, BeginMaking, MakeFile, RecordVolume, MakeGoTo, history, TypeOK
<1>2. /\ vol[v].st # "unborn" => making[v] # "none" /\ vol'[v].st # "unborn"
      /\ vol[v].st = "unborn" /\ making'[v] # "none" => vol'[v].st = "Creating"
      /\ making'[v] # "none" => vol'[v].st \in {"Creating", "gone"}
      /\ making'[v] # "none" /\ vol'[v].st = "gone" => making[v] # "none" /\ vol[v].st = "gone"
      /\ vol[v].st \notin {"Available", "Attached"} /\ vol'[v].st # "Attached"
  BY DEF CreateVolume, VolumeJob, BeginMaking, MakeFile, RecordVolume, MakeGoTo, Loose, Exists,
         TypeOK, VolumeRow, Meetings, MadeOnce
<1>3. \A p \in Request : req[p].pc # "idle" /\ req[p].op \in {"attach", "detach", "delete"} =>
        req[p].v \in Volume
  BY DEF Purposes, Purpose
<1>4. MadeOnce'
  BY <1>1, <1>2, <1>3 DEF Meetings, MadeOnce
<1>5. Held'
  BY <1>1, <1>2 DEF Meetings, Held
<1>6. Meant'
  BY <1>1, <1>2, <1>3 DEF Meetings, Meant, At
<1>7. Made'
  BY <1>1, <1>2 DEF Meetings, Made, Deleting
<1> QED  BY <1>4, <1>5, <1>6, <1>7 DEF Meetings

LEMMA CrashMeetings ==
  ASSUME Meetings, Crash  PROVE  Meetings'
<1>1. \A q \in Request : req'[q].pc = "idle" /\ req'[q].on = {}
  BY DEF Crash, NoRequest
<1>2. vol' = vol /\ \A v \in Volume : making'[v] = "none"
  BY DEF Crash
<1> QED  BY <1>1, <1>2 DEF Meetings, MadeOnce, Held, Meant, Made, At, Deleting

-----------------------------------------------------------------------------
(***************************************************************************)
(* The turns of a request                                                  *)
(***************************************************************************)

\* Where a turn of q takes it.
Turned(q, pcs) ==
  \/ \E pc \in pcs : Reaches(q, pc)
  \/ Becomes(q, NoRequest)

LEMMA Turns ==
  ASSUME TypeOK, NEW q \in Request
  PROVE  /\ CommitAttach(q) => Turned(q, {"pushing"})
         /\ CommitDetach(q) => Turned(q, {"compacting"})
         /\ Compact(q) => Turned(q, {"pushing"})
         /\ ReadPaths(q) => Turned(q, {"telling"})
         /\ Unlink(q) => Turned(q, {"unlinked"})
         /\ SetVolumes(q) \/ SetVolumesFails(q) \/ RemoveRows(q) => Turned(q, {})
         /\ Spawn(q) \/ FindRunning(q) => Turned(q, {"booting"})
         /\ SpawnFails(q) \/ EndStart(q) \/ BootFails(q) => Turned(q, {})
         /\ Halt(q) => Turned(q, {"halted"})
         /\ EndStop(q) \/ Terminate(q) \/ EndRestore(q) => Turned(q, {})
         /\ Destroy(q) \/ DestroyFails(q) => Turned(q, {"destroyed"})
<1>1. req \in Requests /\ vol \in Table
  BY DEF TypeOK, Requests, Table
<1>2. ASSUME ReadPaths(q)  PROVE Reaches(q, "telling")
  <2>1. PICK paths \in Lists : req' = [req EXCEPT ![q].pc = "telling", ![q].paths = paths]
    BY <1>1, <1>2, PathsListed DEF ReadPaths
  <2>2. PICK r \in RequestRecord : r = req[q]
    BY <1>1 DEF Requests
  <2>3. /\ req' = [req EXCEPT ![q] = [r EXCEPT !.pc = "telling", !.paths = paths]]
        /\ [r EXCEPT !.pc = "telling", !.paths = paths] \in RequestRecord
    BY <1>1, <2>1, <2>2, ZenonT(60) DEF Requests, RequestRecord
  <2> QED  BY <1>1, <2>2, <2>3 DEF Requests, RequestRecord, Reaches
<1>3. \A pc \in Stage : GoTo(q, pc) => Reaches(q, pc)
  BY <1>1, GoToReaches
<1>4. Answer(q) => Becomes(q, NoRequest)
  BY <1>1, AnswerBecomes
<1> QED
  BY <1>2, <1>3, <1>4
  DEF Turned, Stage, CommitAttach, CommitDetach, Compact, Unlink, SetVolumes, SetVolumesFails,
  RemoveRows,
      Spawn, FindRunning, SpawnFails, EndStart, BootFails, Halt, EndStop, Terminate, EndRestore,
      Destroy, DestroyFails

LEMMA TurnedOnward ==
  ASSUME Purposes, NEW q \in Request, Turned(q, Stage \ {"idle", "loaded"}), req[q].pc # "idle"
  PROVE  Onward
BY DEF Turned, Purposes, Purpose, Reaches, Becomes, NoRequest, Onward

\* Turns that leave the rows of the volumes and their jobs alone.
QuietTurn(q) ==
  \/ ReadPaths(q) \/ SetVolumes(q) \/ SetVolumesFails(q) \/ Unlink(q)
  \/ Spawn(q) \/ FindRunning(q) \/ SpawnFails(q) \/ EndStart(q) \/ BootFails(q)
  \/ Halt(q) \/ EndStop(q) \/ Destroy(q) \/ DestroyFails(q) \/ EndRestore(q)

LEMMA QuietTurnMeetings ==
  ASSUME Meetings, TypeOK, Purposes, NEW q \in Request, QuietTurn(q)
  PROVE  Meetings'
<1>1. UNCHANGED <<vol, making>> /\ raced' = raced /\ req[q].pc # "idle"
  BY DEF QuietTurn, ReadPaths, SetVolumes, SetVolumesFails, Unlink, Spawn, FindRunning, SpawnFails,
         EndStart, BootFails, Halt, EndStop, Destroy, DestroyFails, EndRestore, At, history, disks
<1>2. Turned(q, Stage \ {"idle", "loaded"})
  BY Turns DEF QuietTurn, Turned, Stage
<1> QED  BY <1>1, <1>2, TurnedOnward, MeetingsStay

LEMMA AdmissionMeetings ==
  ASSUME Meetings, TypeOK, Purposes, NEW q \in Request, NEW v \in Volume, NEW i \in Instance,
         NEW s \in Snapshot,
         \/ LoadAttach(q, v, i) \/ LoadDetach(q, v, i) \/ LoadDelete(q, v)
         \/ LoadStart(q, i) \/ LoadStop(q, i) \/ LoadTerminate(q, i) \/ Restore(q, s)
  PROVE  Meetings'
<1>1. CASE LoadAttach(q, v, i)
  <2>1. PICK r : Admitted(q, r) /\ r.op = "attach" /\ r.v = v
    BY <1>1, LoadAttachAdmits
  <2>2. vol[v].st = "Available"
    BY <1>1 DEF LoadAttach
  <2> QED  BY <2>1, <2>2, MeetingsAdmit DEF Admitted, disks
<1>2. CASE LoadDetach(q, v, i)
  <2>1. PICK r : Admitted(q, r) /\ r.op = "detach" /\ r.v = v /\ r.i = i
    BY <1>2, LoadDetachAdmits
  <2>2. vol[v].st = "Attached" /\ vol[v].owner = i
    BY <1>2 DEF LoadDetach
  <2> QED  BY <2>1, <2>2, MeetingsAdmit DEF Admitted, disks
<1>3. CASE LoadDelete(q, v)
  <2>1. PICK r : Admitted(q, r) /\ r.op = "delete" /\ r.v = v
    BY <1>3, LoadDeleteAdmits
  <2>2. Exists(vol[v]) /\ vol[v].st # "Attached"
    BY <1>3 DEF LoadDelete
  <2> QED  BY <2>1, <2>2, MeetingsAdmit DEF Admitted, disks
<1>4. CASE LoadStart(q, i) \/ LoadStop(q, i) \/ LoadTerminate(q, i) \/ Restore(q, s)
  <2>1. PICK r : Admitted(q, r) /\ r.op \in {"start", "stop", "terminate", "restore"}
    BY <1>4, LoadStartAdmits, LoadStopAdmits, LoadTerminateAdmits, RestoreAdmits
  <2> QED  BY <2>1, MeetingsAdmit DEF Admitted, disks
<1> QED  BY <1>1, <1>2, <1>3, <1>4

\* What else leaves the volumes and requests alone.
OtherStep ==
  \/ \E s \in Snapshot, d \in Disk : CreateSnapshot(s, d)
  \/ \E s \in Snapshot : DeleteSnapshot(s) \/ SnapshotJob(s)
  \/ \E i \in Instance : Reconcile(i) \/ GuestPowersOff(i)

LEMMA OtherMeetings ==
  ASSUME Meetings, Purposes, OtherStep \/ UNCHANGED vars  PROVE Meetings'
<1>1. UNCHANGED <<vol, making, req>> /\ raced \subseteq raced'
  BY DEF OtherStep, CreateSnapshot, DeleteSnapshot, SnapshotJob, BeginTaking, Take, RecordSnapshot,
         BeginDropping, Drop, RecordDropped, Reconcile, GuestPowersOff, disks, history, vars
<1> QED  BY <1>1, StaysOnward, MeetingsStay

\* Every step is of one of these kinds.
LEMMA Kinds ==
  ASSUME Next
  PROVE  \/ \E q \in Request :
              \/ QuietTurn(q) \/ CommitAttach(q) \/ CommitDetach(q) \/ Compact(q)
              \/ RemoveRows(q) \/ Terminate(q)
              \/ \E v \in Volume, i \in Instance : LoadAttach(q, v, i) \/ LoadDetach(q, v, i)
              \/ \E v \in Volume : LoadDelete(q, v)
              \/ \E i \in Instance : LoadStart(q, i) \/ LoadStop(q, i) \/ LoadTerminate(q, i)
              \/ \E s \in Snapshot : Restore(q, s)
         \/ \E v \in Volume : CreateVolume(v) \/ VolumeJob(v)
         \/ OtherStep
         \/ Crash
BY DEF Next, VolumeRequest, InstanceRequest, QuietTurn, OtherStep

LEMMA MeetingsSteps ==
  ASSUME Meetings, TypeOK, Purposes, Overlaps, [Next]_vars
  PROVE  Meetings'
<1>1. CASE OtherStep \/ UNCHANGED vars
  BY <1>1, OtherMeetings
<1>2. CASE Crash
  BY <1>2, CrashMeetings
<1>3. ASSUME NEW v \in Volume, CreateVolume(v) \/ VolumeJob(v)  PROVE Meetings'
  BY <1>3, JobMeetings
<1>4. ASSUME NEW q \in Request,
             \/ QuietTurn(q) \/ CommitAttach(q) \/ CommitDetach(q) \/ Compact(q)
             \/ RemoveRows(q) \/ Terminate(q)
      PROVE  Meetings'
  BY <1>4, QuietTurnMeetings, CommitAttachMeetings, CommitDetachMeetings, CompactMeetings,
     RemoveRowsMeetings, TerminateMeetings
<1>5. ASSUME NEW q \in Request,
             \/ \E v \in Volume, i \in Instance : LoadAttach(q, v, i) \/ LoadDetach(q, v, i)
             \/ \E v \in Volume : LoadDelete(q, v)
             \/ \E i \in Instance : LoadStart(q, i) \/ LoadStop(q, i) \/ LoadTerminate(q, i)
             \/ \E s \in Snapshot : Restore(q, s)
      PROVE  Meetings'
  <2>1. PICK v0 \in Volume : TRUE
    BY VolumesAssumption
  <2>2. PICK i0 \in Instance : TRUE
    BY VolumesAssumption
  <2>3. PICK s0 \in Snapshot : TRUE
    BY VolumesAssumption
  <2> QED  BY <1>5, <2>1, <2>2, <2>3, AdmissionMeetings
<1> QED  BY <1>1, <1>2, <1>3, <1>4, <1>5, Kinds

LEMMA FirstMeetings == ASSUME Init  PROVE  Meetings
<1>1. \A q \in Request : req[q].pc = "idle" /\ req[q].on = {}
  BY DEF Init, NoRequest
<1>2. \A v \in Volume : making[v] = "none"
  BY DEF Init
<1> QED  BY <1>1, <1>2 DEF Meetings, MadeOnce, Held, Meant, Made, At, Deleting

-----------------------------------------------------------------------------
(***************************************************************************)
(* What the engine has of an instance that nothing raced on                *)
(***************************************************************************)

\* The volumes of i in a table, with their places.
Orders(rows, i) == [v \in Owned(rows, i) |-> rows[v].order]

\* In between, an attach or a detach has yet to tell the engine.
Behind == {"compacting", "pushing", "telling"}

\* What is known of i while r is the one request about it.
Course(i, r) ==
  /\ Distinct(vol, i)
  /\ r.pc # "compacting" => Numbered(vol, i)
  /\ qemu[i] # "absent" /\ r.pc \notin Behind => boots[i] = Orders(vol, i)
  /\ r.pc = "loaded" /\ r.op = "attach" =>
       /\ r.order = Cardinality(Owned(vol, i))
       /\ \A v \in Owned(vol, i) : vol[v].order < r.order
  /\ r.pc = "telling" => r.paths = Orders(vol, i)
  /\ r.pc = "loaded" /\ r.op = "start" => r.paths = boots[i]
  /\ r.pc # "idle" /\ r.op \in {"attach", "detach"} => qemu[i] # "on"
  /\ r.pc = "destroyed" => qemu[i] = "absent"
  /\ inst[i] = "Stopped" /\ qemu[i] = "on" => r.pc = "booting"
  /\ qemu[i] = "on" => open[i] = boots[i]

\* Nobody but q works on i.
Alone(i, q) == \A p \in Request \ {q} : i \notin req[p].on

\* Either nobody works on i, or one request does.
Followed(i) ==
  /\ (\A q \in Request : i \notin req[q].on) => Course(i, NoRequest)
  /\ \A q \in Request : i \in req[q].on => Course(i, req[q])

EngineFollows == \A i \in Instance : Clean(i) => Followed(i)

\* A step that does not touch i, or its volumes.
SameRows(i) ==
  /\ Owned(vol', i) = Owned(vol, i)
  /\ \A v \in Owned(vol, i) : vol'[v].order = vol[v].order
SameMachine(i) ==
  inst'[i] = inst[i] /\ qemu'[i] = qemu[i] /\ boots'[i] = boots[i] /\ open'[i] = open[i]

LEMMA RowsStay ==
  ASSUME NEW i, SameRows(i)
  PROVE  /\ Distinct(vol, i) => Distinct(vol', i)
         /\ Numbered(vol, i) => Numbered(vol', i)
         /\ Orders(vol', i) = Orders(vol, i)
<1>1. (Distinct(vol, i) => Distinct(vol', i)) /\ (Numbered(vol, i) => Numbered(vol', i))
  BY Untouched DEF SameRows
<1>2. Orders(vol', i) = Orders(vol, i)
  BY DEF SameRows, Orders
<1> QED  BY <1>1, <1>2

LEMMA CourseStays ==
  ASSUME NEW i, NEW r, Course(i, r), SameRows(i), SameMachine(i)
  PROVE  Course(i, r)'
<1>1. /\ Distinct(vol, i) => Distinct(vol', i)
      /\ Numbered(vol, i) => Numbered(vol', i)
      /\ Orders(vol', i) = Orders(vol, i)
  BY RowsStay
<1> QED  BY <1>1 DEF Course, SameRows, SameMachine

LEMMA FollowedStays ==
  ASSUME NEW i, Followed(i), SameRows(i), SameMachine(i),
         \A p \in Request : \/ i \notin req[p].on /\ i \notin req'[p].on
                            \/ req'[p] = req[p]
  PROVE  Followed(i)'
<1>1. ASSUME \A q \in Request : i \notin req'[q].on  PROVE  Course(i, NoRequest)'
  <2>1. Course(i, NoRequest)
    BY <1>1 DEF Followed
  <2> QED  BY <2>1, CourseStays
<1>2. ASSUME NEW q \in Request, i \in req'[q].on  PROVE  Course(i, req[q])'
  <2>1. PICK r : r = req[q] /\ r = req'[q]
    BY <1>2
  <2>2. Course(i, r)
    BY <1>2, <2>1 DEF Followed
  <2>3. Course(i, r)'
    BY <2>2, CourseStays
  <2> QED  BY <2>1, <2>3 DEF Course
<1> QED  BY <1>1, <1>2 DEF Followed

LEMMA InTurn ==
  ASSUME Overlaps, EngineFollows, NEW q \in Request, NEW i \in Instance, i \in req[q].on, Clean(i)
  PROVE  Alone(i, q) /\ Course(i, req[q])
BY DEF Overlaps, EngineFollows, Followed, Alone, Clean

\* A turn of q: the instances q does not work on are left alone, and the
\* one it works on stays on its course.
LEMMA TurnFollows ==
  ASSUME Overlaps, EngineFollows, NEW q \in Request, Turned(q, Stage),
         raced \subseteq raced', astray \subseteq astray',
         \A i \in Instance \ req[q].on : SameMachine(i) /\ (Clean(i) => SameRows(i)),
         \A i \in Instance \intersect req[q].on :
           Clean(i) /\ Clean(i)' /\ Alone(i, q) /\ Course(i, req[q]) =>
             /\ i \in req'[q].on => Course(i, req[q])'
             /\ i \notin req'[q].on => Course(i, NoRequest)'
  PROVE  EngineFollows'
<1> SUFFICES ASSUME NEW i \in Instance, Clean(i)'  PROVE Followed(i)'
  BY DEF EngineFollows
<1>1. Clean(i)
  BY DEF Clean
<1>2. /\ \A p \in Request \ {q} : req'[p] = req[p]
      /\ i \notin req[q].on => i \notin req'[q].on
  BY DEF Turned, Reaches, Becomes, NoRequest
<1>3. CASE i \notin req[q].on
  BY <1>1, <1>2, <1>3, FollowedStays DEF EngineFollows
<1>4. CASE i \in req[q].on
  <2>1. Alone(i, q) /\ Course(i, req[q])
    BY <1>1, <1>4, InTurn
  <2>2. /\ i \in req'[q].on => Course(i, req[q])'
        /\ i \notin req'[q].on => Course(i, NoRequest)'
    BY <1>1, <1>4, <2>1
  <2>3. \A p \in Request \ {q} : i \notin req'[p].on
    BY <1>2, <2>1 DEF Alone
  <2> QED  BY <2>2, <2>3 DEF Followed
<1> QED  BY <1>3, <1>4

\* What a turn needs to know of the request, and where it takes it.
LEMMA Turning ==
  ASSUME TypeOK, Purposes, NEW q \in Request, NEW pc \in Stage \ {"idle", "loaded"},
         req[q].pc # "idle", Turned(q, {pc})
  PROVE  /\ Turned(q, Stage)
         /\ \A i \in Instance \intersect req[q].on : i = req[q].i /\ req[q].op \in {"attach", "detach", "start", "stop", "terminate"}
         /\ \/ Becomes(q, NoRequest) /\ req'[q] = NoRequest
            \/ Reaches(q, pc) /\ req'[q].on = req[q].on
<1>1. Purpose(req[q]) /\ req[q] \in RequestRecord
  BY DEF Purposes, TypeOK
<1>2. \A i \in Instance \intersect req[q].on : i = req[q].i /\ req[q].op \in {"attach", "detach", "start", "stop", "terminate"}
  <2>1. req[q].op \in {"attach", "detach", "delete", "start", "stop", "terminate", "restore"}
    BY <1>1 DEF RequestRecord
  <2> QED  BY <1>1, <2>1, VolumesAssumption DEF Purpose
<1>3. Turned(q, Stage)
  BY DEF Turned
<1> QED  BY <1>2, <1>3 DEF Turned, Reaches, Becomes

LEMMA SpawnFollows ==
  ASSUME TypeOK, Purposes, Overlaps, EngineFollows, NEW q \in Request, Spawn(q)
  PROVE  EngineFollows'
<1> USE DEF machines, disks, shots, history
<1>1. /\ vol' = vol /\ raced' = raced /\ astray \subseteq astray'
      /\ Turned(q, {"booting"}) /\ req[q].pc # "idle" /\ Purpose(req[q])
  BY Turns DEF Spawn, At, Turned, Purposes
<1>2. /\ Turned(q, Stage)
      /\ \A i \in Instance \intersect req[q].on : i = req[q].i
      /\ \/ Becomes(q, NoRequest) /\ req'[q] = NoRequest
         \/ Reaches(q, "booting") /\ req'[q].on = req[q].on
  BY <1>1, Turning DEF Stage
<1>3. \A i \in Instance : SameRows(i)
  BY <1>1 DEF SameRows
<1>4. \A i \in Instance \ req[q].on : SameMachine(i)
  BY <1>1 DEF Spawn, SameMachine, At, Purpose, TypeOK
<1>5. ASSUME NEW i \in Instance \intersect req[q].on, Clean(i)', Course(i, req[q])
      PROVE  /\ i \in req'[q].on => Course(i, req[q])'
             /\ i \notin req'[q].on => Course(i, NoRequest)'
  <2>1. /\ req[q].pc = "loaded" /\ req[q].op = "start" /\ inst' = inst
        /\ qemu[i] = "off" /\ qemu'[i] = "on" /\ open'[i] = req[q].paths /\ boots'[i] = req[q].paths
    BY <1>2 DEF Spawn, At, TypeOK
  <2>2. Reaches(q, "booting")
    BY <1>1, <2>1, GoToReaches DEF Spawn, TypeOK, Requests, Stage
  <2>3. Course(i, req[q])'
    BY <1>1, <1>5, <2>1, <2>2 DEF Course, Behind, Reaches
  <2> QED  BY <1>2, <2>2, <2>3 DEF Reaches
<1> QED  BY <1>1, <1>2, <1>3, <1>4, <1>5, TurnFollows

LEMMA FindRunningFollows ==
  ASSUME TypeOK, Purposes, Overlaps, EngineFollows, NEW q \in Request, FindRunning(q)
  PROVE  EngineFollows'
<1> USE DEF machines, disks, shots, history
<1>1. /\ vol' = vol /\ raced' = raced /\ astray \subseteq astray'
      /\ Turned(q, {"booting"}) /\ req[q].pc # "idle" /\ Purpose(req[q])
  BY Turns DEF FindRunning, At, Turned, Purposes
<1>2. /\ Turned(q, Stage)
      /\ \A i \in Instance \intersect req[q].on : i = req[q].i
      /\ \/ Becomes(q, NoRequest) /\ req'[q] = NoRequest
         \/ Reaches(q, "booting") /\ req'[q].on = req[q].on
  BY <1>1, Turning DEF Stage
<1>3. \A i \in Instance : SameRows(i)
  BY <1>1 DEF SameRows
<1>4. \A i \in Instance \ req[q].on : SameMachine(i)
  BY <1>1 DEF FindRunning, SameMachine, At, Purpose, TypeOK
<1>5. ASSUME NEW i \in Instance \intersect req[q].on, Clean(i)', Course(i, req[q])
      PROVE  /\ i \in req'[q].on => Course(i, req[q])'
             /\ i \notin req'[q].on => Course(i, NoRequest)'
  BY <1>1, <1>2, <1>3, <1>5 DEF FindRunning, At, Purpose, TypeOK, Course, Behind, NoRequest,
     Reaches, Becomes
<1> QED  BY <1>1, <1>2, <1>3, <1>4, <1>5, TurnFollows

LEMMA SpawnFailsFollows ==
  ASSUME TypeOK, Purposes, Overlaps, EngineFollows, NEW q \in Request, SpawnFails(q)
  PROVE  EngineFollows'
<1> USE DEF machines, disks, shots, history
<1>1. /\ vol' = vol /\ raced' = raced /\ astray \subseteq astray'
      /\ Turned(q, {"booting"}) /\ req[q].pc # "idle" /\ Purpose(req[q])
  BY Turns DEF SpawnFails, At, Turned, Purposes
<1>2. /\ Turned(q, Stage)
      /\ \A i \in Instance \intersect req[q].on : i = req[q].i
      /\ \/ Becomes(q, NoRequest) /\ req'[q] = NoRequest
         \/ Reaches(q, "booting") /\ req'[q].on = req[q].on
  BY <1>1, Turning DEF Stage
<1>3. \A i \in Instance : SameRows(i)
  BY <1>1 DEF SameRows
<1>4. \A i \in Instance \ req[q].on : SameMachine(i)
  BY <1>1 DEF SpawnFails, SameMachine, At, Purpose, TypeOK
<1>5. ASSUME NEW i \in Instance \intersect req[q].on, Clean(i)', Course(i, req[q])
      PROVE  /\ i \in req'[q].on => Course(i, req[q])'
             /\ i \notin req'[q].on => Course(i, NoRequest)'
  BY <1>1, <1>2, <1>3, <1>5 DEF SpawnFails, At, Purpose, TypeOK, Course, Behind, NoRequest,
     Reaches, Becomes
<1> QED  BY <1>1, <1>2, <1>3, <1>4, <1>5, TurnFollows

LEMMA EndStartFollows ==
  ASSUME TypeOK, Purposes, Overlaps, EngineFollows, NEW q \in Request, EndStart(q)
  PROVE  EngineFollows'
<1> USE DEF machines, disks, shots, history
<1>1. /\ vol' = vol /\ raced' = raced /\ astray \subseteq astray'
      /\ Turned(q, {"booting"}) /\ req[q].pc # "idle" /\ Purpose(req[q])
  BY Turns DEF EndStart, At, Turned, Purposes
<1>2. /\ Turned(q, Stage)
      /\ \A i \in Instance \intersect req[q].on : i = req[q].i
      /\ \/ Becomes(q, NoRequest) /\ req'[q] = NoRequest
         \/ Reaches(q, "booting") /\ req'[q].on = req[q].on
  BY <1>1, Turning DEF Stage
<1>3. \A i \in Instance : SameRows(i)
  BY <1>1 DEF SameRows
<1>4. \A i \in Instance \ req[q].on : SameMachine(i)
  BY <1>1 DEF EndStart, SameMachine, At, Purpose, TypeOK, SaveStatus, Reported
<1>5. ASSUME NEW i \in Instance \intersect req[q].on, Clean(i)', Course(i, req[q])
      PROVE  /\ i \in req'[q].on => Course(i, req[q])'
             /\ i \notin req'[q].on => Course(i, NoRequest)'
  BY <1>1, <1>2, <1>3, <1>5 DEF EndStart, At, Purpose, TypeOK, Course, Behind, NoRequest,
     Reaches, Becomes, SaveStatus, Reported
<1> QED  BY <1>1, <1>2, <1>3, <1>4, <1>5, TurnFollows

LEMMA BootFailsFollows ==
  ASSUME TypeOK, Purposes, Overlaps, EngineFollows, NEW q \in Request, BootFails(q)
  PROVE  EngineFollows'
<1> USE DEF machines, disks, shots, history
<1>1. /\ vol' = vol /\ raced' = raced /\ astray \subseteq astray'
      /\ Turned(q, {"booting"}) /\ req[q].pc # "idle" /\ Purpose(req[q])
  BY Turns DEF BootFails, At, Turned, Purposes
<1>2. /\ Turned(q, Stage)
      /\ \A i \in Instance \intersect req[q].on : i = req[q].i
      /\ \/ Becomes(q, NoRequest) /\ req'[q] = NoRequest
         \/ Reaches(q, "booting") /\ req'[q].on = req[q].on
  BY <1>1, Turning DEF Stage
<1>3. \A i \in Instance : SameRows(i)
  BY <1>1 DEF SameRows
<1>4. \A i \in Instance \ req[q].on : SameMachine(i)
  BY <1>1 DEF BootFails, SameMachine, At, Purpose, TypeOK
<1>5. ASSUME NEW i \in Instance \intersect req[q].on, Clean(i)', Course(i, req[q])
      PROVE  /\ i \in req'[q].on => Course(i, req[q])'
             /\ i \notin req'[q].on => Course(i, NoRequest)'
  BY <1>1, <1>2, <1>3, <1>5 DEF BootFails, At, Purpose, TypeOK, Course, Behind, NoRequest,
     Reaches, Becomes
<1> QED  BY <1>1, <1>2, <1>3, <1>4, <1>5, TurnFollows

LEMMA HaltFollows ==
  ASSUME TypeOK, Purposes, Overlaps, EngineFollows, NEW q \in Request, Halt(q)
  PROVE  EngineFollows'
<1> USE DEF machines, disks, shots, history
<1>1. /\ vol' = vol /\ raced' = raced /\ astray \subseteq astray'
      /\ Turned(q, {"halted"}) /\ req[q].pc # "idle" /\ Purpose(req[q])
  BY Turns DEF Halt, At, Turned, Purposes
<1>2. /\ Turned(q, Stage)
      /\ \A i \in Instance \intersect req[q].on : i = req[q].i
      /\ \/ Becomes(q, NoRequest) /\ req'[q] = NoRequest
         \/ Reaches(q, "halted") /\ req'[q].on = req[q].on
  BY <1>1, Turning DEF Stage
<1>3. \A i \in Instance : SameRows(i)
  BY <1>1 DEF SameRows
<1>4. \A i \in Instance \ req[q].on : SameMachine(i)
  BY <1>1 DEF Halt, SameMachine, At, Purpose, TypeOK, SwitchOff
<1>5. ASSUME NEW i \in Instance \intersect req[q].on, Clean(i)', Course(i, req[q])
      PROVE  /\ i \in req'[q].on => Course(i, req[q])'
             /\ i \notin req'[q].on => Course(i, NoRequest)'
  BY <1>1, <1>2, <1>3, <1>5 DEF Halt, At, Purpose, TypeOK, Course, Behind, NoRequest, Reaches,
     Becomes, SwitchOff
<1> QED  BY <1>1, <1>2, <1>3, <1>4, <1>5, TurnFollows

LEMMA EndStopFollows ==
  ASSUME TypeOK, Purposes, Overlaps, EngineFollows, NEW q \in Request, EndStop(q)
  PROVE  EngineFollows'
<1> USE DEF machines, disks, shots, history
<1>1. /\ vol' = vol /\ raced' = raced /\ astray \subseteq astray'
      /\ Turned(q, {"halted"}) /\ req[q].pc # "idle" /\ Purpose(req[q])
  BY Turns DEF EndStop, At, Turned, Purposes
<1>2. /\ Turned(q, Stage)
      /\ \A i \in Instance \intersect req[q].on : i = req[q].i
      /\ \/ Becomes(q, NoRequest) /\ req'[q] = NoRequest
         \/ Reaches(q, "halted") /\ req'[q].on = req[q].on
  BY <1>1, Turning DEF Stage
<1>3. \A i \in Instance : SameRows(i)
  BY <1>1 DEF SameRows
<1>4. \A i \in Instance \ req[q].on : SameMachine(i)
  BY <1>1 DEF EndStop, SameMachine, At, Purpose, TypeOK, SaveStatus, Reported
<1>5. ASSUME NEW i \in Instance \intersect req[q].on, Clean(i)', Course(i, req[q])
      PROVE  /\ i \in req'[q].on => Course(i, req[q])'
             /\ i \notin req'[q].on => Course(i, NoRequest)'
  BY <1>1, <1>2, <1>3, <1>5 DEF EndStop, At, Purpose, TypeOK, Course, Behind, NoRequest, Reaches,
     Becomes, SaveStatus, Reported
<1> QED  BY <1>1, <1>2, <1>3, <1>4, <1>5, TurnFollows

LEMMA DestroyFollows ==
  ASSUME TypeOK, Purposes, Overlaps, EngineFollows, NEW q \in Request, Destroy(q)
  PROVE  EngineFollows'
<1> USE DEF machines, disks, shots, history
<1>1. /\ vol' = vol /\ raced' = raced /\ astray \subseteq astray'
      /\ Turned(q, {"destroyed"}) /\ req[q].pc # "idle" /\ Purpose(req[q])
  BY Turns DEF Destroy, At, Turned, Purposes
<1>2. /\ Turned(q, Stage)
      /\ \A i \in Instance \intersect req[q].on : i = req[q].i
      /\ \/ Becomes(q, NoRequest) /\ req'[q] = NoRequest
         \/ Reaches(q, "destroyed") /\ req'[q].on = req[q].on
  BY <1>1, Turning DEF Stage
<1>3. \A i \in Instance : SameRows(i)
  BY <1>1 DEF SameRows
<1>4. \A i \in Instance \ req[q].on : SameMachine(i)
  BY <1>1 DEF Destroy, SameMachine, At, Purpose, TypeOK, Remove
<1>5. ASSUME NEW i \in Instance \intersect req[q].on, Clean(i)', Course(i, req[q])
      PROVE  /\ i \in req'[q].on => Course(i, req[q])'
             /\ i \notin req'[q].on => Course(i, NoRequest)'
  BY <1>1, <1>2, <1>3, <1>5 DEF Destroy, At, Purpose, TypeOK, Course, Behind, NoRequest, Reaches,
     Becomes, Remove
<1> QED  BY <1>1, <1>2, <1>3, <1>4, <1>5, TurnFollows

LEMMA DestroyFailsFollows ==
  ASSUME TypeOK, Purposes, Overlaps, EngineFollows, NEW q \in Request, DestroyFails(q)
  PROVE  EngineFollows'
<1> USE DEF machines, disks, shots, history
<1>1. /\ vol' = vol /\ raced' = raced /\ astray \subseteq astray'
      /\ Turned(q, {"destroyed"}) /\ req[q].pc # "idle" /\ Purpose(req[q])
  BY Turns DEF DestroyFails, At, Turned, Purposes
<1>2. /\ Turned(q, Stage)
      /\ \A i \in Instance \intersect req[q].on : i = req[q].i
      /\ \/ Becomes(q, NoRequest) /\ req'[q] = NoRequest
         \/ Reaches(q, "destroyed") /\ req'[q].on = req[q].on
  BY <1>1, Turning DEF Stage
<1>3. \A i \in Instance : SameRows(i)
  BY <1>1 DEF SameRows
<1>4. \A i \in Instance \ req[q].on : SameMachine(i)
  BY <1>1 DEF DestroyFails, SameMachine, At, Purpose, TypeOK, SwitchOff, Remove
<1>5. ASSUME NEW i \in Instance \intersect req[q].on, Clean(i)', Course(i, req[q])
      PROVE  /\ i \in req'[q].on => Course(i, req[q])'
             /\ i \notin req'[q].on => Course(i, NoRequest)'
  <2>1. i \in astray'
    BY <1>2 DEF DestroyFails
  <2> QED  BY <1>5, <2>1 DEF Clean
<1> QED  BY <1>1, <1>2, <1>3, <1>4, <1>5, TurnFollows

LEMMA ReadPathsFollows ==
  ASSUME TypeOK, Purposes, Overlaps, EngineFollows, NEW q \in Request, ReadPaths(q)
  PROVE  EngineFollows'
<1> USE DEF machines, disks, shots, history
<1>1. /\ vol' = vol /\ raced' = raced /\ astray \subseteq astray'
      /\ Turned(q, {"telling"}) /\ req[q].pc # "idle" /\ Purpose(req[q])
  BY Turns DEF ReadPaths, At, Turned, Purposes
<1>2. /\ Turned(q, Stage)
      /\ \A i \in Instance \intersect req[q].on : i = req[q].i
      /\ \/ Becomes(q, NoRequest) /\ req'[q] = NoRequest
         \/ Reaches(q, "telling") /\ req'[q].on = req[q].on
  BY <1>1, Turning DEF Stage
<1>3. \A i \in Instance : SameRows(i)
  BY <1>1 DEF SameRows
<1>4. \A i \in Instance \ req[q].on : SameMachine(i)
  BY <1>1 DEF ReadPaths, SameMachine, At, Purpose, TypeOK
<1>5. ASSUME NEW i \in Instance \intersect req[q].on, Clean(i)', Course(i, req[q])
      PROVE  /\ i \in req'[q].on => Course(i, req[q])'
             /\ i \notin req'[q].on => Course(i, NoRequest)'
  <2>1. /\ AttachedPaths(i) = Orders(vol, i) /\ req[q].pc = "pushing"
        /\ Reaches(q, "telling") /\ req'[q].paths = AttachedPaths(i)
    <3>1. vol \in Table /\ i \in Instance /\ req[q].pc = "pushing" /\ i = req[q].i
      BY <1>2 DEF TypeOK, Table, ReadPaths
    <3>2. AttachedTo(i) = Owned(vol, i) /\ \A v \in Owned(vol, i) : Place(i, v) = vol[v].order
      BY <1>5, <3>1, PathsListed DEF Course, Numbered, Owned
    <3>3. req'[q].paths = AttachedPaths(i) /\ req'[q].pc = "telling"
      BY <3>1 DEF ReadPaths, TypeOK, RequestRecord
    <3> QED  BY <1>2, <3>1, <3>2, <3>3 DEF AttachedPaths, Orders, Becomes, NoRequest
  <2> QED  BY <1>1, <1>2, <1>5, <2>1 DEF ReadPaths, Purpose, Course, Behind, Reaches
<1> QED  BY <1>1, <1>2, <1>3, <1>4, <1>5, TurnFollows

LEMMA SetVolumesFollows ==
  ASSUME TypeOK, Purposes, Overlaps, EngineFollows, NEW q \in Request, SetVolumes(q)
  PROVE  EngineFollows'
<1> USE DEF machines, disks, shots, history
<1>1. /\ vol' = vol /\ raced' = raced /\ astray \subseteq astray'
      /\ Turned(q, {"telling"}) /\ req[q].pc # "idle" /\ Purpose(req[q])
  BY Turns DEF SetVolumes, At, Turned, Purposes
<1>2. /\ Turned(q, Stage)
      /\ \A i \in Instance \intersect req[q].on : i = req[q].i
      /\ \/ Becomes(q, NoRequest) /\ req'[q] = NoRequest
         \/ Reaches(q, "telling") /\ req'[q].on = req[q].on
  BY <1>1, Turning DEF Stage
<1>3. \A i \in Instance : SameRows(i)
  BY <1>1 DEF SameRows
<1>4. \A i \in Instance \ req[q].on : SameMachine(i)
  BY <1>1 DEF SetVolumes, SameMachine, At, Purpose, TypeOK
<1>5. ASSUME NEW i \in Instance \intersect req[q].on, Clean(i)', Course(i, req[q])
      PROVE  /\ i \in req'[q].on => Course(i, req[q])'
             /\ i \notin req'[q].on => Course(i, NoRequest)'
  <2>1. /\ req[q].pc = "telling" /\ qemu' = qemu /\ inst' = inst /\ open' = open
        /\ qemu[i] # "absent" => boots'[i] = req[q].paths
    BY <1>2 DEF SetVolumes, TypeOK
  <2>2. req'[q] = NoRequest
    BY <1>1, <1>2 DEF SetVolumes, Answer, TypeOK
  <2>3. Course(i, NoRequest)'
    BY <1>1, <1>5, <2>1, <2>2 DEF Purpose, Course, Behind, NoRequest
  <2> QED  BY <2>2, <2>3 DEF NoRequest
<1> QED  BY <1>1, <1>2, <1>3, <1>4, <1>5, TurnFollows

LEMMA SetVolumesFailsFollows ==
  ASSUME TypeOK, Purposes, Overlaps, EngineFollows, NEW q \in Request, SetVolumesFails(q)
  PROVE  EngineFollows'
<1> USE DEF machines, disks, shots, history
<1>1. /\ vol' = vol /\ raced' = raced /\ astray \subseteq astray'
      /\ Turned(q, {"telling"}) /\ req[q].pc # "idle" /\ Purpose(req[q])
  BY Turns DEF SetVolumesFails, At, Turned, Purposes
<1>2. /\ Turned(q, Stage)
      /\ \A i \in Instance \intersect req[q].on : i = req[q].i
      /\ \/ Becomes(q, NoRequest) /\ req'[q] = NoRequest
         \/ Reaches(q, "telling") /\ req'[q].on = req[q].on
  BY <1>1, Turning DEF Stage
<1>3. \A i \in Instance : SameRows(i)
  BY <1>1 DEF SameRows
<1>4. \A i \in Instance \ req[q].on : SameMachine(i)
  BY <1>1 DEF SetVolumesFails, SameMachine, At, Purpose, TypeOK
<1>5. ASSUME NEW i \in Instance \intersect req[q].on, Clean(i)', Course(i, req[q])
      PROVE  /\ i \in req'[q].on => Course(i, req[q])'
             /\ i \notin req'[q].on => Course(i, NoRequest)'
  <2>1. i \in astray'
    BY <1>2 DEF SetVolumesFails
  <2> QED  BY <1>5, <2>1 DEF Clean
<1> QED  BY <1>1, <1>2, <1>3, <1>4, <1>5, TurnFollows

LEMMA UnlinkFollows ==
  ASSUME TypeOK, Purposes, Overlaps, EngineFollows, NEW q \in Request, Unlink(q)
  PROVE  EngineFollows'
<1> USE DEF machines, disks, shots, history
<1>1. /\ vol' = vol /\ raced' = raced /\ astray \subseteq astray'
      /\ Turned(q, {"unlinked"}) /\ req[q].pc # "idle" /\ Purpose(req[q])
  BY Turns DEF Unlink, At, Turned, Purposes
<1>2. /\ Turned(q, Stage)
      /\ \A i \in Instance \intersect req[q].on : i = req[q].i
      /\ \/ Becomes(q, NoRequest) /\ req'[q] = NoRequest
         \/ Reaches(q, "unlinked") /\ req'[q].on = req[q].on
  BY <1>1, Turning DEF Stage
<1>3. \A i \in Instance : SameRows(i)
  BY <1>1 DEF SameRows
<1>4. \A i \in Instance \ req[q].on : SameMachine(i)
  BY <1>1 DEF Unlink, SameMachine, At, Purpose, TypeOK
<1>5. ASSUME NEW i \in Instance \intersect req[q].on, Clean(i)', Course(i, req[q])
      PROVE  /\ i \in req'[q].on => Course(i, req[q])'
             /\ i \notin req'[q].on => Course(i, NoRequest)'
  BY <1>1, <1>2, <1>3, <1>5 DEF Unlink, At, Purpose, TypeOK, Course, Behind, NoRequest, Reaches, Becomes
<1> QED  BY <1>1, <1>2, <1>3, <1>4, <1>5, TurnFollows

LEMMA EndRestoreFollows ==
  ASSUME TypeOK, Purposes, Overlaps, EngineFollows, NEW q \in Request, EndRestore(q)
  PROVE  EngineFollows'
<1> USE DEF machines, disks, shots, history
<1>1. /\ vol' = vol /\ raced' = raced /\ astray \subseteq astray'
      /\ Turned(q, {"restoring"}) /\ req[q].pc # "idle" /\ Purpose(req[q])
  BY Turns DEF EndRestore, At, Turned, Purposes
<1>2. /\ Turned(q, Stage)
      /\ \A i \in Instance \intersect req[q].on : i = req[q].i
      /\ \/ Becomes(q, NoRequest) /\ req'[q] = NoRequest
         \/ Reaches(q, "restoring") /\ req'[q].on = req[q].on
  BY <1>1, Turning DEF Stage
<1>3. \A i \in Instance : SameRows(i)
  BY <1>1 DEF SameRows
<1>4. \A i \in Instance \ req[q].on : SameMachine(i)
  BY <1>1 DEF EndRestore, SameMachine, At, Purpose, TypeOK
<1>5. ASSUME NEW i \in Instance \intersect req[q].on, Clean(i)', Course(i, req[q])
      PROVE  /\ i \in req'[q].on => Course(i, req[q])'
             /\ i \notin req'[q].on => Course(i, NoRequest)'
  BY <1>1, <1>2, <1>3, <1>5 DEF EndRestore, At, Purpose, TypeOK, Course, Behind, NoRequest,
     Reaches, Becomes
<1> QED  BY <1>1, <1>2, <1>3, <1>4, <1>5, TurnFollows

LEMMA CommitAttachFollows ==
  ASSUME TypeOK, TypeOK', Purposes, Overlaps, Meetings, EngineFollows, NEW q \in Request, CommitAttach(q)
  PROVE  EngineFollows'
<1> DEFINE v == req[q].v
<1>1. /\ UNCHANGED machines /\ raced' = raced /\ astray' = astray
      /\ At(q, "attach", "loaded") /\ Purpose(req[q])
      /\ req[q].on = {v, req[q].i} /\ v \in Volume /\ req[q].i \in Instance
      /\ vol \in Table /\ vol' \in Table
      /\ Turned(q, {"pushing"})
  BY Turns DEF CommitAttach, history, At, Purposes, Purpose, TypeOK, Table
<1>2. /\ Turned(q, Stage)
      /\ \A i \in Instance \intersect req[q].on : i = req[q].i
      /\ \/ Becomes(q, NoRequest) /\ req'[q] = NoRequest
         \/ Reaches(q, "pushing") /\ req'[q].on = req[q].on
  BY <1>1, Turning DEF Stage, At
<1>3. \A i \in Instance : SameMachine(i)
  BY <1>1 DEF machines, SameMachine
<1>4. ASSUME NEW i \in Instance \ req[q].on, Clean(i)  PROVE SameRows(i)
  <2>1. i # req[q].i /\ i # v /\ i \notin raced /\ i # Nobody
    BY <1>1, <1>4, VolumesAssumption DEF Clean
  <2>2. vol[v].owner # i
    BY <1>1, <2>1, <1>4, VolumesAssumption DEF Meetings, Held, TypeOK
  <2>3. /\ \A w \in Volume \ {v} : vol'[w] = vol[w]
        /\ vol'[v] = vol[v] \/ vol'[v].owner = req[q].i
    BY <1>1 DEF CommitAttach, Table
  <2> QED  BY <2>1, <2>2, <2>3 DEF SameRows, Owned
<1>5. ASSUME NEW i \in Instance \intersect req[q].on, Clean(i), Course(i, req[q])
      PROVE  /\ i \in req'[q].on => Course(i, req[q])'
             /\ i \notin req'[q].on => Course(i, NoRequest)'
  <2>1. i = req[q].i /\ i # Nobody /\ vol[v].st = "Available" /\ vol[v].owner = Nobody
    BY <1>1, <1>2, <1>5, VolumesAssumption DEF Clean, Meetings, Meant, TypeOK
  <2>2. /\ \A w \in Volume \ {v} : vol'[w] = vol[w]
        /\ vol'[v].owner = i /\ vol'[v].order = req[q].order
        /\ GoTo(q, "pushing")
    BY <1>1, <2>1 DEF CommitAttach, Table, Exists
  <2>3. /\ Numbered(vol, i) /\ Distinct(vol, i) /\ v \notin Owned(vol, i)
        /\ req[q].order = Cardinality(Owned(vol, i))
        /\ \A w \in Owned(vol, i) : vol[w].order < req[q].order
    BY <1>1, <1>5, <2>1 DEF Course, At, Owned
  <2>4. Numbered(vol', i) /\ Distinct(vol', i)
    BY <1>1, <2>2, <2>3, Appended
  <2>5. Reaches(q, "pushing")
    BY <2>2, GoToReaches DEF TypeOK, Requests, Stage
  <2>6. Course(i, req[q])'
    BY <1>1, <1>3, <1>5, <2>4, <2>5 DEF Course, SameMachine, Reaches, Behind, At
  <2> QED  BY <1>5, <2>5, <2>6 DEF Reaches
<1> QED  BY <1>1, <1>2, <1>3, <1>4, <1>5, TurnFollows

LEMMA CommitDetachFollows ==
  ASSUME TypeOK, Purposes, Overlaps, Meetings, EngineFollows, NEW q \in Request, CommitDetach(q)
  PROVE  EngineFollows'
<1> DEFINE v == req[q].v
<1>1. /\ UNCHANGED machines /\ raced' = raced /\ astray' = astray
      /\ At(q, "detach", "loaded") /\ Purpose(req[q])
      /\ req[q].on = {v, req[q].i} /\ v \in Volume /\ req[q].i \in Instance
      /\ vol \in Table /\ Turned(q, {"compacting"})
      /\ \A w \in Volume \ {v} : vol'[w] = vol[w]
      /\ vol'[v] = vol[v] \/ vol'[v].owner = Nobody
  BY Turns DEF CommitDetach, history, At, Purposes, Purpose, TypeOK, Table, Loose
<1>2. /\ Turned(q, Stage)
      /\ \A i \in Instance \intersect req[q].on : i = req[q].i
      /\ \/ Becomes(q, NoRequest) /\ req'[q] = NoRequest
         \/ Reaches(q, "compacting") /\ req'[q].on = req[q].on
  BY <1>1, Turning DEF Stage, At
<1>3. \A i \in Instance : SameMachine(i)
  BY <1>1 DEF machines, SameMachine
<1>4. ASSUME NEW i \in Instance \ req[q].on, Clean(i)  PROVE SameRows(i)
  <2>1. i # req[q].i /\ i # v /\ i \notin raced /\ i # Nobody
    BY <1>1, <1>4, VolumesAssumption DEF Clean
  <2>2. vol[v].owner # i
    BY <1>1, <2>1, <1>4, VolumesAssumption DEF Meetings, Held, TypeOK
  <2> QED  BY <1>1, <2>1, <2>2 DEF SameRows, Owned
<1>5. ASSUME NEW i \in Instance \intersect req[q].on, Clean(i), Course(i, req[q])
      PROVE  /\ i \in req'[q].on => Course(i, req[q])'
             /\ i \notin req'[q].on => Course(i, NoRequest)'
  <2>1. i = req[q].i /\ i # Nobody /\ vol[v].st = "Attached" /\ vol[v].owner = i
    BY <1>1, <1>2, <1>5, VolumesAssumption DEF Clean, Meetings, Meant, TypeOK
  <2>2. GoTo(q, "compacting")
    BY <2>1 DEF CommitDetach, Exists
  <2>3. Owned(vol', i) \subseteq Owned(vol, i) /\ \A w \in Owned(vol', i) : vol'[w].order = vol[w].order
    BY <1>1, <2>1 DEF Owned
  <2>4. Distinct(vol', i)
    BY <1>5, <2>3, Untouched DEF Course
  <2>5. Reaches(q, "compacting")
    BY <2>2, GoToReaches DEF TypeOK, Requests, Stage
  <2>6. Course(i, req[q])'
    BY <1>1, <1>3, <1>5, <2>4, <2>5 DEF Course, SameMachine, Reaches, Behind, At
  <2> QED  BY <1>5, <2>5, <2>6 DEF Reaches
<1> QED  BY <1>1, <1>2, <1>3, <1>4, <1>5, TurnFollows

LEMMA CompactFollows ==
  ASSUME TypeOK, TypeOK', Purposes, Overlaps, EngineFollows, NEW q \in Request, Compact(q)
  PROVE  EngineFollows'
<1>1. /\ UNCHANGED machines /\ raced' = raced /\ astray' = astray
      /\ req[q].pc = "compacting" /\ Purpose(req[q]) /\ req[q].i \in Instance /\ req[q].i \in req[q].on
      /\ vol \in Table /\ vol' \in Table /\ Turned(q, {"pushing"}) /\ GoTo(q, "pushing")
  BY Turns DEF Compact, history, Purposes, Purpose, TypeOK, Table
<1>2. /\ Turned(q, Stage)
      /\ \A i \in Instance \intersect req[q].on : i = req[q].i
      /\ \/ Becomes(q, NoRequest) /\ req'[q] = NoRequest
         \/ Reaches(q, "pushing") /\ req'[q].on = req[q].on
  BY <1>1, Turning DEF Stage
<1>3. \A i \in Instance : SameMachine(i)
  BY <1>1 DEF machines, SameMachine
<1>4. \A w \in Volume : /\ vol'[w].owner = vol[w].owner
                        /\ vol[w].owner # req[q].i => vol'[w] = vol[w]
                        /\ vol[w].owner = req[q].i => vol'[w].order = Rank(vol, req[q].i, w)
  <2>1. \A w \in Volume : Place(req[q].i, w) = Rank(vol, req[q].i, w)
    BY <1>1, PathsListed
  <2> QED  BY <1>1, <2>1 DEF Compact, Table, VolumeRow
<1>5. ASSUME NEW i \in Instance \ req[q].on  PROVE SameRows(i)
  BY <1>1, <1>4, <1>5 DEF SameRows, Owned
<1>6. ASSUME NEW i \in Instance \intersect req[q].on, Course(i, req[q])
      PROVE  /\ i \in req'[q].on => Course(i, req[q])'
             /\ i \notin req'[q].on => Course(i, NoRequest)'
  <2>1. Numbered(vol', i) /\ Distinct(vol', i)
    <3>1. Distinct(vol, i) /\ i = req[q].i
      BY <1>2, <1>6 DEF Course
    <3>2. \A w \in Owned(vol, i) : vol'[w].order = Rank(vol, i, w)
      BY <1>4, <3>1 DEF Owned
    <3> QED  BY <1>1, <1>4, <3>1, <3>2, Renumbered
  <2>2. Reaches(q, "pushing")
    BY <1>1, GoToReaches DEF TypeOK, Requests, Stage
  <2>3. Course(i, req[q])'
    BY <1>1, <1>3, <1>6, <2>1, <2>2 DEF Course, SameMachine, Reaches, Behind, At
  <2> QED  BY <1>6, <2>2, <2>3 DEF Reaches
<1> QED  BY <1>1, <1>2, <1>3, <1>5, <1>6, TurnFollows

LEMMA RemoveRowsFollows ==
  ASSUME TypeOK, Purposes, Overlaps, Meetings, EngineFollows, NEW q \in Request, RemoveRows(q)
  PROVE  EngineFollows'
<1> DEFINE v == req[q].v
<1>1. /\ UNCHANGED machines /\ raced' = raced /\ astray' = astray
      /\ req[q].pc = "unlinked" /\ Purpose(req[q]) /\ v \in Volume /\ req[q].on = {v}
      /\ Turned(q, {})
      /\ \A w \in Volume \ {v} : vol'[w] = vol[w]
      /\ vol'[v].owner = Nobody
  BY Turns DEF RemoveRows, history, Purposes, Purpose, TypeOK, Table, Loose
<1>2. Turned(q, Stage)
  BY <1>1 DEF Turned
<1>3. \A i \in Instance : SameMachine(i)
  BY <1>1 DEF machines, SameMachine
<1>4. ASSUME NEW i \in Instance, Clean(i)  PROVE SameRows(i)
  <2>1. i # v /\ i \notin raced /\ i # Nobody
    BY <1>1, <1>4, VolumesAssumption DEF Clean
  <2>2. vol[v].owner # i
    BY <1>1, <2>1, VolumesAssumption DEF Meetings, Held, TypeOK
  <2> QED  BY <1>1, <2>1, <2>2 DEF SameRows, Owned
<1>5. Instance \intersect req[q].on = {}
  BY <1>1, VolumesAssumption
<1> QED  BY <1>1, <1>2, <1>3, <1>4, <1>5, TurnFollows

LEMMA TerminateFollows ==
  ASSUME TypeOK, Purposes, Overlaps, EngineFollows, NEW q \in Request, Terminate(q)
  PROVE  EngineFollows'
<1>1. /\ UNCHANGED <<qemu, boots, open>> /\ raced' = raced /\ astray' = astray
      /\ req[q].pc = "destroyed" /\ Purpose(req[q]) /\ req[q].i \in Instance /\ req[q].on = {req[q].i}
      /\ Turned(q, {}) /\ req'[q] = NoRequest
      /\ inst' = [inst EXCEPT ![req[q].i] = "Terminated"]
      /\ \A w \in Volume : vol'[w] = IF vol[w].owner = req[q].i THEN Loose("Available") ELSE vol[w]
  BY Turns DEF Terminate, history, Purposes, Purpose, TypeOK, Answer
<1>2. Turned(q, Stage)
  BY <1>1 DEF Turned
<1>3. \A i \in Instance \ req[q].on : SameMachine(i)
  BY <1>1 DEF SameMachine, TypeOK
<1>4. ASSUME NEW i \in Instance \ req[q].on  PROVE SameRows(i)
  BY <1>1, <1>4, VolumesAssumption DEF SameRows, Owned, Loose
<1>5. ASSUME NEW i \in Instance \intersect req[q].on, Course(i, req[q])
      PROVE  Course(i, NoRequest)'
  <2>1. i = req[q].i /\ inst'[i] = "Terminated" /\ qemu'[i] = "absent"
    BY <1>1, <1>5 DEF Course, TypeOK
  <2>2. Owned(vol', i) = {}
    BY <1>1, <2>1, VolumesAssumption DEF Owned, Loose
  <2>3. Distinct(vol', i) /\ Numbered(vol', i)
    BY <2>2 DEF Distinct, Numbered
  <2> QED  BY <2>1, <2>3 DEF Course, NoRequest
<1> QED  BY <1>1, <1>2, <1>3, <1>4, <1>5, TurnFollows DEF NoRequest

\* A request that is admitted.
LEMMA AdmissionFollows ==
  ASSUME TypeOK, Purposes, EngineFollows, NEW q \in Request, NEW r, Admitted(q, r),
         r.op = "attach" => r.order = NextPlace(vol, r.i),
         r.op = "start" => r.paths = boots[r.i],
         r.op \in {"attach", "detach"} => inst[r.i] = "Stopped"
  PROVE  EngineFollows'
<1> SUFFICES ASSUME NEW i \in Instance, Clean(i)'  PROVE Followed(i)'
  BY DEF EngineFollows
<1> USE DEF machines, disks
<1>1. /\ UNCHANGED <<inst, qemu, boots, open, vol>> /\ Purpose(r) /\ r \in RequestRecord
      /\ req'[q] = r /\ \A p \in Request \ {q} : req'[p] = req[p]
      /\ req[q].on = {} /\ Clean(i) /\ i \notin raced' /\ vol \in Table
  BY DEF Admitted, Becomes, Notes, Clean, TypeOK, Table
<1>2. Followed(i)
  BY <1>1 DEF EngineFollows
<1>3. SameRows(i) /\ SameMachine(i)
  BY <1>1 DEF SameRows, SameMachine
<1>4. CASE i \notin r.on
  BY <1>1, <1>2, <1>3, <1>4, FollowedStays
<1>5. CASE i \in r.on
  <2>1. \A p \in Request : i \notin req[p].on
    BY <1>1, <1>5 DEF Admitted, Notes
  <2>2. Course(i, NoRequest)
    BY <1>2, <2>1 DEF Followed
  <2>3. r.i = i /\ r.pc = "loaded"
    <3>1. r.op \in {"attach", "detach", "delete", "start", "stop", "terminate", "restore"}
      BY <1>1 DEF RequestRecord
    <3> QED  BY <1>1, <1>5, <3>1, VolumesAssumption DEF Purpose, Admitted
  <2>4. Numbered(vol, i) /\ Distinct(vol, i)
    BY <2>2 DEF Course, NoRequest
  <2>5. r.op = "attach" => /\ r.order = Cardinality(Owned(vol, i))
                           /\ \A v \in Owned(vol, i) : vol[v].order < r.order
    <3>1. \A v \in Owned(vol, i) : vol[v].order # NoOrder
      BY <1>1, VolumesAssumption DEF Owned, TypeOK
    <3> QED  BY <1>1, <2>3, <2>4, <3>1, NextPlaceIs
  <2>6. Course(i, r)
    BY <2>2, <2>3, <2>5 DEF Course, NoRequest, Behind
  <2>7. Course(i, r)'
    BY <1>3, <2>6, CourseStays
  <2>8. Course(i, req[q])'
    BY <1>1, <2>7 DEF Course
  <2>9. \A p \in Request \ {q} : i \notin req'[p].on
    BY <1>1, <2>1
  <2> QED  BY <1>1, <1>5, <2>8, <2>9 DEF Followed
<1> QED  BY <1>4, <1>5

LEMMA AdmissionsFollow ==
  ASSUME TypeOK, Purposes, EngineFollows, NEW q \in Request, NEW v \in Volume, NEW i \in Instance,
         NEW s \in Snapshot,
         \/ LoadAttach(q, v, i) \/ LoadDetach(q, v, i) \/ LoadDelete(q, v)
         \/ LoadStart(q, i) \/ LoadStop(q, i) \/ LoadTerminate(q, i) \/ Restore(q, s)
  PROVE  EngineFollows'
<1>1. CASE LoadAttach(q, v, i)
  <2>1. PICK r : Admitted(q, r) /\ r.op = "attach" /\ r.i = i /\ r.order = NextPlace(vol, i)
    BY <1>1, LoadAttachAdmits
  <2> QED  BY <1>1, <2>1, AdmissionFollows DEF LoadAttach
<1>2. CASE LoadDetach(q, v, i)
  <2>1. PICK r : Admitted(q, r) /\ r.op = "detach" /\ r.i = i
    BY <1>2, LoadDetachAdmits
  <2> QED  BY <1>2, <2>1, AdmissionFollows DEF LoadDetach
<1>3. CASE LoadStart(q, i)
  <2>1. PICK r : Admitted(q, r) /\ r.op = "start" /\ r.i = i /\ r.paths = boots[i]
    BY <1>3, LoadStartAdmits
  <2> QED  BY <2>1, AdmissionFollows
<1>4. CASE LoadDelete(q, v) \/ LoadStop(q, i) \/ LoadTerminate(q, i) \/ Restore(q, s)
  <2>1. PICK r : Admitted(q, r) /\ r.op \in {"delete", "stop", "terminate", "restore"}
    BY <1>4, LoadDeleteAdmits, LoadStopAdmits, LoadTerminateAdmits, RestoreAdmits
  <2> QED  BY <2>1, AdmissionFollows
<1> QED  BY <1>1, <1>2, <1>3, <1>4

\* The jobs, which neither own a volume nor look at a machine.
LEMMA JobFollows ==
  ASSUME TypeOK, Meetings, EngineFollows, NEW v \in Volume, CreateVolume(v) \/ VolumeJob(v)
  PROVE  EngineFollows'
<1> SUFFICES ASSUME NEW i \in Instance, Clean(i)'  PROVE Followed(i)'
  BY DEF EngineFollows
<1> USE DEF machines
<1>1. /\ UNCHANGED <<inst, qemu, boots, open, req>> /\ Clean(i)
      /\ \A w \in Volume \ {v} : vol'[w] = vol[w]
  BY DEF CreateVolume, VolumeJob, BeginMaking, MakeFile, RecordVolume, history, Clean, TypeOK
<1>2. /\ vol'[v].order = vol[v].order
      /\ vol'[v].owner = vol[v].owner
  BY DEF CreateVolume, VolumeJob, BeginMaking, MakeFile, RecordVolume, Loose, TypeOK, VolumeRow
<1>3. SameRows(i) /\ SameMachine(i)
  BY <1>1, <1>2 DEF SameRows, SameMachine, Owned
<1> QED  BY <1>1, <1>3, FollowedStays DEF EngineFollows

LEMMA OtherFollows ==
  ASSUME TypeOK, EngineFollows, OtherStep \/ UNCHANGED vars
  PROVE  EngineFollows'
<1> SUFFICES ASSUME NEW i \in Instance, Clean(i)'  PROVE Followed(i)'
  BY DEF EngineFollows
<1> USE DEF machines, disks, shots, history, vars
<1>1. UNCHANGED <<vol, req>> /\ Clean(i)
  BY DEF OtherStep, CreateSnapshot, DeleteSnapshot, SnapshotJob, BeginTaking, Take, RecordSnapshot,
         BeginDropping, Drop, RecordDropped, Reconcile, GuestPowersOff, Clean
<1>2. SameRows(i) /\ Followed(i)
  BY <1>1 DEF SameRows, EngineFollows
<1>3. CASE SameMachine(i)
  BY <1>1, <1>2, <1>3, FollowedStays
<1>4. CASE Reconcile(i) \/ GuestPowersOff(i)
  <2>1. \/ /\ UNCHANGED <<qemu, boots, open>>
           /\ inst'[i] = "Stopped" => qemu[i] # "on"
        \/ /\ UNCHANGED <<inst, boots>> /\ qemu[i] = "on" /\ qemu'[i] = "off"
    BY <1>4 DEF Reconcile, GuestPowersOff, Reported, SwitchOff, TypeOK
  <2>2. ASSUME NEW r, Course(i, r)  PROVE Course(i, r)'
    BY <1>1, <2>1, <2>2 DEF Course
  <2>3. (\A q \in Request : i \notin req'[q].on) => Course(i, NoRequest)'
    BY <1>1, <1>2, <2>2 DEF Followed
  <2>4. ASSUME NEW q \in Request, i \in req'[q].on  PROVE Course(i, req[q])'
    <3>1. PICK r : r = req[q] /\ r = req'[q]
      BY <1>1
    <3>2. Course(i, r)'
      BY <1>1, <1>2, <2>2, <2>4, <3>1 DEF Followed
    <3> QED  BY <3>1, <3>2 DEF Course
  <2> QED  BY <2>3, <2>4 DEF Followed
<1>5. SameMachine(i) \/ Reconcile(i) \/ GuestPowersOff(i)
  BY DEF OtherStep, CreateSnapshot, DeleteSnapshot, SnapshotJob, BeginTaking, Take, RecordSnapshot,
         BeginDropping, Drop, RecordDropped, Reconcile, GuestPowersOff, SwitchOff, SameMachine, TypeOK
<1> QED  BY <1>3, <1>4, <1>5

LEMMA CrashFollows ==
  ASSUME TypeOK, EngineFollows, Crash  PROVE EngineFollows'
<1> SUFFICES ASSUME NEW i \in Instance, Clean(i)'  PROVE Followed(i)'
  BY DEF EngineFollows
<1>1. /\ UNCHANGED <<inst, qemu, boots, open, vol>> /\ Clean(i)
      /\ \A p \in Request : req'[p].on = {} /\ i \notin req[p].on
  BY DEF Crash, machines, Clean, NoRequest
<1>2. SameRows(i) /\ SameMachine(i) /\ Followed(i)
  BY <1>1 DEF SameRows, SameMachine, EngineFollows
<1> QED  BY <1>1, <1>2, FollowedStays

LEMMA EngineFollowsSteps ==
  ASSUME TypeOK, TypeOK', Purposes, Overlaps, Meetings, EngineFollows, [Next]_vars
  PROVE  EngineFollows'
<1>1. CASE OtherStep \/ UNCHANGED vars
  BY <1>1, OtherFollows
<1>2. CASE Crash
  BY <1>2, CrashFollows
<1>3. ASSUME NEW v \in Volume, CreateVolume(v) \/ VolumeJob(v)  PROVE EngineFollows'
  BY <1>3, JobFollows
<1>4. ASSUME NEW q \in Request,
             \/ QuietTurn(q) \/ CommitAttach(q) \/ CommitDetach(q) \/ Compact(q)
             \/ RemoveRows(q) \/ Terminate(q)
      PROVE  EngineFollows'
  BY <1>4, ReadPathsFollows, SetVolumesFollows, SetVolumesFailsFollows, UnlinkFollows, SpawnFollows,
     FindRunningFollows, SpawnFailsFollows, EndStartFollows, BootFailsFollows, HaltFollows,
     EndStopFollows, DestroyFollows, DestroyFailsFollows, EndRestoreFollows, CommitAttachFollows,
     CommitDetachFollows, CompactFollows, RemoveRowsFollows, TerminateFollows DEF QuietTurn
<1>5. ASSUME NEW q \in Request,
             \/ \E v \in Volume, i \in Instance : LoadAttach(q, v, i) \/ LoadDetach(q, v, i)
             \/ \E v \in Volume : LoadDelete(q, v)
             \/ \E i \in Instance : LoadStart(q, i) \/ LoadStop(q, i) \/ LoadTerminate(q, i)
             \/ \E s \in Snapshot : Restore(q, s)
      PROVE  EngineFollows'
  <2>1. PICK v0 \in Volume : TRUE
    BY VolumesAssumption
  <2>2. PICK i0 \in Instance : TRUE
    BY VolumesAssumption
  <2>3. PICK s0 \in Snapshot : TRUE
    BY VolumesAssumption
  <2> QED  BY <1>5, <2>1, <2>2, <2>3, AdmissionsFollow
<1> QED  BY <1>1, <1>2, <1>3, <1>4, <1>5, Kinds

\* Places handed out without a gap: each is its rank.
LEMMA Shuffled ==
  ASSUME NEW held \in SUBSET Volume, NEW place \in [held -> 0..(Cardinality(held) - 1)],
         \A v, w \in held : place[v] = place[w] => v = w,
         NEW v \in held
  PROVE  Cardinality({w \in held : place[w] < place[v]}) = place[v]
<1> DEFINE n == Cardinality(held)
           T == {w \in held : place[w] < place[v]}
           g == [w \in T |-> place[w]]
<1>1. IsFiniteSet(held) /\ n \in Nat /\ n # 0
  BY VolumesAssumption, FS_Subset, FS_CardinalityType, FS_EmptySet
<1>2. IsFiniteSet(0..(n - 1)) /\ Cardinality(0..(n - 1)) = n
  BY <1>1, FS_Interval
<1>3. place \in Surjection(held, 0..(n - 1))
  <2>1. place \in Injection(held, 0..(n - 1))
    BY Fun_IsInj
  <2> QED  BY <1>2, <2>1, FS_Injection
<1>4. \A k \in 0..(n - 1) : \E w \in held : place[w] = k
  BY <1>3 DEF Surjection
<1>5. place[v] \in 0..(n - 1) /\ place[v] \in Nat
  BY <1>1
<1>6. g \in Bijection(T, 0..(place[v] - 1))
  <2>1. g \in [T -> 0..(place[v] - 1)]
    BY <1>1, <1>5
  <2>2. \A a, b \in T : g[a] = g[b] => a = b
    OBVIOUS
  <2>3. \A k \in 0..(place[v] - 1) : \E w \in T : g[w] = k
    <3> SUFFICES ASSUME NEW k \in 0..(place[v] - 1)  PROVE \E w \in T : g[w] = k
      OBVIOUS
    <3>1. PICK w \in held : place[w] = k
      BY <1>1, <1>4, <1>5
    <3>2. w \in T
      BY <1>5, <3>1
    <3> QED  BY <3>1, <3>2
  <2> HIDE DEF g, T
  <2> QED  BY <2>1, <2>2, <2>3, Fun_IsBij
<1>7. IsFiniteSet(T)
  BY <1>1, FS_Subset
<1>8. Cardinality(T) = Cardinality(0..(place[v] - 1))
  <2> HIDE DEF g, T
  <2>1. ExistsBijection(T, 0..(place[v] - 1))
    BY <1>6 DEF ExistsBijection
  <2> QED  BY <1>7, <2>1, FS_Bijection
<1>9. Cardinality(0..(place[v] - 1)) = place[v]
  BY <1>5, FS_Interval
<1> QED  BY <1>8, <1>9

LEMMA FirstFollows == ASSUME Init  PROVE EngineFollows
<1>1. PICK old, held, holder, place :
        /\ old \in SUBSET Volume /\ held \in SUBSET old /\ holder \in Instance
        /\ place \in [held -> 0..(Cardinality(held) - 1)]
        /\ \A v, w \in held : place[v] = place[w] => v = w
        /\ vol = FirstRows(old, held, holder, place)
        /\ boots = [i \in Instance |-> IF i = holder THEN place ELSE NoPaths]
  BY DEF Init
<1>2. held \in SUBSET Volume /\ holder # Nobody
  BY <1>1, VolumesAssumption
<1>3. Owned(vol, holder) = held /\ \A v \in held : vol[v].order = place[v]
  BY <1>1, <1>2 DEF Owned, FirstRows, Loose
<1>4. ASSUME NEW i \in Instance \ {holder}  PROVE Owned(vol, i) = {}
  BY <1>1, <1>2, VolumesAssumption DEF Owned, FirstRows, Loose
<1>5. ASSUME NEW i \in Instance
      PROVE  Distinct(vol, i) /\ Numbered(vol, i) /\ boots[i] = Orders(vol, i)
  <2>1. CASE i = holder
    <3>1. Numbered(vol, i)
      <4>1. ASSUME NEW v \in held  PROVE Rank(vol, i, v) = place[v]
        <5>1. Before(vol, i, v) = {w \in held : place[w] < place[v]}
          BY <1>3, <2>1 DEF Before
        <5> QED  BY <1>1, <1>2, <5>1, Shuffled DEF Rank
      <4> QED  BY <1>3, <2>1, <4>1 DEF Numbered
    <3>2. Distinct(vol, i) /\ boots[i] = Orders(vol, i)
      BY <1>1, <1>3, <2>1 DEF Distinct, Orders
    <3> QED  BY <3>1, <3>2
  <2>2. CASE i # holder
    <3>1. Owned(vol, i) = {} /\ boots[i] = NoPaths
      BY <1>1, <1>4, <2>2
    <3> QED  BY <3>1 DEF Distinct, Numbered, Orders, NoPaths
  <2> QED  BY <2>1, <2>2
<1>6. \A i \in Instance : /\ qemu[i] = "on" => open[i] = boots[i]
                          /\ qemu[i] = "on" <=> inst[i] = "Running"
                          /\ qemu[i] # "absent"
  BY DEF Init
<1>7. \A i \in Instance : Course(i, NoRequest)
  BY <1>5, <1>6 DEF Course, NoRequest
<1>8. \A q \in Request : req[q].on = {}
  BY DEF Init, NoRequest
<1> QED  BY <1>7, <1>8 DEF EngineFollows, Followed

-----------------------------------------------------------------------------
(***************************************************************************)
(* What follows                                                            *)
(***************************************************************************)

LEMMA RowsReached ==
  ASSUME TypeOK, EngineFollows  PROVE EngineFollowsRows
<1> SUFFICES ASSUME NEW i \in Instance, Clean(i), ~Busy(i), qemu[i] # "absent"
             PROVE  /\ boots[i] = [v \in AttachedTo(i) |-> vol[v].order]
                    /\ qemu[i] = "on" => open[i] = boots[i]
  BY DEF EngineFollowsRows
<1>1. Course(i, NoRequest)
  BY DEF EngineFollows, Followed, Busy
<1>2. AttachedTo(i) = Owned(vol, i)
  BY DEF AttachedTo, Owned
<1> QED  BY <1>1, <1>2 DEF Course, NoRequest, Behind, Orders

LEMMA OneWriterFollows ==
  ASSUME TypeOK, Purposes, EngineFollows  PROVE OneWriter
<1>1. ASSUME NEW i \in Instance, Clean(i), qemu[i] = "on"  PROVE DOMAIN open[i] = Owned(vol, i)
  <2>1. ASSUME NEW r, Course(i, r), r.pc \in Behind => r.pc # "idle" /\ r.op \in {"attach", "detach"}
        PROVE  DOMAIN open[i] = Owned(vol, i)
    BY <1>1, <2>1 DEF Course, Orders
  <2>2. CASE \A q \in Request : i \notin req[q].on
    <3>1. Course(i, NoRequest)
      BY <1>1, <2>2 DEF EngineFollows, Followed
    <3> QED  BY <2>1, <3>1 DEF NoRequest, Behind
  <2>3. ASSUME NEW q \in Request, i \in req[q].on  PROVE DOMAIN open[i] = Owned(vol, i)
    <3>1. Course(i, req[q]) /\ Purpose(req[q])
      BY <1>1, <2>3 DEF EngineFollows, Followed, Purposes
    <3> QED  BY <2>1, <3>1 DEF Purpose, Behind
  <2> QED  BY <2>2, <2>3
<1>2. ASSUME NEW i \in Instance, Clean(i), NEW v \in DOMAIN open[i]  PROVE vol[v].owner = i
  <2>1. qemu[i] = "on"
    BY <1>2 DEF TypeOK, NoPaths
  <2> QED  BY <1>1, <1>2, <2>1 DEF Owned
<1> QED  BY <1>2 DEF OneWriter

-----------------------------------------------------------------------------
(***************************************************************************)
(* The files of the volumes                                                *)
(***************************************************************************)

\* A request has removed the file of v, and goes on to its row.
Unlinked(q, v) == req[q].pc = "unlinked" /\ req[q].v = v

Kept(v) ==
  /\ vol[v].st \in {"Available", "Attached"} => v \in file \/ \E q \in Request : Unlinked(q, v)
  /\ v \in file => Exists(vol[v])
  /\ making[v] = "recording" => v \in file
  /\ \A q \in Request : Unlinked(q, v) => v \notin file

FilesAreKept == \A v \in Volume : Clean(v) => Kept(v)

\* A step after which v is as usable as before, and its file as near.
LEMMA KeptStays ==
  ASSUME NEW v, Kept(v), \A q \in Request : Unlinked(q, v)' <=> Unlinked(q, v),
         vol'[v].st \in {"Available", "Attached"} => vol[v].st \in {"Available", "Attached"},
         Exists(vol[v]) => Exists(vol'[v]),
         v \in file' <=> v \in file, making'[v] = "recording" => making[v] = "recording"
  PROVE  Kept(v)'
BY DEF Kept

LEMMA NotesGrow ==
  ASSUME [Next]_vars  PROVE raced \subseteq raced' /\ astray \subseteq astray'
<1> USE DEF history, vars
<1>1. CASE UNCHANGED vars
  BY <1>1
<1>2. CASE OtherStep
  BY <1>2 DEF OtherStep, CreateSnapshot, DeleteSnapshot, SnapshotJob, BeginTaking, Take, RecordSnapshot,
         BeginDropping, Drop, RecordDropped, Reconcile, GuestPowersOff
<1>3. CASE Crash
  BY <1>3 DEF Crash
<1>4. ASSUME NEW v \in Volume, CreateVolume(v) \/ VolumeJob(v)
      PROVE  raced \subseteq raced' /\ astray \subseteq astray'
  BY <1>4 DEF CreateVolume, VolumeJob, BeginMaking, MakeFile, RecordVolume
<1>5. ASSUME NEW q \in Request,
             \/ QuietTurn(q) \/ CommitAttach(q) \/ CommitDetach(q) \/ Compact(q)
             \/ RemoveRows(q) \/ Terminate(q)
             \/ \E v \in Volume, i \in Instance : LoadAttach(q, v, i) \/ LoadDetach(q, v, i)
             \/ \E v \in Volume : LoadDelete(q, v)
             \/ \E i \in Instance : LoadStart(q, i) \/ LoadStop(q, i) \/ LoadTerminate(q, i)
             \/ \E s \in Snapshot : Restore(q, s)
      PROVE  raced \subseteq raced' /\ astray \subseteq astray'
  <2>1. CASE CommitAttach(q) \/ CommitDetach(q) \/ Compact(q) \/ RemoveRows(q) \/ Terminate(q)
    BY <2>1 DEF CommitAttach, CommitDetach, Compact, RemoveRows, Terminate
  <2>2. CASE ReadPaths(q) \/ SetVolumes(q) \/ SetVolumesFails(q) \/ Unlink(q) \/ EndRestore(q)
    BY <2>2 DEF ReadPaths, SetVolumes, SetVolumesFails, Unlink, EndRestore
  <2>3. CASE Spawn(q) \/ FindRunning(q) \/ SpawnFails(q) \/ EndStart(q) \/ BootFails(q)
    BY <2>3 DEF Spawn, FindRunning, SpawnFails, EndStart, BootFails
  <2>4. CASE Halt(q) \/ EndStop(q) \/ Destroy(q) \/ DestroyFails(q)
    BY <2>4 DEF Halt, EndStop, Destroy, DestroyFails
  <2>5. CASE \E v \in Volume, i \in Instance : LoadAttach(q, v, i) \/ LoadDetach(q, v, i)
    BY <2>5, SMTT(30) DEF LoadAttach, LoadDetach, Accept
  <2>6. CASE \/ \E v \in Volume : LoadDelete(q, v)
             \/ \E i \in Instance : LoadStart(q, i) \/ LoadStop(q, i) \/ LoadTerminate(q, i)
             \/ \E s \in Snapshot : Restore(q, s)
    BY <2>6 DEF LoadDelete, LoadStart, LoadStop, LoadTerminate, Restore, Accept
  <2> QED  BY <1>5, <2>1, <2>2, <2>3, <2>4, <2>5, <2>6 DEF QuietTurn
<1> QED  BY <1>1, <1>2, <1>3, <1>4, <1>5, Kinds

\* Turns that have nothing to do with a file.
LEMMA OtherTurnKeeps ==
  ASSUME TypeOK, NEW q \in Request, Turned(q, Stage \ {"unlinked"}), req[q].pc # "unlinked", NEW v
  PROVE  \A p \in Request : Unlinked(p, v)' <=> Unlinked(p, v)
BY DEF Turned, Reaches, Becomes, NoRequest, Unlinked

LEMMA QuietTurnKeeps ==
  ASSUME TypeOK, Purposes, FilesAreKept, NEW q \in Request, QuietTurn(q), ~Unlink(q),
         raced \subseteq raced', astray \subseteq astray'
  PROVE  FilesAreKept'
<1>1. UNCHANGED <<vol, file, making>> /\ req[q].pc # "unlinked"
  BY DEF QuietTurn, ReadPaths, SetVolumes, SetVolumesFails, Spawn, FindRunning, SpawnFails,
         EndStart, BootFails, Halt, EndStop, Destroy, DestroyFails, EndRestore, At, disks
<1>2. Turned(q, Stage \ {"unlinked"})
  BY Turns DEF QuietTurn, Turned, Stage
<1>3. ASSUME NEW v \in Volume, Clean(v)'  PROVE Kept(v)'
  <2>1. Kept(v)
    BY <1>3 DEF FilesAreKept, Clean
  <2> QED  BY <1>1, <1>2, <2>1, OtherTurnKeeps, KeptStays
<1> QED  BY <1>3 DEF FilesAreKept

LEMMA UnlinkKeeps ==
  ASSUME TypeOK, Purposes, Overlaps, Meetings, FilesAreKept, NEW q \in Request, Unlink(q),
         raced \subseteq raced', astray \subseteq astray'
  PROVE  FilesAreKept'
<1>1. /\ UNCHANGED <<vol, making>> /\ At(q, "delete", "loaded") /\ Purpose(req[q])
      /\ req[q].v \in Volume /\ req[q].on = {req[q].v} /\ req \in Requests
  BY DEF Unlink, At, Purposes, Purpose, TypeOK, Requests
<1>2. ASSUME NEW v \in Volume, Clean(v)'  PROVE Kept(v)'
  <2>1. Kept(v) /\ v \notin raced
    BY <1>2 DEF FilesAreKept, Clean
  <2>2. CASE Answer(q) /\ file' = file
    <3>1. Turned(q, Stage \ {"unlinked"})
      BY <1>1, <2>2, AnswerBecomes DEF Turned
    <3> QED  BY <1>1, <2>1, <2>2, <3>1, OtherTurnKeeps, KeptStays DEF At
  <2>3. CASE GoTo(q, "unlinked") /\ file' = file \ {req[q].v}
    <3>1. Reaches(q, "unlinked")
      BY <1>1, <2>3, GoToReaches DEF Stage
    <3>2. \A p \in Request : Unlinked(p, v)' <=> Unlinked(p, v) \/ (p = q /\ req[q].v = v)
      BY <1>1, <3>1 DEF Reaches, Unlinked, At
    <3>3. req[q].v = v => making[v] = "none"
      BY <1>1, <2>1 DEF Meetings, Made, Deleting, At
    <3> QED  BY <1>1, <2>1, <2>3, <3>2, <3>3 DEF Kept
  <2> QED  BY <2>2, <2>3 DEF Unlink
<1> QED  BY <1>2 DEF FilesAreKept

LEMMA RemoveRowsKeeps ==
  ASSUME TypeOK, Purposes, Overlaps, FilesAreKept, NEW q \in Request, RemoveRows(q),
         raced \subseteq raced', astray \subseteq astray'
  PROVE  FilesAreKept'
<1>1. /\ UNCHANGED <<file, making>> /\ req[q].pc = "unlinked" /\ Purpose(req[q])
      /\ req[q].v \in Volume /\ req[q].on = {req[q].v}
      /\ Becomes(q, NoRequest)
      /\ vol' = [vol EXCEPT ![req[q].v] = Loose("gone")] /\ vol \in Table
  BY AnswerBecomes DEF RemoveRows, Purposes, Purpose, TypeOK, Requests, Table
<1>2. ASSUME NEW v \in Volume, Clean(v)'  PROVE Kept(v)'
  <2>1. Kept(v) /\ v \notin raced
    BY <1>2 DEF FilesAreKept, Clean
  <2>2. CASE v # req[q].v
    <3>1. \A p \in Request : Unlinked(p, v)' <=> Unlinked(p, v)
      BY <1>1, <2>2 DEF Becomes, NoRequest, Unlinked
    <3> QED  BY <1>1, <2>1, <2>2, <3>1, KeptStays DEF Table
  <2>3. CASE v = req[q].v
    <3>1. v \notin file /\ making[v] # "recording"
      BY <1>1, <2>1, <2>3 DEF Kept, Unlinked
    <3>2. vol'[v].st = "gone"
      BY <1>1, <2>3 DEF Loose, Table
    <3> QED  BY <1>1, <3>1, <3>2 DEF Kept
  <2> QED  BY <2>2, <2>3
<1> QED  BY <1>2 DEF FilesAreKept

\* Turns that change who holds a volume, and its place.
LEMMA CommitKeeps ==
  ASSUME TypeOK, Purposes, Meetings, FilesAreKept, NEW q \in Request,
         CommitAttach(q) \/ CommitDetach(q) \/ Compact(q) \/ Terminate(q),
         raced \subseteq raced', astray \subseteq astray'
  PROVE  FilesAreKept'
<1>1. /\ UNCHANGED <<file, making>> /\ req[q].pc # "unlinked" /\ Purpose(req[q]) /\ vol \in Table
  BY DEF CommitAttach, CommitDetach, Compact, Terminate, At, Purposes, TypeOK, Table
<1>2. Turned(q, Stage \ {"unlinked"})
  BY Turns DEF Turned, Stage
<1>3. ASSUME NEW v \in Volume, v \notin raced
      PROVE  \/ vol'[v].st = vol[v].st
             \/ vol'[v].st \in {"Available", "Attached"} /\ vol[v].st \in {"Available", "Attached"}
  <2>1. CASE CommitAttach(q)
    <3>1. v = req[q].v => vol[v].st = "Available"
      BY <1>1, <1>3, <2>1 DEF CommitAttach, At, Purpose, Meetings, Meant
    <3> QED  BY <1>1, <2>1, <3>1 DEF CommitAttach, Table
  <2>2. CASE CommitDetach(q)
    <3>1. v = req[q].v => vol[v].st = "Attached"
      BY <1>1, <1>3, <2>2 DEF CommitDetach, At, Purpose, Meetings, Meant
    <3> QED  BY <1>1, <2>2, <3>1 DEF CommitDetach, Loose, Table
  <2>3. CASE Compact(q)
    BY <1>1, <2>3 DEF Compact, Table, VolumeRow
  <2>4. CASE Terminate(q)
    <3>1. req[q].i \in Instance /\ req[q].i # Nobody
      BY <1>1, <2>4, VolumesAssumption DEF Terminate, Purpose
    <3> QED  BY <2>4, <3>1 DEF Terminate, Loose, TypeOK
  <2> QED  BY <2>1, <2>2, <2>3, <2>4
<1>4. ASSUME NEW v \in Volume, Clean(v)'  PROVE Kept(v)'
  <2>1. Kept(v) /\ v \notin raced
    BY <1>4 DEF FilesAreKept, Clean
  <2> QED  BY <1>1, <1>2, <1>3, <2>1, OtherTurnKeeps, KeptStays DEF Exists
<1> QED  BY <1>4 DEF FilesAreKept

LEMMA AdmissionKeeps ==
  ASSUME TypeOK, FilesAreKept, NEW q \in Request, NEW r, Admitted(q, r),
         raced \subseteq raced', astray \subseteq astray'
  PROVE  FilesAreKept'
<1>1. UNCHANGED <<vol, file, making>>
  BY DEF Admitted, disks
<1>2. ASSUME NEW v \in Volume, Clean(v)'  PROVE Kept(v)'
  <2>1. Kept(v)
    BY <1>2 DEF FilesAreKept, Clean
  <2>2. \A p \in Request : Unlinked(p, v)' <=> Unlinked(p, v)
    BY DEF Admitted, Becomes, Unlinked
  <2> QED  BY <1>1, <2>1, <2>2, KeptStays
<1> QED  BY <1>2 DEF FilesAreKept

LEMMA JobKeeps ==
  ASSUME TypeOK, Meetings, Purposes, FilesAreKept, NEW v \in Volume, CreateVolume(v) \/ VolumeJob(v),
         raced \subseteq raced', astray \subseteq astray'
  PROVE  FilesAreKept'
<1>1. /\ req' = req
      /\ \A w \in Volume \ {v} : vol'[w] = vol[w] /\ making'[w] = making[w] /\ (w \in file' <=> w \in file)
  BY DEF CreateVolume, VolumeJob, BeginMaking, MakeFile, RecordVolume, MakeGoTo, history, TypeOK
<1>2. ASSUME NEW w \in Volume \ {v}, Clean(w)'  PROVE Kept(w)'
  <2>1. Kept(w)
    BY <1>2 DEF FilesAreKept, Clean
  <2> QED  BY <1>1, <2>1, KeptStays DEF Unlinked
<1>3. ASSUME Clean(v)'  PROVE Kept(v)'
  <2>1. Kept(v) /\ v \notin raced
    BY <1>3 DEF FilesAreKept, Clean
  <2>2. making[v] # "none" => vol[v].st = "Creating" /\ \A q \in Request : ~Unlinked(q, v)
    BY <2>1 DEF Meetings, MadeOnce, Made, Deleting, Unlinked, Purposes, Purpose
  <2>3. CASE CreateVolume(v)
    <3>1. vol[v].st = "unborn" /\ vol'[v].st = "Creating" /\ file' = file /\ making'[v] = "queued"
      BY <2>3 DEF CreateVolume, Loose, TypeOK
    <3> QED  BY <1>1, <2>1, <3>1 DEF Kept, Exists, Unlinked
  <2>4. CASE BeginMaking(v)
    <3>1. vol' = vol /\ file' = file /\ making'[v] # "recording"
      BY <2>4 DEF BeginMaking, MakeGoTo, TypeOK
    <3> QED  BY <1>1, <2>1, <3>1 DEF Kept, Exists, Unlinked
  <2>5. CASE MakeFile(v)
    <3>1. /\ vol' = vol /\ making[v] = "writing"
          /\ \/ v \in file'
             \/ file' = file /\ making'[v] = "failing"
      BY <2>5 DEF MakeFile, MakeGoTo, TypeOK
    <3> QED  BY <1>1, <2>1, <2>2, <3>1 DEF Kept, Exists, Unlinked
  <2>6. CASE RecordVolume(v)
    <3>1. /\ file' = file /\ making'[v] = "none" /\ making[v] \in {"recording", "failing"}
          /\ vol'[v].st = IF making[v] = "recording" THEN "Available" ELSE "Error"
      BY <2>2, <2>6 DEF RecordVolume, MakeGoTo, TypeOK, VolumeRow, Exists
    <3> QED  BY <1>1, <2>1, <2>2, <3>1 DEF Kept, Exists, Unlinked
  <2> QED  BY <2>3, <2>4, <2>5, <2>6 DEF VolumeJob
<1> QED  BY <1>2, <1>3 DEF FilesAreKept

LEMMA OtherKeeps ==
  ASSUME FilesAreKept, OtherStep \/ UNCHANGED vars, raced \subseteq raced', astray \subseteq astray'
  PROVE  FilesAreKept'
<1>1. UNCHANGED <<vol, file, making, req>>
  BY DEF OtherStep, CreateSnapshot, DeleteSnapshot, SnapshotJob, BeginTaking, Take, RecordSnapshot,
         BeginDropping, Drop, RecordDropped, Reconcile, GuestPowersOff, disks, vars
<1>2. ASSUME NEW v \in Volume, Clean(v)'  PROVE Kept(v)'
  <2>1. Kept(v)
    BY <1>2 DEF FilesAreKept, Clean
  <2> QED  BY <1>1, <2>1 DEF Kept, Unlinked
<1> QED  BY <1>2 DEF FilesAreKept

LEMMA CrashKeeps ==
  ASSUME Purposes, FilesAreKept, Crash  PROVE FilesAreKept'
<1>1. UNCHANGED <<vol, file>> /\ \A v \in Volume : making'[v] = "none"
  BY DEF Crash
<1>2. ASSUME NEW v \in Volume, Clean(v)'  PROVE Kept(v)'
  <2>1. Kept(v) /\ \A q \in Request : v \notin req[q].on
    BY <1>2 DEF FilesAreKept, Clean, Crash
  <2>2. \A q \in Request : ~Unlinked(q, v) /\ ~Unlinked(q, v)'
    BY <2>1 DEF Purposes, Purpose, Unlinked, Crash, NoRequest
  <2> QED  BY <1>1, <2>1, <2>2 DEF Kept
<1> QED  BY <1>2 DEF FilesAreKept

LEMMA FilesSteps ==
  ASSUME TypeOK, Purposes, Overlaps, Meetings, FilesAreKept, [Next]_vars
  PROVE  FilesAreKept'
<1>1. raced \subseteq raced' /\ astray \subseteq astray'
  BY NotesGrow
<1>2. CASE OtherStep \/ UNCHANGED vars
  BY <1>1, <1>2, OtherKeeps
<1>3. CASE Crash
  BY <1>3, CrashKeeps
<1>4. ASSUME NEW v \in Volume, CreateVolume(v) \/ VolumeJob(v)  PROVE FilesAreKept'
  BY <1>1, <1>4, JobKeeps
<1>5. ASSUME NEW q \in Request,
             \/ QuietTurn(q) \/ CommitAttach(q) \/ CommitDetach(q) \/ Compact(q)
             \/ RemoveRows(q) \/ Terminate(q)
      PROVE  FilesAreKept'
  BY <1>1, <1>5, UnlinkKeeps, QuietTurnKeeps, CommitKeeps, RemoveRowsKeeps
<1>6. ASSUME NEW q \in Request,
             \/ \E v \in Volume, i \in Instance : LoadAttach(q, v, i) \/ LoadDetach(q, v, i)
             \/ \E v \in Volume : LoadDelete(q, v)
             \/ \E i \in Instance : LoadStart(q, i) \/ LoadStop(q, i) \/ LoadTerminate(q, i)
             \/ \E s \in Snapshot : Restore(q, s)
      PROVE  FilesAreKept'
  <2>1. \E r : Admitted(q, r)
    BY <1>6, LoadAttachAdmits, LoadDetachAdmits, LoadDeleteAdmits, LoadStartAdmits, LoadStopAdmits,
       LoadTerminateAdmits, RestoreAdmits
  <2> QED  BY <1>1, <2>1, AdmissionKeeps
<1> QED  BY <1>2, <1>3, <1>4, <1>5, <1>6, Kinds

LEMMA FirstFiles == ASSUME Init  PROVE FilesAreKept
<1>1. PICK old, held, holder, place :
        /\ old \in SUBSET Volume /\ held \in SUBSET old
        /\ vol = FirstRows(old, held, holder, place) /\ file = old
  BY DEF Init
<1>2. \A v \in Volume : /\ v \in file => vol[v].st \in {"Available", "Attached"}
                        /\ v \notin file => vol[v].st = "unborn"
                        /\ making[v] = "none"
  BY <1>1 DEF FirstRows, Loose, Init
<1>3. \A q \in Request, v \in Volume : ~Unlinked(q, v)
  BY DEF Init, NoRequest, Unlinked
<1> QED  BY <1>2, <1>3 DEF FilesAreKept, Kept, Exists

LEMMA FilesFollow ==
  ASSUME Purposes, FilesAreKept  PROVE FilesFollowRows
<1>1. \A q \in Request : req[q].pc = "unlinked" => At(q, "delete", "unlinked")
  BY DEF Purposes, Purpose, At
<1> QED  BY <1>1 DEF FilesAreKept, Kept, FilesFollowRows, Unlinked

-----------------------------------------------------------------------------
(***************************************************************************)
(* The snapshots                                                           *)
(***************************************************************************)

\* Where a snapshot is, of a disk that nothing raced on.
Here(s, d) ==
  /\ taking[s] # "none" /\ snap[s].st = "gone" => ~DiskThere(d)
  /\ taking[s] = "recording" /\ snap[s].st # "gone" => s \in saved[d] \/ DiskGoing(d)
  /\ snap[s].st = "Available" => s \in saved[d] \/ DiskGoing(d)
  /\ dropping[s] = "recording" => s \notin saved[d]
  /\ s \in saved[d] => snap[s].st # "gone"

\* The row of a snapshot, its jobs and its place.
Drawn(s) ==
  /\ \A d \in Disk : s \in saved[d] => snap[s].of = d
  /\ snap[s].st = "unborn" =>
       taking[s] = "none" /\ dropping[s] = "none" /\ \A d \in Disk : s \notin saved[d]
  /\ snap[s].st # "unborn" => snap[s].of \in Disk
  /\ taking[s] # "none" /\ dropping[s] # "none" => s \in raced
  /\ Clean(s) /\ taking[s] # "none" => snap[s].st \in {"Creating", "gone"}
  /\ Clean(s) /\ dropping[s] # "none" => snap[s].st \in {"Deleting", "gone"}

\* The disk it is of.
Based(s) ==
  \A v \in Volume : snap[s].st # "unborn" /\ snap[s].of = v =>
    vol[v].st # "unborn" /\ making[v] = "none"

Shot(s) ==
  /\ Drawn(s) /\ Based(s)
  /\ \A d \in Disk : Clean(s) /\ Clean(d) /\ snap[s].st # "unborn" /\ snap[s].of = d => Here(s, d)

\* A disk that is gone has no snapshots.
Emptied(d) == Clean(d) /\ ~DiskThere(d) => saved[d] = {}

ShotsHold == (\A s \in Snapshot : Shot(s)) /\ \A d \in Disk : Emptied(d)

\* A step that leaves the disks there that are, and going that are.
DisksStay ==
  /\ raced \subseteq raced' /\ astray \subseteq astray'
  /\ \A v \in Volume : vol[v].st # "unborn" =>
       vol'[v].st # "unborn" /\ (making[v] = "none" => making'[v] = "none")
  /\ \A d \in Disk : /\ DiskThere(d) => DiskThere(d)'
                     /\ DiskThere(d)' => DiskThere(d) \/ (d \in Volume /\ making[d] # "none")
                     /\ DiskGoing(d) => DiskGoing(d)'

LEMMA ShotStays ==
  ASSUME DisksStay, NEW s \in Snapshot, Shot(s),
         snap'[s] = snap[s], taking'[s] = taking[s], dropping'[s] = dropping[s],
         \A d \in Disk : s \in saved'[d] <=> s \in saved[d]
  PROVE  Shot(s)'
<1>1. Drawn(s)'
  BY DEF Shot, Drawn, DisksStay, Clean
<1>2. Based(s)'
  BY DEF Shot, Based, DisksStay
<1>3. ASSUME NEW d \in Disk, Clean(s)', Clean(d)', snap'[s].st # "unborn", snap'[s].of = d
      PROVE  Here(s, d)'
  <2>1. Here(s, d)
    BY <1>3 DEF Shot, Clean, DisksStay
  <2>2. /\ DiskThere(d) => DiskThere(d)'
        /\ DiskThere(d)' => DiskThere(d)
        /\ DiskGoing(d) => DiskGoing(d)'
    BY <1>3 DEF DisksStay, Shot, Based
  <2> QED  BY <2>1, <2>2 DEF Here
<1> QED  BY <1>1, <1>2, <1>3 DEF Shot

LEMMA ShotsStay ==
  ASSUME DisksStay, ShotsHold, UNCHANGED shots  PROVE ShotsHold'
<1>1. ASSUME NEW s \in Snapshot  PROVE Shot(s)'
  BY ShotStays DEF ShotsHold, shots
<1>2. ASSUME NEW d \in Disk  PROVE Emptied(d)'
  BY DEF ShotsHold, Emptied, DisksStay, Clean, shots
<1> QED  BY <1>1, <1>2 DEF ShotsHold

\* The requests that are about to end, with a disk gone.
LEMMA GoingStays ==
  ASSUME NEW q \in Request, Turned(q, Stage) \/ req' = req,
         req[q].pc \notin {"unlinked", "destroyed"}, NEW d
  PROVE  DiskGoing(d) => DiskGoing(d)'
BY DEF DiskGoing, Turned, Reaches, Becomes

\* Whether each disk is there is decided by the files and the machines.
LEMMA TheresStay ==
  ASSUME NEW d, d \in Volume => (d \in file' <=> d \in file),
         d \notin Volume => (qemu'[d] = "absent" <=> qemu[d] = "absent")
  PROVE  DiskThere(d)' <=> DiskThere(d)
BY DEF DiskThere

LEMMA QuietTurnShots ==
  ASSUME TypeOK, ShotsHold, NEW q \in Request, QuietTurn(q),
         ~Unlink(q), ~Destroy(q), ~DestroyFails(q), raced \subseteq raced', astray \subseteq astray'
  PROVE  ShotsHold'
<1>1. /\ UNCHANGED <<vol, file, making>> /\ UNCHANGED shots
      /\ req[q].pc \notin {"unlinked", "destroyed"}
  BY DEF QuietTurn, ReadPaths, SetVolumes, SetVolumesFails, Spawn, FindRunning, SpawnFails,
         EndStart, BootFails, Halt, EndStop, EndRestore, At, disks, shots
<1>2. \A i \in Instance : qemu'[i] = "absent" <=> qemu[i] = "absent"
  <2>1. CASE Halt(q)
    BY <2>1 DEF Halt, SwitchOff, TypeOK
  <2>2. CASE Spawn(q)
    BY <2>2 DEF Spawn, TypeOK
  <2>3. CASE UNCHANGED qemu
    BY <2>3
  <2> QED
    BY <2>1, <2>2, <2>3 DEF QuietTurn, ReadPaths, SetVolumes, SetVolumesFails, FindRunning, SpawnFails,
       EndStart, BootFails, EndStop, EndRestore, machines
<1>3. Turned(q, Stage)
  BY Turns DEF QuietTurn, Turned, Stage
<1>4. \A d \in Disk : DiskThere(d)' <=> DiskThere(d)
  BY <1>1, <1>2, TheresStay DEF Disk
<1>5. \A d : DiskGoing(d) => DiskGoing(d)'
  BY <1>1, <1>3, GoingStays
<1>6. DisksStay
  BY <1>1, <1>4, <1>5 DEF DisksStay
<1> QED  BY <1>1, <1>6, ShotsStay

LEMMA AdmissionShots ==
  ASSUME TypeOK, ShotsHold, NEW q \in Request, NEW r, Admitted(q, r),
         raced \subseteq raced', astray \subseteq astray'
  PROVE  ShotsHold'
<1>1. UNCHANGED <<inst, qemu, vol, file, making>> /\ UNCHANGED shots
  BY DEF Admitted, machines, disks
<1>2. \A d \in Disk : DiskThere(d)' <=> DiskThere(d)
  BY <1>1, TheresStay DEF Disk
<1>3. \A d : DiskGoing(d) => DiskGoing(d)'
  BY DEF Admitted, DiskGoing, Becomes
<1>4. DisksStay
  BY <1>1, <1>2, <1>3 DEF DisksStay
<1> QED  BY <1>1, <1>4, ShotsStay

LEMMA CommitShots ==
  ASSUME TypeOK, ShotsHold, NEW q \in Request, CommitAttach(q) \/ CommitDetach(q) \/ Compact(q),
         Purposes, raced \subseteq raced', astray \subseteq astray'
  PROVE  ShotsHold'
<1>1. /\ UNCHANGED <<inst, qemu, file, making>> /\ UNCHANGED shots
      /\ req[q].pc \notin {"unlinked", "destroyed"} /\ vol \in Table
  BY DEF CommitAttach, CommitDetach, Compact, At, machines, TypeOK, Table
<1>2. \A v \in Volume : vol[v].st # "unborn" => vol'[v].st # "unborn"
  BY <1>1 DEF CommitAttach, CommitDetach, Compact, Loose, Table, VolumeRow
<1>3. Turned(q, Stage)
  BY Turns DEF Turned, Stage
<1>4. \A d \in Disk : DiskThere(d)' <=> DiskThere(d)
  BY <1>1, TheresStay DEF Disk
<1>5. \A d : DiskGoing(d) => DiskGoing(d)'
  BY <1>1, <1>3, GoingStays
<1>6. DisksStay
  BY <1>1, <1>2, <1>4, <1>5 DEF DisksStay
<1> QED  BY <1>1, <1>6, ShotsStay

LEMMA JobShots ==
  ASSUME TypeOK, ShotsHold, NEW v \in Volume, CreateVolume(v) \/ VolumeJob(v),
         raced \subseteq raced', astray \subseteq astray'
  PROVE  ShotsHold'
<1>1. /\ UNCHANGED <<inst, qemu, req>> /\ UNCHANGED shots
      /\ \A w \in Volume \ {v} : vol'[w] = vol[w] /\ making'[w] = making[w] /\ (w \in file' <=> w \in file)
  BY DEF CreateVolume, VolumeJob, BeginMaking, MakeFile, RecordVolume, MakeGoTo, machines, TypeOK
<1>2. /\ vol[v].st # "unborn" => vol'[v].st # "unborn" /\ making[v] # "none"
      /\ v \in file => v \in file'
      /\ v \in file' => v \in file \/ making[v] # "none"
  BY DEF CreateVolume, VolumeJob, BeginMaking, MakeFile, RecordVolume, MakeGoTo, Exists, Loose,
         TypeOK, VolumeRow
<1>3. \A d : DiskGoing(d) => DiskGoing(d)'
  BY <1>1 DEF DiskGoing
<1>4. ASSUME NEW d \in Disk
      PROVE  /\ DiskThere(d) => DiskThere(d)'
             /\ DiskThere(d)' => DiskThere(d) \/ (d \in Volume /\ making[d] # "none")
  BY <1>1, <1>2 DEF DiskThere
<1>5. DisksStay
  BY <1>1, <1>2, <1>3, <1>4 DEF DisksStay
<1> QED  BY <1>1, <1>5, ShotsStay

LEMMA MachineShots ==
  ASSUME TypeOK, ShotsHold, NEW i \in Instance, Reconcile(i) \/ GuestPowersOff(i) \/ UNCHANGED vars
  PROVE  ShotsHold'
<1>1. UNCHANGED <<vol, file, making, req, raced, astray>> /\ UNCHANGED shots
  BY DEF Reconcile, GuestPowersOff, disks, history, vars
<1>2. \A j \in Instance : qemu'[j] = "absent" <=> qemu[j] = "absent"
  BY DEF Reconcile, GuestPowersOff, SwitchOff, TypeOK, vars, machines
<1>3. \A d \in Disk : DiskThere(d)' <=> DiskThere(d)
  BY <1>1, <1>2, TheresStay DEF Disk
<1>4. \A d : DiskGoing(d) => DiskGoing(d)'
  BY <1>1 DEF DiskGoing
<1>5. DisksStay
  BY <1>1, <1>3, <1>4 DEF DisksStay
<1> QED  BY <1>1, <1>5, ShotsStay

\* A disk that q removes, with the snapshots in it: q goes on to the rows.
LEMMA DiskRemoved ==
  ASSUME ShotsHold, NEW q \in Request, NEW e \in Disk,
         e \in req[q].on, req'[q].pc \in {"unlinked", "destroyed"}, req'[q].on = req[q].on,
         \A d : DiskGoing(d) => DiskGoing(d)',
         \A d \in Disk \ {e} : DiskThere(d)' <=> DiskThere(d),
         ~DiskThere(e)', saved' = [saved EXCEPT ![e] = {}], saved \in [Disk -> SUBSET Snapshot],
         UNCHANGED <<vol, making, snap, taking, dropping>>,
         raced \subseteq raced', astray \subseteq astray'
  PROVE  ShotsHold'
<1>1. \A d \in Disk \ {e} : saved'[d] = saved[d]
  OBVIOUS
<1>2. saved'[e] = {} /\ DiskGoing(e)'
  BY DEF DiskGoing
<1>3. ASSUME NEW s \in Snapshot  PROVE Shot(s)'
  <2>1. Drawn(s)' /\ Based(s)'
    BY <1>1, <1>2 DEF ShotsHold, Shot, Drawn, Based, Clean
  <2>2. ASSUME NEW d \in Disk, Clean(s)', Clean(d)', snap'[s].st # "unborn", snap'[s].of = d
        PROVE  Here(s, d)'
    <3>1. Here(s, d)
      BY <2>2 DEF ShotsHold, Shot, Clean
    <3> QED  BY <1>1, <1>2, <3>1 DEF Here
  <2> QED  BY <2>1, <2>2 DEF Shot
<1>4. ASSUME NEW d \in Disk  PROVE Emptied(d)'
  BY <1>1, <1>2 DEF ShotsHold, Emptied, Clean
<1> QED  BY <1>3, <1>4 DEF ShotsHold

\* A disk that is left half removed is noted.
LEMMA DiskAstray ==
  ASSUME ShotsHold, NEW e \in Disk, e \in astray',
         \A d : DiskGoing(d) => DiskGoing(d)',
         \A d \in Disk \ {e} : DiskThere(d)' <=> DiskThere(d),
         \A d \in Disk \ {e} : saved'[d] = saved[d], saved'[e] \subseteq saved[e],
         UNCHANGED <<vol, making, snap, taking, dropping>>,
         raced \subseteq raced', astray \subseteq astray'
  PROVE  ShotsHold'
<1>1. ASSUME NEW s \in Snapshot  PROVE Shot(s)'
  <2>1. Drawn(s)' /\ Based(s)'
    BY DEF ShotsHold, Shot, Drawn, Based, Clean
  <2>2. ASSUME NEW d \in Disk, Clean(s)', Clean(d)', snap'[s].st # "unborn", snap'[s].of = d
        PROVE  Here(s, d)'
    <3>1. Here(s, d) /\ d # e
      BY <2>2 DEF ShotsHold, Shot, Clean
    <3> QED  BY <3>1 DEF Here
  <2> QED  BY <2>1, <2>2 DEF Shot
<1>2. ASSUME NEW d \in Disk  PROVE Emptied(d)'
  BY DEF ShotsHold, Emptied, Clean
<1> QED  BY <1>1, <1>2 DEF ShotsHold

LEMMA UnlinkShots ==
  ASSUME TypeOK, Purposes, ShotsHold, NEW q \in Request, Unlink(q)
  PROVE  ShotsHold'
<1>0. PICK v : v = req[q].v
  OBVIOUS
<1>1. /\ UNCHANGED <<inst, qemu, vol, making, snap, taking, dropping, raced, astray>>
      /\ req[q].pc = "loaded" /\ v \in Volume /\ v \in req[q].on /\ v \in Disk
      /\ req \in Requests /\ Turned(q, Stage)
  BY <1>0, Turns DEF Unlink, machines, history, At, Purposes, Purpose, TypeOK, Requests, Disk,
     Turned, Stage
<1>2. \A d : DiskGoing(d) => DiskGoing(d)'
  BY <1>1, GoingStays
<1>3. CASE GoTo(q, "unlinked") /\ file' = file \ {v} /\ saved' = [saved EXCEPT ![v] = {}]
  <2>1. Reaches(q, "unlinked")
    BY <1>1, <1>3, GoToReaches DEF Stage
  <2>2. ~DiskThere(v)' /\ \A d \in Disk \ {v} : DiskThere(d)' <=> DiskThere(d)
    BY <1>1, <1>3 DEF DiskThere
  <2>3. saved \in [Disk -> SUBSET Snapshot]
    BY DEF TypeOK
  <2> QED  BY <1>1, <1>2, <1>3, <2>1, <2>2, <2>3, DiskRemoved DEF Reaches
<1>4. CASE file' = file /\ saved' = saved
  <2>1. \A d \in Disk : DiskThere(d)' <=> DiskThere(d)
    BY <1>1, <1>4, TheresStay
  <2>2. DisksStay
    BY <1>1, <1>2, <2>1 DEF DisksStay
  <2> QED  BY <1>1, <1>4, <2>2, ShotsStay DEF shots
<1> QED  BY <1>0, <1>3, <1>4 DEF Unlink

LEMMA DestroyShots ==
  ASSUME TypeOK, Purposes, ShotsHold, NEW q \in Request, Destroy(q)
  PROVE  ShotsHold'
<1>0. PICK i : i = req[q].i
  OBVIOUS
<1>1. /\ UNCHANGED <<vol, file, making, snap, taking, dropping, raced, astray>>
      /\ req[q].pc = "loaded" /\ i \in Instance /\ i \in req[q].on /\ i \in Disk /\ i \notin Volume
      /\ req \in Requests /\ Turned(q, Stage) /\ GoTo(q, "destroyed") /\ Remove(i)
  BY <1>0, Turns, VolumesAssumption
  DEF Destroy, disks, history, At, Purposes, Purpose, TypeOK, Requests, Disk, Turned, Stage
<1>2. \A d : DiskGoing(d) => DiskGoing(d)'
  BY <1>1, GoingStays
<1>3. Reaches(q, "destroyed")
  BY <1>1, GoToReaches DEF Stage
<1>4. ~DiskThere(i)' /\ \A d \in Disk \ {i} : DiskThere(d)' <=> DiskThere(d)
  BY <1>1 DEF DiskThere, Remove, TypeOK, Disk
<1>5. saved \in [Disk -> SUBSET Snapshot] /\ saved' = [saved EXCEPT ![i] = {}]
  BY <1>1 DEF TypeOK, Remove
<1> QED  BY <1>1, <1>2, <1>3, <1>4, <1>5, DiskRemoved DEF Reaches

LEMMA DestroyFailsShots ==
  ASSUME TypeOK, Purposes, ShotsHold, NEW q \in Request, DestroyFails(q)
  PROVE  ShotsHold'
<1> DEFINE i == req[q].i
<1>1. /\ UNCHANGED <<vol, file, making, snap, taking, dropping, raced>>
      /\ req[q].pc = "loaded" /\ i \in Instance /\ i \in Disk /\ i \notin Volume
      /\ i \in astray' /\ astray \subseteq astray' /\ Turned(q, Stage)
  BY Turns, VolumesAssumption
  DEF DestroyFails, disks, At, Purposes, Purpose, TypeOK, Disk, Turned, Stage
<1>2. \A d : DiskGoing(d) => DiskGoing(d)'
  BY <1>1, GoingStays
<1>3. \A d \in Disk \ {i} : DiskThere(d)' <=> DiskThere(d)
  BY <1>1 DEF DiskThere, DestroyFails, Remove, SwitchOff, TypeOK, Disk
<1>4. (\A d \in Disk \ {i} : saved'[d] = saved[d]) /\ saved'[i] \subseteq saved[i]
  BY <1>1 DEF DestroyFails, Remove, TypeOK
<1> QED  BY <1>1, <1>2, <1>3, <1>4, DiskAstray

\* The rows of the snapshots of a disk that is not there any more.
LEMMA RowsRemoved ==
  ASSUME TypeOK, ShotsHold, NEW e \in Disk, Clean(e) => ~DiskThere(e), snap' = WithoutSnapshotsOf(e),
         UNCHANGED <<saved, taking, dropping, making>>,
         raced \subseteq raced', astray \subseteq astray',
         \A v \in Volume : vol[v].st # "unborn" => vol'[v].st # "unborn",
         \A d \in Disk : DiskThere(d)' <=> DiskThere(d),
         \A d \in Disk \ {e} : DiskGoing(d) => DiskGoing(d)'
  PROVE  ShotsHold'
<1>1. ASSUME NEW s \in Snapshot  PROVE Shot(s)'
  <2>1. /\ snap'[s].of = snap[s].of
        /\ snap'[s].st = snap[s].st \/ (snap'[s].st = "gone" /\ snap[s].st # "unborn")
        /\ snap[s].of = e => snap'[s].st \in {"unborn", "gone"}
        /\ snap[s].of # e => snap'[s] = snap[s]
    BY DEF WithoutSnapshotsOf, Exists, TypeOK, SnapshotRow
  <2>2. Drawn(s)' /\ Based(s)'
    BY <2>1 DEF ShotsHold, Shot, Drawn, Based, Clean
  <2>3. ASSUME NEW d \in Disk, Clean(s)', Clean(d)', snap'[s].st # "unborn", snap'[s].of = d
        PROVE  Here(s, d)'
    <3>1. Here(s, d)
      BY <2>1, <2>3 DEF ShotsHold, Shot, Clean
    <3>2. CASE d = e
      <4>1. ~DiskThere(e) /\ saved[e] = {}
        BY <2>3, <3>2 DEF ShotsHold, Emptied, Clean
      <4> QED  BY <2>1, <2>3, <3>2, <4>1 DEF Here
    <3>3. CASE d # e
      BY <2>1, <2>3, <3>1, <3>3 DEF Here
    <3> QED  BY <3>2, <3>3
  <2> QED  BY <2>2, <2>3 DEF Shot
<1>2. ASSUME NEW d \in Disk  PROVE Emptied(d)'
  BY DEF ShotsHold, Emptied, Clean
<1> QED  BY <1>1, <1>2 DEF ShotsHold

LEMMA RemoveRowsShots ==
  ASSUME TypeOK, Purposes, FilesAreKept, ShotsHold, NEW q \in Request, RemoveRows(q)
  PROVE  ShotsHold'
<1> DEFINE v == req[q].v
<1>1. /\ UNCHANGED <<qemu, file, saved, taking, dropping, making, raced, astray>>
      /\ snap' = WithoutSnapshotsOf(v) /\ vol' = [vol EXCEPT ![v] = Loose("gone")] /\ vol \in Table
      /\ req[q].pc = "unlinked" /\ v \in Volume /\ req[q].on = {v} /\ v \in Disk
      /\ Becomes(q, NoRequest)
  BY AnswerBecomes DEF RemoveRows, machines, history, Purposes, Purpose, TypeOK, Requests, Disk, Table
<1>2. Clean(v) => ~DiskThere(v)
  BY <1>1 DEF FilesAreKept, Kept, Unlinked, DiskThere
<1>3. \A w \in Volume : vol[w].st # "unborn" => vol'[w].st # "unborn"
  BY <1>1 DEF Loose, Table
<1>4. \A d \in Disk : DiskThere(d)' <=> DiskThere(d)
  BY <1>1, TheresStay
<1>5. \A d \in Disk \ {v} : DiskGoing(d) => DiskGoing(d)'
  BY <1>1 DEF DiskGoing, Becomes
<1> QED  BY <1>1, <1>2, <1>3, <1>4, <1>5, RowsRemoved

LEMMA TerminateShots ==
  ASSUME TypeOK, Purposes, EngineFollows, ShotsHold, NEW q \in Request, Terminate(q)
  PROVE  ShotsHold'
<1> DEFINE i == req[q].i
<1>1. /\ UNCHANGED <<qemu, file, saved, taking, dropping, making, raced, astray>>
      /\ snap' = WithoutSnapshotsOf(i)
      /\ vol' = [v \in Volume |-> IF vol[v].owner = i THEN Loose("Available") ELSE vol[v]]
      /\ req[q].pc = "destroyed" /\ i \in Instance /\ req[q].on = {i} /\ i \in Disk /\ i \notin Volume
      /\ Becomes(q, NoRequest)
  BY AnswerBecomes, VolumesAssumption DEF Terminate, history, Purposes, Purpose, TypeOK, Requests, Disk
<1>2. Clean(i) => ~DiskThere(i)
  BY <1>1 DEF EngineFollows, Followed, Course, DiskThere
<1>3. \A w \in Volume : vol[w].st # "unborn" => vol'[w].st # "unborn"
  BY <1>1 DEF Loose
<1>4. \A d \in Disk : DiskThere(d)' <=> DiskThere(d)
  BY <1>1, TheresStay
<1>5. \A d \in Disk \ {i} : DiskGoing(d) => DiskGoing(d)'
  BY <1>1 DEF DiskGoing, Becomes
<1> QED  BY <1>1, <1>2, <1>3, <1>4, <1>5, RowsRemoved

LEMMA CrashShots ==
  ASSUME Purposes, ShotsHold, Crash  PROVE ShotsHold'
<1>1. /\ UNCHANGED <<qemu, vol, file, snap, saved, raced>> /\ astray \subseteq astray'
      /\ \A v \in Volume : making'[v] = "none"
      /\ \A s \in Snapshot : taking'[s] = "none" /\ dropping'[s] = "none"
      /\ \A q \in Request : req[q].on \subseteq astray'
  BY DEF Crash, machines
<1>2. \A d \in Disk : DiskThere(d)' <=> DiskThere(d)
  BY <1>1, TheresStay
<1>3. \A d \in Disk : Clean(d)' => ~DiskGoing(d)
  BY <1>1 DEF DiskGoing, Clean
<1>4. ASSUME NEW s \in Snapshot  PROVE Shot(s)'
  <2>1. Drawn(s)' /\ Based(s)'
    BY <1>1 DEF ShotsHold, Shot, Drawn, Based, Clean
  <2>2. ASSUME NEW d \in Disk, Clean(s)', Clean(d)', snap'[s].st # "unborn", snap'[s].of = d
        PROVE  Here(s, d)'
    <3>1. Here(s, d)
      BY <1>1, <2>2 DEF ShotsHold, Shot, Clean
    <3> QED  BY <1>1, <1>3, <2>2, <3>1 DEF Here
  <2> QED  BY <2>1, <2>2 DEF Shot
<1>5. ASSUME NEW d \in Disk  PROVE Emptied(d)'
  BY <1>1, <1>2 DEF ShotsHold, Emptied, Clean
<1> QED  BY <1>4, <1>5 DEF ShotsHold

LEMMA FirstShots == ASSUME Init  PROVE ShotsHold
<1>1. /\ \A s \in Snapshot : snap[s].st = "unborn" /\ taking[s] = "none" /\ dropping[s] = "none"
      /\ \A d \in Disk : saved[d] = {}
  BY DEF Init
<1> QED  BY <1>1 DEF ShotsHold, Shot, Drawn, Based, Emptied

\* A step on the snapshot s alone.
Apart(s) ==
  /\ UNCHANGED <<qemu, vol, file, making, req>>
  /\ raced \subseteq raced' /\ astray \subseteq astray'
  /\ \A t \in Snapshot \ {s} :
       /\ snap'[t] = snap[t] /\ taking'[t] = taking[t] /\ dropping'[t] = dropping[t]
       /\ \A d \in Disk : t \in saved'[d] <=> t \in saved[d]

LEMMA ApartStays ==
  ASSUME NEW s, Apart(s)
  PROVE  /\ \A d \in Disk : DiskThere(d)' <=> DiskThere(d)
         /\ \A d : DiskGoing(d)' <=> DiskGoing(d)
         /\ DisksStay
<1>1. \A d \in Disk : DiskThere(d)' <=> DiskThere(d)
  BY TheresStay DEF Apart
<1>2. \A d : DiskGoing(d)' <=> DiskGoing(d)
  BY DEF Apart, DiskGoing
<1> QED  BY <1>1, <1>2 DEF Apart, DisksStay

LEMMA OneShot ==
  ASSUME ShotsHold, NEW s \in Snapshot, Apart(s), Drawn(s)', Based(s)',
         \A d \in Disk : Clean(s)' /\ Clean(d) /\ snap'[s].st # "unborn" /\ snap'[s].of = d =>
                           Here(s, d)',
         \A d \in Disk : saved'[d] \subseteq saved[d] \/ DiskThere(d)
  PROVE  ShotsHold'
<1>1. DisksStay /\ \A d \in Disk : DiskThere(d)' <=> DiskThere(d)
  BY ApartStays
<1>2. ASSUME NEW t \in Snapshot, t # s  PROVE Shot(t)'
  BY <1>1, <1>2, ShotStays DEF ShotsHold, Apart
<1>3. Shot(s)'
  BY DEF Shot, Clean, Apart
<1>4. ASSUME NEW d \in Disk  PROVE Emptied(d)'
  BY <1>1 DEF ShotsHold, Emptied, Clean, Apart
<1> QED  BY <1>2, <1>3, <1>4 DEF ShotsHold

\* The snapshot stays one of its disk.
LEMMA BasedStays ==
  ASSUME ShotsHold, NEW s \in Snapshot, Apart(s), snap'[s].of = snap[s].of,
         snap[s].st = "unborn" => snap'[s].st = "unborn"
  PROVE  Based(s)'
BY DEF ShotsHold, Shot, Based, Apart

LEMMA CreateSnapshotShots ==
  ASSUME TypeOK, Meetings, ShotsHold, NEW s \in Snapshot, NEW d \in Disk, CreateSnapshot(s, d)
  PROVE  ShotsHold'
<1>1. /\ Apart(s) /\ UNCHANGED saved
      /\ snap'[s].st = "Creating" /\ snap'[s].of = d
      /\ taking'[s] = "queued" /\ dropping'[s] = dropping[s] /\ snap[s].st = "unborn" /\ Usable(d)
  BY DEF CreateSnapshot, Apart, machines, disks, history, TypeOK
<1>2. dropping[s] = "none" /\ \A e \in Disk : s \notin saved[e]
  BY <1>1 DEF ShotsHold, Shot, Drawn
<1>3. Drawn(s)'
  BY <1>1, <1>2 DEF Drawn
<1>4. Based(s)'
  BY <1>1 DEF Based, Usable, Apart, Meetings, MadeOnce
<1>5. Here(s, d)'
  BY <1>1, <1>2 DEF Here
<1> QED  BY <1>1, <1>3, <1>4, <1>5, OneShot

LEMMA DeleteSnapshotShots ==
  ASSUME TypeOK, ShotsHold, NEW s \in Snapshot, DeleteSnapshot(s)
  PROVE  ShotsHold'
<1>1. /\ Apart(s) /\ UNCHANGED saved
      /\ snap'[s].st = "Deleting" /\ snap'[s].of = snap[s].of
      /\ dropping'[s] = "queued" /\ taking'[s] = taking[s] /\ snap[s].st \notin {"unborn", "gone"}
      /\ taking[s] # "none" => s \in raced'
  BY DEF DeleteSnapshot, Apart, machines, disks, TypeOK, SnapshotRow, Exists
<1>2. Drawn(s)'
  BY <1>1 DEF ShotsHold, Shot, Drawn, Clean
<1>3. Based(s)'
  BY <1>1, BasedStays
<1>4. ASSUME NEW d \in Disk, Clean(s)', Clean(d), snap'[s].of = d  PROVE Here(s, d)'
  BY <1>1, <1>4 DEF Here, Clean
<1> QED  BY <1>1, <1>2, <1>3, <1>4, OneShot

LEMMA BeginTakingShots ==
  ASSUME TypeOK, ShotsHold, NEW s \in Snapshot, BeginTaking(s)
  PROVE  ShotsHold'
<1>1. /\ Apart(s) /\ UNCHANGED <<snap, saved, dropping, raced, astray>>
      /\ taking'[s] \in {"none", "writing", "failing"} /\ taking[s] = "queued"
  BY DEF BeginTaking, TakeGoTo, Apart, machines, disks, history, TypeOK
<1>2. Drawn(s)'
  BY <1>1 DEF ShotsHold, Shot, Drawn, Clean
<1>3. Based(s)'
  BY <1>1, BasedStays
<1>4. ASSUME NEW d \in Disk, Clean(s)', Clean(d), snap'[s].st # "unborn", snap'[s].of = d
      PROVE  Here(s, d)'
  <2>1. Here(s, d)
    BY <1>1, <1>4 DEF ShotsHold, Shot, Clean
  <2> QED  BY <1>1, <2>1, ApartStays DEF Here
<1> QED  BY <1>1, <1>2, <1>3, <1>4, OneShot

LEMMA TakeShots ==
  ASSUME TypeOK, ShotsHold, NEW s \in Snapshot, Take(s)
  PROVE  ShotsHold'
<1>0. PICK e : e = snap[s].of
  OBVIOUS
<1>1. /\ Apart(s) /\ UNCHANGED <<snap, dropping, raced, astray>> /\ taking[s] = "writing"
      /\ \A d \in Disk \ {e} : saved'[d] = saved[d]
      /\ \/ DiskThere(e) /\ saved'[e] = saved[e] \union {s} /\ taking'[s] = "recording"
         \/ UNCHANGED saved /\ taking'[s] = "failing"
      /\ e \in Disk /\ snap[s].st # "unborn"
  <2>1. e \in Disk /\ snap[s].st # "unborn" /\ taking[s] = "writing"
    BY <1>0 DEF Take, ShotsHold, Shot, Drawn
  <2> QED  BY <1>0, <2>1 DEF Take, TakeGoTo, Apart, machines, disks, history, TypeOK
<1>2. Drawn(s)'
  BY <1>0, <1>1 DEF ShotsHold, Shot, Drawn, Clean
<1>3. Based(s)'
  BY <1>1, BasedStays
<1>4. ASSUME NEW d \in Disk, Clean(s)', Clean(d), snap'[s].st # "unborn", snap'[s].of = d
      PROVE  Here(s, d)'
  <2>1. Here(s, d) /\ Drawn(s) /\ d = e
    BY <1>0, <1>1, <1>4 DEF ShotsHold, Shot, Clean
  <2>2. dropping[s] = "none"
    BY <1>1, <1>4, <2>1 DEF Drawn, Clean
  <2> QED  BY <1>1, <2>1, <2>2, ApartStays DEF Here
<1> QED  BY <1>1, <1>2, <1>3, <1>4, OneShot

LEMMA RecordSnapshotShots ==
  ASSUME TypeOK, ShotsHold, NEW s \in Snapshot, RecordSnapshot(s)
  PROVE  ShotsHold'
<1>1. /\ Apart(s) /\ UNCHANGED <<saved, dropping, raced, astray>>
      /\ taking'[s] = "none" /\ taking[s] # "none" /\ snap'[s].of = snap[s].of
      /\ \/ snap'[s].st = snap[s].st /\ snap[s].st \in {"unborn", "gone"}
         \/ snap'[s].st = "Available" /\ taking[s] = "recording" /\ snap[s].st \notin {"unborn", "gone"}
         \/ snap'[s].st = "Error" /\ snap[s].st \notin {"unborn", "gone"}
  BY DEF RecordSnapshot, TakeGoTo, Exists, Apart, machines, disks, history, TypeOK, SnapshotRow
<1>2. Drawn(s)'
  BY <1>1 DEF ShotsHold, Shot, Drawn, Clean
<1>3. Based(s)'
  BY <1>1, BasedStays
<1>4. ASSUME NEW d \in Disk, Clean(s)', Clean(d), snap'[s].st # "unborn", snap'[s].of = d
      PROVE  Here(s, d)'
  <2>1. Here(s, d)
    BY <1>1, <1>4 DEF ShotsHold, Shot, Clean
  <2> QED  BY <1>1, <1>4, <2>1, ApartStays DEF Here
<1> QED  BY <1>1, <1>2, <1>3, <1>4, OneShot

LEMMA BeginDroppingShots ==
  ASSUME TypeOK, ShotsHold, NEW s \in Snapshot, BeginDropping(s)
  PROVE  ShotsHold'
<1>0. PICK e : e = snap[s].of
  OBVIOUS
<1>1. /\ Apart(s) /\ UNCHANGED <<snap, saved, taking, raced, astray>> /\ dropping[s] = "queued"
      /\ \/ dropping'[s] \in {"none", "failing", "writing"}
         \/ dropping'[s] = "recording" /\ (~DiskThere(e) \/ s \notin saved[e])
  BY <1>0 DEF BeginDropping, DropGoTo, Apart, machines, disks, history, TypeOK
<1>2. Drawn(s)'
  BY <1>1 DEF ShotsHold, Shot, Drawn, Clean
<1>3. Based(s)'
  BY <1>1, BasedStays
<1>4. ASSUME NEW d \in Disk, Clean(s)', Clean(d), snap'[s].st # "unborn", snap'[s].of = d
      PROVE  Here(s, d)'
  <2>1. Here(s, d) /\ d = e /\ (~DiskThere(d) => saved[d] = {})
    BY <1>0, <1>1, <1>4 DEF ShotsHold, Shot, Emptied, Clean
  <2> QED  BY <1>1, <2>1, ApartStays DEF Here
<1> QED  BY <1>1, <1>2, <1>3, <1>4, OneShot

LEMMA DropShots ==
  ASSUME TypeOK, ShotsHold, NEW s \in Snapshot, Drop(s)
  PROVE  ShotsHold'
<1>0. PICK e : e = snap[s].of
  OBVIOUS
<1>1. /\ Apart(s) /\ UNCHANGED <<snap, taking, raced, astray>> /\ dropping[s] = "writing"
      /\ \A d \in Disk : saved'[d] \subseteq saved[d]
      /\ \/ s \notin saved'[e] /\ dropping'[s] = "recording"
         \/ UNCHANGED saved /\ dropping'[s] = "failing"
      /\ e \in Disk
  <2>1. e \in Disk /\ dropping[s] = "writing"
    BY <1>0 DEF Drop, ShotsHold, Shot, Drawn
  <2> QED  BY <1>0, <2>1 DEF Drop, DropGoTo, Apart, machines, disks, history, TypeOK
<1>2. Drawn(s)'
  BY <1>1 DEF ShotsHold, Shot, Drawn, Clean
<1>3. Based(s)'
  BY <1>1, BasedStays
<1>4. ASSUME NEW d \in Disk, Clean(s)', Clean(d), snap'[s].st # "unborn", snap'[s].of = d
      PROVE  Here(s, d)'
  <2>1. Here(s, d) /\ Drawn(s) /\ d = e
    BY <1>0, <1>1, <1>4 DEF ShotsHold, Shot, Clean
  <2>2. taking[s] = "none" /\ snap[s].st \in {"Deleting", "gone"}
    BY <1>1, <1>4, <2>1 DEF Drawn, Clean
  <2> QED  BY <1>1, <2>1, <2>2, ApartStays DEF Here
<1> QED  BY <1>1, <1>2, <1>3, <1>4, OneShot

LEMMA RecordDroppedShots ==
  ASSUME TypeOK, ShotsHold, NEW s \in Snapshot, RecordDropped(s)
  PROVE  ShotsHold'
<1>1. /\ Apart(s) /\ UNCHANGED <<saved, taking, raced, astray>>
      /\ dropping'[s] = "none" /\ dropping[s] # "none" /\ snap'[s].of = snap[s].of
      /\ \/ snap'[s].st = "gone" /\ (dropping[s] = "recording" \/ snap[s].st \in {"unborn", "gone"})
         \/ snap'[s].st = "Error"
  BY DEF RecordDropped, DropGoTo, Exists, Apart, machines, disks, history, TypeOK, SnapshotRow
<1>2. snap[s].st # "unborn"
  BY <1>1 DEF ShotsHold, Shot, Drawn
<1>3. Drawn(s)'
  BY <1>1, <1>2 DEF ShotsHold, Shot, Drawn, Clean
<1>4. Based(s)'
  BY <1>1, <1>2, BasedStays
<1>5. ASSUME NEW d \in Disk, Clean(s)', Clean(d), snap'[s].of = d
      PROVE  Here(s, d)'
  <2>1. Here(s, d) /\ Drawn(s)
    BY <1>1, <1>2, <1>5 DEF ShotsHold, Shot, Clean
  <2>2. taking[s] = "none"
    BY <1>1, <1>5, <2>1 DEF Drawn, Clean
  <2> QED  BY <1>1, <1>2, <2>1, <2>2, ApartStays DEF Here
<1> QED  BY <1>1, <1>3, <1>4, <1>5, OneShot

\* The same for each kind of step.
LEMMA TurnShots ==
  ASSUME TypeOK, Purposes, EngineFollows, FilesAreKept, ShotsHold, NEW q \in Request,
         raced \subseteq raced', astray \subseteq astray',
         \/ QuietTurn(q) \/ CommitAttach(q) \/ CommitDetach(q) \/ Compact(q)
         \/ RemoveRows(q) \/ Terminate(q)
  PROVE  ShotsHold'
BY UnlinkShots, DestroyShots, DestroyFailsShots, QuietTurnShots, CommitShots, RemoveRowsShots,
   TerminateShots

LEMMA OtherShots ==
  ASSUME TypeOK, Meetings, ShotsHold, OtherStep \/ UNCHANGED vars
  PROVE  ShotsHold'
<1>1. ASSUME NEW s \in Snapshot, NEW d \in Disk, CreateSnapshot(s, d)  PROVE ShotsHold'
  BY <1>1, CreateSnapshotShots
<1>2. ASSUME NEW s \in Snapshot, DeleteSnapshot(s)  PROVE ShotsHold'
  BY <1>2, DeleteSnapshotShots
<1>3. ASSUME NEW s \in Snapshot, SnapshotJob(s)  PROVE ShotsHold'
  BY <1>3, BeginTakingShots, TakeShots, RecordSnapshotShots, BeginDroppingShots, DropShots,
     RecordDroppedShots DEF SnapshotJob
<1>4. ASSUME NEW i \in Instance, Reconcile(i) \/ GuestPowersOff(i) \/ UNCHANGED vars  PROVE ShotsHold'
  BY <1>4, MachineShots
<1>5. \E i \in Instance : TRUE
  BY VolumesAssumption
<1> QED  BY <1>1, <1>2, <1>3, <1>4, <1>5 DEF OtherStep

LEMMA ShotsSteps ==
  ASSUME TypeOK, Purposes, Meetings, EngineFollows, FilesAreKept, ShotsHold, [Next]_vars
  PROVE  ShotsHold'
<1>1. raced \subseteq raced' /\ astray \subseteq astray'
  BY NotesGrow
<1>2. CASE OtherStep \/ UNCHANGED vars
  BY <1>2, OtherShots
<1>3. CASE Crash
  BY <1>3, CrashShots
<1>4. ASSUME NEW v \in Volume, CreateVolume(v) \/ VolumeJob(v)  PROVE ShotsHold'
  BY <1>1, <1>4, JobShots
<1>5. ASSUME NEW q \in Request,
             \/ QuietTurn(q) \/ CommitAttach(q) \/ CommitDetach(q) \/ Compact(q)
             \/ RemoveRows(q) \/ Terminate(q)
      PROVE  ShotsHold'
  BY <1>1, <1>5, TurnShots
<1>6. ASSUME NEW q \in Request,
             \/ \E v \in Volume, i \in Instance : LoadAttach(q, v, i) \/ LoadDetach(q, v, i)
             \/ \E v \in Volume : LoadDelete(q, v)
             \/ \E i \in Instance : LoadStart(q, i) \/ LoadStop(q, i) \/ LoadTerminate(q, i)
             \/ \E s \in Snapshot : Restore(q, s)
      PROVE  ShotsHold'
  <2>1. \E r : Admitted(q, r)
    BY <1>6, LoadAttachAdmits, LoadDetachAdmits, LoadDeleteAdmits, LoadStartAdmits, LoadStopAdmits,
       LoadTerminateAdmits, RestoreAdmits
  <2> QED  BY <1>1, <2>1, AdmissionShots
<1> QED  BY <1>2, <1>3, <1>4, <1>5, <1>6, Kinds

LEMMA SnapshotsFollow ==
  ASSUME TypeOK, ShotsHold  PROVE SnapshotsAreThere /\ NoSnapshotLeft
<1>1. ASSUME NEW s \in Snapshot, snap[s].st = "Available", Clean(s), Clean(snap[s].of)
      PROVE  s \in saved[snap[s].of] \/ DiskGoing(snap[s].of)
  <2>1. PICK d \in Disk : d = snap[s].of
    BY <1>1 DEF ShotsHold, Shot, Drawn
  <2>2. Here(s, d)
    BY <1>1, <2>1 DEF ShotsHold, Shot
  <2> QED  BY <1>1, <2>1, <2>2 DEF Here
<1>2. ASSUME NEW d \in Disk, NEW s \in saved[d], Clean(s), Clean(d)
      PROVE  Exists(snap[s])
  <2>1. s \in Snapshot
    BY DEF TypeOK
  <2>2. snap[s].of = d /\ snap[s].st # "unborn"
    BY <2>1 DEF ShotsHold, Shot, Drawn
  <2>3. Here(s, d)
    BY <1>2, <2>1, <2>2 DEF ShotsHold, Shot
  <2> QED  BY <2>2, <2>3 DEF Here, Exists
<1> QED  BY <1>1, <1>2 DEF SnapshotsAreThere, NoSnapshotLeft

-----------------------------------------------------------------------------
(***************************************************************************)
(* The theorems                                                            *)
(***************************************************************************)

LEMMA OtherTypes ==
  ASSUME TypeOK, Purposes, OtherStep \/ UNCHANGED vars  PROVE TypeOK' /\ Purposes'
<1>1. ASSUME NEW s \in Snapshot, NEW d \in Disk, CreateSnapshot(s, d)  PROVE TypeOK' /\ Purposes'
  BY <1>1, CreateSnapshotTypes
<1>2. ASSUME NEW s \in Snapshot, DeleteSnapshot(s) \/ SnapshotJob(s)  PROVE TypeOK' /\ Purposes'
  BY <1>2, DeleteSnapshotTypes, BeginTakingTypes, TakeTypes, RecordSnapshotTypes, BeginDroppingTypes,
     DropTypes, RecordDroppedTypes DEF SnapshotJob
<1>3. ASSUME NEW i \in Instance, Reconcile(i) \/ GuestPowersOff(i)  PROVE TypeOK' /\ Purposes'
  BY <1>3, ReconcileTypes, GuestPowersOffTypes
<1>4. ASSUME UNCHANGED vars  PROVE TypeOK' /\ Purposes'
  BY <1>4 DEF vars, machines, disks, shots, history, TypeOK, Purposes, Purpose
<1> QED  BY <1>1, <1>2, <1>3, <1>4 DEF OtherStep

LEMMA TypesSteps ==
  ASSUME TypeOK, Purposes, Meetings, [Next]_vars  PROVE TypeOK' /\ Purposes'
<1>1. CASE OtherStep \/ UNCHANGED vars
  BY <1>1, OtherTypes
<1>2. CASE Crash
  BY <1>2, CrashTypes
<1>3. ASSUME NEW v \in Volume, CreateVolume(v) \/ VolumeJob(v)  PROVE TypeOK' /\ Purposes'
  BY <1>3, CreateVolumeTypes, BeginMakingTypes, MakeFileTypes, RecordVolumeTypes DEF VolumeJob, Meetings
<1>4. ASSUME NEW q \in Request,
             \/ QuietTurn(q) \/ CommitAttach(q) \/ CommitDetach(q) \/ Compact(q)
             \/ RemoveRows(q) \/ Terminate(q)
      PROVE  TypeOK' /\ Purposes'
  BY <1>4, CommitAttachTypes, CommitDetachTypes, CompactTypes, ReadPathsTypes, SetVolumesTypes,
     SetVolumesFailsTypes, UnlinkTypes, RemoveRowsTypes, SpawnTypes, FindRunningTypes, SpawnFailsTypes,
     EndStartTypes, BootFailsTypes, HaltTypes, EndStopTypes, DestroyTypes, DestroyFailsTypes,
     TerminateTypes, EndRestoreTypes DEF QuietTurn
<1>5. ASSUME NEW q \in Request,
             \/ \E v \in Volume, i \in Instance : LoadAttach(q, v, i) \/ LoadDetach(q, v, i)
             \/ \E v \in Volume : LoadDelete(q, v)
             \/ \E i \in Instance : LoadStart(q, i) \/ LoadStop(q, i) \/ LoadTerminate(q, i)
             \/ \E s \in Snapshot : Restore(q, s)
      PROVE  TypeOK' /\ Purposes'
  <2>1. \E r : Admitted(q, r)
    BY <1>5, LoadAttachAdmits, LoadDetachAdmits, LoadDeleteAdmits, LoadStartAdmits, LoadStopAdmits,
       LoadTerminateAdmits, RestoreAdmits
  <2> QED  BY <2>1, AdmittedTypes
<1> QED  BY <1>1, <1>2, <1>3, <1>4, <1>5, Kinds

\* What holds of the rows, the files, the snapshots and the engine together:
\* each part needs the ones before it.
VolumesInductive ==
  TypeOK /\ Purposes /\ Meetings /\ EngineFollows /\ FilesAreKept /\ ShotsHold

\* Whatever overlaps, fails or crashes, the requests go on as they began,
\* and the rows, lists, files and snapshots nothing raced on follow.
THEOREM VolumesInvariant == Spec => []VolumesInductive
<1>1. Init => VolumesInductive
  BY FirstTypes, FirstMeetings, FirstFollows, FirstFiles, FirstShots DEF VolumesInductive
<1>2. VolumesInductive /\ Inductive /\ [Next]_vars => VolumesInductive'
  <2> SUFFICES ASSUME VolumesInductive, Inductive, [Next]_vars  PROVE VolumesInductive'
    OBVIOUS
  <2> USE DEF VolumesInductive
  <2>1. Overlaps
    BY DEF Inductive
  <2>2. TypeOK' /\ Purposes'
    BY TypesSteps
  <2>3. Meetings'
    BY <2>1, MeetingsSteps
  <2>4. EngineFollows'
    BY <2>1, <2>2, EngineFollowsSteps
  <2>5. FilesAreKept'
    BY <2>1, FilesSteps
  <2>6. ShotsHold'
    BY ShotsSteps
  <2> QED  BY <2>2, <2>3, <2>4, <2>5, <2>6
<1> QED  BY <1>1, <1>2, InductiveInvariant, PTL DEF Spec

\* Every variable has its type, and a volume has an owner and a place
\* exactly while it is Attached.
THEOREM VolumesTypes == Spec => []TypeOK
BY VolumesInvariant, PTL DEF VolumesInductive

\* An instance whose requests did not overlap, and that no failure left half
\* done, boots with the volumes its rows name, each at its place, and a live
\* guest has them open: attach, detach and renumbering reach the engine.
THEOREM EngineIsTold == Spec => []EngineFollowsRows
<1>1. VolumesInductive => EngineFollowsRows
  BY RowsReached DEF VolumesInductive
<1> QED  BY <1>1, VolumesInvariant, PTL

\* However many instances and volumes there are, two guests write to one
\* volume only if requests overlapped on an instance or one failed half way.
THEOREM OneGuestWrites == Spec => []OneWriter
<1>1. VolumesInductive => OneWriter
  BY OneWriterFollows DEF VolumesInductive
<1> QED  BY <1>1, VolumesInvariant, PTL

\* A volume that can be attached has its file, and no file outlives its row,
\* whichever of creation, deletion and crash came first.
THEOREM FilesHold == Spec => []FilesFollowRows
<1>1. VolumesInductive => FilesFollowRows
  BY FilesFollow DEF VolumesInductive
<1> QED  BY <1>1, VolumesInvariant, PTL

\* A snapshot that says Available can be restored: it is in its disk, unless
\* that disk is being removed.
THEOREM SnapshotsHold == Spec => []SnapshotsAreThere
<1>1. VolumesInductive => SnapshotsAreThere
  BY SnapshotsFollow DEF VolumesInductive
<1> QED  BY <1>1, VolumesInvariant, PTL

\* A snapshot that was deleted does not stay inside its disk.
THEOREM NoSnapshotIsLeft == Spec => []NoSnapshotLeft
<1>1. VolumesInductive => NoSnapshotLeft
  BY SnapshotsFollow DEF VolumesInductive
<1> QED  BY <1>1, VolumesInvariant, PTL
=============================================================================
