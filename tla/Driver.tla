------------------------------- MODULE Driver -------------------------------
(***************************************************************************)
(* The QEMU driver: a directory per instance name, with the runtime file   *)
(* that pins its ports and records its process, and the processes.         *)
(*                                                                         *)
(* The directory is the state; nothing is kept in memory.  Every call      *)
(* reads runtime.json, acts on the process it names, and writes back the   *)
(* copy it read, so two calls on one name can overwrite each other; ports  *)
(* are picked by looking, and taken by a later write.                      *)
(*                                                                         *)
(* The three ports of an instance come from three pools in one way; the    *)
(* model has one pool.                                                     *)
(***************************************************************************)
EXTENDS Integers, FiniteSets

CONSTANTS
  Name,      \* instance names
  Pid,       \* process identifiers
  Port,      \* the pool pinned ports come from
  Public,    \* host ports users forward
  Thread,    \* threads running requests and jobs
  NoPid, Nobody, Stranger, \* no process; no one's; another program's
  MaxCalls,  \* bound: calls accepted
  MaxFaults  \* bound: failures, crashes, guests that leave, strangers

ASSUME DriverAssumption ==
  /\ Port \subseteq Nat /\ Public \subseteq Nat /\ Port \intersect Public = {}
  /\ IsFiniteSet(Port) /\ IsFiniteSet(Name)
  /\ NoPid \notin Pid
  /\ Nobody \notin Name /\ Stranger \notin Name /\ Nobody # Stranger
  /\ MaxCalls \in Nat /\ MaxFaults \in Nat

VARIABLES
  dir,      \* the directory of each name
  proc,     \* the process table
  taken,    \* ports other programs listen on
  standing, \* the status column of the instance of that name
  filed,    \* the port_forwards table
  call,     \* what each thread is doing
  raced,    \* history: names on which calls overlapped
  astray,   \* history: names on which something failed half way
  budget    \* calls and faults left

host       == <<dir, proc, taken>>
tables     == <<standing, filed>>
past       == <<raced, astray>>
driverVars == <<host, tables, call, past, budget>>

-----------------------------------------------------------------------------
NoPort == -1

Runtime   == [port : Port \union {NoPort}, pid : Pid \union {NoPid}, fwd : SUBSET Public]
NoRuntime == [port |-> NoPort, pid |-> NoPid, fwd |-> {}]

\* A disk is part of a copy, a copy of a disk in use, or whole.
Directory == [made : BOOLEAN, disk : {"none", "part", "torn", "whole"}, run : Runtime]
NoDirectory == [made |-> FALSE, disk |-> "none", run |-> NoRuntime]

\* A process that could not bind its ports has none, and is about to exit.
Process == [of : Name \union {Nobody, Stranger}, port : Port \union {NoPort},
            fwd : SUBSET Public]
Free == [of |-> Nobody, port |-> NoPort, fwd |-> {}]

CallRecord ==
  [pc : {"idle", "building", "allocating", "pinning", "spawning", "spawned", "waiting",
         "reading", "halting", "destroying", "removing",
         "checking", "copying", "applying", "writing", "filing"},
   op : {"launch", "clone", "start", "stop", "restart", "delete", "forward", "unforward"},
   n  : Name \union {Nobody}, from : Name \union {Nobody}, run : Runtime, f : SUBSET Public]

NoRequest == [pc |-> "idle", op |-> "launch", n |-> Nobody, from |-> Nobody,
              run |-> NoRuntime, f |-> {}]

Status == {"none", "Launching", "Running", "Stopped", "Error"}

-----------------------------------------------------------------------------
(***************************************************************************)
(* What the driver can find out.                                           *)
(***************************************************************************)

\* Something is bound to the port: is_port_free says no.
InUse(x) ==
  \/ x \in taken
  \/ \E p \in Pid : x = proc[p].port \/ x \in proc[p].fwd

\* pid_alive: a process has this number, whoever's it is.
PidAlive(pid) == pid # NoPid /\ proc[pid].of # Nobody

\* The QEMU that answers on this port.
Listening(x) == {p \in Pid : proc[p].of \in Name /\ proc[p].port = x}

\* _liveness: the number exists and something holds the port, whether it
\* answers or is busy.
IsRunning(r) == PidAlive(r.pid) /\ InUse(r.port)

HasRuntime(n) == dir[n].run # NoRuntime

\* get_instance_info
Report(n) ==
  CASE ~dir[n].made                          -> "absent"
    [] dir[n].made /\ ~HasRuntime(n)         -> "bare"
    [] HasRuntime(n) /\ IsRunning(dir[n].run)  -> "running"
    [] HasRuntime(n) /\ ~IsRunning(dir[n].run) -> "stopped"

StatusOf(report) ==
  CASE report = "running" -> "Running"
    [] report = "stopped" -> "Stopped"
    [] report \in {"absent", "bare"} -> "Error"

\* Mutant: only the ports of instances that run.
ReservedByRunning(n) ==
  {dir[m].run.port : m \in {k \in Name \ {n} : HasRuntime(k) /\ IsRunning(dir[k].run)}}

\* _reserved_ports: by every other instance, running or not.
Reserved(n) == {dir[m].run.port : m \in {k \in Name \ {n} : HasRuntime(k)}}

\* allocate_port: candidates; the lowest is taken.
Allocatable(n) == {x \in Port \ Reserved(n) : ~InUse(x)}

Lowest(S) == CHOOSE x \in S : \A y \in S : x <= y

-----------------------------------------------------------------------------
(***************************************************************************)
(* Threads                                                                 *)
(***************************************************************************)

WorksOn(q, n) == call[q].pc # "idle" /\ n \in {call[q].n, call[q].from}
Idle(n)       == \A q \in Thread : ~WorksOn(q, n)

At(q, pc)    == call[q].pc = pc
Goto(q, pc)  == call' = [call EXCEPT ![q].pc = pc]
Leave(q)     == call' = [call EXCEPT ![q] = NoRequest]
Fault        == budget.faults > 0 /\ budget' = [budget EXCEPT !.faults = @ - 1]

NamesOf(c) == {c.n, c.from}

\* Nothing but the watchdog looks at the claims: calls overlap freely.
Accept(q, r) ==
  LET others == {k \in Thread : \E n \in NamesOf(r) : WorksOn(k, n)} IN
  /\ At(q, "idle")
  /\ budget.calls > 0 /\ budget' = [budget EXCEPT !.calls = @ - 1]
  /\ call' = [call EXCEPT ![q] = r]
  /\ raced' = raced \union (IF others = {} THEN {} ELSE NamesOf(r))
                  \union UNION {NamesOf(call[k]) : k \in others}
  /\ UNCHANGED <<host, filed, astray>>

Ask(op, n, pc) == [NoRequest EXCEPT !.op = op, !.n = n, !.from = n, !.pc = pc]

\* A row that is gone is not written to.
SetStanding(n, st) ==
  standing' = IF standing[n] = "none" THEN standing ELSE [standing EXCEPT ![n] = st]

\* _mark_error, _fail_provisioning: the row says Error and the call ends.
Fail(q) == Leave(q) /\ SetStanding(call[q].n, "Error")

\* _apply_info: a launch that is not there yet is left to its job.
Takes(n) == SetStanding(n, IF standing[n] = "Launching" /\ ~dir[n].made
                             THEN "Launching" ELSE StatusOf(Report(n)))

\* _sync_instance: the row takes over what the driver reports.
Succeed(q) == Leave(q) /\ Takes(call[q].n)

\* What a thread leaves alone unless it says otherwise.
NoTables == UNCHANGED <<tables, past, budget>>
NoHost   == UNCHANGED <<host>>

WriteRuntime(n, r) ==
  dir' = [dir EXCEPT ![n].made = TRUE, ![n].run = r]

HoldsDisk(n) == {p \in Pid : proc[p].of = n}

\* Those that run a guest: a QEMU without its ports exits before it does.
Guests(n) == {p \in HoldsDisk(n) : proc[p].port # NoPort}

Without(pids) == [p \in Pid |-> IF p \in pids THEN Free ELSE proc[p]]

-----------------------------------------------------------------------------
(***************************************************************************)
(* The routes, up to the moment the driver is called.                      *)
(***************************************************************************)

Launch(q) == \E n \in Name :
  /\ standing[n] = "none"
  /\ Accept(q, Ask("launch", n, "building"))
  /\ standing' = [standing EXCEPT ![n] = "Launching"]

Clone(q) == \E n, s \in Name :
  /\ standing[n] = "none" /\ standing[s] = "Stopped"
  /\ Accept(q, [Ask("clone", n, "checking") EXCEPT !.from = s])
  /\ standing' = [standing EXCEPT ![n] = "Launching"]

Start(q) == \E n \in Name :
  /\ standing[n] = "Stopped"
  /\ Accept(q, Ask("start", n, "reading"))
  /\ UNCHANGED standing

Stop(q) == \E n \in Name, op \in {"stop", "restart"} :
  /\ standing[n] = "Running"
  /\ Accept(q, Ask(op, n, "reading"))
  /\ UNCHANGED standing

Delete(q) == \E n \in Name :
  /\ standing[n] # "none"
  /\ Accept(q, Ask("delete", n, "destroying"))
  /\ UNCHANGED standing

\* _check_collision: outside the pools, and on nobody's record.  Whether it
\* is bound is for QEMU to find out.
Forward(q) == \E n \in Name, f \in Public :
  /\ standing[n] # "none"
  /\ \A m \in Name : f \notin filed[m]
  /\ Accept(q, [Ask("forward", n, "reading") EXCEPT !.f = {f}])
  /\ UNCHANGED standing

Unforward(q) == \E n \in Name, f \in Public :
  /\ f \in filed[n]
  /\ Accept(q, [Ask("unforward", n, "reading") EXCEPT !.f = {f}])
  /\ UNCHANGED standing

Request(q) ==
  Launch(q) \/ Clone(q) \/ Start(q) \/ Stop(q) \/ Delete(q) \/ Forward(q) \/ Unforward(q)

-----------------------------------------------------------------------------
(***************************************************************************)
(* A launch: provision_instance.                                           *)
(***************************************************************************)

\* A leftover directory goes; the disk is an overlay or a blank one, and
\* the seed is written.
BuildDisk(q) == LET n == call[q].n IN
  /\ At(q, "building")
  /\ dir' = [dir EXCEPT ![n] = [NoDirectory EXCEPT !.made = TRUE, !.disk = "whole"]]
  /\ Goto(q, "allocating")
  /\ UNCHANGED <<proc, taken>> /\ NoTables

\* The base image, qemu-img or the seed failed: the directory goes again.
BuildFails(q) == LET n == call[q].n IN
  /\ At(q, "building")
  /\ Fault
  /\ dir' = [dir EXCEPT ![n] = NoDirectory]
  /\ Fail(q)
  /\ UNCHANGED <<proc, taken, filed, past>>

\* The leftover's disk is held open: what is left of the leftover stays.
LeftoverHeld(q) == LET n == call[q].n IN
  /\ At(q, "building") /\ dir[n].made /\ HoldsDisk(n) # {}
  /\ Fail(q)
  /\ UNCHANGED <<host, filed, past, budget>>

\* _allocate_runtime: the port is noted only in the caller's copy.  Two
\* calls between this step and the next may have picked the same one.
Allocate(q) == LET n == call[q].n
                   also == {call[k].n : k \in {k \in Thread : At(k, "pinning")}} IN
  /\ At(q, "allocating")
  /\ Allocatable(n) # {}
  /\ call' = [call EXCEPT ![q].pc = "pinning",
                          ![q].run = [NoRuntime EXCEPT !.port = Lowest(Allocatable(n))]]
  /\ raced' = IF also = {} THEN raced ELSE raced \union also \union {n}
  /\ NoHost /\ UNCHANGED <<tables, astray, budget>>

\* No port: a launch takes its directory away and fails; boot_cloned_instance
\* lets PortAllocationError through and _clone_job does not catch it, so the
\* row of the clone says Provisioning from then on.
NoPortLeft(q) == LET n == call[q].n IN
  /\ At(q, "allocating")
  /\ Allocatable(n) = {}
  /\ IF call[q].op = "launch"
       THEN Fail(q) /\ dir' = [dir EXCEPT ![n] = NoDirectory]
       ELSE Leave(q) /\ UNCHANGED <<standing, dir>>
  /\ UNCHANGED <<proc, taken, filed, past, budget>>

Pin(q) ==
  /\ At(q, "pinning")
  /\ WriteRuntime(call[q].n, call[q].run)
  /\ Goto(q, "spawning")
  /\ UNCHANGED <<proc, taken>> /\ NoTables

-----------------------------------------------------------------------------
(***************************************************************************)
(* Booting: launches, clones, starts and restarts.                         *)
(***************************************************************************)

\* A QEMU that finds one of its ports bound gets none, and will exit.  A
\* guest that comes up while its disk is being copied spoils the copy.
Spawn(q) ==
  LET n == call[q].n
      r == call[q].run
      bound == ~InUse(r.port) /\ \A f \in r.fwd : ~InUse(f)
      copies == {call[k].n : k \in {k \in Thread : At(k, "copying") /\ call[k].from = n /\ bound}}
  IN
  /\ At(q, "spawning")
  /\ \E p \in Pid :
       /\ proc[p] = Free
       /\ proc' = [proc EXCEPT ![p] =
            [of |-> n, port |-> IF bound THEN r.port ELSE NoPort,
             fwd |-> IF bound THEN r.fwd ELSE {}]]
       /\ call' = [call EXCEPT ![q].pc = "spawned", ![q].run.pid = p]
  /\ dir' = [m \in Name |-> IF m \in copies THEN [dir[m] EXCEPT !.disk = "torn"] ELSE dir[m]]
  /\ UNCHANGED taken /\ NoTables

\* No binary: a launch is marked, a start answers 503 and marks nothing.
SpawnFails(q) ==
  /\ At(q, "spawning")
  /\ Fault
  /\ IF call[q].op \in {"launch", "clone"} THEN Fail(q) ELSE Leave(q) /\ UNCHANGED standing
  /\ NoHost /\ UNCHANGED <<filed, past>>

RecordPid(q) ==
  /\ At(q, "spawned")
  /\ WriteRuntime(call[q].n, call[q].run)
  /\ Goto(q, "waiting")
  /\ UNCHANGED <<proc, taken>> /\ NoTables

\* The write failed: a guest runs that no file names.
RecordFails(q) ==
  /\ At(q, "spawned")
  /\ Fault
  /\ astray' = astray \union {call[q].n}
  /\ Fail(q)
  /\ NoHost /\ UNCHANGED <<filed, raced>>

\* _wait_for_ssh, _wait_for_qmp: the process is there and something answers
\* on its port.  A clone that runs without SSH is not waited for.
BootOk(q) ==
  /\ At(q, "waiting")
  /\ \/ PidAlive(call[q].run.pid) /\ Listening(call[q].run.port) # {}
     \/ call[q].op = "clone"
  /\ Succeed(q)
  /\ NoHost /\ UNCHANGED <<filed, past, budget>>

\* It exited, or did not answer in time, which costs a fault.  Only a launch
\* puts the guest out (_force_off); the others leave it as it is.
BootFails(q) ==
  /\ At(q, "waiting")
  /\ IF PidAlive(call[q].run.pid) THEN Fault ELSE UNCHANGED budget
  /\ IF call[q].op = "launch"
       THEN /\ proc' = Without({call[q].run.pid} \intersect Pid) /\ Goto(q, "halting")
            /\ UNCHANGED standing
       ELSE Fail(q) /\ UNCHANGED proc
  /\ UNCHANGED <<dir, taken, filed, past>>

-----------------------------------------------------------------------------
(***************************************************************************)
(* start_instance, stop_instance, restart_instance.                        *)
(***************************************************************************)

\* _require_runtime
NothingToRead(q) ==
  /\ At(q, "reading")
  /\ ~HasRuntime(call[q].n)
  /\ IF call[q].op \in {"forward", "unforward"}
       THEN Leave(q) /\ UNCHANGED standing
       ELSE Fail(q)
  /\ NoHost /\ UNCHANGED <<filed, past, budget>>

\* From here on the call works on the copy it read.
Read(q, ops, pc) ==
  /\ At(q, "reading") /\ call[q].op \in ops
  /\ HasRuntime(call[q].n)
  /\ call' = [call EXCEPT ![q].pc = pc, ![q].run = dir[call[q].n].run]

AlreadyUp(q) ==
  /\ At(q, "reading") /\ call[q].op = "start"
  /\ HasRuntime(call[q].n) /\ IsRunning(dir[call[q].n].run)
  /\ Succeed(q)
  /\ NoHost /\ UNCHANGED <<filed, past, budget>>

\* The pinned ports are waited for; a start does not move to others.
PortsFree(q) ==
  /\ Read(q, {"start"}, "spawning")
  /\ ~IsRunning(dir[call[q].n].run) /\ ~InUse(dir[call[q].n].run.port)
  /\ NoHost /\ NoTables

PortsBusy(q) == LET r == dir[call[q].n].run IN
  /\ At(q, "reading") /\ call[q].op = "start"
  /\ HasRuntime(call[q].n) /\ ~IsRunning(r) /\ InUse(r.port)
  /\ Fail(q)
  /\ NoHost /\ UNCHANGED <<filed, past, budget>>

ReadToStop(q) ==
  /\ Read(q, {"stop", "restart"}, "halting")
  /\ NoHost /\ NoTables

\* system_powerdown: whoever answers on the port may obey.
PowerDown(q) ==
  /\ At(q, "halting")
  /\ Listening(call[q].run.port) # {}
  /\ proc' = Without(Listening(call[q].run.port))
  /\ UNCHANGED <<dir, taken, call>> /\ NoTables

\* _force_off after the grace period: the number is put out, whoever's it
\* is by now.
HaltTimeout(q) ==
  /\ At(q, "halting") /\ PidAlive(call[q].run.pid)
  /\ proc' = Without({call[q].run.pid})
  /\ UNCHANGED <<dir, taken, call>> /\ NoTables

\* _clear_pid: the old copy, without a process, if there is a directory.
\* A restart goes on to start, a launch has failed.
ClearPid(q) == LET n == call[q].n IN
  /\ dir' = IF dir[n].made THEN [dir EXCEPT ![n].run = [call[q].run EXCEPT !.pid = NoPid]]
             ELSE dir
  /\ CASE call[q].op = "restart" ->
            call' = [call EXCEPT ![q] = Ask("start", n, "reading")] /\ UNCHANGED standing
       [] call[q].op = "launch" -> Fail(q)
       [] call[q].op = "stop" ->
            Leave(q) /\ SetStanding(n, IF dir[n].made THEN "Stopped" ELSE "Error")
  /\ UNCHANGED <<proc, taken, filed, past, budget>>

\* Mutant: the record is cleared after the grace period, come what may.
HaltedOrNot(q) == At(q, "halting") /\ ClearPid(q)

Halted(q) == At(q, "halting") /\ ~PidAlive(call[q].run.pid) /\ ClearPid(q)

-----------------------------------------------------------------------------
(***************************************************************************)
(* destroy_instance                                                        *)
(***************************************************************************)

\* Mutant: the directory goes without the guest.
QuitNothing(q) ==
  /\ At(q, "destroying")
  /\ Goto(q, "removing")
  /\ NoHost /\ NoTables

\* quit_vm asks who is on the port, which may do nothing; then the number
\* is put out.  A guest that no file names is not noticed.
Quit(q) == LET r == dir[call[q].n].run IN
  /\ At(q, "destroying")
  /\ \E quits \in {{}, Listening(r.port)} :
       proc' = IF PidAlive(r.pid) THEN Without({r.pid} \union quits) ELSE proc
  /\ Goto(q, "removing")
  /\ UNCHANGED <<dir, taken>> /\ NoTables

\* _remove_dir, and the row is Terminated with its forwards.  What was said
\* of the name is settled when nothing of it is left.
Remove(q) ==
  LET n == call[q].n
      last == HoldsDisk(n) = {} /\ \A k \in Thread \ {q} : ~WorksOn(k, n) IN
  /\ At(q, "removing")
  /\ dir' = [dir EXCEPT ![n] = NoDirectory]
  /\ standing' = [standing EXCEPT ![n] = "none"]
  /\ filed' = [filed EXCEPT ![n] = {}]
  /\ raced' = IF last THEN raced \ {n} ELSE raced
  /\ astray' = IF last THEN astray \ {n} ELSE astray
  /\ Leave(q)
  /\ UNCHANGED <<proc, taken, budget>>

\* A process holds the disk (on Windows): some of the files are gone.
RemoveFails(q) == LET n == call[q].n IN
  /\ At(q, "removing") /\ HoldsDisk(n) # {} /\ dir[n].made
  /\ \E left \in {dir[n].run, NoRuntime} : dir' = [dir EXCEPT ![n].run = left]
  /\ astray' = astray \union {n}
  /\ Fail(q)
  /\ UNCHANGED <<proc, taken, filed, raced, budget>>

\* delete?force=true: the row is cleared and the rest stays.
ForceDelete(q) == LET n == call[q].n IN
  /\ At(q, "removing") /\ HoldsDisk(n) # {} /\ dir[n].made
  /\ standing' = [standing EXCEPT ![n] = "none"]
  /\ filed' = [filed EXCEPT ![n] = {}]
  /\ astray' = astray \union {n}
  /\ Leave(q)
  /\ NoHost /\ UNCHANGED <<raced, budget>>

-----------------------------------------------------------------------------
(***************************************************************************)
(* clone_disk; the rest of a clone is allocating and booting.              *)
(***************************************************************************)

CloneRefused(q) == LET s == call[q].from IN
  /\ At(q, "checking")
  /\ dir[s].disk = "none" \/ (HasRuntime(s) /\ IsRunning(dir[s].run))
  /\ Fail(q)
  /\ NoHost /\ UNCHANGED <<filed, past, budget>>

\* The directory of the target is made, not emptied; a guest that runs on the
\* source's disk spoils the copy.  The copy of a source in doubt is in
\* doubt.
Copy(q) == LET n == call[q].n  s == call[q].from IN
  /\ At(q, "checking")
  /\ dir[s].disk # "none" /\ ~(HasRuntime(s) /\ IsRunning(dir[s].run))
  /\ dir' = [dir EXCEPT ![n].made = TRUE,
                        ![n].disk = IF Guests(s) = {} THEN "part" ELSE "torn"]
  /\ Goto(q, "copying")
  /\ astray' = IF s \in raced \union astray THEN astray \union {n} ELSE astray
  /\ UNCHANGED <<proc, taken, tables, raced, budget>>

Whole(disk) == IF disk = "part" THEN "whole" ELSE disk

Copied(q) == LET n == call[q].n IN
  /\ At(q, "copying")
  /\ dir' = [dir EXCEPT ![n].disk = Whole(@)]
  /\ Goto(q, "allocating")
  /\ UNCHANGED <<proc, taken>> /\ NoTables

\* Mutant: a timeout is an overrun, and the copy is taken as it is.
CopyTimesOutTrusted(q) ==
  /\ At(q, "copying")
  /\ Fault
  /\ Goto(q, "allocating")
  /\ NoHost /\ UNCHANGED <<tables, past>>

\* qemu-img was killed: before the end, and the check of the image says so
\* and the target stays as it is; or after it, and the copy is accepted.
CopyTimesOut(q) == LET n == call[q].n IN
  /\ At(q, "copying")
  /\ Fault
  /\ \/ Fail(q) /\ UNCHANGED dir
     \/ /\ dir' = [dir EXCEPT ![n].disk = Whole(@)]
        /\ Goto(q, "allocating") /\ UNCHANGED standing
  /\ UNCHANGED <<proc, taken, filed, past>>

-----------------------------------------------------------------------------
(***************************************************************************)
(* add_port_forward, remove_port_forward.                                  *)
(***************************************************************************)

ReadToForward(q) == LET r == dir[call[q].n].run IN
  /\ Read(q, {"forward", "unforward"},
          IF call[q].op = "forward" /\ call[q].f \subseteq r.fwd THEN "filing"
          ELSE IF IsRunning(r) THEN "applying" ELSE "writing")
  /\ NoHost /\ NoTables

Changed(q, fwd) ==
  IF call[q].op = "forward" THEN fwd \union call[q].f ELSE fwd \ call[q].f

\* Mutant: the file first, and QEMU on the next start.
ApplyLater(q) ==
  /\ At(q, "applying")
  /\ Goto(q, "writing")
  /\ NoHost /\ NoTables

\* hostfwd_add, hostfwd_remove at the QEMU on the port, which is another
\* instance's when this one was deleted and its port given away meanwhile.
Apply(q) ==
  /\ At(q, "applying")
  /\ call[q].op = "forward" => \A f \in call[q].f : ~InUse(f)
  /\ \E p \in Listening(call[q].run.port) :
       /\ proc' = [proc EXCEPT ![p].fwd = Changed(q, @)]
       /\ raced' = IF proc[p].of = call[q].n THEN raced ELSE raced \union {proc[p].of}
  /\ Goto(q, "writing")
  /\ UNCHANGED <<dir, taken, tables, astray, budget>>

\* No one answers, the port is bound, or QMP fails: 502 and nothing changed.
ApplyFails(q) ==
  /\ At(q, "applying")
  /\ IF \/ Listening(call[q].run.port) = {}
        \/ call[q].op = "forward" /\ \E f \in call[q].f : InUse(f)
       THEN UNCHANGED budget ELSE Fault
  /\ Leave(q)
  /\ NoHost /\ UNCHANGED <<tables, past>>

\* The copy that was read, with the change; the directory is made if it has
\* gone meanwhile.
WriteForward(q) == LET r == call[q].run IN
  /\ At(q, "writing")
  /\ WriteRuntime(call[q].n, [r EXCEPT !.fwd = Changed(q, @)])
  /\ Goto(q, "filing")
  /\ UNCHANGED <<proc, taken>> /\ NoTables

FileForward(q) == LET n == call[q].n IN
  /\ At(q, "filing")
  /\ filed' = [filed EXCEPT ![n] = Changed(q, @)]
  /\ Leave(q)
  /\ NoHost /\ UNCHANGED <<standing, past, budget>>

-----------------------------------------------------------------------------
(***************************************************************************)
(* The host                                                                *)
(***************************************************************************)

\* A QEMU without its ports exits; another one may, when its guest shuts
\* down or it dies.
GuestExits(p) ==
  /\ proc[p].of \in Name
  /\ IF proc[p].port = NoPort THEN UNCHANGED budget ELSE Fault
  /\ proc' = Without({p})
  /\ UNCHANGED <<dir, taken, tables, call, past>>

\* The number is used again, by another program.
StrangerTakesPid(p) ==
  /\ proc[p] = Free
  /\ Fault
  /\ proc' = [proc EXCEPT ![p].of = Stranger]
  /\ UNCHANGED <<dir, taken, tables, call, past>>

StrangerListens(x) ==
  /\ ~InUse(x)
  /\ Fault
  /\ taken' = taken \union {x}
  /\ UNCHANGED <<dir, proc, tables, call, past>>

\* The service ends; the guests run on.
Crash ==
  /\ \E q \in Thread : ~At(q, "idle")
  /\ Fault
  /\ astray' = astray \union UNION {NamesOf(call[q]) : q \in {q \in Thread : ~At(q, "idle")}}
  /\ call' = [q \in Thread |-> NoRequest]
  /\ NoHost /\ UNCHANGED <<tables, raced>>

\* A reconcile pass, of rows no call works on (InstanceLifecycle has the
\* others).  A launch is left to its job unless the guest is up.
Follow(n) ==
  /\ Idle(n) /\ standing[n] # "none"
  /\ standing[n] = "Launching" => Report(n) = "running"
  /\ standing' = [standing EXCEPT ![n] = StatusOf(Report(n))]
  /\ standing' # standing
  /\ NoHost /\ UNCHANGED <<filed, call, past, budget>>

-----------------------------------------------------------------------------
DriverInit ==
  /\ \E up \in SUBSET Name : \E down \in SUBSET (Name \ up) :
     \E at \in [up \union down -> Port], pid \in [up -> Pid] :
       /\ \A m, n \in up \union down : m # n => at[m] # at[n]
       /\ \A m, n \in up : m # n => pid[m] # pid[n]
       /\ dir = [n \in Name |->
            IF n \notin up \union down THEN NoDirectory
            ELSE [made |-> TRUE, disk |-> "whole",
                  run |-> [port |-> at[n], pid |-> IF n \in up THEN pid[n] ELSE NoPid,
                           fwd |-> {}]]]
       /\ proc = [p \in Pid |->
            IF \E n \in up : pid[n] = p
              THEN LET n == CHOOSE n \in up : pid[n] = p
                   IN [of |-> n, port |-> at[n], fwd |-> {}]
              ELSE Free]
       /\ standing = [n \in Name |-> IF n \in up THEN "Running"
                                     ELSE IF n \in down THEN "Stopped" ELSE "none"]
  /\ taken = {}
  /\ filed = [n \in Name |-> {}]
  /\ call = [q \in Thread |-> NoRequest]
  /\ raced = {} /\ astray = {}
  /\ budget = [calls |-> MaxCalls, faults |-> MaxFaults]

Step(q) ==
  \/ BuildDisk(q) \/ BuildFails(q) \/ LeftoverHeld(q)
  \/ Allocate(q) \/ NoPortLeft(q) \/ Pin(q)
  \/ Spawn(q) \/ SpawnFails(q) \/ RecordPid(q) \/ RecordFails(q) \/ BootOk(q) \/ BootFails(q)
  \/ NothingToRead(q) \/ AlreadyUp(q) \/ PortsFree(q) \/ PortsBusy(q)
  \/ ReadToStop(q) \/ PowerDown(q) \/ HaltTimeout(q) \/ Halted(q)
  \/ Quit(q) \/ Remove(q) \/ RemoveFails(q) \/ ForceDelete(q)
  \/ CloneRefused(q) \/ Copy(q) \/ Copied(q) \/ CopyTimesOut(q)
  \/ ReadToForward(q) \/ Apply(q) \/ ApplyFails(q) \/ WriteForward(q) \/ FileForward(q)

Environment ==
  \/ \E p \in Pid : GuestExits(p) \/ StrangerTakesPid(p)
  \/ \E x \in Port \union Public : StrangerListens(x)
  \/ Crash
  \/ \E n \in Name : Follow(n)

DriverNext == (\E q \in Thread : Request(q) \/ Step(q)) \/ Environment

DriverSpec == DriverInit /\ [][DriverNext]_driverVars

-----------------------------------------------------------------------------
(***************************************************************************)
(* What the driver promises.                                               *)
(***************************************************************************)

Quiet == Name \ (raced \union astray)

\* Types; and a thread that works has a row's name to work on.
DriverTypeOK ==
  /\ dir \in [Name -> Directory]
  /\ proc \in [Pid -> Process]
  /\ taken \subseteq Port \union Public
  /\ standing \in [Name -> Status]
  /\ filed \in [Name -> SUBSET Public]
  /\ call \in [Thread -> CallRecord]
  /\ raced \subseteq Name /\ astray \subseteq Name
  /\ budget \in [calls : 0..MaxCalls, faults : 0..MaxFaults]

\* Two instances never have one port, whether they run or not: the port of
\* a stopped instance stays its own while others come and go
\* (_reserved_ports, and the ports a start refuses to move from).  Launches
\* that pick their ports at the same moment are the exception.
PortsOnce ==
  \A m, n \in Quiet :
    m # n /\ HasRuntime(m) /\ HasRuntime(n) => dir[m].run.port # dir[n].run.port

\* No guest is forgotten: one that holds its ports is the one its runtime
\* file names, or a thread is about to write it down (_spawn, _clear_pid,
\* destroy_instance), unless a call failed or died half way.
GuestsAreOnRecord ==
  \A p \in Pid : LET n == proc[p].of IN
    n \in Quiet /\ proc[p].port # NoPort =>
      \/ dir[n].run.pid = p
      \/ \E q \in Thread : At(q, "spawned") /\ call[q].n = n /\ call[q].run.pid = p

\* The table, the file and the guest agree on the forwards of an instance
\* no call is busy with (add_port_forward applies, writes and then files).
ForwardsAgree ==
  \A n \in {n \in Quiet : Idle(n) /\ standing[n] # "none"} :
    /\ filed[n] = dir[n].run.fwd
    /\ \A p \in Guests(n) : proc[p].fwd = filed[n]

\* What boots has a whole disk: a copy that was cut short, or taken while
\* the source ran, never gets a runtime file (clone_disk), unless calls
\* overlapped on the two.
ClonesAreWhole ==
  \A n \in Quiet : HasRuntime(n) => dir[n].disk = "whole"

\* What is behind a name.  get_instance_info says the same, unless another
\* program has both the number and the port that the runtime file names.
Truth(n) ==
  LET r == dir[n].run IN
  IF ~HasRuntime(n) THEN Report(n)
  ELSE IF r.pid # NoPid /\ proc[r.pid].of = n /\ proc[r.pid].port = r.port THEN "running"
  ELSE "stopped"

\* The calls and failures above are moves of Machine: nothing that runs is
\* taken away, nothing boots without its ports and its process on record,
\* and calls that overlap or die half way are the only ones to leave a name
\* in doubt.
Contract == INSTANCE Machine WITH
  Machines <- Name,
  machine  <- [n \in Name |-> IF n \in Quiet THEN Truth(n) ELSE "contested"]

KeepsContract == Contract!MachineSpec
=============================================================================
