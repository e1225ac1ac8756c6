------------------------- MODULE InstanceLifecycle -------------------------
(***************************************************************************)
(* The life of an instance row: the API routes that drive a virtual        *)
(* machine, the background provisioning job, the three-phase reconciler,   *)
(* and the in-process claims that keep them apart.                         *)
(*                                                                         *)
(* The database row is the desired state, the hypervisor is the truth.     *)
(* Routes run on a thread pool, jobs and reconcile passes on threads of    *)
(* their own, and a driver call blocks for seconds, so every handler is a  *)
(* sequence of steps that interleaves with all the others.  A session      *)
(* holds the row it loaded and an UPDATE writes only the columns that      *)
(* differ from what was loaded: `cache' and `WriteBack' model that.        *)
(***************************************************************************)
EXTENDS Naturals, FiniteSets

CONSTANTS
  Row,           \* identifiers of instance rows (uuids)
  Name,          \* instance names: the hypervisor's identity of a VM
  NameOf,        \* the name each row is created with, never changed
  Request,       \* threads serving API requests
  Pass,          \* reconcile passes: the background loop, refresh requests
  Existing,      \* the sets of rows a start may find launched already
  MaxOps,        \* bound: operations accepted per row and backend life
  Disturbances,  \* bound: changes the guest or the host makes by itself
  CrashAllowed   \* whether the backend process may die

ASSUME LifecycleAssumption ==
  /\ Row # {}
  /\ NameOf \in [Row -> Name]
  /\ Existing \subseteq SUBSET Row
  /\ \A old \in Existing : \A r, s \in old : NameOf[r] = NameOf[s] => r = s
  /\ MaxOps \in Nat
  /\ Disturbances \in Nat
  /\ CrashAllowed \in BOOLEAN

VARIABLES
  row,                 \* the instances table
  vm,                  \* what the engine would report for a name
  inFlight,            \* _in_flight
  operationsCompleted, \* _operations_completed
  req,                 \* one record per request thread
  job,                 \* one provisioning job per row
  pass,                \* one record per reconcile pass
  seen,                \* history: per pass, the states of a row's VM since the
                       \* pass began and the last operation on the row ended
  forced,              \* history: rows cleared with force after a failure
  budget               \* disturbances left

claims == <<inFlight, operationsCompleted>>
vars   == <<row, vm, inFlight, operationsCompleted, req, job, pass, seen,
            forced, budget>>

-----------------------------------------------------------------------------
(***************************************************************************)
(* Rows and what a session does to them                                    *)
(***************************************************************************)

Launching == {"Pending", "Provisioning"}

InstanceStatus ==
  Launching \union {"Running", "Stopped", "Error", "Terminated"}

\* "Unborn": the identifier has not been inserted yet.  err is "gone" for
\* "VM no longer exists on the hypervisor" and "failed" for a recorded cause.
RowRecord == [st  : InstanceStatus \union {"Unborn"},
              err : {"none", "gone", "failed"}]

Unborn  == [st |-> "Unborn", err |-> "none"]
Pending == [st |-> "Pending", err |-> "none"]

IsLive(rw) == rw.st \notin {"Unborn", "Terminated"}

\* An UPDATE carries the columns that differ from what the session loaded.
WriteBack(current, loaded, edited) ==
  [st  |-> IF edited.st  = loaded.st  THEN current.st  ELSE edited.st,
   err |-> IF edited.err = loaded.err THEN current.err ELSE edited.err]

WithError(rw)      == [rw EXCEPT !.st = "Error", !.err = "failed"]
WithTerminated(rw) == [st |-> "Terminated", err |-> "none"]

-----------------------------------------------------------------------------
(***************************************************************************)
(* The hypervisor, per name: no directory, a directory without runtime     *)
(* state, stopped, running, running and answering on SSH.                  *)
(***************************************************************************)

VmState == {"absent", "bare", "stopped", "booting", "answering"}
Alive   == {"booting", "answering"}

\* The status get_instance_info reports; an absent VM turns a row to Error.
Reported(v) == CASE v \in Alive            -> "Running"
                 [] v = "stopped"          -> "Stopped"
                 [] v \in {"absent", "bare"} -> "Error"

\* Mutant: any report of a live VM ends a launch, not only one that answers.
ApplyInfoToAnyBoot(rw, v, authoritative) ==
  IF v = "absent"
  THEN IF rw.st \in Launching \/ (rw.st = "Error" /\ rw.err # "none")
       THEN rw
       ELSE [rw EXCEPT !.st = "Error", !.err = "gone"]
  ELSE [st |-> Reported(v), err |-> IF v \in Alive THEN "none" ELSE rw.err]

\* _apply_info: fold what was observed into a row.
ApplyInfo(rw, v, authoritative) ==
  IF v = "absent"
  THEN IF rw.st \in Launching \/ (rw.st = "Error" /\ rw.err # "none")
       THEN rw
       ELSE [rw EXCEPT !.st = "Error", !.err = "gone"]
  ELSE IF ~authoritative /\ rw.st \in Launching /\ v # "answering"
  THEN rw
  ELSE [st  |-> Reported(v),
        err |-> IF v \in Alive THEN "none" ELSE rw.err]

\* A VM changes: the history of every pass under way sees it.
SetVm(n, v) ==
  /\ vm' = [vm EXCEPT ![n] = v]
  /\ seen' = [c \in Pass |-> [r \in Row |->
       IF pass[c].pc # "idle" /\ NameOf[r] = n THEN seen[c][r] \union {v}
                                             ELSE seen[c][r]]]

\* The history of a row starts again, in every pass under way.
Forget(r) ==
  seen' = [c \in Pass |->
    IF pass[c].pc = "idle" THEN seen[c]
                           ELSE [seen[c] EXCEPT ![r] = {vm[NameOf[r]]}]]

-----------------------------------------------------------------------------
(***************************************************************************)
(* Claims: _api_operation.  The claim is a set, so a second operation on   *)
(* the same row shares it and the first to end drops it for both.          *)
(***************************************************************************)

Claim(r) ==
  /\ inFlight' = inFlight \union {r}
  /\ UNCHANGED operationsCompleted

\* Mutant: the counter of completed operations counts down.
ReleaseCountingDown(r) ==
  /\ inFlight' = inFlight \ {r}
  /\ operationsCompleted' = [operationsCompleted EXCEPT ![r] = @ - 1]
  /\ Forget(r)

Release(r) ==
  /\ inFlight' = inFlight \ {r}
  /\ operationsCompleted' = [operationsCompleted EXCEPT ![r] = @ + 1]
  /\ Forget(r)

-----------------------------------------------------------------------------
(***************************************************************************)
(* API requests                                                            *)
(*                                                                         *)
(*   idle -> loaded -> claimed -> synced | failed | terminating -> ending  *)
(*   idle -> named                                (create_instance)        *)
(***************************************************************************)

Operation == {"create", "start", "stop", "restart", "delete"}

AnyRow == CHOOSE r \in Row : TRUE

RequestRecord ==
  [pc     : {"idle", "named", "loaded", "claimed", "halfway", "driven",
             "failed", "ending"},
   op     : Operation,
   target : Row,
   force  : BOOLEAN,
   cache  : RowRecord]

NoRequest == [pc |-> "idle", op |-> "create", target |-> AnyRow,
              force |-> FALSE, cache |-> Unborn]

\* The state each operation insists on, read before the claim is taken.
Permits(op, st) ==
  CASE op = "start"              -> st = "Stopped"
    [] op \in {"stop", "restart"} -> st = "Running"
    [] op = "delete"             -> st # "Terminated"
    [] op = "create"             -> FALSE

At(q, pc)     == req[q].pc = pc
GoTo(q, pc)   == req' = [req EXCEPT ![q].pc = pc]
NameTaken(r)  == \E s \in Row : NameOf[s] = NameOf[r] /\ IsLive(row[s])

\* The request loads the row and checks its state.
LoadRow(q, op, r, f) ==
  /\ At(q, "idle")
  /\ row[r].st # "Unborn"
  /\ Permits(op, row[r].st)
  /\ f => op = "delete"
  /\ operationsCompleted[r] < MaxOps
  /\ req' = [req EXCEPT ![q] = [pc |-> "loaded", op |-> op, target |-> r,
                                force |-> f, cache |-> row[r]]]
  /\ UNCHANGED <<row, vm, claims, job, pass, seen, forced, budget>>

\* Mutant: the operation goes ahead without claiming the row.
ClaimRowSilently(q) ==
  /\ At(q, "loaded")
  /\ GoTo(q, "claimed")
  /\ UNCHANGED <<row, vm, claims, job, pass, seen, forced, budget>>

ClaimRow(q) ==
  /\ At(q, "loaded")
  /\ Claim(req[q].target)
  /\ GoTo(q, "claimed")
  /\ UNCHANGED <<row, vm, job, pass, seen, forced, budget>>

\* Boot a VM that has runtime state.  Failing, start_instance leaves the
\* process alone: it may be up without having answered.
BootOutcome(v) ==
  CASE v = "stopped"          -> {<<"answering", "driven">>, <<"booting", "driven">>,
                                  <<"stopped", "failed">>, <<"booting", "failed">>}
    [] v \in Alive            -> {<<v, "driven">>}
    [] v \in {"absent", "bare"} -> {<<v, "failed">>}

HaltOutcome(v, next) ==
  IF v \in {"absent", "bare"} THEN {<<v, "failed">>} ELSE {<<"stopped", next>>}

\* Removing the directory fails while a file in it is open: by then QEMU has
\* exited, or survived the kill, and part of the directory may be gone.
DestroyOutcome(v) ==
  {<<"absent", "driven">>} \union
    (IF v = "absent" THEN {} ELSE {<<v, "failed">>, <<"bare", "failed">>}
       \union (IF v \in Alive THEN {<<"stopped", "failed">>} ELSE {}))

Outcome(q, v) ==
  CASE req[q].op = "start"   -> BootOutcome(v)
    [] req[q].op = "stop"    -> HaltOutcome(v, "driven")
    [] req[q].op = "restart" -> HaltOutcome(v, "halfway")
    [] req[q].op = "delete"  -> DestroyOutcome(v)
    [] req[q].op = "create"  -> {}

Drive(q) ==
  LET n == NameOf[req[q].target] IN
  /\ At(q, "claimed")
  /\ \E o \in Outcome(q, vm[n]) : SetVm(n, o[1]) /\ GoTo(q, o[2])
  /\ UNCHANGED <<row, claims, job, pass, forced, budget>>

\* restart_instance is the stop path followed by the start path.
DriveSecondHalf(q) ==
  LET n == NameOf[req[q].target] IN
  /\ At(q, "halfway")
  /\ \E o \in BootOutcome(vm[n]) : SetVm(n, o[1]) /\ GoTo(q, o[2])
  /\ UNCHANGED <<row, claims, job, pass, forced, budget>>

\* Mutant: the 503 leaves the handler without releasing the claim.
UnavailableKeepsClaim(q) ==
  /\ \/ At(q, "claimed") /\ req[q].op = "start"
     \/ At(q, "halfway")
  /\ vm[NameOf[req[q].target]] = "stopped"
  /\ req' = [req EXCEPT ![q] = NoRequest]
  /\ UNCHANGED <<row, vm, claims, job, pass, seen, forced, budget>>

\* HypervisorUnavailableError from a boot: 503, the row is left alone.
Unavailable(q) ==
  /\ \/ At(q, "claimed") /\ req[q].op = "start"
     \/ At(q, "halfway")
  /\ vm[NameOf[req[q].target]] = "stopped"
  /\ GoTo(q, "ending")
  /\ UNCHANGED <<row, vm, claims, job, pass, seen, forced, budget>>

\* _sync_instance: ask the hypervisor, fold the answer into the row as it
\* was loaded, commit.
SyncInstance(q) ==
  LET r == req[q].target
      c == req[q].cache
  IN
  /\ At(q, "driven") /\ req[q].op # "delete"
  /\ row' = [row EXCEPT ![r] = WriteBack(@, c, ApplyInfo(c, vm[NameOf[r]], FALSE))]
  /\ GoTo(q, "ending")
  /\ UNCHANGED <<vm, claims, job, pass, seen, forced, budget>>

MarkError(q) ==
  LET r == req[q].target
      c == req[q].cache
  IN
  /\ At(q, "failed") /\ ~req[q].force
  /\ row' = [row EXCEPT ![r] = WriteBack(@, c, WithError(c))]
  /\ GoTo(q, "ending")
  /\ UNCHANGED <<vm, claims, job, pass, seen, forced, budget>>

\* Mutant: a destroy that failed terminates the row, forced or not.
TerminateRegardless(q) ==
  LET r == req[q].target
      c == req[q].cache
  IN
  /\ req[q].op = "delete"
  /\ At(q, "driven") \/ At(q, "failed")
  /\ row' = [row EXCEPT ![r] = WriteBack(@, c, WithTerminated(c))]
  /\ forced' = IF req[q].force THEN forced \union {r} ELSE forced
  /\ GoTo(q, "ending")
  /\ UNCHANGED <<vm, claims, job, pass, seen, budget>>

\* The end of delete_instance: destroyed, or refused and forced.
Terminate(q) ==
  LET r == req[q].target
      c == req[q].cache
  IN
  /\ req[q].op = "delete"
  /\ At(q, "driven") \/ (At(q, "failed") /\ req[q].force)
  /\ row' = [row EXCEPT ![r] = WriteBack(@, c, WithTerminated(c))]
  /\ forced' = IF At(q, "failed") THEN forced \union {r} ELSE forced
  /\ GoTo(q, "ending")
  /\ UNCHANGED <<vm, claims, job, pass, seen, budget>>

\* The end of the with-block, on every path out of it.
EndRequest(q) ==
  /\ At(q, "ending")
  /\ Release(req[q].target)
  /\ req' = [req EXCEPT ![q] = NoRequest]
  /\ UNCHANGED <<row, vm, job, pass, forced, budget>>

\* create_instance: the name is checked, then the row is inserted, and no
\* index stands behind the check.
CheckName(q, r) ==
  /\ At(q, "idle")
  /\ row[r] = Unborn
  /\ \A p \in Request : At(p, "named") => req[p].target # r
  /\ ~NameTaken(r)
  /\ req' = [req EXCEPT ![q] = [NoRequest EXCEPT !.pc = "named", !.target = r]]
  /\ UNCHANGED <<row, vm, claims, job, pass, seen, forced, budget>>

InsertRow(q) ==
  LET r == req[q].target IN
  /\ At(q, "named")
  /\ row' = [row EXCEPT ![r] = Pending]
  /\ job' = [job EXCEPT ![r].pc = "queued"]
  /\ Forget(r)
  /\ req' = [req EXCEPT ![q] = NoRequest]
  /\ UNCHANGED <<vm, claims, pass, forced, budget>>

RequestStep(q) ==
  \/ \E r \in Row, op \in Operation, f \in BOOLEAN : LoadRow(q, op, r, f)
  \/ ClaimRow(q)
  \/ Drive(q)
  \/ DriveSecondHalf(q)
  \/ Unavailable(q)
  \/ SyncInstance(q)
  \/ MarkError(q)
  \/ Terminate(q)
  \/ EndRequest(q)
  \/ \E r \in Row : CheckName(q, r)
  \/ InsertRow(q)

-----------------------------------------------------------------------------
(***************************************************************************)
(* The provisioning job                                                    *)
(*                                                                         *)
(*   queued -> building -> booting -> waiting -> settling -> ending        *)
(*   with failed -> ending from every step before settling                 *)
(***************************************************************************)

JobRecord ==
  [pc    : {"none", "queued", "building", "booting", "waiting", "settling",
            "failed", "ending"},
   cache : RowRecord]

NoJob == [pc |-> "none", cache |-> Unborn]

JobAt(r, pc)   == job[r].pc = pc
JobGoTo(r, pc) == job' = [job EXCEPT ![r].pc = pc]

\* Claim the instance, load the row, write Provisioning.  Nothing asks
\* whether the row is still waiting to be launched.
StartJob(r) ==
  /\ JobAt(r, "queued")
  /\ Claim(r)
  /\ row' = [row EXCEPT ![r].st = "Provisioning"]
  /\ job' = [job EXCEPT ![r] = [pc |-> "building", cache |-> row'[r]]]
  /\ UNCHANGED <<vm, req, pass, seen, forced, budget>>

\* Launch options, keys or cloud-init: failed before the driver is called.
RefuseLaunch(r) ==
  /\ JobAt(r, "building")
  /\ JobGoTo(r, "failed")
  /\ UNCHANGED <<row, vm, claims, req, pass, seen, forced, budget>>

\* provision_instance: a directory left behind is removed and made anew.
MakeDirectory(r) ==
  /\ JobAt(r, "building")
  /\ SetVm(NameOf[r], "bare")
  /\ JobGoTo(r, "booting")
  /\ UNCHANGED <<row, claims, req, pass, forced, budget>>

\* Base image, disk, seed or port allocation failed: the directory goes.
BuildFails(r) ==
  /\ JobAt(r, "booting")
  /\ SetVm(NameOf[r], "absent")
  /\ JobGoTo(r, "failed")
  /\ UNCHANGED <<row, claims, req, pass, forced, budget>>

\* Write the runtime file, spawn QEMU.  A spawn that cannot run leaves the
\* runtime file; QEMU exits at once when the disk is gone.
SpawnVm(r) ==
  LET n == NameOf[r] IN
  /\ JobAt(r, "booting")
  /\ \/ vm[n] = "bare" /\ SetVm(n, "booting") /\ JobGoTo(r, "waiting")
     \/ SetVm(n, "stopped") /\ JobGoTo(r, "failed")
  /\ UNCHANGED <<row, claims, req, pass, forced, budget>>

\* _wait_for_ssh, or _wait_for_qmp for a guest nobody logs into.
GuestReady(r) ==
  LET n == NameOf[r] IN
  /\ JobAt(r, "waiting")
  /\ vm[n] \in Alive
  /\ \E v \in {vm[n], "answering"} : SetVm(n, v)
  /\ JobGoTo(r, "settling")
  /\ UNCHANGED <<row, claims, req, pass, forced, budget>>

\* Timed out or exited: _force_off, which keeps an existing directory.
GuestNotReady(r) ==
  LET n == NameOf[r] IN
  /\ JobAt(r, "waiting")
  /\ SetVm(n, IF vm[n] = "absent" THEN "absent" ELSE "stopped")
  /\ JobGoTo(r, "failed")
  /\ UNCHANGED <<row, claims, req, pass, forced, budget>>

FailProvisioning(r) ==
  LET c == job[r].cache IN
  /\ JobAt(r, "failed")
  /\ row' = [row EXCEPT ![r] = WriteBack(@, c, WithError(c))]
  /\ JobGoTo(r, "ending")
  /\ UNCHANGED <<vm, claims, req, pass, seen, forced, budget>>

\* One turn of _settle_after_launch: fold in what the engine reports, then
\* refresh.  It ends with an address, which the model leaves out, or with
\* the time running out.
Settle(r) ==
  LET c == job[r].cache
      after == WriteBack(row[r], c, ApplyInfo(c, vm[NameOf[r]], TRUE))
  IN
  /\ JobAt(r, "settling")
  /\ row' = [row EXCEPT ![r] = after]
  /\ \E next \in {"settling", "ending"} :
       job' = [job EXCEPT ![r] = [pc |-> next, cache |-> after]]
  /\ UNCHANGED <<vm, claims, req, pass, seen, forced, budget>>

\* The budget ran out and the last sample raised: record Running.
SettleBlind(r) ==
  LET c == job[r].cache IN
  /\ JobAt(r, "settling")
  /\ row' = IF c.st \in Launching
            THEN [row EXCEPT ![r] = WriteBack(@, c, [c EXCEPT !.st = "Running"])]
            ELSE row
  /\ JobGoTo(r, "ending")
  /\ UNCHANGED <<vm, claims, req, pass, seen, forced, budget>>

EndJob(r) ==
  /\ JobAt(r, "ending")
  /\ Release(r)
  /\ job' = [job EXCEPT ![r] = NoJob]
  /\ UNCHANGED <<row, vm, req, pass, forced, budget>>

JobStep(r) ==
  \/ StartJob(r)
  \/ RefuseLaunch(r)
  \/ MakeDirectory(r)
  \/ BuildFails(r)
  \/ SpawnVm(r)
  \/ GuestReady(r)
  \/ GuestNotReady(r)
  \/ FailProvisioning(r)
  \/ Settle(r)
  \/ SettleBlind(r)
  \/ EndJob(r)

-----------------------------------------------------------------------------
(***************************************************************************)
(* The reconciler: decide which engines to ask, list the hypervisor with   *)
(* no transaction open, then read, decide and write.                       *)
(***************************************************************************)

Unlisted == "unlisted"

PassRecord ==
  [pc     : {"idle", "listing", "read", "decided"},
   known  : SUBSET Row,                  \* live rows when the pass began
   busy   : SUBSET Row,                  \* busy_at_start
   ops    : [Row -> Nat],                \* operations_at_start
   list   : [Name -> VmState \union {Unlisted}],
   rows   : [Row -> RowRecord],          \* the rows selected in phase 3
   opsNow : [Row -> Nat],                \* operations_now
   stale  : SUBSET Row]

NoPass ==
  [pc |-> "idle", known |-> {}, busy |-> {}, ops |-> [r \in Row |-> 0],
   list |-> [n \in Name |-> Unlisted], rows |-> [r \in Row |-> Unborn],
   opsNow |-> [r \in Row |-> 0], stale |-> {}]

NotSeen == [r \in Row |-> {}]

EndPass(c) ==
  /\ pass' = [pass EXCEPT ![c] = NoPass]
  /\ seen' = [seen EXCEPT ![c] = NotSeen]

LiveRows == {r \in Row : IsLive(row[r])}

\* Phase 1, and the operation state the listing is measured against.  With
\* no live row there is no engine to ask and the pass changes nothing.
BeginPass(c) ==
  /\ pass[c].pc = "idle"
  /\ LiveRows # {}
  /\ pass' = [pass EXCEPT ![c] =
       [NoPass EXCEPT !.pc = "listing", !.known = LiveRows,
                      !.busy = inFlight, !.ops = operationsCompleted]]
  /\ seen' = [seen EXCEPT ![c] = [r \in Row |-> {vm[NameOf[r]]}]]
  /\ UNCHANGED <<row, vm, claims, req, job, forced, budget>>

\* Phase 2: list_instances asks about one directory after the other.
ListName(c, n) ==
  /\ pass[c].pc = "listing"
  /\ pass[c].list[n] = Unlisted
  /\ pass' = [pass EXCEPT ![c].list[n] = vm[n]]
  /\ UNCHANGED <<row, vm, claims, req, job, seen, forced, budget>>

\* The engine's listing raised: its rows are left untouched this pass.
ListingFails(c) ==
  /\ pass[c].pc = "listing"
  /\ budget > 0
  /\ budget' = budget - 1
  /\ EndPass(c)
  /\ UNCHANGED <<row, vm, claims, req, job, forced>>

\* Phase 3: a fresh transaction selects the rows that are not Terminated.
ReadRows(c) ==
  /\ pass[c].pc = "listing"
  /\ \A n \in Name : pass[c].list[n] # Unlisted
  /\ pass' = [pass EXCEPT ![c].pc = "read", ![c].rows = row]
  /\ UNCHANGED <<row, vm, claims, req, job, seen, forced, budget>>

\* Mutant: an operation that began and ended during the listing is missed.
StaleWhileInFlight(p) == p.busy \union inFlight

Stale(p) == p.busy \union inFlight
              \union {r \in Row : operationsCompleted[r] # p.ops[r]}

Decide(c) ==
  /\ pass[c].pc = "read"
  /\ pass' = [pass EXCEPT ![c].pc = "decided",
                          ![c].opsNow = operationsCompleted,
                          ![c].stale = Stale(pass[c])]
  /\ UNCHANGED <<row, vm, claims, req, job, seen, forced, budget>>

\* Mutant: Terminated rows are selected too.
CorrectedWithTerminated(p, r) ==
  IF p.rows[r].st # "Unborn" /\ r \notin p.stale
  THEN WriteBack(row[r], p.rows[r],
                 ApplyInfo(p.rows[r], p.list[NameOf[r]], FALSE))
  ELSE row[r]

\* Mutant: a row in Error is left to the operator.
CorrectedExceptErrors(p, r) ==
  IF IsLive(p.rows[r]) /\ p.rows[r].st # "Error" /\ r \notin p.stale
  THEN WriteBack(row[r], p.rows[r],
                 ApplyInfo(p.rows[r], p.list[NameOf[r]], FALSE))
  ELSE row[r]

Corrected(p, r) ==
  IF IsLive(p.rows[r]) /\ r \notin p.stale
  THEN WriteBack(row[r], p.rows[r],
                 ApplyInfo(p.rows[r], p.list[NameOf[r]], FALSE))
  ELSE row[r]

CommitPass(c) ==
  /\ pass[c].pc = "decided"
  /\ row' = [r \in Row |-> Corrected(pass[c], r)]
  /\ EndPass(c)
  /\ UNCHANGED <<vm, claims, req, job, forced, budget>>

PassStep(c) ==
  \/ BeginPass(c)
  \/ \E n \in Name : ListName(c, n)
  \/ ListingFails(c)
  \/ ReadRows(c)
  \/ Decide(c)
  \/ CommitPass(c)

-----------------------------------------------------------------------------
(***************************************************************************)
(* What happens outside the backend, and to it                             *)
(***************************************************************************)

\* A guest powers itself off, reboots, brings its SSH server up; somebody
\* deletes the files.
VmDrifts(n) ==
  /\ budget > 0
  /\ budget' = budget - 1
  /\ \/ vm[n] \in Alive /\ \E v \in (Alive \union {"stopped"}) \ {vm[n]} : SetVm(n, v)
     \/ vm[n] # "absent" /\ SetVm(n, "absent")
  /\ UNCHANGED <<row, claims, req, job, pass, forced>>

\* The backend dies and comes back: threads, jobs and claims are gone, the
\* database and the QEMU processes are not.
Crash ==
  /\ CrashAllowed
  /\ budget > 0
  /\ budget' = budget - 1
  /\ inFlight' = {}
  /\ operationsCompleted' = [r \in Row |-> 0]
  /\ req' = [q \in Request |-> NoRequest]
  /\ job' = [r \in Row |-> NoJob]
  /\ pass' = [c \in Pass |-> NoPass]
  /\ seen' = [c \in Pass |-> NotSeen]
  /\ UNCHANGED <<row, vm, forced>>

-----------------------------------------------------------------------------
Init ==
  /\ \E old \in Existing : \E up \in SUBSET old :
       /\ row = [r \in Row |->
            IF r \notin old THEN Unborn
            ELSE [st |-> IF r \in up THEN "Running" ELSE "Stopped",
                  err |-> "none"]]
       /\ vm = [n \in Name |->
            IF \E r \in up : NameOf[r] = n THEN "answering"
            ELSE IF \E r \in old : NameOf[r] = n THEN "stopped"
            ELSE "absent"]
  /\ inFlight = {}
  /\ operationsCompleted = [r \in Row |-> 0]
  /\ req = [q \in Request |-> NoRequest]
  /\ job = [r \in Row |-> NoJob]
  /\ pass = [c \in Pass |-> NoPass]
  /\ seen = [c \in Pass |-> NotSeen]
  /\ forced = {}
  /\ budget = Disturbances

Next ==
  \/ \E q \in Request : RequestStep(q)
  \/ \E r \in Row : JobStep(r)
  \/ \E c \in Pass : PassStep(c)
  \/ \E n \in Name : VmDrifts(n)
  \/ Crash

Spec == Init /\ [][Next]_vars

\* A thread that has begun goes on, the background pass comes round every
\* thirty seconds, settling has a deadline.  No client is obliged to call anything.
Fairness ==
  /\ \A q \in Request : WF_vars(RequestStep(q) /\ ~At(q, "idle"))
  /\ \A r \in Row : WF_vars(JobStep(r) /\ job'[r].pc # job[r].pc)
  /\ \A c \in Pass : WF_vars(PassStep(c))

FairSpec == Spec /\ Fairness

-----------------------------------------------------------------------------
(***************************************************************************)
(* Properties                                                              *)
(***************************************************************************)

\* Every variable has its type.
TypeOK ==
  /\ row \in [Row -> RowRecord]
  /\ vm \in [Name -> VmState]
  /\ inFlight \subseteq Row
  /\ operationsCompleted \in [Row -> Nat]
  /\ req \in [Request -> RequestRecord]
  /\ job \in [Row -> JobRecord]
  /\ pass \in [Pass -> PassRecord]
  /\ seen \in [Pass -> [Row -> SUBSET VmState]]
  /\ forced \subseteq Row
  /\ budget \in Nat

\* A request that is inside its with-block, a job that is inside its own.
Operating(q, r) ==
  /\ req[q].target = r
  /\ req[q].pc \in {"claimed", "halfway", "driven", "failed", "ending"}
JobRunning(r) == job[r].pc \notin {"none", "queued"}

\* A claim is never left behind: whatever path a handler takes out of its
\* operation, no row stays claimed that nobody works on.  The reconciler
\* skips claimed rows, so a leaked claim would blind it to the row for good.
ClaimsHaveOwners ==
  \A r \in inFlight : JobRunning(r) \/ \E q \in Request : Operating(q, r)

CommitsNow(c) == pass[c].pc = "decided" /\ pass'[c].pc = "idle"

\* No operation on the row completed since the pass decided what is stale.
DecisionHolds(c, r) == operationsCompleted[r] = pass[c].opsNow[r]

\* The reconciler never undoes an operation that has finished: a status it
\* writes was true of the VM at some time during the pass and after the last
\* operation on the row completed.  (A stop was once reverted to Running a second after it
\* returned, from a listing taken while the VM was still up.)
NoUndo ==
  [][\A c \in Pass, r \in Row :
       CommitsNow(c) /\ r \in pass[c].known /\ DecisionHolds(c, r)
         /\ row'[r].st # row[r].st
       => \E v \in seen[c][r] : row'[r].st = Reported(v)]_vars

\* The reconciler moves a launch in flight nowhere but to Running, and only
\* when the guest answered during the pass and since the row was created.
LaunchBelongsToJob ==
  [][\A c \in Pass, r \in Row :
       CommitsNow(c) /\ DecisionHolds(c, r)
         /\ row[r].st \in Launching /\ row'[r].st # row[r].st
       => row'[r].st = "Running" /\ "answering" \in seen[c][r]]_vars

\* Somebody has read the row while it was live and may still write it.
Engaged(r) ==
  \/ job[r].pc # "none"
  \/ \E q \in Request : req[q].target = r /\ req[q].pc \notin {"idle", "ending"}
  \/ \E c \in Pass : pass[c].pc \in {"read", "decided"} /\ IsLive(pass[c].rows[r])

\* A terminate that lands while the hypervisor is being listed is not
\* undone: once nobody holds an earlier reading of the row, a Terminated
\* row never changes again, whatever listing is still under way.
TerminatedIsKept ==
  [][\A r \in Row :
       row[r].st = "Terminated" /\ ~Engaged(r) => row'[r] = row[r]]_vars

\* Terminated is the only terminal state: no row leaves it.
TerminatedIsTerminal ==
  [][\A r \in Row : row[r].st = "Terminated" => row'[r].st = "Terminated"]_vars

Undisturbed == budget = Disturbances

\* While nothing happens outside the backend, no pass reports as lost a VM
\* that delete_instance destroys: one that was there since the pass began and
\* the last operation on its row ended.
NoAlarmDuringDelete ==
  [][\A c \in Pass, r \in Row :
       CommitsNow(c) /\ Undisturbed /\ seen[c][r] \ {"absent"} # {} /\ row'[r].err = "gone"
       => row[r].err = "gone"]_vars

\* A row that says Terminated while its VM runs is a lie, unless the caller
\* forced it or a later instance owns the name.
TerminatedMeansGone ==
  \A r \in Row : row[r].st = "Terminated" /\ r \notin forced
     => vm[NameOf[r]] \notin Alive \/ NameTaken(r)

\* A settled row agrees with what the hypervisor would report of it.
Agrees(r) ==
  LET v == vm[NameOf[r]] IN
  IsLive(row[r]) /\ row[r].st \notin Launching => row[r].st = Reported(v)

\* Once clients stop calling and guests stop changing, the reconciler brings
\* every settled row into agreement with the hypervisor, and keeps it there.
EventuallyAgrees == <>[](\A r \in Row : Agrees(r))

-----------------------------------------------------------------------------
(***************************************************************************)
(* The inductive invariant behind NoUndo                                   *)
(***************************************************************************)

\* Phase 3 begins when every name has been asked about.
Listed ==
  \A c \in Pass : pass[c].pc \in {"read", "decided"}
                 => \A n \in Name : pass[c].list[n] # Unlisted

Born(r) == row[r].st # "Unborn"

\* An identifier under creation is nobody else's.
NamedUnborn ==
  /\ \A q \in Request : At(q, "named") => ~Born(req[q].target)
  /\ \A p, q \in Request :
       At(p, "named") /\ At(q, "named") /\ req[p].target = req[q].target => p = q

\* Only rows that exist are operated on, provisioned or known to a pass.
ActiveBorn ==
  /\ \A q \in Request : ~At(q, "idle") /\ ~At(q, "named") => Born(req[q].target)
  /\ \A r \in Row : job[r].pc # "none" => Born(r)

KnownBorn ==
  \A c \in Pass, r \in Row :
    r \in pass[c].known \/ pass[c].rows[r].st # "Unborn" => Born(r)

Births == NamedUnborn /\ ActiveBorn /\ KnownBorn

\* While a pass is under way the history holds the present state of the VM,
\* the counter has not gone back, and what was listed of a row is in the
\* history unless an operation has completed since.
History ==
  \A c \in Pass : pass[c].pc # "idle" => \A r \in Row :
    /\ vm[NameOf[r]] \in seen[c][r]
    /\ pass[c].ops[r] <= operationsCompleted[r]
    /\ r \in pass[c].known /\ operationsCompleted[r] = pass[c].ops[r]
         /\ pass[c].list[NameOf[r]] # Unlisted
       => pass[c].list[NameOf[r]] \in seen[c][r]

\* A row found up to date had no operation complete before the decision.
Decisions ==
  \A c \in Pass : pass[c].pc = "decided" => \A r \in Row :
    r \notin pass[c].stale => pass[c].opsNow[r] = pass[c].ops[r]

=============================================================================
