---------------------- MODULE InstanceLifecycleProofs ----------------------
(***************************************************************************)
(* Theorems about InstanceLifecycle, for any number of rows, names,        *)
(* requests, passes and operations.                                        *)
(***************************************************************************)
EXTENDS InstanceLifecycle, TLAPS

-----------------------------------------------------------------------------
(***************************************************************************)
(* Types of the operators                                                  *)
(***************************************************************************)

\* A name belongs to every row and the placeholder row is one of them.
LEMMA NamesAndRows ==
  /\ NameOf \in [Row -> Name]
  /\ AnyRow \in Row
BY LifecycleAssumption DEF AnyRow

LEMMA RecordTypes ==
  /\ Unborn \in RowRecord
  /\ Pending \in RowRecord
  /\ NoRequest \in RequestRecord
  /\ NoJob \in JobRecord
  /\ NoPass \in PassRecord
BY NamesAndRows DEF Unborn, Pending, NoRequest, NoJob, NoPass, RowRecord,
     RequestRecord, JobRecord, PassRecord, InstanceStatus, Launching,
     Operation, VmState, Unlisted

\* Folding an observation into a row yields a row.
LEMMA ApplyInfoType ==
  ASSUME NEW rw \in RowRecord, NEW v \in VmState, NEW auth \in BOOLEAN
  PROVE  ApplyInfo(rw, v, auth) \in RowRecord
BY DEF ApplyInfo, RowRecord, VmState, InstanceStatus, Launching, Alive, Reported

LEMMA EditTypes ==
  ASSUME NEW rw \in RowRecord
  PROVE  /\ WithError(rw) \in RowRecord
         /\ WithTerminated(rw) \in RowRecord
         /\ [rw EXCEPT !.st = "Running"] \in RowRecord
         /\ [rw EXCEPT !.st = "Provisioning"] \in RowRecord
BY DEF WithError, WithTerminated, RowRecord, InstanceStatus, Launching

LEMMA WriteBackType ==
  ASSUME NEW current \in RowRecord, NEW loaded \in RowRecord,
         NEW edited \in RowRecord
  PROVE  WriteBack(current, loaded, edited) \in RowRecord
BY DEF WriteBack, RowRecord

LEMMA SetVmType ==
  ASSUME TypeOK, NEW n \in Name, NEW v \in VmState, SetVm(n, v)
  PROVE  /\ vm' \in [Name -> VmState]
         /\ seen' \in [Pass -> [Row -> SUBSET VmState]]
BY DEF TypeOK, SetVm

LEMMA ForgetType ==
  ASSUME TypeOK, NEW r \in Row, Forget(r)
  PROVE  seen' \in [Pass -> [Row -> SUBSET VmState]]
BY NamesAndRows DEF TypeOK, Forget

LEMMA OutcomeType ==
  ASSUME TypeOK, NEW q \in Request, NEW v \in VmState,
         NEW o \in Outcome(q, v) \union BootOutcome(v)
  PROVE  /\ o[1] \in VmState
         /\ o[2] \in {"driven", "failed", "halfway"}
BY DEF TypeOK, Outcome, BootOutcome, HaltOutcome, DestroyOutcome, VmState,
       Alive, RequestRecord, Operation

LEMMA ReleaseType ==
  ASSUME TypeOK, NEW r \in Row, Release(r)
  PROVE  /\ inFlight' \subseteq Row
         /\ operationsCompleted' \in [Row -> Nat]
         /\ seen' \in [Pass -> [Row -> SUBSET VmState]]
BY ForgetType DEF Release, TypeOK

\* A request moves on: only its record changes.
LEMMA GoToType ==
  ASSUME TypeOK, NEW q \in Request,
         NEW pc \in {"claimed", "halfway", "driven", "failed", "ending"},
         GoTo(q, pc)
  PROVE  req' \in [Request -> RequestRecord]
BY DEF TypeOK, GoTo, RequestRecord

LEMMA JobGoToType ==
  ASSUME TypeOK, NEW r \in Row,
         NEW pc \in {"queued", "booting", "waiting", "settling", "failed", "ending"},
         JobGoTo(r, pc)
  PROVE  job' \in [Row -> JobRecord]
BY DEF TypeOK, JobGoTo, JobRecord

\* An edit of the row a session loaded, written back.
LEMMA RowWriteType ==
  ASSUME TypeOK, NEW r \in Row, NEW loaded \in RowRecord, NEW edited \in RowRecord
  PROVE  /\ WriteBack(row[r], loaded, edited) \in RowRecord
         /\ [row EXCEPT ![r] = WriteBack(row[r], loaded, edited)] \in [Row -> RowRecord]
BY WriteBackType DEF TypeOK

-----------------------------------------------------------------------------
(***************************************************************************)
(* Type correctness                                                        *)
(***************************************************************************)

LEMMA RequestKeepsType ==
  ASSUME TypeOK, NEW q \in Request, RequestStep(q)
  PROVE  TypeOK'
<1>1. req[q] \in RequestRecord /\ req[q].target \in Row /\ req[q].cache \in RowRecord
  BY DEF TypeOK, RequestRecord
<1>2. NameOf[req[q].target] \in Name /\ vm[NameOf[req[q].target]] \in VmState
  BY <1>1, NamesAndRows DEF TypeOK
<1>3. ASSUME NEW op \in Operation, NEW r \in Row, NEW f \in BOOLEAN, LoadRow(q, op, r, f)
      PROVE  TypeOK'
  BY <1>3 DEF TypeOK, LoadRow, RequestRecord, claims
<1>4. CASE ClaimRow(q)
  BY <1>4, <1>1, GoToType DEF TypeOK, ClaimRow, Claim
<1>5. CASE Drive(q)
  <2>1. PICK o \in Outcome(q, vm[NameOf[req[q].target]]) :
          SetVm(NameOf[req[q].target], o[1]) /\ GoTo(q, o[2])
    BY <1>5 DEF Drive
  <2>2. o[1] \in VmState /\ o[2] \in {"driven", "failed", "halfway"}
    BY <2>1, <1>2, OutcomeType
  <2>3. QED
    BY <1>5, <2>1, <2>2, <1>2, SetVmType, GoToType DEF TypeOK, Drive, claims
<1>6. CASE DriveSecondHalf(q)
  <2>1. PICK o \in BootOutcome(vm[NameOf[req[q].target]]) :
          SetVm(NameOf[req[q].target], o[1]) /\ GoTo(q, o[2])
    BY <1>6 DEF DriveSecondHalf
  <2>2. o[1] \in VmState /\ o[2] \in {"driven", "failed", "halfway"}
    BY <2>1, <1>2, OutcomeType
  <2>3. QED
    BY <1>6, <2>1, <2>2, <1>2, SetVmType, GoToType DEF TypeOK, DriveSecondHalf, claims
<1>7. CASE Unavailable(q)
  BY <1>7, GoToType DEF TypeOK, Unavailable, claims
<1>8. CASE SyncInstance(q)
  <2>1. ApplyInfo(req[q].cache, vm[NameOf[req[q].target]], FALSE) \in RowRecord
    BY <1>1, <1>2, ApplyInfoType
  <2>2. QED
    BY <1>8, <2>1, <1>1, RowWriteType, GoToType DEF TypeOK, SyncInstance, claims
<1>9. CASE MarkError(q)
  BY <1>9, <1>1, EditTypes, RowWriteType, GoToType DEF TypeOK, MarkError, claims
<1>10. CASE Terminate(q)
  BY <1>10, <1>1, EditTypes, RowWriteType, GoToType DEF TypeOK, Terminate, claims
<1>11. CASE EndRequest(q)
  BY <1>11, <1>1, ReleaseType, RecordTypes DEF TypeOK, EndRequest
<1>12. ASSUME NEW r \in Row, CheckName(q, r)
       PROVE  TypeOK'
  BY <1>12, RecordTypes DEF TypeOK, CheckName, NoRequest, RequestRecord, claims
<1>13. CASE InsertRow(q)
  BY <1>13, <1>1, ForgetType, RecordTypes DEF TypeOK, InsertRow, JobRecord, claims
<1>14. QED
  BY <1>3, <1>4, <1>5, <1>6, <1>7, <1>8, <1>9, <1>10, <1>11, <1>12, <1>13
  DEF RequestStep

LEMMA JobKeepsType ==
  ASSUME TypeOK, NEW r \in Row, JobStep(r)
  PROVE  TypeOK'
<1>1. job[r] \in JobRecord /\ job[r].cache \in RowRecord /\ row[r] \in RowRecord
  BY DEF TypeOK, JobRecord
<1>2. NameOf[r] \in Name /\ vm[NameOf[r]] \in VmState
  BY NamesAndRows DEF TypeOK
<1>3. {"absent", "bare", "stopped", "booting", "answering"} = VmState
  BY DEF VmState
<1>4. CASE StartJob(r)
  BY <1>4, <1>1, EditTypes DEF TypeOK, StartJob, Claim, JobRecord
<1>5. CASE RefuseLaunch(r)
  BY <1>5, JobGoToType DEF TypeOK, RefuseLaunch, claims
<1>6. CASE MakeDirectory(r)
  BY <1>6, <1>2, <1>3, SetVmType, JobGoToType DEF TypeOK, MakeDirectory, claims
<1>7. CASE BuildFails(r)
  BY <1>7, <1>2, <1>3, SetVmType, JobGoToType DEF TypeOK, BuildFails, claims
<1>8. CASE SpawnVm(r)
  BY <1>8, <1>2, <1>3, SetVmType, JobGoToType DEF TypeOK, SpawnVm, claims
<1>9. CASE GuestReady(r)
  BY <1>9, <1>2, <1>3, SetVmType, JobGoToType DEF TypeOK, GuestReady, claims
<1>10. CASE GuestNotReady(r)
  BY <1>10, <1>2, <1>3, SetVmType, JobGoToType DEF TypeOK, GuestNotReady, claims
<1>11. CASE FailProvisioning(r)
  BY <1>11, <1>1, EditTypes, RowWriteType, JobGoToType DEF TypeOK, FailProvisioning, claims
<1>12. CASE Settle(r)
  <2>1. ApplyInfo(job[r].cache, vm[NameOf[r]], TRUE) \in RowRecord
    BY <1>1, <1>2, ApplyInfoType
  <2> DEFINE after == WriteBack(row[r], job[r].cache,
                                ApplyInfo(job[r].cache, vm[NameOf[r]], TRUE))
  <2>2. after \in RowRecord
    BY <2>1, <1>1, RowWriteType
  <2>3. PICK next \in {"settling", "ending"} :
          job' = [job EXCEPT ![r] = [pc |-> next, cache |-> after]]
    BY <1>12 DEF Settle
  <2>4. row' = [row EXCEPT ![r] = after] /\ UNCHANGED <<vm, claims, req, pass, seen, forced, budget>>
    BY <1>12 DEF Settle
  <2> HIDE DEF after
  <2>5. QED
    BY <2>2, <2>3, <2>4 DEF TypeOK, JobRecord, claims
<1>13. CASE SettleBlind(r)
  BY <1>13, <1>1, EditTypes, RowWriteType, JobGoToType DEF TypeOK, SettleBlind, claims
<1>14. CASE EndJob(r)
  BY <1>14, ReleaseType, RecordTypes DEF TypeOK, EndJob
<1>15. QED
  BY <1>4, <1>5, <1>6, <1>7, <1>8, <1>9, <1>10, <1>11, <1>12, <1>13, <1>14 DEF JobStep

LEMMA PassKeepsType ==
  ASSUME TypeOK, Listed, NEW c \in Pass, PassStep(c)
  PROVE  TypeOK'
<1>1. pass[c] \in PassRecord
  BY DEF TypeOK
<1>2. NotSeen \in [Row -> SUBSET VmState]
  BY DEF NotSeen
<1>3. ASSUME EndPass(c)
      PROVE  /\ pass' \in [Pass -> PassRecord]
             /\ seen' \in [Pass -> [Row -> SUBSET VmState]]
  BY <1>2, <1>3, RecordTypes DEF TypeOK, EndPass
<1>4. CASE BeginPass(c)
  <2>1. [NoPass EXCEPT !.pc = "listing", !.known = LiveRows,
                       !.busy = inFlight, !.ops = operationsCompleted] \in PassRecord
    BY RecordTypes DEF TypeOK, LiveRows, PassRecord
  <2>2. [r \in Row |-> {vm[NameOf[r]]}] \in [Row -> SUBSET VmState]
    BY NamesAndRows DEF TypeOK
  <2>3. QED
    BY <1>4, <2>1, <2>2 DEF TypeOK, BeginPass, claims
<1>5. ASSUME NEW n \in Name, ListName(c, n)
      PROVE  TypeOK'
  BY <1>5, <1>1 DEF TypeOK, ListName, PassRecord, claims
<1>6. CASE ListingFails(c)
  BY <1>6, <1>3 DEF TypeOK, ListingFails, claims
<1>7. CASE ReadRows(c)
  BY <1>7, <1>1 DEF TypeOK, ReadRows, PassRecord, claims
<1>8. CASE Decide(c)
  <2>1. Stale(pass[c]) \subseteq Row
    BY <1>1 DEF TypeOK, Stale, PassRecord
  <2>2. QED
    BY <1>8, <1>1, <2>1 DEF TypeOK, Decide, PassRecord, claims
<1>9. CASE CommitPass(c)
  <2>1. ASSUME NEW r \in Row
        PROVE  Corrected(pass[c], r) \in RowRecord
    <3>1. row[r] \in RowRecord /\ pass[c].rows[r] \in RowRecord
      BY <1>1 DEF TypeOK, PassRecord
    <3>2. pass[c].list[NameOf[r]] \in VmState
      BY <1>1, <1>9, NamesAndRows DEF PassRecord, Listed, CommitPass
    <3>3. QED
      BY <3>1, <3>2, ApplyInfoType, WriteBackType DEF Corrected
  <2>2. QED
    BY <1>9, <1>3, <2>1 DEF TypeOK, CommitPass, claims
<1>10. QED
  BY <1>4, <1>5, <1>6, <1>7, <1>8, <1>9 DEF PassStep

LEMMA EnvironmentKeepsType ==
  ASSUME TypeOK, Crash \/ (\E n \in Name : VmDrifts(n))
  PROVE  TypeOK'
<1>1. CASE Crash
  BY <1>1, RecordTypes DEF TypeOK, Crash, NotSeen
<1>2. ASSUME NEW n \in Name, VmDrifts(n)
      PROVE  TypeOK'
  <2>1. PICK v \in VmState : SetVm(n, v)
    BY <1>2 DEF VmDrifts, Alive, VmState
  <2>2. budget' \in Nat
    BY <1>2 DEF VmDrifts, TypeOK
  <2>3. QED
    BY <1>2, <2>1, <2>2, SetVmType DEF TypeOK, VmDrifts, claims
<1>3. QED
  BY <1>1, <1>2

LEMMA InitType == Init => TypeOK /\ Listed
<1> SUFFICES ASSUME Init PROVE TypeOK /\ Listed
  OBVIOUS
<1>1. row \in [Row -> RowRecord] /\ vm \in [Name -> VmState]
  BY RecordTypes DEF Init, RowRecord, InstanceStatus, VmState
<1>2. QED
  BY <1>1, RecordTypes, LifecycleAssumption
  DEF Init, TypeOK, Listed, NotSeen, NoPass

LEMMA NextKeepsListed ==
  ASSUME TypeOK, Listed, [Next]_vars
  PROVE  Listed'
<1>1. ASSUME pass' = pass
      PROVE  Listed'
  BY <1>1, SMTT(30) DEF Listed
<1>2. ASSUME NEW q \in Request, RequestStep(q)
      PROVE  pass' = pass
  BY <1>2 DEF RequestStep, LoadRow, ClaimRow, Drive, DriveSecondHalf, Unavailable,
              SyncInstance, MarkError, Terminate, EndRequest, CheckName, InsertRow
<1>3. ASSUME NEW r \in Row, JobStep(r)
      PROVE  pass' = pass
  BY <1>3 DEF JobStep, StartJob, RefuseLaunch, MakeDirectory, BuildFails, SpawnVm,
              GuestReady, GuestNotReady, FailProvisioning, Settle, SettleBlind, EndJob
<1>4. ASSUME NEW c \in Pass, PassStep(c)
      PROVE  Listed'
  <2>1. pass[c] \in PassRecord
    BY DEF TypeOK
  <2>2. CASE BeginPass(c) \/ ListingFails(c) \/ CommitPass(c)
    <3>1. pass'[c].pc \in {"idle", "listing"}
      <4>1. CASE BeginPass(c)
        BY <4>1, RecordTypes DEF BeginPass, PassRecord, TypeOK
      <4>2. CASE EndPass(c)
        BY <4>2 DEF EndPass, NoPass, TypeOK
      <4>3. QED
        BY <2>2, <4>1, <4>2 DEF ListingFails, CommitPass
    <3>2. \A d \in Pass \ {c} : pass'[d] = pass[d]
      BY <2>2 DEF BeginPass, ListingFails, CommitPass, EndPass, TypeOK
    <3>3. QED
      BY <3>1, <3>2 DEF Listed
  <2>3. ASSUME NEW n \in Name, ListName(c, n)
        PROVE  Listed'
    BY <2>1, <2>3 DEF ListName, Listed, TypeOK, PassRecord
  <2>4. CASE ReadRows(c)
    BY <2>1, <2>4 DEF ReadRows, Listed, TypeOK, PassRecord
  <2>5. CASE Decide(c)
    BY <2>1, <2>5 DEF Decide, Listed, TypeOK, PassRecord
  <2>6. QED
    BY <1>4, <2>2, <2>3, <2>4, <2>5 DEF PassStep
<1>5. ASSUME NEW n \in Name, VmDrifts(n)
      PROVE  pass' = pass
  BY <1>5 DEF VmDrifts
<1>6. CASE Crash
  BY <1>6 DEF Crash, NoPass, Listed
<1>7. CASE UNCHANGED vars
  BY <1>7 DEF vars, Listed
<1>8. QED
  BY <1>1, <1>2, <1>3, <1>4, <1>5, <1>6, <1>7 DEF Next

LEMMA NextKeepsType ==
  ASSUME TypeOK, Listed, [Next]_vars
  PROVE  TypeOK'
<1>1. CASE UNCHANGED vars
  BY <1>1 DEF vars, TypeOK, claims
<1>2. QED
  BY <1>1, RequestKeepsType, JobKeepsType, PassKeepsType, EnvironmentKeepsType DEF Next

-----------------------------------------------------------------------------
(***************************************************************************)
(* Births                                                                  *)
(***************************************************************************)

\* An observation either leaves the status alone or makes it the reported one.
LEMMA ApplyInfoStatus ==
  ASSUME NEW rw \in RowRecord, NEW v \in VmState, NEW auth \in BOOLEAN
  PROVE  /\ Reported(v) \in {"Running", "Stopped", "Error"}
         /\ ApplyInfo(rw, v, auth).st \in {rw.st, Reported(v)}
BY DEF ApplyInfo, RowRecord, VmState, InstanceStatus, Launching, Alive, Reported

\* Writing an edit back never brings a row back to before its insertion.
LEMMA WriteBackBorn ==
  ASSUME NEW current \in RowRecord, NEW loaded \in RowRecord, NEW edited \in RowRecord,
         current.st # "Unborn", edited.st = loaded.st \/ edited.st # "Unborn"
  PROVE  WriteBack(current, loaded, edited).st # "Unborn"
BY DEF WriteBack

LEMMA CorrectedBorn ==
  ASSUME TypeOK, Listed, NEW c \in Pass, pass[c].pc = "decided",
         NEW r \in Row, Born(r)
  PROVE  Corrected(pass[c], r).st # "Unborn"
<1>1. row[r] \in RowRecord /\ pass[c].rows[r] \in RowRecord
  BY DEF TypeOK, PassRecord
<1>2. pass[c].list[NameOf[r]] \in VmState
  BY NamesAndRows DEF TypeOK, PassRecord, Listed
<1>3. QED
  BY <1>1, <1>2, ApplyInfoType, ApplyInfoStatus, WriteBackBorn DEF Corrected, Born

LEMMA BornStaysBorn ==
  ASSUME TypeOK, Listed, [Next]_vars, NEW r \in Row, Born(r)
  PROVE  Born(r)'
<1>1. ASSUME row' = row
      PROVE  Born(r)'
  BY <1>1 DEF Born
<1>2. row[r] \in RowRecord /\ row[r].st # "Unborn" /\ NameOf[r] \in Name
  BY NamesAndRows DEF TypeOK, Born
<1>3. ASSUME NEW loaded \in RowRecord, NEW edited \in RowRecord, NEW s \in Row,
             edited.st = loaded.st \/ edited.st # "Unborn",
             row' = [row EXCEPT ![s] = WriteBack(row[s], loaded, edited)]
      PROVE  Born(r)'
  BY <1>2, <1>3, WriteBackBorn DEF TypeOK, Born
<1>4. ASSUME NEW q \in Request, RequestStep(q)
      PROVE  Born(r)'
  <2>1. /\ req[q].target \in Row /\ req[q].cache \in RowRecord
        /\ vm[NameOf[req[q].target]] \in VmState
    BY NamesAndRows DEF TypeOK, RequestRecord
  <2>2. CASE SyncInstance(q)
    BY <2>1, <2>2, <1>3, ApplyInfoType, ApplyInfoStatus DEF SyncInstance
  <2>3. CASE MarkError(q)
    <3>1. WithError(req[q].cache).st = "Error" /\ WithError(req[q].cache) \in RowRecord
      BY <2>1, EditTypes DEF WithError, RowRecord
    <3>2. QED
      BY <2>1, <2>3, <3>1, <1>3 DEF MarkError
  <2>4. CASE Terminate(q)
    BY <2>1, <2>4, <1>3, EditTypes DEF Terminate, WithTerminated
  <2>5. CASE InsertRow(q)
    BY <2>5, <2>1 DEF InsertRow, Born, Pending, TypeOK
  <2>6. CASE row' = row
    BY <2>6, <1>1
  <2>7. QED
    BY <1>4, <2>2, <2>3, <2>4, <2>5, <2>6
    DEF RequestStep, LoadRow, ClaimRow, Drive, DriveSecondHalf, Unavailable,
        EndRequest, CheckName
<1>5. ASSUME NEW s \in Row, JobStep(s)
      PROVE  Born(r)'
  <2>1. job[s].cache \in RowRecord /\ vm[NameOf[s]] \in VmState
    BY NamesAndRows DEF TypeOK, JobRecord
  <2>2. CASE StartJob(s)
    BY <2>2, <1>2 DEF StartJob, TypeOK, Born, RowRecord
  <2>3. CASE FailProvisioning(s)
    <3>1. WithError(job[s].cache).st = "Error" /\ WithError(job[s].cache) \in RowRecord
      BY <2>1, EditTypes DEF WithError, RowRecord
    <3>2. QED
      BY <2>1, <2>3, <3>1, <1>3 DEF FailProvisioning
  <2>4. CASE Settle(s)
    BY <2>1, <2>4, <1>3, ApplyInfoType, ApplyInfoStatus DEF Settle
  <2>5. CASE SettleBlind(s)
    <3>1. /\ [job[s].cache EXCEPT !.st = "Running"].st = "Running"
          /\ [job[s].cache EXCEPT !.st = "Running"] \in RowRecord
      BY <2>1, EditTypes DEF RowRecord
    <3>2. QED
      BY <2>1, <2>5, <3>1, <1>1, <1>3 DEF SettleBlind
  <2>6. CASE row' = row
    BY <2>6, <1>1
  <2>7. QED
    BY <1>5, <2>2, <2>3, <2>4, <2>5, <2>6
    DEF JobStep, RefuseLaunch, MakeDirectory, BuildFails, SpawnVm, GuestReady,
        GuestNotReady, EndJob
<1>6. ASSUME NEW c \in Pass, PassStep(c)
      PROVE  Born(r)'
  <2>1. CASE CommitPass(c)
    BY <2>1, CorrectedBorn DEF CommitPass, Born
  <2>2. QED
    BY <1>1, <1>6, <2>1 DEF PassStep, BeginPass, ListName, ListingFails, ReadRows, Decide
<1>7. ASSUME NEW n \in Name, VmDrifts(n)
      PROVE  Born(r)'
  BY <1>1, <1>7 DEF VmDrifts
<1>8. CASE Crash \/ UNCHANGED vars
  BY <1>1, <1>8 DEF Crash, vars
<1>9. QED
  BY <1>4, <1>5, <1>6, <1>7, <1>8 DEF Next

\* The other way round: only create_instance brings a row into being.
LEMMA OnlyInsertionBears ==
  ASSUME TypeOK, Listed, Births, [Next]_vars, NEW r \in Row, ~Born(r), Born(r)'
  PROVE  \E q \in Request : InsertRow(q) /\ req[q].target = r
<1>1. row'[r] # row[r]
  BY DEF Born
<1>2. PICK q \in Request : RequestStep(q)
  <2>1. ASSUME NEW s \in Row, JobStep(s)
        PROVE  FALSE
    <3>1. job[s].pc # "none" /\ s # r
      BY <2>1 DEF Births, NamedUnborn, ActiveBorn, KnownBorn, JobAt, JobStep, StartJob,
         RefuseLaunch, MakeDirectory,
         BuildFails, SpawnVm, GuestReady, GuestNotReady, FailProvisioning, Settle,
         SettleBlind, EndJob
    <3>2. QED
      BY <1>1, <2>1, <3>1 DEF TypeOK, JobStep, StartJob, RefuseLaunch, MakeDirectory,
         BuildFails, SpawnVm, GuestReady, GuestNotReady, FailProvisioning, Settle,
         SettleBlind, EndJob
  <2>2. ASSUME NEW c \in Pass, PassStep(c)
        PROVE  FALSE
    <3>1. ~IsLive(pass[c].rows[r])
      BY DEF Births, NamedUnborn, ActiveBorn, KnownBorn, IsLive
    <3>2. QED
      BY <1>1, <2>2, <3>1 DEF PassStep, BeginPass, ListName, ListingFails, ReadRows,
         Decide, CommitPass, Corrected
  <2>3. QED
    BY <1>1, <2>1, <2>2 DEF Next, VmDrifts, Crash, vars
<1>3. req[q] \in RequestRecord
  BY DEF TypeOK
<1>4. InsertRow(q)
  <2>1. ASSUME req[q].pc \notin {"idle", "named"}
        PROVE  FALSE
    <3>1. req[q].target # r
      BY <2>1 DEF Births, NamedUnborn, ActiveBorn, KnownBorn, At
    <3>2. QED
      BY <1>1, <1>2, <2>1, <3>1 DEF TypeOK, At, RequestStep, LoadRow, ClaimRow, Drive,
         DriveSecondHalf, Unavailable, SyncInstance, MarkError, Terminate, EndRequest,
         CheckName, InsertRow
  <2>2. QED
    BY <1>1, <1>2, <2>1 DEF RequestStep, LoadRow, ClaimRow, Drive, DriveSecondHalf,
       Unavailable, SyncInstance, MarkError, Terminate, EndRequest, CheckName, At
<1>5. req[q].target = r
  BY <1>1, <1>3, <1>4 DEF InsertRow, TypeOK, RequestRecord
<1>6. QED
  BY <1>4, <1>5

LEMMA InitBirths == Init => Births
BY DEF Init, Births, NamedUnborn, ActiveBorn, KnownBorn, At, NoRequest, NoJob, NoPass, Unborn

\* A row that exists goes on existing, so a reader that knew it still may.
LEMMA NextKeepsKnown ==
  ASSUME TypeOK, Listed, Births, [Next]_vars
  PROVE  KnownBorn'
<1>1. \A r \in Row : Born(r) => Born(r)'
  BY BornStaysBorn
<1>2. ASSUME NEW c \in Pass, NEW r \in Row,
             r \in pass'[c].known \/ pass'[c].rows[r].st # "Unborn"
      PROVE  r \in pass[c].known \/ pass[c].rows[r].st # "Unborn" \/ Born(r)
  <2>1. pass[c] \in PassRecord
    BY DEF TypeOK
  <2>2. NoPass.known = {} /\ NoPass.rows[r].st = "Unborn"
    BY DEF NoPass, Unborn
  <2>3. CASE pass'[c] = pass[c] \/ pass'[c] = NoPass
    BY <1>2, <2>2, <2>3
  <2>4. CASE BeginPass(c)
    BY <1>2, <2>2, <2>4, RecordTypes DEF BeginPass, TypeOK, LiveRows, IsLive, Born, PassRecord
  <2>5. CASE ReadRows(c)
    BY <1>2, <2>1, <2>5 DEF ReadRows, TypeOK, Born, PassRecord
  <2>6. CASE Decide(c)
    BY <1>2, <2>1, <2>6 DEF Decide, TypeOK, PassRecord
  <2>7. ASSUME NEW n \in Name, ListName(c, n)
        PROVE  r \in pass[c].known \/ pass[c].rows[r].st # "Unborn"
    BY <1>2, <2>1, <2>7 DEF ListName, TypeOK, PassRecord
  <2>8. CASE PassStep(c)
    BY <2>3, <2>4, <2>5, <2>6, <2>7, <2>8
    DEF PassStep, ListingFails, CommitPass, EndPass, TypeOK
  <2>9. CASE \E d \in Pass \ {c} : PassStep(d)
    BY <2>3, <2>9, SMTT(30) DEF TypeOK, PassStep, BeginPass, ListName, ListingFails, ReadRows,
       Decide, CommitPass, EndPass
  <2>10. CASE \E q \in Request : RequestStep(q)
    BY <2>3, <2>10, ZenonT(60) DEF RequestStep, LoadRow, ClaimRow, Drive, DriveSecondHalf,
       Unavailable, SyncInstance, MarkError, Terminate, EndRequest, CheckName, InsertRow
  <2>11. CASE \E s \in Row : JobStep(s)
    BY <2>3, <2>11 DEF JobStep, StartJob, RefuseLaunch, MakeDirectory, BuildFails,
       SpawnVm, GuestReady, GuestNotReady, FailProvisioning, Settle, SettleBlind, EndJob
  <2>12. QED
    BY <2>3, <2>8, <2>9, <2>10, <2>11 DEF Next, VmDrifts, Crash, vars
<1>3. QED
  BY <1>1, <1>2 DEF Births, KnownBorn

LEMMA RequestKeepsBirths ==
  ASSUME TypeOK, Listed, Births, NEW q \in Request, RequestStep(q)
  PROVE  NamedUnborn' /\ ActiveBorn'
<1>1. [Next]_vars
  BY DEF Next
<1>2. req[q] \in RequestRecord /\ NameOf[req[q].target] \in Name
  BY NamesAndRows DEF TypeOK, RequestRecord
<1>3. \A r \in Row : Born(r) => Born(r)'
  BY <1>1, BornStaysBorn
<1>4. \A p \in Request : req[p].target \in Row
  BY DEF TypeOK, RequestRecord
<1>5. \A p \in Request \ {q} : req'[p] = req[p]
  BY DEF TypeOK, GoTo, RequestStep, LoadRow, ClaimRow, Drive, DriveSecondHalf, Unavailable,
     SyncInstance, MarkError, Terminate, EndRequest, CheckName, InsertRow
<1>6. CASE InsertRow(q)
  <2> DEFINE t == req[q].target
  <2>1. At(q, "named") /\ req'[q].pc = "idle" /\ t \in Row
    BY <1>2, <1>6 DEF InsertRow, TypeOK, NoRequest, RequestRecord
  <2>2. row'[t].st = "Pending" /\ \A r \in Row \ {t} : row'[r] = row[r] /\ job'[r] = job[r]
    BY <2>1, <1>6 DEF InsertRow, TypeOK, Pending
  <2>3. ASSUME NEW p \in Request, req'[p].pc = "named"
        PROVE  p # q /\ req[p].pc = "named" /\ req'[p] = req[p] /\ req[p].target # t
    BY <1>5, <2>1, <2>3 DEF Births, NamedUnborn, At
  <2>4. NamedUnborn'
    BY <1>4, <2>2, <2>3 DEF Births, NamedUnborn, At, Born
  <2>5. ActiveBorn'
    <3>1. ASSUME NEW p \in Request, req'[p].pc \notin {"idle", "named"}
          PROVE  Born(req[p].target) /\ req'[p] = req[p]
      BY <1>5, <2>1, <3>1 DEF Births, ActiveBorn, At
    <3>2. ASSUME NEW r \in Row, job'[r].pc # "none"
          PROVE  Born(r) \/ r = t
      BY <2>2, <3>2 DEF Births, ActiveBorn
    <3>3. QED
      BY <1>3, <1>4, <2>2, <3>1, <3>2 DEF ActiveBorn, At, Born
  <2>6. QED
    BY <2>4, <2>5
<1>7. ASSUME ~InsertRow(q)
      PROVE  \A r \in Row : Born(r)' <=> Born(r)
  <2>1. \A p \in Request : InsertRow(p) => p = q
    BY <1>5 DEF InsertRow, At, NoRequest, TypeOK
  <2>2. QED
    BY <1>1, <1>3, <1>7, <2>1, OnlyInsertionBears
\* Every other step leaves the jobs alone.  What is left to show is about q.
<1>8. ASSUME ~InsertRow(q), UNCHANGED job, req'[q].target \in Row,
             req'[q].pc = "named" =>
               /\ ~Born(req'[q].target)
               /\ \A p \in Request : At(p, "named") => req[p].target # req'[q].target,
             req'[q].pc \notin {"idle", "named"} => Born(req'[q].target)
      PROVE  NamedUnborn' /\ ActiveBorn'
  <2>1. ASSUME NEW p \in Request, req'[p].pc = "named"
        PROVE  ~Born(req'[p].target) /\ req'[p].target \in Row
    BY <1>4, <1>5, <1>8, <2>1 DEF Births, NamedUnborn, At
  <2>2. ASSUME NEW p \in Request, req'[p].pc \notin {"idle", "named"}
        PROVE  Born(req'[p].target) /\ req'[p].target \in Row
    BY <1>4, <1>5, <1>8, <2>2 DEF Births, ActiveBorn, At
  <2>3. ASSUME NEW p \in Request, NEW o \in Request, req'[p].pc = "named",
               req'[o].pc = "named", req'[p].target = req'[o].target
        PROVE  p = o
    BY <1>5, <1>8, <2>3 DEF Births, NamedUnborn, At
  <2>4. NamedUnborn'
    BY <1>7, <1>8, <2>1, <2>3 DEF NamedUnborn, At, Born
  <2>5. ActiveBorn'
    BY <1>7, <1>8, <2>2 DEF Births, ActiveBorn, At, Born
  <2>6. QED
    BY <2>4, <2>5
<1>9. ASSUME NEW pc \in {"claimed", "halfway", "driven", "failed", "ending"}, GoTo(q, pc),
             ~At(q, "idle"), ~At(q, "named"), UNCHANGED job
      PROVE  NamedUnborn' /\ ActiveBorn'
  <2>1. req'[q].pc = pc /\ req'[q].target = req[q].target
    BY <1>2, <1>9 DEF GoTo, TypeOK, RequestRecord
  <2>2. Born(req[q].target) /\ ~InsertRow(q)
    BY <1>9 DEF Births, ActiveBorn, InsertRow
  <2>3. QED
    BY <1>4, <1>8, <1>9, <2>1, <2>2
<1>10. ASSUME NEW op \in Operation, NEW r \in Row, NEW f \in BOOLEAN, LoadRow(q, op, r, f)
       PROVE  NamedUnborn' /\ ActiveBorn'
  <2>1. /\ job' = job /\ Born(r) /\ req'[q].target = r /\ req'[q].pc = "loaded"
        /\ ~InsertRow(q)
    BY <1>10 DEF LoadRow, Born, TypeOK, At, InsertRow
  <2>2. QED
    BY <1>8, <2>1
<1>11. CASE Drive(q)
  <2>1. PICK o \in Outcome(q, vm[NameOf[req[q].target]]) : GoTo(q, o[2])
    BY <1>11 DEF Drive
  <2>2. o[2] \in {"driven", "failed", "halfway"}
    BY <1>2, <2>1, OutcomeType DEF TypeOK
  <2>3. QED
    BY <1>9, <1>11, <2>1, <2>2 DEF Drive, At
<1>12. CASE DriveSecondHalf(q)
  <2>1. PICK o \in BootOutcome(vm[NameOf[req[q].target]]) : GoTo(q, o[2])
    BY <1>12 DEF DriveSecondHalf
  <2>2. o[2] \in {"driven", "failed", "halfway"}
    BY <1>2, <2>1, OutcomeType DEF TypeOK
  <2>3. QED
    BY <1>9, <1>12, <2>1, <2>2 DEF DriveSecondHalf, At
<1>13. CASE ClaimRow(q)
  BY <1>9, <1>13 DEF ClaimRow, At
<1>14. CASE Unavailable(q)
  BY <1>9, <1>14 DEF Unavailable, At
<1>15. CASE SyncInstance(q)
  BY <1>9, <1>15 DEF SyncInstance, At
<1>16. CASE MarkError(q)
  BY <1>9, <1>16 DEF MarkError, At
<1>17. CASE Terminate(q)
  BY <1>9, <1>17 DEF Terminate, At
<1>18. CASE EndRequest(q)
  <2>1. req'[q].pc = "idle" /\ req'[q].target \in Row /\ job' = job /\ ~InsertRow(q)
    BY <1>18, NamesAndRows DEF EndRequest, At, InsertRow, NoRequest, TypeOK
  <2>2. QED
    BY <1>8, <2>1
<1>19. ASSUME NEW r \in Row, CheckName(q, r)
       PROVE  NamedUnborn' /\ ActiveBorn'
  <2>1. /\ job' = job /\ ~Born(r) /\ ~InsertRow(q)
        /\ req'[q].target = r /\ req'[q].pc = "named"
        /\ \A p \in Request : At(p, "named") => req[p].target # r
    BY <1>19, RecordTypes DEF CheckName, Born, TypeOK, Unborn, RequestRecord, At, InsertRow
  <2>2. QED
    BY <1>8, <2>1
<1>20. QED
  BY <1>6, <1>10, <1>11, <1>12, <1>13, <1>14, <1>15, <1>16, <1>17, <1>18, <1>19
  DEF RequestStep

LEMMA NextKeepsBirths ==
  ASSUME TypeOK, Listed, Births, [Next]_vars
  PROVE  Births'
<1> SUFFICES NamedUnborn' /\ ActiveBorn'
  BY NextKeepsKnown DEF Births
<1>1. \A r \in Row : Born(r) => Born(r)'
  BY BornStaysBorn
<1>2. ASSUME UNCHANGED req, \A r \in Row : job'[r].pc # "none" => job[r].pc # "none"
      PROVE  NamedUnborn' /\ ActiveBorn'
  <2>1. \A q \in Request : req[q].target \in Row
    BY DEF TypeOK, RequestRecord
  <2>2. \A r \in Row : Born(r)' <=> Born(r)
    <3>1. \A q \in Request : ~InsertRow(q)
      BY <1>2, <2>1 DEF InsertRow, At, TypeOK, NoRequest
    <3>2. QED
      BY <1>1, <3>1, OnlyInsertionBears
  <2>3. QED
    BY <1>2, <2>1, <2>2 DEF Births, NamedUnborn, ActiveBorn, At, Born
<1>3. ASSUME NEW r \in Row, JobStep(r)
      PROVE  UNCHANGED req /\ \A s \in Row : job'[s].pc # "none" => job[s].pc # "none"
  <2>1. job[r].pc # "none" /\ UNCHANGED req
    BY <1>3 DEF JobAt, JobStep, StartJob, RefuseLaunch, MakeDirectory, BuildFails, SpawnVm,
       GuestReady, GuestNotReady, FailProvisioning, Settle, SettleBlind, EndJob
  <2>2. \A s \in Row \ {r} : job'[s] = job[s]
    BY <1>3 DEF TypeOK, JobGoTo, JobStep, StartJob, RefuseLaunch, MakeDirectory, BuildFails,
       SpawnVm, GuestReady, GuestNotReady, FailProvisioning, Settle, SettleBlind, EndJob
  <2>3. QED
    BY <2>1, <2>2
<1>4. CASE Crash
  <2>1. \A q \in Request : req'[q].pc = "idle"
    BY <1>4 DEF Crash, NoRequest
  <2>2. \A r \in Row : job'[r].pc = "none"
    BY <1>4 DEF Crash, NoJob
  <2>3. QED
    BY <2>1, <2>2 DEF NamedUnborn, ActiveBorn, At
<1>5. CASE (\E c \in Pass : PassStep(c)) \/ (\E n \in Name : VmDrifts(n)) \/ UNCHANGED vars
  <2>1. UNCHANGED <<req, job>>
    BY <1>5 DEF PassStep, BeginPass, ListName, ListingFails, ReadRows, Decide, CommitPass,
       VmDrifts, vars
  <2>2. \A r \in Row : job'[r].pc # "none" => job[r].pc # "none"
    BY <2>1
  <2>3. QED
    BY <1>2, <2>1, <2>2
<1>6. CASE \E r \in Row : JobStep(r)
  <2>1. UNCHANGED req /\ \A s \in Row : job'[s].pc # "none" => job[s].pc # "none"
    BY <1>3, <1>6
  <2>2. QED
    BY <1>2, <2>1
<1>7. QED
  BY <1>4, <1>5, <1>6, RequestKeepsBirths DEF Next

-----------------------------------------------------------------------------
(***************************************************************************)
(* Claims                                                                  *)
(***************************************************************************)

LEMMA InitClaims == Init => ClaimsHaveOwners
BY DEF Init, ClaimsHaveOwners

\* An operation under way that goes on to another of its steps.
LEMMA GoOnKeepsOwners ==
  ASSUME TypeOK, ClaimsHaveOwners, NEW q \in Request,
         req[q].pc \in {"claimed", "halfway", "driven", "failed", "ending"},
         NEW pc \in {"claimed", "halfway", "driven", "failed", "ending"},
         GoTo(q, pc), UNCHANGED <<inFlight, job>>
  PROVE  ClaimsHaveOwners'
<1>1. \A p \in Request, r \in Row : Operating(p, r) => Operating(p, r)'
  BY DEF TypeOK, GoTo, Operating, RequestRecord
<1>2. \A r \in Row : JobRunning(r) => JobRunning(r)'
  BY DEF JobRunning
<1>3. QED
  BY <1>1, <1>2 DEF ClaimsHaveOwners, TypeOK

LEMMA RequestKeepsOwners ==
  ASSUME TypeOK, Births, ClaimsHaveOwners, NEW q \in Request, RequestStep(q)
  PROVE  ClaimsHaveOwners'
<1>1. req[q] \in RequestRecord /\ NameOf[req[q].target] \in Name
  BY NamesAndRows DEF TypeOK, RequestRecord
<1>2. ASSUME NEW op \in Operation, NEW r \in Row, NEW f \in BOOLEAN, LoadRow(q, op, r, f)
      PROVE  ClaimsHaveOwners'
  BY <1>2 DEF TypeOK, LoadRow, At, claims, ClaimsHaveOwners, JobRunning, Operating
<1>3. CASE ClaimRow(q)
  BY <1>1, <1>3 DEF TypeOK, ClaimRow, Claim, GoTo, At, RequestRecord,
                    ClaimsHaveOwners, JobRunning, Operating
<1>4. CASE Drive(q)
  <2>1. PICK o \in Outcome(q, vm[NameOf[req[q].target]]) : GoTo(q, o[2])
    BY <1>4 DEF Drive
  <2>2. o[2] \in {"driven", "failed", "halfway"}
    BY <1>1, <2>1, OutcomeType DEF TypeOK
  <2>3. QED
    BY <1>4, <2>1, <2>2, GoOnKeepsOwners DEF Drive, At, claims
<1>5. CASE DriveSecondHalf(q)
  <2>1. PICK o \in BootOutcome(vm[NameOf[req[q].target]]) : GoTo(q, o[2])
    BY <1>5 DEF DriveSecondHalf
  <2>2. o[2] \in {"driven", "failed", "halfway"}
    BY <1>1, <2>1, OutcomeType DEF TypeOK
  <2>3. QED
    BY <1>5, <2>1, <2>2, GoOnKeepsOwners DEF DriveSecondHalf, At, claims
<1>6. CASE Unavailable(q)
  BY <1>6, GoOnKeepsOwners DEF Unavailable, At, claims
<1>7. CASE SyncInstance(q)
  BY <1>7, GoOnKeepsOwners DEF SyncInstance, At, claims
<1>8. CASE MarkError(q)
  BY <1>8, GoOnKeepsOwners DEF MarkError, At, claims
<1>9. CASE Terminate(q)
  BY <1>9, GoOnKeepsOwners DEF Terminate, At, claims
<1>10. CASE EndRequest(q)
  BY <1>1, <1>10 DEF TypeOK, EndRequest, Release, At, RequestRecord,
                     ClaimsHaveOwners, JobRunning, Operating
<1>11. ASSUME NEW r \in Row, CheckName(q, r)
       PROVE  ClaimsHaveOwners'
  BY <1>11 DEF TypeOK, CheckName, At, claims, ClaimsHaveOwners, JobRunning, Operating
<1>12. CASE InsertRow(q)
  <2>1. job[req[q].target].pc = "none" /\ UNCHANGED inFlight
    BY <1>1, <1>12 DEF Births, NamedUnborn, ActiveBorn, KnownBorn, Born, InsertRow, At, claims,
       RequestRecord
  <2>2. \A r \in Row : JobRunning(r) => JobRunning(r)'
    BY <1>12, <2>1 DEF InsertRow, TypeOK, JobRunning
  <2>3. \A p \in Request, r \in Row : Operating(p, r) => Operating(p, r)'
    BY <1>12 DEF InsertRow, TypeOK, Operating, At
  <2>4. QED
    BY <2>1, <2>2, <2>3 DEF ClaimsHaveOwners, TypeOK
<1>13. QED
  BY <1>2, <1>3, <1>4, <1>5, <1>6, <1>7, <1>8, <1>9, <1>10, <1>11, <1>12
  DEF RequestStep

LEMMA JobKeepsOwners ==
  ASSUME TypeOK, ClaimsHaveOwners, NEW r \in Row, JobStep(r)
  PROVE  ClaimsHaveOwners'
<1>1. UNCHANGED req
  BY DEF JobStep, StartJob, RefuseLaunch, MakeDirectory, BuildFails, SpawnVm,
         GuestReady, GuestNotReady, FailProvisioning, Settle, SettleBlind, EndJob
<1>2. \A s \in Row \ {r} : job'[s] = job[s]
  BY DEF TypeOK, JobGoTo, JobStep, StartJob, RefuseLaunch, MakeDirectory, BuildFails,
         SpawnVm, GuestReady, GuestNotReady, FailProvisioning, Settle, SettleBlind, EndJob
<1>3. CASE EndJob(r)
  BY <1>1, <1>2, <1>3 DEF EndJob, Release, ClaimsHaveOwners, JobRunning, Operating, TypeOK
<1>4. CASE StartJob(r)
  BY <1>1, <1>2, <1>4 DEF StartJob, Claim, ClaimsHaveOwners, JobRunning, Operating, TypeOK
<1>5. CASE ~EndJob(r) /\ ~StartJob(r)
  <2>1. UNCHANGED inFlight
    BY <1>5 DEF claims, JobStep, RefuseLaunch, MakeDirectory, BuildFails, SpawnVm,
                GuestReady, GuestNotReady, FailProvisioning, Settle, SettleBlind
  <2>2. job'[r].pc \in {"booting", "waiting", "settling", "failed", "ending"}
    <3>1. job[r] \in JobRecord
      BY DEF TypeOK
    <3>2. CASE Settle(r)
      BY <3>2 DEF TypeOK, Settle
    <3>3. CASE \E pc \in {"booting", "waiting", "settling", "failed", "ending"} :
                 JobGoTo(r, pc)
      BY <3>1, <3>3 DEF TypeOK, JobGoTo, JobRecord
    <3>4. QED
      BY <1>5, <3>2, <3>3 DEF JobStep, RefuseLaunch, MakeDirectory, BuildFails,
         SpawnVm, GuestReady, GuestNotReady, FailProvisioning, SettleBlind
  <2>3. QED
    BY <1>1, <1>2, <2>1, <2>2 DEF ClaimsHaveOwners, JobRunning, Operating, TypeOK
<1>6. QED
  BY <1>3, <1>4, <1>5

LEMMA NextKeepsOwners ==
  ASSUME TypeOK, Births, ClaimsHaveOwners, [Next]_vars
  PROVE  ClaimsHaveOwners'
<1>1. ASSUME UNCHANGED <<inFlight, req, job>>
      PROVE  ClaimsHaveOwners'
  BY <1>1 DEF ClaimsHaveOwners, JobRunning, Operating
<1>2. ASSUME NEW c \in Pass, PassStep(c)
      PROVE  UNCHANGED <<inFlight, req, job>>
  BY <1>2 DEF PassStep, BeginPass, ListName, ListingFails, ReadRows, Decide, CommitPass, claims
<1>3. ASSUME NEW n \in Name, VmDrifts(n)
      PROVE  UNCHANGED <<inFlight, req, job>>
  BY <1>3 DEF VmDrifts, claims
<1>4. CASE Crash
  BY <1>4 DEF Crash, ClaimsHaveOwners
<1>5. CASE UNCHANGED vars
  BY <1>1, <1>5 DEF vars, claims
<1>6. QED
  BY <1>1, <1>2, <1>3, <1>4, <1>5, RequestKeepsOwners, JobKeepsOwners DEF Next

-----------------------------------------------------------------------------
(***************************************************************************)
(* What a pass knows of the rows it lists                                  *)
(***************************************************************************)

LEMMA SetVmKeepsHistory ==
  ASSUME TypeOK, History, NEW n \in Name, NEW v \in VmState, SetVm(n, v),
         UNCHANGED <<pass, operationsCompleted>>
  PROVE  History'
<1>1. ASSUME NEW c \in Pass, pass[c].pc # "idle", NEW r \in Row
      PROVE  /\ vm'[NameOf[r]] \in seen'[c][r]
             /\ seen[c][r] \subseteq seen'[c][r]
  BY <1>1, NamesAndRows DEF TypeOK, SetVm, History
<1>2. QED
  BY <1>1 DEF History

\* An operation that completes takes the row out of what the pass may use.
LEMMA ReleaseKeepsHistory ==
  ASSUME TypeOK, History, NEW s \in Row, Release(s), UNCHANGED <<pass, vm>>
  PROVE  History'
<1> SUFFICES ASSUME NEW c \in Pass, pass[c].pc # "idle", NEW r \in Row
             PROVE  /\ vm[NameOf[r]] \in seen'[c][r]
                    /\ pass[c].ops[r] <= operationsCompleted'[r]
                    /\ r \in pass[c].known /\ operationsCompleted'[r] = pass[c].ops[r]
                         /\ pass[c].list[NameOf[r]] # Unlisted
                       => pass[c].list[NameOf[r]] \in seen'[c][r]
  BY DEF History
<1>1. /\ vm[NameOf[r]] \in seen[c][r]
      /\ pass[c].ops[r] <= operationsCompleted[r]
      /\ pass[c].ops[r] \in Nat /\ operationsCompleted[r] \in Nat
  BY ZenonT(60) DEF History, TypeOK, PassRecord
<1>2. CASE r = s
  <2>1. operationsCompleted'[r] = operationsCompleted[r] + 1
    BY <1>2 DEF Release, TypeOK
  <2>2. seen'[c][r] = {vm[NameOf[r]]}
    BY <1>2 DEF Release, Forget, TypeOK
  <2>3. QED
    BY <1>1, <2>1, <2>2
<1>3. CASE r # s
  <2>1. operationsCompleted'[r] = operationsCompleted[r] /\ seen'[c][r] = seen[c][r]
    BY <1>3 DEF Release, Forget, TypeOK
  <2>2. QED
    BY <1>1, <2>1 DEF History
<1>4. QED
  BY <1>2, <1>3

LEMMA InsertionKeepsHistory ==
  ASSUME TypeOK, Births, History, NEW q \in Request, InsertRow(q)
  PROVE  History'
<1>1. ~Born(req[q].target) /\ UNCHANGED <<pass, vm, operationsCompleted>>
      /\ Forget(req[q].target)
  BY DEF Births, NamedUnborn, InsertRow, claims
<1>2. ASSUME NEW c \in Pass, pass[c].pc # "idle", NEW r \in Row
      PROVE  /\ vm[NameOf[r]] \in seen'[c][r]
             /\ r \in pass[c].known => seen'[c][r] = seen[c][r]
  <2>1. r \in pass[c].known => r # req[q].target
    BY <1>1 DEF Births, KnownBorn
  <2>2. QED
    BY <1>1, <1>2, <2>1 DEF Forget, History, TypeOK
<1>3. QED
  BY <1>1, <1>2 DEF History

LEMMA PassKeepsHistory ==
  ASSUME TypeOK, History, NEW c \in Pass, PassStep(c)
  PROVE  History'
<1>1. /\ UNCHANGED <<vm, operationsCompleted>>
      /\ \A d \in Pass \ {c} : pass'[d] = pass[d] /\ seen'[d] = seen[d]
  BY DEF TypeOK, PassStep, BeginPass, ListName, ListingFails, ReadRows, Decide,
     CommitPass, EndPass, claims
<1> SUFFICES ASSUME pass'[c].pc # "idle", NEW r \in Row
             PROVE  /\ vm[NameOf[r]] \in seen'[c][r]
                    /\ pass'[c].ops[r] <= operationsCompleted[r]
                    /\ r \in pass'[c].known /\ operationsCompleted[r] = pass'[c].ops[r]
                         /\ pass'[c].list[NameOf[r]] # Unlisted
                       => pass'[c].list[NameOf[r]] \in seen'[c][r]
  BY <1>1 DEF History
<1>2. pass[c] \in PassRecord /\ NameOf[r] \in Name /\ operationsCompleted[r] \in Nat
  BY NamesAndRows DEF TypeOK
<1>3. CASE BeginPass(c)
  <2>1. pass'[c].ops = operationsCompleted /\ pass'[c].list = NoPass.list
    BY <1>3, RecordTypes DEF BeginPass, TypeOK, PassRecord
  <2>2. NoPass.list[NameOf[r]] = Unlisted
    BY <1>2 DEF NoPass
  <2>3. vm[NameOf[r]] \in seen'[c][r]
    BY <1>3 DEF BeginPass, TypeOK
  <2>4. QED
    BY <1>2, <2>1, <2>2, <2>3
<1>4. ASSUME NEW n \in Name, ListName(c, n)
      PROVE  /\ vm[NameOf[r]] \in seen'[c][r]
             /\ pass'[c].ops[r] <= operationsCompleted[r]
             /\ r \in pass'[c].known /\ operationsCompleted[r] = pass'[c].ops[r]
                  /\ pass'[c].list[NameOf[r]] # Unlisted
                => pass'[c].list[NameOf[r]] \in seen'[c][r]
  <2>1. /\ pass'[c].ops = pass[c].ops /\ pass'[c].known = pass[c].known
        /\ pass'[c].list[NameOf[r]] \in {pass[c].list[NameOf[r]], vm[NameOf[r]]}
        /\ seen' = seen /\ pass[c].pc # "idle"
    BY <1>2, <1>4 DEF ListName, TypeOK, PassRecord
  <2>2. QED
    BY <2>1 DEF History
<1>5. CASE ReadRows(c) \/ Decide(c)
  <2>1. /\ pass'[c].ops = pass[c].ops /\ pass'[c].known = pass[c].known
        /\ pass'[c].list = pass[c].list
        /\ seen' = seen /\ pass[c].pc # "idle"
    BY <1>2, <1>5 DEF ReadRows, Decide, TypeOK, PassRecord
  <2>2. QED
    BY <2>1 DEF History
<1>6. CASE ListingFails(c) \/ CommitPass(c)
  BY <1>6 DEF ListingFails, CommitPass, EndPass, NoPass, TypeOK
<1>7. QED
  BY <1>3, <1>4, <1>5, <1>6 DEF PassStep

LEMMA NextKeepsHistory ==
  ASSUME TypeOK, Listed, Births, History, [Next]_vars
  PROVE  History'
<1>1. ASSUME UNCHANGED <<vm, seen, pass, operationsCompleted>>
      PROVE  History'
  BY <1>1 DEF History
<1>2. ASSUME NEW q \in Request, RequestStep(q)
      PROVE  History'
  <2>1. req[q].target \in Row /\ NameOf[req[q].target] \in Name
        /\ vm[NameOf[req[q].target]] \in VmState
    BY NamesAndRows DEF TypeOK, RequestRecord
  <2>2. CASE Drive(q)
    <3>1. PICK o \in Outcome(q, vm[NameOf[req[q].target]]) : SetVm(NameOf[req[q].target], o[1])
      BY <2>2 DEF Drive
    <3>2. o[1] \in VmState
      BY <2>1, <3>1, OutcomeType
    <3>3. QED
      BY <2>1, <2>2, <3>1, <3>2, SetVmKeepsHistory DEF Drive, claims
  <2>3. CASE DriveSecondHalf(q)
    <3>1. PICK o \in BootOutcome(vm[NameOf[req[q].target]]) : SetVm(NameOf[req[q].target], o[1])
      BY <2>3 DEF DriveSecondHalf
    <3>2. o[1] \in VmState
      BY <2>1, <3>1, OutcomeType
    <3>3. QED
      BY <2>1, <2>3, <3>1, <3>2, SetVmKeepsHistory DEF DriveSecondHalf, claims
  <2>4. CASE EndRequest(q)
    BY <2>1, <2>4, ReleaseKeepsHistory DEF EndRequest
  <2>5. CASE InsertRow(q)
    BY <2>5, InsertionKeepsHistory
  <2>6. CASE UNCHANGED <<vm, seen, pass, operationsCompleted>>
    BY <1>1, <2>6
  <2>7. QED
    BY <1>2, <2>2, <2>3, <2>4, <2>5, <2>6
    DEF RequestStep, LoadRow, ClaimRow, Claim, Unavailable, SyncInstance, MarkError,
        Terminate, CheckName, claims
<1>3. ASSUME NEW r \in Row, JobStep(r)
      PROVE  History'
  <2>1. NameOf[r] \in Name /\ vm[NameOf[r]] \in VmState
    BY NamesAndRows DEF TypeOK
  <2>2. CASE EndJob(r)
    BY <2>2, ReleaseKeepsHistory DEF EndJob
  <2>3. CASE UNCHANGED <<vm, seen, pass, operationsCompleted>>
    BY <1>1, <2>3
  <2>4. ASSUME MakeDirectory(r) \/ BuildFails(r) \/ SpawnVm(r) \/ GuestReady(r)
                 \/ GuestNotReady(r)
        PROVE  History'
    <3>1. UNCHANGED <<pass, operationsCompleted>>
      BY <2>4 DEF MakeDirectory, BuildFails, SpawnVm, GuestReady, GuestNotReady, claims
    <3>2. PICK v \in VmState : SetVm(NameOf[r], v)
      BY <2>1, <2>4 DEF MakeDirectory, BuildFails, SpawnVm, GuestReady, GuestNotReady, VmState
    <3>3. QED
      BY <2>1, <3>1, <3>2, SetVmKeepsHistory
  <2>5. QED
    BY <1>3, <2>2, <2>3, <2>4
    DEF JobStep, StartJob, Claim, RefuseLaunch, FailProvisioning, Settle, SettleBlind, claims
<1>4. ASSUME NEW n \in Name, VmDrifts(n)
      PROVE  History'
  <2>1. PICK v \in VmState : SetVm(n, v)
    BY <1>4 DEF VmDrifts, Alive, VmState
  <2>2. QED
    BY <1>4, <2>1, SetVmKeepsHistory DEF VmDrifts, claims
<1>5. CASE Crash
  BY <1>5 DEF Crash, NoPass, History
<1>6. CASE UNCHANGED vars
  BY <1>1, <1>6 DEF vars, claims
<1>7. QED
  BY <1>2, <1>3, <1>4, <1>5, <1>6, PassKeepsHistory DEF Next

LEMMA NextKeepsDecisions ==
  ASSUME TypeOK, Decisions, [Next]_vars
  PROVE  Decisions'
<1>1. ASSUME NEW c \in Pass, pass'[c] = pass[c] \/ pass'[c].pc # "decided"
      PROVE  pass'[c].pc = "decided" => \A r \in Row :
               r \notin pass'[c].stale => pass'[c].opsNow[r] = pass'[c].ops[r]
  BY <1>1 DEF Decisions
<1>2. ASSUME NEW c \in Pass
      PROVE  pass'[c] = pass[c] \/ pass'[c].pc # "decided" \/ Decide(c)
  <2>1. pass[c] \in PassRecord
    BY DEF TypeOK
  <2>2. CASE PassStep(c)
    <3>1. CASE BeginPass(c)
      <4>1. pass'[c].pc = "listing"
        BY <3>1, RecordTypes DEF BeginPass, PassRecord, TypeOK
      <4>2. QED
        BY <4>1
    <3>2. CASE ReadRows(c)
      <4>1. pass'[c].pc = "read"
        BY <2>1, <3>2 DEF ReadRows, PassRecord, TypeOK
      <4>2. QED
        BY <4>1
    <3>3. CASE \E n \in Name : ListName(c, n)
      <4>1. pass'[c].pc = "listing"
        BY <2>1, <3>3 DEF ListName, PassRecord, TypeOK
      <4>2. QED
        BY <4>1
    <3>4. CASE ListingFails(c) \/ CommitPass(c)
      BY <3>4 DEF ListingFails, CommitPass, EndPass, NoPass, TypeOK
    <3>5. QED
      BY <2>2, <3>1, <3>2, <3>3, <3>4 DEF PassStep
  <2>3. CASE \E d \in Pass \ {c} : PassStep(d)
    BY <2>3, SMTT(30) DEF TypeOK, PassStep, BeginPass, ListName, ListingFails, ReadRows,
       Decide, CommitPass, EndPass
  <2>4. CASE \E q \in Request : RequestStep(q)
    BY <2>4 DEF RequestStep, LoadRow, ClaimRow, Drive, DriveSecondHalf,
       Unavailable, SyncInstance, MarkError, Terminate, EndRequest, CheckName, InsertRow
  <2>5. CASE \E s \in Row : JobStep(s)
    BY <2>5 DEF JobStep, StartJob, RefuseLaunch, MakeDirectory, BuildFails,
       SpawnVm, GuestReady, GuestNotReady, FailProvisioning, Settle, SettleBlind, EndJob
  <2>6. QED
    BY <2>2, <2>3, <2>4, <2>5 DEF Next, VmDrifts, Crash, NoPass, vars
<1>3. ASSUME NEW c \in Pass, Decide(c)
      PROVE  \A r \in Row : r \notin pass'[c].stale => pass'[c].opsNow[r] = pass'[c].ops[r]
  <2>1. pass[c] \in PassRecord
    BY DEF TypeOK
  <2>2. /\ pass'[c].stale = Stale(pass[c]) /\ pass'[c].opsNow = operationsCompleted
        /\ pass'[c].ops = pass[c].ops
    BY <1>3, <2>1 DEF Decide, TypeOK, PassRecord
  <2>3. QED
    BY <2>2 DEF Stale
<1>4. QED
  BY <1>1, <1>2, <1>3 DEF Decisions

-----------------------------------------------------------------------------
(***************************************************************************)
(* The theorems                                                            *)
(***************************************************************************)

Inductive ==
  TypeOK /\ Listed /\ Births /\ ClaimsHaveOwners /\ History /\ Decisions

\* Every reachable state satisfies the inductive invariant.
THEOREM InductiveInvariant == Spec => []Inductive
<1>1. Init => Inductive
  <2>1. Init => History /\ Decisions
    BY DEF Init, History, Decisions, NoPass
  <2>2. QED
    BY <2>1, InitType, InitBirths, InitClaims DEF Inductive
<1>2. Inductive /\ [Next]_vars => Inductive'
  BY NextKeepsType, NextKeepsListed, NextKeepsBirths, NextKeepsOwners, NextKeepsHistory,
     NextKeepsDecisions DEF Inductive
<1>3. QED
  BY <1>1, <1>2, PTL DEF Spec

\* Every row, claim, counter, request, job and pass stays in its domain,
\* whatever the handlers, the jobs, the passes and the guests do.
THEOREM TypeCorrect == Spec => []TypeOK
BY InductiveInvariant, PTL DEF Inductive

\* No handler and no job leaves a claim behind: a claimed row is one somebody
\* works on, for any number of requests and jobs on the same row.
THEOREM ClaimsAreOwned == Spec => []ClaimsHaveOwners
BY InductiveInvariant, PTL DEF Inductive

\* A status that differs from the one loaded is the one reported.
LEMMA CorrectionIsReported ==
  ASSUME TypeOK, Listed, NEW c \in Pass, pass[c].pc = "decided", NEW r \in Row,
         Corrected(pass[c], r).st # row[r].st
  PROVE  /\ r \notin pass[c].stale
         /\ pass[c].list[NameOf[r]] \in VmState
         /\ Corrected(pass[c], r).st = Reported(pass[c].list[NameOf[r]])
<1>1. r \notin pass[c].stale
  BY DEF Corrected
<1>2. pass[c].rows[r] \in RowRecord /\ NameOf[r] \in Name
  BY NamesAndRows DEF TypeOK, PassRecord
<1>3. pass[c].list[NameOf[r]] \in VmState
  BY <1>2 DEF TypeOK, PassRecord, Listed
<1>4. ApplyInfo(pass[c].rows[r], pass[c].list[NameOf[r]], FALSE).st
        \in {pass[c].rows[r].st, Reported(pass[c].list[NameOf[r]])}
  BY <1>2, <1>3, ApplyInfoStatus
<1>5. QED
  BY <1>1, <1>3, <1>4 DEF Corrected, WriteBack

\* The reconciler never undoes a finished operation: for any number of passes,
\* requests and rows, a status it commits was true of the VM during the pass
\* and after the last operation that had completed when it decided.
THEOREM NothingIsUndone == Spec => NoUndo
<1>1. Inductive /\ [Next]_vars =>
        [\A c \in Pass, r \in Row :
           CommitsNow(c) /\ r \in pass[c].known /\ DecisionHolds(c, r)
             /\ row'[r].st # row[r].st
           => \E v \in seen[c][r] : row'[r].st = Reported(v)]_vars
  <2> SUFFICES ASSUME Inductive, Next, NEW c \in Pass, NEW r \in Row,
                      CommitsNow(c), r \in pass[c].known, DecisionHolds(c, r),
                      row'[r].st # row[r].st
               PROVE  \E v \in seen[c][r] : row'[r].st = Reported(v)
    BY DEF Inductive
  <2>1. CommitPass(c)
    <3>1. CASE \E d \in Pass \ {c} : PassStep(d)
      BY <3>1 DEF CommitsNow, TypeOK, Inductive, PassStep, BeginPass, ListName, ListingFails,
         ReadRows, Decide, CommitPass, EndPass
    <3>2. CASE PassStep(c)
      BY <3>2, SMTT(30) DEF CommitsNow, PassStep, BeginPass, ListName, ListingFails, ReadRows, Decide
    <3>3. CASE \E q \in Request : RequestStep(q)
      BY <3>3, ZenonT(60) DEF CommitsNow, RequestStep, LoadRow, ClaimRow, Drive, DriveSecondHalf,
         Unavailable, SyncInstance, MarkError, Terminate, EndRequest, CheckName, InsertRow
    <3>4. CASE \E s \in Row : JobStep(s)
      BY <3>4 DEF CommitsNow, JobStep, StartJob, RefuseLaunch, MakeDirectory, BuildFails,
         SpawnVm, GuestReady, GuestNotReady, FailProvisioning, Settle, SettleBlind, EndJob
    <3>5. QED
      BY <3>1, <3>2, <3>3, <3>4 DEF Next, CommitsNow, VmDrifts, Crash
  <2>2. pass[c].pc = "decided" /\ row'[r] = Corrected(pass[c], r)
    BY <2>1 DEF CommitPass
  <2>3. /\ r \notin pass[c].stale
        /\ pass[c].list[NameOf[r]] \in VmState
        /\ row'[r].st = Reported(pass[c].list[NameOf[r]])
    BY <2>2, CorrectionIsReported DEF Inductive
  <2>4. operationsCompleted[r] = pass[c].ops[r]
    BY <2>2, <2>3 DEF Inductive, Decisions, DecisionHolds
  <2>5. pass[c].list[NameOf[r]] # Unlisted
    BY <2>3 DEF VmState, Unlisted
  <2>6. pass[c].list[NameOf[r]] \in seen[c][r]
    BY <2>2, <2>4, <2>5 DEF Inductive, History
  <2>7. QED
    BY <2>3, <2>6
<1>2. QED
  BY InductiveInvariant, <1>1, PTL DEF Spec, NoUndo

\* A terminate that lands while the hypervisor is being listed is not undone:
\* once nobody holds an earlier reading of the row it never changes again.
THEOREM TerminatedStays == Spec => TerminatedIsKept
<1>1. Inductive /\ [Next]_vars =>
        [\A r \in Row :
           row[r].st = "Terminated" /\ ~Engaged(r) => row'[r] = row[r]]_vars
  <2> SUFFICES ASSUME Inductive, Next, NEW r \in Row,
                      row[r].st = "Terminated", ~Engaged(r)
               PROVE  row'[r] = row[r]
    OBVIOUS
  <2>1. ASSUME NEW q \in Request, RequestStep(q)
        PROVE  row'[r] = row[r]
    <3>1. req[q].target = r => req[q].pc \in {"idle", "ending"}
      BY DEF Engaged
    <3>2. CASE SyncInstance(q) \/ MarkError(q) \/ Terminate(q) \/ InsertRow(q)
      BY <3>1, <3>2 DEF Inductive, TypeOK, SyncInstance, MarkError, Terminate, InsertRow, At
    <3>3. QED
      BY <2>1, <3>2 DEF RequestStep, LoadRow, ClaimRow, Drive, DriveSecondHalf, Unavailable,
         EndRequest, CheckName
  <2>2. ASSUME NEW s \in Row, JobStep(s)
        PROVE  row'[r] = row[r]
    <3>1. s # r
      BY <2>2 DEF Engaged, JobAt, JobStep, StartJob, RefuseLaunch, MakeDirectory, BuildFails,
         SpawnVm, GuestReady, GuestNotReady, FailProvisioning, Settle, SettleBlind, EndJob
    <3>2. QED
      BY <2>2, <3>1 DEF Inductive, TypeOK, JobStep, StartJob, RefuseLaunch, MakeDirectory,
         BuildFails, SpawnVm, GuestReady, GuestNotReady, FailProvisioning, Settle,
         SettleBlind, EndJob
  <2>3. ASSUME NEW c \in Pass, PassStep(c)
        PROVE  row'[r] = row[r]
    BY <2>3 DEF Engaged, PassStep, BeginPass, ListName, ListingFails, ReadRows, Decide,
       CommitPass, Corrected
  <2>4. QED
    BY <2>1, <2>2, <2>3 DEF Next, VmDrifts, Crash
<1>2. QED
  BY InductiveInvariant, <1>1, PTL DEF Spec, TerminatedIsKept

-----------------------------------------------------------------------------
(***************************************************************************)
(* Terminated rows of instances whose launch is over                       *)
(***************************************************************************)

\* Every row a start finds was launched before.
AllLaunched == \A old \in Existing : old = Row

\* A VM that was destroyed stays so: no launch makes it anew.
Destroyed ==
  /\ \A r \in Row : Born(r) /\ job[r].pc = "none"
  /\ \A q \in Request : ~At(q, "named") /\ (At(q, "halfway") => req[q].op = "restart")
  /\ \A q \in Request : At(q, "driven") /\ req[q].op = "delete" =>
       vm[NameOf[req[q].target]] = "absent"
  /\ \A r \in Row : row[r].st = "Terminated" /\ r \notin forced => vm[NameOf[r]] = "absent"

\* No operation brings back a VM that is gone.
LEMMA GoneStaysGone ==
  ASSUME NEW q \in Request, NEW o \in Outcome(q, "absent") \union BootOutcome("absent"),
         req[q].op \in Operation
  PROVE  o[1] = "absent"
BY DEF Outcome, BootOutcome, HaltOutcome, DestroyOutcome, Alive, Operation

LEMMA SetVmKeepsDestroyed ==
  ASSUME TypeOK, Destroyed, NEW n \in Name, NEW v \in VmState, SetVm(n, v),
         vm[n] = "absent" => v = "absent",
         UNCHANGED <<row, job, req, forced>>
  PROVE  Destroyed'
BY NamesAndRows DEF TypeOK, RequestRecord, SetVm, Destroyed, Born, At

LEMMA DrivenKeepsDestroyed ==
  ASSUME TypeOK, Destroyed, NEW q \in Request, Drive(q) \/ DriveSecondHalf(q)
  PROVE  Destroyed'
<1>1. PICK n \in Name : n = NameOf[req[q].target]
  BY NamesAndRows DEF TypeOK, RequestRecord
<1>2. PICK o \in Outcome(q, vm[n]) \union BootOutcome(vm[n]) :
        /\ SetVm(n, o[1]) /\ GoTo(q, o[2])
        /\ o \in Outcome(q, vm[n]) \/ (o \in BootOutcome(vm[n]) /\ req[q].op = "restart")
  BY <1>1 DEF Drive, DriveSecondHalf, Destroyed
<1>3. /\ vm[n] \in VmState /\ req[q].op \in Operation
      /\ UNCHANGED <<row, job, forced>> /\ req[q].pc \in {"claimed", "halfway"}
  BY DEF TypeOK, RequestRecord, Drive, DriveSecondHalf, At
<1>4. o[1] \in VmState /\ o[2] \in {"driven", "failed", "halfway"}
  BY <1>2, <1>3, OutcomeType
<1>5. vm[n] = "absent" => o[1] = "absent"
  BY <1>2, <1>3, GoneStaysGone
<1>6. /\ req[q].op = "delete" /\ o[2] = "driven" => o[1] = "absent"
      /\ o[2] = "halfway" => req[q].op = "restart"
  BY <1>2, <1>3 DEF Outcome, BootOutcome, HaltOutcome, DestroyOutcome, Operation, VmState, Alive
<1>7. /\ vm' = [vm EXCEPT ![n] = o[1]] /\ vm \in [Name -> VmState] /\ req \in [Request -> RequestRecord]
      /\ req' = [req EXCEPT ![q].pc = o[2]]
  BY <1>2 DEF SetVm, GoTo, TypeOK
<1>8. \A r \in Row : vm[NameOf[r]] = "absent" => vm'[NameOf[r]] = "absent"
  BY <1>4, <1>5, <1>7, NamesAndRows
<1>9. ASSUME NEW p \in Request, req'[p].pc = "driven", req'[p].op = "delete"
      PROVE  vm'[NameOf[req'[p].target]] = "absent"
  <2>1. CASE p = q
    BY <1>1, <1>6, <1>7, <1>9, <2>1 DEF RequestRecord
  <2>2. CASE p # q
    <3>1. req'[p] = req[p] /\ req[p].target \in Row
      BY <1>7, <2>2 DEF RequestRecord
    <3> QED  BY <1>8, <1>9, <3>1 DEF Destroyed, At
  <2> QED  BY <2>1, <2>2
<1>10. \A p \in Request : req'[p].pc # "named" /\ (req'[p].pc = "halfway" => req'[p].op = "restart")
  BY <1>4, <1>6, <1>7 DEF Destroyed, At, RequestRecord
<1> QED  BY <1>3, <1>8, <1>9, <1>10 DEF Destroyed, Born, At

\* Rows change, and nothing brings a row to Terminated but a delete.
LEMMA RowsKeepDestroyed ==
  ASSUME Destroyed, UNCHANGED <<vm, job>>, forced \subseteq forced',
         \A r \in Row : Born(r)',
         \A r \in Row : row'[r].st = "Terminated" =>
           row[r].st = "Terminated" \/ r \in forced' \/ vm[NameOf[r]] = "absent",
         \A q \in Request : \/ req'[q].pc \notin {"named", "halfway", "driven"}
                            \/ req'[q] = req[q]
  PROVE  Destroyed'
BY DEF Destroyed, At

LEMMA RequestKeepsDestroyed ==
  ASSUME Inductive, Inductive', Destroyed, NEW q \in Request, RequestStep(q),
         \A r \in Row : Born(r)'
  PROVE  Destroyed'
<1> USE DEF Inductive
<1>1. req \in [Request -> RequestRecord] /\ req[q] \in RequestRecord /\ row \in [Row -> RowRecord]
  BY DEF TypeOK
<1>2. CASE Drive(q)
  BY <1>2, DrivenKeepsDestroyed
<1>3. CASE DriveSecondHalf(q)
  BY <1>3, DrivenKeepsDestroyed
<1>4. CASE \/ \E r \in Row, op \in Operation, f \in BOOLEAN : LoadRow(q, op, r, f)
           \/ ClaimRow(q) \/ Unavailable(q) \/ EndRequest(q)
  <2>1. UNCHANGED <<row, vm, job, forced>>
    BY <1>4 DEF LoadRow, ClaimRow, Unavailable, EndRequest, claims
  <2>2. \A p \in Request : req'[p].pc \notin {"named", "halfway", "driven"} \/ req'[p] = req[p]
    BY <1>1, <1>4 DEF LoadRow, ClaimRow, Unavailable, EndRequest, GoTo, NoRequest, RequestRecord
  <2> QED  BY <2>1, <2>2, RowsKeepDestroyed
<1>5. CASE SyncInstance(q) \/ MarkError(q) \/ Terminate(q)
  <2>1. UNCHANGED <<vm, job>> /\ GoTo(q, "ending") /\ forced \subseteq forced'
    BY <1>5 DEF SyncInstance, MarkError, Terminate
  <2>2. \A p \in Request : req'[p].pc \notin {"named", "halfway", "driven"} \/ req'[p] = req[p]
    BY <1>1, <2>1 DEF GoTo, RequestRecord
  <2>3. ASSUME NEW r \in Row, row'[r].st = "Terminated"
        PROVE  row[r].st = "Terminated" \/ r \in forced' \/ vm[NameOf[r]] = "absent"
    <3>1. CASE r # req[q].target \/ row'[r].st = row[r].st
      BY <1>1, <1>5, <2>3, <3>1 DEF SyncInstance, MarkError, Terminate
    <3>2. CASE SyncInstance(q) /\ r = req[q].target
      <4>1. PICK c \in RowRecord, v \in VmState : c = req[q].cache /\ v = vm[NameOf[r]]
        BY <1>1, NamesAndRows DEF TypeOK, RequestRecord
      <4>2. ApplyInfo(c, v, FALSE).st \in {c.st, Reported(v)} /\ Reported(v) # "Terminated"
        BY ApplyInfoStatus
      <4> QED  BY <1>1, <2>3, <3>2, <4>1, <4>2 DEF SyncInstance, WriteBack
    <3>3. CASE MarkError(q) /\ r = req[q].target
      BY <1>1, <2>3, <3>3 DEF MarkError, WriteBack, WithError, RequestRecord, RowRecord
    <3>4. CASE Terminate(q) /\ r = req[q].target
      BY <3>4 DEF Terminate, Destroyed, At
    <3> QED  BY <1>5, <3>1, <3>2, <3>3, <3>4
  <2> QED  BY <2>1, <2>2, <2>3, RowsKeepDestroyed
<1>6. ASSUME NEW r \in Row, CheckName(q, r)  PROVE FALSE
  BY <1>6 DEF CheckName, Destroyed, Born, Unborn
<1>7. ~InsertRow(q)
  BY DEF InsertRow, Destroyed
<1> QED  BY <1>2, <1>3, <1>4, <1>5, <1>6, <1>7 DEF RequestStep

LEMMA PassKeepsDestroyed ==
  ASSUME TypeOK, Listed, Destroyed, NEW c \in Pass, PassStep(c), \A r \in Row : Born(r)'
  PROVE  Destroyed'
<1>1. UNCHANGED <<vm, job, req, forced>> /\ (row' = row \/ CommitPass(c))
  BY DEF PassStep, BeginPass, ListName, ListingFails, ReadRows, Decide, CommitPass
<1>2. ASSUME NEW r \in Row, row'[r].st # row[r].st  PROVE row'[r].st # "Terminated"
  <2>1. pass[c].pc = "decided" /\ row'[r] = Corrected(pass[c], r)
    BY <1>1, <1>2 DEF CommitPass
  <2> QED  BY <1>2, <2>1, CorrectionIsReported DEF Reported, VmState, Alive
<1> QED  BY <1>1, <1>2, RowsKeepDestroyed

LEMMA OthersKeepDestroyed ==
  ASSUME Inductive, Destroyed, \A r \in Row : Born(r)',
         \/ \E r \in Row : JobStep(r)
         \/ \E c \in Pass : PassStep(c)
         \/ \E n \in Name : VmDrifts(n)
         \/ Crash \/ UNCHANGED vars
  PROVE  Destroyed'
<1> USE DEF Inductive
<1>1. ~\E r \in Row : JobStep(r)
  BY DEF Destroyed, JobAt, JobStep, StartJob, RefuseLaunch, MakeDirectory, BuildFails, SpawnVm,
         GuestReady, GuestNotReady, FailProvisioning, Settle, SettleBlind, EndJob
<1>2. ASSUME NEW c \in Pass, PassStep(c)  PROVE Destroyed'
  BY <1>2, PassKeepsDestroyed
<1>3. ASSUME NEW n \in Name, VmDrifts(n)  PROVE Destroyed'
  <2>1. PICK v \in VmState : SetVm(n, v) /\ vm[n] # "absent"
    BY <1>3 DEF VmDrifts, Alive, VmState
  <2> QED  BY <1>3, <2>1, SetVmKeepsDestroyed DEF VmDrifts
<1>4. CASE Crash
  BY <1>4 DEF Crash, Destroyed, Born, NoRequest, NoJob, At
<1>5. CASE UNCHANGED vars
  BY <1>5 DEF vars, Destroyed, Born, At
<1> QED  BY <1>1, <1>2, <1>3, <1>4, <1>5

\* When every instance was launched before the backend started, a row that
\* says Terminated has no VM that runs, unless the caller forced it: for any
\* number of rows, requests and crashes, whichever deletes and boots overlap.
\* (While a launch is under way its job can make the VM after the delete.)
THEOREM TerminatedIsGone ==
  ASSUME AllLaunched  PROVE Spec => []TerminatedMeansGone
<1>1. Init => Destroyed
  <2> SUFFICES ASSUME Init  PROVE Destroyed
    OBVIOUS
  <2>1. \A r \in Row : row[r].st \in {"Running", "Stopped"}
    BY DEF Init, AllLaunched
  <2> QED  BY <2>1 DEF Init, Destroyed, Born, NoRequest, NoJob, At
<1>2. Inductive /\ Inductive' /\ Destroyed /\ [Next]_vars => Destroyed'
  <2> SUFFICES ASSUME Inductive, Inductive', Destroyed, [Next]_vars  PROVE Destroyed'
    OBVIOUS
  <2>1. \A r \in Row : Born(r)'
    BY BornStaysBorn DEF Inductive, Destroyed
  <2> QED  BY <2>1, RequestKeepsDestroyed, OthersKeepDestroyed DEF Next
<1>3. Destroyed => TerminatedMeansGone
  BY DEF Destroyed, TerminatedMeansGone, Alive
<1> QED  BY <1>1, <1>2, <1>3, InductiveInvariant, PTL DEF Spec

-----------------------------------------------------------------------------
(***************************************************************************)
(* Launches, when every row has a name of its own                          *)
(***************************************************************************)

\* No name is used twice.
OwnNames == \A r, s \in Row : NameOf[r] = NameOf[s] => r = s

\* The row's job has done nothing yet.
Unlaunched(r) == row[r].st = "Unborn" \/ JobAt(r, "queued")
Waiting       == {"Unborn", "Pending", "Terminated"}

\* Until its job begins a row has no VM, nobody has listed one, and all that
\* can happen to it is a delete.
Waits(r) ==
  /\ vm[NameOf[r]] = "absent" /\ row[r].st \in Waiting
  /\ \A q \in Request : req[q].target = r /\ req[q].pc \notin {"idle", "named"} =>
       req[q].op = "delete" /\ req[q].pc \in {"loaded", "claimed", "driven", "ending"}
  /\ \A c \in Pass : /\ pass[c].list[NameOf[r]] \in {Unlisted, "absent"}
                     /\ pass[c].rows[r].st \in Waiting

\* A row that is being launched was so when a pass read it.
Readings ==
  \A c \in Pass, r \in Row :
    IsLive(pass[c].rows[r]) /\ row[r].st \in Launching => pass[c].rows[r].st \in Launching

\* What was listed as answering has answered since the last operation, and
\* since the row was created.
Answers ==
  \A c \in Pass : pass[c].pc # "idle" => \A r \in Row :
    operationsCompleted[r] = pass[c].ops[r] /\ pass[c].list[NameOf[r]] = "answering" =>
      "answering" \in seen[c][r]

Launches == (\A r \in Row : Unlaunched(r) => Waits(r)) /\ Readings /\ Answers

\* A request or a job writes into one row what it makes of what it loaded, and
\* none of them makes a launch.
LEMMA NoLaunchIsWritten ==
  ASSUME NEW current \in RowRecord, NEW loaded \in RowRecord, NEW v \in VmState, NEW auth \in BOOLEAN,
         NEW edited \in {ApplyInfo(loaded, v, auth), WithError(loaded), WithTerminated(loaded),
                         [loaded EXCEPT !.st = "Running"]},
         WriteBack(current, loaded, edited).st \in Launching
  PROVE  current.st \in Launching
<1>1. edited.st = loaded.st \/ edited.st \in {"Running", "Stopped", "Error", "Terminated"}
  <2>1. CASE edited = ApplyInfo(loaded, v, auth)
    BY <2>1, ApplyInfoStatus
  <2>2. CASE edited \in {WithError(loaded), [loaded EXCEPT !.st = "Running"]}
    BY <2>2 DEF WithError, RowRecord
  <2>3. CASE edited = WithTerminated(loaded)
    BY <2>3 DEF WithTerminated
  <2> QED  BY <2>1, <2>2, <2>3
<1> QED  BY <1>1 DEF WriteBack, Launching

\* Only an insertion and the start of a job make a row one that is launched.
LEMMA LaunchesBegin ==
  ASSUME Inductive, [Next]_vars, NEW r \in Row, row'[r].st \in Launching
  PROVE  \/ row[r].st \in Launching
         \/ \E q \in Request : InsertRow(q) /\ req[q].target = r
         \/ StartJob(r)
<1> USE DEF Inductive
<1>1. row \in [Row -> RowRecord] /\ row[r] \in RowRecord /\ BOOLEAN = {TRUE, FALSE}
  BY DEF TypeOK
<1>2. CASE row'[r] = row[r]
  BY <1>2
<1>3. ASSUME NEW q \in Request, RequestStep(q)
      PROVE  row[r].st \in Launching \/ (InsertRow(q) /\ req[q].target = r)
  <2>1. PICK t \in Row, c \in RowRecord, v \in VmState :
          t = req[q].target /\ c = req[q].cache /\ v = vm[NameOf[t]]
    BY NamesAndRows DEF TypeOK, RequestRecord
  <2>2. CASE SyncInstance(q) /\ t = r
    <3>1. row'[r] = WriteBack(row[r], c, ApplyInfo(c, v, FALSE))
      BY <1>1, <2>1, <2>2 DEF SyncInstance
    <3> QED  BY <1>1, <3>1, NoLaunchIsWritten
  <2>3. CASE MarkError(q) /\ t = r
    <3>1. row'[r] = WriteBack(row[r], c, WithError(c))
      BY <1>1, <2>1, <2>3 DEF MarkError
    <3> QED  BY <1>1, <3>1, NoLaunchIsWritten
  <2>4. CASE Terminate(q) /\ t = r
    <3>1. row'[r] = WriteBack(row[r], c, WithTerminated(c))
      BY <1>1, <2>1, <2>4 DEF Terminate
    <3> QED  BY <1>1, <3>1, NoLaunchIsWritten
  <2>5. CASE InsertRow(q) /\ t = r
    BY <2>1, <2>5
  <2>6. CASE row'[r] = row[r]
    BY <2>6
  <2> QED
    BY <1>1, <1>3, <2>1, <2>2, <2>3, <2>4, <2>5, <2>6
    DEF RequestStep, LoadRow, ClaimRow, Drive, DriveSecondHalf, Unavailable, SyncInstance,
       MarkError,
        Terminate, EndRequest, CheckName, InsertRow
<1>4. ASSUME NEW s \in Row, JobStep(s)
      PROVE  row[r].st \in Launching \/ StartJob(r)
  <2>1. PICK c \in RowRecord, v \in VmState : c = job[s].cache /\ v = vm[NameOf[s]]
    BY NamesAndRows DEF TypeOK, JobRecord
  <2>2. CASE FailProvisioning(s) /\ s = r
    <3>1. row'[r] = WriteBack(row[r], c, WithError(c))
      BY <1>1, <2>1, <2>2 DEF FailProvisioning
    <3> QED  BY <1>1, <2>1, <3>1, NoLaunchIsWritten
  <2>3. CASE Settle(s) /\ s = r
    <3>1. row'[r] = WriteBack(row[r], c, ApplyInfo(c, v, TRUE))
      BY <1>1, <2>1, <2>3 DEF Settle
    <3> QED  BY <1>1, <2>1, <3>1, NoLaunchIsWritten
  <2>4. CASE SettleBlind(s) /\ s = r
    <3>1. row'[r] = WriteBack(row[r], c, [c EXCEPT !.st = "Running"]) \/ row' = row
      BY <1>1, <2>1, <2>4 DEF SettleBlind
    <3> QED  BY <1>1, <2>1, <3>1, NoLaunchIsWritten
  <2>5. CASE StartJob(s) /\ s = r
    BY <2>5
  <2>6. CASE row'[r] = row[r]
    BY <2>6
  <2> QED
    BY <1>1, <1>4, <2>2, <2>3, <2>4, <2>5, <2>6
    DEF JobStep, StartJob, RefuseLaunch, MakeDirectory, BuildFails, SpawnVm, GuestReady,
        GuestNotReady, FailProvisioning, Settle, SettleBlind, EndJob
<1>5. ASSUME NEW c \in Pass, PassStep(c), row'[r] # row[r]
      PROVE  row[r].st \in Launching
  <2>1. pass[c].pc = "decided" /\ row'[r] = Corrected(pass[c], r)
    BY <1>5 DEF PassStep, BeginPass, ListName, ListingFails, ReadRows, Decide, CommitPass
  <2>2. PICK rw \in RowRecord, v \in VmState : rw = pass[c].rows[r] /\ v = pass[c].list[NameOf[r]]
    BY <2>1, NamesAndRows DEF TypeOK, PassRecord, Listed
  <2>3. row'[r] = WriteBack(row[r], rw, ApplyInfo(rw, v, FALSE))
    BY <1>5, <2>1, <2>2 DEF Corrected
  <2> QED  BY <1>1, <2>2, <2>3, NoLaunchIsWritten, ZenonT(60)
<1> QED  BY <1>2, <1>3, <1>4, <1>5 DEF Next, VmDrifts, Crash, vars

\* A row waits from the beginning, or not at all.
LEMMA WaitedBefore ==
  ASSUME Inductive, [Next]_vars, NEW r \in Row, Unlaunched(r)'
  PROVE  Unlaunched(r)
<1> USE DEF Inductive
<1>1. CASE row'[r].st = "Unborn"
  BY <1>1, BornStaysBorn DEF Born, Unlaunched
<1>2. CASE job'[r].pc = "queued"
  <2>1. job \in [Row -> JobRecord] /\ job[r] \in JobRecord
    BY DEF TypeOK
  <2>2. CASE job'[r] = job[r]
    BY <1>2, <2>2, SMTT(30) DEF Unlaunched, JobAt
  <2>3. ASSUME NEW q \in Request, RequestStep(q), job' # job
        PROVE  InsertRow(q)
    BY <2>3 DEF RequestStep, LoadRow, ClaimRow, Drive, DriveSecondHalf, Unavailable, SyncInstance,
            MarkError, Terminate, EndRequest, CheckName
  <2>4. ASSUME NEW q \in Request, InsertRow(q), job'[r] # job[r]
        PROVE  row[r].st = "Unborn"
    BY <2>1, <2>4 DEF InsertRow, Births, NamedUnborn, Born, TypeOK, RequestRecord
  <2>5. ASSUME NEW s \in Row, JobStep(s), job'[r] # job[r]
        PROVE  FALSE
    <3>1. ASSUME NEW pc \in {"booting", "failed", "waiting", "settling", "ending"}, JobGoTo(s, pc)
          PROVE  FALSE
      BY <1>2, <2>1, <2>5, <3>1 DEF JobGoTo, JobRecord, TypeOK
    <3>2. CASE StartJob(s) \/ EndJob(s)
      BY <1>2, <2>1, <2>5, <3>2 DEF StartJob, EndJob, NoJob
    <3>3. CASE Settle(s)
      <4>1. \E next \in {"settling", "ending"} : \E after :
               job' = [job EXCEPT ![s] = [pc |-> next, cache |-> after]]
        BY <3>3, Zenon DEF Settle
      <4> QED  BY <1>2, <2>1, <2>5, <4>1
    <3>4. CASE \E pc \in {"booting", "failed", "waiting", "settling", "ending"} : JobGoTo(s, pc)
      BY <3>1, <3>4
    <3>5. RefuseLaunch(s) \/ BuildFails(s) \/ SpawnVm(s) \/ GuestNotReady(s) => <3>4!1
      BY DEF RefuseLaunch, BuildFails, SpawnVm, GuestNotReady
    <3>6. MakeDirectory(s) \/ GuestReady(s) \/ FailProvisioning(s) \/ SettleBlind(s) => <3>4!1
      BY DEF MakeDirectory, GuestReady, FailProvisioning, SettleBlind
    <3> QED
      BY <2>5, <3>2, <3>3, <3>4, <3>5, <3>6 DEF JobStep
  <2>6. ASSUME NEW c \in Pass, PassStep(c)
        PROVE  job' = job
    BY <2>6 DEF PassStep, BeginPass, ListName, ListingFails, ReadRows, Decide, CommitPass
  <2>7. CASE Crash
    BY <1>2, <2>7 DEF Crash, NoJob
  <2> QED  BY <2>2, <2>3, <2>4, <2>5, <2>6, <2>7 DEF Next, VmDrifts, vars, Unlaunched
<1> QED  BY <1>1, <1>2 DEF Unlaunched, JobAt

\* A VM changes that no row waits for.
LEMMA SetVmKeepsLaunches ==
  ASSUME TypeOK, Launches, NEW n \in Name, NEW v \in VmState, SetVm(n, v),
         \A r \in Row : Unlaunched(r) /\ NameOf[r] = n => v = "absent",
         \A r \in Row : Unlaunched(r)' => Unlaunched(r),
         UNCHANGED <<row, pass, operationsCompleted>>,
         \A q \in Request, r \in Row :
           req'[q].target = r /\ req'[q].pc \notin {"idle", "named"} /\ Unlaunched(r) =>
             req'[q].op = "delete" /\ req'[q].pc \in {"loaded", "claimed", "driven", "ending"}
  PROVE  Launches'
<1>1. ASSUME NEW r \in Row, Unlaunched(r)'
      PROVE  Waits(r)'
  <2>1. Waits(r) /\ Unlaunched(r)
    BY <1>1 DEF Launches
  <2>2. vm'[NameOf[r]] = "absent"
    BY <2>1, NamesAndRows DEF SetVm, Waits, TypeOK
  <2> QED  BY <2>1, <2>2 DEF Waits
<1>2. Readings'
  BY DEF Launches, Readings
<1>3. \A c \in Pass, r \in Row : seen[c][r] \subseteq seen'[c][r]
  BY DEF SetVm, TypeOK
<1>4. Answers'
  BY <1>3 DEF Launches, Answers
<1> QED  BY <1>1, <1>2, <1>4 DEF Launches

\* The VM of a row changes: no other row has its name.
LEMMA OwnVmKeepsLaunches ==
  ASSUME TypeOK, OwnNames, Launches, NEW s \in Row, NEW v \in VmState, SetVm(NameOf[s], v),
         Unlaunched(s) => v = "absent",
         \A r \in Row : Unlaunched(r)' => Unlaunched(r),
         UNCHANGED <<row, pass, operationsCompleted>>,
         \A q \in Request, r \in Row :
           req'[q].target = r /\ req'[q].pc \notin {"idle", "named"} /\ Unlaunched(r) =>
             req'[q].op = "delete" /\ req'[q].pc \in {"loaded", "claimed", "driven", "ending"}
  PROVE  Launches'
<1>1. NameOf[s] \in Name /\ \A r \in Row : Unlaunched(r) /\ NameOf[r] = NameOf[s] => v = "absent"
  BY NamesAndRows DEF OwnNames
<1> QED  BY <1>1, SetVmKeepsLaunches

\* A step that leaves the VMs and the passes alone.
LEMMA RowsKeepLaunches ==
  ASSUME TypeOK, Launches, UNCHANGED <<vm, pass>>,
         \A r \in Row : Unlaunched(r)' => Unlaunched(r) /\ row'[r].st \in Waiting,
         \A r \in Row : row'[r].st \in Launching => row[r].st \in Launching \/ Unlaunched(r),
         \A q \in Request, r \in Row :
           req'[q].target = r /\ req'[q].pc \notin {"idle", "named"} /\ Unlaunched(r) =>
             req'[q].op = "delete" /\ req'[q].pc \in {"loaded", "claimed", "driven", "ending"},
         \/ UNCHANGED <<seen, operationsCompleted>>
         \/ \E s \in Row : Release(s)
         \/ \E s \in Row : Forget(s) /\ Unlaunched(s) /\ UNCHANGED operationsCompleted,
         History
  PROVE  Launches'
<1>1. ASSUME NEW r \in Row, Unlaunched(r)'
      PROVE  Waits(r)'
  BY <1>1 DEF Launches, Waits
<1>2. Readings'
  BY DEF Launches, Readings, Waits, Waiting, IsLive, Launching
<1>3. ASSUME NEW c \in Pass, pass[c].pc # "idle", NEW r \in Row,
             operationsCompleted'[r] = pass[c].ops[r], pass[c].list[NameOf[r]] = "answering"
      PROVE  "answering" \in seen'[c][r]
  <2>1. CASE UNCHANGED <<seen, operationsCompleted>>
    BY <1>3, <2>1 DEF Launches, Answers
  <2>2. ASSUME NEW s \in Row, Release(s)
        PROVE  "answering" \in seen'[c][r]
    <3>1. pass[c].ops[r] \in Nat /\ operationsCompleted[r] \in Nat
          /\ pass[c].ops[r] <= operationsCompleted[r]
      BY <1>3, ZenonT(60) DEF TypeOK, PassRecord, History
    <3>2. s # r
      BY <1>3, <2>2, <3>1 DEF Release, TypeOK
    <3>3. operationsCompleted'[r] = operationsCompleted[r] /\ seen'[c][r] = seen[c][r]
      BY <2>2, <3>2 DEF Release, Forget, TypeOK
    <3> QED  BY <1>3, <3>3 DEF Launches, Answers
  <2>3. ASSUME NEW s \in Row, Forget(s), Unlaunched(s), UNCHANGED operationsCompleted
        PROVE  "answering" \in seen'[c][r]
    <3>1. r # s
      BY <1>3, <2>3 DEF Launches, Waits, Unlisted
    <3>2. seen'[c][r] = seen[c][r]
      BY <2>3, <3>1 DEF Forget, TypeOK
    <3> QED  BY <1>3, <2>3, <3>2 DEF Launches, Answers
  <2> QED  BY <2>1, <2>2, <2>3
<1>4. Answers'
  BY <1>3 DEF Answers
<1> QED  BY <1>1, <1>2, <1>4 DEF Launches

\* The handlers, the jobs and the passes keep the invariant, and so does the rest.
LEMMA RequestKeepsLaunches ==
  ASSUME Inductive, OwnNames, Launches, [Next]_vars, NEW q \in Request, RequestStep(q)
  PROVE  Launches'
<1> USE DEF Inductive
<1>1. req \in [Request -> RequestRecord] /\ req[q] \in RequestRecord /\ row \in [Row -> RowRecord]
  BY DEF TypeOK
<1>2. \A r \in Row : Unlaunched(r)' => Unlaunched(r)
  BY WaitedBefore
<1>3. PICK t \in Row : t = req[q].target
  BY <1>1 DEF RequestRecord
\* The row that is worked on waits only for a delete.
<1>4. Unlaunched(t) /\ req[q].pc \notin {"idle", "named"} =>
        req[q].op = "delete" /\ req[q].pc \in {"loaded", "claimed", "driven", "ending"}
  BY <1>3 DEF Launches, Waits
<1>5. ASSUME NEW pc \in {"claimed", "driven", "ending"}, GoTo(q, pc),
             Unlaunched(t) => req[q].op = "delete"
      PROVE  \A p \in Request, r \in Row :
               req'[p].target = r /\ req'[p].pc \notin {"idle", "named"} /\ Unlaunched(r) =>
                 req'[p].op = "delete" /\ req'[p].pc \in {"loaded", "claimed", "driven", "ending"}
  BY <1>1, <1>3, <1>5 DEF GoTo, Launches, Waits, RequestRecord
<1>6. CASE Drive(q)
  <2>1. PICK o \in Outcome(q, vm[NameOf[t]]) :
          SetVm(NameOf[t], o[1]) /\ GoTo(q, o[2])
    BY <1>3, <1>6 DEF Drive
  <2>2. vm[NameOf[t]] \in VmState /\ o[1] \in VmState
    BY <1>1, <1>3, <2>1, OutcomeType, NamesAndRows DEF TypeOK, RequestRecord
  <2>3. Unlaunched(t) => o = <<"absent", "driven">> /\ req[q].op = "delete"
    <3>1. Unlaunched(t) => vm[NameOf[t]] = "absent" /\ req[q].op = "delete"
      BY <1>4, <1>6 DEF Launches, Waits, Drive, At
    <3> QED  BY <2>1, <3>1 DEF Outcome, DestroyOutcome
  <2>4. \A p \in Request, r \in Row :
          req'[p].target = r /\ req'[p].pc \notin {"idle", "named"} /\ Unlaunched(r) =>
            req'[p].op = "delete" /\ req'[p].pc \in {"loaded", "claimed", "driven", "ending"}
    <3>1. CASE Unlaunched(t)
      BY <1>5, <2>1, <2>3, <3>1
    <3>2. CASE ~Unlaunched(t)
      BY <1>1, <1>3, <2>1, <3>2 DEF GoTo, Launches, Waits, RequestRecord
    <3> QED  BY <3>1, <3>2
  <2> QED  BY <1>2, <1>6, <2>1, <2>2, <2>3, <2>4, OwnVmKeepsLaunches DEF Drive, claims
<1>7. CASE DriveSecondHalf(q)
  <2>1. PICK o \in BootOutcome(vm[NameOf[t]]) : SetVm(NameOf[t], o[1]) /\ GoTo(q, o[2])
    BY <1>3, <1>7 DEF DriveSecondHalf
  <2>2. vm[NameOf[t]] \in VmState /\ o[1] \in VmState
    BY <1>1, <1>3, <2>1, OutcomeType, NamesAndRows DEF TypeOK, RequestRecord
  <2>3. ~Unlaunched(t)
    BY <1>4, <1>7 DEF DriveSecondHalf, At
  <2>4. \A p \in Request, r \in Row :
          req'[p].target = r /\ req'[p].pc \notin {"idle", "named"} /\ Unlaunched(r) =>
            req'[p].op = "delete" /\ req'[p].pc \in {"loaded", "claimed", "driven", "ending"}
    BY <1>1, <1>3, <2>1, <2>3 DEF GoTo, Launches, Waits, RequestRecord
  <2> QED  BY <1>2, <1>7, <2>1, <2>2, <2>3, <2>4, OwnVmKeepsLaunches DEF DriveSecondHalf, claims
<1>8. ASSUME NEW r \in Row, NEW op \in Operation, NEW f \in BOOLEAN, LoadRow(q, op, r, f)
      PROVE  Launches'
  <2>1. Unlaunched(r) => op = "delete"
    BY <1>8 DEF LoadRow, Permits, Launches, Waits, Waiting, Operation
  <2>2. \A p \in Request, s \in Row :
          req'[p].target = s /\ req'[p].pc \notin {"idle", "named"} /\ Unlaunched(s) =>
            req'[p].op = "delete" /\ req'[p].pc \in {"loaded", "claimed", "driven", "ending"}
    BY <1>1, <1>8, <2>1 DEF LoadRow, Launches, Waits
  <2>3. \A s \in Row : Unlaunched(s)' => Unlaunched(s) /\ row'[s].st \in Waiting
    BY <1>2, <1>8 DEF LoadRow, Launches, Waits
  <2> QED  BY <1>8, <2>2, <2>3, RowsKeepLaunches DEF LoadRow, claims
<1>9. CASE ClaimRow(q) \/ Unavailable(q)
  <2>1. PICK pc \in {"claimed", "ending"} : GoTo(q, pc)
    BY <1>9 DEF ClaimRow, Unavailable
  <2>2. Unlaunched(t) => req[q].op = "delete"
    BY <1>4, <1>9 DEF ClaimRow, Unavailable, At
  <2>3. \A s \in Row : Unlaunched(s)' => Unlaunched(s) /\ row'[s].st \in Waiting
    BY <1>2, <1>9 DEF ClaimRow, Unavailable, Launches, Waits
  <2> QED  BY <1>5, <1>9, <2>1, <2>2, <2>3, RowsKeepLaunches DEF ClaimRow, Unavailable, Claim,
     claims
<1>10. CASE SyncInstance(q) \/ MarkError(q) \/ Terminate(q)
  <2>1. GoTo(q, "ending") /\ UNCHANGED <<vm, pass, seen, operationsCompleted>>
    BY <1>10 DEF SyncInstance, MarkError, Terminate, claims
  <2>2. Unlaunched(t) => Terminate(q) /\ req[q].op = "delete"
    BY <1>4, <1>10 DEF SyncInstance, MarkError, Terminate, At
  <2>3. ASSUME NEW s \in Row, Unlaunched(s)'
        PROVE  Unlaunched(s) /\ row'[s].st \in Waiting
    <3>1. Unlaunched(s) /\ row[s].st \in Waiting
      BY <1>2, <2>3 DEF Launches, Waits
    <3>2. CASE s = t
      BY <1>1, <1>3, <2>2, <3>1, <3>2 DEF Terminate, WriteBack, WithTerminated, Waiting
    <3>3. CASE s # t
      BY <1>1, <1>3, <1>10, <3>1, <3>3 DEF SyncInstance, MarkError, Terminate
    <3> QED  BY <3>1, <3>2, <3>3
  <2>4. \A s \in Row : row'[s].st \in Launching => row[s].st \in Launching \/ Unlaunched(s)
    BY LaunchesBegin DEF InsertRow, StartJob, Births, NamedUnborn, Born, Unlaunched
  <2> QED  BY <1>5, <2>1, <2>2, <2>3, <2>4, RowsKeepLaunches
<1>11. CASE EndRequest(q) \/ \E r \in Row : CheckName(q, r)
  <2>1. /\ UNCHANGED <<row, vm, pass>>
        /\ \A p \in Request : req'[p] = req[p] \/ req'[p].pc \in {"idle", "named"}
        /\ UNCHANGED <<seen, operationsCompleted>> \/ Release(t)
    <3>1. CASE EndRequest(q)
      BY <1>1, <1>3, <3>1 DEF EndRequest, NoRequest
    <3>2. ASSUME NEW r \in Row, CheckName(q, r)
          PROVE  <2>1
      BY <1>1, <3>2 DEF CheckName, NoRequest, claims
    <3> QED  BY <1>11, <3>1, <3>2
  <2>2. \A p \in Request, s \in Row :
          req'[p].target = s /\ req'[p].pc \notin {"idle", "named"} /\ Unlaunched(s) =>
            req'[p].op = "delete" /\ req'[p].pc \in {"loaded", "claimed", "driven", "ending"}
    BY <2>1 DEF Launches, Waits
  <2>3. \A s \in Row : Unlaunched(s)' => Unlaunched(s) /\ row'[s].st \in Waiting
    BY <1>2, <2>1 DEF Launches, Waits
  <2> QED  BY <2>1, <2>2, <2>3, RowsKeepLaunches
<1>12. CASE InsertRow(q)
  <2>1. row[t].st = "Unborn"
    BY <1>3, <1>12 DEF InsertRow, Births, NamedUnborn, Born
  <2>2. /\ UNCHANGED <<vm, pass, operationsCompleted>> /\ Forget(t)
        /\ \A p \in Request : req'[p] = req[p] \/ req'[p].pc \in {"idle", "named"}
        /\ row' = [row EXCEPT ![t] = Pending]
    <3>1. NoRequest.pc = "idle"
      BY DEF NoRequest
    <3> QED  BY <1>1, <1>3, <1>12, <3>1 DEF InsertRow, claims
  <2>3. \A p \in Request, s \in Row :
          req'[p].target = s /\ req'[p].pc \notin {"idle", "named"} /\ Unlaunched(s) =>
            req'[p].op = "delete" /\ req'[p].pc \in {"loaded", "claimed", "driven", "ending"}
    BY <2>2 DEF Launches, Waits
  <2>4. \A s \in Row : Unlaunched(s)' => Unlaunched(s) /\ row'[s].st \in Waiting
    BY <1>1, <1>2, <2>2 DEF Launches, Waits, Waiting, Pending
  <2>5. \A s \in Row : row'[s].st \in Launching => row[s].st \in Launching \/ Unlaunched(s)
    BY <1>1, <2>1, <2>2 DEF Unlaunched
  <2> QED  BY <2>1, <2>2, <2>3, <2>4, <2>5, RowsKeepLaunches DEF Unlaunched
<1> QED  BY <1>6, <1>7, <1>8, <1>9, <1>10, <1>11, <1>12 DEF RequestStep

\* A job that runs has a row that no longer waits.
LEMMA JobKeepsLaunches ==
  ASSUME Inductive, OwnNames, Launches, [Next]_vars, NEW s \in Row, JobStep(s)
  PROVE  Launches'
<1> USE DEF Inductive
<1>1. \A r \in Row : Unlaunched(r)' => Unlaunched(r)
  BY WaitedBefore
<1>2. UNCHANGED <<req, pass>> /\ (\A r \in Row \ {s} : row'[r] = row[r])
  BY DEF TypeOK, JobStep, StartJob, RefuseLaunch, MakeDirectory, BuildFails, SpawnVm, GuestReady,
     GuestNotReady, FailProvisioning, Settle, SettleBlind, EndJob
<1>3. \A p \in Request, r \in Row :
        req'[p].target = r /\ req'[p].pc \notin {"idle", "named"} /\ Unlaunched(r) =>
          req'[p].op = "delete" /\ req'[p].pc \in {"loaded", "claimed", "driven", "ending"}
  BY <1>2 DEF Launches, Waits
<1>4. Born(s) /\ (Unlaunched(s) => StartJob(s))
  <2>1. job[s].pc # "none"
    BY DEF JobStep, JobAt, StartJob, RefuseLaunch, MakeDirectory, BuildFails, SpawnVm, GuestReady,
       GuestNotReady, FailProvisioning, Settle, SettleBlind, EndJob
  <2>2. Born(s)
    BY <2>1 DEF Births, ActiveBorn
  <2> QED
    BY <2>2 DEF Unlaunched, Born, JobStep, JobAt, RefuseLaunch, MakeDirectory, BuildFails, SpawnVm,
       GuestReady, GuestNotReady, FailProvisioning, Settle, SettleBlind, EndJob
<1>5. ~Unlaunched(s)'
  <2>1. Born(s)' /\ row \in [Row -> RowRecord] /\ job \in [Row -> JobRecord]
    BY <1>4, BornStaysBorn DEF TypeOK
  <2>2. CASE StartJob(s)
    <3>1. job'[s].pc = "building"
      BY <2>1, <2>2 DEF StartJob
    <3> QED  BY <2>1, <3>1 DEF Unlaunched, JobAt, Born
  <2> QED  BY <1>1, <1>4, <2>2
<1>6. CASE MakeDirectory(s) \/ BuildFails(s) \/ SpawnVm(s) \/ GuestReady(s) \/ GuestNotReady(s)
  <2>1. ~Unlaunched(s)
    BY <1>4, <1>6 DEF StartJob, JobAt, MakeDirectory, BuildFails, SpawnVm, GuestReady, GuestNotReady
  <2>2. vm[NameOf[s]] \in VmState
    BY NamesAndRows DEF TypeOK
  <2>3. PICK v \in VmState : SetVm(NameOf[s], v)
    BY <1>6, <2>2 DEF MakeDirectory, BuildFails, SpawnVm, GuestReady, GuestNotReady, VmState
  <2>4. UNCHANGED <<row, operationsCompleted>>
    BY <1>6 DEF MakeDirectory, BuildFails, SpawnVm, GuestReady, GuestNotReady, claims
  <2> QED  BY <1>1, <1>2, <1>3, <2>1, <2>3, <2>4, OwnVmKeepsLaunches
<1>7. CASE UNCHANGED <<vm, seen, operationsCompleted>> \/ (UNCHANGED vm /\ Release(s))
  <2>1. \A r \in Row : Unlaunched(r)' => Unlaunched(r) /\ row'[r].st \in Waiting
    BY <1>1, <1>2, <1>5 DEF Launches, Waits
  <2>2. \A r \in Row : row'[r].st \in Launching => row[r].st \in Launching \/ Unlaunched(r)
    BY LaunchesBegin DEF InsertRow, StartJob, Births, NamedUnborn, Born, Unlaunched
  <2> QED  BY <1>2, <1>3, <1>7, <2>1, <2>2, RowsKeepLaunches
<1> QED
  BY <1>6, <1>7 DEF JobStep, StartJob, Claim, RefuseLaunch, FailProvisioning, Settle,
     SettleBlind, EndJob, claims

\* A pass that begins or ends has read and listed nothing.
LEMMA AfreshPass ==
  ASSUME TypeOK, NEW c \in Pass, BeginPass(c) \/ ListingFails(c) \/ CommitPass(c)
  PROVE  pass'[c].rows = NoPass.rows /\ pass'[c].list = NoPass.list
<1>1. CASE BeginPass(c)
  BY <1>1, RecordTypes DEF BeginPass, TypeOK, PassRecord
<1>2. CASE ListingFails(c) \/ CommitPass(c)
  BY <1>2 DEF ListingFails, CommitPass, EndPass, TypeOK
<1> QED  BY <1>1, <1>2

\* What a pass holds of the rows that wait, and what it writes into them.
LEMMA PassKeepsWaits ==
  ASSUME Inductive, Launches, NEW c \in Pass, PassStep(c), NEW r \in Row, Unlaunched(r)
  PROVE  Waits(r)'
<1> USE DEF Inductive
<1>1. Waits(r) /\ UNCHANGED <<vm, req>> /\ \A d \in Pass \ {c} : pass'[d] = pass[d]
  BY DEF Launches, TypeOK, PassStep, BeginPass, ListName, ListingFails, ReadRows, Decide,
     CommitPass, EndPass
<1>2. pass[c] \in PassRecord /\ NameOf[r] \in Name
  BY NamesAndRows DEF TypeOK
<1>3. CASE \E n \in Name : ListName(c, n)
  <2>1. /\ pass'[c].list[NameOf[r]] \in {pass[c].list[NameOf[r]], vm[NameOf[r]]}
        /\ pass'[c].rows = pass[c].rows /\ UNCHANGED row
    BY <1>2, <1>3 DEF ListName, TypeOK, PassRecord
  <2> QED  BY <1>1, <2>1 DEF Waits
<1>4. CASE ReadRows(c)
  <2>1. pass'[c].rows = row /\ pass'[c].list = pass[c].list /\ UNCHANGED row
    BY <1>2, <1>4 DEF ReadRows, TypeOK, PassRecord
  <2> QED  BY <1>1, <2>1 DEF Waits
<1>5. CASE Decide(c)
  <2>1. pass'[c].rows = pass[c].rows /\ pass'[c].list = pass[c].list /\ UNCHANGED row
    BY <1>2, <1>5 DEF Decide, TypeOK, PassRecord
  <2> QED  BY <1>1, <2>1 DEF Waits
<1>6. CASE BeginPass(c) \/ ListingFails(c)
  <2>1. pass'[c].rows = NoPass.rows /\ pass'[c].list = NoPass.list /\ UNCHANGED row
    BY <1>6, AfreshPass DEF BeginPass, ListingFails
  <2>2. NoPass.rows[r].st = "Unborn" /\ NoPass.list[NameOf[r]] = Unlisted
    BY <1>2 DEF NoPass, Unborn
  <2> QED  BY <1>1, <2>1, <2>2 DEF Waits, Waiting
<1>7. CASE CommitPass(c)
  <2>1. pass'[c] = NoPass /\ row'[r] = Corrected(pass[c], r) /\ pass[c].pc = "decided"
    BY <1>7 DEF CommitPass, EndPass, TypeOK
  <2>2. NoPass.rows[r].st = "Unborn" /\ NoPass.list[NameOf[r]] = Unlisted
    BY <1>2 DEF NoPass, Unborn
  <2>3. pass[c].list[NameOf[r]] = "absent" /\ pass[c].rows[r].st \in Waiting
    BY <1>1, <1>2, <2>1 DEF Waits, Listed
  <2>4. Corrected(pass[c], r) = row[r]
    <3>1. CASE IsLive(pass[c].rows[r])
      <4>1. pass[c].rows[r].st \in Launching
        BY <2>3, <3>1 DEF IsLive, Waiting, Launching
      <4>2. ApplyInfo(pass[c].rows[r], "absent", FALSE) = pass[c].rows[r]
        BY <4>1 DEF ApplyInfo
      <4>3. row[r] \in RowRecord
        BY DEF TypeOK
      <4> QED  BY <2>3, <4>2, <4>3 DEF Corrected, WriteBack, RowRecord
    <3> QED  BY <3>1 DEF Corrected
  <2> QED  BY <1>1, <2>1, <2>2, <2>4 DEF Waits, Waiting
<1> QED  BY <1>3, <1>4, <1>5, <1>6, <1>7 DEF PassStep

\* A pass reads, lists and corrects.
LEMMA PassKeepsLaunches ==
  ASSUME Inductive, OwnNames, Launches, [Next]_vars, NEW c \in Pass, PassStep(c)
  PROVE  Launches'
<1> USE DEF Inductive
<1>1. /\ UNCHANGED <<vm, operationsCompleted>>
      /\ \A d \in Pass \ {c} : pass'[d] = pass[d] /\ seen'[d] = seen[d]
  BY DEF TypeOK, PassStep, BeginPass, ListName, ListingFails, ReadRows, Decide, CommitPass,
     EndPass, claims
<1>2. pass[c] \in PassRecord /\ \A r \in Row : NameOf[r] \in Name
  BY NamesAndRows DEF TypeOK
<1>3. \A r \in Row : Unlaunched(r)' => Waits(r)'
  BY WaitedBefore, PassKeepsWaits
<1>4. \A r \in Row : row'[r].st \in Launching => row[r].st \in Launching \/ Unlaunched(r)
  BY LaunchesBegin DEF InsertRow, StartJob, Births, NamedUnborn, Born, Unlaunched
<1>5. ASSUME NEW d \in Pass, pass'[d].rows = pass[d].rows, NEW r \in Row,
             IsLive(pass'[d].rows[r]), row'[r].st \in Launching
      PROVE  pass'[d].rows[r].st \in Launching
  BY <1>4, <1>5 DEF Launches, Readings, Waits, Waiting, IsLive, Launching
<1>6. CASE \E n \in Name : ListName(c, n)
  <2>1. /\ pass'[c].rows = pass[c].rows /\ seen' = seen /\ pass[c].pc # "idle"
        /\ pass'[c].ops = pass[c].ops
        /\ \A r \in Row : pass'[c].list[NameOf[r]] \in {pass[c].list[NameOf[r]], vm[NameOf[r]]}
    BY <1>2, <1>6 DEF ListName, TypeOK, PassRecord
  <2>2. Answers'
    BY <1>1, <2>1 DEF Launches, Answers, History
  <2>3. Readings'
    BY <1>1, <1>5, <2>1 DEF Readings
  <2> QED  BY <1>3, <2>2, <2>3 DEF Launches
<1>7. CASE ReadRows(c) \/ Decide(c)
  <2>1. /\ pass'[c].rows = pass[c].rows \/ (pass'[c].rows = row /\ row' = row)
        /\ seen' = seen /\ pass[c].pc # "idle"
        /\ pass'[c].ops = pass[c].ops /\ pass'[c].list = pass[c].list
    BY <1>2, <1>7 DEF ReadRows, Decide, TypeOK, PassRecord
  <2>2. Answers'
    BY <1>1, <2>1 DEF Launches, Answers
  <2>3. Readings'
    BY <1>1, <1>5, <2>1 DEF Readings
  <2> QED  BY <1>3, <2>2, <2>3 DEF Launches
<1>8. CASE BeginPass(c) \/ ListingFails(c) \/ CommitPass(c)
  <2>1. pass'[c].rows = NoPass.rows /\ pass'[c].list = NoPass.list
    BY <1>8, AfreshPass
  <2>2. \A r \in Row : ~IsLive(NoPass.rows[r]) /\ NoPass.list[NameOf[r]] # "answering"
    BY <1>2 DEF NoPass, Unborn, Unlisted, IsLive
  <2>3. Answers'
    BY <1>1, <2>1, <2>2 DEF Launches, Answers
  <2>4. Readings'
    BY <1>1, <1>5, <2>1, <2>2 DEF Readings
  <2> QED  BY <1>3, <2>3, <2>4 DEF Launches
<1> QED  BY <1>6, <1>7, <1>8 DEF PassStep

\* Every step keeps it.
LEMMA NextKeepsLaunches ==
  ASSUME Inductive, OwnNames, Launches, [Next]_vars
  PROVE  Launches'
<1>1. \A r \in Row : Unlaunched(r)' => Unlaunched(r)
  BY WaitedBefore
<1>2. ASSUME NEW n \in Name, VmDrifts(n)
      PROVE  Launches'
  <2>1. PICK v \in VmState : SetVm(n, v)
    BY <1>2 DEF VmDrifts, Alive, VmState
  <2>2. vm[n] # "absent" /\ UNCHANGED <<row, pass, operationsCompleted, req>>
    BY <1>2 DEF VmDrifts, Alive, claims
  <2>3. \A r \in Row : Unlaunched(r) => NameOf[r] # n
    BY <2>2 DEF Launches, Waits
  <2>4. \A p \in Request, r \in Row :
          req'[p].target = r /\ req'[p].pc \notin {"idle", "named"} /\ Unlaunched(r) =>
            req'[p].op = "delete" /\ req'[p].pc \in {"loaded", "claimed", "driven", "ending"}
    BY <2>2 DEF Launches, Waits
  <2> QED  BY <1>1, <2>1, <2>2, <2>3, <2>4, SetVmKeepsLaunches DEF Inductive
<1>3. CASE Crash
  <2>1. /\ \A q \in Request : req'[q].pc = "idle"
        /\ \A d \in Pass : pass'[d] = NoPass
        /\ UNCHANGED <<row, vm>>
    BY <1>3 DEF Crash, NoRequest
  <2>2. \A r \in Row : NoPass.rows[r] = Unborn /\ NoPass.list[NameOf[r]] = Unlisted
    BY NamesAndRows DEF NoPass
  <2>3. ASSUME NEW r \in Row, Unlaunched(r)'
        PROVE  Waits(r)'
    BY <1>1, <2>1, <2>2, <2>3 DEF Launches, Waits, Waiting, Unborn
  <2>4. Readings'
    BY <2>1, <2>2 DEF Readings, IsLive, Unborn
  <2>5. Answers'
    BY <2>1 DEF Answers, NoPass
  <2> QED  BY <2>3, <2>4, <2>5 DEF Launches
<1>4. CASE UNCHANGED vars
  BY <1>4 DEF vars, claims, Launches, Waits, Unlaunched, JobAt, Readings, Answers
<1> QED
  BY <1>2, <1>3, <1>4, RequestKeepsLaunches, JobKeepsLaunches, PassKeepsLaunches DEF Next

\* Every reachable state satisfies it.
LEMMA LaunchesHold == ASSUME OwnNames PROVE Spec => []Launches
<1>1. Init => Launches
  <2> SUFFICES ASSUME Init PROVE Launches
    OBVIOUS
  <2>1. /\ \A q \in Request : req[q].pc = "idle"
        /\ \A r \in Row : job[r].pc = "none"
        /\ \A c \in Pass : pass[c].pc = "idle"
        /\ \A c \in Pass, r \in Row : pass[c].rows[r] = Unborn /\ pass[c].list[NameOf[r]] = Unlisted
    BY NamesAndRows DEF Init, NoRequest, NoJob, NoPass
  <2>2. PICK old \in Existing : \E up \in SUBSET old :
          /\ row = [r \in Row |-> IF r \notin old THEN Unborn
                                  ELSE [st |-> IF r \in up THEN "Running" ELSE "Stopped", err |-> "none"]]
          /\ vm = [n \in Name |-> IF \E r \in up : NameOf[r] = n THEN "answering"
                                  ELSE IF \E r \in old : NameOf[r] = n THEN "stopped" ELSE "absent"]
    BY DEF Init
  <2>3. ASSUME NEW r \in Row, Unlaunched(r)
        PROVE  Waits(r)
    <3>1. row[r].st = "Unborn"
      BY <2>1, <2>3 DEF Unlaunched, JobAt
    <3>2. r \notin old
      BY <2>2, <3>1
    <3>3. \A s \in old : NameOf[s] # NameOf[r]
      BY <3>2, LifecycleAssumption DEF OwnNames
    <3>4. vm[NameOf[r]] = "absent"
      BY <2>2, <3>3, NamesAndRows
    <3> QED  BY <2>1, <3>1, <3>4 DEF Waits, Waiting, Unborn
  <2> QED  BY <2>1, <2>3 DEF Launches, Readings, Answers, IsLive, Unborn
<1>2. Inductive /\ Launches /\ [Next]_vars => Launches'
  BY NextKeepsLaunches
<1> QED
  BY <1>1, <1>2, InductiveInvariant, PTL DEF Spec

\* Nothing but a commit ends a pass that has decided, a crash aside, which writes no row.
LEMMA OnlyCommitCommits ==
  ASSUME TypeOK, Next, NEW c \in Pass, CommitsNow(c), row' # row
  PROVE  CommitPass(c)
<1>1. CASE \E d \in Pass \ {c} : PassStep(d)
  BY <1>1 DEF CommitsNow, TypeOK, PassStep, BeginPass, ListName, ListingFails, ReadRows, Decide,
     CommitPass, EndPass
<1>2. CASE PassStep(c)
  BY <1>2, SMTT(30) DEF CommitsNow, PassStep, BeginPass, ListName, ListingFails, ReadRows, Decide
<1>3. CASE \E q \in Request : RequestStep(q)
  BY <1>3 DEF CommitsNow, RequestStep, LoadRow, ClaimRow, Drive, DriveSecondHalf,
     Unavailable, SyncInstance, MarkError, Terminate, EndRequest, CheckName, InsertRow
<1>4. CASE \E s \in Row : JobStep(s)
  BY <1>4 DEF CommitsNow, JobStep, StartJob, RefuseLaunch, MakeDirectory, BuildFails,
     SpawnVm, GuestReady, GuestNotReady, FailProvisioning, Settle, SettleBlind, EndJob
<1> QED
  BY <1>1, <1>2, <1>3, <1>4 DEF Next, CommitsNow, VmDrifts, Crash

\* When no name is used twice, the reconciler moves a launch in flight nowhere
\* but to Running, and only when the guest answered during the pass and since
\* the row was created: for any number of rows, requests and passes.
THEOREM LaunchesBelong == ASSUME OwnNames PROVE Spec => LaunchBelongsToJob
<1>1. Inductive /\ Launches /\ [Next]_vars =>
        [\A c \in Pass, r \in Row :
           CommitsNow(c) /\ DecisionHolds(c, r)
             /\ row[r].st \in Launching /\ row'[r].st # row[r].st
           => row'[r].st = "Running" /\ "answering" \in seen[c][r]]_vars
  <2> SUFFICES ASSUME Inductive, Launches, Next, NEW c \in Pass, NEW r \in Row,
                      CommitsNow(c), DecisionHolds(c, r),
                      row[r].st \in Launching, row'[r].st # row[r].st
               PROVE  row'[r].st = "Running" /\ "answering" \in seen[c][r]
    OBVIOUS
  <2> USE DEF Inductive
  <2>1. pass[c].pc = "decided" /\ row'[r] = Corrected(pass[c], r)
    BY OnlyCommitCommits DEF CommitPass
  <2> DEFINE rw == pass[c].rows[r]
             v  == pass[c].list[NameOf[r]]
  <2>2. r \notin pass[c].stale /\ IsLive(rw) /\ v \in VmState /\ row'[r].st = Reported(v)
    BY <2>1, CorrectionIsReported DEF Corrected
  <2>3. rw.st \in Launching
    BY <2>2 DEF Launches, Readings
  <2>4. v = "answering"
    <3>1. WriteBack(row[r], rw, rw).st = row[r].st
      BY DEF WriteBack
    <3>2. ApplyInfo(rw, v, FALSE) # rw
      BY <2>1, <2>2, <3>1 DEF Corrected
    <3> QED  BY <2>2, <2>3, <3>2 DEF ApplyInfo
  <2>5. operationsCompleted[r] = pass[c].ops[r]
    BY <2>1, <2>2 DEF Decisions, DecisionHolds
  <2> QED  BY <2>1, <2>2, <2>4, <2>5 DEF Launches, Answers, Reported, Alive
<1> QED
  BY <1>1, LaunchesHold, InductiveInvariant, PTL DEF Spec, LaunchBelongsToJob

-----------------------------------------------------------------------------
(***************************************************************************)
(* Alarms, while no two operations work on a row at once                   *)
(***************************************************************************)

\* One operation at a time on a row, a job's included.
Alone ==
  \A r \in Row, q \in Request : Operating(q, r) =>
    ~JobRunning(r) /\ \A p \in Request : Operating(p, r) => p = q

\* Whoever works on a row holds its claim.
Claimed ==
  \A r \in Row : JobRunning(r) \/ (\E q \in Request : Operating(q, r)) => r \in inFlight

\* The VM of the row was there during the pass and since the last operation.
WasThere(c, r) == seen[c][r] \ {"absent"} # {}

\* A VM that goes does so under a claim.
GoesClaimed ==
  \A c \in Pass, r \in Row :
    pass[c].pc # "idle" /\ vm[NameOf[r]] = "absent" /\ WasThere(c, r) => r \in inFlight

\* A listing that missed a VM was made during an operation.
MissedInOperation ==
  \A c \in Pass, r \in Row :
    pass[c].pc \in {"listing", "read"} /\ pass[c].list[NameOf[r]] = "absent" /\ WasThere(c, r) =>
      r \in inFlight \/ r \in pass[c].busy \/ operationsCompleted[r] # pass[c].ops[r]

\* A job that a pass finds no trace of began after the decision.
JobsBeginLate ==
  \A c \in Pass, r \in Row :
    pass[c].pc = "decided" /\ r \notin pass[c].stale /\ JobRunning(r) => pass[c].rows[r].st \in Waiting

\* What a pass is about to report as lost has never been there.
LostForGood ==
  \A c \in Pass, r \in Row :
    pass[c].pc = "decided" /\ r \notin pass[c].stale /\ pass[c].list[NameOf[r]] = "absent"
      /\ pass[c].rows[r].st \notin Waiting
    => ~WasThere(c, r)

NoLoss == GoesClaimed /\ MissedInOperation /\ JobsBeginLate /\ LostForGood
Alarms == Claimed /\ budget <= Disturbances /\ (Undisturbed => NoLoss)

\* A claim is dropped by the one operation that holds it.
LEMMA NextKeepsClaimed ==
  ASSUME Inductive, Alone, Claimed, [Next]_vars
  PROVE  Claimed'
<1> USE DEF Inductive
<1>1. req \in [Request -> RequestRecord] /\ job \in [Row -> JobRecord]
  BY DEF TypeOK
<1>2. ASSUME \A q \in Request, r \in Row : Operating(q, r)' => Operating(q, r),
             \A r \in Row : JobRunning(r)' => JobRunning(r), UNCHANGED inFlight
      PROVE  Claimed'
  BY <1>2 DEF Claimed
<1>3. ASSUME NEW q \in Request, RequestStep(q)
      PROVE  Claimed'
  <2>1. req[q] \in RequestRecord /\ req[q].target \in Row
    BY <1>1 DEF RequestRecord
  <2>2. CASE ClaimRow(q)
    <3>1. inFlight' = inFlight \union {req[q].target} /\ UNCHANGED job
      BY <2>2 DEF ClaimRow, Claim
    <3>2. \A p \in Request, r \in Row : Operating(p, r)' => Operating(p, r) \/ r = req[q].target
      BY <1>1, <2>2 DEF ClaimRow, GoTo, Operating, RequestRecord
    <3> QED  BY <3>1, <3>2 DEF Claimed, JobRunning
  <2>3. CASE EndRequest(q)
    <3>1. inFlight' = inFlight \ {req[q].target} /\ UNCHANGED job
      BY <2>3 DEF EndRequest, Release
    <3>2. \A p \in Request, r \in Row : Operating(p, r)' => Operating(p, r) /\ p # q
      BY <1>1, <2>3 DEF EndRequest, NoRequest, Operating
    <3>3. Operating(q, req[q].target)
      BY <2>3 DEF EndRequest, At, Operating
    <3> QED  BY <2>1, <3>1, <3>2, <3>3 DEF Claimed, JobRunning, Alone
  <2>4. CASE InsertRow(q)
    <3>1. \A r \in Row : JobRunning(r)' => JobRunning(r)
      BY <1>1, <2>4 DEF InsertRow, JobRunning, JobRecord
    <3>2. \A p \in Request, r \in Row : Operating(p, r)' => Operating(p, r)
      BY <1>1, <2>4 DEF InsertRow, NoRequest, Operating
    <3> QED  BY <1>2, <2>4, <3>1, <3>2 DEF InsertRow, claims
  <2>5. ASSUME NEW pc \in {"halfway", "driven", "failed", "ending"}, GoTo(q, pc),
               UNCHANGED <<inFlight, job>>,
               req[q].pc \in {"claimed", "halfway", "driven", "failed"}
        PROVE  Claimed'
    <3>1. \A p \in Request, r \in Row : Operating(p, r)' => Operating(p, r)
      BY <1>1, <2>5 DEF GoTo, Operating, RequestRecord
    <3> QED  BY <1>2, <2>5, <3>1 DEF JobRunning
  <2>6. CASE Drive(q)
    <3>1. PICK o \in Outcome(q, vm[NameOf[req[q].target]]) : GoTo(q, o[2])
      BY <2>6 DEF Drive
    <3>2. vm[NameOf[req[q].target]] \in VmState
      BY <2>1, NamesAndRows DEF TypeOK
    <3> QED  BY <2>5, <2>6, <3>1, <3>2, OutcomeType DEF Drive, At, claims
  <2>7. CASE DriveSecondHalf(q)
    <3>1. PICK o \in BootOutcome(vm[NameOf[req[q].target]]) : GoTo(q, o[2])
      BY <2>7 DEF DriveSecondHalf
    <3>2. vm[NameOf[req[q].target]] \in VmState
      BY <2>1, NamesAndRows DEF TypeOK
    <3> QED  BY <2>5, <2>7, <3>1, <3>2, OutcomeType DEF DriveSecondHalf, At, claims
  <2>8. CASE Unavailable(q) \/ SyncInstance(q) \/ MarkError(q) \/ Terminate(q)
    BY <2>5, <2>8 DEF Unavailable, SyncInstance, MarkError, Terminate, At, claims
  <2>9. ASSUME NEW r \in Row, CheckName(q, r)
        PROVE  Claimed'
    <3>1. req'[q].pc = "named" /\ \A p \in Request : p # q => req'[p] = req[p]
      BY <1>1, <2>9 DEF CheckName, NoRequest
    <3>2. \A p \in Request, s \in Row : Operating(p, s)' => Operating(p, s)
      BY <3>1 DEF Operating
    <3> QED  BY <1>2, <2>9, <3>2 DEF CheckName, JobRunning, claims
  <2>10. ASSUME NEW r \in Row, NEW op \in Operation, NEW f \in BOOLEAN, LoadRow(q, op, r, f)
         PROVE  Claimed'
    <3>1. \A p \in Request, s \in Row : Operating(p, s)' => Operating(p, s)
      BY <1>1, <2>10 DEF LoadRow, Operating
    <3> QED  BY <1>2, <2>10, <3>1 DEF LoadRow, JobRunning, claims
  <2> QED
    BY <1>3, <2>2, <2>3, <2>4, <2>6, <2>7, <2>8, <2>9, <2>10 DEF RequestStep
<1>4. ASSUME NEW s \in Row, JobStep(s)
      PROVE  Claimed'
  <2>1. UNCHANGED req /\ \A q \in Request, r \in Row : Operating(q, r)' <=> Operating(q, r)
    BY <1>4 DEF JobStep, StartJob, RefuseLaunch, MakeDirectory, BuildFails, SpawnVm, GuestReady,
       GuestNotReady, FailProvisioning, Settle, SettleBlind, EndJob, Operating
  <2>2. CASE StartJob(s)
    <3>1. inFlight' = inFlight \union {s} /\ \A r \in Row \ {s} : job'[r] = job[r]
      BY <1>1, <2>2 DEF StartJob, Claim
    <3> QED  BY <2>1, <3>1 DEF Claimed, JobRunning
  <2>3. CASE EndJob(s)
    <3>1. inFlight' = inFlight \ {s} /\ ~JobRunning(s)' /\ \A r \in Row \ {s} : job'[r] = job[r]
      BY <1>1, <2>3 DEF EndJob, Release, NoJob, JobRunning
    <3>2. JobRunning(s)
      BY <2>3 DEF EndJob, JobAt, JobRunning
    <3> QED  BY <2>1, <3>1, <3>2 DEF Claimed, JobRunning, Alone
  <2>4. ASSUME UNCHANGED inFlight, JobRunning(s), \A r \in Row \ {s} : job'[r] = job[r]
        PROVE  Claimed'
    BY <1>2, <2>1, <2>4 DEF Claimed, JobRunning
  <2>5. CASE \E pc \in {"booting", "failed", "waiting", "settling", "ending"} :
                JobGoTo(s, pc) /\ UNCHANGED inFlight
    BY <1>1, <1>4, <2>2, <2>3, <2>4, <2>5 DEF JobGoTo, JobStep, JobAt, JobRunning, RefuseLaunch,
       MakeDirectory,
       BuildFails, SpawnVm, GuestReady, GuestNotReady, FailProvisioning, Settle, SettleBlind
  <2>6. CASE Settle(s)
    <3>1. UNCHANGED inFlight /\ JobRunning(s) /\ \A r \in Row \ {s} : job'[r] = job[r]
      BY <1>1, <2>6 DEF Settle, JobAt, JobRunning, claims
    <3> QED  BY <2>4, <3>1
  <2>7. RefuseLaunch(s) \/ BuildFails(s) \/ SpawnVm(s) \/ GuestNotReady(s) => <2>5!1
    BY DEF RefuseLaunch, BuildFails, SpawnVm, GuestNotReady, claims
  <2>8. MakeDirectory(s) \/ GuestReady(s) \/ FailProvisioning(s) \/ SettleBlind(s) => <2>5!1
    BY DEF MakeDirectory, GuestReady, FailProvisioning, SettleBlind, claims
  <2> QED  BY <1>4, <2>2, <2>3, <2>5, <2>6, <2>7, <2>8 DEF JobStep
<1>5. ASSUME NEW c \in Pass, PassStep(c)
      PROVE  Claimed'
  BY <1>5 DEF PassStep, BeginPass, ListName, ListingFails, ReadRows, Decide, CommitPass, claims,
     Claimed, Operating, JobRunning
<1>6. CASE Crash
  BY <1>6 DEF Crash, NoRequest, NoJob, Claimed, Operating, JobRunning
<1>7. CASE UNCHANGED vars \/ \E n \in Name : VmDrifts(n)
  BY <1>7 DEF VmDrifts, vars, claims, Claimed, Operating, JobRunning
<1> QED  BY <1>3, <1>4, <1>5, <1>6, <1>7 DEF Next

\* A VM comes by the job of its row and goes under a claim.
LEMMA SetVmKeepsNoLoss ==
  ASSUME Inductive, OwnNames, Claimed, NoLoss, NEW n \in Name, NEW v \in VmState, SetVm(n, v),
         vm[n] = "absent" /\ v # "absent" => \E s \in Row : JobRunning(s) /\ NameOf[s] = n,
         vm[n] # "absent" /\ v = "absent" => \E s \in Row : s \in inFlight /\ NameOf[s] = n,
         \A r \in Row : JobRunning(r)' => JobRunning(r),
         UNCHANGED <<pass, operationsCompleted, inFlight>>
  PROVE  NoLoss'
<1> USE DEF Inductive
<1>1. ASSUME NEW c \in Pass, pass[c].pc # "idle", NEW r \in Row, NameOf[r] # n
      PROVE  seen'[c][r] = seen[c][r] /\ vm'[NameOf[r]] = vm[NameOf[r]]
  BY <1>1, NamesAndRows DEF SetVm, TypeOK
<1>2. ASSUME NEW c \in Pass, pass[c].pc # "idle", NEW r \in Row, NameOf[r] = n
      PROVE  seen'[c][r] = seen[c][r] \union {v} /\ vm'[NameOf[r]] = v /\ vm[n] \in seen[c][r]
  BY <1>2, NamesAndRows DEF SetVm, TypeOK, History
<1>3. \A r, s \in Row : NameOf[r] = n /\ NameOf[s] = n => r = s
  BY DEF OwnNames
<1>4. GoesClaimed'
  BY <1>1, <1>2, <1>3 DEF NoLoss, GoesClaimed, WasThere
<1>5. MissedInOperation'
  BY <1>1, <1>2, <1>3 DEF NoLoss, MissedInOperation, WasThere, Claimed
<1>6. JobsBeginLate'
  BY DEF NoLoss, JobsBeginLate
<1>7. LostForGood'
  BY <1>1, <1>2, <1>3 DEF NoLoss, LostForGood, JobsBeginLate, WasThere
<1> QED  BY <1>4, <1>5, <1>6, <1>7 DEF NoLoss

\* The history of a row starts again, or nothing a pass looks at changes.
LEMMA RowsKeepNoLoss ==
  ASSUME Inductive, Launches, NoLoss, UNCHANGED <<vm, pass>>,
         \A r \in Row : JobRunning(r)' => JobRunning(r) \/ Unlaunched(r),
         \/ UNCHANGED <<seen, operationsCompleted>> /\ inFlight \subseteq inFlight'
         \/ \E s \in Row : Release(s)
         \/ \E s \in Row : Forget(s) /\ Unlaunched(s) /\ UNCHANGED <<operationsCompleted, inFlight>>
  PROVE  NoLoss'
<1> USE DEF Inductive
<1>1. JobsBeginLate'
  BY DEF NoLoss, JobsBeginLate, Launches, Waits
<1>2. CASE UNCHANGED <<seen, operationsCompleted>> /\ inFlight \subseteq inFlight'
  BY <1>1, <1>2 DEF NoLoss, GoesClaimed, MissedInOperation, LostForGood, WasThere
<1>3. ASSUME NEW s \in Row, Forget(s),
             Release(s) \/ (Unlaunched(s) /\ UNCHANGED <<operationsCompleted, inFlight>>)
      PROVE  NoLoss'
  <2>1. ASSUME NEW c \in Pass, pass[c].pc # "idle", NEW r \in Row \ {s}
        PROVE  /\ seen'[c][r] = seen[c][r] /\ (r \in inFlight' <=> r \in inFlight)
               /\ operationsCompleted'[r] = operationsCompleted[r]
    BY <1>3, <2>1 DEF Forget, Release, TypeOK
  <2>2. ASSUME NEW c \in Pass, pass[c].pc # "idle"
        PROVE  /\ seen'[c][s] = {vm[NameOf[s]]} /\ vm[NameOf[s]] \in seen[c][s]
               /\ operationsCompleted'[s] # pass[c].ops[s] \/ vm[NameOf[s]] = "absent"
    <3>1. /\ seen'[c][s] = {vm[NameOf[s]]} /\ vm[NameOf[s]] \in seen[c][s]
      BY <1>3, <2>2 DEF Forget, TypeOK, History
    <3>2. pass[c].ops[s] \in Nat /\ operationsCompleted[s] \in Nat
          /\ pass[c].ops[s] <= operationsCompleted[s]
      BY <2>2, ZenonT(60) DEF TypeOK, PassRecord, History
    <3>3. CASE Release(s)
      <4>1. operationsCompleted'[s] = operationsCompleted[s] + 1
        BY <3>3 DEF Release, TypeOK
      <4> QED  BY <3>1, <3>2, <4>1
    <3>4. CASE Unlaunched(s)
      BY <3>1, <3>4 DEF Launches, Waits
    <3> QED  BY <1>3, <3>3, <3>4
  <2>3. GoesClaimed'
    BY <2>1, <2>2 DEF NoLoss, GoesClaimed, WasThere
  <2>4. MissedInOperation'
    BY <2>1, <2>2 DEF NoLoss, MissedInOperation, WasThere
  <2>5. LostForGood'
    BY <2>1, <2>2 DEF NoLoss, LostForGood, WasThere
  <2> QED  BY <1>1, <2>3, <2>4, <2>5 DEF NoLoss
<1> QED  BY <1>2, <1>3 DEF Release

\* A request's VM goes under the claim of the request, and none comes by it.
LEMMA RequestKeepsNoLoss ==
  ASSUME Inductive, OwnNames, Launches, Claimed, NoLoss, NEW q \in Request, RequestStep(q)
  PROVE  NoLoss'
<1> USE DEF Inductive
<1>1. PICK t \in Row : t = req[q].target
  BY DEF TypeOK, RequestRecord
<1>2. NameOf[t] \in Name /\ vm[NameOf[t]] \in VmState
      /\ req[q] \in RequestRecord /\ job \in [Row -> JobRecord]
  BY NamesAndRows DEF TypeOK
<1>3. CASE Drive(q) \/ DriveSecondHalf(q)
  <2>1. /\ UNCHANGED <<pass, operationsCompleted, inFlight, job>> /\ Operating(q, t)
        /\ \E o \in Outcome(q, vm[NameOf[t]]) \union BootOutcome(vm[NameOf[t]]) : SetVm(NameOf[t], o[1])
    BY <1>1, <1>3 DEF Drive, DriveSecondHalf, At, Operating, claims
  <2>2. PICK o \in Outcome(q, vm[NameOf[t]]) \union BootOutcome(vm[NameOf[t]]) : SetVm(NameOf[t], o[1])
    BY <2>1
  <2>3. o[1] \in VmState /\ (vm[NameOf[t]] = "absent" => o[1] = "absent")
    BY <1>2, <2>2, OutcomeType, GoneStaysGone DEF RequestRecord
  <2>4. t \in inFlight
    BY <2>1 DEF Claimed
  <2> QED  BY <1>2, <2>1, <2>2, <2>3, <2>4, SetVmKeepsNoLoss DEF JobRunning
<1>4. CASE InsertRow(q)
  <2>1. Forget(t) /\ Unlaunched(t) /\ UNCHANGED <<vm, pass, operationsCompleted, inFlight>>
    BY <1>1, <1>4 DEF InsertRow, claims, Births, NamedUnborn, Born, Unlaunched
  <2>2. \A r \in Row : JobRunning(r)' => JobRunning(r)
    BY <1>2, <1>4 DEF InsertRow, JobRunning, JobRecord
  <2> QED  BY <2>1, <2>2, RowsKeepNoLoss
<1>5. CASE UNCHANGED <<vm, pass, job>>
             /\ (Release(t) \/ (UNCHANGED <<seen, operationsCompleted>> /\ inFlight \subseteq inFlight'))
  BY <1>5, RowsKeepNoLoss DEF JobRunning
<1> QED
  BY <1>1, <1>3, <1>4, <1>5
  DEF RequestStep, LoadRow, ClaimRow, Claim, Unavailable, SyncInstance, MarkError, Terminate,
     EndRequest,
      CheckName, claims

\* A job makes and removes the VM of its own row, which it has claimed.
LEMMA JobKeepsNoLoss ==
  ASSUME Inductive, OwnNames, Launches, Claimed, NoLoss, NEW s \in Row, JobStep(s)
  PROVE  NoLoss'
<1> USE DEF Inductive
<1>1. NameOf[s] \in Name /\ vm[NameOf[s]] \in VmState /\ job \in [Row -> JobRecord]
  BY NamesAndRows DEF TypeOK
<1>2. UNCHANGED pass /\ \A r \in Row \ {s} : job'[r] = job[r]
  BY <1>1 DEF JobStep, StartJob, RefuseLaunch, MakeDirectory, BuildFails, SpawnVm, GuestReady,
     GuestNotReady, FailProvisioning, Settle, SettleBlind, EndJob, JobGoTo
<1>3. JobRunning(s) \/ Unlaunched(s)
  BY DEF JobStep, StartJob, RefuseLaunch, MakeDirectory, BuildFails, SpawnVm, GuestReady,
     GuestNotReady, FailProvisioning, Settle, SettleBlind, EndJob, JobAt, JobRunning, Unlaunched
<1>4. CASE MakeDirectory(s) \/ BuildFails(s) \/ SpawnVm(s) \/ GuestReady(s) \/ GuestNotReady(s)
  <2>1. JobRunning(s) /\ UNCHANGED <<operationsCompleted, inFlight>>
    BY <1>4 DEF JobAt, JobRunning, MakeDirectory, BuildFails, SpawnVm, GuestReady, GuestNotReady,
       claims
  <2>2. s \in inFlight /\ \A r \in Row : JobRunning(r)' => JobRunning(r)
    BY <1>2, <2>1 DEF Claimed, JobRunning
  <2>3. PICK v \in VmState : SetVm(NameOf[s], v)
    BY <1>1, <1>4 DEF MakeDirectory, BuildFails, SpawnVm, GuestReady, GuestNotReady, VmState
  <2> QED  BY <1>1, <1>2, <2>1, <2>2, <2>3, SetVmKeepsNoLoss
<1>5. CASE UNCHANGED vm
             /\ (Release(s) \/ (UNCHANGED <<seen, operationsCompleted>> /\ inFlight \subseteq inFlight'))
  BY <1>2, <1>3, <1>5, RowsKeepNoLoss DEF JobRunning
<1> QED
  BY <1>4, <1>5
  DEF JobStep, StartJob, Claim, RefuseLaunch, FailProvisioning, Settle, SettleBlind, EndJob, claims

\* A pass that decides leaves out what was missed during an operation.
LEMMA PassKeepsNoLoss ==
  ASSUME Inductive, Claimed, NoLoss, NEW c \in Pass, PassStep(c)
  PROVE  NoLoss'
<1> USE DEF Inductive
<1>1. /\ UNCHANGED <<vm, operationsCompleted, inFlight, job>>
      /\ \A d \in Pass \ {c} : pass'[d] = pass[d] /\ seen'[d] = seen[d]
  BY DEF TypeOK, PassStep, BeginPass, ListName, ListingFails, ReadRows, Decide, CommitPass,
     EndPass, claims
<1>2. pass[c] \in PassRecord /\ \A r \in Row : NameOf[r] \in Name
  BY NamesAndRows DEF TypeOK
<1>3. CASE BeginPass(c)
  <2>1. /\ pass'[c].pc = "listing" /\ pass'[c].list = NoPass.list
        /\ \A r \in Row : seen'[c][r] = {vm[NameOf[r]]}
    BY <1>3, RecordTypes DEF BeginPass, TypeOK, PassRecord
  <2>2. \A r \in Row : NoPass.list[NameOf[r]] # "absent"
    BY <1>2 DEF NoPass, Unlisted
  <2> QED
    BY <1>1, <2>1, <2>2 DEF NoLoss, GoesClaimed, MissedInOperation, JobsBeginLate, LostForGood,
       WasThere, JobRunning
<1>4. CASE \E n \in Name : ListName(c, n)
  <2>1. /\ pass'[c].pc = "listing" /\ pass[c].pc = "listing" /\ UNCHANGED seen
        /\ pass'[c].ops = pass[c].ops /\ pass'[c].busy = pass[c].busy
        /\ \A r \in Row : pass'[c].list[NameOf[r]] \in {pass[c].list[NameOf[r]], vm[NameOf[r]]}
    BY <1>2, <1>4 DEF ListName, TypeOK, PassRecord
  <2> QED
    BY <1>1, <2>1 DEF NoLoss, GoesClaimed, MissedInOperation, JobsBeginLate, LostForGood,
       WasThere, JobRunning
<1>5. CASE ReadRows(c)
  <2>1. /\ pass'[c].pc = "read" /\ pass[c].pc = "listing" /\ UNCHANGED seen
        /\ pass'[c].ops = pass[c].ops /\ pass'[c].busy = pass[c].busy /\ pass'[c].list = pass[c].list
    BY <1>2, <1>5 DEF ReadRows, TypeOK, PassRecord
  <2> QED
    BY <1>1, <2>1 DEF NoLoss, GoesClaimed, MissedInOperation, JobsBeginLate, LostForGood,
       WasThere, JobRunning
<1>6. CASE Decide(c)
  <2>1. /\ pass'[c].pc = "decided" /\ pass[c].pc = "read" /\ UNCHANGED seen
        /\ pass'[c].list = pass[c].list /\ pass'[c].stale = Stale(pass[c])
    BY <1>2, <1>6 DEF Decide, TypeOK, PassRecord
  <2> QED
    BY <1>1, <2>1 DEF NoLoss, GoesClaimed, MissedInOperation, JobsBeginLate, LostForGood,
       WasThere, JobRunning,
       Stale, Claimed
<1>7. CASE ListingFails(c) \/ CommitPass(c)
  <2>1. pass'[c].pc = "idle"
    BY <1>7 DEF ListingFails, CommitPass, EndPass, NoPass, TypeOK
  <2> QED
    BY <1>1, <2>1 DEF NoLoss, GoesClaimed, MissedInOperation, JobsBeginLate, LostForGood,
       WasThere, JobRunning
<1> QED  BY <1>3, <1>4, <1>5, <1>6, <1>7 DEF PassStep

\* Only what happens outside the backend breaks it.
LEMMA NextKeepsAlarms ==
  ASSUME Inductive, OwnNames, Launches, Alone, Alarms, [Next]_vars
  PROVE  Alarms'
<1>1. Claimed'
  BY NextKeepsClaimed DEF Alarms
<1>2. budget' <= Disturbances /\ (Undisturbed' => budget' = budget)
  <2>1. budget \in Nat /\ budget <= Disturbances /\ Disturbances \in Nat
    BY LifecycleAssumption DEF Alarms, Inductive, TypeOK
  <2>2. budget' = budget \/ budget' = budget - 1
    <3>1. CASE \E q \in Request : RequestStep(q)
      BY <3>1 DEF RequestStep, LoadRow, ClaimRow, Drive, DriveSecondHalf, Unavailable, SyncInstance,
         MarkError, Terminate, EndRequest, CheckName, InsertRow
    <3>2. CASE \E s \in Row : JobStep(s)
      BY <3>2 DEF JobStep, StartJob, RefuseLaunch, MakeDirectory, BuildFails, SpawnVm, GuestReady,
         GuestNotReady, FailProvisioning, Settle, SettleBlind, EndJob
    <3>3. CASE \E c \in Pass : PassStep(c)
      BY <3>3 DEF PassStep, BeginPass, ListName, ListingFails, ReadRows, Decide, CommitPass
    <3> QED  BY <3>1, <3>2, <3>3, SMTT(30) DEF Next, VmDrifts, Crash, vars
  <2> QED  BY <2>1, <2>2 DEF Undisturbed
<1>3. ASSUME Undisturbed'
      PROVE  NoLoss'
  <2>1. budget' = budget /\ Undisturbed /\ NoLoss /\ Claimed
    BY <1>2, <1>3 DEF Undisturbed, Alarms
  <2>2. CASE UNCHANGED vars
    BY <2>1, <2>2 DEF vars, claims, NoLoss, GoesClaimed, MissedInOperation, JobsBeginLate,
       LostForGood,
       WasThere, JobRunning
  <2>3. ~Crash /\ \A n \in Name : ~VmDrifts(n)
    BY <2>1 DEF Crash, VmDrifts, Inductive, TypeOK
  <2> QED
    BY <2>1, <2>2, <2>3, RequestKeepsNoLoss, JobKeepsNoLoss, PassKeepsNoLoss DEF Next
<1> QED  BY <1>1, <1>2, <1>3 DEF Alarms

\* A row that reports a loss was edited so.
LEMMA AlarmIsReported ==
  ASSUME NEW current, NEW loaded, NEW edited, WriteBack(current, loaded, edited).err = "gone",
         current.err # "gone"
  PROVE  edited.err = "gone" /\ loaded.err # "gone"
BY DEF WriteBack

\* When no name is used twice and no two operations work on a row at once, no
\* pass reports as lost a VM that delete_instance destroys, while nothing
\* happens outside the backend: whichever passes a deletion overlaps, and
\* whatever launches and operations came before it.
THEOREM NoFalseAlarm == ASSUME OwnNames PROVE Spec /\ []Alone => NoAlarmDuringDelete
<1>1. Init => Alarms
  BY LifecycleAssumption DEF Init, Alarms, Claimed, NoLoss, GoesClaimed, MissedInOperation,
     JobsBeginLate,
     LostForGood, NoPass, NoRequest, NoJob, JobRunning, Operating
<1>2. Inductive /\ Launches /\ Alone /\ Alarms /\ [Next]_vars => Alarms'
  BY NextKeepsAlarms
<1>3. Inductive /\ Alarms /\ [Next]_vars =>
        [\A c \in Pass, r \in Row :
           CommitsNow(c) /\ Undisturbed /\ seen[c][r] \ {"absent"} # {} /\ row'[r].err = "gone"
           => row[r].err = "gone"]_vars
  <2> SUFFICES ASSUME Inductive, Alarms, Next, NEW c \in Pass, NEW r \in Row,
                      CommitsNow(c), Undisturbed, WasThere(c, r),
                      row'[r].err = "gone", row[r].err # "gone"
               PROVE  FALSE
    BY DEF WasThere
  <2> USE DEF Inductive
  <2>1. pass[c].pc = "decided" /\ row'[r] = Corrected(pass[c], r)
    BY OnlyCommitCommits DEF CommitPass
  <2> DEFINE rw == pass[c].rows[r]
             v  == pass[c].list[NameOf[r]]
  <2>2. r \notin pass[c].stale /\ IsLive(rw)
    BY <2>1 DEF Corrected
  <2>3. ApplyInfo(rw, v, FALSE).err = "gone" /\ rw.err # "gone"
    <3>1. PICK e : e = ApplyInfo(rw, v, FALSE)
      OBVIOUS
    <3>2. row'[r] = WriteBack(row[r], rw, e)
      BY <2>1, <2>2, <3>1 DEF Corrected
    <3>3. e.err = "gone" /\ rw.err # "gone"
      BY <3>2, AlarmIsReported
    <3> QED  BY <3>1, <3>3
  <2>4. rw \in RowRecord
    BY DEF TypeOK, PassRecord
  <2>5. v = "absent" /\ rw.st \notin Launching
    BY <2>3, <2>4 DEF ApplyInfo, RowRecord
  <2>6. rw.st \notin Waiting
    BY <2>2, <2>5 DEF IsLive, Waiting, Launching
  <2> QED  BY <2>1, <2>2, <2>5, <2>6 DEF Alarms, NoLoss, LostForGood
<1>4. Spec => []Launches
  BY LaunchesHold
<1> QED
  BY <1>1, <1>2, <1>3, <1>4, InductiveInvariant, PTL DEF Spec, NoAlarmDuringDelete
=============================================================================
