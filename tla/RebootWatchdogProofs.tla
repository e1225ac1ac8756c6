------------------------ MODULE RebootWatchdogProofs ------------------------
(***************************************************************************)
(* Theorems about RebootWatchdog, for any number of guests and any         *)
(* threshold and cooldown.  The inductive invariant is that a watch's      *)
(* clock never runs ahead of what really happened to its guest.            *)
(***************************************************************************)
EXTENDS RebootWatchdog, TLAPS

\* What the assumption says of the constants and of the values made of them.
LEMMA Constants ==
  /\ StuckFor \in Nat /\ StuckFor > 0 /\ NoRun = StuckFor + 1
  /\ Cooldown \in Nat /\ Cooldown > 0 /\ Never = Cooldown + 1
  /\ AnyInstance \in Instance
  /\ Interventions \in Nat /\ Glitches \in Nat
BY WatchdogAssumption DEF NoRun, Never, AnyInstance

\* The end of a pass and the turn to its next row are pass records.
LEMMA PassTypes ==
  /\ NoPass \in PassRecord
  /\ \A p \in PassRecord : NextRow(p) \in PassRecord
<1>1. Expired \in [Instance -> Status \union {"expired"}]
  BY DEF Expired
<1>2. NoPass \in PassRecord
  <2>1. /\ {} \in SUBSET Instance
        /\ "idle" \in {"idle", "sampling", "stopping", "starting", "failed", "restarted",
                       "giving up"}
        /\ 0 \in 0..2
        /\ "none" \in {"none", "engine", "unavailable"}
    OBVIOUS
  <2>2. QED
    BY <1>1, <2>1, Constants DEF NoPass, PassRecord
<1>3. \A p \in PassRecord : [p EXCEPT !.pc = "sampling"] \in PassRecord
  BY DEF PassRecord
<1>4. QED
  BY <1>2, <1>3 DEF NextRow

\* The watches that a sample, a restart and an alert leave behind.
LEMMA WatchTypes ==
  ASSUME NEW w \in WatchRecord
  PROVE  /\ w.lowSince \in 0..NoRun /\ w.lastRestart \in 0..Never /\ w.alerted \in BOOLEAN
         /\ NewWatch \in WatchRecord
         /\ StopClock(w) \in WatchRecord
         /\ [w EXCEPT !.lowSince = 0] \in WatchRecord
         /\ [w EXCEPT !.alerted = TRUE] \in WatchRecord
         /\ NoteRestart(w) \in WatchRecord
<1>1. 0 \in 0..NoRun /\ NoRun \in 0..NoRun /\ 0 \in 0..Never /\ Never \in 0..Never
  BY Constants
<1>2. /\ w.lowSince \in 0..NoRun /\ w.lastRestart \in 0..Never /\ w.alerted \in BOOLEAN
  BY DEF WatchRecord
<1>3. NewWatch \in WatchRecord
  BY <1>1 DEF WatchRecord, NewWatch
<1>4. StopClock(w) \in WatchRecord
  BY <1>1 DEF WatchRecord, StopClock
<1>5. [w EXCEPT !.lowSince = 0] \in WatchRecord
  BY <1>1 DEF WatchRecord
<1>6. [w EXCEPT !.alerted = TRUE] \in WatchRecord
  BY <1>1 DEF WatchRecord
<1>7. NoteRestart(w) \in WatchRecord
  BY <1>1 DEF WatchRecord, NoteRestart
<1>8. QED
  BY <1>2, <1>3, <1>4, <1>5, <1>6, <1>7

\* The pass record after any of the updates an action makes.
LEMMA PassUpdates ==
  ASSUME TypeOK
  PROVE  /\ \A i \in Instance : Taking(i) \in PassRecord
         /\ \A i \in Instance : [Taking(i) EXCEPT !.pc = "stopping"] \in PassRecord
         /\ \A i \in Instance : [Taking(i) EXCEPT !.pc = "giving up"] \in PassRecord
         /\ \A i \in Instance : [pass EXCEPT !.todo = @ \ {i}] \in PassRecord
         /\ [pass EXCEPT !.loaded = Expired] \in PassRecord
<1> USE DEF TypeOK
<1>1. \A i \in Instance : Taking(i) \in PassRecord
  <2> SUFFICES ASSUME NEW i \in Instance PROVE Taking(i) \in PassRecord
    OBVIOUS
  <2>1. row[i] \in Status \union {"expired"}
    BY DEF Status
  <2>2. pass.loaded \in [Instance -> Status \union {"expired"}]
    BY DEF PassRecord
  <2> DEFINE now == [pass.loaded EXCEPT ![i] = IF @ = "expired" THEN row[i] ELSE @]
             next == [pass EXCEPT !.todo = @ \ {i}, !.at = i, !.tries = 0]
  <2>3. now \in [Instance -> Status \union {"expired"}]
    BY <2>1, <2>2
  <2>4. pass \in PassRecord
    OBVIOUS
  <2>5. next \in PassRecord
    <3>1. [pass EXCEPT !.todo = @ \ {i}] \in PassRecord
      BY <2>4 DEF PassRecord
    <3>2. \A p \in PassRecord : [p EXCEPT !.at = i] \in PassRecord
      BY DEF PassRecord
    <3>3. \A p \in PassRecord : [p EXCEPT !.tries = 0] \in PassRecord
      <4>1. 0 \in 0..2
        OBVIOUS
      <4>2. QED
        BY <4>1 DEF PassRecord
    <3>4. QED
      BY <3>1, <3>2, <3>3
  <2>6. Taking(i) = [next EXCEPT !.loaded = now]
    BY <2>4 DEF Taking, PassRecord
  <2> HIDE DEF now, next
  <2>7. QED
    BY <2>3, <2>5, <2>6 DEF PassRecord
<1>2. \A i \in Instance : [Taking(i) EXCEPT !.pc = "stopping"] \in PassRecord
  BY <1>1 DEF PassRecord
<1>3. \A i \in Instance : [Taking(i) EXCEPT !.pc = "giving up"] \in PassRecord
  BY <1>1 DEF PassRecord
<1>4. \A i \in Instance : [pass EXCEPT !.todo = @ \ {i}] \in PassRecord
  BY DEF PassRecord
<1>5. [pass EXCEPT !.loaded = Expired] \in PassRecord
  <2>1. Expired \in [Instance -> Status \union {"expired"}]
    BY DEF Expired
  <2>2. QED
    BY <2>1 DEF PassRecord
<1>6. QED
  BY <1>1, <1>2, <1>3, <1>4, <1>5

\* An age grows by one and stops at its limit.
LEMMA Ages ==
  ASSUME NEW limit \in Nat
  PROVE  /\ \A a \in 0..limit : Older(a, limit) \in 0..limit
         /\ \A a \in 0..(limit + 1) : Older(a, limit) \in 0..(limit + 1)
         /\ \A a \in Nat : a <= limit => Older(a, limit) <= limit
         /\ \A a \in Nat : a > limit => Older(a, limit) = a
         /\ \A a, b \in Nat : a <= b /\ b <= limit => Older(a, limit) <= Older(b, limit)
BY DEF Older

\* The types are kept by every step of the pass.
LEMMA TypeKeptByPass ==
  ASSUME TypeOK, Attempts, PassStep
  PROVE  TypeOK'
<1> USE DEF TypeOK
<1>t. /\ 0 \in 0..StuckFor /\ 0 \in 0..Cooldown
      /\ \A i \in Instance : watch[i] \in WatchRecord
      /\ NewWatch \in WatchRecord
      /\ pass.at \in Instance
  <2>1. NewWatch \in WatchRecord
    BY Constants DEF NewWatch, WatchRecord
  <2>2. pass.at \in Instance
    BY DEF PassRecord
  <2>3. \A i \in Instance : watch[i] \in WatchRecord
    OBVIOUS
  <2>4. 0 \in 0..StuckFor /\ 0 \in 0..Cooldown
    BY Constants
  <2>5. QED
    BY <2>1, <2>2, <2>3, <2>4
<1>1. CASE BeginPass
  <2> DEFINE running == {i \in Instance : row[i] = "Running"}
             first == [NoPass EXCEPT !.todo = running,
                        !.loaded = [i \in Instance |->
                                      IF i \in running THEN "Running" ELSE "expired"]]
  <2>1. first \in PassRecord
    <3>1. [i \in Instance |-> IF i \in running THEN "Running" ELSE "expired"]
             \in [Instance -> Status \union {"expired"}]
      BY DEF Status
    <3>2. NoPass \in PassRecord
      BY PassTypes
    <3>3. running \in SUBSET Instance
      OBVIOUS
    <3> HIDE DEF running
    <3>4. QED
      BY <3>1, <3>2, <3>3 DEF PassRecord
  <2>2. pass' = NextRow(first)
    BY <1>1 DEF BeginPass
  <2> HIDE DEF first
  <2>3. pass' \in PassRecord
    BY <2>1, <2>2, PassTypes
  <2>4. watch' \in [Instance -> WatchRecord] /\ dullFor' \in [Instance -> 0..StuckFor]
    BY <1>1, <1>t DEF BeginPass
  <2>5. QED
    BY <1>1, <2>3, <2>4 DEF BeginPass
<1>2. ASSUME NEW i \in Instance, SkipSample(i) PROVE TypeOK'
  <2>1. pass' \in PassRecord
    BY <1>2, PassTypes, PassUpdates DEF SkipSample
  <2>2. left' \in [interventions : 0..Interventions, glitches : 0..Glitches]
    BY <1>2, Constants DEF SkipSample
  <2>3. QED
    BY <1>2, <2>1, <2>2 DEF SkipSample
<1>3. ASSUME NEW i \in Instance, Sample(i) PROVE TypeOK'
  <2>1. CASE SeesGraphics(i)
    <3>1. pass' \in PassRecord
      BY <2>1, PassTypes, PassUpdates DEF SeesGraphics
    <3>2. watch' \in [Instance -> WatchRecord]
      <4>1. StopClock(watch[i]) \in WatchRecord
        BY <1>t, WatchTypes
      <4>2. QED
        BY <2>1, <4>1 DEF SeesGraphics, Sampled
    <3>3. QED
      BY <2>1, <3>1, <3>2, <1>t DEF SeesGraphics, Sampled
  <2>2. CASE KeepsWatching(i)
    <3>1. pass' \in PassRecord
      BY <2>2, PassTypes, PassUpdates DEF KeepsWatching
    <3>2. watch' \in [Instance -> WatchRecord]
      <4>1. StartClock(watch[i]) \in WatchRecord
        BY <1>t, WatchTypes DEF StartClock
      <4>2. QED
        BY <2>2, <4>1 DEF KeepsWatching, Sampled
    <3>3. QED
      BY <2>2, <3>1, <3>2 DEF KeepsWatching, Sampled
  <2>3. CASE DecidesToRestart(i)
    <3>1. pass' \in PassRecord
      BY <2>3, PassUpdates DEF DecidesToRestart
    <3>2. watch' \in [Instance -> WatchRecord]
      <4>1. NoteRestart(watch[i]) \in WatchRecord
        BY <1>t, WatchTypes
      <4>2. QED
        BY <2>3, <4>1 DEF DecidesToRestart, Sampled
    <3>3. QED
      BY <2>3, <3>1, <3>2, <1>t DEF DecidesToRestart, Sampled
  <2>4. CASE GivesUp(i)
    <3>1. pass' \in PassRecord
      BY <2>4, PassTypes, PassUpdates DEF GivesUp
    <3>2. watch' \in [Instance -> WatchRecord]
      <4>1. [watch[i] EXCEPT !.alerted = TRUE] \in WatchRecord
        BY <1>t, WatchTypes
      <4>2. QED
        BY <2>4, <4>1 DEF GivesUp, Sampled
    <3>3. QED
      BY <2>4, <3>1, <3>2 DEF GivesUp, Sampled
  <2>5. QED
    BY <1>3, <2>1, <2>2, <2>3, <2>4 DEF Sample
<1>4. CASE StopHalf
  <2>1. pass.tries + 1 \in 0..2
    <3>1. pass.tries \in 0..2
      BY DEF PassRecord
    <3>2. pass.tries < 2
      BY <1>4 DEF StopHalf, Attempts
    <3>3. QED
      BY <3>1, <3>2
  <2>2. [pass EXCEPT !.pc = "failed", !.tries = @ + 1] \in PassRecord
    BY <2>1 DEF PassRecord
  <2>3. [pass EXCEPT !.pc = "starting"] \in PassRecord
    BY DEF PassRecord
  <2>4. pass' \in PassRecord /\ guest' \in [Instance -> Guest]
    BY <1>4, <2>2, <2>3 DEF StopHalf, Guest
  <2>5. QED
    BY <1>4, <2>4 DEF StopHalf
<1>5. CASE StartHalf
  <2>1. pass' \in PassRecord
    BY <1>5 DEF StartHalf, PassRecord
  <2>2. guest' \in [Instance -> Guest]
    BY <1>5 DEF StartHalf, Guest
  <2>3. QED
    BY <1>5, <2>1, <2>2 DEF StartHalf
<1>6. CASE StartHalfFails
  <2>1. pass.tries + 1 \in 0..2
    <3>1. pass.tries \in 0..2
      BY DEF PassRecord
    <3>2. pass.tries < 2
      BY <1>6 DEF StartHalfFails, Attempts
    <3>3. QED
      BY <3>1, <3>2
  <2>2. [pass EXCEPT !.pc = "failed", !.tries = @ + 1] \in PassRecord
    BY <2>1 DEF PassRecord
  <2>3. pass' \in PassRecord
    BY <1>6, <2>2 DEF StartHalfFails
  <2>4. left' \in [interventions : 0..Interventions, glitches : 0..Glitches]
    BY <1>6, Constants DEF StartHalfFails
  <2>5. QED
    BY <1>6, <2>3, <2>4 DEF StartHalfFails
<1>7. CASE Retry
  <2>1. pass' \in PassRecord
    BY <1>7 DEF Retry, PassRecord
  <2>2. QED
    BY <1>7, <2>1 DEF Retry
<1>8. CASE MarkError
  <2>1. pass' \in PassRecord
    BY <1>8, PassTypes, PassUpdates DEF MarkError
  <2>2. row' \in [Instance -> Status]
    BY <1>8 DEF MarkError, WriteStatus, Status
  <2>3. QED
    BY <1>8, <2>1, <2>2 DEF MarkError
<1>9. CASE SyncInstance
  <2>1. pass' \in PassRecord
    BY <1>9, PassTypes, PassUpdates DEF SyncInstance
  <2>2. \A g \in Guest : Reported(g) \in Status
    BY DEF Reported, Guest, Up, Status
  <2>3. row' \in [Instance -> Status]
    BY <1>9, <1>t, <2>2 DEF SyncInstance, WriteStatus
  <2>4. QED
    BY <1>9, <2>1, <2>3 DEF SyncInstance
<1>10. QED
  BY <1>1, <1>2, <1>3, <1>4, <1>5, <1>6, <1>7, <1>8, <1>9 DEF PassStep

\* Users, guests, the reconciler, a restart of the backend and time keep the
\* types as well.
LEMMA TypeKeptByOthers ==
  ASSUME TypeOK, Next, ~PassStep
  PROVE  TypeOK'
<1> USE DEF TypeOK
<1>t. /\ 0 \in 0..StuckFor /\ NewWatch \in WatchRecord
      /\ \A g \in Guest : Reported(g) \in Status
  <2>1. NewWatch \in WatchRecord
    BY Constants DEF NewWatch, WatchRecord
  <2>2. QED
    BY <2>1, Constants DEF Reported, Guest, Up, Status
<1>s. ASSUME Spend
      PROVE  left' \in [interventions : 0..Interventions, glitches : 0..Glitches]
  BY <1>s, Constants DEF Spend
<1>1. ASSUME NEW i \in Instance, Reconcile(i) PROVE TypeOK'
  BY <1>1, <1>t DEF Reconcile
<1>2. ASSUME NEW i \in Instance, UserStart(i) PROVE TypeOK'
  BY <1>2, <1>s, <1>t DEF UserStart, Status, Guest
<1>3. ASSUME NEW i \in Instance, UserStop(i) PROVE TypeOK'
  BY <1>3, <1>s DEF UserStop, Status, Guest
<1>4. ASSUME NEW i \in Instance, UserDelete(i) PROVE TypeOK'
  BY <1>4, <1>s DEF UserDelete, Status, Guest
<1>5. ASSUME NEW i \in Instance, GuestMoves(i) PROVE TypeOK'
  BY <1>5, <1>s DEF GuestMoves, Up, Guest
<1>6. CASE BackendRestarts
  <2>1. NoPass \in PassRecord
    BY PassTypes
  <2>2. watch' \in [Instance -> WatchRecord]
    BY <1>6, <1>t DEF BackendRestarts
  <2>3. QED
    BY <1>6, <1>s, <1>t, <2>1, <2>2 DEF BackendRestarts
<1>7. CASE Tick
  <2>1. watch' \in [Instance -> WatchRecord]
    <3> SUFFICES ASSUME NEW i \in Instance
                 PROVE  [watch[i] EXCEPT !.lowSince = Older(@, StuckFor),
                                         !.lastRestart = Older(@, Cooldown)] \in WatchRecord
      BY <1>7 DEF Tick
    <3>1. /\ watch[i] \in WatchRecord
          /\ Older(watch[i].lowSince, StuckFor) \in 0..NoRun
          /\ Older(watch[i].lastRestart, Cooldown) \in 0..Never
      BY Ages, WatchTypes, Constants
    <3>2. QED
      BY <3>1 DEF WatchRecord
  <2>2. /\ dullFor' \in [Instance -> 0..StuckFor]
        /\ quietFor' \in [Instance -> 0..Cooldown]
    BY <1>7, Ages, Constants DEF Tick
  <2>3. QED
    BY <1>7, <2>1, <2>2 DEF Tick
<1>8. QED
  BY <1>1, <1>2, <1>3, <1>4, <1>5, <1>6, <1>7 DEF Next

\* The restart in hand always has a try left.
LEMMA AttemptsKept ==
  ASSUME TypeOK, Attempts, Next
  PROVE  Attempts'
<1>1. \A p \in PassRecord : NextRow(p).pc \in {"idle", "sampling"}
  BY DEF NextRow, NoPass, PassRecord
<1>2. pass \in PassRecord
  BY DEF TypeOK
<1>3. CASE BeginPass
  <2>1. pass' = NoPass \/ pass'.pc = "sampling"
    BY <1>3 DEF BeginPass, NextRow, NoPass
  <2>2. QED
    BY <2>1 DEF Attempts, NoPass
<1>4. ASSUME NEW i \in Instance, SkipSample(i) PROVE Attempts'
  <2>1. pass'.pc \in {"idle", "sampling"}
    BY <1>1, <1>4, PassUpdates DEF SkipSample
  <2>2. QED
    BY <2>1 DEF Attempts
<1>5. ASSUME NEW i \in Instance, Sample(i) PROVE Attempts'
  <2>1. \/ pass' = NextRow(Taking(i))
        \/ pass' = [Taking(i) EXCEPT !.pc = "stopping"]
        \/ pass' = [Taking(i) EXCEPT !.pc = "giving up"]
    BY <1>5 DEF Sample, SeesGraphics, KeepsWatching, DecidesToRestart, GivesUp
  <2>2. CASE pass' = NextRow(Taking(i))
    <3>1. pass'.pc \in {"idle", "sampling"}
      BY <1>1, <2>2, PassUpdates
    <3>2. QED
      BY <3>1 DEF Attempts
  <2>3. CASE pass' = [Taking(i) EXCEPT !.pc = "stopping"]
    <3>1. pass'.tries = 0
      BY <1>2, <2>3 DEF Taking, PassRecord
    <3>2. QED
      BY <3>1 DEF Attempts
  <2>4. CASE pass' = [Taking(i) EXCEPT !.pc = "giving up"]
    <3>1. pass'.pc = "giving up"
      BY <1>2, <2>4 DEF Taking, PassRecord
    <3>2. QED
      BY <3>1 DEF Attempts
  <2>5. QED
    BY <2>1, <2>2, <2>3, <2>4
<1>6. CASE StopHalf
  BY <1>2, <1>6 DEF StopHalf, Attempts, PassRecord
<1>7. CASE StartHalf \/ StartHalfFails
  BY <1>2, <1>7 DEF StartHalf, StartHalfFails, Attempts, PassRecord
<1>8. CASE Retry
  BY <1>2, <1>8 DEF Retry, Attempts, PassRecord
<1>9. CASE MarkError \/ SyncInstance
  <2>1. pass'.pc \in {"idle", "sampling"}
    BY <1>1, <1>9, PassUpdates DEF MarkError, SyncInstance
  <2>2. QED
    BY <2>1 DEF Attempts
<1>10. CASE BackendRestarts
  BY <1>10 DEF BackendRestarts, NoPass, Attempts
<1>11. ASSUME NEW i \in Instance,
              Reconcile(i) \/ UserStart(i) \/ UserStop(i) \/ UserDelete(i) \/ GuestMoves(i)
       PROVE  Attempts'
  BY <1>11 DEF Reconcile, UserStart, UserStop, UserDelete, GuestMoves, Attempts
<1>12. CASE Tick
  BY <1>12 DEF Tick, Attempts
<1>13. QED
  BY <1>3, <1>4, <1>5, <1>6, <1>7, <1>8, <1>9, <1>10, <1>11, <1>12 DEF Next, PassStep

\* One watch against the history of its guest.
ClockOK(w, d, q) ==
  /\ w.lowSince # NoRun => w.lowSince <= d
  /\ w.lastRestart # Never => q <= w.lastRestart

\* No step lets a watch's clock run ahead of the history.
LEMMA ClocksKept ==
  ASSUME TypeOK, Clocks, Next
  PROVE  Clocks'
<1>1. \A i \in Instance : ClockOK(watch[i], dullFor[i], quietFor[i])
  BY DEF Clocks, ClockOK
<1>2. SUFFICES ASSUME NEW j \in Instance
               PROVE  ClockOK(watch[j], dullFor[j], quietFor[j])'
  BY DEF Clocks, ClockOK
<1>3. /\ watch \in [Instance -> WatchRecord] /\ watch[j] \in WatchRecord
      /\ dullFor \in [Instance -> 0..StuckFor] /\ quietFor \in [Instance -> 0..Cooldown]
  BY DEF TypeOK
<1>4. ClockOK(watch[j], dullFor[j], quietFor[j])
  BY <1>1
<1>5. \A d, q : ClockOK(NewWatch, d, q)
  BY Constants DEF ClockOK, NewWatch
<1>6. CASE BeginPass
  <2>1. \/ watch'[j] = watch[j] /\ dullFor'[j] = dullFor[j]
        \/ watch'[j] = NewWatch
    BY <1>6 DEF BeginPass
  <2>2. quietFor' = quietFor
    BY <1>6 DEF BeginPass
  <2>3. QED
    BY <1>4, <1>5, <2>1, <2>2 DEF ClockOK
<1>7. ASSUME NEW i \in Instance, Sample(i)
      PROVE  ClockOK(watch[j], dullFor[j], quietFor[j])'
  <2>1. CASE i # j
    <3>1. watch'[j] = watch[j] /\ dullFor'[j] = dullFor[j] /\ quietFor'[j] = quietFor[j]
      BY <1>3, <1>7, <2>1
         DEF Sample, SeesGraphics, KeepsWatching, DecidesToRestart, GivesUp, Sampled
    <3>2. QED
      BY <1>4, <3>1 DEF ClockOK
  <2>2. CASE i = j /\ SeesGraphics(i)
    <3>1. watch'[j] = StopClock(watch[j]) /\ quietFor'[j] = quietFor[j]
      BY <1>3, <2>2 DEF SeesGraphics, Sampled
    <3>2. watch'[j].lowSince = NoRun /\ watch'[j].lastRestart = watch[j].lastRestart
      BY <1>3, <3>1 DEF StopClock, WatchRecord
    <3>3. QED
      BY <1>4, <3>1, <3>2 DEF ClockOK
  <2>3. CASE i = j /\ KeepsWatching(i)
    <3>1. /\ watch'[j] = StartClock(watch[j])
          /\ dullFor'[j] = dullFor[j] /\ quietFor'[j] = quietFor[j]
      BY <1>3, <2>3 DEF KeepsWatching, Sampled
    <3>2. /\ watch'[j].lowSince = 0 \/ watch'[j].lowSince = watch[j].lowSince
          /\ watch'[j].lastRestart = watch[j].lastRestart
      BY <1>3, <3>1 DEF StartClock, WatchRecord
    <3>3. 0 <= dullFor[j]
      BY <1>3, Constants
    <3>4. QED
      BY <1>4, <3>1, <3>2, <3>3 DEF ClockOK
  <2>4. CASE i = j /\ DecidesToRestart(i)
    <3>1. watch'[j] = NoteRestart(watch[j]) /\ dullFor'[j] = 0 /\ quietFor'[j] = 0
      BY <1>3, <2>4 DEF DecidesToRestart, Sampled
    <3>2. QED
      BY <3>1 DEF NoteRestart, ClockOK
  <2>5. CASE i = j /\ GivesUp(i)
    <3>1. /\ watch'[j] = [watch[j] EXCEPT !.alerted = TRUE]
          /\ dullFor'[j] = dullFor[j] /\ quietFor'[j] = quietFor[j]
      BY <1>3, <2>5 DEF GivesUp, Sampled
    <3>2. /\ watch'[j].lowSince = watch[j].lowSince
          /\ watch'[j].lastRestart = watch[j].lastRestart
      BY <1>3, <3>1 DEF WatchRecord
    <3>3. QED
      BY <1>4, <3>1, <3>2 DEF ClockOK
  <2>6. QED
    BY <1>7, <2>1, <2>2, <2>3, <2>4, <2>5 DEF Sample
<1>8. CASE BackendRestarts
  <2>1. watch'[j] = NewWatch
    BY <1>8 DEF BackendRestarts
  <2>2. QED
    BY <1>5, <2>1 DEF ClockOK
<1>9. CASE Tick
  <2>1. /\ watch'[j].lowSince = Older(watch[j].lowSince, StuckFor)
        /\ watch'[j].lastRestart = Older(watch[j].lastRestart, Cooldown)
    BY <1>3, <1>9 DEF Tick, WatchRecord
  <2>2. dullFor'[j] = Older(dullFor[j], StuckFor) /\ quietFor'[j] = Older(quietFor[j], Cooldown)
    BY <1>9 DEF Tick
  <2>3. /\ watch[j].lowSince \in 0..NoRun /\ watch[j].lastRestart \in 0..Never
        /\ dullFor[j] \in 0..StuckFor /\ quietFor[j] \in 0..Cooldown
    BY <1>3, WatchTypes
  <2>4. watch'[j].lowSince # NoRun => watch'[j].lowSince <= dullFor'[j]
    BY <1>4, <2>1, <2>2, <2>3, Constants DEF ClockOK, Older
  <2>5. watch'[j].lastRestart # Never => quietFor'[j] <= watch'[j].lastRestart
    BY <1>4, <2>1, <2>2, <2>3, Constants DEF ClockOK, Older
  <2>6. QED
    BY <2>4, <2>5 DEF ClockOK
<1>10. CASE UNCHANGED <<watch, dullFor, quietFor>>
  BY <1>4, <1>10 DEF ClockOK
<1>11. \/ BeginPass
       \/ \E i \in Instance : Sample(i)
       \/ BackendRestarts
       \/ Tick
       \/ UNCHANGED <<watch, dullFor, quietFor>>
  BY DEF Next, PassStep, SkipSample, StopHalf, StartHalf, StartHalfFails, Retry, MarkError,
         SyncInstance, Reconcile, UserStart, UserStop, UserDelete, GuestMoves
<1>12. QED
  BY <1>6, <1>7, <1>8, <1>9, <1>10, <1>11

Inductive == TypeOK /\ Attempts /\ Clocks

\* Every reachable state of the watchdog satisfies the inductive invariant.
THEOREM InductiveInvariant == Spec => []Inductive
<1>1. Init => Inductive
  <2>1. ASSUME Init PROVE TypeOK
    <3>1. NoPass \in PassRecord
      BY PassTypes
    <3>2. QED
      BY <2>1, <3>1, Constants DEF Init, TypeOK, Status, Guest, Up, NewWatch, WatchRecord
  <2>2. ASSUME Init PROVE Attempts
    BY <2>2 DEF Init, Attempts, NoPass
  <2>3. ASSUME Init PROVE Clocks
    BY <2>3, Constants DEF Init, Clocks, NewWatch
  <2>4. QED
    BY <2>1, <2>2, <2>3 DEF Inductive
<1>2. Inductive /\ [Next]_vars => Inductive'
  <2>1. CASE UNCHANGED vars
    BY <2>1 DEF vars, Inductive, TypeOK, Attempts, Clocks
  <2>2. CASE Next
    BY <2>2, TypeKeptByPass, TypeKeptByOthers, AttemptsKept, ClocksKept DEF Inductive
  <2>3. QED
    BY <2>1, <2>2
<1>3. QED
  BY <1>1, <1>2, PTL DEF Spec

\* Every variable has its type.
THEOREM TypeCorrect == Spec => []TypeOK
<1>1. Inductive => TypeOK
  BY DEF Inductive
<1>2. QED
  BY <1>1, InductiveInvariant, PTL

\* A pass that leaves the sampling of rows to restart a guest, or to give it
\* up, has just decided so.
LEMMA DecisionSteps ==
  ASSUME Inductive, [Next]_vars, pass.pc = "sampling", pass'.pc \in {"stopping", "giving up"}
  PROVE  \/ pass'.pc = "stopping" /\ pass'.at \in Instance /\ DecidesToRestart(pass'.at)
         \/ pass'.pc = "giving up" /\ pass'.at \in Instance /\ GivesUp(pass'.at)
<1>1. TypeOK /\ pass \in PassRecord
  BY DEF Inductive, TypeOK
<1>2. \A p \in PassRecord : NextRow(p).pc \in {"idle", "sampling"}
  BY DEF NextRow, NoPass, PassRecord
<1>3. ASSUME NEW i \in Instance, Sample(i) PROVE i = pass'.at /\ (DecidesToRestart(i) \/ GivesUp(i))
  <2>1. pass' # NextRow(Taking(i))
    BY <1>1, <1>2, PassUpdates
  <2>2. DecidesToRestart(i) \/ GivesUp(i)
    BY <1>3, <2>1 DEF Sample, SeesGraphics, KeepsWatching
  <2>3. \/ pass' = [Taking(i) EXCEPT !.pc = "stopping"]
        \/ pass' = [Taking(i) EXCEPT !.pc = "giving up"]
    BY <2>1, <2>2 DEF DecidesToRestart, GivesUp
  <2>4. pass'.at = i
    BY <1>1, <2>3 DEF Taking, PassRecord
  <2>5. QED
    BY <2>2, <2>4
<1>4. ASSUME NEW i \in Instance, SkipSample(i) PROVE FALSE
  BY <1>1, <1>2, <1>4, PassUpdates DEF SkipSample
<1>5. \E i \in Instance : Sample(i)
  <2>1. ~UNCHANGED pass
    OBVIOUS
  <2>2. BackendRestarts => pass'.pc = "idle"
    BY DEF BackendRestarts, NoPass
  <2>3. QED
    BY <1>4, <2>1, <2>2 DEF vars, Next, PassStep, BeginPass, StopHalf, StartHalf, StartHalfFails,
       Retry, MarkError, SyncInstance, Reconcile, UserStart, UserStop, UserDelete, GuestMoves, Tick
<1>6. PICK i \in Instance : Sample(i)
  BY <1>5
<1>7. i = pass'.at /\ (DecidesToRestart(i) \/ GivesUp(i))
  BY <1>3, <1>6
<1>8. DecidesToRestart(i) => pass'.pc = "stopping"
  BY <1>1, PassUpdates DEF DecidesToRestart, PassRecord
<1>9. GivesUp(i) => pass'.pc = "giving up"
  <2>1. ASSUME GivesUp(i) PROVE pass' = [Taking(i) EXCEPT !.pc = "giving up"]
    BY <1>1, <1>2, <2>1, PassUpdates DEF GivesUp
  <2>2. QED
    BY <1>1, <2>1, PassUpdates, ZenonT(60) DEF PassRecord
<1>10. QED
  BY <1>7, <1>8, <1>9

\* A watch that is stuck stands for a guest that has been dull for as long,
\* and one in its cooldown for a restart that is as recent.
LEMMA StuckMeansDull ==
  ASSUME Inductive, NEW i \in Instance, Stuck(watch[i])
  PROVE  /\ dullFor[i] = StuckFor
         /\ InCooldown(watch[i]) => quietFor[i] < Cooldown
<1>1. /\ watch[i].lowSince # NoRun => watch[i].lowSince <= dullFor[i]
      /\ watch[i].lastRestart # Never => quietFor[i] <= watch[i].lastRestart
  BY DEF Inductive, Clocks
<1>2. /\ dullFor[i] \in 0..StuckFor /\ quietFor[i] \in 0..Cooldown
      /\ watch[i] \in WatchRecord
  BY DEF Inductive, TypeOK
<1>3. watch[i].lastRestart \in 0..Never
  BY <1>2, WatchTypes
<1>4. QED
  BY <1>1, <1>2, <1>3, Constants DEF Stuck, InCooldown

\* No guest is restarted that was seen drawing, seen in another state than
\* Running, or restarted by the watchdog within the stuck time.
THEOREM RestartsAreDue == Spec => RestartsNeedAStuckGuest
<1>1. Inductive /\ [Next]_vars => [\A i \in Instance : Restarts(i) => dullFor[i] = StuckFor]_vars
  <2> SUFFICES ASSUME Inductive, [Next]_vars, NEW i \in Instance, Restarts(i)
               PROVE  dullFor[i] = StuckFor
    OBVIOUS
  <2>1. DecidesToRestart(i)
    BY DecisionSteps DEF Restarts
  <2>2. QED
    BY <2>1, StuckMeansDull DEF DecidesToRestart
<1>2. QED
  BY <1>1, InductiveInvariant, PTL DEF Spec, RestartsNeedAStuckGuest

\* No guest is given up on that was not restarted within the cooldown and
\* has not hung for the stuck time since.
THEOREM GivesUpLate == Spec => GivesUpAfterARestart
<1>1. Inductive /\ [Next]_vars =>
        [pass.pc = "sampling" /\ pass'.pc = "giving up"
           => quietFor[pass'.at] < Cooldown /\ dullFor[pass'.at] = StuckFor]_vars
  <2> SUFFICES ASSUME Inductive, [Next]_vars, pass.pc = "sampling", pass'.pc = "giving up"
               PROVE  quietFor[pass'.at] < Cooldown /\ dullFor[pass'.at] = StuckFor
    OBVIOUS
  <2>1. pass'.at \in Instance /\ GivesUp(pass'.at)
    BY DecisionSteps
  <2>2. QED
    BY <2>1, StuckMeansDull DEF GivesUp
<1>2. QED
  BY <1>1, InductiveInvariant, PTL DEF Spec, GivesUpAfterARestart
=============================================================================
