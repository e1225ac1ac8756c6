--------------------------- MODULE RebootWatchdog ---------------------------
(***************************************************************************)
(* The watchdog over Windows guests that hang after a reboot.  A pass      *)
(* samples the framebuffer of every running guest, feeds it to that        *)
(* guest's InstanceWatch and restarts the QEMU process, or marks the row   *)
(* Error, as the watch decides.  Users, the reconciler and the guests go   *)
(* on while a pass is under way.                                           *)
(*                                                                         *)
(* Time is kept as ages that stop growing where the code stops telling     *)
(* them apart: a watch compares with `stuck_seconds' and                   *)
(* `cooldown_seconds' only.                                                *)
(***************************************************************************)
EXTENDS Naturals, FiniteSets

CONSTANTS
  Instance,      \* Windows guests on the QEMU engine
  StuckFor,      \* windows_reboot_watchdog_stuck_seconds, in ticks
  Cooldown,      \* windows_reboot_watchdog_cooldown_seconds, in ticks
  Interventions, \* bound: what users do to the guests
  Glitches       \* bound: samples and restarts that fail

ASSUME WatchdogAssumption ==
  /\ StuckFor \in Nat \ {0}
  /\ Cooldown \in Nat \ {0}
  /\ Instance # {}
  /\ Interventions \in Nat
  /\ Glitches \in Nat

VARIABLES
  row,      \* status column of each instance
  guest,    \* what the VM is: gone, off, in text mode or drawing graphics
  watch,    \* WatchdogRegistry: the watch of each instance, if there is one
  pass,     \* the watchdog pass under way
  dullFor,  \* history: time without a reason to believe the guest is well
  quietFor, \* history: time since the last automatic restart
  left      \* interventions and glitches left

vars == <<row, guest, watch, pass, dullFor, quietFor, left>>

-----------------------------------------------------------------------------
Status == {"Running", "Stopped", "Error", "Terminated"}
Guest  == {"gone", "off", "text", "drawing"}
Up     == {"text", "drawing"}

\* None, for a time that is not set: past every limit, and it stays there.
Older(age, limit) == IF age < limit THEN age + 1 ELSE age
NoRun == StuckFor + 1
Never == Cooldown + 1

WatchRecord == [lowSince : 0..NoRun, lastRestart : 0..Never, alerted : BOOLEAN]

\* What get() makes of an instance that is not tracked.
NewWatch == [lowSince |-> NoRun, lastRestart |-> Never, alerted |-> FALSE]

AnyInstance == CHOOSE i \in Instance : TRUE

PassRecord ==
  [pc     : {"idle", "sampling", "stopping", "starting", "failed", "restarted",
             "giving up"},
   todo   : SUBSET Instance,                       \* rows still to sample
   at     : Instance,                              \* the row in hand
   loaded : [Instance -> Status \union {"expired"}], \* as the session holds it
   tries  : 0..2]

\* A commit expires what the session holds: the next access reads it again.
Expired == [i \in Instance |-> "expired"]

NoPass == [pc |-> "idle", todo |-> {}, at |-> AnyInstance, loaded |-> Expired,
           tries |-> 0]

-----------------------------------------------------------------------------
(***************************************************************************)
(* InstanceWatch.advance: the watch after one sample, and what to do       *)
(***************************************************************************)

\* Mutant: a graphical frame leaves the clock running.
KeepClock(w) == w

\* A graphical frame ends the run of low ones.
StopClock(w) == [w EXCEPT !.lowSince = NoRun]

\* Mutant: one restart and never another.
EverRestarted(w) == w.lastRestart # Never

InCooldown(w) == w.lastRestart < Cooldown

\* Mutant: the run of low frames goes on across the restart.
NoteRestartOnly(w) == [w EXCEPT !.lastRestart = 0, !.alerted = FALSE]

NoteRestart(w) == [lowSince |-> 0, lastRestart |-> 0, alerted |-> FALSE]

\* A low frame starts the clock, unless it runs.
StartClock(w) == IF w.lowSince = NoRun THEN [w EXCEPT !.lowSince = 0] ELSE w

\* Low for as long as stuck_seconds.
Stuck(w) == w.lowSince = StuckFor

-----------------------------------------------------------------------------
(***************************************************************************)
(* The pass: windows_reboot_watchdog_pass                                  *)
(***************************************************************************)

\* An UPDATE of the status column alone, left out when nothing differs.
WriteStatus(i, st) ==
  row' = IF pass.loaded[i] = st THEN row ELSE [row EXCEPT ![i] = st]

\* The row in hand is done with; the pass ends with its last row.
NextRow(p) == IF p.todo = {} THEN NoPass ELSE [p EXCEPT !.pc = "sampling"]

\* Select the running guests, drop the watches of all the others.
BeginPass ==
  LET running == {i \in Instance : row[i] = "Running"} IN
  /\ pass.pc = "idle"
  /\ pass' = NextRow([NoPass EXCEPT !.todo = running,
                      !.loaded = [i \in Instance |->
                                    IF i \in running THEN "Running" ELSE "expired"]])
  /\ watch' = [i \in Instance |-> IF i \in running THEN watch[i] ELSE NewWatch]
  /\ dullFor' = [i \in Instance |-> IF i \in running THEN dullFor[i] ELSE 0]
  /\ UNCHANGED <<row, guest, quietFor, left>>

\* No monitor to ask, or a busy one: the sample is skipped.
SkipSample(i) ==
  /\ pass.pc = "sampling" /\ i \in pass.todo
  /\ \/ guest[i] \notin Up /\ UNCHANGED left
     \/ guest[i] \in Up /\ left.glitches > 0 /\ left' = [left EXCEPT !.glitches = @ - 1]
  /\ pass' = NextRow([pass EXCEPT !.todo = @ \ {i}])
  /\ UNCHANGED <<row, guest, watch, dullFor, quietFor>>

\* The row in hand is i; its watch becomes w.
Sampled(i, w) ==
  /\ pass.pc = "sampling" /\ i \in pass.todo
  /\ watch' = [watch EXCEPT ![i] = w]
  /\ UNCHANGED <<row, guest, left>>

\* The pass once i is sampled, and loaded again if a commit expired it.
Taking(i) ==
  [pass EXCEPT !.todo = @ \ {i}, !.at = i, !.tries = 0,
     !.loaded[i] = IF @ = "expired" THEN row[i] ELSE @]

SeesGraphics(i) ==
  /\ guest[i] = "drawing"
  /\ Sampled(i, StopClock(watch[i]))
  /\ pass' = NextRow(Taking(i))
  /\ dullFor' = [dullFor EXCEPT ![i] = 0]
  /\ UNCHANGED quietFor

\* Low, and not for long enough.
KeepsWatching(i) ==
  /\ guest[i] = "text" /\ ~Stuck(watch[i])
  /\ Sampled(i, StartClock(watch[i]))
  /\ pass' = NextRow(Taking(i))
  /\ UNCHANGED <<dullFor, quietFor>>

DecidesToRestart(i) ==
  /\ guest[i] = "text" /\ Stuck(watch[i]) /\ ~InCooldown(watch[i])
  /\ Sampled(i, NoteRestart(watch[i]))
  /\ pass' = [Taking(i) EXCEPT !.pc = "stopping"]
  /\ dullFor' = [dullFor EXCEPT ![i] = 0]
  /\ quietFor' = [quietFor EXCEPT ![i] = 0]

\* Stuck again within the cooldown: one alert, then silence.
GivesUp(i) ==
  /\ guest[i] = "text" /\ Stuck(watch[i]) /\ InCooldown(watch[i])
  /\ Sampled(i, [watch[i] EXCEPT !.alerted = TRUE])
  /\ pass' = IF watch[i].alerted THEN NextRow(Taking(i))
             ELSE [Taking(i) EXCEPT !.pc = "giving up"]
  /\ UNCHANGED <<dullFor, quietFor>>

\* InstanceWatch.advance, called with the frame of i, and what follows it.
Sample(i) ==
  \/ SeesGraphics(i)
  \/ KeepsWatching(i)
  \/ DecidesToRestart(i)
  \/ GivesUp(i)

\* restart_instance is stop_instance, then start_instance.
StopHalf ==
  LET i == pass.at IN
  /\ pass.pc = "stopping"
  /\ IF guest[i] = "gone"
     THEN /\ pass' = [pass EXCEPT !.pc = "failed", !.tries = @ + 1]
          /\ UNCHANGED guest
     ELSE /\ pass' = [pass EXCEPT !.pc = "starting"]
          /\ guest' = [guest EXCEPT ![i] = "off"]
  /\ UNCHANGED <<row, watch, dullFor, quietFor, left>>

\* A guest boots into text mode.  One that runs already is left alone.
StartHalf ==
  LET i == pass.at IN
  /\ pass.pc = "starting"
  /\ guest[i] # "gone"
  /\ guest' = [guest EXCEPT ![i] = IF @ = "off" THEN "text" ELSE @]
  /\ pass' = [pass EXCEPT !.pc = "restarted"]
  /\ UNCHANGED <<row, watch, dullFor, quietFor, left>>

\* A port still in use, a process that cannot be spawned, no directory left.
StartHalfFails ==
  LET i == pass.at IN
  /\ pass.pc = "starting"
  /\ \/ guest[i] = "gone" /\ UNCHANGED left
     \/ guest[i] = "off" /\ left.glitches > 0 /\ left' = [left EXCEPT !.glitches = @ - 1]
  /\ pass' = [pass EXCEPT !.pc = "failed", !.tries = @ + 1]
  /\ UNCHANGED <<row, guest, watch, dullFor, quietFor>>

\* Mutant: the attempts are not counted.
RetryForEver ==
  /\ pass.pc = "failed"
  /\ pass' = [pass EXCEPT !.pc = "stopping"]
  /\ UNCHANGED <<row, guest, watch, dullFor, quietFor, left>>

\* _restart_with_retry: a HypervisorUnavailableError is a ComputeEngineError
\* and is retried like any other.
Retry ==
  /\ pass.pc = "failed" /\ pass.tries < 2
  /\ pass' = [pass EXCEPT !.pc = "stopping"]
  /\ UNCHANGED <<row, guest, watch, dullFor, quietFor, left>>

\* Both tries failed, or stuck again within the cooldown: _mark_error.
MarkError ==
  /\ \/ pass.pc = "failed" /\ pass.tries = 2
     \/ pass.pc = "giving up"
  /\ WriteStatus(pass.at, "Error")
  /\ pass' = NextRow([pass EXCEPT !.loaded = Expired])
  /\ UNCHANGED <<guest, watch, dullFor, quietFor, left>>

Reported(g) == CASE g = "gone" -> "Error" [] g = "off" -> "Stopped" [] g \in Up -> "Running"

SyncInstance ==
  /\ pass.pc = "restarted"
  /\ WriteStatus(pass.at, Reported(guest[pass.at]))
  /\ pass' = NextRow([pass EXCEPT !.loaded = Expired])
  /\ UNCHANGED <<guest, watch, dullFor, quietFor, left>>

PassStep ==
  \/ BeginPass
  \/ \E i \in Instance : SkipSample(i) \/ Sample(i)
  \/ StopHalf
  \/ StartHalf
  \/ StartHalfFails
  \/ Retry
  \/ MarkError
  \/ SyncInstance

-----------------------------------------------------------------------------
(***************************************************************************)
(* Everything else                                                         *)
(***************************************************************************)

\* The reconciler corrects a row nobody has claimed; the watchdog claims the
\* row it restarts, and not the row it gives up on.
Reconcile(i) ==
  /\ ~(pass.at = i /\ pass.pc \in {"stopping", "starting", "failed", "restarted"})
  /\ row[i] # "Terminated"
  /\ row[i] # Reported(guest[i])
  /\ row' = [row EXCEPT ![i] = Reported(guest[i])]
  /\ UNCHANGED <<guest, watch, pass, dullFor, quietFor, left>>

Spend == left.interventions > 0 /\ left' = [left EXCEPT !.interventions = @ - 1]

\* The start, stop and delete routes.
UserStart(i) ==
  /\ Spend
  /\ row[i] = "Stopped" /\ guest[i] = "off"
  /\ row' = [row EXCEPT ![i] = "Running"]
  /\ guest' = [guest EXCEPT ![i] = "text"]
  /\ UNCHANGED <<watch, pass, dullFor, quietFor>>

UserStop(i) ==
  /\ Spend
  /\ row[i] = "Running" /\ guest[i] # "gone"
  /\ row' = [row EXCEPT ![i] = "Stopped"]
  /\ guest' = [guest EXCEPT ![i] = "off"]
  /\ UNCHANGED <<watch, pass, dullFor, quietFor>>

UserDelete(i) ==
  /\ Spend
  /\ row[i] # "Terminated"
  /\ row' = [row EXCEPT ![i] = "Terminated"]
  /\ guest' = [guest EXCEPT ![i] = "gone"]
  /\ UNCHANGED <<watch, pass, dullFor, quietFor>>

\* A guest reaches its desktop, reboots into text mode, powers off.
GuestMoves(i) ==
  /\ Spend
  /\ guest[i] \in Up
  /\ \E g \in (Up \union {"off"}) \ {guest[i]} : guest' = [guest EXCEPT ![i] = g]
  /\ UNCHANGED <<row, watch, pass, dullFor, quietFor>>

\* The backend is restarted: watches and the pass are forgotten.
BackendRestarts ==
  /\ Spend
  /\ watch' = [i \in Instance |-> NewWatch]
  /\ pass' = NoPass
  /\ dullFor' = [i \in Instance |-> 0]
  /\ UNCHANGED <<row, guest, quietFor>>

Tick ==
  /\ watch' = [i \in Instance |->
       [watch[i] EXCEPT !.lowSince = Older(@, StuckFor), !.lastRestart = Older(@, Cooldown)]]
  /\ dullFor' = [i \in Instance |-> Older(dullFor[i], StuckFor)]
  /\ quietFor' = [i \in Instance |-> Older(quietFor[i], Cooldown)]
  /\ UNCHANGED <<row, guest, pass, left>>

-----------------------------------------------------------------------------
Init ==
  /\ row = [i \in Instance |-> "Running"]
  /\ guest \in [Instance -> Up]
  /\ watch = [i \in Instance |-> NewWatch]
  /\ pass = NoPass
  /\ dullFor = [i \in Instance |-> 0]
  /\ quietFor = [i \in Instance |-> Cooldown]
  /\ left = [interventions |-> Interventions, glitches |-> Glitches]

Next ==
  \/ PassStep
  \/ \E i \in Instance : Reconcile(i)
  \/ \E i \in Instance : UserStart(i) \/ UserStop(i) \/ UserDelete(i) \/ GuestMoves(i)
  \/ BackendRestarts
  \/ Tick

Spec == Init /\ [][Next]_vars

\* The watchdog loop and the reconcile loop never end, and time goes on.
Fairness ==
  /\ WF_vars(PassStep)
  /\ \A i \in Instance : WF_vars(Sample(i)) /\ WF_vars(Reconcile(i))
  /\ WF_vars(Tick)

FairSpec == Spec /\ Fairness

-----------------------------------------------------------------------------
(***************************************************************************)
(* Properties                                                              *)
(***************************************************************************)

\* Every variable has its type.
TypeOK ==
  /\ row \in [Instance -> Status]
  /\ guest \in [Instance -> Guest]
  /\ watch \in [Instance -> WatchRecord]
  /\ pass \in PassRecord
  /\ dullFor \in [Instance -> 0..StuckFor]
  /\ quietFor \in [Instance -> 0..Cooldown]
  /\ left \in [interventions : 0..Interventions, glitches : 0..Glitches]

\* This step decides to restart i.
Restarts(i) == pass.pc = "sampling" /\ pass'.pc = "stopping" /\ pass'.at = i

\* A guest is restarted only when, for the whole of the stuck time, it was
\* never seen drawing, never seen in another state than Running, and not
\* restarted by the watchdog.
RestartsNeedAStuckGuest ==
  [][\A i \in Instance : Restarts(i) => dullFor[i] = StuckFor]_vars

\* At most one automatic restart per cooldown window.
AtMostOnePerCooldown ==
  [][\A i \in Instance : Restarts(i) => quietFor[i] = Cooldown]_vars

\* A guest is given up on, and its row marked Error, only after a restart
\* within the cooldown was tried and the guest hung again for the stuck time.
GivesUpAfterARestart ==
  [][pass.pc = "sampling" /\ pass'.pc = "giving up"
     => /\ quietFor[pass'.at] < Cooldown
        /\ dullFor[pass'.at] = StuckFor]_vars

\* A guest that hangs in text mode and goes on being Running does not stay
\* so: it is restarted, or it leaves that state by itself.
HungGuestIsRestarted ==
  \A i \in Instance :
    (guest[i] = "text" /\ row[i] = "Running")
      ~> (guest[i] # "text" \/ row[i] # "Running")

-----------------------------------------------------------------------------
\* The inductive invariant: a restart in hand has a try left, and no watch's
\* clock runs ahead of the history.
Attempts == pass.pc \in {"stopping", "starting"} => pass.tries < 2

Clocks ==
  \A i \in Instance :
    /\ watch[i].lowSince # NoRun => watch[i].lowSince <= dullFor[i]
    /\ watch[i].lastRestart # Never => quietFor[i] <= watch[i].lastRestart

=============================================================================
