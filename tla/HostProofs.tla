----------------------------- MODULE HostProofs -----------------------------
(***************************************************************************)
(* Proofs about Driver, and about Driver and Launches side by side, for    *)
(* every value of their constants.                                         *)
(*                                                                         *)
(* Nothing holds a lock over a name: a call works on a copy of the runtime *)
(* file that it read some steps ago.  What makes that work is that a name  *)
(* in good order (neither raced nor astray) has at most one call at work   *)
(* on it.  DriverInductive says what such a call knows of its name at each *)
(* of its steps (Keeps), what holds of the name meanwhile (Good), and what *)
(* keeps names apart: the ports of processes, of runtime files, and of     *)
(* threads that have picked one (PickedApart).                             *)
(***************************************************************************)
EXTENDS MCHost, LaunchesProofs, WellFoundedInduction, TLAPS

\* A call is where its operation can be, and works on names of rows.
Shaped(c) ==
  /\ c.pc = "idle" => c = NoRequest
  /\ c.pc # "idle" => c.n \in Name /\ c.from \in Name /\ (c.op = "clone" <=> c.from # c.n)
  /\ c.pc = "building" => c.op = "launch"
  /\ c.pc \in {"allocating", "pinning"} => c.op \in {"launch", "clone"}
  /\ c.pc \in {"spawning", "spawned", "waiting"} => c.op \in {"launch", "clone", "start"}
  /\ c.pc = "reading" => c.op \in {"start", "stop", "restart", "forward", "unforward"}
  /\ c.pc = "halting" => c.op \in {"launch", "stop", "restart"}
  /\ c.pc \in {"destroying", "removing"} => c.op = "delete"
  /\ c.pc \in {"checking", "copying"} => c.op = "clone"
  /\ c.pc \in {"applying", "writing", "filing"} => c.op \in {"forward", "unforward"}
  /\ c.pc = "pinning" => c.run.port \in Port /\ c.run.pid = NoPid /\ c.run.fwd = {}

\* Calls that share a name have raced on all their names, and so have
\* threads that have picked a port and not yet written it down.
Apart ==
  /\ \A q, k \in Thread, n \in Name :
       q # k /\ WorksOn(q, n) /\ WorksOn(k, n) => NamesOf(call[q]) \subseteq raced
  /\ \A q, k \in Thread : q # k /\ At(q, "pinning") /\ At(k, "pinning") => call[q].n \in raced

\* No port is bound twice.
BoundOnce == \A p, r \in Pid :
  p # r /\ proc[p].port # NoPort => proc[p].port # proc[r].port

\* The forwards as the call changes them.
By(c, fwd) == IF c.op = "forward" THEN fwd \union c.f ELSE fwd \ c.f

\* What the thread q, at work on n, knows of n.
Keeps(q, n) == LET c == call[q]  d == dir[n] IN
  /\ c.pc \in {"building", "checking"} => d = NoDirectory
  /\ c.pc \in {"allocating", "pinning", "copying"} => d.made /\ ~HasRuntime(n)
  /\ c.pc \in {"allocating", "pinning"} => d.disk = "whole"
  /\ c.pc = "copying" => d.disk = "part"
  /\ c.pc \in {"spawning", "waiting", "halting", "applying", "writing"} =>
       HasRuntime(n) /\ c.run = d.run
  /\ c.pc = "spawned" =>
       /\ HasRuntime(n) /\ c.run.pid \in Pid
       /\ c.run.port = d.run.port /\ c.run.fwd = d.run.fwd
       /\ Guests(n) \subseteq {c.run.pid}
  /\ c.pc \in {"spawning", "removing"} => Guests(n) = {}
  /\ c.pc = "writing" => \A p \in Guests(n) : proc[p].fwd = By(c, d.run.fwd)
  /\ c.pc = "filing" => d.run.fwd = By(c, filed[n])

\* A name in good order.
Good(n) ==
  /\ standing[n] = "none" => dir[n] = NoDirectory /\ filed[n] = {} /\ Idle(n)
  /\ HasRuntime(n) => dir[n].made /\ dir[n].disk = "whole" /\ dir[n].run.port \in Port
  /\ \A p \in Guests(n) :
       /\ HasRuntime(n) /\ proc[p].port = dir[n].run.port
       /\ \/ dir[n].run.pid = p
          \/ \E q \in Thread : At(q, "spawned") /\ call[q].n = n /\ call[q].run.pid = p
       /\ \/ proc[p].fwd = dir[n].run.fwd
          \/ \E q \in Thread :
               At(q, "writing") /\ call[q].n = n /\ proc[p].fwd = By(call[q], dir[n].run.fwd)
  /\ \/ filed[n] = dir[n].run.fwd
     \/ \E q \in Thread : At(q, "filing") /\ call[q].n = n /\ dir[n].run.fwd = By(call[q], filed[n])
  /\ \A q \in Thread : call[q].n = n => Keeps(q, n)

\* The port a thread has picked is on no other name's record.
PickedApart == \A q \in Thread, m \in Quiet :
  At(q, "pinning") /\ call[q].n \in Quiet \ {m} /\ HasRuntime(m) =>
    dir[m].run.port # call[q].run.port

DriverInductive ==
  /\ DriverTypeOK /\ \A q \in Thread : Shaped(call[q])
  /\ Apart /\ BoundOnce /\ PortsOnce /\ PickedApart
  /\ \A n \in Quiet : Good(n)

-----------------------------------------------------------------------------
(***************************************************************************)
(* A name in good order has one call at work on it.                        *)
(***************************************************************************)

LEMMA Constants ==
  /\ NoPort \notin Port /\ NoPort \notin Public /\ Port \intersect Public = {}
  /\ NoPid \notin Pid /\ Nobody \notin Name
BY DriverAssumption DEF NoPort

LEMMA Empties ==
  /\ NoRuntime \in Runtime /\ NoDirectory \in Directory /\ NoRequest \in CallRecord
  /\ Shaped(NoRequest) /\ Free \in Process
BY DEF NoRuntime, Runtime, NoDirectory, Directory, NoRequest, CallRecord, Shaped, Free, Process

LEMMA Sole ==
  ASSUME DriverInductive, NEW n \in Name \ raced, NEW q \in Thread, NEW k \in Thread,
         WorksOn(q, n), WorksOn(k, n)
  PROVE  q = k
BY DEF DriverInductive, Apart, WorksOn, NamesOf

\* The picture of a name when q is the one that may be at work on it.
Sound(n, q) ==
  /\ standing[n] = "none" => dir[n] = NoDirectory /\ filed[n] = {} /\ call[q].pc = "idle"
  /\ HasRuntime(n) => dir[n].made /\ dir[n].disk = "whole" /\ dir[n].run.port \in Port
  /\ \A p \in Guests(n) :
       /\ HasRuntime(n) /\ proc[p].port = dir[n].run.port
       /\ dir[n].run.pid = p \/ (At(q, "spawned") /\ call[q].run.pid = p)
       /\ \/ proc[p].fwd = dir[n].run.fwd
          \/ At(q, "writing") /\ proc[p].fwd = By(call[q], dir[n].run.fwd)
  /\ \/ filed[n] = dir[n].run.fwd
     \/ At(q, "filing") /\ dir[n].run.fwd = By(call[q], filed[n])
  /\ call[q].n = n => Keeps(q, n)

\* Nobody but q.
Alone(n, q) == \A k \in Thread \ {q} : ~WorksOn(k, n) /\ call[k].n # n

LEMMA SoundIn ==
  ASSUME DriverInductive, NEW n \in Quiet, NEW q \in Thread, call[q].n = n
  PROVE  Sound(n, q) /\ Alone(n, q) /\ call[q].pc # "idle" /\ standing[n] # "none"
<1>1. n \in Name \ raced /\ Good(n) /\ \A k \in Thread : Shaped(call[k])
  BY DEF DriverInductive, Quiet
<1>2. \A k \in Thread : call[k].n = n => call[k].pc # "idle" /\ WorksOn(k, n)
  BY <1>1, Constants DEF Shaped, NoRequest, WorksOn
<1>3. Alone(n, q)
  BY <1>1, <1>2, Sole DEF Alone
<1>4. ~Idle(n)
  BY <1>2 DEF Idle
<1>5. \A k \in Thread : call[k].n = n => k = q
  BY <1>3 DEF Alone
<1>6. Sound(n, q)
  BY <1>1, <1>4, <1>5 DEF Good, Sound
<1>7. standing[n] # "none"
  BY <1>1, <1>4 DEF Good
<1> QED  BY <1>2, <1>3, <1>6, <1>7

LEMMA SoundOut ==
  ASSUME NEW n \in Name, NEW q \in Thread, Sound(n, q)', Alone(n, q)', call[q].n' = n \/ call[q]' = NoRequest
  PROVE  Good(n)'
<1>1. call'[q].n = n \/ call'[q] = NoRequest
  OBVIOUS
<1>2. call'[q].pc \in {"spawned", "writing", "filing"} => call'[q].n = n
  BY <1>1 DEF NoRequest
<1>3. standing'[n] = "none" => dir'[n] = NoDirectory /\ filed'[n] = {} /\ Idle(n)'
  BY DEF Sound, Alone, Idle, WorksOn
<1>4. \A k \in Thread : call'[k].n = n => Keeps(k, n)'
  BY DEF Sound, Alone
<1>5. \A p \in Guests(n)' :
       /\ HasRuntime(n)' /\ proc'[p].port = dir'[n].run.port
       /\ \/ dir'[n].run.pid = p
          \/ \E k \in Thread : At(k, "spawned")' /\ call'[k].n = n /\ call'[k].run.pid = p
       /\ \/ proc'[p].fwd = dir'[n].run.fwd
          \/ \E k \in Thread :
               At(k, "writing")' /\ call'[k].n = n /\ proc'[p].fwd = By(call[k], dir[n].run.fwd)'
  BY <1>2 DEF Sound, At
<1>6. \/ filed'[n] = dir'[n].run.fwd
      \/ \E k \in Thread : At(k, "filing")' /\ call'[k].n = n /\ dir'[n].run.fwd = By(call[k], filed[n])'
  BY <1>2 DEF Sound, At
<1>7. HasRuntime(n)' => dir'[n].made /\ dir'[n].disk = "whole" /\ dir'[n].run.port \in Port
  BY DEF Sound
<1> QED  BY <1>3, <1>4, <1>5, <1>6, <1>7 DEF Good

\* A name that a step leaves alone, but for guests that go, calls that go
\* or read it, and the status.
LEMMA Bystander ==
  ASSUME NEW m \in Name, Good(m),
         dir'[m] = dir[m], standing'[m] = "none" => standing[m] = "none", filed'[m] = filed[m],
         \A p \in Pid : proc'[p].of = m /\ proc'[p].port # NoPort => proc'[p] = proc[p],
         \A k \in Thread : /\ WorksOn(k, m)' => WorksOn(k, m) \/ standing'[m] # "none"
                           /\ call'[k].n = m \/ call[k].n = m => call'[k] = call[k]
  PROVE  Good(m)'
<1>1. Guests(m)' \subseteq Guests(m) /\ \A p \in Guests(m)' : proc'[p] = proc[p]
  BY DEF Guests, HoldsDisk
<1>2. HasRuntime(m)' = HasRuntime(m)
  BY DEF HasRuntime
<1>3. standing'[m] = "none" => dir'[m] = NoDirectory /\ filed'[m] = {} /\ Idle(m)'
  BY DEF Good, Idle
<1>4. \A k \in Thread : call'[k].n = m => Keeps(k, m)'
  <2> SUFFICES ASSUME NEW k \in Thread, call'[k].n = m  PROVE  Keeps(k, m)'
    OBVIOUS
  <2>1. call'[k] = call[k] /\ Keeps(k, m)
    BY DEF Good
  <2> QED  BY <1>1, <1>2, <2>1 DEF Keeps
<1>5. \A p \in Guests(m)' :
       /\ HasRuntime(m)' /\ proc'[p].port = dir'[m].run.port
       /\ \/ dir'[m].run.pid = p
          \/ \E k \in Thread : At(k, "spawned")' /\ call'[k].n = m /\ call'[k].run.pid = p
       /\ \/ proc'[p].fwd = dir'[m].run.fwd
          \/ \E k \in Thread :
               At(k, "writing")' /\ call'[k].n = m /\ proc'[p].fwd = By(call[k], dir[m].run.fwd)'
  BY <1>1, <1>2 DEF Good, At
<1>6. \/ filed'[m] = dir'[m].run.fwd
      \/ \E k \in Thread : At(k, "filing")' /\ call'[k].n = m /\ dir'[m].run.fwd = By(call[k], filed[m])'
  BY DEF Good, At
<1>7. HasRuntime(m)' => dir'[m].made /\ dir'[m].disk = "whole" /\ dir'[m].run.port \in Port
  BY <1>2 DEF Good
<1> QED  BY <1>3, <1>4, <1>5, <1>6, <1>7 DEF Good

-----------------------------------------------------------------------------
(***************************************************************************)
(* How a thread's step moves: its call, its name, and what it may do to    *)
(* others.                                                                 *)
(***************************************************************************)

\* The name n has the runtime file's port that it had.
PortKept(n) == HasRuntime(n)' => HasRuntime(n) /\ dir'[n].run.port = dir[n].run.port

\* The port it now has on file is on no other name in good order, nor has
\* a thread picked it.
PortNew(n, q) ==
  /\ \A m \in Quiet \ {n} : HasRuntime(m) => dir[m].run.port # dir'[n].run.port
  /\ \A k \in Thread \ {q} : ~At(k, "pinning")

\* What is said of a call that has just picked a port.
PickedNew(n, q, c) ==
  c.pc = "pinning" =>
    /\ \A k \in Thread \ {q} : At(k, "pinning") => n \in raced' /\ call[k].n \in raced'
    /\ \A m \in Quiet \ {n} : HasRuntime(m) => dir[m].run.port # c.run.port

LEMMA ThreadMoves ==
  ASSUME DriverInductive, NEW q \in Thread, NEW n \in Name, call[q].n = n,
         NEW c \in CallRecord, Shaped(c), call' = [call EXCEPT ![q] = c],
         c.pc = "idle" \/ (c.n = n /\ c.from \in NamesOf(call[q])),
         dir' \in [Name -> Directory], \A m \in Quiet' \ {n} : dir'[m] = dir[m],
         standing' \in [Name -> Status], \A m \in Name \ {n} : standing'[m] = standing[m],
         filed' \in [Name -> SUBSET Public], \A m \in Name \ {n} : filed'[m] = filed[m],
         proc' \in [Pid -> Process], BoundOnce', taken' \subseteq Port \union Public,
         \A m \in Quiet' \ {n}, p \in Pid :
           proc'[p].of = m /\ proc'[p].port # NoPort => proc'[p] = proc[p],
         raced' \subseteq Name, astray' \subseteq Name,
         raced \ {n} \subseteq raced', astray \ {n} \subseteq astray',
         n \in raced /\ n \notin raced' => Alone(n, q) /\ c.pc = "idle",
         n \in Quiet' => (n \in Quiet \/ Alone(n, q)) /\ Sound(n, q)',
         n \in Quiet' => (n \in Quiet /\ PortKept(n)) \/ ~HasRuntime(n)' \/ PortNew(n, q),
         PickedNew(n, q, c),
         budget' \in [calls : 0..MaxCalls, faults : 0..MaxFaults]
  PROVE  DriverInductive'
<1> USE DEF DriverInductive
<1>1. call' \in [Thread -> CallRecord]
  BY DEF DriverTypeOK
<1>2. call'[q] = c /\ \A k \in Thread \ {q} : call'[k] = call[k]
  BY DEF DriverTypeOK
<1>3. DriverTypeOK'
  BY <1>1 DEF DriverTypeOK
<1>4. \A k \in Thread : Shaped(call[k])'
  BY <1>2 DEF Shaped
<1>5. call[q].pc # "idle"
  BY Constants DEF Shaped, NoRequest
<1>6. /\ NamesOf(call[q])' \subseteq NamesOf(call[q]) \/ c.pc = "idle"
      /\ \A m \in Name : WorksOn(q, m)' => WorksOn(q, m)
  BY <1>2, <1>5 DEF NamesOf, WorksOn
<1>7. \A k \in Thread \ {q}, m \in Name : WorksOn(k, m)' <=> WorksOn(k, m)
  BY <1>2 DEF WorksOn
<1>8. Apart'
  <2>1. ASSUME NEW j \in Thread, NEW k \in Thread, NEW m \in Name, j # k,
               WorksOn(j, m)', WorksOn(k, m)'
        PROVE  NamesOf(call[j])' \subseteq raced'
    <3>1. WorksOn(j, m) /\ WorksOn(k, m)
      BY <1>6, <1>7, <2>1
    <3>2. NamesOf(call[j]) \subseteq raced /\ NamesOf(call[k]) \subseteq raced
      BY <2>1, <3>1 DEF Apart
    <3>3. NamesOf(call[j])' \subseteq NamesOf(call[j])
      BY <1>2, <1>6, <2>1 DEF NamesOf, WorksOn
    <3>4. CASE n \in raced'
      BY <3>2, <3>3, <3>4
    <3>5. CASE n \notin raced'
      <4>1. n \in raced => c.pc = "idle" /\ j # q /\ Alone(n, q)
        BY <1>2, <2>1, <3>5 DEF WorksOn
      <4>2. n \notin NamesOf(call[j])
        BY <2>1, <3>1, <3>2, <4>1 DEF NamesOf, WorksOn, Alone
      <4> QED  BY <3>2, <3>3, <4>2
    <3> QED  BY <3>4, <3>5
  <2>2. ASSUME NEW j \in Thread, NEW k \in Thread, j # k, At(j, "pinning")', At(k, "pinning")'
        PROVE  call'[j].n \in raced'
    <3>1. CASE j # q /\ k # q
      <4>1. call[j].n \in raced
        BY <1>2, <2>2, <3>1 DEF Apart, At
      <4>2. call[j].n # n \/ n \in raced'
        <5>1. call[j].n = n => ~Alone(n, q)
          BY <3>1 DEF Alone
        <5> QED  BY <4>1, <5>1
      <4> QED  BY <1>2, <3>1, <4>1, <4>2
    <3>2. CASE j = q
      BY <1>2, <2>2, <3>2 DEF PickedNew, At
    <3>3. CASE k = q
      BY <1>2, <2>2, <3>3 DEF PickedNew, At
    <3> QED  BY <3>1, <3>2, <3>3
  <2> QED  BY <2>1, <2>2 DEF Apart
<1>9. Quiet' \subseteq Quiet \union {n}
  BY DEF Quiet
<1>10. \A m \in Quiet' : Good(m)'
  <2> SUFFICES ASSUME NEW m \in Quiet'  PROVE  Good(m)'
    OBVIOUS
  <2>1. CASE m # n
    <3>1. m \in Quiet /\ m \in Name
      BY <1>9, <2>1 DEF Quiet
    <3>2. call[q].n # m /\ call'[q].n # m
      BY <1>2, <2>1, <3>1, Constants DEF Shaped, NoRequest
    <3>3. \A k \in Thread : /\ WorksOn(k, m)' => WorksOn(k, m)
                            /\ call'[k].n = m \/ call[k].n = m => call'[k] = call[k]
      BY <1>2, <1>6, <1>7, <3>1, <3>2
    <3>4. dir'[m] = dir[m] /\ standing'[m] = standing[m] /\ filed'[m] = filed[m]
      BY <2>1, <3>1
    <3>5. \A p \in Pid : proc'[p].of = m /\ proc'[p].port # NoPort => proc'[p] = proc[p]
      BY <2>1
    <3> QED  BY <3>1, <3>3, <3>4, <3>5, Bystander
  <2>2. CASE m = n
    <3>1. Sound(n, q)' /\ Alone(n, q)
      BY <2>2, SoundIn
    <3>2. Alone(n, q)'
      BY <1>2, <1>7, <3>1 DEF Alone
    <3>3. (call[q].n)' = n \/ (call[q])' = NoRequest
      BY <1>2 DEF Shaped
    <3> QED  BY <2>2, <3>1, <3>2, <3>3, SoundOut
  <2> QED  BY <2>1, <2>2
<1>11. \A m \in Quiet' \ {n} : HasRuntime(m)' <=> HasRuntime(m)
  BY DEF HasRuntime
<1>12. ASSUME NEW m \in Quiet' \ {n}, n \in Quiet', HasRuntime(m), HasRuntime(n)'
       PROVE  dir[m].run.port # dir'[n].run.port
  <2>1. m \in Quiet
    BY <1>9
  <2> QED  BY <1>12, <2>1 DEF PortKept, PortNew, PortsOnce
<1>13. PortsOnce'
  <2> SUFFICES ASSUME NEW m \in Quiet', NEW j \in Quiet', m # j, HasRuntime(m)', HasRuntime(j)'
               PROVE  dir'[m].run.port # dir'[j].run.port
    BY DEF PortsOnce
  <2>1. m \in Name /\ j \in Name
    BY DEF Quiet
  <2>2. CASE m = n
    BY <1>11, <1>12, <2>1, <2>2
  <2>3. CASE j = n
    BY <1>11, <1>12, <2>1, <2>3
  <2>4. CASE m # n /\ j # n
    BY <1>9, <1>11, <2>1, <2>4 DEF PortsOnce
  <2> QED  BY <2>2, <2>3, <2>4
<1>14. PickedApart'
  <2> SUFFICES ASSUME NEW k \in Thread, NEW m \in Quiet', At(k, "pinning")',
                      call'[k].n \in Quiet' \ {m}, HasRuntime(m)'
               PROVE  dir'[m].run.port # call'[k].run.port
    BY DEF PickedApart
  <2>1. m \in Name /\ call'[k].n \in Name
    BY DEF Quiet
  <2>2. CASE k = q
    <3>1. c.pc = "pinning" /\ m # n /\ m \in Quiet /\ HasRuntime(m) /\ dir'[m] = dir[m]
      BY <1>2, <1>9, <1>11, <2>1, <2>2 DEF At
    <3> QED  BY <1>2, <2>2, <3>1 DEF PickedNew
  <2>3. CASE k # q
    <3>1. call'[k] = call[k] /\ At(k, "pinning")
      BY <1>2, <2>3 DEF At
    <3>2. call[k].n # n
      <4>1. call[k].n = n => ~Alone(n, q)
        BY <2>3 DEF Alone
      <4>2. n \in Quiet => Alone(n, q)
        BY SoundIn
      <4> QED  BY <3>1, <4>1, <4>2
    <3>3. call[k].n \in Quiet
      BY <1>9, <3>1, <3>2
    <3>4. CASE m # n
      BY <1>9, <1>11, <2>1, <3>1, <3>3, <3>4 DEF PickedApart
    <3>5. CASE m = n
      BY <2>3, <3>1, <3>2, <3>3, <3>5 DEF PickedApart, PortKept, PortNew
    <3> QED  BY <3>4, <3>5
  <2> QED  BY <2>2, <2>3
<1> QED  BY <1>3, <1>4, <1>8, <1>10, <1>13, <1>14

-----------------------------------------------------------------------------
(***************************************************************************)
(* The moves the steps are made of.                                        *)
(***************************************************************************)

Pcs == {"idle", "building", "allocating", "pinning", "spawning", "spawned", "waiting",
        "reading", "halting", "destroying", "removing",
        "checking", "copying", "applying", "writing", "filing"}

LEMMA CallFacts ==
  ASSUME DriverInductive, NEW q \in Thread, call[q].pc # "idle"
  PROVE  /\ call[q] \in CallRecord /\ Shaped(call[q])
         /\ call[q].n \in Name /\ call[q].from \in Name
         /\ dir[call[q].n] \in Directory /\ dir[call[q].n].run \in Runtime
         /\ NamesOf(call[q]) \subseteq Name
BY DEF DriverInductive, DriverTypeOK, Shaped, Directory, NamesOf

LEMMA Goes ==
  ASSUME DriverInductive, NEW q \in Thread, NEW pc \in Pcs, Goto(q, pc)
  PROVE  \E c \in CallRecord :
           /\ call' = [call EXCEPT ![q] = c] /\ c.pc = pc /\ c.op = call[q].op
           /\ c.n = call[q].n /\ c.from = call[q].from /\ c.run = call[q].run /\ c.f = call[q].f
<1>1. call[q] \in CallRecord
  BY DEF DriverInductive, DriverTypeOK
<1>2. PICK c : c = [call[q] EXCEPT !.pc = pc]
  OBVIOUS
<1>3. /\ c \in CallRecord /\ c.pc = pc /\ c.op = call[q].op
      /\ c.n = call[q].n /\ c.from = call[q].from /\ c.run = call[q].run /\ c.f = call[q].f
  BY <1>1, <1>2 DEF CallRecord, Pcs
<1>4. call' = [call EXCEPT ![q] = c]
  BY <1>2 DEF Goto
<1> QED  BY <1>3, <1>4

LEMMA Sets ==
  ASSUME DriverTypeOK, NEW n \in Name, NEW st \in Status \ {"none"}, SetStanding(n, st)
  PROVE  /\ standing' \in [Name -> Status]
         /\ standing'[n] = "none" <=> standing[n] = "none"
         /\ \A m \in Name \ {n} : standing'[m] = standing[m]
BY DEF DriverTypeOK, SetStanding, Status

LEMMA Faults ==
  ASSUME DriverTypeOK, Fault \/ UNCHANGED budget
  PROVE  budget' \in [calls : 0..MaxCalls, faults : 0..MaxFaults]
BY DriverAssumption DEF DriverTypeOK, Fault

LEMMA RecordedStatus ==
  ASSUME NEW n \in Name, Takes(n)
  PROVE  \E st \in Status \ {"none"} : SetStanding(n, st)
<1>1. PICK rep : rep = Report(n)
  OBVIOUS
<1>2. rep \in {"absent", "bare", "running", "stopped"}
  BY <1>1 DEF Report, HasRuntime
<1>3. PICK st : st = IF standing[n] = "Launching" /\ ~dir[n].made THEN "Launching" ELSE StatusOf(rep)
  OBVIOUS
<1>4. st \in Status \ {"none"}
  BY <1>2, <1>3 DEF StatusOf, Status
<1>5. SetStanding(n, st)
  BY <1>1, <1>3 DEF Takes
<1> QED  BY <1>4, <1>5

\* The call ends, with everything but the status as it was, unless the name
\* is in doubt from now on.
LEMMA Ends ==
  ASSUME DriverInductive, NEW q \in Thread, call[q].pc # "idle", Leave(q),
         UNCHANGED standing \/ \E st \in Status \ {"none"} : SetStanding(call[q].n, st),
         UNCHANGED <<dir, proc, taken, filed>>,
         raced' \subseteq Name, astray' \subseteq Name,
         raced \subseteq raced', astray \subseteq astray',
         call[q].pc \in {"spawned", "writing", "filing"} => call[q].n \notin Quiet',
         budget' \in [calls : 0..MaxCalls, faults : 0..MaxFaults]
  PROVE  DriverInductive'
<1>1. PICK n \in Name : n = call[q].n
  BY CallFacts
<1>2. PICK c \in CallRecord : c = NoRequest
  BY Empties
<1>3. Shaped(c) /\ c.pc = "idle" /\ call' = [call EXCEPT ![q] = c]
  BY <1>2, Empties DEF Leave, NoRequest
<1>4. DriverTypeOK
  BY DEF DriverInductive
<1>5. /\ standing' \in [Name -> Status]
      /\ standing'[n] = "none" <=> standing[n] = "none"
      /\ \A m \in Name \ {n} : standing'[m] = standing[m]
  BY <1>1, <1>4, Sets DEF DriverTypeOK
<1>6. /\ dir' = dir /\ proc' = proc /\ filed' = filed
      /\ dir' \in [Name -> Directory] /\ filed' \in [Name -> SUBSET Public]
      /\ proc' \in [Pid -> Process] /\ taken' \subseteq Port \union Public
  BY <1>4 DEF DriverTypeOK
<1>7. BoundOnce'
  BY <1>6 DEF DriverInductive, BoundOnce
<1>8. Quiet' \subseteq Quiet
  BY DEF Quiet
<1>9. n \in Quiet' => n \in Quiet /\ Sound(n, q)' /\ PortKept(n)
  <2> SUFFICES ASSUME n \in Quiet'  PROVE  n \in Quiet /\ Sound(n, q)' /\ PortKept(n)
    OBVIOUS
  <2>1. n \in Quiet /\ Sound(n, q) /\ standing[n] # "none"
    BY <1>1, <1>8, SoundIn
  <2>2. call[q].pc \notin {"spawned", "writing", "filing"}
    BY <1>1
  <2>3. call'[q] = c
    BY <1>3, <1>4 DEF DriverTypeOK
  <2>4. Guests(n)' = Guests(n) /\ (HasRuntime(n)' <=> HasRuntime(n))
    BY <1>6 DEF Guests, HoldsDisk, HasRuntime
  <2>5. call'[q].n # n
    BY <1>2, <2>3, Constants DEF NoRequest
  <2>6. Sound(n, q)'
    BY <1>5, <1>6, <2>1, <2>2, <2>4, <2>5 DEF Sound, At
  <2> QED  BY <1>6, <2>1, <2>4, <2>6 DEF PortKept
<1>10. PickedNew(n, q, c)
  BY <1>3 DEF PickedNew
<1>11. n \in raced => n \in raced'
  OBVIOUS
<1> QED  BY <1>1, <1>3, <1>5, <1>6, <1>7, <1>9, <1>10, <1>11, ThreadMoves

-----------------------------------------------------------------------------
(***************************************************************************)
(* The steps that end a call.                                              *)
(***************************************************************************)

LEMMA LeftoverHeldKeeps ==
  ASSUME DriverInductive, NEW q \in Thread, LeftoverHeld(q)  PROVE  DriverInductive'
<1>1. DriverTypeOK
  BY DEF DriverInductive
<1>2. budget' \in [calls : 0..MaxCalls, faults : 0..MaxFaults] /\ raced' \subseteq Name /\ astray' \subseteq Name
  BY <1>1 DEF LeftoverHeld, DriverTypeOK, past
<1> QED  BY <1>2, Ends DEF LeftoverHeld, At, Fail, host, past, Status

LEMMA SpawnFailsKeeps ==
  ASSUME DriverInductive, NEW q \in Thread, SpawnFails(q)  PROVE  DriverInductive'
<1>1. DriverTypeOK
  BY DEF DriverInductive
<1>2. budget' \in [calls : 0..MaxCalls, faults : 0..MaxFaults]
  BY <1>1, Faults DEF SpawnFails
<1>3. raced' \subseteq Name /\ astray' \subseteq Name
  BY <1>1 DEF SpawnFails, DriverTypeOK, past
<1> QED  BY <1>2, <1>3, Ends DEF SpawnFails, At, Fail, NoHost, host, past, Status

\* The guest that no file names puts the name in doubt.
LEMMA RecordFailsKeeps ==
  ASSUME DriverInductive, NEW q \in Thread, RecordFails(q)  PROVE  DriverInductive'
<1>1. DriverTypeOK
  BY DEF DriverInductive
<1>2. budget' \in [calls : 0..MaxCalls, faults : 0..MaxFaults]
  BY <1>1, Faults DEF RecordFails
<1>3. call[q].pc = "spawned" /\ call[q].n \in Name
  BY CallFacts DEF RecordFails, At
<1>4. raced' \subseteq Name /\ astray' \subseteq Name /\ call[q].n \notin Quiet'
  BY <1>1, <1>3 DEF RecordFails, DriverTypeOK, Quiet
<1> QED  BY <1>2, <1>3, <1>4, Ends DEF RecordFails, At, Fail, NoHost, host, Status

LEMMA BootOkKeeps ==
  ASSUME DriverInductive, NEW q \in Thread, BootOk(q)  PROVE  DriverInductive'
<1>1. DriverTypeOK
  BY DEF DriverInductive
<1>2. /\ budget' \in [calls : 0..MaxCalls, faults : 0..MaxFaults]
      /\ raced' \subseteq Name /\ astray' \subseteq Name
  BY <1>1 DEF BootOk, DriverTypeOK, past
<1>3. call[q].pc = "waiting" /\ call[q].n \in Name
  BY CallFacts DEF BootOk, At
<1>4. \E st \in Status \ {"none"} : SetStanding(call[q].n, st)
  BY <1>3, RecordedStatus DEF BootOk, Succeed
<1> QED  BY <1>2, <1>3, <1>4, Ends DEF BootOk, Succeed, NoHost, host, past

LEMMA NothingToReadKeeps ==
  ASSUME DriverInductive, NEW q \in Thread, NothingToRead(q)  PROVE  DriverInductive'
<1>1. DriverTypeOK
  BY DEF DriverInductive
<1>2. /\ budget' \in [calls : 0..MaxCalls, faults : 0..MaxFaults]
      /\ raced' \subseteq Name /\ astray' \subseteq Name
  BY <1>1 DEF NothingToRead, DriverTypeOK, past
<1> QED  BY <1>2, Ends DEF NothingToRead, At, Fail, NoHost, host, past, Status

LEMMA AlreadyUpKeeps ==
  ASSUME DriverInductive, NEW q \in Thread, AlreadyUp(q)  PROVE  DriverInductive'
<1>1. DriverTypeOK
  BY DEF DriverInductive
<1>2. /\ budget' \in [calls : 0..MaxCalls, faults : 0..MaxFaults]
      /\ raced' \subseteq Name /\ astray' \subseteq Name
  BY <1>1 DEF AlreadyUp, DriverTypeOK, past
<1>3. call[q].pc = "reading" /\ call[q].n \in Name
  BY CallFacts DEF AlreadyUp, At
<1>4. \E st \in Status \ {"none"} : SetStanding(call[q].n, st)
  BY <1>3, RecordedStatus DEF AlreadyUp, Succeed
<1> QED  BY <1>2, <1>3, <1>4, Ends DEF AlreadyUp, Succeed, NoHost, host, past

LEMMA PortsBusyKeeps ==
  ASSUME DriverInductive, NEW q \in Thread, PortsBusy(q)  PROVE  DriverInductive'
<1>1. DriverTypeOK
  BY DEF DriverInductive
<1>2. /\ budget' \in [calls : 0..MaxCalls, faults : 0..MaxFaults]
      /\ raced' \subseteq Name /\ astray' \subseteq Name
  BY <1>1 DEF PortsBusy, DriverTypeOK, past
<1> QED  BY <1>2, Ends DEF PortsBusy, At, Fail, NoHost, host, past, Status

LEMMA CloneRefusedKeeps ==
  ASSUME DriverInductive, NEW q \in Thread, CloneRefused(q)  PROVE  DriverInductive'
<1>1. DriverTypeOK
  BY DEF DriverInductive
<1>2. /\ budget' \in [calls : 0..MaxCalls, faults : 0..MaxFaults]
      /\ raced' \subseteq Name /\ astray' \subseteq Name
  BY <1>1 DEF CloneRefused, DriverTypeOK, past
<1> QED  BY <1>2, Ends DEF CloneRefused, At, Fail, NoHost, host, past, Status

LEMMA ApplyFailsKeeps ==
  ASSUME DriverInductive, NEW q \in Thread, ApplyFails(q)  PROVE  DriverInductive'
<1>1. DriverTypeOK
  BY DEF DriverInductive
<1>2. budget' \in [calls : 0..MaxCalls, faults : 0..MaxFaults]
  BY <1>1, Faults DEF ApplyFails
<1>3. raced' \subseteq Name /\ astray' \subseteq Name
  BY <1>1 DEF ApplyFails, DriverTypeOK, past
<1> QED  BY <1>2, <1>3, Ends DEF ApplyFails, At, NoHost, host, tables, past

-----------------------------------------------------------------------------
(***************************************************************************)
(* The steps that change the directory.                                    *)
(***************************************************************************)

\* How a step that starts no guest leaves a name in good order, if the
\* directory is then d and the call c.
Left(n, q, c, d) ==
  /\ d.run # NoRuntime => d.made /\ d.disk = "whole" /\ d.run.port \in Port
  /\ \A p \in Guests(n) :
       /\ d.run # NoRuntime /\ proc[p].port = d.run.port
       /\ d.run.pid = p
       /\ proc[p].fwd = d.run.fwd \/ (c.pc = "writing" /\ proc[p].fwd = By(c, d.run.fwd))
  /\ filed[n] = d.run.fwd \/ (c.pc = "filing" /\ d.run.fwd = By(c, filed[n]))
  /\ c.pc # "idle" => Keeps(q, n)'
  /\ (d.run # NoRuntime => HasRuntime(n) /\ d.run.port = dir[n].run.port) \/ PortNew(n, q)

\* Guests go at most.
NoneBoots == proc' \in [Pid -> Process] /\ \A p \in Pid : proc'[p] \in {proc[p], Free}

LEMMA Moves ==
  ASSUME DriverInductive, NEW q \in Thread, NEW n \in Name, call[q].n = n, call[q].pc # "idle",
         NEW c \in CallRecord, Shaped(c), call' = [call EXCEPT ![q] = c],
         c.pc = "idle" \/ (c.n = n /\ c.from \in NamesOf(call[q])),
         PickedNew(n, q, c),
         NEW d \in Directory, dir' = [dir EXCEPT ![n] = d],
         UNCHANGED standing \/ \E st \in Status \ {"none"} : SetStanding(n, st),
         NoneBoots, UNCHANGED <<taken, filed>>,
         raced' \subseteq Name, astray' \subseteq Name,
         raced \subseteq raced', astray \subseteq astray',
         n \in Quiet' => Left(n, q, c, d),
         budget' \in [calls : 0..MaxCalls, faults : 0..MaxFaults]
  PROVE  DriverInductive'
<1>1. DriverTypeOK
  BY DEF DriverInductive
<1>2. /\ standing' \in [Name -> Status]
      /\ standing'[n] = "none" <=> standing[n] = "none"
      /\ \A m \in Name \ {n} : standing'[m] = standing[m]
  BY <1>1, Sets DEF DriverTypeOK
<1>3. /\ filed' = filed /\ filed' \in [Name -> SUBSET Public]
      /\ proc' \in [Pid -> Process] /\ taken' \subseteq Port \union Public
      /\ dir' \in [Name -> Directory] /\ dir'[n] = d /\ \A m \in Name \ {n} : dir'[m] = dir[m]
  BY <1>1 DEF DriverTypeOK, NoneBoots
<1>4. \A p \in Pid : proc'[p].port # NoPort => proc'[p] = proc[p]
  BY DEF NoneBoots, Free
<1>5. BoundOnce'
  BY <1>4 DEF DriverInductive, BoundOnce
<1>6. Quiet' \subseteq Quiet /\ Quiet' \subseteq Name
  BY DEF Quiet
<1>7. call'[q] = c
  BY <1>1 DEF DriverTypeOK
<1>8. ASSUME n \in Quiet'  PROVE  Sound(n, q)'
  <2>1. standing[n] # "none"
    BY <1>6, <1>8, SoundIn
  <2>2. HasRuntime(n)' <=> d.run # NoRuntime
    BY <1>3 DEF HasRuntime
  <2>3. Guests(n)' \subseteq Guests(n) /\ \A p \in Guests(n)' : proc'[p] = proc[p]
    BY <1>4 DEF Guests, HoldsDisk
  <2>4. c.pc = "idle" => c.n # n
    BY Constants DEF Shaped, NoRequest
  <2>5. Left(n, q, c, d)
    BY <1>8
  <2>6. standing'[n] # "none" /\ (call'[q].n = n => Keeps(q, n)')
    BY <1>2, <1>7, <2>1, <2>4, <2>5 DEF Left
  <2>7. HasRuntime(n)' => dir'[n].made /\ dir'[n].disk = "whole" /\ dir'[n].run.port \in Port
    BY <1>3, <2>2, <2>5 DEF Left
  <2>8. \A p \in Guests(n)' :
          /\ HasRuntime(n)' /\ proc'[p].port = dir'[n].run.port
          /\ dir'[n].run.pid = p
          /\ \/ proc'[p].fwd = dir'[n].run.fwd
             \/ At(q, "writing")' /\ proc'[p].fwd = By(call'[q], dir'[n].run.fwd)
    BY <1>3, <1>7, <2>2, <2>3, <2>5 DEF Left, At
  <2>9. \/ filed'[n] = dir'[n].run.fwd
        \/ At(q, "filing")' /\ dir'[n].run.fwd = By(call'[q], filed'[n])
    BY <1>3, <1>7, <2>5 DEF Left, At
  <2> QED  BY <2>6, <2>7, <2>8, <2>9 DEF Sound
<1>9. n \in Quiet' => n \in Quiet /\ (PortKept(n) \/ PortNew(n, q))
  BY <1>3, <1>6 DEF PortKept, HasRuntime, Left
<1>10. /\ \A m \in Quiet' \ {n} : dir'[m] = dir[m]
       /\ \A m \in Name \ {n} : filed'[m] = filed[m]
       /\ \A m \in Quiet' \ {n}, p \in Pid :
             proc'[p].of = m /\ proc'[p].port # NoPort => proc'[p] = proc[p]
  BY <1>3, <1>4, <1>6
<1>11. /\ raced \ {n} \subseteq raced' /\ astray \ {n} \subseteq astray'
       /\ n \in raced /\ n \notin raced' => Alone(n, q) /\ c.pc = "idle"
  OBVIOUS
<1>12. n \in Quiet' => (n \in Quiet \/ Alone(n, q)) /\ Sound(n, q)'
  BY <1>8, <1>9
<1>13. n \in Quiet' => (n \in Quiet /\ PortKept(n)) \/ ~HasRuntime(n)' \/ PortNew(n, q)
  BY <1>9
<1>14. /\ call[q].n = n /\ Shaped(c) /\ call' = [call EXCEPT ![q] = c]
       /\ c.pc = "idle" \/ (c.n = n /\ c.from \in NamesOf(call[q]))
  OBVIOUS
<1>15. PickedNew(n, q, c)
  OBVIOUS
<1>16. raced' \subseteq Name /\ astray' \subseteq Name
  OBVIOUS
<1>17. budget' \in [calls : 0..MaxCalls, faults : 0..MaxFaults]
  OBVIOUS
<1> QED  BY <1>2, <1>3, <1>5, <1>10, <1>11, <1>12, <1>13, <1>14, <1>15, <1>16, <1>17, ThreadMoves

\* A step that changes no process.
LEMMA Still == ASSUME DriverTypeOK, UNCHANGED proc  PROVE NoneBoots
BY DEF DriverTypeOK, NoneBoots

LEMMA GuestsGo == ASSUME DriverTypeOK, NEW S, proc' = Without(S)  PROVE NoneBoots
BY Empties DEF DriverTypeOK, NoneBoots, Without

\* A step that leaves the directory as it is.
LEMMA Same ==
  ASSUME DriverInductive, NEW q \in Thread, NEW n \in Quiet, call[q].n = n,
         call[q].pc \notin {"spawned", "writing", "filing"},
         NEW c, c.pc # "idle" => Keeps(q, n)'
  PROVE  Left(n, q, c, dir[n])
BY SoundIn DEF Sound, Left, HasRuntime, At

\* The facts of a name in good order.
LEMMA NoGuest ==
  ASSUME DriverInductive, NEW q \in Thread, NEW n \in Quiet, call[q].n = n,
         call[q].pc # "spawned", ~HasRuntime(n) \/ dir[n].run.pid \notin Pid
  PROVE  Guests(n) = {}
BY SoundIn DEF Sound, Guests, HoldsDisk, At

LEMMA BuildDiskKeeps ==
  ASSUME DriverInductive, NEW q \in Thread, BuildDisk(q)  PROVE  DriverInductive'
<1>1. DriverTypeOK
  BY DEF DriverInductive
<1>2. call[q].pc = "building"
  BY DEF BuildDisk, At
<1>3. PICK n \in Name : n = call[q].n
  BY <1>2, CallFacts
<1>4. PICK c \in CallRecord :
        /\ call' = [call EXCEPT ![q] = c] /\ c.pc = "allocating" /\ c.op = call[q].op
        /\ c.n = call[q].n /\ c.from = call[q].from
  BY Goes DEF BuildDisk, Pcs
<1>5. Shaped(c) /\ c.from \in NamesOf(call[q])
  BY <1>2, <1>4, CallFacts DEF Shaped, NamesOf
<1>6. PICK d : d = [NoDirectory EXCEPT !.made = TRUE, !.disk = "whole"]
  OBVIOUS
<1>7. d \in Directory /\ d.made = TRUE /\ d.disk = "whole" /\ d.run = NoRuntime
  BY <1>6, Empties DEF Directory, NoDirectory
<1>8. dir' = [dir EXCEPT ![n] = d]
  BY <1>3, <1>6 DEF BuildDisk
<1>9. /\ UNCHANGED <<proc, taken, filed, standing>>
      /\ raced' = raced /\ astray' = astray /\ raced' \subseteq Name /\ astray' \subseteq Name
      /\ budget' \in [calls : 0..MaxCalls, faults : 0..MaxFaults]
  BY <1>1 DEF BuildDisk, NoTables, tables, past, DriverTypeOK
<1>10. ASSUME n \in Quiet'
       PROVE  Guests(n) = {} /\ filed[n] = {} /\ Keeps(q, n)'
  <2>1. n \in Quiet /\ Sound(n, q)
    BY <1>3, <1>9, <1>10, SoundIn DEF Quiet
  <2>2. dir[n] = NoDirectory
    BY <1>2, <1>3, <2>1 DEF Sound, Keeps
  <2>3. ~HasRuntime(n)
    BY <2>2 DEF HasRuntime, NoDirectory
  <2>4. Guests(n) = {}
    BY <1>2, <1>3, <2>1, <2>3, NoGuest
  <2>5. filed[n] = {}
    BY <1>2, <2>1, <2>2 DEF Sound, NoDirectory, NoRuntime, At
  <2>6. Keeps(q, n)'
    BY <1>1, <1>4, <1>7, <1>8 DEF Keeps, HasRuntime, DriverTypeOK
  <2> QED  BY <2>4, <2>5, <2>6
<1>11. n \in Quiet' => Left(n, q, c, d)
  BY <1>7, <1>10 DEF Left, NoRuntime
<1>12. PickedNew(n, q, c)
  BY <1>4 DEF PickedNew
<1>13. NoneBoots
  BY <1>1, <1>9, Still
<1> QED  BY <1>2, <1>3, <1>4, <1>5, <1>7, <1>8, <1>9, <1>11, <1>12, <1>13, Moves

\* The call ends.
LEMMA Leaves ==
  ASSUME DriverInductive, NEW q \in Thread, Leave(q)
  PROVE  \E c \in CallRecord :
           /\ call' = [call EXCEPT ![q] = c] /\ c.pc = "idle" /\ Shaped(c)
           /\ \A n : PickedNew(n, q, c)
BY Empties DEF Leave, PickedNew, NoRequest

\* The call goes on with a copy of a runtime file.
GoesWith(q, pc, r) == call' = [call EXCEPT ![q].pc = pc, ![q].run = r]

LEMMA Copies ==
  ASSUME DriverInductive, NEW q \in Thread, NEW pc \in Pcs, NEW r \in Runtime, GoesWith(q, pc, r)
  PROVE  \E c \in CallRecord :
           /\ call' = [call EXCEPT ![q] = c] /\ c.pc = pc /\ c.op = call[q].op
           /\ c.n = call[q].n /\ c.from = call[q].from /\ c.run = r /\ c.f = call[q].f
<1>1. call[q] \in CallRecord
  BY DEF DriverInductive, DriverTypeOK
<1>2. PICK c : c = [call[q] EXCEPT !.pc = pc, !.run = r]
  OBVIOUS
<1>3. /\ c \in CallRecord /\ c.pc = pc /\ c.op = call[q].op
      /\ c.n = call[q].n /\ c.from = call[q].from /\ c.run = r /\ c.f = call[q].f
  BY <1>1, <1>2 DEF CallRecord, Pcs
<1>4. call' = [call EXCEPT ![q] = c]
  BY <1>2 DEF GoesWith
<1> QED  BY <1>3, <1>4

LEMMA BuildFailsKeeps ==
  ASSUME DriverInductive, NEW q \in Thread, BuildFails(q)  PROVE  DriverInductive'
<1>1. DriverTypeOK
  BY DEF DriverInductive
<1>2. call[q].pc = "building"
  BY DEF BuildFails, At
<1>3. PICK n \in Name : n = call[q].n
  BY <1>2, CallFacts
<1>4. PICK c \in CallRecord :
        call' = [call EXCEPT ![q] = c] /\ c.pc = "idle" /\ Shaped(c) /\ PickedNew(n, q, c)
  BY Leaves DEF BuildFails, Fail
<1>5. PICK d \in Directory : d = NoDirectory
  BY Empties
<1>6. dir' = [dir EXCEPT ![n] = d] /\ (\E st \in Status \ {"none"} : SetStanding(n, st))
  BY <1>3, <1>5 DEF BuildFails, Fail, Status
<1>7. /\ UNCHANGED <<proc, taken, filed>>
      /\ raced' = raced /\ astray' = astray /\ raced' \subseteq Name /\ astray' \subseteq Name
      /\ budget' \in [calls : 0..MaxCalls, faults : 0..MaxFaults]
  BY <1>1, Faults DEF BuildFails, past, DriverTypeOK
<1>8. ASSUME n \in Quiet'  PROVE  Left(n, q, c, d)
  <2>1. n \in Quiet /\ Sound(n, q)
    BY <1>3, <1>7, <1>8, SoundIn DEF Quiet
  <2>2. dir[n] = NoDirectory
    BY <1>2, <1>3, <2>1 DEF Sound, Keeps
  <2>3. ~HasRuntime(n)
    BY <2>2 DEF HasRuntime, NoDirectory
  <2>4. Guests(n) = {}
    BY <1>2, <1>3, <2>1, <2>3, NoGuest
  <2>5. filed[n] = {}
    BY <1>2, <2>1, <2>2 DEF Sound, NoDirectory, NoRuntime, At
  <2> QED  BY <1>4, <1>5, <2>4, <2>5 DEF Left, NoDirectory, NoRuntime
<1>9. NoneBoots
  BY <1>1, <1>7, Still
<1> QED  BY <1>2, <1>3, <1>4, <1>5, <1>6, <1>7, <1>8, <1>9, Moves

\* The lowest of a set of numbers is one of them.
LEMMA LowestIn == ASSUME NEW S, S \subseteq Nat, S # {}  PROVE  Lowest(S) \in S
<1> DEFINE R == OpToRel(<, Nat)
<1>1. IsWellFoundedOn(R, Nat)
  BY NatLessThanWellFounded
<1>2. \E x \in S : \A y \in S : <<y, x>> \notin R
  <2> HIDE DEF R
  <2> QED  BY <1>1, WFMin
<1>3. PICK x \in S : \A y \in S : <<y, x>> \notin R
  BY <1>2
<1>4. \A y \in S : ~(y < x)
  BY <1>3 DEF OpToRel
<1>5. \A y \in S : x <= y
  BY <1>4
<1> QED  BY <1>5 DEF Lowest

LEMMA Picks ==
  ASSUME NEW n \in Name, Allocatable(n) # {}
  PROVE  /\ Lowest(Allocatable(n)) \in Port
         /\ \A m \in Name \ {n} : HasRuntime(m) => dir[m].run.port # Lowest(Allocatable(n))
<1>1. Allocatable(n) \subseteq Nat
  BY DriverAssumption DEF Allocatable
<1>2. Lowest(Allocatable(n)) \in Allocatable(n)
  BY <1>1, LowestIn
<1> QED  BY <1>2 DEF Allocatable, Reserved

LEMMA AllocateKeeps ==
  ASSUME DriverInductive, NEW q \in Thread, Allocate(q)  PROVE  DriverInductive'
<1>1. DriverTypeOK
  BY DEF DriverInductive
<1>2. call[q].pc = "allocating"
  BY DEF Allocate, At
<1>3. PICK n \in Name : n = call[q].n
  BY <1>2, CallFacts
<1>4. PICK also : also = {call[k].n : k \in {k \in Thread : At(k, "pinning")}}
  OBVIOUS
<1>5. PICK r : r = [NoRuntime EXCEPT !.port = Lowest(Allocatable(n))]
  OBVIOUS
<1>6. /\ r \in Runtime /\ r.port \in Port /\ r.pid = NoPid /\ r.fwd = {}
      /\ \A m \in Name \ {n} : HasRuntime(m) => dir[m].run.port # r.port
  BY <1>3, <1>5, Picks DEF Allocate, Runtime, NoRuntime
<1>7. PICK c \in CallRecord :
        /\ call' = [call EXCEPT ![q] = c] /\ c.pc = "pinning" /\ c.op = call[q].op
        /\ c.n = call[q].n /\ c.from = call[q].from /\ c.run = r
  <2>1. GoesWith(q, "pinning", r)
    BY <1>3, <1>5 DEF Allocate, GoesWith
  <2> QED  BY <1>6, <2>1, Copies DEF Pcs
<1>8. Shaped(c) /\ c.from \in NamesOf(call[q])
  BY <1>2, <1>6, <1>7, CallFacts DEF Shaped, NamesOf
<1>9. raced' = IF also = {} THEN raced ELSE raced \union also \union {n}
  BY <1>3, <1>4 DEF Allocate
<1>10. also \subseteq Name
  BY <1>4, CallFacts DEF At
<1>11. /\ UNCHANGED <<dir, proc, taken, filed, standing>> /\ astray' = astray
       /\ raced' \subseteq Name /\ astray' \subseteq Name /\ raced \subseteq raced'
       /\ budget' \in [calls : 0..MaxCalls, faults : 0..MaxFaults]
  BY <1>1, <1>9, <1>10 DEF Allocate, NoHost, host, tables, DriverTypeOK
<1>12. PickedNew(n, q, c)
  <2>1. \A k \in Thread : At(k, "pinning") => n \in raced' /\ call[k].n \in raced'
    BY <1>4, <1>9
  <2> QED  BY <1>6, <1>7, <2>1 DEF PickedNew, Quiet
<1>13. dir' = [dir EXCEPT ![n] = dir[n]] /\ dir[n] \in Directory
  BY <1>1, <1>11 DEF DriverTypeOK
<1>14. ASSUME n \in Quiet'  PROVE  Left(n, q, c, dir[n])
  <2>1. n \in Quiet
    BY <1>11, <1>14 DEF Quiet
  <2>2. Keeps(q, n)
    BY <1>3, <2>1, SoundIn DEF Sound
  <2>3. call'[q] = c /\ dir' = dir
    BY <1>1, <1>7, <1>11 DEF DriverTypeOK
  <2>4. Keeps(q, n)'
    BY <1>2, <1>7, <2>2, <2>3 DEF Keeps, HasRuntime
  <2> QED  BY <1>2, <1>3, <2>1, <2>4, Same
<1>15. NoneBoots
  BY <1>1, <1>11, Still
<1> QED  BY <1>2, <1>3, <1>7, <1>8, <1>11, <1>12, <1>13, <1>14, <1>15, Moves, ZenonT(60)

LEMMA NoPortLeftKeeps ==
  ASSUME DriverInductive, NEW q \in Thread, NoPortLeft(q)  PROVE  DriverInductive'
<1>1. DriverTypeOK
  BY DEF DriverInductive
<1>2. call[q].pc = "allocating"
  BY DEF NoPortLeft, At
<1>3. PICK n \in Name : n = call[q].n
  BY <1>2, CallFacts
<1>4. PICK c \in CallRecord :
        call' = [call EXCEPT ![q] = c] /\ c.pc = "idle" /\ Shaped(c) /\ PickedNew(n, q, c)
  BY Leaves DEF NoPortLeft, Fail
<1>5. /\ UNCHANGED <<proc, taken, filed>>
      /\ raced' = raced /\ astray' = astray /\ raced' \subseteq Name /\ astray' \subseteq Name
      /\ budget' \in [calls : 0..MaxCalls, faults : 0..MaxFaults]
  BY <1>1 DEF NoPortLeft, past, DriverTypeOK
<1>6. NoneBoots
  BY <1>1, <1>5, Still
<1>7. CASE call[q].op = "launch"
  <2>1. PICK d \in Directory : d = NoDirectory
    BY Empties
  <2>2. dir' = [dir EXCEPT ![n] = d] /\ (\E st \in Status \ {"none"} : SetStanding(n, st))
    BY <1>3, <1>7, <2>1 DEF NoPortLeft, Fail, Status
  <2>3. ASSUME n \in Quiet'  PROVE  Left(n, q, c, d)
    <3>1. n \in Quiet /\ Sound(n, q)
      BY <1>3, <1>5, <2>3, SoundIn DEF Quiet
    <3>2. ~HasRuntime(n)
      BY <1>2, <1>3, <3>1 DEF Sound, Keeps
    <3>3. Guests(n) = {}
      BY <1>2, <1>3, <3>1, <3>2, NoGuest
    <3>4. filed[n] = {}
      BY <1>2, <3>1, <3>2 DEF Sound, HasRuntime, NoRuntime, At
    <3> QED  BY <1>4, <2>1, <3>3, <3>4 DEF Left, NoDirectory, NoRuntime
  <2> QED  BY <1>2, <1>3, <1>4, <1>5, <1>6, <2>1, <2>2, <2>3, Moves
<1>8. CASE call[q].op # "launch"
  <2>1. Leave(q) /\ UNCHANGED <<standing, dir>>
    BY <1>8 DEF NoPortLeft
  <2> QED  BY <1>2, <1>5, <2>1, Ends
<1> QED  BY <1>7, <1>8

LEMMA PinKeeps ==
  ASSUME DriverInductive, NEW q \in Thread, Pin(q)  PROVE  DriverInductive'
<1>1. DriverTypeOK
  BY DEF DriverInductive
<1>2. call[q].pc = "pinning"
  BY DEF Pin, At
<1>3. PICK n \in Name : n = call[q].n
  BY <1>2, CallFacts
<1>4. PICK c \in CallRecord :
        /\ call' = [call EXCEPT ![q] = c] /\ c.pc = "spawning" /\ c.op = call[q].op
        /\ c.n = call[q].n /\ c.from = call[q].from /\ c.run = call[q].run
  BY Goes DEF Pin, Pcs
<1>5. Shaped(c) /\ c.from \in NamesOf(call[q]) /\ PickedNew(n, q, c)
  BY <1>2, <1>4, CallFacts DEF Shaped, NamesOf, PickedNew
<1>6. PICK r \in Runtime : r = call[q].run
  BY <1>2, CallFacts DEF CallRecord
<1>7. PICK d : d = [dir[n] EXCEPT !.made = TRUE, !.run = r]
  OBVIOUS
<1>8. d \in Directory /\ d.made = TRUE /\ d.disk = dir[n].disk /\ d.run = r
  BY <1>1, <1>7 DEF Directory, DriverTypeOK
<1>9. dir' = [dir EXCEPT ![n] = d]
  BY <1>3, <1>6, <1>7 DEF Pin, WriteRuntime
<1>10. /\ UNCHANGED <<proc, taken, filed, standing>>
       /\ raced' = raced /\ astray' = astray /\ raced' \subseteq Name /\ astray' \subseteq Name
       /\ budget' \in [calls : 0..MaxCalls, faults : 0..MaxFaults]
  BY <1>1 DEF Pin, NoTables, tables, past, DriverTypeOK
<1>11. r.port \in Port /\ r.fwd = {} /\ r # NoRuntime
  BY <1>2, <1>6, CallFacts, Constants DEF Shaped, NoRuntime
<1>12. ASSUME n \in Quiet'  PROVE  Left(n, q, c, d)
  <2>1. n \in Quiet /\ Sound(n, q) /\ Alone(n, q)
    BY <1>3, <1>10, <1>12, SoundIn DEF Quiet
  <2>2. ~HasRuntime(n) /\ dir[n].disk = "whole"
    BY <1>2, <1>3, <2>1 DEF Sound, Keeps
  <2>3. Guests(n) = {}
    BY <1>2, <1>3, <2>1, <2>2, NoGuest
  <2>4. filed[n] = {}
    BY <1>2, <2>1, <2>2 DEF Sound, HasRuntime, NoRuntime, At
  <2>5. call'[q] = c /\ dir'[n] = d /\ proc' = proc
    BY <1>1, <1>4, <1>9, <1>10 DEF DriverTypeOK
  <2>6. Guests(n)' = {} /\ HasRuntime(n)'
    BY <1>8, <1>11, <2>3, <2>5 DEF Guests, HoldsDisk, HasRuntime
  <2>7. Keeps(q, n)'
    BY <1>4, <1>6, <1>8, <2>5, <2>6 DEF Keeps
  <2>8. \A m \in Quiet \ {n} : HasRuntime(m) => dir[m].run.port # r.port
    BY <1>2, <1>3, <1>6, <2>1 DEF DriverInductive, PickedApart, At
  <2>9. \A k \in Thread \ {q} : ~At(k, "pinning")
    <3>1. n \notin raced
      BY <2>1 DEF Quiet
    <3> QED  BY <1>2, <1>3, <3>1 DEF DriverInductive, Apart, At
  <2>10. PortNew(n, q)
    BY <1>8, <2>5, <2>8, <2>9 DEF PortNew
  <2> QED  BY <1>8, <1>11, <2>2, <2>3, <2>4, <2>7, <2>10 DEF Left
<1>13. NoneBoots
  BY <1>1, <1>10, Still
<1> QED  BY <1>2, <1>3, <1>4, <1>5, <1>8, <1>9, <1>10, <1>12, <1>13, Moves

LEMMA RecordPidKeeps ==
  ASSUME DriverInductive, NEW q \in Thread, RecordPid(q)  PROVE  DriverInductive'
<1>1. DriverTypeOK
  BY DEF DriverInductive
<1>2. call[q].pc = "spawned"
  BY DEF RecordPid, At
<1>3. PICK n \in Name : n = call[q].n
  BY <1>2, CallFacts
<1>4. PICK c \in CallRecord :
        /\ call' = [call EXCEPT ![q] = c] /\ c.pc = "waiting" /\ c.op = call[q].op
        /\ c.n = call[q].n /\ c.from = call[q].from /\ c.run = call[q].run
  BY Goes DEF RecordPid, Pcs
<1>5. Shaped(c) /\ c.from \in NamesOf(call[q]) /\ PickedNew(n, q, c)
  BY <1>2, <1>4, CallFacts DEF Shaped, NamesOf, PickedNew
<1>6. PICK r \in Runtime : r = call[q].run
  BY <1>2, CallFacts DEF CallRecord
<1>7. PICK d : d = [dir[n] EXCEPT !.made = TRUE, !.run = r]
  OBVIOUS
<1>8. d \in Directory /\ d.made = TRUE /\ d.disk = dir[n].disk /\ d.run = r
  BY <1>1, <1>7 DEF Directory, DriverTypeOK
<1>9. dir' = [dir EXCEPT ![n] = d]
  BY <1>3, <1>6, <1>7 DEF RecordPid, WriteRuntime
<1>10. /\ UNCHANGED <<proc, taken, filed, standing>>
       /\ raced' = raced /\ astray' = astray /\ raced' \subseteq Name /\ astray' \subseteq Name
       /\ budget' \in [calls : 0..MaxCalls, faults : 0..MaxFaults]
  BY <1>1 DEF RecordPid, NoTables, tables, past, DriverTypeOK
<1>11. ASSUME n \in Quiet'  PROVE  Left(n, q, c, d)
  <2>1. n \in Quiet /\ Sound(n, q)
    BY <1>3, <1>10, <1>11, SoundIn DEF Quiet
  <2>2. /\ HasRuntime(n) /\ r.pid \in Pid /\ r.port = dir[n].run.port /\ r.fwd = dir[n].run.fwd
        /\ Guests(n) \subseteq {r.pid}
    BY <1>2, <1>3, <1>6, <2>1 DEF Sound, Keeps
  <2>3. r # NoRuntime
    BY <2>2, Constants DEF NoRuntime
  <2>4. \A p \in Guests(n) : proc[p].port = r.port /\ r.pid = p /\ proc[p].fwd = r.fwd
    BY <1>2, <2>1, <2>2 DEF Sound, At
  <2>5. filed[n] = r.fwd /\ dir[n].disk = "whole" /\ r.port \in Port
    BY <1>2, <2>1, <2>2 DEF Sound, At
  <2>6. call'[q] = c /\ dir'[n] = d
    BY <1>1, <1>4, <1>9 DEF DriverTypeOK
  <2>7. Keeps(q, n)'
    BY <1>4, <1>6, <1>8, <2>3, <2>6 DEF Keeps, HasRuntime
  <2> QED  BY <1>8, <2>2, <2>3, <2>4, <2>5, <2>7 DEF Left
<1>12. NoneBoots
  BY <1>1, <1>10, Still
<1> QED  BY <1>2, <1>3, <1>4, <1>5, <1>8, <1>9, <1>10, <1>11, <1>12, Moves

\* The directory and the tables stay, and the call goes on.
LEMMA Passes ==
  ASSUME DriverInductive, NEW q \in Thread, NEW n \in Name, call[q].n = n,
         call[q].pc \notin {"idle", "spawned", "writing", "filing"},
         NEW c \in CallRecord, Shaped(c), call' = [call EXCEPT ![q] = c],
         c.n = n, c.from = call[q].from, c.pc # "pinning",
         UNCHANGED <<dir, standing, taken, filed, past>>, NoneBoots,
         n \in Quiet => Keeps(q, n)',
         budget' \in [calls : 0..MaxCalls, faults : 0..MaxFaults]
  PROVE  DriverInductive'
<1>1. DriverTypeOK
  BY DEF DriverInductive
<1>2. dir' = [dir EXCEPT ![n] = dir[n]] /\ dir[n] \in Directory
  BY <1>1 DEF DriverTypeOK
<1>3. UNCHANGED <<standing, taken, filed>>
  OBVIOUS
<1>4. raced' = raced /\ astray' = astray /\ raced' \subseteq Name /\ astray' \subseteq Name
  BY <1>1 DEF past, DriverTypeOK
<1>5. Quiet' = Quiet
  BY <1>4 DEF Quiet
<1>6. n \in Quiet' => Left(n, q, c, dir[n])
  BY <1>5, Same
<1>7. c.from \in NamesOf(call[q]) /\ PickedNew(n, q, c)
  BY DEF NamesOf, PickedNew
<1>8. call[q].pc # "idle" /\ raced \subseteq raced' /\ astray \subseteq astray'
  BY <1>4
<1> QED  BY <1>2, <1>3, <1>4, <1>6, <1>7, <1>8, Moves

\* A launch that does not answer is put out; the others are left alone.
LEMMA BootFailsKeeps ==
  ASSUME DriverInductive, NEW q \in Thread, BootFails(q)  PROVE  DriverInductive'
<1>1. DriverTypeOK
  BY DEF DriverInductive
<1>2. call[q].pc = "waiting"
  BY DEF BootFails, At
<1>3. PICK n \in Name : n = call[q].n
  BY <1>2, CallFacts
<1>4. budget' \in [calls : 0..MaxCalls, faults : 0..MaxFaults]
  BY <1>1, Faults DEF BootFails
<1>5. UNCHANGED <<dir, taken, filed, past>>
  BY DEF BootFails
<1>6. CASE call[q].op = "launch"
  <2>1. /\ proc' = Without({call[q].run.pid} \intersect Pid) /\ Goto(q, "halting")
        /\ UNCHANGED standing
    BY <1>6 DEF BootFails
  <2>2. PICK c \in CallRecord :
          /\ call' = [call EXCEPT ![q] = c] /\ c.pc = "halting" /\ c.op = call[q].op
          /\ c.n = call[q].n /\ c.from = call[q].from /\ c.run = call[q].run
    BY <2>1, Goes DEF Pcs
  <2>3. Shaped(c)
    BY <1>2, <1>6, <2>2, CallFacts DEF Shaped
  <2>4. ASSUME n \in Quiet  PROVE  Keeps(q, n)'
    <3>1. HasRuntime(n) /\ call[q].run = dir[n].run
      BY <1>2, <1>3, <2>4, SoundIn DEF Sound, Keeps
    <3>2. call'[q] = c /\ dir' = dir
      BY <1>1, <1>5, <2>2 DEF DriverTypeOK
    <3> QED  BY <2>2, <3>1, <3>2 DEF Keeps, HasRuntime
  <2>5. NoneBoots
    BY <1>1, <2>1, GuestsGo
  <2> QED  BY <1>2, <1>3, <1>4, <1>5, <2>1, <2>2, <2>3, <2>4, <2>5, Passes
<1>7. CASE call[q].op # "launch"
  <2>1. Fail(q) /\ UNCHANGED proc
    BY <1>7 DEF BootFails
  <2>2. raced' = raced /\ astray' = astray /\ raced' \subseteq Name /\ astray' \subseteq Name
    BY <1>1, <1>5 DEF past, DriverTypeOK
  <2> QED  BY <1>2, <1>4, <1>5, <2>1, <2>2, Ends DEF Fail, Status
<1> QED  BY <1>6, <1>7

\* A call that has read the runtime file.
LEMMA ReadIn ==
  ASSUME DriverInductive, NEW q \in Thread, NEW ops, NEW pc \in Pcs, Read(q, ops, pc)
  PROVE  /\ call[q].pc = "reading" /\ call[q].op \in ops /\ HasRuntime(call[q].n)
         /\ \E c \in CallRecord :
              /\ call' = [call EXCEPT ![q] = c] /\ c.pc = pc /\ c.op = call[q].op
              /\ c.n = call[q].n /\ c.from = call[q].from /\ c.run = dir[call[q].n].run
              /\ c.f = call[q].f
<1>1. call[q].pc = "reading" /\ call[q].op \in ops /\ HasRuntime(call[q].n)
  BY DEF Read, At
<1>2. PICK r \in Runtime : r = dir[call[q].n].run
  BY <1>1, CallFacts
<1>3. GoesWith(q, pc, r)
  BY <1>2 DEF Read, GoesWith
<1>4. PICK c \in CallRecord :
        /\ call' = [call EXCEPT ![q] = c] /\ c.pc = pc /\ c.op = call[q].op
        /\ c.n = call[q].n /\ c.from = call[q].from /\ c.run = r /\ c.f = call[q].f
  BY <1>3, Copies
<1> QED  BY <1>1, <1>2, <1>4

\* The guest of a name whose port is free, or whose number is dead, is gone.
LEMMA NotRunning ==
  ASSUME DriverInductive, NEW q \in Thread, NEW n \in Quiet, call[q].n = n,
         call[q].pc # "spawned", ~IsRunning(dir[n].run)
  PROVE  Guests(n) = {}
<1> SUFFICES ASSUME NEW p \in Guests(n)  PROVE  FALSE
  OBVIOUS
<1>1. HasRuntime(n) /\ proc[p].port = dir[n].run.port /\ dir[n].run.pid = p
  BY SoundIn DEF Sound, At
<1>2. p \in Pid /\ proc[p].of = n /\ n \in Name
  BY DEF Guests, HoldsDisk, Quiet
<1> QED  BY <1>1, <1>2, Constants DEF IsRunning, PidAlive, InUse

LEMMA PortsFreeKeeps ==
  ASSUME DriverInductive, NEW q \in Thread, PortsFree(q)  PROVE  DriverInductive'
<1>1. DriverTypeOK
  BY DEF DriverInductive
<1>2. Read(q, {"start"}, "spawning") /\ ~IsRunning(dir[call[q].n].run)
  BY DEF PortsFree
<1>3. call[q].pc = "reading" /\ call[q].op = "start" /\ HasRuntime(call[q].n)
  BY <1>2, ReadIn DEF Pcs
<1>4. PICK c \in CallRecord :
        /\ call' = [call EXCEPT ![q] = c] /\ c.pc = "spawning" /\ c.op = call[q].op
        /\ c.n = call[q].n /\ c.from = call[q].from /\ c.run = dir[call[q].n].run
  BY <1>2, ReadIn DEF Pcs
<1>5. PICK n \in Name : n = call[q].n
  BY <1>3, CallFacts
<1>6. Shaped(c)
  BY <1>3, <1>4, CallFacts DEF Shaped
<1>7. /\ UNCHANGED <<dir, proc, standing, taken, filed, past>>
      /\ budget' \in [calls : 0..MaxCalls, faults : 0..MaxFaults]
  BY <1>1 DEF PortsFree, NoHost, host, NoTables, tables, DriverTypeOK
<1>8. ASSUME n \in Quiet  PROVE  Keeps(q, n)'
  <2>1. Guests(n) = {}
    BY <1>2, <1>3, <1>5, <1>8, NotRunning
  <2>2. call'[q] = c /\ dir' = dir /\ proc' = proc
    BY <1>1, <1>4, <1>7 DEF DriverTypeOK
  <2> QED  BY <1>3, <1>4, <1>5, <2>1, <2>2 DEF Keeps, HasRuntime, Guests, HoldsDisk
<1>9. NoneBoots
  BY <1>1, <1>7, Still
<1> QED  BY <1>3, <1>4, <1>5, <1>6, <1>7, <1>8, <1>9, Passes

LEMMA ReadToStopKeeps ==
  ASSUME DriverInductive, NEW q \in Thread, ReadToStop(q)  PROVE  DriverInductive'
<1>1. DriverTypeOK
  BY DEF DriverInductive
<1>2. Read(q, {"stop", "restart"}, "halting")
  BY DEF ReadToStop
<1>3. call[q].pc = "reading" /\ call[q].op \in {"stop", "restart"} /\ HasRuntime(call[q].n)
  BY <1>2, ReadIn DEF Pcs
<1>4. PICK c \in CallRecord :
        /\ call' = [call EXCEPT ![q] = c] /\ c.pc = "halting" /\ c.op = call[q].op
        /\ c.n = call[q].n /\ c.from = call[q].from /\ c.run = dir[call[q].n].run
  BY <1>2, ReadIn DEF Pcs
<1>5. PICK n \in Name : n = call[q].n
  BY <1>3, CallFacts
<1>6. Shaped(c)
  BY <1>3, <1>4, CallFacts DEF Shaped
<1>7. /\ UNCHANGED <<dir, proc, standing, taken, filed, past>>
      /\ budget' \in [calls : 0..MaxCalls, faults : 0..MaxFaults]
  BY <1>1 DEF ReadToStop, NoHost, host, NoTables, tables, DriverTypeOK
<1>8. Keeps(q, n)'
  <2>1. call'[q] = c /\ dir' = dir
    BY <1>1, <1>4, <1>7 DEF DriverTypeOK
  <2> QED  BY <1>3, <1>4, <1>5, <2>1 DEF Keeps, HasRuntime
<1>9. NoneBoots
  BY <1>1, <1>7, Still
<1> QED  BY <1>3, <1>4, <1>5, <1>6, <1>7, <1>8, <1>9, Passes

\* A call that halts goes on halting while guests go.
LEMMA HaltsOn ==
  ASSUME DriverInductive, NEW q \in Thread, call[q].pc = "halting", UNCHANGED call,
         NEW S, proc' = Without(S), UNCHANGED <<dir, taken>>, NoTables
  PROVE  DriverInductive'
<1>1. DriverTypeOK
  BY DEF DriverInductive
<1>2. PICK n \in Name : n = call[q].n
  BY CallFacts
<1>3. PICK c \in CallRecord : c = call[q]
  BY CallFacts
<1>4. Shaped(c) /\ call' = [call EXCEPT ![q] = c] /\ c.n = n /\ c.from = call[q].from /\ c.pc # "pinning"
  BY <1>1, <1>2, <1>3, CallFacts DEF DriverTypeOK
<1>5. /\ UNCHANGED <<dir, standing, taken, filed, past>>
      /\ budget' \in [calls : 0..MaxCalls, faults : 0..MaxFaults]
  BY <1>1 DEF NoTables, tables, DriverTypeOK
<1>6. ASSUME n \in Quiet  PROVE  Keeps(q, n)'
  <2>1. HasRuntime(n) /\ call[q].run = dir[n].run
    BY <1>2, <1>6, SoundIn DEF Sound, Keeps
  <2> QED  BY <1>5, <2>1 DEF Keeps, HasRuntime
<1>7. NoneBoots
  BY <1>1, GuestsGo
<1>8. call[q].pc \notin {"idle", "spawned", "writing", "filing"}
  OBVIOUS
<1> QED  BY <1>2, <1>4, <1>5, <1>6, <1>7, <1>8, Passes

LEMMA PowerDownKeeps ==
  ASSUME DriverInductive, NEW q \in Thread, PowerDown(q)  PROVE  DriverInductive'
BY HaltsOn DEF PowerDown, At

LEMMA HaltTimeoutKeeps ==
  ASSUME DriverInductive, NEW q \in Thread, HaltTimeout(q)  PROVE  DriverInductive'
BY HaltsOn DEF HaltTimeout, At

\* The copy that was read is written back without its process: by then the
\* guest is gone.
LEMMA HaltedKeeps ==
  ASSUME DriverInductive, NEW q \in Thread, Halted(q)  PROVE  DriverInductive'
<1>1. DriverTypeOK
  BY DEF DriverInductive
<1>2. call[q].pc = "halting" /\ ~PidAlive(call[q].run.pid) /\ ClearPid(q)
  BY DEF Halted, At
<1>3. PICK n \in Name : n = call[q].n
  BY <1>2, CallFacts
<1>4. call[q].op \in {"launch", "stop", "restart"} /\ call[q].run \in Runtime
  BY <1>2, CallFacts DEF Shaped, CallRecord
<1>5. \E c \in CallRecord :
        /\ call' = [call EXCEPT ![q] = c] /\ c.pc \in {"idle", "reading"} /\ Shaped(c)
        /\ c.pc = "idle" \/ (c.n = n /\ c.from = n)
  <2>1. CASE call[q].op = "restart"
    <3>1. PICK c : c = Ask("start", n, "reading")
      OBVIOUS
    <3>2. /\ c.pc = "reading" /\ c.op = "start" /\ c.n = n /\ c.from = n
          /\ c.run = NoRuntime /\ c.f = {} /\ c \in CallRecord
      BY <3>1, Empties DEF Ask, NoRequest, CallRecord
    <3>3. Shaped(c)
      BY <3>2 DEF Shaped
    <3>4. call' = [call EXCEPT ![q] = c]
      BY <1>2, <1>3, <2>1, <3>1 DEF ClearPid
    <3> QED  BY <3>2, <3>3, <3>4
  <2>2. CASE call[q].op \in {"launch", "stop"}
    <3>1. Leave(q)
      BY <1>2, <2>2 DEF ClearPid, Fail
    <3> QED  BY <3>1, Leaves
  <2> QED  BY <1>4, <2>1, <2>2
<1>6. PICK c \in CallRecord :
        /\ call' = [call EXCEPT ![q] = c] /\ c.pc \in {"idle", "reading"} /\ Shaped(c)
        /\ c.pc = "idle" \/ (c.n = n /\ c.from = n)
  BY <1>5
<1>7. c.pc = "idle" \/ (c.n = n /\ c.from \in NamesOf(call[q]))
  BY <1>3, <1>6 DEF NamesOf
<1>8. PickedNew(n, q, c)
  BY <1>6 DEF PickedNew
<1>9. UNCHANGED standing \/ \E st \in Status \ {"none"} : SetStanding(n, st)
  BY <1>2, <1>3, <1>4 DEF ClearPid, Fail, Status
<1>10. PICK r : r = [call[q].run EXCEPT !.pid = NoPid]
  OBVIOUS
<1>11. r \in Runtime /\ r.pid = NoPid /\ r.port = call[q].run.port /\ r.fwd = call[q].run.fwd
  BY <1>4, <1>10 DEF Runtime
<1>12. PICK d : d = IF dir[n].made THEN [dir[n] EXCEPT !.run = r] ELSE dir[n]
  OBVIOUS
<1>13. d \in Directory /\ (dir[n].made => d.made = TRUE /\ d.disk = dir[n].disk /\ d.run = r)
  BY <1>1, <1>11, <1>12 DEF Directory, DriverTypeOK
<1>14. dir' = [dir EXCEPT ![n] = d]
  BY <1>1, <1>2, <1>3, <1>10, <1>12 DEF ClearPid, DriverTypeOK
<1>15. /\ UNCHANGED <<proc, taken, filed>>
       /\ raced' = raced /\ astray' = astray /\ raced' \subseteq Name /\ astray' \subseteq Name
       /\ budget' \in [calls : 0..MaxCalls, faults : 0..MaxFaults]
  BY <1>1, <1>2 DEF ClearPid, past, DriverTypeOK
<1>16. ASSUME n \in Quiet'  PROVE  Left(n, q, c, d)
  <2>1. n \in Quiet /\ Sound(n, q)
    BY <1>3, <1>15, <1>16, SoundIn DEF Quiet
  <2>2. HasRuntime(n) /\ call[q].run = dir[n].run
    BY <1>2, <1>3, <2>1 DEF Sound, Keeps
  <2>3. dir[n].made /\ dir[n].disk = "whole" /\ dir[n].run.port \in Port
    BY <2>1, <2>2 DEF Sound
  <2>4. ~IsRunning(dir[n].run)
    BY <1>2, <2>2 DEF IsRunning
  <2>5. Guests(n) = {}
    BY <1>2, <1>3, <2>1, <2>4, NotRunning
  <2>6. filed[n] = dir[n].run.fwd
    BY <1>2, <2>1 DEF Sound, At
  <2>7. call'[q] = c
    BY <1>1, <1>6 DEF DriverTypeOK
  <2>8. c.pc # "idle" => Keeps(q, n)'
    BY <1>6, <2>7 DEF Keeps
  <2> QED  BY <1>11, <1>13, <2>2, <2>3, <2>5, <2>6, <2>8 DEF Left
<1>17. NoneBoots
  BY <1>1, <1>15, Still
<1>18. call[q].n = n /\ call[q].pc # "idle" /\ Shaped(c) /\ call' = [call EXCEPT ![q] = c]
  BY <1>2, <1>3, <1>6
<1> QED  BY <1>7, <1>8, <1>9, <1>13, <1>14, <1>15, <1>16, <1>17, <1>18, Moves

LEMMA QuitKeeps ==
  ASSUME DriverInductive, NEW q \in Thread, Quit(q)  PROVE  DriverInductive'
<1>1. DriverTypeOK
  BY DEF DriverInductive
<1>2. call[q].pc = "destroying"
  BY DEF Quit, At
<1>3. PICK n \in Name : n = call[q].n
  BY <1>2, CallFacts
<1>4. PICK c \in CallRecord :
        /\ call' = [call EXCEPT ![q] = c] /\ c.pc = "removing" /\ c.op = call[q].op
        /\ c.n = call[q].n /\ c.from = call[q].from /\ c.run = call[q].run
  BY Goes DEF Quit, Pcs
<1>5. Shaped(c)
  BY <1>2, <1>4, CallFacts DEF Shaped
<1>6. PICK quits : proc' = IF PidAlive(dir[n].run.pid) THEN Without({dir[n].run.pid} \union quits)
                                                       ELSE proc
  BY <1>3 DEF Quit
<1>7. NoneBoots
  BY <1>1, <1>6, Still, GuestsGo
<1>8. /\ UNCHANGED <<dir, standing, taken, filed, past>>
      /\ budget' \in [calls : 0..MaxCalls, faults : 0..MaxFaults]
  BY <1>1 DEF Quit, NoTables, tables, DriverTypeOK
<1>9. ASSUME n \in Quiet  PROVE  Keeps(q, n)'
  <2>1. ASSUME NEW p \in Guests(n)'  PROVE  FALSE
    <3>1. p \in Pid /\ proc'[p] = proc[p] /\ p \in Guests(n)
      BY <1>7, <2>1 DEF NoneBoots, Guests, HoldsDisk, Free
    <3>2. dir[n].run.pid = p
      BY <1>2, <1>3, <1>9, <3>1, SoundIn DEF Sound, At
    <3>3. proc[p].of = n
      BY <3>1 DEF Guests, HoldsDisk
    <3>4. PidAlive(dir[n].run.pid)
      BY <3>1, <3>2, <3>3, Constants DEF PidAlive
    <3>5. proc'[p] = Free
      BY <1>6, <3>1, <3>2, <3>4 DEF Without
    <3> QED  BY <3>1, <3>3, <3>5, Constants DEF Free
  <2>2. call'[q] = c /\ dir' = dir
    BY <1>1, <1>4, <1>8 DEF DriverTypeOK
  <2> QED  BY <1>4, <2>1, <2>2 DEF Keeps
<1> QED  BY <1>2, <1>3, <1>4, <1>5, <1>7, <1>8, <1>9, Passes

LEMMA RemoveFailsKeeps ==
  ASSUME DriverInductive, NEW q \in Thread, RemoveFails(q)  PROVE  DriverInductive'
<1>1. DriverTypeOK
  BY DEF DriverInductive
<1>2. call[q].pc = "removing"
  BY DEF RemoveFails, At
<1>3. PICK n \in Name : n = call[q].n
  BY <1>2, CallFacts
<1>4. PICK c \in CallRecord :
        call' = [call EXCEPT ![q] = c] /\ c.pc = "idle" /\ Shaped(c) /\ PickedNew(n, q, c)
  BY Leaves DEF RemoveFails, Fail
<1>5. PICK left \in {dir[n].run, NoRuntime} : dir' = [dir EXCEPT ![n].run = left]
  BY <1>3 DEF RemoveFails
<1>6. left \in Runtime
  BY <1>2, <1>3, <1>5, CallFacts, Empties
<1>7. PICK d : d = [dir[n] EXCEPT !.run = left]
  OBVIOUS
<1>8. d \in Directory /\ dir' = [dir EXCEPT ![n] = d]
  BY <1>1, <1>5, <1>6, <1>7 DEF Directory, DriverTypeOK
<1>9. /\ UNCHANGED <<proc, taken, filed>> /\ raced' = raced /\ astray' = astray \union {n}
      /\ raced' \subseteq Name /\ astray' \subseteq Name
      /\ budget' \in [calls : 0..MaxCalls, faults : 0..MaxFaults]
  BY <1>1, <1>3 DEF RemoveFails, DriverTypeOK
<1>10. n \notin Quiet'
  BY <1>9 DEF Quiet
<1>11. \E st \in Status \ {"none"} : SetStanding(n, st)
  BY <1>3 DEF RemoveFails, Fail, Status
<1>12. NoneBoots
  BY <1>1, <1>9, Still
<1> QED  BY <1>2, <1>3, <1>4, <1>8, <1>9, <1>10, <1>11, <1>12, Moves

-----------------------------------------------------------------------------
(***************************************************************************)
(* The copy of a disk.                                                     *)
(***************************************************************************)

\* A stopped source whose only call is this clone runs no guest.
LEMMA SourceRests ==
  ASSUME DriverInductive, NEW q \in Thread, call[q].pc = "checking",
         NEW s \in Quiet, s = call[q].from, ~(HasRuntime(s) /\ IsRunning(dir[s].run))
  PROVE  Guests(s) = {}
<1> SUFFICES ASSUME NEW p \in Guests(s)  PROVE  FALSE
  OBVIOUS
<1>1. s \in Name \ raced /\ Good(s) /\ WorksOn(q, s)
  BY DEF DriverInductive, Quiet, WorksOn
<1>2. \A k \in Thread : At(k, "spawned") /\ call[k].n = s => WorksOn(k, s)
  BY DEF At, WorksOn
<1>3. \A k \in Thread : At(k, "spawned") => call[k].n # s
  BY <1>1, <1>2, Sole DEF At
<1>4. HasRuntime(s) /\ proc[p].port = dir[s].run.port /\ dir[s].run.pid = p
  BY <1>1, <1>3 DEF Good
<1>5. p \in Pid /\ proc[p].of = s
  BY DEF Guests, HoldsDisk
<1> QED  BY <1>1, <1>4, <1>5, Constants DEF IsRunning, PidAlive, InUse

LEMMA CopyKeeps ==
  ASSUME DriverInductive, NEW q \in Thread, Copy(q)  PROVE  DriverInductive'
<1>1. DriverTypeOK
  BY DEF DriverInductive
<1>2. call[q].pc = "checking"
  BY DEF Copy, At
<1>3. PICK n \in Name : n = call[q].n
  BY <1>2, CallFacts
<1>4. PICK s \in Name : s = call[q].from
  BY <1>2, CallFacts
<1>5. PICK c \in CallRecord :
        /\ call' = [call EXCEPT ![q] = c] /\ c.pc = "copying" /\ c.op = call[q].op
        /\ c.n = call[q].n /\ c.from = call[q].from
  BY Goes DEF Copy, Pcs
<1>6. Shaped(c) /\ c.from \in NamesOf(call[q]) /\ PickedNew(n, q, c)
  BY <1>2, <1>5, CallFacts DEF Shaped, NamesOf, PickedNew
<1>7. PICK disk \in {"part", "torn"} :
        disk = (IF Guests(s) = {} THEN "part" ELSE "torn")
  OBVIOUS
<1>8. PICK d : d = [dir[n] EXCEPT !.made = TRUE, !.disk = disk]
  OBVIOUS
<1>9. d \in Directory /\ d.made = TRUE /\ d.disk = disk /\ d.run = dir[n].run
  BY <1>1, <1>7, <1>8 DEF Directory, DriverTypeOK
<1>10. dir' = [dir EXCEPT ![n] = d]
  BY <1>1, <1>3, <1>4, <1>7, <1>8 DEF Copy, DriverTypeOK
<1>11. /\ UNCHANGED <<proc, taken, filed, standing>> /\ raced' = raced
       /\ astray' = IF s \in raced \union astray THEN astray \union {n} ELSE astray
       /\ ~(HasRuntime(s) /\ IsRunning(dir[s].run))
       /\ budget' \in [calls : 0..MaxCalls, faults : 0..MaxFaults]
  BY <1>1, <1>3, <1>4 DEF Copy, tables, DriverTypeOK
<1>12. raced' \subseteq Name /\ astray' \subseteq Name /\ astray \subseteq astray'
  BY <1>1, <1>11 DEF DriverTypeOK
<1>13. ASSUME n \in Quiet'  PROVE  Left(n, q, c, d)
  <2>1. n \in Quiet /\ s \in Quiet
    BY <1>11, <1>12, <1>13 DEF Quiet
  <2>2. dir[n] = NoDirectory /\ Sound(n, q)
    BY <1>2, <1>3, <2>1, SoundIn DEF Sound, Keeps
  <2>3. ~HasRuntime(n) /\ dir[n].run = NoRuntime
    BY <2>2 DEF HasRuntime, NoDirectory
  <2>4. Guests(n) = {}
    BY <1>2, <1>3, <2>1, <2>3, NoGuest
  <2>5. filed[n] = {}
    BY <1>2, <2>2, <2>3 DEF Sound, NoRuntime, At
  <2>6. disk = "part"
    BY <1>2, <1>4, <1>7, <1>11, <2>1, SourceRests
  <2>7. call'[q] = c /\ dir'[n] = d
    BY <1>1, <1>5, <1>10 DEF DriverTypeOK
  <2>8. Keeps(q, n)'
    BY <1>5, <1>9, <2>3, <2>6, <2>7 DEF Keeps, HasRuntime
  <2> QED  BY <1>9, <2>3, <2>4, <2>5, <2>8 DEF Left, NoRuntime
<1>14. NoneBoots
  BY <1>1, <1>11, Still
<1> QED  BY <1>2, <1>3, <1>5, <1>6, <1>9, <1>10, <1>11, <1>12, <1>13, <1>14, Moves

\* The copy is there, and the call goes on to a port.
LEMMA CopyEnds ==
  ASSUME DriverInductive, NEW q \in Thread, call[q].pc = "copying",
         dir' = [dir EXCEPT ![call[q].n].disk = Whole(@)], Goto(q, "allocating"),
         UNCHANGED <<proc, taken, tables, past>>,
         budget' \in [calls : 0..MaxCalls, faults : 0..MaxFaults]
  PROVE  DriverInductive'
<1>1. DriverTypeOK
  BY DEF DriverInductive
<1>2. PICK n \in Name : n = call[q].n
  BY CallFacts
<1>3. PICK c \in CallRecord :
        /\ call' = [call EXCEPT ![q] = c] /\ c.pc = "allocating" /\ c.op = call[q].op
        /\ c.n = call[q].n /\ c.from = call[q].from
  BY Goes DEF Pcs
<1>4. Shaped(c) /\ c.from \in NamesOf(call[q]) /\ PickedNew(n, q, c)
  BY <1>3, CallFacts DEF Shaped, NamesOf, PickedNew
<1>5. PICK disk : disk = Whole(dir[n].disk)
  OBVIOUS
<1>6. disk \in {"none", "part", "torn", "whole"} /\ (dir[n].disk = "part" => disk = "whole")
  BY <1>1, <1>5 DEF Whole, Directory, DriverTypeOK
<1>7. PICK d : d = [dir[n] EXCEPT !.disk = disk]
  OBVIOUS
<1>8. d \in Directory /\ d.made = dir[n].made /\ d.disk = disk /\ d.run = dir[n].run
  BY <1>1, <1>6, <1>7 DEF Directory, DriverTypeOK
<1>9. dir' = [dir EXCEPT ![n] = d]
  BY <1>1, <1>2, <1>5, <1>7 DEF DriverTypeOK
<1>10. /\ UNCHANGED <<proc, taken, filed, standing>> /\ raced' = raced /\ astray' = astray
       /\ raced' \subseteq Name /\ astray' \subseteq Name
  BY <1>1 DEF tables, past, DriverTypeOK
<1>11. ASSUME n \in Quiet'  PROVE  Left(n, q, c, d)
  <2>1. n \in Quiet /\ Sound(n, q)
    BY <1>2, <1>10, <1>11, SoundIn DEF Quiet
  <2>2. dir[n].made /\ ~HasRuntime(n) /\ dir[n].disk = "part"
    BY <1>2, <2>1 DEF Sound, Keeps
  <2>3. Guests(n) = {}
    BY <1>2, <2>1, <2>2, NoGuest
  <2>4. filed[n] = {} /\ dir[n].run = NoRuntime
    BY <2>1, <2>2 DEF Sound, HasRuntime, NoRuntime, At
  <2>5. call'[q] = c /\ dir'[n] = d
    BY <1>1, <1>3, <1>9 DEF DriverTypeOK
  <2>6. Keeps(q, n)'
    BY <1>3, <1>6, <1>8, <2>2, <2>4, <2>5 DEF Keeps, HasRuntime
  <2> QED  BY <1>8, <2>3, <2>4, <2>6 DEF Left, NoRuntime
<1>12. NoneBoots
  BY <1>1, <1>10, Still
<1> QED  BY <1>2, <1>3, <1>4, <1>8, <1>9, <1>10, <1>11, <1>12, Moves, ZenonT(60)

LEMMA CopiedKeeps ==
  ASSUME DriverInductive, NEW q \in Thread, Copied(q)  PROVE  DriverInductive'
<1>1. budget' \in [calls : 0..MaxCalls, faults : 0..MaxFaults]
  BY DEF DriverInductive, DriverTypeOK, Copied, NoTables
<1> QED  BY <1>1, CopyEnds DEF Copied, At, NoTables

LEMMA CopyTimesOutKeeps ==
  ASSUME DriverInductive, NEW q \in Thread, CopyTimesOut(q)  PROVE  DriverInductive'
<1>1. DriverTypeOK
  BY DEF DriverInductive
<1>2. budget' \in [calls : 0..MaxCalls, faults : 0..MaxFaults]
  BY <1>1, Faults DEF CopyTimesOut
<1>3. call[q].pc = "copying" /\ UNCHANGED <<proc, taken, filed, past>>
  BY DEF CopyTimesOut, At
<1>4. CASE Fail(q) /\ UNCHANGED dir
  <2>1. raced' = raced /\ astray' = astray /\ raced' \subseteq Name /\ astray' \subseteq Name
    BY <1>1, <1>3 DEF past, DriverTypeOK
  <2> QED  BY <1>2, <1>3, <1>4, <2>1, Ends DEF Fail, Status
<1>5. CASE /\ dir' = [dir EXCEPT ![call[q].n].disk = Whole(@)]
           /\ Goto(q, "allocating") /\ UNCHANGED standing
  BY <1>2, <1>3, <1>5, CopyEnds DEF tables
<1> QED  BY <1>4, <1>5 DEF CopyTimesOut

-----------------------------------------------------------------------------
(***************************************************************************)
(* Port forwards.                                                          *)
(***************************************************************************)

\* Changing twice is changing once.
LEMMA Twice == ASSUME NEW c \in CallRecord, NEW fwd \in SUBSET Public
               PROVE  By(c, fwd) \in SUBSET Public
BY DEF By, CallRecord

LEMMA ReadToForwardKeeps ==
  ASSUME DriverInductive, NEW q \in Thread, ReadToForward(q)  PROVE  DriverInductive'
<1>1. DriverTypeOK
  BY DEF DriverInductive
<1>2. PICK r : r = dir[call[q].n].run
  OBVIOUS
<1>3. PICK pc \in Pcs :
        pc = (IF call[q].op = "forward" /\ call[q].f \subseteq r.fwd THEN "filing"
              ELSE IF IsRunning(r) THEN "applying" ELSE "writing")
  BY DEF Pcs
<1>4. Read(q, {"forward", "unforward"}, pc)
  BY <1>2, <1>3 DEF ReadToForward
<1>5. call[q].pc = "reading" /\ call[q].op \in {"forward", "unforward"} /\ HasRuntime(call[q].n)
  BY <1>4, ReadIn
<1>6. PICK c \in CallRecord :
        /\ call' = [call EXCEPT ![q] = c] /\ c.pc = pc /\ c.op = call[q].op
        /\ c.n = call[q].n /\ c.from = call[q].from /\ c.run = dir[call[q].n].run
        /\ c.f = call[q].f
  BY <1>4, ReadIn
<1>7. PICK n \in Name : n = call[q].n
  BY <1>5, CallFacts
<1>8. c.pc \in {"filing", "applying", "writing"}
  BY <1>3, <1>6
<1>9. Shaped(c)
  BY <1>5, <1>6, <1>8, CallFacts DEF Shaped
<1>10. /\ UNCHANGED <<dir, proc, standing, taken, filed, past>>
       /\ budget' \in [calls : 0..MaxCalls, faults : 0..MaxFaults]
  BY <1>1 DEF ReadToForward, NoHost, host, NoTables, tables, DriverTypeOK
<1>11. ASSUME n \in Quiet  PROVE  Keeps(q, n)'
  <2>1. filed[n] = dir[n].run.fwd
    BY <1>5, <1>7, <1>11, SoundIn DEF Sound, At
  <2>2. call'[q] = c /\ dir' = dir /\ proc' = proc /\ filed' = filed
    BY <1>1, <1>6, <1>10 DEF DriverTypeOK
  <2>3. c.pc = "writing" => Guests(n) = {}
    BY <1>2, <1>3, <1>5, <1>6, <1>7, <1>11, NotRunning
  <2>4. c.pc = "writing" => Guests(n)' = {}
    BY <2>2, <2>3 DEF Guests, HoldsDisk
  <2>5. c.pc = "filing" => c.op = "forward" /\ c.f \subseteq dir[n].run.fwd
    BY <1>2, <1>3, <1>6, <1>7
  <2>6. c.pc = "filing" => dir[n].run.fwd = By(c, filed[n])
    BY <2>1, <2>5 DEF By
  <2> QED  BY <1>5, <1>6, <1>7, <1>8, <2>2, <2>4, <2>6 DEF Keeps, HasRuntime
<1>12. NoneBoots
  BY <1>1, <1>10, Still
<1>13. c.pc # "pinning"
  BY <1>8
<1> QED  BY <1>5, <1>6, <1>7, <1>9, <1>10, <1>11, <1>12, <1>13, Passes

LEMMA WriteForwardKeeps ==
  ASSUME DriverInductive, NEW q \in Thread, WriteForward(q)  PROVE  DriverInductive'
<1>1. DriverTypeOK
  BY DEF DriverInductive
<1>2. call[q].pc = "writing"
  BY DEF WriteForward, At
<1>3. PICK n \in Name : n = call[q].n
  BY <1>2, CallFacts
<1>4. PICK c \in CallRecord :
        /\ call' = [call EXCEPT ![q] = c] /\ c.pc = "filing" /\ c.op = call[q].op
        /\ c.n = call[q].n /\ c.from = call[q].from /\ c.run = call[q].run /\ c.f = call[q].f
  BY Goes DEF WriteForward, Pcs
<1>5. Shaped(c) /\ c.from \in NamesOf(call[q]) /\ PickedNew(n, q, c)
  BY <1>2, <1>4, CallFacts DEF Shaped, NamesOf, PickedNew
<1>6. PICK fwd : fwd = By(c, call[q].run.fwd)
  OBVIOUS
<1>7. call[q].run \in Runtime
  BY <1>2, CallFacts DEF CallRecord
<1>8. fwd \in SUBSET Public /\ fwd = Changed(q, call[q].run.fwd)
  BY <1>4, <1>6, <1>7, Twice DEF Runtime, Changed, By
<1>9. PICK r : r = [call[q].run EXCEPT !.fwd = fwd]
  OBVIOUS
<1>10. r \in Runtime /\ r.port = call[q].run.port /\ r.pid = call[q].run.pid /\ r.fwd = fwd
  BY <1>7, <1>8, <1>9 DEF Runtime
<1>11. PICK d : d = [dir[n] EXCEPT !.made = TRUE, !.run = r]
  OBVIOUS
<1>12. d \in Directory /\ d.made = TRUE /\ d.disk = dir[n].disk /\ d.run = r
  BY <1>1, <1>10, <1>11 DEF Directory, DriverTypeOK
<1>13. r = [call[q].run EXCEPT !.fwd = Changed(q, call[q].run.fwd)]
  BY <1>8, <1>9
<1>14. dir' = [dir EXCEPT ![n] = d]
  BY <1>3, <1>11, <1>13 DEF WriteForward, WriteRuntime
<1>15. /\ UNCHANGED <<proc, taken, filed, standing>>
       /\ raced' = raced /\ astray' = astray /\ raced' \subseteq Name /\ astray' \subseteq Name
       /\ budget' \in [calls : 0..MaxCalls, faults : 0..MaxFaults]
  BY <1>1 DEF WriteForward, NoTables, tables, past, DriverTypeOK
<1>16. ASSUME n \in Quiet'  PROVE  Left(n, q, c, d)
  <2>1. n \in Quiet /\ Sound(n, q)
    BY <1>3, <1>15, <1>16, SoundIn DEF Quiet
  <2>2. /\ HasRuntime(n) /\ call[q].run = dir[n].run
        /\ \A p \in Guests(n) : proc[p].fwd = By(call[q], dir[n].run.fwd)
    BY <1>2, <1>3, <2>1 DEF Sound, Keeps
  <2>3. dir[n].disk = "whole" /\ dir[n].run.port \in Port
    BY <2>1, <2>2 DEF Sound
  <2>4. \A x : By(c, x) = By(call[q], x)
    BY <1>4 DEF By
  <2>5. \A p \in Guests(n) : proc[p].port = r.port /\ r.pid = p /\ proc[p].fwd = r.fwd
    BY <1>2, <1>6, <1>10, <2>1, <2>2, <2>4 DEF Sound, At
  <2>6. filed[n] = dir[n].run.fwd
    BY <1>2, <2>1 DEF Sound, At
  <2>7. r.fwd = By(c, filed[n])
    BY <1>6, <1>10, <2>2, <2>6
  <2>8. call'[q] = c /\ dir'[n] = d /\ filed' = filed
    BY <1>1, <1>4, <1>14, <1>15 DEF DriverTypeOK
  <2>9. Keeps(q, n)'
    BY <1>4, <1>12, <2>7, <2>8 DEF Keeps
  <2>10. r # NoRuntime
    BY <1>10, <2>2, <2>3, Constants DEF NoRuntime
  <2> QED  BY <1>4, <1>10, <1>12, <2>2, <2>3, <2>5, <2>7, <2>9, <2>10 DEF Left
<1>17. NoneBoots
  BY <1>1, <1>15, Still
<1> QED  BY <1>2, <1>3, <1>4, <1>5, <1>12, <1>14, <1>15, <1>16, <1>17, Moves

LEMMA FileForwardKeeps ==
  ASSUME DriverInductive, NEW q \in Thread, FileForward(q)  PROVE  DriverInductive'
<1>1. DriverTypeOK
  BY DEF DriverInductive
<1>2. call[q].pc = "filing"
  BY DEF FileForward, At
<1>3. PICK n \in Name : n = call[q].n
  BY <1>2, CallFacts
<1>4. PICK c \in CallRecord : c = NoRequest
  BY Empties
<1>5. c.pc = "idle" /\ Shaped(c) /\ call' = [call EXCEPT ![q] = c]
  BY <1>4, Empties DEF FileForward, Leave, NoRequest
<1>6. PICK fwd : fwd = By(call[q], filed[n])
  OBVIOUS
<1>7. fwd \in SUBSET Public
  BY <1>1, <1>2, <1>6, CallFacts, Twice DEF DriverTypeOK
<1>8. filed' = [filed EXCEPT ![n] = fwd]
  BY <1>3, <1>6 DEF FileForward, Changed, By
<1>9. filed' \in [Name -> SUBSET Public] /\ filed'[n] = fwd /\ \A m \in Name \ {n} : filed'[m] = filed[m]
  BY <1>1, <1>7, <1>8 DEF DriverTypeOK
<1>10. /\ dir' = dir /\ proc' = proc /\ standing' = standing /\ taken' = taken
       /\ raced' = raced /\ astray' = astray /\ Quiet' = Quiet
       /\ budget' \in [calls : 0..MaxCalls, faults : 0..MaxFaults]
  BY <1>1 DEF FileForward, NoHost, host, past, DriverTypeOK, Quiet
<1>11. /\ dir' \in [Name -> Directory] /\ standing' \in [Name -> Status]
       /\ proc' \in [Pid -> Process] /\ taken' \subseteq Port \union Public
       /\ raced' \subseteq Name /\ astray' \subseteq Name
  BY <1>1, <1>10 DEF DriverTypeOK
<1>12. BoundOnce'
  BY <1>10 DEF DriverInductive, BoundOnce
<1>13. ASSUME n \in Quiet'  PROVE  n \in Quiet /\ Sound(n, q)' /\ PortKept(n)
  <2>1. n \in Quiet /\ Sound(n, q) /\ standing[n] # "none"
    BY <1>3, <1>10, <1>13, SoundIn
  <2>2. dir[n].run.fwd = fwd
    BY <1>2, <1>3, <1>6, <2>1 DEF Sound, Keeps
  <2>3. call'[q] = c
    BY <1>1, <1>5 DEF DriverTypeOK
  <2>4. Guests(n)' = Guests(n) /\ (HasRuntime(n)' <=> HasRuntime(n))
    BY <1>10 DEF Guests, HoldsDisk, HasRuntime
  <2>5. call'[q].n # n
    BY <1>4, <2>3, Constants DEF NoRequest
  <2>6. \A p \in Guests(n) :
          /\ HasRuntime(n) /\ proc[p].port = dir[n].run.port
          /\ dir[n].run.pid = p /\ proc[p].fwd = dir[n].run.fwd
    BY <1>2, <2>1 DEF Sound, At
  <2>7. HasRuntime(n) => dir[n].made /\ dir[n].disk = "whole" /\ dir[n].run.port \in Port
    BY <2>1 DEF Sound
  <2>8. Sound(n, q)'
    BY <1>9, <1>10, <2>1, <2>2, <2>4, <2>5, <2>6, <2>7 DEF Sound
  <2> QED  BY <1>10, <2>1, <2>4, <2>8 DEF PortKept
<1>14. PickedNew(n, q, c)
  BY <1>5 DEF PickedNew
<1>15. /\ \A m \in Quiet' \ {n} : dir'[m] = dir[m]
       /\ \A m \in Name \ {n} : standing'[m] = standing[m]
       /\ \A m \in Quiet' \ {n}, p \in Pid :
             proc'[p].of = m /\ proc'[p].port # NoPort => proc'[p] = proc[p]
       /\ raced \ {n} \subseteq raced' /\ astray \ {n} \subseteq astray'
  BY <1>10
<1>16. n \in raced /\ n \notin raced' => Alone(n, q) /\ c.pc = "idle"
  BY <1>10
<1>17. n \in Quiet' => (n \in Quiet \/ Alone(n, q)) /\ Sound(n, q)'
  BY <1>13
<1>18. n \in Quiet' => (n \in Quiet /\ PortKept(n)) \/ ~HasRuntime(n)' \/ PortNew(n, q)
  BY <1>13
<1> QED  BY <1>3, <1>5, <1>9, <1>10, <1>11, <1>12, <1>14, <1>15, <1>16, <1>17, <1>18, ThreadMoves

\* The guest that answers on the port is the name's own, if it has one.
LEMMA ApplyKeeps ==
  ASSUME DriverInductive, NEW q \in Thread, Apply(q)  PROVE  DriverInductive'
<1>1. DriverTypeOK
  BY DEF DriverInductive
<1>2. call[q].pc = "applying"
  BY DEF Apply, At
<1>3. PICK n \in Name : n = call[q].n
  BY <1>2, CallFacts
<1>4. PICK c \in CallRecord :
        /\ call' = [call EXCEPT ![q] = c] /\ c.pc = "writing" /\ c.op = call[q].op
        /\ c.n = call[q].n /\ c.from = call[q].from /\ c.run = call[q].run /\ c.f = call[q].f
  BY Goes DEF Apply, Pcs
<1>5. Shaped(c) /\ c.from \in NamesOf(call[q]) /\ PickedNew(n, q, c)
  BY <1>2, <1>4, CallFacts DEF Shaped, NamesOf, PickedNew
<1>6. PICK x \in Pid :
        /\ x \in Listening(call[q].run.port)
        /\ proc' = [proc EXCEPT ![x].fwd = Changed(q, @)]
        /\ raced' = IF proc[x].of = call[q].n THEN raced ELSE raced \union {proc[x].of}
  BY DEF Apply, Listening
<1>7. proc[x].of \in Name /\ proc[x].port = call[q].run.port
  BY <1>6 DEF Listening
<1>8. PICK fwd : fwd = By(c, proc[x].fwd)
  OBVIOUS
<1>9. fwd \in SUBSET Public /\ fwd = Changed(q, proc[x].fwd)
  BY <1>1, <1>4, <1>8, Twice DEF DriverTypeOK, Process, Changed, By
<1>10. PICK y : y = [proc[x] EXCEPT !.fwd = fwd]
  OBVIOUS
<1>11. y \in Process /\ y.of = proc[x].of /\ y.port = proc[x].port /\ y.fwd = fwd
  BY <1>1, <1>9, <1>10 DEF DriverTypeOK, Process
<1>12. proc' = [proc EXCEPT ![x] = y]
  BY <1>6, <1>9, <1>10
<1>13. /\ proc' \in [Pid -> Process] /\ proc'[x] = y /\ \A p \in Pid \ {x} : proc'[p] = proc[p]
       /\ \A p \in Pid : proc'[p].of = proc[p].of /\ proc'[p].port = proc[p].port
  BY <1>1, <1>11, <1>12 DEF DriverTypeOK
<1>14. /\ dir' = dir /\ standing' = standing /\ taken' = taken /\ filed' = filed /\ astray' = astray
       /\ budget' \in [calls : 0..MaxCalls, faults : 0..MaxFaults]
  BY <1>1 DEF Apply, tables, DriverTypeOK
<1>15. /\ dir' \in [Name -> Directory] /\ standing' \in [Name -> Status]
       /\ filed' \in [Name -> SUBSET Public] /\ taken' \subseteq Port \union Public
       /\ raced' \subseteq Name /\ astray' \subseteq Name /\ raced \subseteq raced'
  BY <1>1, <1>6, <1>7, <1>14 DEF DriverTypeOK
<1>16. BoundOnce'
  BY <1>13 DEF DriverInductive, BoundOnce
<1>17. Quiet' \subseteq Quiet
  BY <1>14, <1>15 DEF Quiet
<1>18. ASSUME n \in Quiet'  PROVE  n \in Quiet /\ Sound(n, q)' /\ PortKept(n)
  <2>1. n \in Quiet /\ Sound(n, q) /\ standing[n] # "none"
    BY <1>3, <1>17, <1>18, SoundIn
  <2>2. HasRuntime(n) /\ call[q].run = dir[n].run
    BY <1>2, <1>3, <2>1 DEF Sound, Keeps
  <2>3. dir[n].made /\ dir[n].disk = "whole" /\ dir[n].run.port \in Port /\ filed[n] = dir[n].run.fwd
    BY <1>2, <2>1, <2>2 DEF Sound, At
  <2>4. call'[q] = c
    BY <1>1, <1>4 DEF DriverTypeOK
  <2>5. Guests(n)' = Guests(n) /\ HasRuntime(n)'
    BY <1>13, <1>14, <2>2 DEF Guests, HoldsDisk, HasRuntime
  <2>6. \A p \in Guests(n) :
          proc[p].port = dir[n].run.port /\ dir[n].run.pid = p /\ proc[p].fwd = dir[n].run.fwd
    BY <1>2, <2>1 DEF Sound, At
  <2>7. \A p \in Guests(n) : p = x
    BY <1>7, <2>2, <2>3, <2>6, Constants DEF DriverInductive, BoundOnce, Guests, HoldsDisk
  <2>8. \A p \in Guests(n) : proc'[p].fwd = By(c, dir[n].run.fwd)
    BY <1>8, <1>11, <1>13, <2>6, <2>7
  <2>9. \A p \in Guests(n) : proc'[p].port = dir[n].run.port
    BY <1>13, <2>6 DEF Guests, HoldsDisk
  <2>10. Keeps(q, n)'
    BY <1>4, <1>14, <2>2, <2>4, <2>5, <2>8 DEF Keeps
  <2>11. Sound(n, q)'
    BY <1>4, <1>14, <2>1, <2>3, <2>4, <2>5, <2>6, <2>8, <2>9, <2>10 DEF Sound, At
  <2> QED  BY <1>14, <2>1, <2>2, <2>11 DEF PortKept
<1>19. \A m \in Quiet' \ {n}, p \in Pid :
         proc'[p].of = m /\ proc'[p].port # NoPort => proc'[p] = proc[p]
  BY <1>3, <1>6, <1>13 DEF Quiet
<1>20. /\ \A m \in Quiet' \ {n} : dir'[m] = dir[m]
       /\ \A m \in Name \ {n} : standing'[m] = standing[m]
       /\ \A m \in Name \ {n} : filed'[m] = filed[m]
       /\ raced \ {n} \subseteq raced' /\ astray \ {n} \subseteq astray'
  BY <1>14, <1>15
<1>21. n \in raced /\ n \notin raced' => Alone(n, q) /\ c.pc = "idle"
  BY <1>15
<1>22. n \in Quiet' => (n \in Quiet \/ Alone(n, q)) /\ Sound(n, q)'
  BY <1>18
<1>23. n \in Quiet' => (n \in Quiet /\ PortKept(n)) \/ ~HasRuntime(n)' \/ PortNew(n, q)
  BY <1>18
<1>24. c.pc = "idle" \/ (c.n = n /\ c.from \in NamesOf(call[q]))
  BY <1>3, <1>4, <1>5
<1> QED  BY <1>3, <1>4, <1>5, <1>13, <1>14, <1>15, <1>16, <1>19, <1>20, <1>21, <1>22, <1>23, <1>24, ThreadMoves, ZenonT(60)

-----------------------------------------------------------------------------
(***************************************************************************)
(* The end of a name.                                                      *)
(***************************************************************************)

LEMMA ForceDeleteKeeps ==
  ASSUME DriverInductive, NEW q \in Thread, ForceDelete(q)  PROVE  DriverInductive'
<1>1. DriverTypeOK
  BY DEF DriverInductive
<1>2. call[q].pc = "removing"
  BY DEF ForceDelete, At
<1>3. PICK n \in Name : n = call[q].n
  BY <1>2, CallFacts
<1>4. PICK c \in CallRecord :
        call' = [call EXCEPT ![q] = c] /\ c.pc = "idle" /\ Shaped(c) /\ PickedNew(n, q, c)
  BY Leaves DEF ForceDelete
<1>5. /\ dir' = dir /\ proc' = proc /\ taken' = taken /\ raced' = raced
      /\ standing' = [standing EXCEPT ![n] = "none"] /\ filed' = [filed EXCEPT ![n] = {}]
      /\ astray' = astray \union {n}
      /\ budget' \in [calls : 0..MaxCalls, faults : 0..MaxFaults]
  BY <1>1, <1>3 DEF ForceDelete, NoHost, host, DriverTypeOK
<1>6. /\ dir' \in [Name -> Directory] /\ proc' \in [Pid -> Process]
      /\ taken' \subseteq Port \union Public
      /\ standing' \in [Name -> Status] /\ filed' \in [Name -> SUBSET Public]
      /\ \A m \in Name \ {n} : standing'[m] = standing[m]
      /\ \A m \in Name \ {n} : filed'[m] = filed[m]
      /\ raced' \subseteq Name /\ astray' \subseteq Name
  BY <1>1, <1>5 DEF DriverTypeOK, Status
<1>7. n \notin Quiet'
  BY <1>5 DEF Quiet
<1>8. BoundOnce'
  BY <1>5 DEF DriverInductive, BoundOnce
<1>9. /\ \A m \in Quiet' \ {n} : dir'[m] = dir[m]
      /\ \A m \in Quiet' \ {n}, p \in Pid :
            proc'[p].of = m /\ proc'[p].port # NoPort => proc'[p] = proc[p]
      /\ raced \ {n} \subseteq raced' /\ astray \ {n} \subseteq astray'
  BY <1>5
<1>10. n \in raced /\ n \notin raced' => Alone(n, q) /\ c.pc = "idle"
  BY <1>5
<1>11. n \in Quiet' => (n \in Quiet \/ Alone(n, q)) /\ Sound(n, q)'
  BY <1>7
<1>12. n \in Quiet' => (n \in Quiet /\ PortKept(n)) \/ ~HasRuntime(n)' \/ PortNew(n, q)
  BY <1>7
<1>13. Shaped(c) /\ call' = [call EXCEPT ![q] = c] /\ (c.pc = "idle" \/ (c.n = n /\ c.from \in NamesOf(call[q])))
  BY <1>4
<1>14. PickedNew(n, q, c) /\ call[q].n = n
  BY <1>3, <1>4
<1>15. budget' \in [calls : 0..MaxCalls, faults : 0..MaxFaults]
  BY <1>5
<1> QED  BY <1>6, <1>8, <1>9, <1>10, <1>11, <1>12, <1>13, <1>14, <1>15, ThreadMoves

\* When nothing is left of a name, what was said of it is settled.
LEMMA RemoveKeeps ==
  ASSUME DriverInductive, NEW q \in Thread, Remove(q)  PROVE  DriverInductive'
<1>1. DriverTypeOK
  BY DEF DriverInductive
<1>2. call[q].pc = "removing"
  BY DEF Remove, At
<1>3. PICK n \in Name : n = call[q].n
  BY <1>2, CallFacts
<1>4. PICK c \in CallRecord : c = NoRequest
  BY Empties
<1>5. c.pc = "idle" /\ Shaped(c) /\ call' = [call EXCEPT ![q] = c]
  BY <1>4, Empties DEF Remove, Leave, NoRequest
<1>6. PickedNew(n, q, c)
  BY <1>5 DEF PickedNew
<1>7. PICK last \in BOOLEAN :
        last <=> (HoldsDisk(n) = {} /\ \A k \in Thread \ {q} : ~WorksOn(k, n))
  OBVIOUS
<1>8. /\ dir' = [dir EXCEPT ![n] = NoDirectory] /\ proc' = proc /\ taken' = taken
      /\ standing' = [standing EXCEPT ![n] = "none"] /\ filed' = [filed EXCEPT ![n] = {}]
      /\ budget' \in [calls : 0..MaxCalls, faults : 0..MaxFaults]
  BY <1>1, <1>3 DEF Remove, DriverTypeOK
<1>9. /\ raced' = IF last THEN raced \ {n} ELSE raced
      /\ astray' = IF last THEN astray \ {n} ELSE astray
  BY <1>3, <1>7 DEF Remove
<1>10. /\ dir' \in [Name -> Directory] /\ dir'[n] = NoDirectory
       /\ \A m \in Name \ {n} : dir'[m] = dir[m]
       /\ standing' \in [Name -> Status] /\ filed' \in [Name -> SUBSET Public] /\ filed'[n] = {}
       /\ \A m \in Name \ {n} : standing'[m] = standing[m]
       /\ \A m \in Name \ {n} : filed'[m] = filed[m]
       /\ proc' \in [Pid -> Process] /\ taken' \subseteq Port \union Public
       /\ raced' \subseteq Name /\ astray' \subseteq Name
  BY <1>1, <1>8, <1>9, Empties DEF DriverTypeOK, Status
<1>11. BoundOnce'
  BY <1>8 DEF DriverInductive, BoundOnce
<1>12. last => Alone(n, q)
  <2>1. \A k \in Thread : call[k].n = n => WorksOn(k, n)
    BY Constants DEF DriverInductive, Shaped, NoRequest, WorksOn
  <2> QED  BY <1>7, <2>1 DEF Alone
<1>13. ~last => Quiet' = Quiet
  BY <1>9 DEF Quiet
<1>14. ASSUME n \in Quiet'  PROVE  Sound(n, q)'
  <2>1. Guests(n) = {}
    <3>1. CASE last
      BY <1>7, <3>1 DEF Guests
    <3>2. CASE ~last
      BY <1>2, <1>3, <1>13, <1>14, <3>2, SoundIn DEF Sound, Keeps
    <3> QED  BY <3>1, <3>2
  <2>2. Guests(n)' = {} /\ ~HasRuntime(n)'
    BY <1>8, <1>10, <2>1 DEF Guests, HoldsDisk, HasRuntime, NoDirectory
  <2>3. call'[q] = c /\ call'[q].n # n
    BY <1>1, <1>4, <1>5, Constants DEF DriverTypeOK, NoRequest
  <2> QED  BY <1>5, <1>10, <2>2, <2>3 DEF Sound, NoDirectory, NoRuntime
<1>15. n \in Quiet' => ~HasRuntime(n)'
  BY <1>10 DEF HasRuntime, NoDirectory
<1>16. /\ \A m \in Quiet' \ {n} : dir'[m] = dir[m]
       /\ \A m \in Quiet' \ {n}, p \in Pid :
             proc'[p].of = m /\ proc'[p].port # NoPort => proc'[p] = proc[p]
       /\ raced \ {n} \subseteq raced' /\ astray \ {n} \subseteq astray'
  BY <1>8, <1>9, <1>10 DEF Quiet
<1>17. n \in raced /\ n \notin raced' => Alone(n, q) /\ c.pc = "idle"
  BY <1>5, <1>9, <1>12
<1>18. n \in Quiet' => (n \in Quiet \/ Alone(n, q)) /\ Sound(n, q)'
  BY <1>12, <1>13, <1>14
<1>19. n \in Quiet' => (n \in Quiet /\ PortKept(n)) \/ ~HasRuntime(n)' \/ PortNew(n, q)
  BY <1>15
<1>20. Shaped(c) /\ call' = [call EXCEPT ![q] = c] /\ (c.pc = "idle" \/ (c.n = n /\ c.from \in NamesOf(call[q])))
  BY <1>5
<1>21. PickedNew(n, q, c) /\ call[q].n = n
  BY <1>3, <1>6
<1>22. budget' \in [calls : 0..MaxCalls, faults : 0..MaxFaults]
  BY <1>8
<1> QED  BY <1>10, <1>11, <1>16, <1>17, <1>18, <1>19, <1>20, <1>21, <1>22, ThreadMoves, ZenonT(60)

-----------------------------------------------------------------------------
(***************************************************************************)
(* A guest comes up.                                                       *)
(***************************************************************************)

LEMMA SpawnKeeps ==
  ASSUME DriverInductive, NEW q \in Thread, Spawn(q)  PROVE  DriverInductive'
<1>1. DriverTypeOK
  BY DEF DriverInductive
<1>2. call[q].pc = "spawning"
  BY DEF Spawn, At
<1>3. PICK n \in Name : n = call[q].n
  BY <1>2, CallFacts
<1>4. PICK r \in Runtime : r = call[q].run
  BY <1>2, CallFacts DEF CallRecord
<1>5. PICK bound \in BOOLEAN : bound <=> ~InUse(r.port) /\ \A f \in r.fwd : ~InUse(f)
  OBVIOUS
<1>6. PICK copies : copies =
        {call[k].n : k \in {k \in Thread : At(k, "copying") /\ call[k].from = n /\ bound}}
  OBVIOUS
<1>7. PICK x \in Pid :
        /\ proc[x] = Free
        /\ proc' = [proc EXCEPT ![x] =
             [of |-> n, port |-> IF bound THEN r.port ELSE NoPort,
              fwd |-> IF bound THEN r.fwd ELSE {}]]
        /\ call' = [call EXCEPT ![q].pc = "spawned", ![q].run.pid = x]
  BY <1>3, <1>4, <1>5 DEF Spawn
<1>8. dir' = [m \in Name |-> IF m \in copies THEN [dir[m] EXCEPT !.disk = "torn"] ELSE dir[m]]
  BY <1>3, <1>4, <1>5, <1>6 DEF Spawn
<1>9. PICK s : s = [r EXCEPT !.pid = x]
  OBVIOUS
<1>10. s \in Runtime /\ s.port = r.port /\ s.pid = x /\ s.fwd = r.fwd
  BY <1>9 DEF Runtime
<1>11. PICK c \in CallRecord :
         /\ call' = [call EXCEPT ![q] = c] /\ c.pc = "spawned" /\ c.op = call[q].op
         /\ c.n = call[q].n /\ c.from = call[q].from /\ c.run = s
  <2>1. call[q] \in CallRecord
    BY <1>2, CallFacts
  <2>2. PICK c : c = [call[q] EXCEPT !.pc = "spawned", !.run.pid = x]
    OBVIOUS
  <2>3. /\ c.pc = "spawned" /\ c.op = call[q].op /\ c.n = call[q].n /\ c.from = call[q].from
        /\ c.run = s /\ c \in CallRecord
    BY <1>4, <1>9, <1>10, <2>1, <2>2 DEF CallRecord
  <2>4. call' = [call EXCEPT ![q] = c]
    BY <1>7, <2>2
  <2> QED  BY <2>3, <2>4
<1>12. Shaped(c) /\ c.from \in NamesOf(call[q]) /\ PickedNew(n, q, c)
  BY <1>2, <1>11, CallFacts DEF Shaped, NamesOf, PickedNew
<1>13. PICK y : y = [of |-> n, port |-> IF bound THEN r.port ELSE NoPort,
                     fwd |-> IF bound THEN r.fwd ELSE {}]
  OBVIOUS
<1>14. /\ y \in Process /\ y.of = n /\ y.port \in {r.port, NoPort}
       /\ y.port # NoPort => y.fwd = r.fwd /\ ~InUse(y.port)
  BY <1>5, <1>13 DEF Process, Runtime
<1>15. proc' \in [Pid -> Process] /\ proc'[x] = y /\ \A p \in Pid \ {x} : proc'[p] = proc[p]
  BY <1>1, <1>7, <1>13, <1>14 DEF DriverTypeOK
<1>16. \A m \in copies : m \in raced
  <2> SUFFICES ASSUME NEW k \in Thread, At(k, "copying"), call[k].from = n  PROVE  call[k].n \in raced
    BY <1>6
  <2>1. k # q /\ WorksOn(k, n) /\ WorksOn(q, n)
    BY <1>2, <1>3 DEF At, WorksOn
  <2> QED  BY <2>1 DEF DriverInductive, Apart, NamesOf
<1>17. \A m \in Name : IF m \in copies THEN [dir[m] EXCEPT !.disk = "torn"] \in Directory
                                        ELSE dir[m] \in Directory
  BY <1>1 DEF DriverTypeOK, Directory
<1>18. dir' \in [Name -> Directory] /\ \A m \in Name \ copies : dir'[m] = dir[m]
  BY <1>8, <1>17
<1>19. /\ taken' = taken /\ standing' = standing /\ filed' = filed /\ raced' = raced /\ astray' = astray
       /\ Quiet' = Quiet /\ budget' \in [calls : 0..MaxCalls, faults : 0..MaxFaults]
  BY <1>1 DEF Spawn, NoTables, tables, past, DriverTypeOK, Quiet
<1>20. /\ standing' \in [Name -> Status] /\ filed' \in [Name -> SUBSET Public]
       /\ taken' \subseteq Port \union Public /\ raced' \subseteq Name /\ astray' \subseteq Name
  BY <1>1, <1>19 DEF DriverTypeOK
<1>21. \A m \in Quiet' : dir'[m] = dir[m]
  BY <1>16, <1>18, <1>19 DEF Quiet
<1>22. BoundOnce'
  <2> SUFFICES ASSUME NEW p \in Pid, NEW o \in Pid, p # o, proc'[p].port # NoPort
               PROVE  proc'[p].port # proc'[o].port
    BY DEF BoundOnce
  <2>1. CASE p = x
    BY <1>14, <1>15, <2>1 DEF InUse
  <2>2. CASE o = x
    BY <1>14, <1>15, <2>2 DEF InUse
  <2>3. CASE p # x /\ o # x
    BY <1>15, <2>3 DEF DriverInductive, BoundOnce
  <2> QED  BY <2>1, <2>2, <2>3
<1>23. ASSUME n \in Quiet'  PROVE  n \in Quiet /\ Sound(n, q)' /\ PortKept(n)
  <2>1. n \in Quiet /\ Sound(n, q) /\ standing[n] # "none" /\ dir'[n] = dir[n]
    BY <1>3, <1>19, <1>21, <1>23, SoundIn
  <2>2. HasRuntime(n) /\ r = dir[n].run /\ Guests(n) = {}
    BY <1>2, <1>3, <1>4, <2>1 DEF Sound, Keeps
  <2>3. dir[n].made /\ dir[n].disk = "whole" /\ dir[n].run.port \in Port /\ filed[n] = dir[n].run.fwd
    BY <1>2, <2>1, <2>2 DEF Sound, At
  <2>4. call'[q] = c
    BY <1>1, <1>11 DEF DriverTypeOK
  <2>5. \A p \in Guests(n)' : p = x
    BY <1>15, <2>2 DEF Guests, HoldsDisk
  <2>6. \A p \in Guests(n)' : proc'[p].port = dir[n].run.port /\ proc'[p].fwd = dir[n].run.fwd
    BY <1>14, <1>15, <2>2, <2>5 DEF Guests
  <2>7. HasRuntime(n)'
    BY <2>1, <2>2 DEF HasRuntime
  <2>8. Keeps(q, n)'
    BY <1>10, <1>11, <2>1, <2>2, <2>4, <2>5, <2>7 DEF Keeps
  <2>9. Sound(n, q)'
    BY <1>10, <1>11, <1>19, <2>1, <2>3, <2>4, <2>5, <2>6, <2>7, <2>8 DEF Sound, At
  <2> QED  BY <2>1, <2>2, <2>9 DEF PortKept
<1>24. \A m \in Quiet' \ {n}, p \in Pid :
         proc'[p].of = m /\ proc'[p].port # NoPort => proc'[p] = proc[p]
  BY <1>14, <1>15
<1>25. /\ \A m \in Quiet' \ {n} : dir'[m] = dir[m]
       /\ \A m \in Name \ {n} : standing'[m] = standing[m]
       /\ \A m \in Name \ {n} : filed'[m] = filed[m]
       /\ raced \ {n} \subseteq raced' /\ astray \ {n} \subseteq astray'
  BY <1>19, <1>21
<1>26. n \in raced /\ n \notin raced' => Alone(n, q) /\ c.pc = "idle"
  BY <1>19
<1>27. n \in Quiet' => (n \in Quiet \/ Alone(n, q)) /\ Sound(n, q)'
  BY <1>23
<1>28. n \in Quiet' => (n \in Quiet /\ PortKept(n)) \/ ~HasRuntime(n)' \/ PortNew(n, q)
  BY <1>23
<1>29. c.pc = "idle" \/ (c.n = n /\ c.from \in NamesOf(call[q]))
  BY <1>3, <1>11, <1>12
<1> QED  BY <1>3, <1>11, <1>12, <1>15, <1>18, <1>19, <1>20, <1>22, <1>24, <1>25, <1>26, <1>27, <1>28, <1>29, ThreadMoves, ZenonT(60)

-----------------------------------------------------------------------------
(***************************************************************************)
(* The host, the reconciler and a crash.                                   *)
(***************************************************************************)

\* What happens outside the calls: guests go, numbers and ports are taken,
\* rows follow.
LEMMA Outside ==
  ASSUME DriverInductive, UNCHANGED <<dir, filed, call, past>>,
         standing' \in [Name -> Status],
         \A m \in Name : standing'[m] = "none" => standing[m] = "none",
         proc' \in [Pid -> Process], BoundOnce',
         \A p \in Pid : proc'[p].of \in Name /\ proc'[p].port # NoPort => proc'[p] = proc[p],
         taken' \subseteq Port \union Public,
         budget' \in [calls : 0..MaxCalls, faults : 0..MaxFaults]
  PROVE  DriverInductive'
<1>1. /\ DriverTypeOK /\ Apart /\ PortsOnce /\ PickedApart
      /\ \A q \in Thread : Shaped(call[q])
      /\ \A n \in Quiet : Good(n)
  BY DEF DriverInductive
<1>2. dir' = dir /\ filed' = filed /\ call' = call /\ raced' = raced /\ astray' = astray /\ Quiet' = Quiet
  BY DEF past, Quiet
<1>3. DriverTypeOK' /\ \A q \in Thread : Shaped(call[q])'
  BY <1>1, <1>2 DEF DriverTypeOK
<1>4. Apart'
  BY <1>1, <1>2 DEF Apart, WorksOn, NamesOf, At
<1>5. PortsOnce' /\ PickedApart'
  BY <1>1, <1>2 DEF PortsOnce, PickedApart, HasRuntime, At
<1>6. ASSUME NEW m \in Quiet'  PROVE  Good(m)'
  <2>1. m \in Name /\ Good(m)
    BY <1>1, <1>2 DEF Quiet
  <2>2. dir'[m] = dir[m] /\ filed'[m] = filed[m] /\ (standing'[m] = "none" => standing[m] = "none")
    BY <1>2, <2>1
  <2>3. \A p \in Pid : proc'[p].of = m /\ proc'[p].port # NoPort => proc'[p] = proc[p]
    BY <2>1
  <2>4. \A k \in Thread : /\ WorksOn(k, m)' => WorksOn(k, m) \/ standing'[m] # "none"
                          /\ call'[k].n = m \/ call[k].n = m => call'[k] = call[k]
    BY <1>2 DEF WorksOn
  <2> QED  BY <2>1, <2>2, <2>3, <2>4, Bystander
<1> QED  BY <1>3, <1>4, <1>5, <1>6 DEF DriverInductive

LEMMA GuestExitsKeeps ==
  ASSUME DriverInductive, NEW x \in Pid, GuestExits(x)  PROVE  DriverInductive'
<1>1. DriverTypeOK
  BY DEF DriverInductive
<1>2. budget' \in [calls : 0..MaxCalls, faults : 0..MaxFaults]
  BY <1>1, Faults DEF GuestExits
<1>3. UNCHANGED <<dir, taken, tables, call, past>> /\ proc' = Without({x})
  BY DEF GuestExits
<1>4. NoneBoots
  BY <1>1, <1>3, GuestsGo
<1>5. /\ standing' \in [Name -> Status] /\ (\A m \in Name : standing'[m] = "none" => standing[m] = "none")
      /\ filed' = filed /\ taken' \subseteq Port \union Public
  BY <1>1, <1>3 DEF DriverTypeOK, tables
<1>6. proc' \in [Pid -> Process] /\ \A p \in Pid : proc'[p].port # NoPort => proc'[p] = proc[p]
  BY <1>4 DEF NoneBoots, Free
<1>7. BoundOnce'
  BY <1>6 DEF DriverInductive, BoundOnce
<1> QED  BY <1>2, <1>3, <1>5, <1>6, <1>7, Outside

LEMMA StrangerTakesPidKeeps ==
  ASSUME DriverInductive, NEW x \in Pid, StrangerTakesPid(x)  PROVE  DriverInductive'
<1>1. DriverTypeOK
  BY DEF DriverInductive
<1>2. budget' \in [calls : 0..MaxCalls, faults : 0..MaxFaults]
  BY <1>1, Faults DEF StrangerTakesPid
<1>3. UNCHANGED <<dir, taken, tables, call, past>>
  BY DEF StrangerTakesPid
<1>4. PICK y : y = [proc[x] EXCEPT !.of = Stranger]
  OBVIOUS
<1>5. y \in Process /\ y.of = Stranger /\ y.port = NoPort
  BY <1>4 DEF StrangerTakesPid, Free, Process
<1>6. proc' = [proc EXCEPT ![x] = y]
  BY <1>4 DEF StrangerTakesPid
<1>7. /\ proc' \in [Pid -> Process]
      /\ \A p \in Pid : proc'[p].port # NoPort => proc'[p] = proc[p]
  BY <1>1, <1>5, <1>6 DEF DriverTypeOK
<1>8. \A p \in Pid : proc'[p] = proc[p] \/ proc'[p].port = NoPort
  BY <1>7
<1>9. BoundOnce'
  BY <1>8 DEF DriverInductive, BoundOnce
<1>10. /\ standing' \in [Name -> Status] /\ (\A m \in Name : standing'[m] = "none" => standing[m] = "none")
       /\ filed' = filed /\ taken' \subseteq Port \union Public
  BY <1>1, <1>3 DEF DriverTypeOK, tables
<1> QED  BY <1>2, <1>3, <1>7, <1>9, <1>10, Outside

LEMMA StrangerListensKeeps ==
  ASSUME DriverInductive, NEW x \in Port \union Public, StrangerListens(x)  PROVE  DriverInductive'
<1>1. DriverTypeOK
  BY DEF DriverInductive
<1>2. budget' \in [calls : 0..MaxCalls, faults : 0..MaxFaults]
  BY <1>1, Faults DEF StrangerListens
<1>3. UNCHANGED <<dir, proc, tables, call, past>> /\ taken' = taken \union {x}
  BY DEF StrangerListens
<1>4. /\ standing' \in [Name -> Status] /\ (\A m \in Name : standing'[m] = "none" => standing[m] = "none")
      /\ filed' = filed /\ taken' \subseteq Port \union Public /\ proc' \in [Pid -> Process]
  BY <1>1, <1>3 DEF DriverTypeOK, tables
<1>5. BoundOnce'
  BY <1>3 DEF DriverInductive, BoundOnce
<1> QED  BY <1>2, <1>3, <1>4, <1>5, Outside

LEMMA FollowKeeps ==
  ASSUME DriverInductive, NEW n \in Name, Follow(n)  PROVE  DriverInductive'
<1>1. DriverTypeOK
  BY DEF DriverInductive
<1>2. PICK rep : rep = Report(n)
  OBVIOUS
<1>3. rep \in {"absent", "bare", "running", "stopped"}
  BY <1>2 DEF Report, HasRuntime
<1>4. PICK st : st = StatusOf(rep)
  OBVIOUS
<1>5. st \in Status /\ st # "none"
  BY <1>3, <1>4 DEF StatusOf, Status
<1>6. standing' = [standing EXCEPT ![n] = st] /\ UNCHANGED <<filed, call, past, budget>> /\ NoHost
  BY <1>2, <1>4 DEF Follow
<1>7. /\ standing' \in [Name -> Status] /\ (\A m \in Name : standing'[m] = "none" => standing[m] = "none")
      /\ dir' = dir /\ proc' = proc /\ taken' \subseteq Port \union Public /\ proc' \in [Pid -> Process]
      /\ budget' \in [calls : 0..MaxCalls, faults : 0..MaxFaults]
  BY <1>1, <1>5, <1>6 DEF DriverTypeOK, NoHost, host
<1>8. BoundOnce'
  BY <1>7 DEF DriverInductive, BoundOnce
<1> QED  BY <1>6, <1>7, <1>8, Outside

LEMMA CrashKeeps == ASSUME DriverInductive, Crash  PROVE  DriverInductive'
<1>1. /\ DriverTypeOK /\ BoundOnce /\ PortsOnce
      /\ \A q \in Thread : Shaped(call[q])
      /\ \A n \in Quiet : Good(n)
  BY DEF DriverInductive
<1>2. PICK hit : hit = UNION {NamesOf(call[q]) : q \in {q \in Thread : ~At(q, "idle")}}
  OBVIOUS
<1>3. /\ dir' = dir /\ proc' = proc /\ taken' = taken /\ standing' = standing /\ filed' = filed
      /\ raced' = raced /\ astray' = astray \union hit /\ call' = [q \in Thread |-> NoRequest]
  BY <1>2 DEF Crash, NoHost, host, tables
<1>4. budget' \in [calls : 0..MaxCalls, faults : 0..MaxFaults]
  BY <1>1, Faults DEF Crash
<1>5. \A q \in Thread : call[q].pc # "idle" => NamesOf(call[q]) \subseteq hit /\ NamesOf(call[q]) \subseteq Name
  <2>1. \A q \in Thread : call[q].pc # "idle" => NamesOf(call[q]) \subseteq hit
    BY <1>2 DEF At
  <2> QED  BY <2>1, CallFacts
<1>6. hit \subseteq Name
  <2> SUFFICES ASSUME NEW m \in hit  PROVE  m \in Name
    OBVIOUS
  <2>1. PICK q \in Thread : ~At(q, "idle") /\ m \in NamesOf(call[q])
    BY <1>2
  <2> QED  BY <1>5, <2>1 DEF At
<1>7. DriverTypeOK'
  BY <1>1, <1>3, <1>4, <1>6, Empties DEF DriverTypeOK
<1>8. \A q \in Thread : call'[q] = NoRequest /\ Shaped(call[q])'
  BY <1>3, Empties DEF Shaped
<1>9. Quiet' \subseteq Quiet
  BY <1>3 DEF Quiet
<1>10. Apart' /\ PickedApart'
  BY <1>8 DEF Apart, PickedApart, WorksOn, At, NoRequest
<1>11. BoundOnce' /\ PortsOnce'
  BY <1>1, <1>3, <1>9 DEF BoundOnce, PortsOnce, HasRuntime
<1>12. ASSUME NEW m \in Quiet'  PROVE  Good(m)'
  <2>1. m \in Name /\ Good(m) /\ m \notin hit
    BY <1>1, <1>3, <1>9 DEF Quiet
  <2>2. \A k \in Thread : call'[k].n # m /\ ~WorksOn(k, m)'
    BY <1>8, <2>1, Constants DEF NoRequest, WorksOn
  <2>3. \A k \in Thread : call[k].n # m
    BY <1>1, <1>5, <2>1, Constants DEF Shaped, NoRequest, NamesOf
  <2>4. dir'[m] = dir[m] /\ filed'[m] = filed[m] /\ standing'[m] = standing[m]
    BY <1>3
  <2> QED  BY <1>3, <2>1, <2>2, <2>3, <2>4, Bystander
<1> QED  BY <1>7, <1>8, <1>10, <1>11, <1>12 DEF DriverInductive

-----------------------------------------------------------------------------
(***************************************************************************)
(* A call is accepted.                                                     *)
(***************************************************************************)

LEMMA Accepts ==
  ASSUME DriverInductive, NEW q \in Thread, NEW r \in CallRecord, Shaped(r),
         r.pc \in {"building", "checking", "reading", "destroying"},
         Accept(q, r),
         standing' \in [Name -> Status],
         \A m \in Name \ {r.n} : standing'[m] = standing[m],
         \A m \in Quiet \intersect NamesOf(r) : standing'[m] # "none",
         r.pc \in {"building", "checking"} => standing[r.n] = "none"
  PROVE  DriverInductive'
<1>1. /\ DriverTypeOK /\ Apart /\ BoundOnce /\ PortsOnce /\ PickedApart
      /\ \A k \in Thread : Shaped(call[k])
      /\ \A n \in Quiet : Good(n)
  BY DEF DriverInductive
<1>2. PICK n \in Name : n = r.n
  BY DEF Shaped
<1>3. PICK others : others = {k \in Thread : \E m \in NamesOf(r) : WorksOn(k, m)}
  OBVIOUS
<1>4. /\ call[q].pc = "idle" /\ call' = [call EXCEPT ![q] = r]
      /\ raced' = raced \union (IF others = {} THEN {} ELSE NamesOf(r))
                        \union UNION {NamesOf(call[k]) : k \in others}
      /\ dir' = dir /\ proc' = proc /\ taken' = taken /\ filed' = filed /\ astray' = astray
  BY <1>3 DEF Accept, At, host
<1>5. budget' \in [calls : 0..MaxCalls, faults : 0..MaxFaults]
  BY <1>1, DriverAssumption DEF Accept, DriverTypeOK
<1>6. call'[q] = r /\ \A k \in Thread \ {q} : call'[k] = call[k]
  BY <1>1, <1>4 DEF DriverTypeOK
<1>7. NamesOf(r) \subseteq Name /\ \A k \in others : NamesOf(call[k]) \subseteq Name
  BY <1>1, <1>3, CallFacts DEF Shaped, NamesOf, WorksOn
<1>8. raced \subseteq raced' /\ raced' \subseteq Name /\ Quiet' \subseteq Quiet
  BY <1>1, <1>4, <1>7 DEF DriverTypeOK, Quiet
<1>9. DriverTypeOK'
  BY <1>1, <1>4, <1>5, <1>8 DEF DriverTypeOK
<1>10. \A k \in Thread : Shaped(call[k])'
  BY <1>1, <1>6 DEF Shaped
<1>11. \A k \in Thread \ {q}, m \in Name : WorksOn(k, m)' <=> WorksOn(k, m)
  BY <1>6 DEF WorksOn
<1>12. ASSUME NEW k \in Thread \ {q}, NEW m \in NamesOf(r), WorksOn(k, m)
       PROVE  NamesOf(r) \subseteq raced' /\ NamesOf(call[k]) \subseteq raced'
  <2>1. k \in others
    BY <1>3, <1>12
  <2> QED  BY <1>4, <2>1
<1>13. \A m \in Name : WorksOn(q, m)' => m \in NamesOf(r)
  BY <1>6 DEF WorksOn, NamesOf
<1>14. Apart'
  <2>1. ASSUME NEW j \in Thread, NEW k \in Thread, NEW m \in Name, j # k,
               WorksOn(j, m)', WorksOn(k, m)'
        PROVE  NamesOf(call[j])' \subseteq raced'
    <3>1. CASE j = q
      BY <1>6, <1>11, <1>12, <1>13, <2>1, <3>1 DEF NamesOf
    <3>2. CASE k = q
      BY <1>6, <1>11, <1>12, <1>13, <2>1, <3>2 DEF NamesOf
    <3>3. CASE j # q /\ k # q
      <4>1. NamesOf(call[j]) \subseteq raced
        BY <1>1, <1>11, <2>1, <3>3 DEF Apart
      <4> QED  BY <1>6, <1>8, <3>3, <4>1 DEF NamesOf
    <3> QED  BY <3>1, <3>2, <3>3
  <2>2. \A k \in Thread : At(k, "pinning")' => k # q /\ At(k, "pinning") /\ call'[k] = call[k]
    BY <1>6 DEF At
  <2>3. \A j, k \in Thread : j # k /\ At(j, "pinning")' /\ At(k, "pinning")' => call'[j].n \in raced'
    BY <1>1, <1>8, <2>2 DEF Apart
  <2> QED  BY <2>1, <2>3 DEF Apart
<1>15. BoundOnce' /\ PortsOnce'
  BY <1>1, <1>4, <1>8 DEF BoundOnce, PortsOnce, HasRuntime
<1>16. PickedApart'
  <2>1. \A k \in Thread : At(k, "pinning")' => k # q /\ At(k, "pinning") /\ call'[k] = call[k]
    BY <1>6 DEF At
  <2> QED  BY <1>1, <1>4, <1>8, <2>1 DEF PickedApart, HasRuntime
<1>17. ASSUME NEW m \in Quiet'  PROVE  Good(m)'
  <2>1. m \in Name /\ m \in Quiet /\ Good(m) /\ m \notin raced'
    BY <1>1, <1>8 DEF Quiet
  <2>2. CASE m # n
    <3>1. dir'[m] = dir[m] /\ filed'[m] = filed[m] /\ standing'[m] = standing[m]
      BY <1>2, <1>4, <2>1, <2>2
    <3>2. call[q].n # m
      BY <1>1, <1>4, <2>1, Constants DEF Shaped, NoRequest
    <3>3. \A k \in Thread : call'[k].n = m \/ call[k].n = m => call'[k] = call[k]
      BY <1>2, <1>6, <2>2, <3>2
    <3>4. \A k \in Thread : WorksOn(k, m)' => WorksOn(k, m) \/ standing'[m] # "none"
      BY <1>11, <1>13, <2>1
    <3> QED  BY <1>4, <2>1, <3>1, <3>3, <3>4, Bystander
  <2>3. CASE m = n
    <3>1. n \in NamesOf(r)
      BY <1>2 DEF NamesOf
    <3>2. \A k \in Thread \ {q} : ~WorksOn(k, n)
      BY <1>12, <2>1, <2>3, <3>1
    <3>3. \A k \in Thread \ {q} : call[k].n # n
      BY <1>1, <1>2, <3>2, Constants DEF Shaped, NoRequest, WorksOn
    <3>4. Alone(n, q)'
      BY <1>6, <1>11, <3>2, <3>3 DEF Alone
    <3>5. \A k \in Thread : call[k].n # n
      BY <1>1, <1>2, <1>4, <3>3, Constants DEF Shaped, NoRequest
    <3>6. /\ HasRuntime(n) => dir[n].made /\ dir[n].disk = "whole" /\ dir[n].run.port \in Port
          /\ \A p \in Guests(n) :
               /\ HasRuntime(n) /\ proc[p].port = dir[n].run.port
               /\ dir[n].run.pid = p /\ proc[p].fwd = dir[n].run.fwd
          /\ filed[n] = dir[n].run.fwd
      BY <2>1, <2>3, <3>5 DEF Good
    <3>7. Guests(n)' = Guests(n) /\ (HasRuntime(n)' <=> HasRuntime(n))
      BY <1>4 DEF Guests, HoldsDisk, HasRuntime
    <3>8. r.pc \in {"building", "checking"} => dir[n] = NoDirectory
      BY <1>2, <2>1, <2>3 DEF Good
    <3>9. Keeps(q, n)'
      BY <1>4, <1>6, <3>8 DEF Keeps
    <3>10. standing'[n] # "none"
      BY <2>1, <2>3, <3>1
    <3>11. Sound(n, q)'
      BY <1>4, <3>6, <3>7, <3>9, <3>10 DEF Sound
    <3>12. (call[q].n)' = n
      BY <1>2, <1>6
    <3> QED  BY <2>3, <3>4, <3>11, <3>12, SoundOut
  <2> QED  BY <2>2, <2>3
<1> QED  BY <1>9, <1>10, <1>14, <1>15, <1>16, <1>17 DEF DriverInductive

LEMMA PosedAt ==
  ASSUME NEW n \in Name, NEW pc \in Pcs,
         NEW op \in {"launch", "clone", "start", "stop", "restart", "delete", "forward", "unforward"}
  PROVE  /\ Ask(op, n, pc) \in CallRecord /\ Ask(op, n, pc).pc = pc /\ Ask(op, n, pc).op = op
         /\ Ask(op, n, pc).n = n /\ Ask(op, n, pc).from = n
BY Empties DEF Ask, NoRequest, CallRecord, Pcs

\* A request on a row that is there.
LEMMA AcceptsOne ==
  ASSUME DriverInductive, NEW q \in Thread, NEW r \in CallRecord, NEW n \in Name,
         r.n = n, r.from = n, r.op \in {"start", "stop", "restart", "delete", "forward", "unforward"},
         r.pc = IF r.op = "delete" THEN "destroying" ELSE "reading",
         Accept(q, r), n \in Quiet => standing[n] # "none", UNCHANGED standing
  PROVE  DriverInductive'
<1>1. Shaped(r)
  BY DEF Shaped
<1>2. standing' \in [Name -> Status]
  BY DEF DriverInductive, DriverTypeOK
<1>3. r.pc \in {"reading", "destroying"}
  OBVIOUS
<1>4. \A m \in Quiet \intersect NamesOf(r) : standing'[m] # "none"
  BY DEF NamesOf
<1> QED  BY <1>1, <1>2, <1>3, <1>4, Accepts

LEMMA LaunchKeeps ==
  ASSUME DriverInductive, NEW q \in Thread, Launch(q)  PROVE  DriverInductive'
<1>1. DriverTypeOK
  BY DEF DriverInductive
<1>2. PICK n \in Name :
        /\ standing[n] = "none" /\ Accept(q, Ask("launch", n, "building"))
        /\ standing' = [standing EXCEPT ![n] = "Launching"]
  BY DEF Launch
<1>3. PICK r \in CallRecord :
        /\ r = Ask("launch", n, "building") /\ r.pc = "building" /\ r.op = "launch"
        /\ r.n = n /\ r.from = n
  BY PosedAt DEF Pcs
<1>4. Shaped(r)
  BY <1>3 DEF Shaped
<1>5. /\ standing' \in [Name -> Status] /\ \A m \in Name \ {n} : standing'[m] = standing[m]
      /\ \A m \in Quiet \intersect NamesOf(r) : standing'[m] # "none"
  BY <1>1, <1>2, <1>3 DEF DriverTypeOK, Status, NamesOf
<1>6. Accept(q, r) /\ standing[r.n] = "none" /\ r.pc \in {"building", "checking", "reading", "destroying"}
  BY <1>2, <1>3
<1> QED  BY <1>3, <1>4, <1>5, <1>6, Accepts

LEMMA CloneKeeps ==
  ASSUME DriverInductive, NEW q \in Thread, Clone(q)  PROVE  DriverInductive'
<1>1. DriverTypeOK
  BY DEF DriverInductive
<1>2. PICK n \in Name, s \in Name :
        /\ standing[n] = "none" /\ standing[s] = "Stopped"
        /\ Accept(q, [Ask("clone", n, "checking") EXCEPT !.from = s])
        /\ standing' = [standing EXCEPT ![n] = "Launching"]
  BY DEF Clone
<1>3. PICK a \in CallRecord :
        /\ a = Ask("clone", n, "checking") /\ a.pc = "checking" /\ a.op = "clone"
        /\ a.n = n /\ a.from = n
  BY PosedAt DEF Pcs
<1>4. PICK r : r = [a EXCEPT !.from = s]
  OBVIOUS
<1>5. r \in CallRecord /\ r.pc = "checking" /\ r.op = "clone" /\ r.n = n /\ r.from = s
  BY <1>3, <1>4 DEF CallRecord
<1>6. s # n
  BY <1>2
<1>7. Shaped(r)
  BY <1>5, <1>6 DEF Shaped
<1>8. /\ standing' \in [Name -> Status] /\ \A m \in Name \ {n} : standing'[m] = standing[m]
      /\ standing'[n] = "Launching" /\ standing'[s] = "Stopped"
  BY <1>1, <1>2, <1>6 DEF DriverTypeOK, Status
<1>9. \A m \in Quiet \intersect NamesOf(r) : standing'[m] # "none"
  BY <1>5, <1>8 DEF NamesOf
<1>10. Accept(q, r) /\ standing[r.n] = "none" /\ r.pc \in {"building", "checking", "reading", "destroying"}
  BY <1>2, <1>3, <1>4, <1>5
<1>11. \A m \in Name \ {r.n} : standing'[m] = standing[m]
  BY <1>5, <1>8
<1> QED  BY <1>5, <1>7, <1>8, <1>9, <1>10, <1>11, Accepts

LEMMA StartKeeps ==
  ASSUME DriverInductive, NEW q \in Thread, Start(q)  PROVE  DriverInductive'
<1>1. PICK n \in Name :
        standing[n] = "Stopped" /\ Accept(q, Ask("start", n, "reading")) /\ UNCHANGED standing
  BY DEF Start
<1>2. PICK r \in CallRecord :
        /\ r = Ask("start", n, "reading") /\ r.pc = "reading" /\ r.op = "start"
        /\ r.n = n /\ r.from = n
  BY PosedAt DEF Pcs
<1> QED  BY <1>1, <1>2, AcceptsOne

LEMMA StopKeeps ==
  ASSUME DriverInductive, NEW q \in Thread, Stop(q)  PROVE  DriverInductive'
<1>1. PICK n \in Name, op \in {"stop", "restart"} :
        standing[n] = "Running" /\ Accept(q, Ask(op, n, "reading")) /\ UNCHANGED standing
  BY DEF Stop
<1>2. PICK r \in CallRecord :
        /\ r = Ask(op, n, "reading") /\ r.pc = "reading" /\ r.op = op
        /\ r.n = n /\ r.from = n
  BY PosedAt DEF Pcs
<1> QED  BY <1>1, <1>2, AcceptsOne

LEMMA DeleteKeeps ==
  ASSUME DriverInductive, NEW q \in Thread, Delete(q)  PROVE  DriverInductive'
<1>1. PICK n \in Name :
        standing[n] # "none" /\ Accept(q, Ask("delete", n, "destroying")) /\ UNCHANGED standing
  BY DEF Delete
<1>2. PICK r \in CallRecord :
        /\ r = Ask("delete", n, "destroying") /\ r.pc = "destroying" /\ r.op = "delete"
        /\ r.n = n /\ r.from = n
  BY PosedAt DEF Pcs
<1> QED  BY <1>1, <1>2, AcceptsOne

LEMMA ForwardKeeps ==
  ASSUME DriverInductive, NEW q \in Thread, Forward(q) \/ Unforward(q)  PROVE  DriverInductive'
<1>1. PICK n \in Name, f \in Public, op \in {"forward", "unforward"} :
        /\ standing[n] # "none" \/ f \in filed[n]
        /\ Accept(q, [Ask(op, n, "reading") EXCEPT !.f = {f}]) /\ UNCHANGED standing
  BY DEF Forward, Unforward
<1>2. PICK a \in CallRecord :
        /\ a = Ask(op, n, "reading") /\ a.pc = "reading" /\ a.op = op
        /\ a.n = n /\ a.from = n
  BY PosedAt DEF Pcs
<1>3. PICK r : r = [a EXCEPT !.f = {f}]
  OBVIOUS
<1>4. r \in CallRecord /\ r.pc = "reading" /\ r.op = op /\ r.n = n /\ r.from = n
  BY <1>2, <1>3 DEF CallRecord
<1>5. n \in Quiet => standing[n] # "none"
  BY <1>1 DEF DriverInductive, Good
<1>6. Accept(q, r) /\ UNCHANGED standing
  BY <1>1, <1>2, <1>3
<1> QED  BY <1>4, <1>5, <1>6, AcceptsOne

-----------------------------------------------------------------------------
(***************************************************************************)
(* The inductive invariant.                                                *)
(***************************************************************************)

LEMMA DriverSteps == ASSUME DriverInductive, DriverNext  PROVE  DriverInductive'
<1>1. ASSUME NEW q \in Thread, Request(q)  PROVE  DriverInductive'
  BY <1>1, LaunchKeeps, CloneKeeps, StartKeeps, StopKeeps, DeleteKeeps, ForwardKeeps DEF Request
<1>2. ASSUME NEW q \in Thread, Step(q)  PROVE  DriverInductive'
  BY <1>2, BuildDiskKeeps, BuildFailsKeeps, LeftoverHeldKeeps, AllocateKeeps, NoPortLeftKeeps,
     PinKeeps, SpawnKeeps, SpawnFailsKeeps, RecordPidKeeps, RecordFailsKeeps, BootOkKeeps,
     BootFailsKeeps, NothingToReadKeeps, AlreadyUpKeeps, PortsFreeKeeps, PortsBusyKeeps,
     ReadToStopKeeps, PowerDownKeeps, HaltTimeoutKeeps, HaltedKeeps, QuitKeeps, RemoveKeeps,
     RemoveFailsKeeps, ForceDeleteKeeps, CloneRefusedKeeps, CopyKeeps, CopiedKeeps,
     CopyTimesOutKeeps, ReadToForwardKeeps, ApplyKeeps, ApplyFailsKeeps, WriteForwardKeeps,
     FileForwardKeeps DEF Step
<1>3. ASSUME Environment  PROVE  DriverInductive'
  BY <1>3, GuestExitsKeeps, StrangerTakesPidKeeps, StrangerListensKeeps, CrashKeeps, FollowKeeps
     DEF Environment
<1> QED  BY <1>1, <1>2, <1>3 DEF DriverNext

LEMMA DriverRests == ASSUME DriverInductive, UNCHANGED driverVars  PROVE  DriverInductive'
<1>1. /\ dir' = dir /\ proc' = proc /\ taken' = taken /\ standing' = standing /\ filed' = filed
      /\ call' = call /\ UNCHANGED past /\ budget' = budget
  BY DEF driverVars, host, tables
<1>2. DriverTypeOK /\ BoundOnce
  BY DEF DriverInductive
<1>3. standing' \in [Name -> Status] /\ proc' \in [Pid -> Process] /\ BoundOnce' /\ taken' \subseteq Port \union Public
      /\ budget' \in [calls : 0..MaxCalls, faults : 0..MaxFaults]
  BY <1>1, <1>2 DEF DriverTypeOK, BoundOnce
<1>4. UNCHANGED <<dir, filed, call, past>>
  BY <1>1
<1> QED  BY <1>1, <1>3, <1>4, Outside

Begun(up, down) ==
  \E at \in [up \union down -> Port], pid \in [up -> Pid] :
    /\ \A m, n \in up \union down : m # n => at[m] # at[n]
    /\ \A m, n \in up : m # n => pid[m] # pid[n]
    /\ dir = [n \in Name |->
         IF n \notin up \union down THEN NoDirectory
         ELSE [made |-> TRUE, disk |-> "whole",
               run |-> [port |-> at[n], pid |-> IF n \in up THEN pid[n] ELSE NoPid,
                        fwd |-> {}]]]
    /\ proc = [p \in Pid |->
         IF \E n \in up : pid[n] = p
           THEN LET n == CHOOSE n \in up : pid[n] = p
                IN [of |-> n, port |-> at[n], fwd |-> {}]
           ELSE Free]
    /\ standing = [n \in Name |-> IF n \in up THEN "Running"
                                  ELSE IF n \in down THEN "Stopped" ELSE "none"]

\* The state the service starts in: guests that run and guests that do not,
\* each on record, and no call.
LEMMA DriverStarts == ASSUME DriverInit  PROVE  DriverInductive
<1>1. PICK up \in SUBSET Name : \E down \in SUBSET (Name \ up) : Begun(up, down)
  BY DEF DriverInit, Begun
<1>2. PICK down \in SUBSET (Name \ up) : Begun(up, down)
  BY <1>1
<1>3. PICK at \in [up \union down -> Port], pid \in [up -> Pid] :
       /\ \A m, n \in up \union down : m # n => at[m] # at[n]
       /\ \A m, n \in up : m # n => pid[m] # pid[n]
       /\ dir = [n \in Name |->
            IF n \notin up \union down THEN NoDirectory
            ELSE [made |-> TRUE, disk |-> "whole",
                  run |-> [port |-> at[n], pid |-> IF n \in up THEN pid[n] ELSE NoPid,
                           fwd |-> {}]]]
       /\ proc = [p \in Pid |->
            IF \E n \in up : pid[n] = p
              THEN LET n == CHOOSE n \in up : pid[n] = p
                   IN [of |-> n, port |-> at[n], fwd |-> {}]
              ELSE Free]
       /\ standing = [n \in Name |-> IF n \in up THEN "Running"
                                     ELSE IF n \in down THEN "Stopped" ELSE "none"]
  BY <1>2 DEF Begun
<1>4. /\ taken = {} /\ filed = [n \in Name |-> {}] /\ call = [q \in Thread |-> NoRequest]
      /\ raced = {} /\ astray = {} /\ budget = [calls |-> MaxCalls, faults |-> MaxFaults]
  BY DEF DriverInit
<1>5. \A n \in Name \ (up \union down) : dir[n] = NoDirectory /\ standing[n] = "none"
  BY <1>3
<1>6. \A n \in up \union down :
        /\ dir[n].made = TRUE /\ dir[n].disk = "whole" /\ dir[n].run.port = at[n] /\ at[n] \in Port
        /\ dir[n].run.fwd = {} /\ dir[n].run.pid = (IF n \in up THEN pid[n] ELSE NoPid)
        /\ dir[n] \in Directory /\ HasRuntime(n) /\ standing[n] \in {"Running", "Stopped"}
  <2> SUFFICES ASSUME NEW n \in up \union down
               PROVE /\ dir[n].made = TRUE /\ dir[n].disk = "whole" /\ dir[n].run.port = at[n] /\ at[n] \in Port
                     /\ dir[n].run.fwd = {} /\ dir[n].run.pid = (IF n \in up THEN pid[n] ELSE NoPid)
                     /\ dir[n] \in Directory /\ HasRuntime(n) /\ standing[n] \in {"Running", "Stopped"}
    OBVIOUS
  <2>1. PICK num \in Pid \union {NoPid} : num = (IF n \in up THEN pid[n] ELSE NoPid)
    OBVIOUS
  <2>2. PICK r : r = [port |-> at[n], pid |-> num, fwd |-> {}]
    OBVIOUS
  <2>3. r \in Runtime /\ r.port = at[n] /\ at[n] \in Port /\ r.pid = num /\ r.fwd = {}
    BY <2>2 DEF Runtime
  <2>4. n \in Name
    OBVIOUS
  <2>5. dir[n] = [made |-> TRUE, disk |-> "whole", run |-> r]
    BY <1>3, <2>1, <2>2, <2>4
  <2>6. r # NoRuntime
    BY <2>3, Constants DEF NoRuntime
  <2>7. standing[n] \in {"Running", "Stopped"}
    BY <1>3, <2>4
  <2> QED  BY <2>1, <2>3, <2>5, <2>6, <2>7 DEF Directory, HasRuntime
<1>7. \A n \in Name \ (up \union down) : ~HasRuntime(n) /\ dir[n] \in Directory
  BY <1>5, Empties DEF HasRuntime, NoDirectory
<1>8. ASSUME NEW p \in Pid
      PROVE  \/ proc[p] = Free
             \/ \E n \in up : /\ proc[p].of = n /\ proc[p].port = at[n] /\ proc[p].fwd = {}
                              /\ pid[n] = p /\ proc[p] \in Process
  <2>1. CASE \E n \in up : pid[n] = p
    <3>1. PICK n \in up : n = (CHOOSE m \in up : pid[m] = p) /\ pid[n] = p
      BY <2>1
    <3>2. proc[p] = [of |-> n, port |-> at[n], fwd |-> {}]
      BY <1>3, <2>1, <3>1
    <3>3. PICK a \in Port : a = at[n]
      OBVIOUS
    <3>4. PICK y : y = [of |-> n, port |-> a, fwd |-> {}]
      OBVIOUS
    <3>5. y \in Process /\ y.of = n /\ y.port = a /\ y.fwd = {}
      BY <3>4 DEF Process
    <3>6. proc[p] = y
      BY <3>2, <3>3, <3>4
    <3> QED  BY <3>1, <3>3, <3>5, <3>6
  <2>2. CASE ~(\E n \in up : pid[n] = p)
    BY <1>3, <2>2
  <2> QED  BY <2>1, <2>2
<1>9. proc \in [Pid -> Process]
  <2>1. proc = [p \in Pid |-> proc[p]]
    BY <1>3, Zenon
  <2>2. \A p \in Pid : proc[p] \in Process
    BY <1>8, Empties
  <2> QED  BY <2>1, <2>2
<1>10. dir \in [Name -> Directory]
  <2>1. dir = [n \in Name |-> dir[n]]
    BY <1>3, Zenon
  <2>2. \A n \in Name : dir[n] \in Directory
    BY <1>6, <1>7
  <2> QED  BY <2>1, <2>2
<1>11. DriverTypeOK
  BY <1>3, <1>4, <1>9, <1>10, Empties, DriverAssumption DEF DriverTypeOK, Status
<1>12. \A q \in Thread : call[q] = NoRequest /\ Shaped(call[q])
  BY <1>4, Empties
<1>13. Apart /\ PickedApart
  BY <1>12 DEF Apart, PickedApart, WorksOn, At, NoRequest
<1>14. BoundOnce
  <2> SUFFICES ASSUME NEW p \in Pid, NEW r \in Pid, p # r, proc[p].port # NoPort
               PROVE  proc[p].port # proc[r].port
    BY DEF BoundOnce
  <2>1. PICK n \in up : proc[p].port = at[n] /\ pid[n] = p
    BY <1>8 DEF Free
  <2>2. CASE proc[r] = Free
    BY <2>2 DEF Free
  <2>3. CASE \E m \in up : proc[r].port = at[m] /\ pid[m] = r
    BY <1>3, <2>1, <2>3
  <2> QED  BY <1>8, <2>2, <2>3
<1>15. PortsOnce
  BY <1>3, <1>6, <1>7 DEF PortsOnce, Quiet
<1>16. ASSUME NEW n \in Name  PROVE  Good(n)
  <2>1. \A q \in Thread : call[q].n # n /\ call[q].pc = "idle"
    BY <1>12, Constants DEF NoRequest
  <2>2. filed[n] = {} /\ dir[n].run.fwd = {}
    BY <1>4, <1>5, <1>6 DEF NoDirectory, NoRuntime
  <2>3. standing[n] = "none" => dir[n] = NoDirectory /\ Idle(n)
    BY <1>5, <1>6, <2>1 DEF Idle, WorksOn
  <2>4. HasRuntime(n) => dir[n].made /\ dir[n].disk = "whole" /\ dir[n].run.port \in Port
    BY <1>6, <1>7
  <2>5. ASSUME NEW p \in Guests(n)
        PROVE  /\ HasRuntime(n) /\ proc[p].port = dir[n].run.port
               /\ dir[n].run.pid = p /\ proc[p].fwd = dir[n].run.fwd
    <3>1. p \in Pid /\ proc[p].of = n
      BY DEF Guests, HoldsDisk
    <3>2. n \in up /\ proc[p].port = at[n] /\ proc[p].fwd = {} /\ pid[n] = p
      BY <1>8, <3>1, Constants DEF Free
    <3> QED  BY <1>6, <2>2, <3>2
  <2> QED  BY <2>1, <2>2, <2>3, <2>4, <2>5 DEF Good
<1> QED  BY <1>11, <1>12, <1>13, <1>14, <1>15, <1>16 DEF DriverInductive, Quiet

LEMMA DriverInvariant == DriverSpec => []DriverInductive
BY DriverStarts, DriverSteps, DriverRests, PTL DEF DriverSpec

-----------------------------------------------------------------------------
(***************************************************************************)
(* What the driver promises, for any number of names, processes, ports,    *)
(* threads, calls and failures.                                            *)
(***************************************************************************)

\* The types of the state directory, the process table and the calls.
THEOREM DriverTypes == DriverSpec => []DriverTypeOK
<1>1. DriverInductive => DriverTypeOK
  BY DEF DriverInductive
<1> QED  BY <1>1, DriverInvariant, PTL

\* No two instances in good order ever have one port on record
\* (_allocate_ports, _reserved_ports).
THEOREM PortsOnceHolds == DriverSpec => []PortsOnce
<1>1. DriverInductive => PortsOnce
  BY DEF DriverInductive
<1> QED  BY <1>1, DriverInvariant, PTL

\* A guest of an instance in good order is the one its runtime file names,
\* or a thread has it in hand and will write it down (_spawn).
THEOREM OnRecord == DriverSpec => []GuestsAreOnRecord
<1>1. ASSUME DriverInductive  PROVE  GuestsAreOnRecord
  <2> SUFFICES ASSUME NEW p \in Pid, proc[p].of \in Quiet, proc[p].port # NoPort
               PROVE  \/ dir[proc[p].of].run.pid = p
                      \/ \E q \in Thread : /\ At(q, "spawned") /\ call[q].n = proc[p].of
                                           /\ call[q].run.pid = p
    BY DEF GuestsAreOnRecord
  <2>1. PICK n \in Quiet : n = proc[p].of
    OBVIOUS
  <2>2. p \in Guests(n)
    BY <2>1 DEF Guests, HoldsDisk
  <2>3. Good(n)
    BY <1>1 DEF DriverInductive
  <2> QED  BY <2>1, <2>2, <2>3 DEF Good
<1> QED  BY <1>1, DriverInvariant, PTL

\* Once the calls on an instance in good order have ended, its table, its
\* runtime file and its guest have the same forwards (add_port_forward).
THEOREM ForwardsAgreeHolds == DriverSpec => []ForwardsAgree
<1>1. ASSUME DriverInductive  PROVE  ForwardsAgree
  <2> SUFFICES ASSUME NEW n \in Quiet, Idle(n), standing[n] # "none"
               PROVE  filed[n] = dir[n].run.fwd /\ \A p \in Guests(n) : proc[p].fwd = filed[n]
    BY DEF ForwardsAgree
  <2>1. Good(n)
    BY <1>1 DEF DriverInductive
  <2>2. \A q \in Thread : ~(At(q, "writing") /\ call[q].n = n) /\ ~(At(q, "filing") /\ call[q].n = n)
    BY DEF Idle, WorksOn, At
  <2> QED  BY <2>1, <2>2 DEF Good
<1> QED  BY <1>1, DriverInvariant, PTL

\* A name in good order that can boot has a whole disk (clone_disk,
\* create_instance).
THEOREM ClonesAreWholeHolds == DriverSpec => []ClonesAreWhole
<1>1. ASSUME DriverInductive  PROVE  ClonesAreWhole
  BY <1>1 DEF DriverInductive, Good, ClonesAreWhole
<1> QED  BY <1>1, DriverInvariant, PTL

-----------------------------------------------------------------------------
(***************************************************************************)
(* The driver implements Machine.  Face is what Machine has for a name.    *)
(* Every action is shown to leave all faces, to move one of them along one *)
(* of Machine's moves, to let guests go, or to take names out of Quiet.    *)
(***************************************************************************)

\* The machine behind a name, as Machine has it.
Face(n) == IF n \in Quiet THEN Truth(n) ELSE "contested"
Faces   == [n \in Name |-> Face(n)]

\* The record names a process of the name that has the port.
Up(n) == LET r == dir[n].run IN
  r.pid # NoPid /\ proc[r.pid].of = n /\ proc[r.pid].port = r.port

LEMMA TruthIs ==
  ASSUME NEW n \in Name
  PROVE  /\ ~HasRuntime(n) /\ ~dir[n].made => Truth(n) = "absent"
         /\ ~HasRuntime(n) /\ dir[n].made => Truth(n) = "bare"
         /\ HasRuntime(n) /\ Up(n) => Truth(n) = "running"
         /\ HasRuntime(n) /\ ~Up(n) => Truth(n) = "stopped"
BY DEF Truth, Up, Report

LEMMA TruthIsNext ==
  ASSUME NEW n \in Name
  PROVE  /\ ~HasRuntime(n)' /\ ~dir'[n].made => Truth(n)' = "absent"
         /\ ~HasRuntime(n)' /\ dir'[n].made => Truth(n)' = "bare"
         /\ HasRuntime(n)' /\ Up(n)' => Truth(n)' = "running"
         /\ HasRuntime(n)' /\ ~Up(n)' => Truth(n)' = "stopped"
BY DEF Truth, Up, Report, HasRuntime

\* The picture of one name changes, along one of Machine's moves.
LEMMA MovesOne ==
  ASSUME NEW n \in Name, NEW s, NEW t, Face(n) = s, Face(n)' = t,
         \A m \in Name \ {n} : Face(m)' = Face(m),
         \/ s = t
         \/ s = "absent" /\ t = "bare"
         \/ s = "bare" /\ t \in {"stopped", "absent"}
         \/ s = "stopped" /\ t \in {"running", "absent"}
         \/ s = "contested" /\ t = "absent"
  PROVE  [Contract!MachineNext]_Faces
<1>1. Faces' = [Faces EXCEPT ![n] = t] /\ Faces[n] = s
  BY DEF Faces
<1>2. CASE s = t
  BY <1>1, <1>2 DEF Faces
<1>3. Contract!Move(n, s, t)
  BY <1>1 DEF Contract!Move, Faces, Face
<1>4. CASE s # t
  BY <1>3, <1>4 DEF Contract!MachineNext, Contract!Build, Contract!Pin, Contract!Unbuild,
        Contract!Boot, Contract!Discard, Contract!Settle
<1> QED  BY <1>2, <1>4

LEMMA Contests ==
  ASSUME Quiet' \subseteq Quiet, \A m \in Quiet' : Truth(m)' = Truth(m)
  PROVE  Contract!MachineNext
<1>1. PICK ms \in SUBSET Name : ms = {m \in Name : m \notin Quiet'}
  OBVIOUS
<1>2. Faces' = [m \in Name |-> IF m \in ms THEN "contested" ELSE Faces[m]]
  BY <1>1 DEF Faces, Face
<1>3. Contract!Contest(ms)
  BY <1>2 DEF Contract!Contest, Faces, Face
<1> QED  BY <1>3 DEF Contract!MachineNext

\* Guests go at most.
LEMMA Halts ==
  ASSUME DriverInductive, NoneBoots, dir' = dir, Quiet' = Quiet
  PROVE  Contract!MachineNext
<1>1. PICK ms \in SUBSET Name : ms = {m \in Quiet : HasRuntime(m) /\ Up(m) /\ ~Up(m)'}
  BY DEF Quiet
<1>2. \A m \in Name : HasRuntime(m)' <=> HasRuntime(m)
  BY DEF HasRuntime
<1>3. \A m \in Name : Up(m)' => Up(m)
  <2> SUFFICES ASSUME NEW m \in Name, Up(m)'  PROVE  Up(m)
    OBVIOUS
  <2>1. dir[m].run.pid \in Pid
    BY DEF DriverInductive, DriverTypeOK, Directory, Runtime, Up
  <2>2. proc'[dir[m].run.pid] \in {proc[dir[m].run.pid], Free}
    BY <2>1 DEF NoneBoots
  <2> QED  BY <2>1, <2>2, Constants DEF Up, Free
<1>4. ASSUME NEW m \in Name
      PROVE  /\ m \in ms => Face(m) = "running" /\ Face(m)' = "stopped"
             /\ m \notin ms => Face(m)' = Face(m)
  BY <1>1, <1>2, <1>3, TruthIs, TruthIsNext DEF Face
<1>5. Faces' = [m \in Name |-> IF m \in ms THEN "stopped" ELSE Faces[m]] /\ \A m \in ms : Faces[m] = "running"
  BY <1>4 DEF Faces
<1>6. Contract!Halt(ms)
  BY <1>5 DEF Contract!Halt, Faces, Face
<1> QED  BY <1>6 DEF Contract!MachineNext

\* A name whose directory and processes stay has the same face.
LEMMA Stays ==
  ASSUME DriverInductive, NEW m \in Name, dir'[m] = dir[m],
         \A p \in Pid : /\ proc'[p].of = m <=> proc[p].of = m
                        /\ proc[p].of = m => proc'[p].port = proc[p].port
  PROVE  Truth(m)' = Truth(m)
<1>1. dir[m].run.pid \in Pid \union {NoPid}
  BY DEF DriverInductive, DriverTypeOK, Directory, Runtime
<1>2. HasRuntime(m)' <=> HasRuntime(m)
  BY DEF HasRuntime
<1>3. CASE dir[m].run.pid = NoPid
  <2>1. ~Up(m) /\ ~Up(m)'
    BY <1>3 DEF Up
  <2> QED  BY <1>2, <2>1, TruthIs, TruthIsNext
<1>4. CASE dir[m].run.pid \in Pid
  <2>1. PICK p \in Pid : p = dir[m].run.pid
    BY <1>4
  <2>2. p # NoPid /\ dir'[m].run = dir[m].run
    BY DriverAssumption
  <2>3. Up(m) <=> proc[p].of = m /\ proc[p].port = dir[m].run.port
    BY <2>1, <2>2 DEF Up
  <2>4. Up(m)' <=> proc'[p].of = m /\ proc'[p].port = dir[m].run.port
    BY <2>1, <2>2 DEF Up
  <2>5. /\ proc'[p].of = m <=> proc[p].of = m
        /\ proc[p].of = m => proc'[p].port = proc[p].port
    BY <2>1
  <2>6. Up(m)' <=> Up(m)
    BY <2>3, <2>4, <2>5
  <2> QED  BY <1>2, <2>6, TruthIs, TruthIsNext
<1> QED  BY <1>1, <1>3, <1>4

LEMMA Others ==
  ASSUME DriverInductive, NEW n \in Name,
         \A m \in Name \ {n} :
           /\ m \in Quiet' <=> m \in Quiet
           /\ m \in Quiet => dir'[m] = dir[m]
           /\ \A p \in Pid : /\ proc'[p].of = m <=> proc[p].of = m
                             /\ proc[p].of = m => proc'[p].port = proc[p].port
  PROVE  \A m \in Name \ {n} : Face(m)' = Face(m)
BY Stays DEF Face

\* No file and no process changes.
LEMMA Frozen ==
  ASSUME DriverInductive, dir' = dir, proc' = proc, raced \subseteq raced', astray \subseteq astray'
  PROVE  Contract!MachineNext
<1>1. Quiet' \subseteq Quiet /\ Quiet' \subseteq Name
  BY DEF Quiet
<1>2. \A m \in Quiet' : Truth(m)' = Truth(m)
  BY <1>1, Stays
<1> QED  BY <1>1, <1>2, Contests

\* Only the directory of n changes, and n is in no more and no less doubt.
LEMMA MovesDir ==
  ASSUME DriverInductive, NEW n \in Name, \A m \in Name \ {n} : dir'[m] = dir[m],
         proc' = proc, raced' = raced, astray' = astray,
         n \in Quiet =>
           \/ Truth(n)' = Truth(n)
           \/ Truth(n) = "absent" /\ Truth(n)' = "bare"
           \/ Truth(n) = "bare" /\ Truth(n)' \in {"stopped", "absent"}
           \/ Truth(n) = "stopped" /\ Truth(n)' \in {"running", "absent"}
  PROVE  [Contract!MachineNext]_Faces
<1>1. Quiet' = Quiet
  BY DEF Quiet
<1>2. \A m \in Name \ {n} : Face(m)' = Face(m)
  BY <1>1, Others
<1>3. PICK s : s = Face(n)
  OBVIOUS
<1>4. PICK t : t = Face(n)'
  OBVIOUS
<1>5. \/ s = t
      \/ s = "absent" /\ t = "bare"
      \/ s = "bare" /\ t \in {"stopped", "absent"}
      \/ s = "stopped" /\ t \in {"running", "absent"}
  BY <1>1, <1>3, <1>4 DEF Face
<1> QED  BY <1>2, <1>3, <1>4, <1>5, MovesOne

LEMMA RequestsMove ==
  ASSUME DriverInductive, NEW q \in Thread, Request(q)  PROVE  [Contract!MachineNext]_Faces
<1>1. PICK r : Accept(q, r)
  BY DEF Request, Launch, Clone, Start, Stop, Delete, Forward, Unforward
<1>2. dir' = dir /\ proc' = proc /\ raced \subseteq raced' /\ astray \subseteq astray'
  BY <1>1 DEF Accept, host
<1> QED  BY <1>2, Frozen

LEMMA CallsMove ==
  ASSUME DriverInductive, NEW q \in Thread,
         \/ LeftoverHeld(q) \/ Allocate(q) \/ SpawnFails(q) \/ RecordFails(q) \/ BootOk(q)
         \/ NothingToRead(q) \/ AlreadyUp(q) \/ PortsFree(q) \/ PortsBusy(q) \/ ReadToStop(q)
         \/ ForceDelete(q) \/ CloneRefused(q) \/ ReadToForward(q) \/ ApplyFails(q) \/ FileForward(q)
  PROVE  [Contract!MachineNext]_Faces
<1>1. dir' = dir /\ proc' = proc /\ raced \subseteq raced' /\ astray \subseteq astray'
  BY DEF LeftoverHeld, Allocate, SpawnFails, RecordFails, BootOk, NothingToRead, AlreadyUp, PortsFree,
     PortsBusy, ReadToStop, ForceDelete, CloneRefused, ReadToForward, ApplyFails, FileForward,
     NoHost, host, NoTables, past
<1> QED  BY <1>1, Frozen

LEMMA BuildDiskMoves ==
  ASSUME DriverInductive, NEW q \in Thread, BuildDisk(q)  PROVE  [Contract!MachineNext]_Faces
<1>1. call[q].pc = "building"
  BY DEF BuildDisk, At
<1>2. PICK n \in Name : n = call[q].n
  BY <1>1, CallFacts
<1>3. PICK d : d = [NoDirectory EXCEPT !.made = TRUE, !.disk = "whole"]
  OBVIOUS
<1>4. d.made = TRUE /\ d.run = NoRuntime
  BY <1>3 DEF NoDirectory
<1>5. dir' = [dir EXCEPT ![n] = d] /\ proc' = proc /\ raced' = raced /\ astray' = astray
  BY <1>2, <1>3 DEF BuildDisk, NoTables, past
<1>6. dir'[n] = d /\ \A m \in Name \ {n} : dir'[m] = dir[m]
  BY <1>5 DEF DriverInductive, DriverTypeOK
<1>7. Truth(n)' = "bare"
  BY <1>4, <1>6, TruthIsNext DEF HasRuntime
<1>8. n \in Quiet => Truth(n) = "absent"
  <2>1. n \in Quiet => dir[n] = NoDirectory
    BY <1>1, <1>2, SoundIn DEF Sound, Keeps
  <2> QED  BY <2>1, TruthIs DEF HasRuntime, NoDirectory
<1> QED  BY <1>5, <1>6, <1>7, <1>8, MovesDir

LEMMA BuildFailsMoves ==
  ASSUME DriverInductive, NEW q \in Thread, BuildFails(q)  PROVE  [Contract!MachineNext]_Faces
<1>1. call[q].pc = "building"
  BY DEF BuildFails, At
<1>2. PICK n \in Name : n = call[q].n
  BY <1>1, CallFacts
<1>3. dir' = [dir EXCEPT ![n] = NoDirectory] /\ proc' = proc /\ raced' = raced /\ astray' = astray
  BY <1>2 DEF BuildFails, past
<1>4. dir'[n] = NoDirectory /\ \A m \in Name \ {n} : dir'[m] = dir[m]
  BY <1>3 DEF DriverInductive, DriverTypeOK
<1>5. n \in Quiet => Truth(n)' = Truth(n)
  <2>1. n \in Quiet => dir[n] = NoDirectory
    BY <1>1, <1>2, SoundIn DEF Sound, Keeps
  <2> QED  BY <1>3, <1>4, <2>1, Stays
<1> QED  BY <1>3, <1>4, <1>5, MovesDir

LEMMA NoPortLeftMoves ==
  ASSUME DriverInductive, NEW q \in Thread, NoPortLeft(q)  PROVE  [Contract!MachineNext]_Faces
<1>1. call[q].pc = "allocating" /\ proc' = proc /\ raced' = raced /\ astray' = astray
  BY DEF NoPortLeft, At, past
<1>2. PICK n \in Name : n = call[q].n
  BY <1>1, CallFacts
<1>3. CASE dir' = dir
  BY <1>1, <1>3, Frozen
<1>4. CASE dir' = [dir EXCEPT ![n] = NoDirectory]
  <2>1. dir'[n] = NoDirectory /\ \A m \in Name \ {n} : dir'[m] = dir[m]
    BY <1>4 DEF DriverInductive, DriverTypeOK
  <2>2. Truth(n)' = "absent"
    BY <2>1, TruthIsNext DEF HasRuntime, NoDirectory
  <2>3. n \in Quiet => Truth(n) = "bare"
    <3>1. n \in Quiet => ~HasRuntime(n) /\ dir[n].made
      BY <1>1, <1>2, SoundIn DEF Sound, Keeps
    <3> QED  BY <3>1, TruthIs
  <2> QED  BY <1>1, <2>1, <2>2, <2>3, MovesDir
<1> QED  BY <1>2, <1>3, <1>4 DEF NoPortLeft

LEMMA PinMoves ==
  ASSUME DriverInductive, NEW q \in Thread, Pin(q)  PROVE  [Contract!MachineNext]_Faces
<1>1. call[q].pc = "pinning" /\ proc' = proc /\ raced' = raced /\ astray' = astray
  BY DEF Pin, At, NoTables, past
<1>2. PICK n \in Name : n = call[q].n
  BY <1>1, CallFacts
<1>3. PICK r : r = call[q].run
  OBVIOUS
<1>4. r.port \in Port /\ r.pid = NoPid
  BY <1>1, <1>3, CallFacts DEF Shaped
<1>5. PICK d : d = [dir[n] EXCEPT !.made = TRUE, !.run = r]
  OBVIOUS
<1>6. d.made = TRUE /\ d.run = r
  BY <1>5 DEF DriverInductive, DriverTypeOK, Directory
<1>7. dir' = [dir EXCEPT ![n] = d]
  BY <1>2, <1>3, <1>5 DEF Pin, WriteRuntime
<1>8. dir'[n] = d /\ \A m \in Name \ {n} : dir'[m] = dir[m]
  BY <1>7 DEF DriverInductive, DriverTypeOK
<1>9. r # NoRuntime
  BY <1>4, Constants DEF NoRuntime
<1>10. Truth(n)' = "stopped"
  BY <1>4, <1>6, <1>8, <1>9, TruthIsNext DEF HasRuntime, Up
<1>11. n \in Quiet => Truth(n) = "bare"
  <2>1. n \in Quiet => ~HasRuntime(n) /\ dir[n].made
    BY <1>1, <1>2, SoundIn DEF Sound, Keeps
  <2> QED  BY <2>1, TruthIs
<1> QED  BY <1>1, <1>8, <1>10, <1>11, MovesDir

\* A record that names no guest of the name says stopped.
LEMMA NotUp ==
  ASSUME DriverInductive, NEW n \in Quiet, HasRuntime(n), dir[n].run.pid \notin Guests(n)
  PROVE  ~Up(n)
<1>1. dir[n].run.port \in Port /\ dir[n].run.pid \in Pid \union {NoPid}
  BY DEF DriverInductive, Good, DriverTypeOK, Directory, Runtime, Quiet
<1> QED  BY <1>1, Constants DEF Up, Guests, HoldsDisk

LEMMA SpawnMoves ==
  ASSUME DriverInductive, NEW q \in Thread, Spawn(q)  PROVE  [Contract!MachineNext]_Faces
<1>1. call[q].pc = "spawning" /\ raced' = raced /\ astray' = astray
  BY DEF Spawn, At, NoTables, past
<1>2. PICK n \in Name : n = call[q].n
  BY <1>1, CallFacts
<1>3. PICK x \in Pid : proc[x] = Free /\ \E y : y.of = n /\ proc' = [proc EXCEPT ![x] = y]
  BY <1>2 DEF Spawn
<1>4. PICK y : proc[x] = Free /\ y.of = n /\ proc' = [proc EXCEPT ![x] = y]
  BY <1>3
<1>5. proc'[x] = y /\ \A p \in Pid \ {x} : proc'[p] = proc[p]
  BY <1>4 DEF DriverInductive, DriverTypeOK
<1>6. PICK bound \in BOOLEAN : bound <=> ~InUse(call[q].run.port) /\ \A f \in call[q].run.fwd : ~InUse(f)
  OBVIOUS
<1>7. PICK copies : copies =
         {call[k].n : k \in {k \in Thread : At(k, "copying") /\ call[k].from = n /\ bound}}
  OBVIOUS
<1>8. dir' = [m \in Name |-> IF m \in copies THEN [dir[m] EXCEPT !.disk = "torn"] ELSE dir[m]]
  BY <1>2, <1>6, <1>7 DEF Spawn
<1>9. \A m \in copies : m \in raced
  <2> SUFFICES ASSUME NEW k \in Thread, At(k, "copying"), call[k].from = n  PROVE  call[k].n \in raced
    BY <1>7
  <2>1. k # q /\ WorksOn(k, n) /\ WorksOn(q, n)
    BY <1>1, <1>2 DEF At, WorksOn
  <2> QED  BY <2>1 DEF DriverInductive, Apart, NamesOf
<1>10. Quiet' = Quiet /\ Quiet \subseteq Name /\ \A m \in Quiet : dir'[m] = dir[m]
  BY <1>1, <1>8, <1>9 DEF Quiet
<1>11. \A m \in Name \ {n}, p \in Pid :
        /\ proc'[p].of = m <=> proc[p].of = m
        /\ proc[p].of = m => proc'[p].port = proc[p].port
  BY <1>4, <1>5, Constants DEF Free
<1>12. \A m \in Name \ {n} : Face(m)' = Face(m)
  BY <1>10, <1>11, Others
<1>13. PICK s : s = Face(n)
  OBVIOUS
<1>14. PICK t : t = Face(n)'
  OBVIOUS
<1>15. CASE n \notin Quiet
  <2>1. s = t
    BY <1>10, <1>13, <1>14, <1>15 DEF Face
  <2> QED  BY <1>12, <1>13, <1>14, <2>1, MovesOne
<1>16. CASE n \in Quiet
  <2>1. HasRuntime(n) /\ Guests(n) = {}
    BY <1>1, <1>2, <1>16, SoundIn DEF Sound, Keeps
  <2>2. s = "stopped"
    BY <1>13, <1>16, <2>1, NotUp, TruthIs DEF Face
  <2>3. HasRuntime(n)'
    BY <1>10, <1>16, <2>1 DEF HasRuntime
  <2>4. t \in {"stopped", "running"}
    BY <1>10, <1>14, <1>16, <2>3, TruthIsNext DEF Face
  <2> QED  BY <1>12, <1>13, <1>14, <2>2, <2>4, MovesOne
<1> QED  BY <1>15, <1>16

LEMMA RecordPidMoves ==
  ASSUME DriverInductive, NEW q \in Thread, RecordPid(q)  PROVE  [Contract!MachineNext]_Faces
<1>1. call[q].pc = "spawned" /\ proc' = proc /\ raced' = raced /\ astray' = astray
  BY DEF RecordPid, At, NoTables, past
<1>2. PICK n \in Name : n = call[q].n
  BY <1>1, CallFacts
<1>3. PICK r : r = call[q].run
  OBVIOUS
<1>4. PICK d : d = [dir[n] EXCEPT !.made = TRUE, !.run = r]
  OBVIOUS
<1>5. d.made = TRUE /\ d.run = r
  BY <1>4 DEF DriverInductive, DriverTypeOK, Directory
<1>6. dir' = [dir EXCEPT ![n] = d]
  BY <1>2, <1>3, <1>4 DEF RecordPid, WriteRuntime
<1>7. dir'[n] = d /\ \A m \in Name \ {n} : dir'[m] = dir[m]
  BY <1>6 DEF DriverInductive, DriverTypeOK
<1>8. ASSUME n \in Quiet
      PROVE  Truth(n)' = Truth(n) \/ (Truth(n) = "stopped" /\ Truth(n)' = "running")
  <2>1. /\ HasRuntime(n) /\ r.pid \in Pid /\ r.port = dir[n].run.port
        /\ Guests(n) \subseteq {r.pid}
    BY <1>1, <1>2, <1>3, <1>8, SoundIn DEF Sound, Keeps
  <2>2. HasRuntime(n)'
    BY <1>5, <1>7, <2>1, Constants DEF HasRuntime, NoRuntime
  <2>3. CASE ~Up(n)
    BY <2>1, <2>2, <2>3, TruthIs, TruthIsNext
  <2>4. CASE Up(n)
    <3>1. dir[n].run.pid \in Guests(n)
      BY <1>8, <2>1, <2>4, NotUp
    <3>2. dir[n].run.pid = r.pid
      BY <2>1, <3>1
    <3>3. dir'[n].run.pid = dir[n].run.pid /\ dir'[n].run.port = dir[n].run.port
      BY <1>5, <1>7, <2>1, <3>2
    <3>4. Up(n)'
      BY <1>1, <2>4, <3>3 DEF Up
    <3> QED  BY <2>1, <2>2, <2>4, <3>4, TruthIs, TruthIsNext
  <2> QED  BY <2>3, <2>4
<1> QED  BY <1>1, <1>7, <1>8, MovesDir

\* The calls that put guests out.
LEMMA HaltsMove ==
  ASSUME DriverInductive, NEW q \in Thread, BootFails(q) \/ PowerDown(q) \/ HaltTimeout(q) \/ Quit(q)
  PROVE  [Contract!MachineNext]_Faces
<1>1. DriverTypeOK
  BY DEF DriverInductive
<1>2. dir' = dir /\ raced' = raced /\ astray' = astray /\ (proc' = proc \/ \E S : proc' = Without(S))
  BY DEF BootFails, PowerDown, HaltTimeout, Quit, NoTables, past
<1>3. NoneBoots
  BY <1>1, <1>2, Still, GuestsGo
<1>4. Quiet' = Quiet
  BY <1>2 DEF Quiet
<1> QED  BY <1>2, <1>3, <1>4, Halts

LEMMA HaltedMoves ==
  ASSUME DriverInductive, NEW q \in Thread, Halted(q)  PROVE  [Contract!MachineNext]_Faces
<1>1. /\ call[q].pc = "halting" /\ ~PidAlive(call[q].run.pid) /\ ClearPid(q)
      /\ proc' = proc /\ raced' = raced /\ astray' = astray
  BY DEF Halted, At, ClearPid, past
<1>2. PICK n \in Name : n = call[q].n
  BY <1>1, CallFacts
<1>3. PICK r : r = [call[q].run EXCEPT !.pid = NoPid]
  OBVIOUS
<1>4. r.pid = NoPid /\ r.port = call[q].run.port
  BY <1>1, <1>3, CallFacts DEF CallRecord, Runtime
<1>5. PICK d : d = IF dir[n].made THEN [dir[n] EXCEPT !.run = r] ELSE dir[n]
  OBVIOUS
<1>6. d.made = dir[n].made /\ (dir[n].made => d.run = r)
  BY <1>5 DEF DriverInductive, DriverTypeOK, Directory
<1>7. dir' = [dir EXCEPT ![n] = d]
  BY <1>1, <1>2, <1>3, <1>5 DEF ClearPid, DriverInductive, DriverTypeOK
<1>8. dir'[n] = d /\ \A m \in Name \ {n} : dir'[m] = dir[m]
  BY <1>7 DEF DriverInductive, DriverTypeOK
<1>9. ASSUME n \in Quiet  PROVE  Truth(n)' = Truth(n)
  <2>1. Sound(n, q)
    BY <1>2, <1>9, SoundIn
  <2>2. HasRuntime(n) /\ call[q].run = dir[n].run
    BY <1>1, <1>2, <2>1 DEF Sound, Keeps
  <2>3. dir[n].made /\ dir[n].run.port \in Port
    BY <2>1, <2>2 DEF Sound
  <2>4. ~IsRunning(dir[n].run)
    BY <1>1, <2>2 DEF IsRunning
  <2>5. Guests(n) = {}
    BY <1>1, <1>2, <1>9, <2>4, NotRunning
  <2>6. Truth(n) = "stopped"
    BY <1>9, <2>2, <2>5, NotUp, TruthIs
  <2>7. HasRuntime(n)' /\ ~Up(n)'
    BY <1>4, <1>6, <1>8, <2>2, <2>3, Constants DEF HasRuntime, NoRuntime, Up
  <2> QED  BY <2>6, <2>7, TruthIsNext
<1> QED  BY <1>1, <1>8, <1>9, MovesDir

LEMMA RemoveMoves ==
  ASSUME DriverInductive, NEW q \in Thread, Remove(q)  PROVE  [Contract!MachineNext]_Faces
<1>1. call[q].pc = "removing" /\ proc' = proc
  BY DEF Remove, At
<1>2. PICK n \in Name : n = call[q].n
  BY <1>1, CallFacts
<1>3. PICK last \in BOOLEAN :
        last <=> (HoldsDisk(n) = {} /\ \A k \in Thread \ {q} : ~WorksOn(k, n))
  OBVIOUS
<1>4. /\ dir' = [dir EXCEPT ![n] = NoDirectory]
      /\ raced' = IF last THEN raced \ {n} ELSE raced
      /\ astray' = IF last THEN astray \ {n} ELSE astray
  BY <1>2, <1>3 DEF Remove
<1>5. dir'[n] = NoDirectory /\ \A m \in Name \ {n} : dir'[m] = dir[m]
  BY <1>4 DEF DriverInductive, DriverTypeOK
<1>6. \A m \in Name \ {n} : m \in Quiet' <=> m \in Quiet
  BY <1>4 DEF Quiet
<1>7. \A m \in Name \ {n} : Face(m)' = Face(m)
  BY <1>1, <1>5, <1>6, Others
<1>8. Truth(n)' = "absent"
  BY <1>5, TruthIsNext DEF HasRuntime, NoDirectory
<1>9. n \in Quiet => n \in Quiet'
  BY <1>4 DEF Quiet
<1>10. PICK s : s = Face(n)
  OBVIOUS
<1>11. PICK t : t = Face(n)'
  OBVIOUS
<1>12. n \in Quiet => s \in {"absent", "bare", "stopped"} /\ t = "absent"
  <2> SUFFICES ASSUME n \in Quiet  PROVE  s \in {"absent", "bare", "stopped"} /\ t = "absent"
    OBVIOUS
  <2>1. Guests(n) = {}
    BY <1>1, <1>2, SoundIn DEF Sound, Keeps
  <2>2. HasRuntime(n) => ~Up(n)
    BY <2>1, NotUp
  <2> QED  BY <1>8, <1>9, <1>10, <1>11, <2>2, TruthIs DEF Face
<1>13. n \notin Quiet => s = "contested" /\ t \in {"contested", "absent"}
  BY <1>8, <1>10, <1>11 DEF Face
<1>14. \/ s = t
       \/ s = "absent" /\ t = "bare"
       \/ s = "bare" /\ t \in {"stopped", "absent"}
       \/ s = "stopped" /\ t \in {"running", "absent"}
       \/ s = "contested" /\ t = "absent"
  BY <1>12, <1>13
<1> QED  BY <1>7, <1>10, <1>11, <1>14, MovesOne

LEMMA RemoveFailsMoves ==
  ASSUME DriverInductive, NEW q \in Thread, RemoveFails(q)  PROVE  [Contract!MachineNext]_Faces
<1>1. call[q].pc = "removing" /\ proc' = proc
  BY DEF RemoveFails, At
<1>2. PICK n \in Name : n = call[q].n
  BY <1>1, CallFacts
<1>3. raced' = raced /\ astray' = astray \union {n} /\ \E left : dir' = [dir EXCEPT ![n].run = left]
  BY <1>2 DEF RemoveFails
<1>4. \A m \in Name \ {n} : dir'[m] = dir[m]
  BY <1>3 DEF DriverInductive, DriverTypeOK
<1>5. Quiet' \subseteq Quiet /\ n \notin Quiet' /\ Quiet' \subseteq Name
  BY <1>3 DEF Quiet
<1>6. \A m \in Quiet' : Truth(m)' = Truth(m)
  BY <1>1, <1>4, <1>5, Stays
<1> QED  BY <1>5, <1>6, Contests

LEMMA CopyMoves ==
  ASSUME DriverInductive, NEW q \in Thread, Copy(q)  PROVE  [Contract!MachineNext]_Faces
<1>1. call[q].pc = "checking" /\ proc' = proc /\ raced' = raced
  BY DEF Copy, At
<1>2. PICK n \in Name : n = call[q].n
  BY <1>1, CallFacts
<1>3. PICK disk : dir' = [dir EXCEPT ![n].made = TRUE, ![n].disk = disk]
  BY <1>2 DEF Copy
<1>4. PICK d : d = [dir[n] EXCEPT !.made = TRUE, !.disk = disk]
  OBVIOUS
<1>5. d.made = TRUE /\ d.run = dir[n].run
  BY <1>4 DEF DriverInductive, DriverTypeOK, Directory
<1>6. dir' = [dir EXCEPT ![n] = d]
  BY <1>3, <1>4 DEF DriverInductive, DriverTypeOK
<1>7. dir'[n] = d /\ \A m \in Name \ {n} : dir'[m] = dir[m]
  BY <1>6 DEF DriverInductive, DriverTypeOK
<1>8. CASE astray' = astray
  <2>1. ASSUME n \in Quiet  PROVE  Truth(n) = "absent" /\ Truth(n)' = "bare"
    <3>1. dir[n] = NoDirectory
      BY <1>1, <1>2, <2>1, SoundIn DEF Sound, Keeps
    <3> QED  BY <1>5, <1>7, <3>1, TruthIs, TruthIsNext DEF HasRuntime, NoDirectory
  <2> QED  BY <1>1, <1>7, <1>8, <2>1, MovesDir
<1>9. CASE astray' = astray \union {n}
  <2>1. Quiet' \subseteq Quiet /\ n \notin Quiet' /\ Quiet' \subseteq Name
    BY <1>1, <1>9 DEF Quiet
  <2>2. \A m \in Quiet' : Truth(m)' = Truth(m)
    BY <1>1, <1>7, <2>1, Stays
  <2> QED  BY <2>1, <2>2, Contests
<1>10. astray' = astray \/ astray' = astray \union {n}
  BY <1>2 DEF Copy
<1> QED  BY <1>8, <1>9, <1>10

LEMMA CopiedMoves ==
  ASSUME DriverInductive, NEW q \in Thread, Copied(q) \/ CopyTimesOut(q)
  PROVE  [Contract!MachineNext]_Faces
<1>1. call[q].pc = "copying" /\ proc' = proc /\ raced' = raced /\ astray' = astray
  BY DEF Copied, CopyTimesOut, At, NoTables, past
<1>2. PICK n \in Name : n = call[q].n
  BY <1>1, CallFacts
<1>3. CASE dir' = dir
  BY <1>1, <1>3, Frozen
<1>4. CASE dir' = [dir EXCEPT ![n].disk = Whole(@)]
  <2>1. PICK d : d = [dir[n] EXCEPT !.disk = Whole(dir[n].disk)]
    OBVIOUS
  <2>2. d.made = dir[n].made /\ d.run = dir[n].run
    BY <2>1 DEF DriverInductive, DriverTypeOK, Directory
  <2>3. dir' = [dir EXCEPT ![n] = d]
    BY <1>4, <2>1
  <2>4. dir'[n] = d /\ \A m \in Name \ {n} : dir'[m] = dir[m]
    BY <2>3 DEF DriverInductive, DriverTypeOK
  <2>5. HasRuntime(n)' <=> HasRuntime(n)
    BY <2>2, <2>4 DEF HasRuntime
  <2>6. Up(n)' <=> Up(n)
    BY <1>1, <2>2, <2>4 DEF Up
  <2>7. Truth(n)' = Truth(n)
    BY <2>2, <2>4, <2>5, <2>6, TruthIs, TruthIsNext
  <2> QED  BY <1>1, <2>4, <2>7, MovesDir
<1>5. dir' = dir \/ dir' = [dir EXCEPT ![n].disk = Whole(@)]
  BY <1>2 DEF Copied, CopyTimesOut
<1> QED  BY <1>3, <1>4, <1>5

LEMMA ApplyMoves ==
  ASSUME DriverInductive, NEW q \in Thread, Apply(q)  PROVE  [Contract!MachineNext]_Faces
<1>1. dir' = dir /\ raced \subseteq raced' /\ astray' = astray
  BY DEF Apply
<1>2. PICK x \in Pid : proc' = [proc EXCEPT ![x].fwd = Changed(q, @)]
  BY DEF Apply, Listening
<1>3. PICK y : y = [proc[x] EXCEPT !.fwd = Changed(q, proc[x].fwd)]
  OBVIOUS
<1>4. y.of = proc[x].of /\ y.port = proc[x].port
  BY <1>3 DEF DriverInductive, DriverTypeOK, Process
<1>5. proc' = [proc EXCEPT ![x] = y]
  BY <1>2, <1>3
<1>6. \A p \in Pid : proc'[p].of = proc[p].of /\ proc'[p].port = proc[p].port
  BY <1>4, <1>5 DEF DriverInductive, DriverTypeOK
<1>7. Quiet' \subseteq Quiet /\ Quiet' \subseteq Name
  BY <1>1 DEF Quiet
<1>8. \A m \in Quiet' : Truth(m)' = Truth(m)
  BY <1>1, <1>6, <1>7, Stays
<1> QED  BY <1>7, <1>8, Contests

LEMMA WriteForwardMoves ==
  ASSUME DriverInductive, NEW q \in Thread, WriteForward(q)  PROVE  [Contract!MachineNext]_Faces
<1>1. call[q].pc = "writing" /\ proc' = proc /\ raced' = raced /\ astray' = astray
  BY DEF WriteForward, At, NoTables, past
<1>2. PICK n \in Name : n = call[q].n
  BY <1>1, CallFacts
<1>3. PICK fwd : fwd = Changed(q, call[q].run.fwd)
  OBVIOUS
<1>4. PICK r : r = [call[q].run EXCEPT !.fwd = fwd]
  OBVIOUS
<1>5. r.port = call[q].run.port /\ r.pid = call[q].run.pid
  BY <1>1, <1>4, CallFacts DEF CallRecord, Runtime
<1>6. PICK d : d = [dir[n] EXCEPT !.made = TRUE, !.run = r]
  OBVIOUS
<1>7. d.made = TRUE /\ d.run = r
  BY <1>6 DEF DriverInductive, DriverTypeOK, Directory
<1>8. r = [call[q].run EXCEPT !.fwd = Changed(q, call[q].run.fwd)]
  BY <1>3, <1>4
<1>9. dir' = [dir EXCEPT ![n] = d]
  BY <1>2, <1>6, <1>8 DEF WriteForward, WriteRuntime
<1>10. dir'[n] = d /\ \A m \in Name \ {n} : dir'[m] = dir[m]
  BY <1>9 DEF DriverInductive, DriverTypeOK
<1>11. ASSUME n \in Quiet  PROVE  Truth(n)' = Truth(n)
  <2>1. Sound(n, q)
    BY <1>2, <1>11, SoundIn
  <2>2. HasRuntime(n) /\ call[q].run = dir[n].run
    BY <1>1, <1>2, <2>1 DEF Sound, Keeps
  <2>3. dir[n].run.port \in Port
    BY <2>1, <2>2 DEF Sound
  <2>4. HasRuntime(n)'
    BY <1>5, <1>7, <1>10, <2>2, <2>3, Constants DEF HasRuntime, NoRuntime
  <2>5. dir'[n].run.port = dir[n].run.port /\ dir'[n].run.pid = dir[n].run.pid
    BY <1>5, <1>7, <1>10, <2>2
  <2>6. Up(n)' <=> Up(n)
    BY <1>1, <2>5 DEF Up
  <2> QED  BY <2>2, <2>4, <2>6, TruthIs, TruthIsNext
<1> QED  BY <1>1, <1>10, <1>11, MovesDir

LEMMA EnvironmentMoves ==
  ASSUME DriverInductive, Environment  PROVE  [Contract!MachineNext]_Faces
<1>1. DriverTypeOK
  BY DEF DriverInductive
<1>2. ASSUME NEW x \in Pid, GuestExits(x)  PROVE  [Contract!MachineNext]_Faces
  <2>1. dir' = dir /\ raced' = raced /\ astray' = astray /\ proc' = Without({x})
    BY <1>2 DEF GuestExits, past
  <2>2. NoneBoots /\ Quiet' = Quiet
    BY <1>1, <2>1, GuestsGo DEF Quiet
  <2> QED  BY <2>1, <2>2, Halts
<1>3. ASSUME NEW x \in Pid, StrangerTakesPid(x)  PROVE  [Contract!MachineNext]_Faces
  <2>1. dir' = dir /\ Quiet' = Quiet
    BY <1>3 DEF StrangerTakesPid, past, Quiet
  <2>2. PICK y : y = [proc[x] EXCEPT !.of = Stranger]
    OBVIOUS
  <2>3. y.of = Stranger /\ proc[x].of = Nobody
    BY <1>3, <2>2 DEF StrangerTakesPid, Free
  <2>4. proc' = [proc EXCEPT ![x] = y]
    BY <1>3, <2>2 DEF StrangerTakesPid
  <2>5. proc'[x] = y /\ \A p \in Pid \ {x} : proc'[p] = proc[p]
    BY <1>1, <2>4 DEF DriverTypeOK
  <2>6. \A m \in Name, p \in Pid :
          /\ proc'[p].of = m <=> proc[p].of = m
          /\ proc[p].of = m => proc'[p].port = proc[p].port
    BY <2>3, <2>5, DriverAssumption
  <2>7. \A m \in Quiet' : Truth(m)' = Truth(m)
    BY <2>1, <2>6, Stays DEF Quiet
  <2> QED  BY <2>1, <2>7, Contests
<1>4. ASSUME NEW x \in Port \union Public, StrangerListens(x)  PROVE  [Contract!MachineNext]_Faces
  BY <1>4, Frozen DEF StrangerListens, past
<1>5. ASSUME Crash  PROVE  [Contract!MachineNext]_Faces
  BY <1>5, Frozen DEF Crash, NoHost, host
<1>6. ASSUME NEW n \in Name, Follow(n)  PROVE  [Contract!MachineNext]_Faces
  BY <1>6, Frozen DEF Follow, NoHost, host, past
<1> QED  BY <1>2, <1>3, <1>4, <1>5, <1>6 DEF Environment

LEMMA StepMoves ==
  ASSUME DriverInductive, [DriverNext]_driverVars  PROVE  [Contract!MachineNext]_Faces
<1>1. ASSUME NEW q \in Thread, Step(q)  PROVE  [Contract!MachineNext]_Faces
  BY <1>1, CallsMove, BuildDiskMoves, BuildFailsMoves, NoPortLeftMoves, PinMoves, SpawnMoves,
     RecordPidMoves, HaltsMove, HaltedMoves, RemoveMoves, RemoveFailsMoves, CopyMoves, CopiedMoves,
     ApplyMoves, WriteForwardMoves DEF Step
<1>2. CASE UNCHANGED driverVars
  BY <1>2, Frozen DEF driverVars, host, past
<1> QED  BY <1>1, <1>2, RequestsMove, EnvironmentMoves DEF DriverNext

LEMMA FacesStart ==
  ASSUME DriverInit  PROVE  Contract!MachineInit
<1>1. DriverInductive
  BY DriverStarts
<1>2. ASSUME NEW n \in Name  PROVE  Face(n) \in {"absent", "stopped", "running"}
  <2>1. n \in Quiet
    BY DEF DriverInit, Quiet
  <2>2. dir[n] = NoDirectory \/ HasRuntime(n)
    <3>1. standing[n] = "none" => dir[n] = NoDirectory
      BY <1>1, <2>1 DEF DriverInductive, Good
    <3>2. PICK up \in SUBSET Name : \E down \in SUBSET (Name \ up) : Begun(up, down)
      BY DEF DriverInit, Begun
    <3>3. PICK down \in SUBSET (Name \ up) : Begun(up, down)
      BY <3>2
    <3>4. n \notin up \union down => dir[n] = NoDirectory
      BY <3>3 DEF Begun
    <3>5. ASSUME n \in up \union down  PROVE  HasRuntime(n)
      <4>1. PICK at \in [up \union down -> Port], pid \in [up -> Pid] :
              /\ \A k, m \in up \union down : k # m => at[k] # at[m]
              /\ \A k, m \in up : k # m => pid[k] # pid[m]
              /\ dir = [m \in Name |->
                   IF m \notin up \union down THEN NoDirectory
                   ELSE [made |-> TRUE, disk |-> "whole",
                         run |-> [port |-> at[m], pid |-> IF m \in up THEN pid[m] ELSE NoPid,
                                  fwd |-> {}]]]
              /\ proc = [p \in Pid |->
                   IF \E m \in up : pid[m] = p
                     THEN LET m == CHOOSE m \in up : pid[m] = p
                          IN [of |-> m, port |-> at[m], fwd |-> {}]
                     ELSE Free]
              /\ standing = [m \in Name |-> IF m \in up THEN "Running"
                                            ELSE IF m \in down THEN "Stopped" ELSE "none"]
        BY <3>3 DEF Begun
      <4>2. PICK num \in Pid \union {NoPid} : num = (IF n \in up THEN pid[n] ELSE NoPid)
        BY <3>5
      <4>3. PICK r : r = [port |-> at[n], pid |-> num, fwd |-> {}]
        OBVIOUS
      <4>4. dir[n] = [made |-> TRUE, disk |-> "whole", run |-> r]
        BY <3>5, <4>1, <4>2, <4>3
      <4>5. r.port = at[n] /\ at[n] \in Port
        BY <3>5, <4>3
      <4> QED  BY <4>4, <4>5, Constants DEF HasRuntime, NoRuntime
    <3> QED  BY <3>4, <3>5
  <2> QED  BY <2>1, <2>2, TruthIs DEF Face, NoDirectory, HasRuntime
<1>3. Faces \in [Name -> {"absent", "stopped", "running"}]
  BY <1>2 DEF Faces
<1> QED  BY <1>3 DEF Contract!MachineInit, Faces, Face

\* Every run of the driver is a run of the machines it stands for: no guest
\* is lost, none boots without its record, and only calls that overlap or
\* die half way leave a name in doubt (QemuDriver against EngineDriver).
THEOREM DriverContract == DriverSpec => KeepsContract
<1>1. DriverInit => Contract!MachineInit
  BY FacesStart
<1>2. DriverInductive /\ [DriverNext]_driverVars => [Contract!MachineNext]_Faces
  BY StepMoves
<1>3. DriverSpec => []DriverInductive
  BY DriverInvariant
<1> QED  BY <1>1, <1>2, <1>3, PTL DEF DriverSpec, KeepsContract, Contract!MachineSpec, Faces, Face

-----------------------------------------------------------------------------
(***************************************************************************)
(* Driver and Launches side by side: a run of the host is one of each.     *)
(***************************************************************************)

LEMMA HostIsBoth == HostSpec => DriverSpec /\ LaunchesSpec
<1>1. HostInit => DriverInit /\ LaunchesInit
  BY DEF HostInit
<1>2. [HostNext]_hostVars => [DriverNext]_driverVars /\ [LaunchesNext]_launchesVars
  BY DEF HostNext, hostVars
<1> QED  BY <1>1, <1>2, PTL DEF HostSpec, DriverSpec, LaunchesSpec

\* Everything that the run Host checks of the two parts: their types, and
\* the promises of each.
THEOREM Host == HostSpec => /\ []HostTypeOK /\ KeepsContract
                            /\ []PortsOnce /\ []GuestsAreOnRecord
                            /\ []ForwardsAgree /\ []ClonesAreWhole
                            /\ []BackingIsWhole /\ []CommittedFits /\ []RowsHaveTheirParts
<1>1. DriverTypeOK /\ LaunchesTypeOK => HostTypeOK
  BY DEF HostTypeOK
<1> QED
  BY <1>1, HostIsBoth, DriverTypes, DriverContract, PortsOnceHolds, OnRecord, ForwardsAgreeHolds,
     ClonesAreWholeHolds, LaunchesTypes, Backing, Fits, Parts, PTL
=============================================================================
