------------------------ MODULE StateMigrationProofs ------------------------
(***************************************************************************)
(* Proofs about StateMigration, for any guests and any number and kinds of *)
(* faults.                                                                 *)
(*                                                                         *)
(* What a step of the move may do depends on what the steps before it left *)
(* behind.  Aims says which installs are moved at all, Places what is on   *)
(* the disk at each step whatever has failed, Uncut where the database and *)
(* its log are in a start that nothing has cut short, and Follows how far  *)
(* the paths have been rewritten.                                          *)
(***************************************************************************)
EXTENDS StateMigration, TLAPS

Moving == {"backup", "rename", "copying", "deleting", "checkpoint", "sidecars", "database"}

\* There is nothing in directory d.
Bare(d) ==
  /\ db[Iaas(d)] = "none" /\ db[Kurukuru(d)] = "none"
  /\ wal[Iaas(d)] = "none" /\ wal[Kurukuru(d)] = "none"
  /\ \A g \in Guest : d \notin home[g]

\* Only an older release's directory is moved, and only its move is refused.
Aims ==
  /\ install.db = "cwd" => "legacy" \notin dirs
  /\ install.db # "legacy" =>
       pc \notin Moving \union {"runtime", "rebase", "refused"} /\ root = "target"
  /\ db[Kurukuru("legacy")] # "legacy" /\ db[Cwd] # "legacy"

\* The original of what is under the name `target'.
Before(s) == [dir |-> "legacy", leaf |-> s.leaf]

Places ==
  /\ pc = "backup" => Bare("target")
  /\ pc = "rename" => "target" \notin dirs
  /\ pc \in {"copying", "deleting"} => "target" \in dirs
  /\ pc = "copying" =>
       /\ \A g \in Guest : "target" \in home[g] => "legacy" \in home[g]
       /\ \A s \in In("target") : db[s] \in {"none", db[Before(s)]}
  /\ pc = "deleting" =>
       /\ \A g \in Guest : "legacy" \in home[g] => "target" \in home[g]
       /\ \A s \in In("target") : db[Before(s)] \in {"none", db[s]}
  /\ pc \in {"sidecars", "database"} => RenamesDatabase
  /\ pc = "relocate database" => Relocates
  /\ pc \in {"relocate", "relocate database", "open"} => root \in dirs

\* The install's database is in s, and its log, if any, beside it.
LogOnlyAt(ss) == \A x \in Slot \ ss : wal[x] # install.db
Sits(s)       == db[s] = install.db /\ LogOnlyAt({s})

\* The stages of a start that is not cut short.
Settled ==
  /\ pc \in {"down", "migrate", "runtime", "rebase", "prepare", "relocate", "open", "serving"}
  /\ Sits(Kurukuru("target"))
  /\ pc = "serving" => wal[Kurukuru("target")] # install.db

Stray ==
  /\ install.db = "cwd" /\ db[Cwd] = "cwd" /\ db[Kurukuru("target")] = "none"
  /\ \/ pc \in {"down", "migrate", "prepare", "relocate"} /\ LogOnlyAt({Cwd})
     \/ pc = "relocate database" /\ LogOnlyAt({Kurukuru("target")})

Unmoved ==
  /\ pc \in {"down", "migrate", "refused", "backup", "rename"}
  /\ install.db = "legacy" /\ Sits(Iaas("legacy")) /\ db[Kurukuru("legacy")] = "none"
  /\ Bare("target")

OnTheMove ==
  /\ install.db = "legacy" /\ db[Kurukuru("target")] = "none"
  /\ \/ /\ pc = "copying" /\ LogOnlyAt({Iaas("legacy"), Iaas("target")})
        /\ db[Iaas("legacy")] = "legacy" /\ db[Kurukuru("legacy")] = "none"
     \/ /\ pc = "deleting" /\ LogOnlyAt({Iaas("legacy"), Iaas("target")})
        /\ db[Iaas("target")] = "legacy"
     \/ pc \in {"checkpoint", "sidecars"} /\ Sits(Iaas("target"))
     \/ /\ pc = "database" /\ LogOnlyAt({Kurukuru("target")})
        /\ db[Iaas("target")] = "legacy"

Uncut ==
  ~Suffered({"crash", "relocate", "delete", "advice"}) =>
    root = "target" /\ (Settled \/ Stray \/ Unmoved \/ OnTheMove)

\* How far the paths of a moved install have come.
Rewritten ==
  /\ pc \notin Moving
  /\ pc = "runtime" => \A g \in Guest \ (todo \union told) : runtime[g] = "target"
  /\ pc # "runtime" => rows = "target" /\ \A g \in Guest \ told : runtime[g] = "target"
  /\ pc = "rebase" => \A g \in Guest \ (todo \union told) : backing[g] = "target"
  /\ pc \notin {"runtime", "rebase"} => \A g \in Guest \ told : backing[g] = "target"

Follows ==
  ~Suffered({"crash", "delete"}) =>
    /\ pc \in {"checkpoint", "sidecars", "database", "runtime"} =>
         \A g \in Guest : "target" \in home[g]
    /\ pc \in {"sidecars", "database"} => todo = Guest
    /\ db[Kurukuru("target")] = "legacy" => Rewritten

MigrationInductive == TypeOK /\ NothingLost /\ Aims /\ Places /\ Uncut /\ Follows

-----------------------------------------------------------------------------
(***************************************************************************)
(* The five files, one by one                                              *)
(***************************************************************************)

LEMMA Slots ==
  /\ Slot = {Iaas("legacy"), Kurukuru("legacy"), Iaas("target"), Kurukuru("target"), Cwd}
  /\ Iaas("legacy") \notin {Kurukuru("legacy"), Iaas("target"), Kurukuru("target"), Cwd}
  /\ Kurukuru("legacy") \notin {Iaas("target"), Kurukuru("target"), Cwd}
  /\ Iaas("target") \notin {Kurukuru("target"), Cwd} /\ Kurukuru("target") # Cwd
  /\ In("legacy") = {Iaas("legacy"), Kurukuru("legacy")}
  /\ In("target") = {Iaas("target"), Kurukuru("target")}
  /\ Before(Iaas("target")) = Iaas("legacy") /\ Before(Kurukuru("target")) = Kurukuru("legacy")
  /\ Dir = {"legacy", "target"}
<1>1. Slot = {Iaas("legacy"), Kurukuru("legacy"), Iaas("target"), Kurukuru("target"), Cwd}
  BY DEF Slot, Dir, Iaas, Kurukuru, Cwd
<1> QED  BY <1>1 DEF Dir, Iaas, Kurukuru, Cwd, In, Before

\* What may be in a database file, and in a log.
Data == Source \union {"none", "fresh"}
Logs == Source \union {"none"}

LEMMA RenamedIs ==
  ASSUME NEW f \in [Slot -> Data], NEW a \in Slot, NEW b \in Slot, a # b
  PROVE  /\ Renamed(f, a, b) \in [Slot -> Data]
         /\ f \in [Slot -> Logs] => Renamed(f, a, b) \in [Slot -> Logs]
         /\ Renamed(f, a, b)[b] = f[a] /\ Renamed(f, a, b)[a] = "none"
         /\ \A s \in Slot \ {a, b} : Renamed(f, a, b)[s] = f[s]
BY DEF Renamed, Data, Logs

LEMMA EmptiedIs ==
  ASSUME NEW f \in [Slot -> Data], NEW d \in Dir
  PROVE  /\ Emptied(f, d) \in [Slot -> Data]
         /\ f \in [Slot -> Logs] => Emptied(f, d) \in [Slot -> Logs]
         /\ \A s \in In(d) : Emptied(f, d)[s] = "none"
         /\ \A s \in Slot \ In(d) : Emptied(f, d)[s] = f[s]
BY Slots DEF Emptied, Data, Logs

LEMMA CarriedIs ==
  ASSUME NEW f \in [Slot -> Data]
  PROVE  /\ Carried(f) \in [Slot -> Data]
         /\ f \in [Slot -> Logs] => Carried(f) \in [Slot -> Logs]
         /\ Carried(f)[Iaas("target")] = f[Iaas("legacy")]
         /\ Carried(f)[Kurukuru("target")] = f[Kurukuru("legacy")]
         /\ Carried(f)[Iaas("legacy")] = "none" /\ Carried(f)[Kurukuru("legacy")] = "none"
         /\ Carried(f)[Cwd] = f[Cwd]
<1>1. \A s \in In("target") : [dir |-> "legacy", leaf |-> s.leaf] = Before(s)
  BY DEF Before
<1>2. Carried(f) = [s \in Slot |-> IF s \in In("target") THEN f[Before(s)]
                                   ELSE IF s \in In("legacy") THEN "none" ELSE f[s]]
  BY <1>1 DEF Carried, Before
<1> QED  BY <1>2, Slots DEF Data, Logs

LEMMA Contents ==
  ASSUME NEW d \in Dir  PROVE  HasContents(d) <=> ~Bare(d)
BY DEF HasContents, Bare, In

Typed ==
  /\ pc \in Step /\ root \in Dir /\ dirs \subseteq Dir
  /\ db \in [Slot -> Data] /\ wal \in [Slot -> Logs] /\ wal \in [Slot -> Data]
  /\ home \in [Guest -> SUBSET Dir]
  /\ runtime \in [Guest -> Dir] /\ backing \in [Guest -> Dir] /\ rows \in Dir
  /\ told \subseteq Guest /\ todo \subseteq Guest /\ up \subseteq Guest
  /\ install \in [db : Source, apart : BOOLEAN]
  /\ faults \in [left : 0..MaxFaults, seen : SUBSET (FaultKind \union {"advice"})]

NoStrayFile == \A d \in Dir \ dirs : Bare(d)

LEMMA TypesOf ==
  ASSUME TypeOK  PROVE  Typed /\ NoStrayFile
<1>1. Typed
  BY DEF TypeOK, Typed, Data, Logs
<1>2. ASSUME NEW d \in Dir \ dirs  PROVE  Bare(d)
  <2>1. Iaas(d) \in Slot /\ Iaas(d).dir = d /\ Kurukuru(d) \in Slot /\ Kurukuru(d).dir = d /\ d # "cwd"
    BY DEF Slot, Iaas, Kurukuru, Dir
  <2> QED  BY <2>1 DEF TypeOK, Bare
<1> QED  BY <1>1, <1>2 DEF NoStrayFile

LEMMA TypesAre ==
  ASSUME Typed', NoStrayFile'  PROVE  TypeOK'
<1>1. ASSUME NEW s \in Slot, s.dir \notin dirs' \union {"cwd"}  PROVE  db'[s] = "none" /\ wal'[s] = "none"
  <2>1. s.dir \in Dir \ dirs' /\ s \in {Iaas(s.dir), Kurukuru(s.dir)}
    BY <1>1 DEF Slot, Iaas, Kurukuru, Dir, Cwd
  <2> QED  BY <2>1 DEF NoStrayFile, Bare
<1>2. ASSUME NEW g \in Guest  PROVE  home'[g] \subseteq dirs'
  BY DEF NoStrayFile, Bare, Typed
<1> QED  BY <1>1, <1>2 DEF TypeOK, Typed, Data, Logs

-----------------------------------------------------------------------------
(***************************************************************************)
(* One step at a time                                                      *)
(***************************************************************************)

LEMMA FaultIs ==
  ASSUME Typed, NEW kind, Fault(kind)
  PROVE  /\ faults' \in [left : 0..MaxFaults, seen : SUBSET (FaultKind \union {"advice"})]
         /\ faults'.seen = faults.seen \union {kind}
BY MigrationAssumption DEF Typed, Fault

LEMMA LookAroundSteps ==
  ASSUME MigrationInductive, LookAround  PROVE  MigrationInductive'
<1>1. Typed /\ NoStrayFile /\ NothingLost /\ Aims /\ Places /\ Uncut /\ Follows
  BY TypesOf DEF MigrationInductive
<1>2. UNCHANGED <<root, files, paths, todo, up, install, faults>> /\ pc = "migrate"
  BY DEF LookAround, At
<1>3. /\ pc' \in {"prepare", "refused", "backup"}
      /\ pc' # "prepare" => root = "target" /\ "legacy" \in dirs /\ Bare("target")
      /\ pc' = "prepare" => root = "legacy" \/ "legacy" \notin dirs \/ ~Bare("target")
  BY <1>1, Slots, Contents DEF LookAround, TargetIsFree, NoStrayFile, Typed
<1>4. Typed'
  BY <1>1, <1>2, <1>3 DEF files, paths, Typed, Step
<1>5. NoStrayFile'
  BY <1>1, <1>2 DEF files, NoStrayFile, Bare
<1>6. NothingLost'
  BY <1>1, <1>2 DEF files, NothingLost, Suffered
<1>7. Aims'
  BY <1>1, <1>2, <1>3 DEF files, Typed, Source, Aims, NothingLost, Bare, Moving
<1>8. Places'
  BY <1>1, <1>2, <1>3 DEF files, Places, Bare
<1>9. Uncut'
  <2>1. Unmoved /\ root = "target" => pc' # "prepare"
    BY <1>1, <1>2, <1>3, Slots DEF Unmoved, NoStrayFile, Bare, Sits, Typed
  <2>2. db[Kurukuru("target")] = install.db => ~Bare("target")
    BY <1>1 DEF Bare, Typed, Source
  <2>3. install.db = "cwd" => pc' = "prepare"
    BY <1>1, <1>3 DEF Aims
  <2> QED  BY <1>1, <1>2, <1>3, <2>1, <2>2, <2>3
           DEF files, paths, Uncut, Suffered, Settled, Stray, Unmoved, OnTheMove, Sits, LogOnlyAt, Bare
<1>10. Follows'
  BY <1>1, <1>2, <1>3 DEF files, paths, Follows, Rewritten, Suffered, Moving, Bare
<1> QED  BY <1>4, <1>5, <1>6, <1>7, <1>8, <1>9, <1>10, TypesAre DEF MigrationInductive

LEMMA BackUpSteps ==
  ASSUME MigrationInductive, BackUp  PROVE  MigrationInductive'
<1>1. Typed /\ NoStrayFile /\ NothingLost /\ Aims /\ Places /\ Uncut /\ Follows
  BY TypesOf DEF MigrationInductive
<1>2. /\ pc = "backup" /\ pc' = "rename" /\ dirs' = dirs \ {"target"} /\ Bare("target")
      /\ UNCHANGED <<root, paths, todo, up, install, faults>>
  BY <1>1 DEF BackUp, At, GoTo, Places
<1>3. db' = db
  <2>1. db \in [Slot -> Data] /\ db' = Emptied(db, "target") /\ "target" \in Dir
    BY <1>1 DEF BackUp, Typed, Dir
  <2>2. /\ db' \in [Slot -> Data]
        /\ \A s \in In("target") : db'[s] = "none"
        /\ \A s \in Slot \ In("target") : db'[s] = db[s]
    BY <2>1, EmptiedIs
  <2>3. \A s \in Slot : db'[s] = db[s]
    BY <1>2, <2>2, Slots DEF Bare
  <2> QED  BY <2>1, <2>2, <2>3
<1>4. home' = home
  BY <1>1, <1>2 DEF BackUp, Typed, Bare
<1>5. wal' \in [Slot -> Logs] /\ wal' \in [Slot -> Data] /\ \A s \in Slot : wal'[s] \in {"none", wal[s]}
  <2>1. PICK folded \in BOOLEAN :
           wal' = Emptied([wal EXCEPT ![Iaas("legacy")] = IF folded THEN "none" ELSE @], "target")
    BY DEF BackUp
  <2>2. PICK w \in [Slot -> Logs] : w = [wal EXCEPT ![Iaas("legacy")] = IF folded THEN "none" ELSE @]
    BY <1>1 DEF Typed, Logs
  <2>3. w \in [Slot -> Data] /\ \A s \in Slot : w[s] \in {"none", wal[s]}
    BY <1>1, <2>2 DEF Typed, Logs, Data
  <2>4. /\ wal' \in [Slot -> Data] /\ wal' \in [Slot -> Logs] /\ "target" \in Dir
        /\ \A s \in In("target") : wal'[s] = "none"
        /\ \A s \in Slot \ In("target") : wal'[s] = w[s]
    BY <2>1, <2>2, <2>3, EmptiedIs DEF Dir
  <2> QED  BY <2>3, <2>4
<1>6. Typed'
  BY <1>1, <1>2, <1>3, <1>4, <1>5 DEF paths, Typed, Step
<1>7. NoStrayFile'
  BY <1>1, <1>2, <1>3, <1>4, <1>5, Slots DEF NoStrayFile, Bare
<1>8. NothingLost'
  BY <1>1, <1>2, <1>3, <1>4 DEF NothingLost, Suffered
<1>9. Aims'
  BY <1>1, <1>2, <1>3 DEF Aims, Moving
<1>10. Places'
  BY <1>2 DEF Places
<1>11. Uncut'
  BY <1>1, <1>2, <1>3, <1>4, <1>5, Slots DEF Uncut, Suffered, Settled, Stray, Unmoved, OnTheMove, Sits, LogOnlyAt, Bare
<1>12. Follows'
  BY <1>1, <1>2, <1>3 DEF Follows, Rewritten, Suffered, Moving
<1> QED  BY <1>6, <1>7, <1>8, <1>9, <1>10, <1>11, <1>12, TypesAre DEF MigrationInductive

LEMMA RenameDirectorySteps ==
  ASSUME MigrationInductive, RenameDirectory  PROVE  MigrationInductive'
<1>1. Typed /\ NoStrayFile /\ NothingLost /\ Aims /\ Places /\ Uncut /\ Follows
  BY TypesOf DEF MigrationInductive
<1>2. /\ pc = "rename" /\ pc' = "checkpoint" /\ dirs' = {"target"} /\ Bare("target")
      /\ UNCHANGED <<root, paths, todo, up, install, faults>>
  BY <1>1, Slots DEF RenameDirectory, At, GoTo, Places, NoStrayFile
<1>3. /\ install.db = "legacy"
      /\ db[Kurukuru("legacy")] # "legacy" /\ db[Cwd] # "legacy"
  BY <1>1, <1>2 DEF Aims, Moving
<1>4. /\ db' \in [Slot -> Data]
      /\ db'[Iaas("target")] = db[Iaas("legacy")] /\ db'[Kurukuru("target")] = db[Kurukuru("legacy")]
      /\ db'[Iaas("legacy")] = "none" /\ db'[Kurukuru("legacy")] = "none" /\ db'[Cwd] = db[Cwd]
  BY <1>1, CarriedIs DEF RenameDirectory, Typed
<1>5. /\ wal' \in [Slot -> Logs]
      /\ wal' \in [Slot -> Data] /\ wal'[Iaas("target")] = wal[Iaas("legacy")] /\ wal'[Kurukuru("target")] = wal[Kurukuru("legacy")]
      /\ wal'[Iaas("legacy")] = "none" /\ wal'[Kurukuru("legacy")] = "none" /\ wal'[Cwd] = wal[Cwd]
  BY <1>1, CarriedIs DEF RenameDirectory, Typed
<1>6. /\ home' \in [Guest -> SUBSET Dir]
      /\ \A g \in Guest : home'[g] = IF home[g] = {} THEN {} ELSE {"target"}
  BY <1>1, <1>2, Slots, SMTT(30) DEF RenameDirectory, Typed, Bare
<1>7. Typed'
  BY <1>1, <1>2, <1>4, <1>5, <1>6, Slots DEF paths, Typed, Step
<1>8. NoStrayFile'
  BY <1>2, <1>4, <1>5, <1>6, Slots DEF NoStrayFile, Bare
<1>9. NothingLost'
  BY <1>1, <1>2, <1>4, <1>6, Slots DEF NothingLost, Suffered, Bare
<1>10. Aims'
  BY <1>2, <1>3, <1>4 DEF Aims
<1>11. Places'
  BY <1>2 DEF Places
<1>12. Uncut'
  BY <1>1, <1>2, <1>4, <1>5, Slots DEF Uncut, Suffered, Settled, Stray, Unmoved, OnTheMove, Sits, LogOnlyAt
<1>13. Follows'
  BY <1>1, <1>2, <1>3, <1>4, <1>6 DEF Follows, Suffered, NothingLost
<1> QED  BY <1>7, <1>8, <1>9, <1>10, <1>11, <1>12, <1>13, TypesAre DEF MigrationInductive

LEMMA RenameRefusedSteps ==
  ASSUME MigrationInductive, RenameRefused  PROVE  MigrationInductive'
<1>1. Typed /\ NoStrayFile /\ NothingLost /\ Aims /\ Places /\ Uncut /\ Follows
  BY TypesOf DEF MigrationInductive
<1>2. Typed'
  BY <1>1, MigrationAssumption DEF RenameRefused, At, GoTo, files, paths, Fault, Typed, Step
<1>3. NoStrayFile'
  BY <1>1 DEF RenameRefused, files, NoStrayFile, Bare
<1>4. NothingLost'
  BY <1>1 DEF RenameRefused, files, Fault, NothingLost, Suffered
<1>5. Aims'
  BY <1>1 DEF RenameRefused, At, files, Aims, Moving
<1>6. Places'
  BY <1>1 DEF RenameRefused, GoTo, Places
<1>7. Uncut'
  BY <1>1 DEF RenameRefused, At, GoTo, files, Fault, Uncut, Suffered, Settled, Stray, Unmoved, OnTheMove, Sits, LogOnlyAt, Bare
<1>8. Follows'
  BY <1>1 DEF RenameRefused, At, GoTo, files, Fault, Follows, Rewritten, Suffered, Moving
<1> QED  BY <1>2, <1>3, <1>4, <1>5, <1>6, <1>7, <1>8, TypesAre DEF MigrationInductive

LEMMA BeginCopySteps ==
  ASSUME MigrationInductive, BeginCopy  PROVE  MigrationInductive'
<1>1. Typed /\ NoStrayFile /\ NothingLost /\ Aims /\ Places /\ Uncut /\ Follows
  BY TypesOf DEF MigrationInductive
<1>2. Typed'
  BY <1>1, Slots DEF BeginCopy, GoTo, paths, Typed, Step
<1>3. NoStrayFile'
  BY <1>1 DEF BeginCopy, NoStrayFile, Bare
<1>4. NothingLost'
  BY <1>1 DEF BeginCopy, NothingLost, Suffered
<1>5. Aims'
  BY <1>1 DEF BeginCopy, At, Aims, Moving
<1>6. Places'
  BY <1>1, Slots DEF BeginCopy, At, GoTo, Places, NoStrayFile, Bare
<1>7. Uncut'
  BY <1>1 DEF BeginCopy, At, GoTo, Uncut, Suffered, Settled, Stray, Unmoved, OnTheMove, Sits, LogOnlyAt, Bare
<1>8. Follows'
  BY <1>1 DEF BeginCopy, At, GoTo, Follows, Rewritten, Suffered, Moving
<1> QED  BY <1>2, <1>3, <1>4, <1>5, <1>6, <1>7, <1>8, TypesAre DEF MigrationInductive

LEMMA CopyGuestSteps ==
  ASSUME MigrationInductive, NEW g \in Guest, CopyGuest(g)  PROVE  MigrationInductive'
<1>1. Typed /\ NoStrayFile /\ NothingLost /\ Aims /\ Places /\ Uncut /\ Follows
  BY TypesOf DEF MigrationInductive
<1>2. Typed'
  BY <1>1, Slots DEF CopyGuest, paths, Typed
<1>3. NoStrayFile'
  BY <1>1 DEF CopyGuest, At, NoStrayFile, Bare, Places
<1>4. NothingLost'
  BY <1>1 DEF CopyGuest, NothingLost, Suffered
<1>5. Aims'
  BY <1>1 DEF CopyGuest, Aims
<1>6. Places'
  BY <1>1 DEF CopyGuest, At, Places
<1>7. Uncut'
  BY <1>1 DEF CopyGuest, At, Uncut, Suffered, Settled, Stray, Unmoved, OnTheMove, LogOnlyAt
<1>8. Follows'
  BY <1>1 DEF CopyGuest, paths, Follows, Rewritten, Suffered
<1> QED  BY <1>2, <1>3, <1>4, <1>5, <1>6, <1>7, <1>8, TypesAre DEF MigrationInductive

LEMMA CopyDatabaseSteps ==
  ASSUME MigrationInductive, NEW leaf \in {"iaas", "kurukuru"}, CopyDatabase(leaf)  PROVE  MigrationInductive'
<1>1. Typed /\ NoStrayFile /\ NothingLost /\ Aims /\ Places /\ Uncut /\ Follows
  BY TypesOf DEF MigrationInductive
<1>2. pc = "copying" /\ UNCHANGED <<pc, root, dirs, home, paths, todo, up, install, faults>>
  BY DEF CopyDatabase, At
<1>3. PICK t \in In("target") :
         \/ db' = [db EXCEPT ![t] = db[Before(t)]] /\ wal' = wal
         \/ wal' = [wal EXCEPT ![t] = wal[Before(t)]] /\ db' = db
  <2>1. [dir |-> "target", leaf |-> leaf] \in In("target")
    BY DEF In, Iaas, Kurukuru
  <2> QED  BY <2>1 DEF CopyDatabase, Before
<1>4. /\ t \in Slot /\ Before(t) \in Slot /\ t \notin {Iaas("legacy"), Kurukuru("legacy"), Cwd}
      /\ "target" \in dirs /\ install.db = "legacy"
  BY <1>1, <1>2, Slots DEF Places, Aims, Moving
<1>5. Typed'
  BY <1>1, <1>2, <1>3, <1>4 DEF paths, Typed
<1>6. NoStrayFile'
  BY <1>1, <1>2, <1>3, <1>4, Slots DEF Typed, NoStrayFile, Bare
<1>7. NothingLost'
  <2>1. ASSUME NEW s \in Slot, db[s] = install.db  PROVE  \E x \in Slot : db'[x] = install.db
    BY <1>1, <1>2, <1>3, <1>4, <2>1, Slots DEF Typed, Places
  <2> QED  BY <1>1, <1>2, <1>4, <2>1 DEF NothingLost, Suffered
<1>8. Aims'
  BY <1>1, <1>2, <1>3, Slots DEF Typed, Aims
<1>9. Places'
  BY <1>1, <1>2, <1>3, Slots DEF Typed, Places
<1>10. Uncut'
  BY <1>1, <1>2, <1>3, Slots DEF Uncut, Suffered, Settled, Stray, Unmoved, OnTheMove, LogOnlyAt, Typed
<1>11. Follows'
  BY <1>1, <1>2, <1>3, Slots DEF paths, Typed, Aims, Follows, Rewritten, Suffered
<1> QED  BY <1>5, <1>6, <1>7, <1>8, <1>9, <1>10, <1>11, TypesAre DEF MigrationInductive

LEMMA EndCopySteps ==
  ASSUME MigrationInductive, EndCopy  PROVE  MigrationInductive'
<1>1. Typed /\ NoStrayFile /\ NothingLost /\ Aims /\ Places /\ Uncut /\ Follows
  BY TypesOf DEF MigrationInductive
<1>2. /\ pc = "copying" /\ pc' = "deleting"
      /\ UNCHANGED <<root, files, paths, todo, up, install, faults>>
  BY DEF EndCopy, At, GoTo
<1>3. /\ \A g \in Guest : "legacy" \in home[g] => "target" \in home[g]
      /\ \A s \in In("target") : db[s] = db[Before(s)]
  BY DEF EndCopy, Copied, Before
<1>4. Typed'
  BY <1>1, <1>2 DEF files, paths, Typed, Step
<1>5. NoStrayFile'
  BY <1>1, <1>2 DEF files, NoStrayFile, Bare
<1>6. NothingLost'
  BY <1>1, <1>2 DEF files, NothingLost, Suffered
<1>7. Aims'
  BY <1>1, <1>2 DEF files, Aims, Moving
<1>8. Places'
  BY <1>1, <1>2, <1>3 DEF files, Places
<1>9. Uncut'
  <2>1. db[Iaas("target")] = db[Iaas("legacy")]
    BY <1>3, Slots
  <2> QED  BY <1>1, <1>2, <2>1 DEF files, Uncut, Suffered, Settled, Stray, Unmoved, OnTheMove, LogOnlyAt
<1>10. Follows'
  BY <1>1, <1>2 DEF files, Follows, Rewritten, Suffered, Moving
<1> QED  BY <1>4, <1>5, <1>6, <1>7, <1>8, <1>9, <1>10, TypesAre DEF MigrationInductive

LEMMA EndDeleteSteps ==
  ASSUME MigrationInductive, EndDelete  PROVE  MigrationInductive'
<1>1. Typed /\ NoStrayFile /\ NothingLost /\ Aims /\ Places /\ Uncut /\ Follows
  BY TypesOf DEF MigrationInductive
<1>2. /\ pc = "deleting" /\ pc' = "checkpoint" /\ dirs' = {"target"} /\ Bare("legacy")
      /\ UNCHANGED <<root, db, wal, home, paths, todo, up, install, faults>>
  BY Contents, Slots DEF EndDelete, At, GoTo
<1>3. install.db = "legacy"
  BY <1>1, <1>2 DEF Aims, Moving
<1>4. Typed'
  BY <1>1, <1>2, Slots DEF paths, Typed, Step
<1>5. NoStrayFile'
  BY <1>2, Slots DEF NoStrayFile, Bare
<1>6. NothingLost'
  BY <1>1, <1>2 DEF NothingLost, Suffered
<1>7. Aims'
  BY <1>1, <1>2, <1>3 DEF Aims
<1>8. Places'
  BY <1>2 DEF Places
<1>9. Uncut'
  BY <1>1, <1>2 DEF Uncut, Suffered, Settled, Stray, Unmoved, OnTheMove, Sits, LogOnlyAt, Bare
<1>10. Follows'
  <2>1. \A g \in Guest : home[g] # {} => "target" \in home[g]
    BY <1>1, <1>2, Slots DEF Typed, Bare
  <2> QED  BY <1>1, <1>2, <1>3, <2>1 DEF paths, Follows, Rewritten, Suffered, NothingLost, Moving
<1> QED  BY <1>4, <1>5, <1>6, <1>7, <1>8, <1>9, <1>10, TypesAre DEF MigrationInductive

LEMMA DeleteGuestSteps ==
  ASSUME MigrationInductive, NEW g \in Guest, DeleteGuest(g)  PROVE  MigrationInductive'
<1>1. Typed /\ NoStrayFile /\ NothingLost /\ Aims /\ Places /\ Uncut /\ Follows
  BY TypesOf DEF MigrationInductive
<1>2. Typed'
  BY <1>1 DEF DeleteGuest, paths, Typed
<1>3. NoStrayFile'
  BY <1>1 DEF DeleteGuest, NoStrayFile, Bare
<1>4. NothingLost'
  BY <1>1 DEF DeleteGuest, At, NothingLost, Suffered, Places
<1>5. Aims'
  BY <1>1 DEF DeleteGuest, Aims
<1>6. Places'
  BY <1>1 DEF DeleteGuest, At, Places
<1>7. Uncut'
  BY <1>1 DEF DeleteGuest, At, Uncut, Suffered, Settled, Stray, Unmoved, OnTheMove, LogOnlyAt
<1>8. Follows'
  BY <1>1 DEF DeleteGuest, paths, Follows, Rewritten, Suffered
<1> QED  BY <1>2, <1>3, <1>4, <1>5, <1>6, <1>7, <1>8, TypesAre DEF MigrationInductive

LEMMA DeleteDatabaseSteps ==
  ASSUME MigrationInductive, NEW s \in Slot, DeleteDatabase(s)  PROVE  MigrationInductive'
<1>1. Typed /\ NoStrayFile /\ NothingLost /\ Aims /\ Places /\ Uncut /\ Follows
  BY TypesOf DEF MigrationInductive
<1>2. Typed'
  BY <1>1 DEF DeleteDatabase, paths, Typed, Data, Logs
<1>3. NoStrayFile'
  BY <1>1, Slots DEF DeleteDatabase, Typed, NoStrayFile, Bare
<1>4. NothingLost'
  BY <1>1, Slots DEF DeleteDatabase, At, Typed, NothingLost, Suffered, Places
<1>5. Aims'
  BY <1>1, Slots DEF DeleteDatabase, Typed, Aims
<1>6. Places'
  BY <1>1, Slots DEF DeleteDatabase, At, Typed, Places
<1>7. Uncut'
  BY <1>1, Slots DEF DeleteDatabase, At, Typed, Uncut, Suffered, Settled, Stray, Unmoved, OnTheMove, LogOnlyAt
<1>8. Follows'
  BY <1>1, Slots DEF DeleteDatabase, paths, Typed, Follows, Rewritten, Suffered
<1> QED  BY <1>2, <1>3, <1>4, <1>5, <1>6, <1>7, <1>8, TypesAre DEF MigrationInductive

LEMMA RemoveCopySteps ==
  ASSUME MigrationInductive, RemoveCopy  PROVE  MigrationInductive'
<1>1. Typed /\ NoStrayFile /\ NothingLost /\ Aims /\ Places /\ Uncut /\ Follows
  BY TypesOf DEF MigrationInductive
<1>2. /\ pc \in {"copying", "deleting"} /\ pc' = "refused" /\ dirs' = dirs \ {"target"}
      /\ UNCHANGED <<root, paths, todo, up, install>> /\ install.db = "legacy"
  BY <1>1 DEF RemoveCopy, At, GoTo, Aims, Moving
<1>3. /\ faults' \in [left : 0..MaxFaults, seen : SUBSET (FaultKind \union {"advice"})]
      /\ faults.seen \subseteq faults'.seen
      /\ pc = "deleting" => "delete" \in faults'.seen
  BY <1>1, FaultIs DEF RemoveCopy, At
<1>4. /\ db' \in [Slot -> Data] /\ wal' \in [Slot -> Logs] /\ wal' \in [Slot -> Data]
      /\ \A s \in In("target") : db'[s] = "none" /\ wal'[s] = "none"
      /\ \A s \in Slot \ In("target") : db'[s] = db[s] /\ wal'[s] = wal[s]
  <2>1. /\ db \in [Slot -> Data] /\ wal \in [Slot -> Data] /\ wal \in [Slot -> Logs]
        /\ db' = Emptied(db, "target") /\ wal' = Emptied(wal, "target") /\ "target" \in Dir
    BY <1>1 DEF RemoveCopy, Typed, Dir
  <2> QED  BY <2>1, EmptiedIs
<1>5. /\ home' \in [Guest -> SUBSET Dir]
      /\ \A g \in Guest : home'[g] = home[g] \ {"target"}
  BY <1>1 DEF RemoveCopy, Typed
<1>6. Typed'
  BY <1>1, <1>2, <1>3, <1>4, <1>5 DEF paths, Typed, Step
<1>7. NoStrayFile'
  BY <1>1, <1>2, <1>4, <1>5, Slots DEF NoStrayFile, Bare
<1>8. NothingLost'
  <2>1. ASSUME NEW s \in Slot, db[s] = "legacy", pc = "copying"
        PROVE  \E x \in Slot : db'[x] = "legacy"
    BY <1>1, <1>4, <2>1, Slots DEF Places
  <2>2. ASSUME NEW g \in Guest, home[g] # {}, pc = "copying"  PROVE  home'[g] # {}
    BY <1>1, <1>5, <2>2, Slots DEF Typed, Places
  <2> QED  BY <1>1, <1>2, <1>3, <2>1, <2>2 DEF NothingLost, Suffered
<1>9. Aims'
  BY <1>1, <1>2, <1>4, Slots DEF Aims
<1>10. Places'
  BY <1>2 DEF Places
<1>11. Uncut'
  BY <1>1, <1>2, <1>3, <1>4, <1>5, Slots DEF Uncut, Suffered, Settled, Stray, Unmoved, OnTheMove, Sits, LogOnlyAt, Bare
<1>12. Follows'
  BY <1>2, <1>4, Slots DEF Follows
<1> QED  BY <1>6, <1>7, <1>8, <1>9, <1>10, <1>11, <1>12, TypesAre DEF MigrationInductive

LEMMA CheckpointSteps ==
  ASSUME MigrationInductive, Checkpoint  PROVE  MigrationInductive'
<1>1. Typed /\ NoStrayFile /\ NothingLost /\ Aims /\ Places /\ Uncut /\ Follows
  BY TypesOf DEF MigrationInductive
<1>2. /\ pc = "checkpoint" /\ UNCHANGED <<root, dirs, db, home, paths, up, install>>
      /\ todo' = {g \in Guest : "target" \in home[g]} /\ install.db = "legacy"
  BY <1>1 DEF Checkpoint, At, Aims, Moving
<1>3. /\ pc' = IF RenamesDatabase THEN "sidecars" ELSE "runtime"
      /\ wal' = wal \/ wal' = [wal EXCEPT ![Iaas("target")] = "none"]
      /\ faults' = faults \/ Fault("checkpoint")
  BY DEF Checkpoint, GoTo
<1>4. /\ faults' \in [left : 0..MaxFaults, seen : SUBSET (FaultKind \union {"advice"})]
      /\ faults.seen \subseteq faults'.seen
  BY <1>1, <1>3, FaultIs DEF Typed
<1>5. /\ wal' \in [Slot -> Logs] /\ wal' \in [Slot -> Data]
      /\ \A s \in Slot : wal'[s] \in {"none", wal[s]}
  BY <1>1, <1>3 DEF Typed, Logs, Data
<1>6. Typed'
  BY <1>1, <1>2, <1>3, <1>4, <1>5 DEF paths, Typed, Step
<1>7. NoStrayFile'
  BY <1>1, <1>2, <1>5, Slots DEF NoStrayFile, Bare
<1>8. NothingLost'
  BY <1>1, <1>2, <1>4 DEF NothingLost, Suffered
<1>9. Aims'
  BY <1>1, <1>2 DEF Aims
<1>10. Places'
  BY <1>2, <1>3 DEF Places, RenamesDatabase
<1>11. Uncut'
  BY <1>1, <1>2, <1>3, <1>4, <1>5 DEF Uncut, Suffered, Settled, Stray, Unmoved, OnTheMove, Sits, LogOnlyAt, RenamesDatabase
<1>12. Follows'
  BY <1>1, <1>2, <1>4 DEF Follows, Rewritten, Suffered, Moving
<1> QED  BY <1>6, <1>7, <1>8, <1>9, <1>10, <1>11, <1>12, TypesAre DEF MigrationInductive

LEMMA RenameSidecarsSteps ==
  ASSUME MigrationInductive, RenameSidecars  PROVE  MigrationInductive'
<1>1. Typed /\ NoStrayFile /\ NothingLost /\ Aims /\ Places /\ Uncut /\ Follows
  BY TypesOf DEF MigrationInductive
<1>2. /\ pc = "sidecars" /\ pc' = "database" /\ RenamesDatabase
      /\ UNCHANGED <<root, dirs, db, home, paths, todo, up, install, faults>>
  BY <1>1 DEF RenameSidecars, At, GoTo, Places
<1>3. /\ wal' \in [Slot -> Logs] /\ wal' \in [Slot -> Data] /\ wal'[Iaas("target")] = "none"
      /\ \A s \in Slot \ {Iaas("target"), Kurukuru("target")} : wal'[s] = wal[s]
  <2>1. /\ wal \in [Slot -> Data] /\ wal \in [Slot -> Logs]
        /\ Iaas("target") \in Slot /\ Kurukuru("target") \in Slot /\ Iaas("target") # Kurukuru("target")
    BY <1>1, Slots DEF Typed
  <2>2. wal' = IF wal[Iaas("target")] = "none" THEN wal
               ELSE Renamed(wal, Iaas("target"), Kurukuru("target"))
    BY DEF RenameSidecars
  <2> QED  BY <2>1, <2>2, RenamedIs
<1>4. Typed'
  BY <1>1, <1>2, <1>3 DEF paths, Typed, Step
<1>5. NoStrayFile'
  BY <1>1, <1>2, <1>3, Slots DEF NoStrayFile, Bare, RenamesDatabase
<1>6. NothingLost'
  BY <1>1, <1>2 DEF NothingLost, Suffered
<1>7. Aims'
  BY <1>1, <1>2 DEF Aims, Moving
<1>8. Places'
  BY <1>2 DEF Places, RenamesDatabase
<1>9. Uncut'
  BY <1>1, <1>2, <1>3 DEF Uncut, Suffered, Settled, Stray, Unmoved, OnTheMove, Sits, LogOnlyAt
<1>10. Follows'
  BY <1>1, <1>2 DEF Follows, Rewritten, Suffered, Moving
<1> QED  BY <1>4, <1>5, <1>6, <1>7, <1>8, <1>9, <1>10, TypesAre DEF MigrationInductive

LEMMA RenameDatabaseSteps ==
  ASSUME MigrationInductive, RenameDatabase  PROVE  MigrationInductive'
<1>1. Typed /\ NoStrayFile /\ NothingLost /\ Aims /\ Places /\ Uncut /\ Follows
  BY TypesOf DEF MigrationInductive
<1>2. /\ pc = "database" /\ pc' = "runtime" /\ RenamesDatabase
      /\ UNCHANGED <<root, dirs, wal, home, paths, todo, up, install, faults>>
  BY <1>1 DEF RenameDatabase, At, GoTo, Places
<1>3. /\ db' \in [Slot -> Data] /\ db'[Iaas("target")] = "none"
      /\ db'[Kurukuru("target")] = db[Iaas("target")]
      /\ \A s \in Slot \ {Iaas("target"), Kurukuru("target")} : db'[s] = db[s]
  <2>1. /\ db \in [Slot -> Data] /\ db' = Renamed(db, Iaas("target"), Kurukuru("target"))
        /\ Iaas("target") \in Slot /\ Kurukuru("target") \in Slot /\ Iaas("target") # Kurukuru("target")
    BY <1>1, Slots DEF RenameDatabase, Typed
  <2> QED  BY <2>1, RenamedIs
<1>4. Typed'
  BY <1>1, <1>2, <1>3 DEF paths, Typed, Step
<1>5. NoStrayFile'
  BY <1>1, <1>2, <1>3, Slots DEF NoStrayFile, Bare
<1>6. install.db = "legacy"
  BY <1>1, <1>2 DEF Aims, Moving
<1>7. NothingLost'
  <2>1. ASSUME NEW s \in Slot, db[s] = "legacy"  PROVE  \E x \in Slot : db'[x] = "legacy"
    BY <1>2, <1>3, <2>1, Slots DEF RenamesDatabase
  <2> QED  BY <1>1, <1>2, <1>6, <2>1 DEF NothingLost, Suffered
<1>8. Aims'
  BY <1>1, <1>2, <1>3, <1>6, Slots DEF Aims
<1>9. Places'
  BY <1>2 DEF Places
<1>10. Uncut'
  BY <1>1, <1>2, <1>3 DEF Uncut, Suffered, Settled, Stray, Unmoved, OnTheMove, Sits, LogOnlyAt
<1>11. Follows'
  BY <1>1, <1>2 DEF Follows, Rewritten, Suffered, Moving
<1> QED  BY <1>4, <1>5, <1>7, <1>8, <1>9, <1>10, <1>11, TypesAre DEF MigrationInductive

LEMMA RewriteRuntimeSteps ==
  ASSUME MigrationInductive, NEW g \in Guest, RewriteRuntime(g)  PROVE  MigrationInductive'
<1>1. Typed /\ NoStrayFile /\ NothingLost /\ Aims /\ Places /\ Uncut /\ Follows
  BY TypesOf DEF MigrationInductive
<1>2. Typed'
  BY <1>1, Slots, MigrationAssumption DEF RewriteRuntime, files, Fault, Typed
<1>3. NoStrayFile'
  BY <1>1 DEF RewriteRuntime, files, NoStrayFile, Bare
<1>4. NothingLost'
  BY <1>1 DEF RewriteRuntime, files, Fault, NothingLost, Suffered
<1>5. Aims'
  BY <1>1 DEF RewriteRuntime, files, Aims
<1>6. Places'
  BY <1>1 DEF RewriteRuntime, At, Places
<1>7. Uncut'
  BY <1>1 DEF RewriteRuntime, At, files, Fault, Uncut, Suffered, Settled, Stray, Unmoved, OnTheMove, Sits, LogOnlyAt
<1>8. Follows'
  BY <1>1 DEF RewriteRuntime, At, files, Fault, Typed, Follows, Rewritten, Suffered
<1> QED  BY <1>2, <1>3, <1>4, <1>5, <1>6, <1>7, <1>8, TypesAre DEF MigrationInductive

LEMMA RebaseSteps ==
  ASSUME MigrationInductive, NEW g \in Guest, Rebase(g)  PROVE  MigrationInductive'
<1>1. Typed /\ NoStrayFile /\ NothingLost /\ Aims /\ Places /\ Uncut /\ Follows
  BY TypesOf DEF MigrationInductive
<1>2. Typed'
  BY <1>1, Slots, MigrationAssumption DEF Rebase, files, Fault, Typed
<1>3. NoStrayFile'
  BY <1>1 DEF Rebase, files, NoStrayFile, Bare
<1>4. NothingLost'
  BY <1>1 DEF Rebase, files, Fault, NothingLost, Suffered
<1>5. Aims'
  BY <1>1 DEF Rebase, files, Aims
<1>6. Places'
  BY <1>1 DEF Rebase, At, Places
<1>7. Uncut'
  BY <1>1 DEF Rebase, At, files, Fault, Uncut, Suffered, Settled, Stray, Unmoved, OnTheMove, Sits, LogOnlyAt
<1>8. Follows'
  BY <1>1 DEF Rebase, At, files, Fault, Typed, Follows, Rewritten, Suffered
<1> QED  BY <1>2, <1>3, <1>4, <1>5, <1>6, <1>7, <1>8, TypesAre DEF MigrationInductive

LEMMA RewriteRowsSteps ==
  ASSUME MigrationInductive, RewriteRows  PROVE  MigrationInductive'
<1>1. Typed /\ NoStrayFile /\ NothingLost /\ Aims /\ Places /\ Uncut /\ Follows
  BY TypesOf DEF MigrationInductive
<1>2. Typed'
  BY <1>1, Slots DEF RewriteRows, GoTo, files, Typed, Step
<1>3. NoStrayFile'
  BY <1>1 DEF RewriteRows, files, NoStrayFile, Bare
<1>4. NothingLost'
  BY <1>1 DEF RewriteRows, files, NothingLost, Suffered
<1>5. Aims'
  BY <1>1 DEF RewriteRows, At, files, Aims
<1>6. Places'
  BY <1>1 DEF RewriteRows, GoTo, Places
<1>7. Uncut'
  BY <1>1 DEF RewriteRows, At, GoTo, files, Uncut, Suffered, Settled, Stray, Unmoved, OnTheMove, Sits, LogOnlyAt
<1>8. Follows'
  BY <1>1 DEF RewriteRows, GoTo, files, Follows, Rewritten, Suffered, Moving
<1> QED  BY <1>2, <1>3, <1>4, <1>5, <1>6, <1>7, <1>8, TypesAre DEF MigrationInductive

LEMMA EndMigrationSteps ==
  ASSUME MigrationInductive, EndMigration  PROVE  MigrationInductive'
<1>1. Typed /\ NoStrayFile /\ NothingLost /\ Aims /\ Places /\ Uncut /\ Follows
  BY TypesOf DEF MigrationInductive
<1>2. Typed'
  BY <1>1 DEF EndMigration, GoTo, files, paths, Typed, Step
<1>3. NoStrayFile'
  BY <1>1 DEF EndMigration, files, NoStrayFile, Bare
<1>4. NothingLost'
  BY <1>1 DEF EndMigration, files, NothingLost, Suffered
<1>5. Aims'
  BY <1>1 DEF EndMigration, At, files, Aims
<1>6. Places'
  BY <1>1 DEF EndMigration, GoTo, Places
<1>7. Uncut'
  BY <1>1 DEF EndMigration, At, GoTo, files, Uncut, Suffered, Settled, Stray, Unmoved, OnTheMove, Sits, LogOnlyAt
<1>8. Follows'
  BY <1>1 DEF EndMigration, At, GoTo, files, paths, Follows, Rewritten, Suffered, Moving
<1> QED  BY <1>2, <1>3, <1>4, <1>5, <1>6, <1>7, <1>8, TypesAre DEF MigrationInductive

LEMMA PrepareSteps ==
  ASSUME MigrationInductive, Prepare  PROVE  MigrationInductive'
<1>1. Typed /\ NoStrayFile /\ NothingLost /\ Aims /\ Places /\ Uncut /\ Follows
  BY TypesOf DEF MigrationInductive
<1>2. Typed'
  BY <1>1 DEF Prepare, GoTo, paths, Typed, Step
<1>3. NoStrayFile'
  BY <1>1 DEF Prepare, NoStrayFile, Bare
<1>4. NothingLost'
  BY <1>1 DEF Prepare, NothingLost, Suffered
<1>5. Aims'
  BY <1>1 DEF Prepare, GoTo, Aims, Moving
<1>6. Places'
  BY <1>1 DEF Prepare, GoTo, Places
<1>7. Uncut'
  BY <1>1 DEF Prepare, At, GoTo, Uncut, Suffered, Settled, Stray, Unmoved, OnTheMove, Sits, LogOnlyAt
<1>8. Follows'
  BY <1>1 DEF Prepare, At, GoTo, paths, Follows, Rewritten, Suffered, Moving
<1> QED  BY <1>2, <1>3, <1>4, <1>5, <1>6, <1>7, <1>8, TypesAre DEF MigrationInductive

LEMMA RelocateSidecarSteps ==
  ASSUME MigrationInductive, RelocateSidecar  PROVE  MigrationInductive'
<1>1. Typed /\ NoStrayFile /\ NothingLost /\ Aims /\ Places /\ Uncut /\ Follows
  BY TypesOf DEF MigrationInductive
<1>2. /\ pc = "relocate" /\ root \in dirs
      /\ UNCHANGED <<root, dirs, db, home, paths, todo, up, install, faults>>
  BY <1>1 DEF RelocateSidecar, At, Places
<1>3. /\ pc' = IF Relocates THEN "relocate database" ELSE "open"
      /\ ~Relocates => wal' = wal
      /\ wal' \in [Slot -> Logs] /\ wal' \in [Slot -> Data]
      /\ Relocates => wal'[Cwd] = "none"
      /\ \A s \in Slot \ {Cwd, Kurukuru(root)} : wal'[s] = wal[s]
  <2>1. /\ wal \in [Slot -> Data] /\ wal \in [Slot -> Logs]
        /\ Cwd \in Slot /\ Kurukuru(root) \in Slot /\ Kurukuru(root) # Cwd
    BY <1>1, Slots DEF Typed
  <2>2. /\ pc' = IF Relocates THEN "relocate database" ELSE "open"
        /\ wal' = IF Relocates /\ wal[Cwd] # "none" THEN Renamed(wal, Cwd, Kurukuru(root)) ELSE wal
    BY DEF RelocateSidecar, GoTo
  <2>3. CASE Relocates /\ wal[Cwd] # "none"
    <3>1. wal' = Renamed(wal, Cwd, Kurukuru(root))
      BY <2>2, <2>3
    <3>2. /\ wal' \in [Slot -> Logs] /\ wal' \in [Slot -> Data] /\ wal'[Cwd] = "none"
          /\ \A s \in Slot \ {Cwd, Kurukuru(root)} : wal'[s] = wal[s]
      BY <2>1, <3>1, RenamedIs
    <3> QED  BY <2>2, <2>3, <3>2
  <2> QED  BY <2>1, <2>2, <2>3
<1>4. Typed'
  BY <1>1, <1>2, <1>3 DEF paths, Typed, Step
<1>5. NoStrayFile'
  <2>1. ASSUME NEW d \in Dir \ {root}
        PROVE  {Iaas(d), Kurukuru(d)} \subseteq Slot \ {Cwd, Kurukuru(root)}
    BY <1>1, Slots DEF Typed
  <2> QED  BY <1>1, <1>2, <1>3, <2>1 DEF NoStrayFile, Bare
<1>6. NothingLost'
  BY <1>1, <1>2 DEF NothingLost, Suffered
<1>7. Aims'
  BY <1>1, <1>2, <1>3 DEF Aims, Moving
<1>8. Places'
  BY <1>2, <1>3 DEF Places, Relocates
<1>9. Uncut'
  <2> SUFFICES ASSUME root = "target", Settled \/ Stray  PROVE  Settled' \/ Stray'
    BY <1>1, <1>2 DEF Uncut, Suffered, Unmoved, OnTheMove
  <2>1. CASE Settled
    BY <1>1, <1>2, <1>3, <2>1, Slots DEF Settled, Sits, LogOnlyAt, Relocates, Typed, Source
  <2>2. CASE Stray
    BY <1>1, <1>2, <1>3, <2>2, Slots DEF Stray, LogOnlyAt, Relocates, Typed, Source
  <2> QED  BY <2>1, <2>2
<1>10. Follows'
  BY <1>1, <1>2, <1>3 DEF paths, Follows, Rewritten, Suffered, Moving
<1> QED  BY <1>4, <1>5, <1>6, <1>7, <1>8, <1>9, <1>10, TypesAre DEF MigrationInductive

LEMMA RelocateDatabaseSteps ==
  ASSUME MigrationInductive, RelocateDatabase  PROVE  MigrationInductive'
<1>1. Typed /\ NoStrayFile /\ NothingLost /\ Aims /\ Places /\ Uncut /\ Follows
  BY TypesOf DEF MigrationInductive
<1>2. /\ pc = "relocate database" /\ pc' = "open" /\ root \in dirs /\ Relocates
      /\ UNCHANGED <<root, dirs, wal, home, paths, todo, up, install, faults>>
  BY <1>1 DEF RelocateDatabase, At, GoTo, Places
<1>3. /\ db' \in [Slot -> Data] /\ db'[Cwd] = "none" /\ db'[Kurukuru(root)] = db[Cwd]
      /\ \A s \in Slot \ {Cwd, Kurukuru(root)} : db'[s] = db[s]
      /\ Kurukuru(root) \in {Kurukuru("legacy"), Kurukuru("target")}
  <2>1. /\ db \in [Slot -> Data] /\ db' = Renamed(db, Cwd, Kurukuru(root))
        /\ Cwd \in Slot /\ Kurukuru(root) \in Slot /\ Kurukuru(root) # Cwd
    BY <1>1, Slots DEF RelocateDatabase, Typed
  <2>2. Kurukuru(root) \in {Kurukuru("legacy"), Kurukuru("target")}
    BY <1>1, Slots DEF Typed
  <2> QED  BY <2>1, <2>2, RenamedIs
<1>4. Typed'
  BY <1>1, <1>2, <1>3 DEF paths, Typed, Step
<1>5. NoStrayFile'
  <2>1. ASSUME NEW d \in Dir \ {root}
        PROVE  {Iaas(d), Kurukuru(d)} \subseteq Slot \ {Cwd, Kurukuru(root)}
    BY <1>1, Slots DEF Typed
  <2> QED  BY <1>1, <1>2, <1>3, <2>1 DEF NoStrayFile, Bare
<1>6. NothingLost'
  <2>1. ASSUME NEW s \in Slot, db[s] = install.db  PROVE  \E x \in Slot : db'[x] = install.db
    BY <1>1, <1>2, <1>3, <2>1, Slots DEF Relocates, Typed, Source
  <2> QED  BY <1>1, <1>2, <1>3, <2>1, Slots DEF NothingLost, Suffered, Relocates
<1>7. Aims'
  <2>1. CASE root = "legacy"
    BY <1>1, <1>2, <1>3, <2>1, Slots DEF Aims
  <2>2. CASE root = "target"
    <3>1. Kurukuru("legacy") \in Slot \ {Cwd, Kurukuru(root)}
      BY <2>2, Slots
    <3> QED  BY <1>1, <1>2, <1>3, <3>1 DEF Aims, Moving
  <2> QED  BY <1>1, <2>1, <2>2, Slots DEF Typed
<1>8. Places'
  BY <1>2 DEF Places
<1>9. Uncut'
  BY <1>1, <1>2, <1>3 DEF Uncut, Suffered, Settled, Stray, Unmoved, OnTheMove, Sits, LogOnlyAt
<1>10. Follows'
  BY <1>1, <1>2, <1>3, Slots DEF paths, Aims, Follows, Rewritten, Suffered, Moving
<1> QED  BY <1>4, <1>5, <1>6, <1>7, <1>8, <1>9, <1>10, TypesAre DEF MigrationInductive

LEMMA RelocateFailsSteps ==
  ASSUME MigrationInductive, RelocateFails  PROVE  MigrationInductive'
<1>1. Typed /\ NoStrayFile /\ NothingLost /\ Aims /\ Places /\ Uncut /\ Follows
  BY TypesOf DEF MigrationInductive
<1>2. Typed'
  BY <1>1, FaultIs DEF RelocateFails, GoTo, files, paths, Typed, Step
<1>3. NoStrayFile'
  BY <1>1 DEF RelocateFails, files, NoStrayFile, Bare
<1>4. NothingLost'
  BY <1>1 DEF RelocateFails, files, Fault, NothingLost, Suffered
<1>5. Aims'
  BY <1>1 DEF RelocateFails, GoTo, files, Aims, Moving
<1>6. Places'
  BY <1>1 DEF RelocateFails, At, GoTo, files, Places
<1>7. Uncut'
  BY <1>1 DEF RelocateFails, Fault, Uncut, Suffered
<1>8. Follows'
  BY <1>1 DEF RelocateFails, At, GoTo, files, paths, Fault, Follows, Rewritten, Suffered, Moving
<1> QED  BY <1>2, <1>3, <1>4, <1>5, <1>6, <1>7, <1>8, TypesAre DEF MigrationInductive

LEMMA OpenDatabaseSteps ==
  ASSUME MigrationInductive, OpenDatabase  PROVE  MigrationInductive'
<1>1. Typed /\ NoStrayFile /\ NothingLost /\ Aims /\ Places /\ Uncut /\ Follows
  BY TypesOf DEF MigrationInductive
<1>2. /\ pc = "open" /\ pc' = "serving" /\ root \in dirs
      /\ UNCHANGED <<root, dirs, home, paths, todo, up, install, faults>>
  BY <1>1 DEF OpenDatabase, At, GoTo, Places
<1>3. /\ Kurukuru(root) \in Slot /\ Kurukuru(root) \in {Kurukuru("legacy"), Kurukuru("target")}
      /\ db' \in [Slot -> Data]
      /\ db'[Kurukuru(root)] = IF db[Kurukuru(root)] = "none" THEN "fresh" ELSE db[Kurukuru(root)]
      /\ \A s \in Slot \ {Kurukuru(root)} : db'[s] = db[s]
  BY <1>1, Slots DEF OpenDatabase, Typed, Data
<1>4. /\ wal' \in [Slot -> Logs] /\ wal' \in [Slot -> Data]
      /\ wal'[Kurukuru(root)] = "none" /\ \A s \in Slot \ {Kurukuru(root)} : wal'[s] = wal[s]
  BY <1>1, <1>3 DEF OpenDatabase, Typed, Data, Logs
<1>5. Typed'
  BY <1>1, <1>2, <1>3, <1>4 DEF paths, Typed, Step
<1>6. NoStrayFile'
  BY <1>1, <1>2, <1>3, <1>4, Slots DEF NoStrayFile, Bare, Typed
<1>7. \A s \in Slot : db[s] \notin {"none"} => db'[s] = db[s]
  BY <1>3
<1>8. install.db \in {"legacy", "cwd", "own"}
  BY <1>1 DEF Typed, Source
<1>9. NothingLost'
  BY <1>1, <1>2, <1>7, <1>8, Slots DEF NothingLost, Suffered
<1>10. Aims'
  BY <1>1, <1>2, <1>3, Slots DEF Aims, Moving
<1>11. Places'
  BY <1>2 DEF Places
<1>12. Uncut'
  BY <1>1, <1>2, <1>3, <1>4, <1>8 DEF Uncut, Suffered, Settled, Stray, Unmoved, OnTheMove, Sits, LogOnlyAt
<1>13. Follows'
  BY <1>1, <1>2, <1>3, Slots DEF paths, Follows, Rewritten, Suffered, Moving
<1> QED  BY <1>5, <1>6, <1>9, <1>10, <1>11, <1>12, <1>13, TypesAre DEF MigrationInductive

LEMMA StartSteps ==
  ASSUME MigrationInductive, Start  PROVE  MigrationInductive'
<1>1. Typed /\ NoStrayFile /\ NothingLost /\ Aims /\ Places /\ Uncut /\ Follows
  BY TypesOf DEF MigrationInductive
<1>2. Typed'
  BY <1>1, Slots DEF Start, GoTo, files, paths, Typed, Step
<1>3. NoStrayFile'
  BY <1>1 DEF Start, files, NoStrayFile, Bare
<1>4. NothingLost'
  BY <1>1 DEF Start, files, NothingLost, Suffered
<1>5. Aims'
  BY <1>1 DEF Start, GoTo, files, Aims, Moving
<1>6. Places'
  BY <1>1 DEF Start, GoTo, Places
<1>7. Uncut'
  BY <1>1 DEF Start, At, GoTo, files, Uncut, Suffered, Settled, Stray, Unmoved, OnTheMove, Sits, LogOnlyAt, Bare
<1>8. Follows'
  BY <1>1 DEF Start, At, GoTo, files, paths, Follows, Rewritten, Suffered, Moving
<1> QED  BY <1>2, <1>3, <1>4, <1>5, <1>6, <1>7, <1>8, TypesAre DEF MigrationInductive

LEMMA StartWhereItIsSteps ==
  ASSUME MigrationInductive, StartWhereItIs  PROVE  MigrationInductive'
<1>1. Typed /\ NoStrayFile /\ NothingLost /\ Aims /\ Places /\ Uncut /\ Follows
  BY TypesOf DEF MigrationInductive
<1>2. Typed'
  BY <1>1, Slots DEF StartWhereItIs, GoTo, files, paths, Typed, Step
<1>3. NoStrayFile'
  BY <1>1 DEF StartWhereItIs, files, NoStrayFile, Bare
<1>4. NothingLost'
  BY <1>1 DEF StartWhereItIs, files, NothingLost, Suffered
<1>5. Aims'
  BY <1>1 DEF StartWhereItIs, At, files, Aims
<1>6. Places'
  BY <1>1 DEF StartWhereItIs, GoTo, Places
<1>7. Uncut'
  BY <1>1 DEF StartWhereItIs, Uncut, Suffered
<1>8. Follows'
  BY <1>1 DEF StartWhereItIs, At, GoTo, files, paths, Follows, Rewritten, Suffered, Moving
<1> QED  BY <1>2, <1>3, <1>4, <1>5, <1>6, <1>7, <1>8, TypesAre DEF MigrationInductive

LEMMA ShutDownSteps ==
  ASSUME MigrationInductive, ShutDown  PROVE  MigrationInductive'
<1>1. Typed /\ NoStrayFile /\ NothingLost /\ Aims /\ Places /\ Uncut /\ Follows
  BY TypesOf DEF MigrationInductive
<1>2. Typed'
  BY <1>1 DEF ShutDown, GoTo, files, paths, Typed, Step
<1>3. NoStrayFile'
  BY <1>1 DEF ShutDown, files, NoStrayFile, Bare
<1>4. NothingLost'
  BY <1>1 DEF ShutDown, files, NothingLost, Suffered
<1>5. Aims'
  BY <1>1 DEF ShutDown, GoTo, files, Aims, Moving
<1>6. Places'
  BY <1>1 DEF ShutDown, GoTo, Places
<1>7. Uncut'
  BY <1>1 DEF ShutDown, At, GoTo, files, Uncut, Suffered, Settled, Stray, Unmoved, OnTheMove, Sits, LogOnlyAt
<1>8. Follows'
  BY <1>1 DEF ShutDown, At, GoTo, files, paths, Follows, Rewritten, Suffered, Moving
<1> QED  BY <1>2, <1>3, <1>4, <1>5, <1>6, <1>7, <1>8, TypesAre DEF MigrationInductive

LEMMA StopGuestSteps ==
  ASSUME MigrationInductive, NEW g \in Guest, StopGuest(g)  PROVE  MigrationInductive'
<1>1. Typed /\ NoStrayFile /\ NothingLost /\ Aims /\ Places /\ Uncut /\ Follows
  BY TypesOf DEF MigrationInductive
<1>2. Typed'
  BY <1>1 DEF StopGuest, files, paths, Typed
<1>3. NoStrayFile'
  BY <1>1 DEF StopGuest, files, NoStrayFile, Bare
<1>4. NothingLost'
  BY <1>1 DEF StopGuest, files, NothingLost, Suffered
<1>5. Aims'
  BY <1>1 DEF StopGuest, files, Aims
<1>6. Places'
  BY <1>1 DEF StopGuest, files, Places, Bare, RenamesDatabase, Relocates
<1>7. Uncut'
  BY <1>1, ZenonT(60) DEF StopGuest, files, Uncut, Suffered, Settled, Stray, Unmoved, OnTheMove, Sits, LogOnlyAt, Bare
<1>8. Follows'
  BY <1>1 DEF StopGuest, files, paths, Follows, Rewritten, Suffered
<1> QED  BY <1>2, <1>3, <1>4, <1>5, <1>6, <1>7, <1>8, TypesAre DEF MigrationInductive

LEMMA CrashSteps ==
  ASSUME MigrationInductive, Crash  PROVE  MigrationInductive'
<1>1. Typed /\ NoStrayFile /\ NothingLost /\ Aims /\ Places /\ Uncut /\ Follows
  BY TypesOf DEF MigrationInductive
<1>2. Typed'
  BY <1>1, FaultIs DEF Crash, GoTo, files, paths, Typed, Step
<1>3. NoStrayFile'
  BY <1>1 DEF Crash, files, NoStrayFile, Bare
<1>4. NothingLost'
  BY <1>1 DEF Crash, files, Fault, NothingLost, Suffered
<1>5. Aims'
  BY <1>1 DEF Crash, GoTo, files, Aims, Moving
<1>6. Places'
  BY <1>1 DEF Crash, GoTo, Places
<1>7. Uncut'
  BY <1>1 DEF Crash, Fault, Uncut, Suffered
<1>8. Follows'
  BY <1>1 DEF Crash, Fault, Follows, Suffered
<1> QED  BY <1>2, <1>3, <1>4, <1>5, <1>6, <1>7, <1>8, TypesAre DEF MigrationInductive

-----------------------------------------------------------------------------
(***************************************************************************)
(* What the startup promises                                               *)
(***************************************************************************)

LEMMA MigrationStarts == ASSUME Init  PROVE  MigrationInductive
<1>1. /\ pc = "down" /\ root = "target" /\ rows = "legacy" /\ told = {} /\ todo = {}
      /\ runtime = [g \in Guest |-> "legacy"] /\ backing = [g \in Guest |-> "legacy"]
      /\ up \in SUBSET {g \in Guest : home[g] # {}} /\ faults = [left |-> MaxFaults, seen |-> {}]
  BY DEF Init
<1>2. PICK logged \in BOOLEAN, taken \in BOOLEAN, old \in {"legacy", "cwd"} :
        LET place(s) == CASE s = Iaas("legacy") /\ old = "legacy"  -> "legacy"
                          [] s = Cwd /\ old = "cwd"                -> "cwd"
                          [] s = Kurukuru("target") /\ taken       -> "own"
                          [] OTHER                                 -> "none"
        IN
        /\ db = [s \in Slot |-> place(s)]
        /\ wal = [s \in Slot |-> IF logged THEN place(s) ELSE "none"]
        /\ install \in [db : {IF taken THEN "own" ELSE old}, apart : BOOLEAN]
        /\ home = [g \in Guest |-> {old} \intersect {"legacy"}]
        /\ \E made \in BOOLEAN :
             dirs = (IF old = "legacy" THEN {"legacy"} ELSE {})
                      \union (IF taken \/ made THEN {"target"} ELSE {})
  BY DEF Init
<1>3. /\ db[Iaas("legacy")] = IF old = "legacy" THEN "legacy" ELSE "none"
      /\ db[Cwd] = IF old = "cwd" THEN "cwd" ELSE "none"
      /\ db[Kurukuru("target")] = IF taken THEN "own" ELSE "none"
      /\ db[Kurukuru("legacy")] = "none" /\ db[Iaas("target")] = "none"
      /\ db \in [Slot -> Data]
  BY <1>2, Slots DEF Data, Source
<1>4. /\ wal \in [Slot -> Logs] /\ wal \in [Slot -> Data]
      /\ \A s \in Slot : wal[s] \in {"none", db[s]}
  BY <1>2, Slots DEF Data, Logs, Source
<1>5. /\ install.db = IF taken THEN "own" ELSE old
      /\ install \in [db : Source, apart : BOOLEAN]
      /\ home \in [Guest -> SUBSET Dir]
      /\ \A g \in Guest : home[g] = IF old = "legacy" THEN {"legacy"} ELSE {}
      /\ "legacy" \in dirs <=> old = "legacy"
      /\ taken => "target" \in dirs
      /\ dirs \subseteq Dir
  BY <1>2, Slots DEF Source
<1>6. faults.seen = {} /\ ~Suffered({"crash", "relocate", "delete", "advice"})
  BY <1>1 DEF Suffered
<1>7. Typed
  BY <1>1, <1>3, <1>4, <1>5, MigrationAssumption, Slots DEF Typed, Step
<1>8. NoStrayFile
  BY <1>3, <1>4, <1>5, Slots DEF NoStrayFile, Bare
<1>9. NothingLost
  BY <1>3, <1>5, Slots DEF NothingLost
<1>10. Aims
  BY <1>1, <1>3, <1>5 DEF Aims, Moving
<1>11. Places
  BY <1>1 DEF Places
<1>12. Uncut
  BY <1>1, <1>3, <1>4, <1>5, Slots DEF Uncut, Settled, Stray, Unmoved, Sits, LogOnlyAt, Bare
<1>13. Follows
  BY <1>1, <1>3 DEF Follows
<1>14. TypeOK
  <2>1. ASSUME NEW s \in Slot, s.dir \notin dirs \union {"cwd"}  PROVE  db[s] = "none" /\ wal[s] = "none"
    <3>1. s.dir \in Dir \ dirs /\ s \in {Iaas(s.dir), Kurukuru(s.dir)}
      BY <2>1 DEF Slot, Iaas, Kurukuru, Dir, Cwd
    <3> QED  BY <1>8, <3>1 DEF NoStrayFile, Bare
  <2>2. ASSUME NEW g \in Guest  PROVE  home[g] \subseteq dirs
    BY <1>7, <1>8 DEF NoStrayFile, Bare, Typed
  <2> QED  BY <1>7, <2>1, <2>2 DEF TypeOK, Typed, Data, Logs
<1> QED  BY <1>9, <1>10, <1>11, <1>12, <1>13, <1>14 DEF MigrationInductive

LEMMA MigrationSteps ==
  ASSUME MigrationInductive, [Next]_vars  PROVE  MigrationInductive'
<1>1. CASE UNCHANGED vars
  <2>1. UNCHANGED <<pc, root, dirs, db, wal, home, runtime, backing, rows, told, todo, up, install, faults>>
    BY <1>1 DEF vars, files, paths
  <2>2. TypeOK'
    BY <2>1 DEF MigrationInductive, TypeOK
  <2>3. NothingLost' /\ Aims'
    BY <2>1 DEF MigrationInductive, NothingLost, Suffered, Aims, Bare
  <2>4. Places'
    <3>1. (RenamesDatabase' <=> RenamesDatabase) /\ (Relocates' <=> Relocates)
      BY <2>1 DEF RenamesDatabase, Relocates, Sits, Bare
    <3> QED  BY <2>1, <3>1 DEF MigrationInductive, Places, Bare
  <2>5. Uncut'
    BY <2>1, ZenonT(60) DEF MigrationInductive, Uncut, Suffered, Settled, Stray, Unmoved, OnTheMove,
                Sits, LogOnlyAt, Bare
  <2>6. Follows'
    BY <2>1 DEF MigrationInductive, Follows, Suffered, OnTheMove, Rewritten
  <2> QED  BY <2>2, <2>3, <2>4, <2>5, <2>6 DEF MigrationInductive
<1>2. CASE Copying
  BY <1>2, BeginCopySteps, EndCopySteps, CopyGuestSteps, CopyDatabaseSteps DEF Copying
<1>3. CASE Deleting
  BY <1>3, EndDeleteSteps, DeleteGuestSteps, DeleteDatabaseSteps DEF Deleting
<1>4. CASE Startup
  BY <1>2, <1>3, <1>4, LookAroundSteps, BackUpSteps, RenameDirectorySteps, RenameRefusedSteps,
     RemoveCopySteps, CheckpointSteps, RenameSidecarsSteps, RenameDatabaseSteps,
     RewriteRuntimeSteps, RebaseSteps, RewriteRowsSteps, EndMigrationSteps, PrepareSteps,
     RelocateSidecarSteps, RelocateDatabaseSteps, RelocateFailsSteps, OpenDatabaseSteps DEF Startup
<1> QED
  BY <1>1, <1>4, StartSteps, StartWhereItIsSteps, ShutDownSteps, StopGuestSteps, CrashSteps DEF Next

LEMMA MigrationInvariant == Spec => []MigrationInductive
BY MigrationStarts, MigrationSteps, PTL DEF Spec

\* Every variable keeps its type, and no file is in a directory that is
\* not there.
THEOREM MigrationTypes == Spec => []TypeOK
<1>1. MigrationInductive => TypeOK
  BY DEF MigrationInductive
<1> QED  BY <1>1, MigrationInvariant, PTL

\* Whatever fails and however often, the install's database and the files
\* of every guest are somewhere, but for a copy across volumes that fails
\* while it deletes; and a directory in use is never written onto
\* (migrate_state_dir, relocate_legacy_database).
THEOREM NothingIsLost == Spec => []NothingLost
<1>1. MigrationInductive => NothingLost
  BY DEF MigrationInductive
<1> QED  BY <1>1, MigrationInvariant, PTL

\* A start that is not cut short serves the database this install had, with
\* every transaction in it (init_db).
THEOREM HistoryIsServed == Spec => []ServesHistoryUncut
<1>1. ASSUME MigrationInductive  PROVE  ServesHistoryUncut
  <2> SUFFICES ASSUME ~Suffered({"crash", "relocate", "delete", "advice"}), pc = "serving"
               PROVE  db[Kurukuru("target")] = install.db /\ \A s \in Slot : wal[s] # install.db
    BY DEF ServesHistoryUncut, ServesHistory
  <2>1. Settled
    BY <1>1 DEF MigrationInductive, Uncut, Stray, Unmoved, OnTheMove
  <2> QED  BY <2>1 DEF Settled, Sits, LogOnlyAt
<1> QED  BY <1>1, MigrationInvariant, PTL

\* For any number of guests: when the moved install is served, no path in
\* it leads to the old directory, but those that were reported
\* (_rewrite_runtime_files, _rewrite_database_paths, _rebase_backing_files).
THEOREM PathsAreRewritten == Spec => []PathsFollow
<1>1. ASSUME MigrationInductive  PROVE  PathsFollow
  BY <1>1 DEF MigrationInductive, PathsFollow, Follows, Rewritten
<1> QED  BY <1>1, MigrationInvariant, PTL
=============================================================================
