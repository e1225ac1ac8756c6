--------------------------- MODULE StateMigration ---------------------------
(***************************************************************************)
(* What the backend does at startup before it opens its database: the      *)
(* state directory of an older release is moved to where this release      *)
(* looks (migrate_state_dir), a still older database is moved out of the   *)
(* working directory (relocate_legacy_database), and whatever is found     *)
(* under the name kurukuru.db is opened, or created.                       *)
(*                                                                         *)
(* The backend may die at any step and be started again; files that are    *)
(* open, full disks and a second volume make single steps fail.            *)
(***************************************************************************)
EXTENDS Naturals, FiniteSets

CONSTANTS
  Guest,       \* instances: each a directory with a runtime.json and a disk
  Faults,      \* the kinds of fault that may happen
  MaxFaults,   \* bound: how many do
  Obedient     \* whether the operator may follow a refusal's advice

FaultKind == {"crash", "open", "checkpoint", "copy", "delete", "rewrite", "relocate"}

ASSUME MigrationAssumption ==
  /\ Faults \subseteq FaultKind
  /\ MaxFaults \in Nat
  /\ Obedient \in BOOLEAN

VARIABLES
  pc,      \* where the startup is
  root,    \* the directory state_dir names in this start
  dirs,    \* which of the two directories exist
  db,      \* whose rows each database file holds
  wal,     \* whose transactions each write-ahead log holds
  home,    \* the directories each guest's files are in
  runtime, \* where the paths in a guest's runtime.json point
  backing, \* where the backing path in its disk's header points
  rows,    \* where the paths in the older release's rows point
  told,    \* guests whose rewrite failed and was reported
  todo,    \* guests the step under way has not come to
  up,      \* guests whose QEMU process is alive
  install, \* what is migrated: the database it had, and whether the two
           \* directories are on volumes of their own
  faults   \* the faults left, and history: the kinds that have happened

files == <<dirs, db, wal, home>>
paths == <<runtime, backing, rows, told>>
vars  == <<pc, root, files, paths, todo, up, install, faults>>

-----------------------------------------------------------------------------
Dir    == {"legacy", "target"}
Source == {"legacy", "cwd", "own"}

\* iaas.db and kurukuru.db in each directory, and iaas.db where an older
\* release was started from.
Cwd  == [dir |-> "cwd", leaf |-> "iaas"]
Slot == [dir : Dir, leaf : {"iaas", "kurukuru"}] \union {Cwd}

Iaas(d)     == [dir |-> d, leaf |-> "iaas"]
Kurukuru(d) == [dir |-> d, leaf |-> "kurukuru"]
In(d)       == {Iaas(d), Kurukuru(d)}

Renamed(f, a, b) == [f EXCEPT ![b] = f[a], ![a] = "none"]

Emptied(f, d) == [s \in Slot |-> IF s \in In(d) THEN "none" ELSE f[s]]

\* The whole of directory `legacy' under the name `target'.
Carried(f) ==
  [s \in Slot |-> IF s \in In("target") THEN f[[dir |-> "legacy", leaf |-> s.leaf]]
                  ELSE IF s \in In("legacy") THEN "none"
                  ELSE f[s]]

HasContents(d) ==
  \/ \E s \in In(d) : db[s] # "none" \/ wal[s] # "none"
  \/ \E g \in Guest : d \in home[g]

At(step)   == pc = step
GoTo(step) == pc' = step

Fault(kind) ==
  /\ kind \in Faults /\ faults.left > 0
  /\ faults' = [left |-> faults.left - 1, seen |-> faults.seen \union {kind}]

-----------------------------------------------------------------------------
(***************************************************************************)
(* migrate_state_dir                                                       *)
(***************************************************************************)

TargetIsFree == "target" \in dirs => ~HasContents("target")

\* A live pid and a bound monitor port, for every runtime file.
LookAround ==
  /\ At("migrate")
  /\ pc' = CASE root = "legacy" \/ "legacy" \notin dirs \/ ~TargetIsFree -> "prepare"
             [] root = "target" /\ "legacy" \in dirs /\ TargetIsFree
                -> IF \E g \in up : "legacy" \in home[g] THEN "refused" ELSE "backup"
  /\ UNCHANGED <<root, files, paths, todo, up, install, faults>>

\* The last connection to close folds the log in; a backup that cannot run
\* does not stop the migration.  Then the name is made free.
BackUp ==
  /\ At("backup")
  /\ \E folded \in BOOLEAN :
       wal' = Emptied([wal EXCEPT ![Iaas("legacy")] = IF folded THEN "none" ELSE @],
                      "target")
  /\ db' = Emptied(db, "target")
  /\ home' = [g \in Guest |-> home[g] \ {"target"}]
  /\ dirs' = dirs \ {"target"}
  /\ GoTo("rename")
  /\ UNCHANGED <<root, paths, todo, up, install, faults>>

RenameDirectory ==
  /\ At("rename") /\ ~install.apart
  /\ dirs' = {"target"}
  /\ db' = Carried(db) /\ wal' = Carried(wal)
  /\ home' = [g \in Guest |-> IF "legacy" \in home[g] THEN {"target"} ELSE home[g]]
  /\ GoTo("checkpoint")
  /\ UNCHANGED <<root, paths, todo, up, install, faults>>

\* Something in the directory is open.
RenameRefused ==
  /\ At("rename") /\ ~install.apart
  /\ Fault("open")
  /\ GoTo("refused")
  /\ UNCHANGED <<root, files, paths, todo, up, install>>

\* shutil.move across volumes: copy everything, then delete the original.
BeginCopy ==
  /\ At("rename") /\ install.apart
  /\ dirs' = dirs \union {"target"}
  /\ GoTo("copying")
  /\ UNCHANGED <<root, db, wal, home, paths, todo, up, install, faults>>

CopyGuest(g) ==
  /\ At("copying")
  /\ home[g] = {"legacy"}
  /\ home' = [home EXCEPT ![g] = {"legacy", "target"}]
  /\ UNCHANGED <<pc, root, dirs, db, wal, paths, todo, up, install, faults>>

CopyDatabase(leaf) ==
  LET from == [dir |-> "legacy", leaf |-> leaf]
      to   == [dir |-> "target", leaf |-> leaf]
  IN
  /\ At("copying")
  /\ \/ db[to] # db[from] /\ db' = [db EXCEPT ![to] = db[from]] /\ UNCHANGED wal
     \/ wal[to] # wal[from] /\ wal' = [wal EXCEPT ![to] = wal[from]] /\ UNCHANGED db
  /\ UNCHANGED <<pc, root, dirs, home, paths, todo, up, install, faults>>

Copied ==
  /\ \A g \in Guest : "legacy" \in home[g] => "target" \in home[g]
  /\ \A s \in In("target") :
       /\ db[s] = db[[dir |-> "legacy", leaf |-> s.leaf]]
       /\ wal[s] = wal[[dir |-> "legacy", leaf |-> s.leaf]]

EndCopy ==
  /\ At("copying") /\ Copied
  /\ GoTo("deleting")
  /\ UNCHANGED <<root, files, paths, todo, up, install, faults>>

DeleteGuest(g) ==
  /\ At("deleting")
  /\ "legacy" \in home[g]
  /\ home' = [home EXCEPT ![g] = @ \ {"legacy"}]
  /\ UNCHANGED <<pc, root, dirs, db, wal, paths, todo, up, install, faults>>

DeleteDatabase(s) ==
  /\ At("deleting")
  /\ s \in In("legacy")
  /\ \/ db[s] # "none" /\ db' = [db EXCEPT ![s] = "none"] /\ UNCHANGED wal
     \/ wal[s] # "none" /\ wal' = [wal EXCEPT ![s] = "none"] /\ UNCHANGED db
  /\ UNCHANGED <<pc, root, dirs, home, paths, todo, up, install, faults>>

EndDelete ==
  /\ At("deleting") /\ ~HasContents("legacy")
  /\ dirs' = {"target"}
  /\ GoTo("checkpoint")
  /\ UNCHANGED <<root, db, wal, home, paths, todo, up, install, faults>>

\* Mutant: the incomplete copy stays.
LeaveCopy ==
  /\ \/ At("copying") /\ Fault("copy")
     \/ At("deleting") /\ Fault("delete")
  /\ GoTo("refused")
  /\ UNCHANGED <<root, files, paths, todo, up, install>>

\* move raised, while it copied or while it deleted: the target is removed.
RemoveCopy ==
  /\ \/ At("copying") /\ Fault("copy")
     \/ At("deleting") /\ Fault("delete")
  /\ dirs' = dirs \ {"target"}
  /\ db' = Emptied(db, "target") /\ wal' = Emptied(wal, "target")
  /\ home' = [g \in Guest |-> home[g] \ {"target"}]
  /\ GoTo("refused")
  /\ UNCHANGED <<root, paths, todo, up, install>>

-----------------------------------------------------------------------------
(***************************************************************************)
(* In the new place: the name of the database, then every absolute path    *)
(***************************************************************************)

RenamesDatabase == db[Iaas("target")] # "none" /\ db[Kurukuru("target")] = "none"

\* _rename_database: the log is folded in, or left for later.
Checkpoint ==
  /\ At("checkpoint")
  /\ IF RenamesDatabase
     THEN \/ /\ wal' = [wal EXCEPT ![Iaas("target")] = "none"]
             /\ GoTo("sidecars") /\ UNCHANGED faults
          \/ Fault("checkpoint") /\ GoTo("sidecars") /\ UNCHANGED wal
     ELSE GoTo("runtime") /\ UNCHANGED <<wal, faults>>
  /\ todo' = {g \in Guest : "target" \in home[g]}
  /\ UNCHANGED <<root, dirs, db, home, paths, up, install>>

\* Mutant: the log stays under the old name.
ForgetSidecars ==
  /\ At("sidecars")
  /\ GoTo("database")
  /\ UNCHANGED <<root, files, paths, todo, up, install, faults>>

RenameSidecars ==
  /\ At("sidecars")
  /\ wal' = IF wal[Iaas("target")] = "none" THEN wal
            ELSE Renamed(wal, Iaas("target"), Kurukuru("target"))
  /\ GoTo("database")
  /\ UNCHANGED <<root, dirs, db, home, paths, todo, up, install, faults>>

RenameDatabase ==
  /\ At("database")
  /\ db' = Renamed(db, Iaas("target"), Kurukuru("target"))
  /\ GoTo("runtime")
  /\ UNCHANGED <<root, dirs, wal, home, paths, todo, up, install, faults>>

\* _rewrite_runtime_files, one file at a time.
RewriteRuntime(g) ==
  /\ At("runtime") /\ g \in todo
  /\ \/ /\ runtime' = [runtime EXCEPT ![g] = "target"]
        /\ UNCHANGED <<told, faults>>
     \/ /\ runtime[g] = "legacy" /\ Fault("rewrite")
        /\ told' = told \union {g}
        /\ UNCHANGED runtime
  /\ todo' = todo \ {g}
  /\ UNCHANGED <<pc, root, files, backing, rows, up, install>>

\* _rewrite_database_paths, in the database under its new name.
RewriteRows ==
  /\ At("runtime") /\ todo = {}
  /\ rows' = IF db[Kurukuru("target")] = "legacy" THEN "target" ELSE rows
  /\ todo' = {g \in Guest : "target" \in home[g]}
  /\ GoTo("rebase")
  /\ UNCHANGED <<root, files, runtime, backing, told, up, install, faults>>

\* Mutant: a rebase that fails is not reported.
RebaseQuietly(g) ==
  /\ At("rebase") /\ g \in todo
  /\ \/ /\ backing' = [backing EXCEPT ![g] = "target"]
        /\ UNCHANGED <<told, faults>>
     \/ /\ backing[g] = "legacy" /\ Fault("rewrite")
        /\ UNCHANGED <<backing, told>>
  /\ todo' = todo \ {g}
  /\ UNCHANGED <<pc, root, files, runtime, rows, up, install>>

\* _rebase_backing_files, one header at a time.
Rebase(g) ==
  /\ At("rebase") /\ g \in todo
  /\ \/ /\ backing' = [backing EXCEPT ![g] = "target"]
        /\ UNCHANGED <<told, faults>>
     \/ /\ backing[g] = "legacy" /\ Fault("rewrite")
        /\ told' = told \union {g}
        /\ UNCHANGED backing
  /\ todo' = todo \ {g}
  /\ UNCHANGED <<pc, root, files, runtime, rows, up, install>>

EndMigration ==
  /\ At("rebase") /\ todo = {}
  /\ GoTo("prepare")
  /\ UNCHANGED <<root, files, paths, todo, up, install, faults>>

-----------------------------------------------------------------------------
(***************************************************************************)
(* The rest of init_db                                                     *)
(***************************************************************************)

\* Mutant: the directory is left to whoever opens the database.
PrepareNothing ==
  /\ At("prepare")
  /\ GoTo("relocate")
  /\ UNCHANGED <<root, files, paths, todo, up, install, faults>>

\* ensure_database_directory.
Prepare ==
  /\ At("prepare")
  /\ dirs' = dirs \union {root}
  /\ GoTo("relocate")
  /\ UNCHANGED <<root, db, wal, home, paths, todo, up, install, faults>>

\* Mutant: a database that has rows is relocated onto.
RelocatesAlways == db[Cwd] # "none"

Relocates == db[Cwd] # "none" /\ db[Kurukuru(root)] = "none"

\* relocate_legacy_database moves the log first and the database last.
RelocateSidecar ==
  /\ At("relocate")
  /\ IF Relocates
     THEN /\ wal' = IF wal[Cwd] = "none" THEN wal ELSE Renamed(wal, Cwd, Kurukuru(root))
          /\ GoTo("relocate database")
     ELSE GoTo("open") /\ UNCHANGED wal
  /\ UNCHANGED <<root, dirs, db, home, paths, todo, up, install, faults>>

RelocateDatabase ==
  /\ At("relocate database")
  /\ db' = Renamed(db, Cwd, Kurukuru(root))
  /\ GoTo("open")
  /\ UNCHANGED <<root, dirs, wal, home, paths, todo, up, install, faults>>

\* Anything that goes wrong is logged and swallowed.
RelocateFails ==
  /\ \/ At("relocate") /\ Relocates
     \/ At("relocate database")
  /\ Fault("relocate")
  /\ GoTo("open")
  /\ UNCHANGED <<root, files, paths, todo, up, install>>

\* create_all: SQLite replays a log that belongs to the file, drops any
\* other, and creates the file when there is none.
OpenDatabase ==
  /\ At("open")
  /\ db' = [db EXCEPT ![Kurukuru(root)] = IF @ = "none" THEN "fresh" ELSE @]
  /\ wal' = [wal EXCEPT ![Kurukuru(root)] = "none"]
  /\ GoTo("serving")
  /\ UNCHANGED <<root, dirs, home, paths, todo, up, install, faults>>

-----------------------------------------------------------------------------
(***************************************************************************)
(* The operator                                                            *)
(***************************************************************************)

Start ==
  /\ At("down") \/ At("refused")
  /\ root' = "target"
  /\ GoTo("migrate")
  /\ UNCHANGED <<files, paths, todo, up, install, faults>>

\* What a refusal advises: KURUKURU_STATE_DIR=<the old directory>.
StartWhereItIs ==
  /\ At("refused") /\ Obedient
  /\ root' = "legacy"
  /\ faults' = [faults EXCEPT !.seen = @ \union {"advice"}]
  /\ GoTo("migrate")
  /\ UNCHANGED <<files, paths, todo, up, install>>

ShutDown ==
  /\ At("serving")
  /\ GoTo("down")
  /\ UNCHANGED <<root, files, paths, todo, up, install, faults>>

StopGuest(g) ==
  /\ g \in up
  /\ up' = up \ {g}
  /\ UNCHANGED <<pc, root, files, paths, todo, install, faults>>

Crash ==
  /\ pc \notin {"down", "refused", "serving"}
  /\ Fault("crash")
  /\ GoTo("down")
  /\ UNCHANGED <<root, files, paths, todo, up, install>>

-----------------------------------------------------------------------------
\* An older release's directory, alone, beside an empty directory or beside
\* a directory in use; or a database in the working directory.
Init ==
  /\ pc = "down" /\ root = "target"
  /\ \E logged \in BOOLEAN, taken \in BOOLEAN, old \in {"legacy", "cwd"} :
       LET place(s) == CASE s = Iaas("legacy") /\ old = "legacy"  -> "legacy"
                         [] s = Cwd /\ old = "cwd"                -> "cwd"
                         [] s = Kurukuru("target") /\ taken       -> "own"
                         [] OTHER                                 -> "none"
       IN
       /\ db = [s \in Slot |-> place(s)]
       /\ wal = [s \in Slot |-> IF logged THEN place(s) ELSE "none"]
       /\ install \in [db : {IF taken THEN "own" ELSE old}, apart : BOOLEAN]
       /\ home = [g \in Guest |-> {old} \intersect {"legacy"}]
       /\ \E made \in BOOLEAN :
            dirs = (IF old = "legacy" THEN {"legacy"} ELSE {})
                     \union (IF taken \/ made THEN {"target"} ELSE {})
  /\ runtime = [g \in Guest |-> "legacy"]
  /\ backing = [g \in Guest |-> "legacy"]
  /\ rows = "legacy"
  /\ told = {} /\ todo = {}
  /\ up \in SUBSET {g \in Guest : home[g] # {}}
  /\ faults = [left |-> MaxFaults, seen |-> {}]

Copying == BeginCopy \/ EndCopy \/ (\E g \in Guest : CopyGuest(g))
             \/ (\E leaf \in {"iaas", "kurukuru"} : CopyDatabase(leaf))

Deleting == EndDelete \/ (\E g \in Guest : DeleteGuest(g))
              \/ (\E s \in Slot : DeleteDatabase(s))

Startup ==
  \/ LookAround
  \/ BackUp
  \/ RenameDirectory
  \/ RenameRefused
  \/ Copying
  \/ Deleting
  \/ RemoveCopy
  \/ Checkpoint
  \/ RenameSidecars
  \/ RenameDatabase
  \/ \E g \in Guest : RewriteRuntime(g) \/ Rebase(g)
  \/ RewriteRows
  \/ EndMigration
  \/ Prepare
  \/ RelocateSidecar
  \/ RelocateDatabase
  \/ RelocateFails
  \/ OpenDatabase

Next ==
  \/ Startup
  \/ Start
  \/ StartWhereItIs
  \/ ShutDown
  \/ \E g \in Guest : StopGuest(g)
  \/ Crash

Spec == Init /\ [][Next]_vars

\* The startup goes on; the operator stops the guests a refusal names and
\* starts the backend again.
Fairness ==
  /\ WF_vars(Startup)
  /\ WF_vars(Start)
  /\ \A g \in Guest : WF_vars(StopGuest(g))

FairSpec == Spec /\ Fairness

-----------------------------------------------------------------------------
(***************************************************************************)
(* Properties                                                              *)
(***************************************************************************)

Step == {"down", "migrate", "backup", "rename", "copying", "deleting", "refused", "checkpoint",
         "sidecars", "database", "runtime", "rebase", "prepare", "relocate",
         "relocate database", "open", "serving"}

\* Every variable has its type, and no file is in a directory that is not
\* there (SQLite creates no directories).
TypeOK ==
  /\ \A g \in Guest : home[g] \subseteq dirs
  /\ \A s \in Slot : s.dir \notin dirs \union {"cwd"} => db[s] = "none" /\ wal[s] = "none"
  /\ pc \in Step /\ root \in Dir /\ dirs \subseteq Dir
  /\ db \in [Slot -> Source \union {"none", "fresh"}]
  /\ wal \in [Slot -> Source \union {"none"}]
  /\ home \in [Guest -> SUBSET Dir]
  /\ runtime \in [Guest -> Dir] /\ backing \in [Guest -> Dir] /\ rows \in Dir
  /\ told \subseteq Guest /\ todo \subseteq Guest /\ up \subseteq Guest
  /\ install \in [db : Source, apart : BOOLEAN]
  /\ faults \in [left : 0..MaxFaults, seen : SUBSET (FaultKind \union {"advice"})]

\* Some of these have happened.
Suffered(kinds) == faults.seen \intersect kinds # {}

\* Nothing is deleted: every guest's files and the install's database are
\* somewhere, at every point of the move and whatever fails, but for one
\* fault: a move across volumes that fails while it deletes the original
\* (the complete copy is then taken for a partial one).  And a target in use
\* is never written onto, whatever fails.
NothingLost ==
  /\ ~Suffered({"delete"})
       => /\ install.db = "legacy" => \A g \in Guest : home[g] # {}
          /\ \E s \in Slot : db[s] = install.db
  /\ install.db = "own" => db[Kurukuru("target")] = "own"

\* The backend that comes up serves the database this install had, not a
\* new one beside it, and no transaction of it is left in a log elsewhere.
ServesHistory ==
  pc = "serving" /\ root = "target"
    => db[Kurukuru("target")] = install.db /\ \A s \in Slot : wal[s] # install.db

\* It does, whatever is open, full or unwritable, unless a start was cut
\* short, a relocation failed or a refusal's advice was followed.
ServesHistoryUncut ==
  ~Suffered({"crash", "relocate", "delete", "advice"}) => ServesHistory

\* The backend that comes up after a move that went through has no path
\* left that points into the old directory, but those it reported.
PathsFollow ==
  pc = "serving" /\ db[Kurukuru("target")] = "legacy" /\ ~Suffered({"crash", "delete"})
    => /\ rows = "target"
       /\ \A g \in Guest \ told : runtime[g] = "target" /\ backing[g] = "target"

\* A refused migration can be tried again, and ends with the backend serving
\* the install it moved.
RetrySucceeds ==
  <>(\/ pc = "serving" /\ db[Kurukuru("target")] = install.db
     \/ Suffered({"crash", "relocate", "delete", "advice"}))

=============================================================================
