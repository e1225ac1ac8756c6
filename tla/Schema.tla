------------------------------- MODULE Schema --------------------------------
(***************************************************************************)
(* init_db after the move of the state directory: tables, added columns,   *)
(* the redefined index, backfill and seeding, and the backup before them   *)
(* (database.py).  The backend runs it on every start and so does every    *)
(* `auth' command on the host, so two may run at once.                     *)
(*                                                                         *)
(* What is to be done is looked up once, before the backup.  Every ALTER,  *)
(* DROP and CREATE commits on its own; the first UPDATE opens the one      *)
(* transaction of backfill and seeding.  A start may die at every step.    *)
(***************************************************************************)
EXTENDS Naturals, Sequences, SequencesExt

CONSTANTS
  Starter, Backend,         \* processes that run init_db; one serves the API
  Columns,                  \* added columns, in order; the last is ssh_user
  Retention,                \* automatic backups kept
  Record,                   \* rows of instances
  Legacy, Default, NoLogin, \* guest logins: of old releases, of this one, null
  MaxStarts                 \* bound: starts

ASSUME SchemaAssumption ==
  /\ Backend \in Starter
  /\ Columns \in Nat \ {0} /\ Retention \in Nat \ {0} /\ MaxStarts \in Nat
  /\ NoLogin \notin {Legacy, Default}

VARIABLES
  db,      \* the shape of the database
  rows,    \* the instances in it
  folder,  \* automatic backups, oldest first
  starter, \* each process and what it found to do
  origin,  \* history: the shape before this release
  past     \* history: starts, those with changes to make, changes not backed up

schemaVars == <<db, rows, folder, starter, origin, past>>

-----------------------------------------------------------------------------
Shape == [columns : 0..Columns, index : {"unique", "plain", "none"}]
Whole == [columns |-> Columns, index |-> "plain"]

\* built is the login the guest was given, login what the row says.
InstanceRow == [built : {Legacy, Default}, login : {Legacy, Default, NoLogin}, filed : BOOLEAN]
NoRow       == [filed |-> FALSE]

Launched(r)   == rows[r] # NoRow
OldRow(filed) == [built |-> Legacy, login |-> NoLogin, filed |-> filed]

\* Being written, left unfinished, or whole.
Open(p)      == [state |-> "open", by |-> p]
Stub         == [state |-> "stub"]
Saved(shape) == [state |-> "whole", shape |-> shape]
Copy == {Open(p) : p \in Starter} \union {Stub} \union {Saved(shape) : shape \in Shape}

Stands(p, pc)  == starter[p].pc = pc
Proceed(p, pc) == starter' = [starter EXCEPT ![p].pc = pc]
Advance(p, s)  == starter' = [starter EXCEPT ![p].todo = s]
Todo(p)        == starter[p].todo

\* A file that is being written when its process ends stays as it is.
Abandoned(p) == [i \in DOMAIN folder |-> IF folder[i] = Open(p) THEN Stub ELSE folder[i]]
Rest(p)      == starter' = [starter EXCEPT ![p] = [pc |-> "down", todo |-> Whole]]

-----------------------------------------------------------------------------
(***************************************************************************)
(* Starting                                                                *)
(***************************************************************************)

Start(p) ==
  /\ Stands(p, "down") /\ past.starts < MaxStarts
  /\ past' = [past EXCEPT !.starts = @ + 1]
  /\ Proceed(p, IF db.there THEN "looking" ELSE "creating")
  /\ UNCHANGED <<db, rows, folder, origin>>

Die(p) ==
  /\ ~Stands(p, "down")
  /\ Rest(p)
  /\ folder' = Abandoned(p)
  /\ UNCHANGED <<db, rows, origin, past>>

\* create_all makes the tables it did not find, complete; it fails when
\* another process made them since.
CreateAll(p) ==
  /\ Stands(p, "creating")
  /\ IF db.there
     THEN Rest(p) /\ UNCHANGED db
     ELSE Proceed(p, "looking") /\ db' = [there |-> TRUE, shape |-> Whole, seeded |-> FALSE]
  /\ UNCHANGED <<rows, folder, origin, past>>

\* Mutant: every start takes a backup.
PendingAlways(shape) == TRUE

\* _pending_migrations
Pending(shape) == shape # Whole

Look(p) ==
  /\ Stands(p, "looking")
  /\ starter' = [starter EXCEPT ![p] = [pc |-> IF Pending(db.shape) THEN "saving" ELSE "altering",
                                        todo |-> db.shape]]
  /\ past' = [past EXCEPT !.due = IF db.shape # Whole THEN @ + 1 ELSE @]
  /\ UNCHANGED <<db, rows, folder, origin>>

-----------------------------------------------------------------------------
(***************************************************************************)
(* backup_database_file                                                    *)
(***************************************************************************)

SaveNothing(p) ==
  /\ Stands(p, "saving")
  /\ \A r \in Record : ~Launched(r)
  /\ Proceed(p, "altering")
  /\ past' = [past EXCEPT !.spared = TRUE]
  /\ UNCHANGED <<db, rows, folder, origin>>

\* Of two backups of one second the second sorts first.
BeginSave(p) ==
  /\ Stands(p, "saving")
  /\ \E r \in Record : Launched(r)
  /\ \E i \in {Len(folder), Len(folder) + 1} \ {0} :
       folder' = InsertAt(folder, i, Open(p))
  /\ Proceed(p, "copying")
  /\ UNCHANGED <<db, rows, origin, past>>

\* _prune_backups
Newest(copies) == IF Len(copies) <= Retention THEN copies
                  ELSE SubSeq(copies, Len(copies) - Retention + 1, Len(copies))

\* A consistent snapshot; another process may have pruned the file.
Save(p) ==
  /\ Stands(p, "copying")
  /\ folder' = Newest([i \in DOMAIN folder |->
                         IF folder[i] = Open(p) THEN Saved(db.shape) ELSE folder[i]])
  /\ Proceed(p, "altering")
  /\ UNCHANGED <<db, rows, origin, past>>

\* What was written is left there, nothing is pruned, and the start goes on.
SaveFails(p) ==
  /\ Stands(p, "saving") \/ Stands(p, "copying")
  /\ folder' = Abandoned(p)
  /\ Proceed(p, "altering")
  /\ past' = [past EXCEPT !.spared = TRUE]
  /\ UNCHANGED <<db, rows, origin>>

-----------------------------------------------------------------------------
(***************************************************************************)
(* _apply_additive_migrations                                              *)
(***************************************************************************)

\* A statement that fails, because another process was there before, ends
\* the start.
Alter(p, possible, becomes, done) ==
  /\ Stands(p, "altering")
  /\ IF possible THEN /\ db' = [db EXCEPT !.shape = becomes]
                      /\ Advance(p, done)
                 ELSE UNCHANGED db /\ Rest(p)
  /\ UNCHANGED <<rows, folder, origin, past>>

AddColumn(p) ==
  LET k == Todo(p).columns + 1 IN
  /\ k <= Columns
  /\ Alter(p, db.shape.columns < k, [db.shape EXCEPT !.columns = k], [Todo(p) EXCEPT !.columns = k])

DropIndex(p) ==
  /\ Todo(p).columns = Columns /\ Todo(p).index = "unique"
  /\ Alter(p, db.shape.index # "none", [db.shape EXCEPT !.index = "none"],
           [Todo(p) EXCEPT !.index = "none"])

CreateIndex(p) ==
  /\ Todo(p).columns = Columns /\ Todo(p).index = "none"
  /\ Alter(p, db.shape.index = "none", [db.shape EXCEPT !.index = "plain"], Whole)

\* Mutant: with the login of today.
BackfillDefault(row) == IF row.login = NoLogin THEN [row EXCEPT !.login = Default] ELSE row

\* _backfill_instance_ssh_user: nulls only, with the login of the releases
\* that left them.
Backfill(row) == IF row.login = NoLogin THEN [row EXCEPT !.login = Legacy] ELSE row

\* _seed_default_project and _seed_default_network: the defaults once, and
\* what is filed nowhere goes to them.
Adopt(row) == [row EXCEPT !.filed = TRUE]

\* One transaction, and the last step of the start.
Settle(p) ==
  /\ Stands(p, "altering") /\ Todo(p) = Whole
  /\ rows' = [r \in Record |-> IF Launched(r) THEN Adopt(Backfill(rows[r])) ELSE NoRow]
  /\ db' = [db EXCEPT !.seeded = TRUE]
  /\ Proceed(p, "up")
  /\ UNCHANGED <<folder, origin, past>>

-----------------------------------------------------------------------------
(***************************************************************************)
(* Launches                                                                *)
(***************************************************************************)

\* The setting may be any login; the row keeps what the guest got.
Launch(r) ==
  /\ Stands(Backend, "up") /\ ~Launched(r)
  /\ \E u \in {Legacy, Default} :
       rows' = [rows EXCEPT ![r] = [built |-> u, login |-> u, filed |-> TRUE]]
  /\ UNCHANGED <<db, folder, starter, origin, past>>

\* The user went back to an older release for a while.
LaunchByOldRelease(r) ==
  /\ \A p \in Starter : Stands(p, "down")
  /\ db.there /\ ~Launched(r)
  /\ \E filed \in BOOLEAN : rows' = [rows EXCEPT ![r] = OldRow(filed)]
  /\ UNCHANGED <<db, folder, starter, origin, past>>

-----------------------------------------------------------------------------
\* No database, or one of an older release.
SchemaInit ==
  /\ origin \in {Whole} \union [columns : 0..Columns - 1, index : {"unique", "plain"}]
  /\ db = [there |-> origin # Whole, shape |-> origin, seeded |-> FALSE]
  /\ rows \in {[r \in Record |-> x] : x \in {NoRow} \union IF db.there THEN {OldRow(FALSE)} ELSE {}}
  /\ folder = <<>>
  /\ starter = [p \in Starter |-> [pc |-> "down", todo |-> Whole]]
  /\ past = [starts |-> 0, due |-> 0, spared |-> FALSE]

SchemaNext ==
  \/ \E p \in Starter :
       \/ Start(p) \/ Die(p)
       \/ CreateAll(p) \/ Look(p)
       \/ SaveNothing(p) \/ BeginSave(p) \/ Save(p) \/ SaveFails(p)
       \/ AddColumn(p) \/ DropIndex(p) \/ CreateIndex(p) \/ Settle(p)
  \/ \E r \in Record : Launch(r) \/ LaunchByOldRelease(r)

SchemaSpec == SchemaInit /\ [][SchemaNext]_schemaVars

-----------------------------------------------------------------------------
(***************************************************************************)
(* Properties                                                              *)
(***************************************************************************)

\* Every variable has its type.
SchemaTypeOK ==
  /\ db \in [there : BOOLEAN, shape : Shape, seeded : BOOLEAN]
  /\ rows \in [Record -> InstanceRow \union {NoRow}]
  /\ folder \in Seq(Copy)
  /\ starter \in [Starter -> [pc : {"down", "creating", "looking", "saving", "copying", "altering", "up"},
                              todo : Shape]]
  /\ origin \in Shape
  /\ past \in [starts : 0..MaxStarts, due : 0..MaxStarts, spared : BOOLEAN]

\* Whatever an earlier start left half done, and whoever starts beside it, a
\* process that serves finds every column, an index that lets a name be used
\* again, and every instance filed and under the login its guest was built
\* with, though an older release ran in between (init_db).
ServesMigrated ==
  \A p \in Starter : Stands(p, "up") =>
    /\ db.there /\ db.seeded
    /\ db.shape.columns = Columns /\ db.shape.index # "unique"
    /\ \A r \in Record : Launched(r) => rows[r].login = rows[r].built /\ rows[r].filed

\* A database that is not as it was has a whole backup from before, however
\* often the change was interrupted and started over and the backend started
\* since.  Exempt, since the code allows them: there was nothing to back up,
\* a backup failed, and more starts with changes to make than are kept.
RestorePointKept ==
  db.shape = origin \/ past.spared \/ past.due > Retention
    \/ \E i \in DOMAIN folder : folder[i] = Saved(origin)
=============================================================================
