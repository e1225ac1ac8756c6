--------------------------- MODULE ControlProofs ---------------------------
(***************************************************************************)
(* What the backend keeps about itself: every invariant that MCControl     *)
(* checks, proved for its parts and for the whole.                         *)
(***************************************************************************)
EXTENDS MCControl, AccountsProofs

-----------------------------------------------------------------------------
(***************************************************************************)
(* The shape of the database                                               *)
(***************************************************************************)

Standing(pcs) == {p \in Starter : starter[p].pc \in pcs}
HasCopy(c)    == \E i \in DOMAIN folder : folder[i] = c

\* A start is counted before it is found to have something to change, and
\* that before its backup is in the folder.
StartsCounted ==
  /\ IsFiniteSet(Standing({"creating", "looking"})) /\ IsFiniteSet(Standing({"saving"}))
  /\ past.due + Cardinality(Standing({"creating", "looking"})) <= past.starts
  /\ Len(folder) + Cardinality(Standing({"saving"})) <= past.due

\* What a start has left to do is at most what the database lacks, whoever
\* changes the database beside it.
LeftToDo(p) ==
  /\ ~Stands(p, "down") /\ ~Stands(p, "creating") => db.there
  /\ starter[p].pc \in {"saving", "copying", "altering", "up"} =>
       /\ Todo(p).columns <= db.shape.columns
       /\ Todo(p).index # "unique" => db.shape.index # "unique"
  /\ Stands(p, "up") => db.seeded /\ Todo(p) = Whole

\* A row without a login is of an old release; there is none while somebody
\* serves.
RowTold(r) ==
  Launched(r) =>
    /\ rows[r].login = IF rows[r].login = NoLogin THEN NoLogin ELSE rows[r].built
    /\ rows[r].login = NoLogin => rows[r].built = Legacy
    /\ (\E p \in Starter : Stands(p, "up")) => rows[r].login # NoLogin /\ rows[r].filed

\* The first change to an older database is a column, and columns stay.
ShapeGrows ==
  IF origin = Whole
  THEN db.shape = Whole /\ \A p \in Starter : Todo(p) = Whole
  ELSE /\ db.there /\ origin.columns < Columns /\ origin.columns <= db.shape.columns
       /\ db.shape.columns = origin.columns => db.shape = origin

Restorable == past.spared \/ past.due > Retention \/ HasCopy(Saved(origin))

\* Who writes a backup has a file, and who changes the database has a backup
\* behind it.
BackupFirst(p) ==
  /\ Stands(p, "copying") => past.due > Retention \/ HasCopy(Open(p))
  /\ Stands(p, "altering") /\ Todo(p) # Whole => Restorable

SchemaInductive ==
  /\ SchemaTypeOK
  /\ StartsCounted
  /\ \A p \in Starter : LeftToDo(p) /\ BackupFirst(p)
  /\ \A r \in Record : RowTold(r)
  /\ ShapeGrows
  /\ RestorePointKept

\* One process changes where it stands.
LEMMA Moves ==
  ASSUME NEW pcs, NEW p \in Starter, IsFiniteSet(Standing(pcs)),
         \A q \in Starter \ {p} : starter'[q].pc = starter[q].pc
  PROVE  /\ IsFiniteSet(Standing(pcs)') /\ Cardinality(Standing(pcs)) \in Nat /\ Cardinality(Standing(pcs)') \in Nat
         /\ starter[p].pc \in pcs /\ starter'[p].pc \notin pcs =>
              Cardinality(Standing(pcs)') = Cardinality(Standing(pcs)) - 1
         /\ starter[p].pc \notin pcs /\ starter'[p].pc \in pcs =>
              Cardinality(Standing(pcs)') = Cardinality(Standing(pcs)) + 1
         /\ (starter[p].pc \in pcs <=> starter'[p].pc \in pcs) =>
              Cardinality(Standing(pcs)') = Cardinality(Standing(pcs))
<1>1. starter'[p].pc \notin pcs => Standing(pcs)' = Standing(pcs) \ {p}
  BY DEF Standing
<1>2. starter'[p].pc \in pcs => Standing(pcs)' = Standing(pcs) \union {p}
  BY DEF Standing
<1>3. p \in Standing(pcs) <=> starter[p].pc \in pcs
  BY DEF Standing
<1>4. /\ IsFiniteSet(Standing(pcs) \ {p}) /\ IsFiniteSet(Standing(pcs) \union {p})
      /\ Cardinality(Standing(pcs) \ {p}) = IF p \in Standing(pcs) THEN Cardinality(Standing(pcs)) - 1
                                            ELSE Cardinality(Standing(pcs))
      /\ Cardinality(Standing(pcs) \union {p}) = IF p \in Standing(pcs) THEN Cardinality(Standing(pcs))
                                                 ELSE Cardinality(Standing(pcs)) + 1
  BY FS_AddElement, FS_RemoveElement
<1>5. /\ Cardinality(Standing(pcs)) \in Nat
      /\ Cardinality(Standing(pcs) \ {p}) \in Nat /\ Cardinality(Standing(pcs) \union {p}) \in Nat
  BY <1>4, FS_CardinalityType
<1>6. QED
  BY <1>1, <1>2, <1>3, <1>4, <1>5

\* Copies in the folder.
LEMMA Inserted ==
  ASSUME NEW S, NEW s \in Seq(S), NEW e \in S, NEW i \in 1..Len(s) + 1, NEW t, t = InsertAt(s, i, e)
  PROVE  /\ t \in Seq(S) /\ Len(t) = Len(s) + 1
         /\ \E k \in DOMAIN t : t[k] = e
         /\ \A j \in DOMAIN s : \E k \in DOMAIN t : t[k] = s[j]
<1> DEFINE a == SubSeq(s, 1, i - 1)
           b == SubSeq(s, i, Len(s))
<1>1. /\ Len(s) \in Nat /\ i \in Nat
      /\ a \in Seq(S) /\ Len(a) = i - 1 /\ \A j \in 1..i - 1 : a[j] = s[j]
      /\ b \in Seq(S) /\ Len(b) = Len(s) - i + 1 /\ \A j \in 1..Len(s) - i + 1 : b[j] = s[i + j - 1]
  OBVIOUS
<1> HIDE DEF a, b
<1>2. PICK c : c = a \o <<e>>
  OBVIOUS
<1>3. /\ c \in Seq(S) /\ Len(c) = i /\ c[i] = e /\ \A j \in 1..i - 1 : c[j] = s[j]
  BY <1>1, <1>2
<1>4. t = c \o b
  BY <1>2 DEF InsertAt, a, b
<1>5. /\ t \in Seq(S) /\ Len(t) = Len(s) + 1
      /\ \A j \in 1..i : t[j] = c[j]
      /\ \A j \in 1..Len(s) - i + 1 : t[i + j] = b[j]
  BY <1>1, <1>3, <1>4
<1>6. i \in DOMAIN t /\ t[i] = e
  BY <1>1, <1>3, <1>5
<1>7. ASSUME NEW j \in DOMAIN s PROVE \E k \in DOMAIN t : t[k] = s[j]
  <2>1. CASE j < i
    <3>1. j \in 1..i - 1 /\ j \in 1..i /\ j \in 1..Len(t)
      BY <2>1, <1>1, <1>5
    <3>2. t[j] = c[j] /\ c[j] = s[j] /\ j \in DOMAIN t
      BY <1>3, <1>5, <3>1
    <3>3. QED
      BY <3>2
  <2>2. CASE j >= i
    <3>1. j \in 1..Len(s) /\ j - i + 1 \in 1..Len(s) - i + 1 /\ i + (j - i + 1) - 1 = j
      BY <2>2, <1>1
    <3>2. b[j - i + 1] = s[j]
      BY <1>1, <3>1
    <3>3. t[i + (j - i + 1)] = b[j - i + 1]
      BY <1>5, <3>1
    <3>4. i + (j - i + 1) \in 1..Len(t)
      <4>1. PICK n \in Nat : n = Len(s)
        BY <1>1
      <4>2. PICK m \in Nat : m = i
        BY <1>1
      <4>3. j \in 1..n
        BY <3>1, <4>1
      <4>4. m + (j - m + 1) = j + 1 /\ j + 1 \in 1..n + 1
        BY <4>3
      <4>5. QED
        BY <1>5, <4>1, <4>2, <4>4
    <3>5. i + (j - i + 1) \in DOMAIN t
      BY <1>5, <3>4
    <3>6. QED
      BY <3>2, <3>3, <3>5
  <2>3. QED
    BY <2>1, <2>2, <1>1
<1>8. QED
  BY <1>5, <1>6, <1>7

\* The states of a backup are told apart.
LEMMA Copies ==
  ASSUME NEW p \in Starter
  PROVE  /\ Open(p) \in Copy /\ Stub \in Copy /\ \A shape \in Shape : Saved(shape) \in Copy
         /\ \A shape : Saved(shape) # Open(p)
         /\ \A q \in Starter \ {p} : Open(q) # Open(p)
<1>1. \A shape : Saved(shape) # Open(p)
  <2>1. ASSUME NEW shape PROVE Saved(shape).state = "whole" /\ Open(p).state = "open"
    BY DEF Saved, Open
  <2>2. QED
    BY <2>1
<1>2. \A q \in Starter \ {p} : Open(q) # Open(p)
  <2>1. \A q \in Starter : Open(q).by = q
    BY DEF Open
  <2>2. QED
    BY <2>1
<1>3. QED
  BY <1>1, <1>2 DEF Copy

LEMMA Replacing ==
  ASSUME SchemaTypeOK, NEW p \in Starter, NEW c \in Copy,
         NEW f, f = [i \in DOMAIN folder |-> IF folder[i] = Open(p) THEN c ELSE folder[i]]
  PROVE  /\ f \in Seq(Copy) /\ Len(f) = Len(folder)
         /\ \A d : d # Open(p) /\ HasCopy(d) => \E i \in DOMAIN f : f[i] = d
         /\ HasCopy(Open(p)) => \E i \in DOMAIN f : f[i] = c
<1>1. folder \in Seq(Copy) /\ DOMAIN folder = 1..Len(folder) /\ Len(folder) \in Nat
  BY DEF SchemaTypeOK
<1>2. f = [i \in 1..Len(folder) |-> IF folder[i] = Open(p) THEN c ELSE folder[i]]
  BY <1>1
<1>3. \A i \in 1..Len(folder) : f[i] = IF folder[i] = Open(p) THEN c ELSE folder[i]
  BY <1>2
<1>4. \A i \in 1..Len(folder) : f[i] \in Copy
  BY <1>1, <1>3
<1>5. f \in Seq(Copy) /\ Len(f) = Len(folder) /\ DOMAIN f = 1..Len(folder)
  BY <1>1, <1>2, <1>4
<1>6. QED
  BY <1>1, <1>3, <1>5 DEF HasCopy

Process == [pc : {"down", "creating", "looking", "saving", "copying", "altering", "up"}, todo : Shape]

\* One process moves; the database only gets what it lacks, and the copies of
\* the others stay.
Moved(p) ==
  /\ starter' \in [Starter -> Process] /\ \A q \in Starter \ {p} : starter'[q] = starter[q]
  /\ origin' = origin
Grows ==
  /\ db' \in [there : BOOLEAN, shape : Shape, seeded : BOOLEAN]
  /\ db.there => /\ db'.there /\ (db.seeded => db'.seeded)
                 /\ db.shape.columns <= db'.shape.columns
                 /\ db.shape.index # "unique" => db'.shape.index # "unique"
FolderKept(p) ==
  /\ folder' \in Seq(Copy)
  /\ \A c : c # Open(p) /\ HasCopy(c) => HasCopy(c)' \/ past'.due > Retention
PastGrows ==
  /\ past' \in [starts : 0..MaxStarts, due : Nat, spared : BOOLEAN]
  /\ past.due <= past'.due /\ (past.spared => past'.spared)

LEMMA MoveStep ==
  ASSUME SchemaInductive, NEW p \in Starter, Moved(p), Grows, FolderKept(p), PastGrows
  PROVE  /\ \A q \in Starter \ {p} : LeftToDo(q)' /\ BackupFirst(q)'
         /\ Restorable => Restorable'
<1>a. /\ SchemaTypeOK /\ \A q \in Starter : LeftToDo(q) /\ BackupFirst(q)
      /\ Retention \in Nat /\ past.due \in Nat /\ past'.due \in Nat
  BY SchemaAssumption DEF SchemaInductive, SchemaTypeOK, PastGrows
<1>1. Restorable => Restorable'
  <2>1. Saved(origin) # Open(p)
    BY Copies
  <2>2. HasCopy(Saved(origin)) => HasCopy(Saved(origin))' \/ past'.due > Retention
    BY <2>1 DEF FolderKept, HasCopy, Moved
  <2>3. past.due > Retention => past'.due > Retention
    BY <1>a DEF PastGrows
  <2>4. QED
    BY <2>2, <2>3 DEF Restorable, PastGrows
<1>2. ASSUME NEW q \in Starter \ {p} PROVE LeftToDo(q)'
  <2>1. starter'[q] = starter[q] /\ LeftToDo(q) /\ starter[q] \in Process
    BY <1>a DEF Moved, SchemaTypeOK, Process
  <2>2. db \in [there : BOOLEAN, shape : Shape, seeded : BOOLEAN]
    BY <1>a DEF SchemaTypeOK
  <2>3. Columns \in Nat /\ starter[q].todo.columns \in Nat /\ db.shape.columns \in Nat
        /\ (db.there => db'.shape.columns \in Nat)
    BY <2>1, <2>2, SchemaAssumption DEF Shape, Process, Grows
  <2>4. QED
    BY <2>1, <2>2, <2>3 DEF LeftToDo, Stands, Todo, Grows, Process
<1>3. ASSUME NEW q \in Starter \ {p} PROVE BackupFirst(q)'
  <2>1. starter'[q] = starter[q] /\ BackupFirst(q)
    BY <1>a DEF Moved
  <2>2. PICK c : c = Open(q)
    OBVIOUS
  <2>3. HasCopy(c) => HasCopy(c)' \/ past'.due > Retention
    BY <2>2, Copies DEF FolderKept
  <2>4. past.due > Retention => past'.due > Retention
    BY <1>a DEF PastGrows
  <2>5. QED
    BY <1>1, <2>1, <2>2, <2>3, <2>4 DEF BackupFirst, Stands, Todo, HasCopy, Open
<1>4. QED
  BY <1>1, <1>2, <1>3

\* A step that leaves the database and the rows alone.
LEMMA QuietMove ==
  ASSUME SchemaInductive, NEW p \in Starter, Moved(p), UNCHANGED <<db, rows>>,
         FolderKept(p), PastGrows, past'.due <= MaxStarts, StartsCounted',
         starter'[p].pc # "up", LeftToDo(p)', BackupFirst(p)',
         origin = Whole => Todo(p)' = Whole
  PROVE  SchemaInductive'
<1>a. /\ SchemaTypeOK /\ ShapeGrows /\ RestorePointKept
      /\ \A r \in Record : RowTold(r)
  BY DEF SchemaInductive
<1>1. Grows
  <2>1. db \in [there : BOOLEAN, shape : Shape, seeded : BOOLEAN] /\ db' = db /\ Columns \in Nat
    BY <1>a, SchemaAssumption DEF SchemaTypeOK
  <2>2. QED
    BY <2>1 DEF Grows, Shape
<1>2. (\A q \in Starter \ {p} : LeftToDo(q)' /\ BackupFirst(q)') /\ (Restorable => Restorable')
  BY <1>1, MoveStep
<1>3. SchemaTypeOK'
  <2>1. past' \in [starts : 0..MaxStarts, due : 0..MaxStarts, spared : BOOLEAN]
    BY SchemaAssumption DEF PastGrows
  <2>2. QED
    BY <1>a, <2>1 DEF SchemaTypeOK, Moved, FolderKept, Process
<1>4. ASSUME NEW r \in Record PROVE RowTold(r)'
  <2>1. \A q \in Starter : Stands(q, "up")' => Stands(q, "up")
    BY DEF Moved, Stands
  <2>2. QED
    BY <1>a, <2>1 DEF RowTold, Launched
<1>5. ShapeGrows'
  BY <1>a DEF ShapeGrows, Moved, Todo
<1>6. RestorePointKept'
  BY <1>a, <1>2 DEF RestorePointKept, Restorable, HasCopy, Moved
<1>7. QED
  BY <1>2, <1>3, <1>4, <1>5, <1>6 DEF SchemaInductive

\* What the actions do to the processes.
LEMMA Processes ==
  ASSUME SchemaTypeOK, NEW p \in Starter, origin' = origin
  PROVE  /\ \A pc \in {"down", "creating", "looking", "saving", "copying", "altering", "up"} :
              Proceed(p, pc) => Moved(p) /\ starter'[p].pc = pc /\ Todo(p)' = Todo(p)
         /\ \A s \in Shape : Advance(p, s) => Moved(p) /\ starter'[p].pc = starter[p].pc /\ Todo(p)' = s
         /\ Rest(p) => Moved(p) /\ starter'[p].pc = "down" /\ Todo(p)' = Whole
<1>1. starter \in [Starter -> Process] /\ starter[p] \in Process /\ Whole \in Shape
  BY SchemaAssumption DEF SchemaTypeOK, Process, Whole, Shape
<1>2. QED
  BY <1>1 DEF Process, Proceed, Advance, Rest, Moved, Todo

\* The folder of a step that leaves it, and of one whose process gives up.
LEMMA Folders ==
  ASSUME SchemaInductive, NEW p \in Starter, PastGrows
  PROVE  /\ folder' = folder => FolderKept(p) /\ Len(folder') = Len(folder)
         /\ folder' = Abandoned(p) => FolderKept(p) /\ Len(folder') = Len(folder)
<1>a. SchemaTypeOK /\ Stub \in Copy
  BY Copies DEF SchemaInductive
<1>1. CASE folder' = folder
  BY <1>1, <1>a DEF FolderKept, HasCopy, SchemaTypeOK
<1>2. CASE folder' = Abandoned(p)
  BY <1>2, <1>a, Replacing DEF Abandoned, FolderKept, HasCopy
<1>3. QED
  BY <1>1, <1>2

LEMMA StartStep ==
  ASSUME SchemaInductive, NEW p \in Starter, Start(p)
  PROVE  SchemaInductive'
<1>a. /\ SchemaTypeOK /\ StartsCounted /\ ShapeGrows
      /\ MaxStarts \in Nat /\ Len(folder) \in Nat
      /\ past \in [starts : 0..MaxStarts, due : 0..MaxStarts, spared : BOOLEAN]
  BY SchemaAssumption DEF SchemaInductive, SchemaTypeOK
<1>1. PICK pc \in {"looking", "creating"} : Proceed(p, pc) /\ (pc = "looking" => db.there)
  BY DEF Start
<1>2. Moved(p) /\ starter'[p].pc = pc /\ Todo(p)' = Todo(p) /\ starter[p].pc = "down"
  BY <1>a, <1>1, Processes DEF Start, Stands
<1>3. /\ past' \in [starts : 0..MaxStarts, due : 0..MaxStarts, spared : BOOLEAN]
      /\ past'.due = past.due /\ past'.starts = past.starts + 1 /\ past'.spared = past.spared
  BY <1>a DEF Start
<1>4. PastGrows
  BY <1>a, <1>3 DEF PastGrows
<1>5. FolderKept(p) /\ folder' = folder
  BY <1>4, Folders DEF Start
<1>6. StartsCounted'
  <2>1. \A q \in Starter \ {p} : starter'[q].pc = starter[q].pc
    BY <1>2 DEF Moved
  <2>2. /\ IsFiniteSet(Standing({"creating", "looking"})') /\ IsFiniteSet(Standing({"saving"})')
        /\ Cardinality(Standing({"creating", "looking"})') = Cardinality(Standing({"creating", "looking"})) + 1
        /\ Cardinality(Standing({"saving"})') = Cardinality(Standing({"saving"}))
        /\ Cardinality(Standing({"creating", "looking"})) \in Nat
    BY <1>a, <1>2, <2>1, Moves DEF StartsCounted
  <2>3. QED
    BY <1>a, <1>3, <1>5, <2>2 DEF StartsCounted
<1>7. LeftToDo(p)' /\ BackupFirst(p)'
  BY <1>1, <1>2 DEF LeftToDo, BackupFirst, Stands, Start
<1>8. origin = Whole => Todo(p)' = Whole
  BY <1>a, <1>2 DEF ShapeGrows
<1>9. QED
  BY <1>a, <1>2, <1>3, <1>4, <1>5, <1>6, <1>7, <1>8, QuietMove DEF Start

\* A start that ends: it died, or a statement failed.
LEMMA Ends ==
  ASSUME SchemaInductive, NEW p \in Starter, Rest(p), folder' \in {folder, Abandoned(p)},
         UNCHANGED <<db, rows, origin, past>>
  PROVE  SchemaInductive'
<1>a. /\ SchemaTypeOK /\ StartsCounted
      /\ MaxStarts \in Nat /\ Len(folder) \in Nat
      /\ past \in [starts : 0..MaxStarts, due : 0..MaxStarts, spared : BOOLEAN]
  BY SchemaAssumption DEF SchemaInductive, SchemaTypeOK
<1>1. Moved(p) /\ starter'[p].pc = "down" /\ Todo(p)' = Whole
  BY <1>a, Processes
<1>2. PastGrows
  BY <1>a DEF PastGrows
<1>3. FolderKept(p) /\ Len(folder') = Len(folder)
  BY <1>2, Folders
<1>4. StartsCounted'
  <2>1. \A q \in Starter \ {p} : starter'[q].pc = starter[q].pc
    BY <1>1 DEF Moved
  <2>2. ASSUME NEW pcs, "down" \notin pcs, IsFiniteSet(Standing(pcs))
        PROVE  /\ IsFiniteSet(Standing(pcs)')
               /\ Cardinality(Standing(pcs)) \in Nat /\ Cardinality(Standing(pcs)') \in Nat
               /\ Cardinality(Standing(pcs)') <= Cardinality(Standing(pcs))
    <3>1. \/ Cardinality(Standing(pcs)') = Cardinality(Standing(pcs)) - 1
          \/ Cardinality(Standing(pcs)') = Cardinality(Standing(pcs))
      BY <1>1, <2>1, <2>2, Moves
    <3>2. QED
      BY <2>1, <2>2, <3>1, Moves
  <2>3. QED
    BY <1>a, <1>3, <2>2 DEF StartsCounted
<1>5. LeftToDo(p)' /\ BackupFirst(p)'
  BY <1>1 DEF LeftToDo, BackupFirst, Stands
<1>6. QED
  BY <1>a, <1>1, <1>2, <1>3, <1>4, <1>5, QuietMove

LEMMA LookStep ==
  ASSUME SchemaInductive, NEW p \in Starter, Look(p)
  PROVE  SchemaInductive'
<1>a. /\ SchemaTypeOK /\ StartsCounted /\ ShapeGrows /\ LeftToDo(p) /\ RestorePointKept
      /\ MaxStarts \in Nat /\ Len(folder) \in Nat /\ db.shape \in Shape
      /\ past \in [starts : 0..MaxStarts, due : 0..MaxStarts, spared : BOOLEAN]
      /\ starter \in [Starter -> Process]
  BY SchemaAssumption DEF SchemaInductive, SchemaTypeOK, Process
<1>1. PICK pc \in {"saving", "altering"} :
        /\ starter' = [starter EXCEPT ![p] = [pc |-> pc, todo |-> db.shape]]
        /\ pc = "saving" <=> db.shape # Whole
  BY DEF Look, Pending
<1>2. /\ Moved(p) /\ starter'[p].pc = pc /\ Todo(p)' = db.shape /\ starter[p].pc = "looking" /\ db.there
  BY <1>a, <1>1 DEF Look, Moved, Process, Todo, Stands, LeftToDo
<1>3. past' = [past EXCEPT !.due = IF db.shape # Whole THEN @ + 1 ELSE @]
  BY DEF Look
<1>4. /\ past' \in [starts : 0..MaxStarts, due : Nat, spared : BOOLEAN]
      /\ past'.due = IF db.shape # Whole THEN past.due + 1 ELSE past.due
      /\ past'.starts = past.starts /\ past'.spared = past.spared
  BY <1>a, <1>3
<1>5. PastGrows
  BY <1>a, <1>4 DEF PastGrows
<1>6. FolderKept(p) /\ folder' = folder
  BY <1>5, Folders DEF Look
<1>7. StartsCounted' /\ past'.due <= MaxStarts
  <2>1. \A q \in Starter \ {p} : starter'[q].pc = starter[q].pc
    BY <1>2 DEF Moved
  <2>2. /\ IsFiniteSet(Standing({"creating", "looking"})') /\ IsFiniteSet(Standing({"saving"})')
        /\ Cardinality(Standing({"creating", "looking"})') = Cardinality(Standing({"creating", "looking"})) - 1
        /\ Cardinality(Standing({"creating", "looking"})') \in Nat
        /\ Cardinality(Standing({"creating", "looking"})) \in Nat /\ Cardinality(Standing({"saving"})) \in Nat
        /\ Cardinality(Standing({"saving"})') = IF pc = "saving" THEN Cardinality(Standing({"saving"})) + 1
                                                ELSE Cardinality(Standing({"saving"}))
    BY <1>a, <1>2, <2>1, Moves DEF StartsCounted
  <2>3. PICK n, m \in Nat : n = Cardinality(Standing({"creating", "looking"})') /\ m = Cardinality(Standing({"saving"}))
    BY <2>2
  <2>4. past.due + (n + 1) <= past.starts /\ Len(folder) + m <= past.due
    BY <1>a, <2>2, <2>3 DEF StartsCounted
  <2>5. /\ past'.due + n <= past'.starts
        /\ Len(folder') + Cardinality(Standing({"saving"})') <= past'.due
        /\ past'.due <= MaxStarts
    BY <1>a, <1>1, <1>4, <1>6, <2>2, <2>3, <2>4, SMTT(30)
  <2>6. QED
    BY <2>2, <2>3, <2>5 DEF StartsCounted
<1>8. LeftToDo(p)' /\ BackupFirst(p)'
  <2>1. db' = db
    BY DEF Look
  <2>2. LeftToDo(p)'
    BY <1>a, <1>2, <2>1, SchemaAssumption DEF LeftToDo, Stands, Shape, Todo
  <2>3. BackupFirst(p)'
    BY <1>1, <1>2 DEF BackupFirst, Stands
  <2>4. QED
    BY <2>2, <2>3
<1>9. origin = Whole => Todo(p)' = Whole
  BY <1>a, <1>2 DEF ShapeGrows
<1>10. QED
  BY <1>2, <1>5, <1>6, <1>7, <1>8, <1>9, QuietMove DEF Look

\* The steps of the backup, which counts and leaves what is to be left.
LEMMA BackupStep ==
  ASSUME SchemaInductive, NEW p \in Starter, NEW pc \in {"copying", "altering"},
         starter[p].pc \in {"saving", "copying"}, Proceed(p, pc),
         UNCHANGED <<db, rows, origin>>, FolderKept(p), PastGrows,
         past'.due = past.due, past'.starts = past.starts,
         Len(folder') \in Nat, Len(folder') <= Len(folder) + (IF starter[p].pc = "saving" THEN 1 ELSE 0),
         pc = "copying" => past.due > Retention \/ HasCopy(Open(p))',
         pc = "altering" => Restorable'
  PROVE  SchemaInductive'
<1>a. /\ SchemaTypeOK /\ StartsCounted /\ ShapeGrows /\ LeftToDo(p)
      /\ MaxStarts \in Nat /\ Len(folder) \in Nat
      /\ past \in [starts : 0..MaxStarts, due : 0..MaxStarts, spared : BOOLEAN]
  BY SchemaAssumption DEF SchemaInductive, SchemaTypeOK
<1>1. Moved(p) /\ starter'[p].pc = pc /\ Todo(p)' = Todo(p)
  BY <1>a, Processes
<1>2. StartsCounted'
  <2>1. \A q \in Starter \ {p} : starter'[q].pc = starter[q].pc
    BY <1>1 DEF Moved
  <2>2. /\ IsFiniteSet(Standing({"creating", "looking"})') /\ IsFiniteSet(Standing({"saving"})')
        /\ Cardinality(Standing({"creating", "looking"})') = Cardinality(Standing({"creating", "looking"}))
        /\ Cardinality(Standing({"saving"})) \in Nat /\ Cardinality(Standing({"saving"})') \in Nat
        /\ Cardinality(Standing({"saving"})') = IF starter[p].pc = "saving" THEN Cardinality(Standing({"saving"})) - 1
                                                ELSE Cardinality(Standing({"saving"}))
    BY <1>a, <1>1, <2>1, Moves DEF StartsCounted
  <2>3. QED
    BY <1>a, <2>2 DEF StartsCounted
<1>3. LeftToDo(p)'
  BY <1>a, <1>1 DEF LeftToDo, Stands, Todo
<1>4. BackupFirst(p)'
  BY <1>1 DEF BackupFirst, Stands
<1>5. origin = Whole => Todo(p)' = Whole
  BY <1>a, <1>1 DEF ShapeGrows
<1>6. QED
  BY <1>a, <1>1, <1>2, <1>3, <1>4, <1>5, QuietMove

LEMMA SaveNothingStep ==
  ASSUME SchemaInductive, NEW p \in Starter, SaveNothing(p)
  PROVE  SchemaInductive'
<1>a. /\ SchemaTypeOK /\ Len(folder) \in Nat
      /\ past \in [starts : 0..MaxStarts, due : 0..MaxStarts, spared : BOOLEAN]
  BY DEF SchemaInductive, SchemaTypeOK
<1>1. past' = [past EXCEPT !.spared = TRUE] /\ folder' = folder /\ UNCHANGED <<db, rows, origin>>
  BY DEF SaveNothing
<1>2. /\ past'.due = past.due /\ past'.starts = past.starts /\ past'.spared
      /\ past' \in [starts : 0..MaxStarts, due : 0..MaxStarts, spared : BOOLEAN]
  BY <1>a, <1>1
<1>3. PastGrows
  BY <1>a, <1>2 DEF PastGrows
<1>4. FolderKept(p)
  BY <1>1, <1>3, Folders
<1>5. Restorable'
  BY <1>2 DEF Restorable
<1>6. QED
  BY <1>a, <1>1, <1>2, <1>3, <1>4, <1>5, BackupStep DEF SaveNothing, Stands

LEMMA SaveFailsStep ==
  ASSUME SchemaInductive, NEW p \in Starter, SaveFails(p)
  PROVE  SchemaInductive'
<1>a. /\ SchemaTypeOK /\ Len(folder) \in Nat
      /\ past \in [starts : 0..MaxStarts, due : 0..MaxStarts, spared : BOOLEAN]
  BY DEF SchemaInductive, SchemaTypeOK
<1>1. past' = [past EXCEPT !.spared = TRUE] /\ folder' = Abandoned(p) /\ UNCHANGED <<db, rows, origin>>
  BY DEF SaveFails
<1>2. /\ past'.due = past.due /\ past'.starts = past.starts /\ past'.spared
      /\ past' \in [starts : 0..MaxStarts, due : 0..MaxStarts, spared : BOOLEAN]
  BY <1>a, <1>1
<1>3. PastGrows
  BY <1>a, <1>2 DEF PastGrows
<1>4. FolderKept(p) /\ Len(folder') = Len(folder)
  BY <1>1, <1>3, Folders
<1>5. Restorable'
  BY <1>2 DEF Restorable
<1>6. starter[p].pc \in {"saving", "copying"} /\ Proceed(p, "altering")
  BY DEF SaveFails, Stands
<1>7. QED
  BY <1>a, <1>1, <1>2, <1>3, <1>4, <1>5, <1>6, BackupStep

LEMMA BeginSaveStep ==
  ASSUME SchemaInductive, NEW p \in Starter, BeginSave(p)
  PROVE  SchemaInductive'
<1>a. /\ folder \in Seq(Copy) /\ Len(folder) \in Nat /\ Open(p) \in Copy
      /\ past \in [starts : 0..MaxStarts, due : 0..MaxStarts, spared : BOOLEAN]
  BY Copies DEF SchemaInductive, SchemaTypeOK
<1>1. PICK i \in 1..Len(folder) + 1 : folder' = InsertAt(folder, i, Open(p))
  BY <1>a DEF BeginSave
<1>2. /\ folder' \in Seq(Copy) /\ Len(folder') = Len(folder) + 1
      /\ \E k \in DOMAIN folder' : folder'[k] = Open(p)
      /\ \A j \in DOMAIN folder : \E k \in DOMAIN folder' : folder'[k] = folder[j]
  BY <1>a, <1>1, Inserted
<1>3. PastGrows /\ past' = past
  BY <1>a DEF PastGrows, BeginSave
<1>4. FolderKept(p) /\ HasCopy(Open(p))'
  BY <1>2 DEF FolderKept, HasCopy
<1>5. QED
  BY <1>a, <1>2, <1>3, <1>4, BackupStep DEF BeginSave, Stands

LEMMA SaveStep ==
  ASSUME SchemaInductive, NEW p \in Starter, Save(p)
  PROVE  SchemaInductive'
<1>a. /\ SchemaTypeOK /\ folder \in Seq(Copy) /\ Len(folder) \in Nat /\ StartsCounted /\ BackupFirst(p)
      /\ RestorePointKept /\ Retention \in Nat \ {0}
      /\ past \in [starts : 0..MaxStarts, due : 0..MaxStarts, spared : BOOLEAN]
  BY SchemaAssumption DEF SchemaInductive, SchemaTypeOK
<1>c. PICK c \in Copy : c = Saved(db.shape)
  BY <1>a, Copies DEF SchemaTypeOK
<1>f. PICK f : f = [i \in DOMAIN folder |-> IF folder[i] = Open(p) THEN c ELSE folder[i]]
  OBVIOUS
<1>1. /\ f \in Seq(Copy) /\ Len(f) = Len(folder)
      /\ \A d : d # Open(p) /\ HasCopy(d) => \E i \in DOMAIN f : f[i] = d
      /\ HasCopy(Open(p)) => \E i \in DOMAIN f : f[i] = c
  BY <1>a, <1>f, Replacing
<1>2. folder' = Newest(f)
  BY <1>c, <1>f DEF Save
<1>3. past' = past /\ PastGrows
  BY <1>a DEF Save, PastGrows
<1>4. FolderKept(p) /\ Len(folder') \in Nat /\ Len(folder') <= Len(folder) /\ Restorable'
  <2>1. CASE Len(f) <= Retention
    <3>1. folder' = f
      BY <1>2, <2>1 DEF Newest
    <3>2. FolderKept(p) /\ Len(folder') \in Nat /\ Len(folder') <= Len(folder)
      BY <1>1, <1>a, <3>1 DEF FolderKept, HasCopy
    <3>3. CASE db.shape = origin
      <4>1. past.due > Retention \/ HasCopy(Open(p))
        BY <1>a DEF Save, BackupFirst
      <4>2. HasCopy(Open(p)) => \E i \in DOMAIN f : f[i] = Saved(origin)
        BY <1>1, <1>c, <3>3
      <4>3. origin' = origin
        BY DEF Save
      <4>4. QED
        BY <1>3, <3>1, <3>2, <4>1, <4>2, <4>3 DEF Restorable, HasCopy
    <3>4. CASE db.shape # origin
      <4>1. Restorable
        BY <1>a, <3>4 DEF RestorePointKept, Restorable, HasCopy
      <4>2. PICK o : o = Saved(origin) /\ o # Open(p)
        BY Copies
      <4>3. HasCopy(o) => \E i \in DOMAIN f : f[i] = o
        BY <1>1, <4>2
      <4>4. Saved(origin') = o
        BY <4>2 DEF Save
      <4>5. QED
        BY <1>3, <3>1, <3>2, <4>1, <4>2, <4>3, <4>4 DEF Restorable, HasCopy
    <3>5. QED
      BY <3>2, <3>3, <3>4
  <2>2. CASE ~(Len(f) <= Retention)
    <3>1. past.due > Retention
      <4>1. Cardinality(Standing({"saving"})) \in Nat
        BY <1>a, FS_CardinalityType DEF StartsCounted
      <4>2. QED
        BY <1>1, <1>a, <2>2, <4>1 DEF StartsCounted
    <3>2. folder' = SubSeq(f, Len(f) - Retention + 1, Len(f))
      BY <1>2, <2>2 DEF Newest
    <3>3. folder' \in Seq(Copy) /\ Len(folder') = Retention
      BY <1>1, <1>a, <2>2, <3>2
    <3>4. QED
      BY <1>a, <1>1, <1>3, <2>2, <3>1, <3>3 DEF FolderKept, Restorable
  <2>3. QED
    BY <2>1, <2>2
<1>5. QED
  BY <1>a, <1>3, <1>4, BackupStep DEF Save, Stands

\* Nobody moves between the counts.
LEMMA CountsKept ==
  ASSUME StartsCounted, Len(folder') = Len(folder), past' = past,
         \A q \in Starter : \A pcs \in {{"creating", "looking"}, {"saving"}} :
           starter'[q].pc \in pcs => starter[q].pc \in pcs,
         past.due \in Nat, past.starts \in Nat, Len(folder) \in Nat
  PROVE  StartsCounted'
<1>1. ASSUME NEW pcs \in {{"creating", "looking"}, {"saving"}}
      PROVE  /\ IsFiniteSet(Standing(pcs)')
             /\ Cardinality(Standing(pcs)') \in Nat /\ Cardinality(Standing(pcs)) \in Nat
             /\ Cardinality(Standing(pcs)') <= Cardinality(Standing(pcs))
  <2>1. Standing(pcs)' \in SUBSET Standing(pcs)
    BY DEF Standing
  <2>2. IsFiniteSet(Standing(pcs))
    BY DEF StartsCounted
  <2>3. QED
    BY <2>1, <2>2, FS_Subset, FS_CardinalityType
<1>2. QED
  BY <1>1 DEF StartsCounted

\* A statement that changes the shape.
LEMMA ShapeStep ==
  ASSUME SchemaInductive, NEW p \in Starter, Stands(p, "altering"), Todo(p) # Whole,
         NEW becomes \in Shape, NEW left \in Shape,
         db' = [db EXCEPT !.shape = becomes], Advance(p, left), UNCHANGED <<rows, folder, origin, past>>,
         db.shape.columns <= becomes.columns, db.shape.index # "unique" => becomes.index # "unique",
         left.columns <= becomes.columns, left.index # "unique" => becomes.index # "unique",
         origin # Whole => origin.columns < becomes.columns
  PROVE  SchemaInductive'
<1>a. /\ SchemaTypeOK /\ StartsCounted /\ ShapeGrows /\ LeftToDo(p) /\ BackupFirst(p)
      /\ (\A r \in Record : RowTold(r))
      /\ db \in [there : BOOLEAN, shape : Shape, seeded : BOOLEAN]
      /\ past \in [starts : 0..MaxStarts, due : 0..MaxStarts, spared : BOOLEAN]
      /\ folder \in Seq(Copy) /\ Len(folder) \in Nat
  BY DEF SchemaInductive, SchemaTypeOK
<1>1. Moved(p) /\ starter'[p].pc = "altering" /\ Todo(p)' = left
  BY <1>a, Processes DEF Stands
<1>2. db' \in [there : BOOLEAN, shape : Shape, seeded : BOOLEAN] /\ db'.shape = becomes
      /\ db'.there = db.there /\ db'.seeded = db.seeded
  BY <1>a
<1>3. Grows /\ PastGrows
  BY <1>2, <1>a DEF Grows, PastGrows
<1>4. FolderKept(p)
  BY <1>3, Folders
<1>5. (\A q \in Starter \ {p} : LeftToDo(q)' /\ BackupFirst(q)') /\ (Restorable => Restorable')
  BY <1>1, <1>3, <1>4, MoveStep
<1>6. LeftToDo(p)'
  BY <1>1, <1>2, <1>a DEF LeftToDo, Stands
<1>7. Restorable' /\ BackupFirst(p)'
  BY <1>1, <1>5, <1>a DEF BackupFirst, Stands
<1>8. RestorePointKept'
  BY <1>7 DEF RestorePointKept, Restorable, HasCopy
<1>9. ShapeGrows'
  <2>1. origin # Whole /\ db.there
    BY <1>a DEF ShapeGrows
  <2>2. origin.columns \in Nat /\ becomes.columns \in Nat /\ origin' = origin
    BY <1>a, SchemaAssumption DEF SchemaTypeOK, Shape
  <2>3. origin.columns < db'.shape.columns /\ origin.columns # db'.shape.columns /\ origin.columns < Columns
    BY <1>2, <1>a, <2>1, <2>2 DEF ShapeGrows
  <2>4. QED
    BY <2>1, <2>2, <2>3, <1>2 DEF ShapeGrows
<1>10. SchemaTypeOK'
  BY <1>a, <1>1, <1>2 DEF SchemaTypeOK, Moved, Process
<1>11. ASSUME NEW r \in Record PROVE RowTold(r)'
  <2>1. \A q \in Starter : Stands(q, "up")' => Stands(q, "up")
    BY <1>1 DEF Moved, Stands
  <2>2. QED
    BY <1>a, <2>1 DEF RowTold, Launched
<1>12. StartsCounted'
  <2>1. \A q \in Starter : starter'[q].pc = starter[q].pc
    BY <1>1 DEF Moved, Stands
  <2>2. past.due \in Nat /\ past.starts \in Nat
    BY <1>a
  <2>3. QED
    BY <1>a, <2>1, <2>2, CountsKept
<1>13. QED
  BY <1>5, <1>6, <1>7, <1>8, <1>9, <1>10, <1>11, <1>12 DEF SchemaInductive

LEMMA AlterSteps ==
  ASSUME SchemaInductive, NEW p \in Starter, AddColumn(p) \/ DropIndex(p) \/ CreateIndex(p)
  PROVE  SchemaInductive'
<1>a. /\ SchemaTypeOK /\ ShapeGrows /\ db.shape \in Shape /\ Todo(p) \in Shape /\ origin \in Shape
      /\ Columns \in Nat \ {0} /\ Whole \in Shape
      /\ Stands(p, "altering") => Todo(p).columns <= db.shape.columns
  BY SchemaAssumption DEF SchemaInductive, SchemaTypeOK, LeftToDo, Stands, Todo, Whole, Shape
<1>t. /\ db.shape.columns \in 0..Columns /\ Todo(p).columns \in 0..Columns
      /\ db.shape.index \in {"unique", "plain", "none"} /\ Todo(p).index \in {"unique", "plain", "none"}
      /\ origin.columns \in 0..Columns /\ Whole.columns = Columns /\ Whole.index = "plain"
      /\ origin # Whole => origin.columns < Columns /\ origin.columns <= db.shape.columns
  BY <1>a DEF Shape, ShapeGrows, Whole
<1>1. ASSUME Rest(p), UNCHANGED <<db, rows, folder, origin, past>> PROVE SchemaInductive'
  BY <1>1, Ends
<1>2. CASE AddColumn(p)
  <2>1. PICK k \in 1..Columns : k = Todo(p).columns + 1
    BY <1>2, <1>t, <1>a DEF AddColumn
  <2>2. PICK becomes : becomes = [db.shape EXCEPT !.columns = k]
    OBVIOUS
  <2>3. PICK left : left = [Todo(p) EXCEPT !.columns = k]
    OBVIOUS
  <2>4. /\ becomes \in Shape /\ becomes.columns = k /\ becomes.index = db.shape.index
        /\ left \in Shape /\ left.columns = k /\ left.index = Todo(p).index
    BY <1>a, <2>1, <2>2, <2>3 DEF Shape
  <2>5. CASE db.shape.columns < k
    <3>1. db' = [db EXCEPT !.shape = becomes] /\ Advance(p, left) /\ UNCHANGED <<rows, folder, origin, past>>
      BY <1>2, <2>1, <2>2, <2>3, <2>5 DEF AddColumn, Alter
    <3>2. Stands(p, "altering") /\ Todo(p) # Whole
      BY <1>2, <2>1, <1>t DEF AddColumn, Alter
    <3>3. left.index # "unique" => becomes.index # "unique"
      BY <3>2, <2>4 DEF SchemaInductive, LeftToDo, Stands
    <3>4. /\ db.shape.columns <= becomes.columns /\ left.columns <= becomes.columns
          /\ origin # Whole => origin.columns < becomes.columns
      BY <1>t, <2>1, <2>4, <2>5
    <3>5. QED
      BY <2>4, <3>1, <3>2, <3>3, <3>4, ShapeStep
  <2>6. CASE ~(db.shape.columns < k)
    BY <1>1, <1>2, <2>1, <2>6 DEF AddColumn, Alter
  <2>7. QED
    BY <2>5, <2>6
<1>3. CASE DropIndex(p)
  <2>1. PICK becomes : becomes = [db.shape EXCEPT !.index = "none"]
    OBVIOUS
  <2>2. PICK left : left = [Todo(p) EXCEPT !.index = "none"]
    OBVIOUS
  <2>3. /\ becomes \in Shape /\ becomes.columns = db.shape.columns /\ becomes.index = "none"
        /\ left \in Shape /\ left.columns = Columns /\ left.index = "none"
        /\ Stands(p, "altering") /\ Todo(p) # Whole /\ db.shape.columns = Columns
    BY <1>3, <1>a, <1>t, <2>1, <2>2 DEF Shape, DropIndex, Alter
  <2>4. CASE db.shape.index # "none"
    <3>1. db' = [db EXCEPT !.shape = becomes] /\ Advance(p, left) /\ UNCHANGED <<rows, folder, origin, past>>
      BY <1>3, <2>1, <2>2, <2>4 DEF DropIndex, Alter
    <3>2. QED
      BY <1>t, <2>3, <3>1, ShapeStep
  <2>5. CASE db.shape.index = "none"
    BY <1>1, <1>3, <2>5 DEF DropIndex, Alter
  <2>6. QED
    BY <2>4, <2>5
<1>4. CASE CreateIndex(p)
  <2>1. PICK becomes : becomes = [db.shape EXCEPT !.index = "plain"]
    OBVIOUS
  <2>2. /\ becomes \in Shape /\ becomes.columns = db.shape.columns /\ becomes.index = "plain"
        /\ Stands(p, "altering") /\ Todo(p) # Whole /\ db.shape.columns = Columns
    BY <1>4, <1>a, <1>t, <2>1 DEF Shape, CreateIndex, Alter
  <2>3. CASE db.shape.index = "none"
    <3>1. db' = [db EXCEPT !.shape = becomes] /\ Advance(p, Whole) /\ UNCHANGED <<rows, folder, origin, past>>
      BY <1>4, <2>1, <2>3 DEF CreateIndex, Alter
    <3>2. QED
      BY <1>a, <1>t, <2>2, <3>1, ShapeStep
  <2>4. CASE db.shape.index # "none"
    BY <1>1, <1>4, <2>4 DEF CreateIndex, Alter
  <2>5. QED
    BY <2>3, <2>4
<1>5. QED
  BY <1>2, <1>3, <1>4

LEMMA CreateAllStep ==
  ASSUME SchemaInductive, NEW p \in Starter, CreateAll(p)
  PROVE  SchemaInductive'
<1>a. /\ SchemaTypeOK /\ StartsCounted /\ ShapeGrows
      /\ (\A q \in Starter : LeftToDo(q)) /\ (\A r \in Record : RowTold(r))
      /\ past \in [starts : 0..MaxStarts, due : 0..MaxStarts, spared : BOOLEAN]
      /\ folder \in Seq(Copy) /\ Len(folder) \in Nat /\ Whole \in Shape
  BY SchemaAssumption DEF SchemaInductive, SchemaTypeOK, Whole, Shape
<1>1. CASE db.there
  BY <1>1, Ends DEF CreateAll
<1>2. CASE ~db.there
  <2>1. /\ db' = [there |-> TRUE, shape |-> Whole, seeded |-> FALSE] /\ Proceed(p, "looking")
        /\ UNCHANGED <<rows, folder, origin, past>>
    BY <1>2 DEF CreateAll
  <2>2. Moved(p) /\ starter'[p].pc = "looking" /\ Todo(p)' = Todo(p) /\ starter[p].pc = "creating"
    BY <1>a, <2>1, Processes DEF CreateAll, Stands
  <2>3. Grows /\ PastGrows
    BY <1>2, <1>a, <2>1 DEF Grows, PastGrows
  <2>4. FolderKept(p)
    BY <2>1, <2>3, Folders
  <2>5. \A q \in Starter \ {p} : LeftToDo(q)' /\ BackupFirst(q)'
    BY <2>2, <2>3, <2>4, MoveStep
  <2>6. LeftToDo(p)' /\ BackupFirst(p)'
    BY <2>1, <2>2 DEF LeftToDo, BackupFirst, Stands
  <2>7. origin = Whole /\ \A q \in Starter : Todo(q) = Whole
    BY <1>2, <1>a DEF ShapeGrows
  <2>8. ShapeGrows' /\ RestorePointKept'
    BY <2>1, <2>2, <2>7 DEF ShapeGrows, RestorePointKept, Moved, Todo
  <2>9. ASSUME NEW r \in Record PROVE RowTold(r)'
    <3>1. \A q \in Starter : Stands(q, "up")' => Stands(q, "up")
      BY <2>2 DEF Moved, Stands
    <3>2. QED
      BY <1>a, <2>1, <3>1 DEF RowTold, Launched
  <2>10. SchemaTypeOK'
    BY <1>a, <2>1, <2>2, <2>3 DEF SchemaTypeOK, Moved, Process, Grows
  <2>11. StartsCounted'
    <3>1. \A q \in Starter : \A pcs \in {{"creating", "looking"}, {"saving"}} :
            starter'[q].pc \in pcs => starter[q].pc \in pcs
      BY <2>2 DEF Moved
    <3>2. past.due \in Nat /\ past.starts \in Nat
      BY <1>a
    <3>3. QED
      BY <1>a, <2>1, <3>1, <3>2, CountsKept
  <2>12. QED
    BY <2>5, <2>6, <2>8, <2>9, <2>10, <2>11 DEF SchemaInductive
<1>3. QED
  BY <1>1, <1>2

\* The one transaction: every row is filed, and under the login it was built
\* with.
LEMMA Settled ==
  ASSUME SchemaTypeOK, NEW r \in Record, RowTold(r), NEW x,
         x = IF Launched(r) THEN Adopt(Backfill(rows[r])) ELSE NoRow
  PROVE  /\ x \in InstanceRow \union {NoRow}
         /\ x # NoRow => x.login = x.built /\ x.login # NoLogin /\ x.filed
<1>1. CASE ~Launched(r)
  BY <1>1
<1>2. CASE Launched(r)
  <2>1. rows[r] \in InstanceRow
    BY <1>2 DEF SchemaTypeOK, Launched
  <2>2. PICK y : y = Backfill(rows[r])
    OBVIOUS
  <2>3. y \in InstanceRow /\ y.login = y.built
    <3>1. CASE rows[r].login = NoLogin
      <4>1. y = [rows[r] EXCEPT !.login = Legacy] /\ rows[r].built = Legacy
        BY <1>2, <2>2, <3>1 DEF Backfill, RowTold
      <4>2. QED
        BY <2>1, <4>1 DEF InstanceRow
    <3>2. CASE rows[r].login # NoLogin
      BY <1>2, <2>1, <2>2, <3>2 DEF Backfill, RowTold
    <3>3. QED
      BY <3>1, <3>2
  <2>4. x = [y EXCEPT !.filed = TRUE]
    BY <1>2, <2>2 DEF Adopt
  <2>5. x \in InstanceRow /\ x.login = x.built /\ x.filed
    BY <2>3, <2>4 DEF InstanceRow
  <2>6. QED
    BY <2>5, SchemaAssumption DEF InstanceRow
<1>3. QED
  BY <1>1, <1>2

LEMMA SettleStep ==
  ASSUME SchemaInductive, NEW p \in Starter, Settle(p)
  PROVE  SchemaInductive'
<1>a. /\ SchemaTypeOK /\ StartsCounted /\ ShapeGrows /\ RestorePointKept /\ LeftToDo(p)
      /\ (\A r \in Record : RowTold(r))
      /\ db \in [there : BOOLEAN, shape : Shape, seeded : BOOLEAN] /\ Columns \in Nat
      /\ past \in [starts : 0..MaxStarts, due : 0..MaxStarts, spared : BOOLEAN]
      /\ folder \in Seq(Copy) /\ Len(folder) \in Nat
  BY SchemaAssumption DEF SchemaInductive, SchemaTypeOK
<1>1. Moved(p) /\ starter'[p].pc = "up" /\ Todo(p)' = Whole /\ starter[p].pc = "altering" /\ Todo(p) = Whole
  BY <1>a, Processes DEF Settle, Stands
<1>2. /\ db' \in [there : BOOLEAN, shape : Shape, seeded : BOOLEAN]
      /\ db'.there = db.there /\ db'.shape = db.shape /\ db'.seeded
      /\ UNCHANGED <<folder, origin, past>>
  BY <1>a DEF Settle
<1>3. Grows /\ PastGrows
  BY <1>a, <1>2 DEF Grows, PastGrows, Shape
<1>4. FolderKept(p)
  BY <1>2, <1>3, Folders
<1>5. (\A q \in Starter \ {p} : LeftToDo(q)' /\ BackupFirst(q)') /\ (Restorable => Restorable')
  BY <1>1, <1>3, <1>4, MoveStep
<1>6. LeftToDo(p)' /\ BackupFirst(p)'
  BY <1>1, <1>2, <1>a DEF LeftToDo, BackupFirst, Stands
<1>7. ShapeGrows' /\ RestorePointKept'
  BY <1>a, <1>1, <1>2 DEF ShapeGrows, RestorePointKept, Moved, Todo
<1>8. \A r \in Record : /\ rows'[r] \in InstanceRow \union {NoRow}
                        /\ rows'[r] # NoRow => /\ rows'[r].login = rows'[r].built
                                               /\ rows'[r].login # NoLogin /\ rows'[r].filed
  BY <1>a, Settled DEF Settle
<1>9. \A r \in Record : RowTold(r)'
  BY <1>8 DEF RowTold, Launched
<1>10. SchemaTypeOK'
  <2>1. rows' = [r \in Record |-> rows'[r]]
    BY DEF Settle
  <2>2. rows' \in [Record -> InstanceRow \union {NoRow}]
    BY <1>8, <2>1
  <2>3. QED
    BY <1>a, <1>1, <1>2, <2>2 DEF SchemaTypeOK, Moved, Process
<1>11. StartsCounted'
  <2>1. \A q \in Starter : \A pcs \in {{"creating", "looking"}, {"saving"}} :
          starter'[q].pc \in pcs => starter[q].pc \in pcs
    BY <1>1 DEF Moved
  <2>2. past.due \in Nat /\ past.starts \in Nat
    BY <1>a
  <2>3. QED
    BY <1>a, <1>2, <2>1, <2>2, CountsKept
<1>12. QED
  BY <1>5, <1>6, <1>7, <1>9, <1>10, <1>11 DEF SchemaInductive

\* An instance is launched: one row, with its login, or of an old release
\* while nobody serves.
LEMMA LaunchSteps ==
  ASSUME SchemaInductive, NEW r \in Record, Launch(r) \/ LaunchByOldRelease(r)
  PROVE  SchemaInductive'
<1>a. SchemaTypeOK /\ \A s \in Record : RowTold(s)
  BY DEF SchemaInductive
<1>1. PICK x : /\ rows' = [rows EXCEPT ![r] = x] /\ x \in InstanceRow
               /\ x.login = NoLogin => x.built = Legacy
               /\ x.login # NoLogin => x.login = x.built
               /\ (\E p \in Starter : Stands(p, "up")) => x.login # NoLogin /\ x.filed
  <2>1. ASSUME NEW u \in {Legacy, Default}, NEW x, x = [built |-> u, login |-> u, filed |-> TRUE]
        PROVE  x \in InstanceRow /\ x.login = x.built /\ x.login # NoLogin /\ x.filed
    BY <2>1, SchemaAssumption DEF InstanceRow
  <2>2. ASSUME NEW filed \in BOOLEAN, NEW x, x = OldRow(filed)
        PROVE  x \in InstanceRow /\ x.login = NoLogin /\ x.built = Legacy
    BY <2>2, SchemaAssumption DEF InstanceRow, OldRow
  <2>3. CASE Launch(r)
    BY <2>1, <2>3 DEF Launch
  <2>4. CASE LaunchByOldRelease(r)
    <3>1. ~\E p \in Starter : Stands(p, "up")
      BY <2>4 DEF LaunchByOldRelease, Stands
    <3>2. QED
      BY <2>2, <2>4, <3>1 DEF LaunchByOldRelease
  <2>5. QED
    BY <2>3, <2>4
<1>2. UNCHANGED <<db, folder, starter, origin, past>>
  BY DEF Launch, LaunchByOldRelease
<1>3. rows' \in [Record -> InstanceRow \union {NoRow}] /\ rows'[r] = x /\ \A s \in Record \ {r} : rows'[s] = rows[s]
  BY <1>a, <1>1 DEF SchemaTypeOK
<1>4. SchemaTypeOK'
  BY <1>a, <1>2, <1>3 DEF SchemaTypeOK
<1>5. ASSUME NEW s \in Record PROVE RowTold(s)'
  <2>1. CASE s = r
    BY <1>1, <1>2, <1>3, <2>1 DEF RowTold, Stands
  <2>2. CASE s # r
    BY <1>a, <1>2, <1>3, <2>2 DEF RowTold, Stands, Launched
  <2>3. QED
    BY <2>1, <2>2
<1>6. QED
  BY <1>2, <1>4, <1>5
     DEF SchemaInductive, StartsCounted, LeftToDo, BackupFirst, ShapeGrows, RestorePointKept, Restorable, HasCopy,
         Standing, Stands, Todo

LEMMA SchemaStarts == SchemaInit => SchemaInductive
<1> SUFFICES ASSUME SchemaInit PROVE SchemaInductive
  OBVIOUS
<1>1. /\ Whole \in Shape /\ origin \in Shape /\ (origin # Whole => origin.columns < Columns)
      /\ origin.index # "none" /\ Columns \in Nat
  BY SchemaAssumption DEF SchemaInit, Whole, Shape
<1>2. /\ db = [there |-> origin # Whole, shape |-> origin, seeded |-> FALSE] /\ folder = <<>>
      /\ past = [starts |-> 0, due |-> 0, spared |-> FALSE]
      /\ \A p \in Starter : starter[p] = [pc |-> "down", todo |-> Whole]
  BY DEF SchemaInit
<1>3. rows \in [Record -> InstanceRow \union {NoRow}] /\ \A r \in Record : RowTold(r)
  <2>1. PICK x \in {NoRow, OldRow(FALSE)} : rows = [r \in Record |-> x]
    BY DEF SchemaInit
  <2>2. CASE x = NoRow
    BY <2>1, <2>2 DEF RowTold, Launched
  <2>3. CASE x = OldRow(FALSE)
    <3>1. x \in InstanceRow /\ x.login = NoLogin /\ x.built = Legacy
      BY <2>3, SchemaAssumption DEF OldRow, InstanceRow
    <3>2. QED
      BY <1>2, <2>1, <3>1 DEF RowTold, Launched, Stands
  <2>4. QED
    BY <2>2, <2>3
<1>4. SchemaTypeOK
  <2>1. 0 \in 0..MaxStarts
    BY SchemaAssumption
  <2>2. db \in [there : BOOLEAN, shape : Shape, seeded : BOOLEAN]
    BY <1>1, <1>2
  <2>3. starter \in [Starter -> Process]
    BY <1>1 DEF SchemaInit, Process
  <2>4. QED
    BY <1>1, <1>2, <1>3, <2>1, <2>2, <2>3 DEF SchemaTypeOK, Process
<1>5. StartsCounted
  <2>1. ASSUME NEW pcs, "down" \notin pcs
        PROVE  IsFiniteSet(Standing(pcs)) /\ Cardinality(Standing(pcs)) = 0
    <3>1. Standing(pcs) = {}
      BY <1>2, <2>1 DEF Standing
    <3>2. QED
      BY <3>1, FS_EmptySet
  <2>2. Len(folder) = 0 /\ past.due = 0 /\ past.starts = 0
    BY <1>2
  <2>3. QED
    BY <2>1, <2>2 DEF StartsCounted
<1>6. \A p \in Starter : LeftToDo(p) /\ BackupFirst(p)
  BY <1>2 DEF LeftToDo, BackupFirst, Stands
<1>7. ShapeGrows /\ RestorePointKept
  <2>1. db.shape = origin /\ (origin # Whole => db.there) /\ \A p \in Starter : Todo(p) = Whole
    <3>1. PICK there \in BOOLEAN : there <=> origin # Whole
      OBVIOUS
    <3>2. db = [there |-> there, shape |-> origin, seeded |-> FALSE]
      BY <1>2, <3>1, Zenon
    <3>3. db.shape = origin /\ (there <=> db.there)
      BY <3>2
    <3>4. QED
      BY <1>2, <3>1, <3>3 DEF Todo
  <2>2. origin.columns \in Nat
    BY <1>1 DEF Shape
  <2>3. QED
    BY <1>1, <2>1, <2>2 DEF ShapeGrows, RestorePointKept
<1>8. QED
  BY <1>3, <1>4, <1>5, <1>6, <1>7 DEF SchemaInductive

LEMMA SchemaSteps ==
  ASSUME SchemaInductive, [SchemaNext]_schemaVars
  PROVE  SchemaInductive'
<1>1. ASSUME NEW p \in Starter, Start(p) \/ CreateAll(p) \/ Look(p) \/ Settle(p) PROVE SchemaInductive'
  BY <1>1, StartStep, CreateAllStep, LookStep, SettleStep
<1>2. ASSUME NEW p \in Starter, Die(p) PROVE SchemaInductive'
  BY <1>2, Ends DEF Die
<1>3. ASSUME NEW p \in Starter, SaveNothing(p) \/ BeginSave(p) \/ Save(p) \/ SaveFails(p) PROVE SchemaInductive'
  BY <1>3, SaveNothingStep, BeginSaveStep, SaveStep, SaveFailsStep
<1>4. ASSUME NEW p \in Starter, AddColumn(p) \/ DropIndex(p) \/ CreateIndex(p) PROVE SchemaInductive'
  BY <1>4, AlterSteps
<1>5. ASSUME NEW r \in Record, Launch(r) \/ LaunchByOldRelease(r) PROVE SchemaInductive'
  BY <1>5, LaunchSteps
<1>6. CASE UNCHANGED schemaVars
  BY <1>6 DEF schemaVars, SchemaInductive, SchemaTypeOK, StartsCounted, LeftToDo, BackupFirst, ShapeGrows,
     RestorePointKept, Restorable, HasCopy, Standing, Stands, Todo, RowTold, Launched
<1>7. QED
  BY <1>1, <1>2, <1>3, <1>4, <1>5, <1>6 DEF SchemaNext

LEMMA SchemaInvariants == SchemaInductive => SchemaTypeOK /\ ServesMigrated /\ RestorePointKept
<1> SUFFICES ASSUME SchemaInductive, NEW p \in Starter, Stands(p, "up")
             PROVE  /\ db.there /\ db.seeded
                    /\ db.shape.columns = Columns /\ db.shape.index # "unique"
                    /\ \A r \in Record : Launched(r) => rows[r].login = rows[r].built /\ rows[r].filed
  BY DEF SchemaInductive, ServesMigrated
<1>1. LeftToDo(p) /\ \A r \in Record : RowTold(r)
  BY DEF SchemaInductive
<1>2. db.shape.columns \in 0..Columns /\ Columns \in Nat
  BY SchemaAssumption DEF SchemaInductive, SchemaTypeOK, Shape
<1>3. db.there /\ db.seeded /\ Columns <= db.shape.columns /\ db.shape.index # "unique"
  BY <1>1 DEF LeftToDo, Stands, Whole
<1>4. QED
  BY <1>1, <1>2, <1>3 DEF RowTold, Stands

\* A process that serves finds the whole schema and every row told and filed,
\* with any number of starts beside and before it, each of which may have
\* died anywhere (init_db).
THEOREM ServesWholeSchema == SchemaSpec => []ServesMigrated
<1>1. SchemaSpec => []SchemaInductive
  BY SchemaStarts, SchemaSteps, PTL DEF SchemaSpec
<1>2. QED
  BY <1>1, SchemaInvariants, PTL

\* An older database that was changed has a whole backup from before, unless
\* a backup failed, was spared or more starts than are kept had changes to
\* make (backup_database_file, _prune_backups).
THEOREM RestorePoint == SchemaSpec => []RestorePointKept
<1>1. SchemaSpec => []SchemaInductive
  BY SchemaStarts, SchemaSteps, PTL DEF SchemaSpec
<1>2. QED
  BY <1>1, SchemaInvariants, PTL

-----------------------------------------------------------------------------
(***************************************************************************)
(* The emulator that was measured                                          *)
(***************************************************************************)


\* While the memo is empty and nobody measures, nobody has measured.
MemoTellsOfProbe ==
  /\ engine.probes <= 1
  /\ engine.accel = "unset" /\ ~SomeoneIs("probing") => engine.probes = 0

\* A thread measures the build that is installed, unless it was told otherwise.
BegunWithInstalled ==
  \A q \in Asker : Doing(q, "probing") => asking[q].swapped \/ asking[q].of = emulator.build

\* An entry is stamped with the build that was measured.
StampIsOfMeasured ==
  entry.stored => entry.swapped \/ entry.stamp[2] \in {Untold, entry.of}

AcceleratorInductive ==
  AcceleratorTypeOK /\ MemoTellsOfProbe /\ BegunWithInstalled /\ StampIsOfMeasured

\* There is a build to start with.
LEMMA SomeBuild == (CHOOSE b \in Build : TRUE) \in Build
<1>1. PICK v \in Version, c \in Revision : TRUE
  BY AcceleratorAssumption
<1>2. <<v, c>> \in Build
  BY <1>1 DEF Build
<1>3. QED
  BY <1>2, Zenon

LEMMA NotAskingType == NotAsking \in Asking /\ NotAsking.pc = "idle"
BY SomeBuild DEF NotAsking, Asking

LEMMA ProbeCount == 0 \in 0..Cardinality(Asker) /\ (\A q \in Asker : 1 \in 0..Cardinality(Asker))
BY AcceleratorAssumption, FS_CardinalityType, FS_EmptySet

LEMMA AcceleratorStarts == AcceleratorInit => AcceleratorInductive
<1> SUFFICES ASSUME AcceleratorInit PROVE AcceleratorInductive
  OBVIOUS
<1>1. NewEngine \in Engine
  BY ProbeCount DEF NewEngine, Engine
<1>2. AcceleratorTypeOK
  <2>1. emulator \in Emulator
    BY SomeBuild DEF AcceleratorInit, Emulator
  <2>2. asking \in [Asker -> Asking] /\ \A q \in Asker : asking[q].pc = "idle"
    BY NotAskingType DEF AcceleratorInit
  <2>3. entry \in Entry /\ engine \in Engine /\ changes \in 0..MaxChanges
    BY <1>1, AcceleratorAssumption DEF AcceleratorInit, Entry
  <2>4. QED
    BY <2>1, <2>2, <2>3 DEF AcceleratorTypeOK
<1>3. MemoTellsOfProbe /\ BegunWithInstalled /\ StampIsOfMeasured
  BY NotAskingType DEF AcceleratorInit, MemoTellsOfProbe, BegunWithInstalled, StampIsOfMeasured, NewEngine, NoEntry, Doing, SomeoneIs
<1>4. QED
  BY <1>2, <1>3 DEF AcceleratorInductive

\* What is loaded was measured with the build that is installed.
LEMMA LoadedIsMeasured == AcceleratorInductive => MeasuredOnce
<1> SUFFICES ASSUME AcceleratorInductive, NEW v \in {emulator.build[1], Untold}, Loads(v)
             PROVE  entry.swapped \/ ~emulator.found \/ entry.of = emulator.build
  BY DEF AcceleratorInductive, MemoTellsOfProbe, MeasuredOnce
<1>1. SUFFICES ASSUME emulator.found, ~entry.swapped
               PROVE  entry.of = emulator.build
  OBVIOUS
<1>2. entry.stored /\ entry.stamp[2] = emulator.build
  BY <1>1 DEF Loads, Identity
<1>3. emulator.build # Untold
  BY AcceleratorAssumption DEF AcceleratorInductive, AcceleratorTypeOK, Emulator, Build
<1>4. QED
  BY <1>1, <1>2, <1>3 DEF AcceleratorInductive, StampIsOfMeasured

LEMMA AcceleratorSteps ==
  ASSUME AcceleratorInductive, [AcceleratorNext]_acceleratorVars
  PROVE  AcceleratorInductive'
<1>a. /\ emulator \in Emulator /\ entry \in Entry /\ engine \in Engine
      /\ asking \in [Asker -> Asking]
      /\ changes \in 0..MaxChanges
      /\ \A q, r \in Asker : q # r /\ asking[q].pc = asking[r].pc => asking[q].pc \in {"idle", "waiting"}
  BY DEF AcceleratorInductive, AcceleratorTypeOK
<1>b. MemoTellsOfProbe /\ BegunWithInstalled /\ StampIsOfMeasured
  BY DEF AcceleratorInductive
<1>c. MaxChanges \in Nat
  BY AcceleratorAssumption
\* A turn of one thread that leaves its record of what it measures.
<1>d. ASSUME NEW q \in Asker, NEW pc \in {"idle", "waiting", "probing", "checking"}, Turn(q, pc),
             pc \in {"idle", "waiting"} \/ ~SomeoneIs(pc)
      PROVE  /\ asking' \in [Asker -> Asking]
             /\ asking'[q] = [asking[q] EXCEPT !.pc = pc]
             /\ \A r \in Asker \ {q} : asking'[r] = asking[r]
             /\ \A p, r \in Asker : p # r /\ asking'[p].pc = asking'[r].pc => asking'[p].pc \in {"idle", "waiting"}
  BY <1>d, <1>a DEF Turn, Asking, SomeoneIs, Doing
<1>e. ASSUME NEW q \in Asker, NEW pc \in {"idle", "waiting", "checking"}, Turn(q, pc),
             pc = "checking" => ~SomeoneIs(pc),
             UNCHANGED <<emulator, entry, changes>>, engine' \in Engine,
             engine'.probes = engine.probes,
             engine'.accel = "unset" => engine.accel = "unset" /\ asking[q].pc # "probing"
      PROVE  AcceleratorInductive'
  <2>1. /\ asking' \in [Asker -> Asking]
        /\ asking'[q] = [asking[q] EXCEPT !.pc = pc]
        /\ \A r \in Asker \ {q} : asking'[r] = asking[r]
        /\ \A p, r \in Asker : p # r /\ asking'[p].pc = asking'[r].pc => asking'[p].pc \in {"idle", "waiting"}
    BY <1>d, <1>e
  <2>2. asking'[q].pc = pc /\ pc # "probing"
    BY <2>1, <1>a DEF Asking
  <2>3. AcceleratorTypeOK'
    BY <1>a, <1>e, <2>1 DEF AcceleratorTypeOK
  <2>4. MemoTellsOfProbe'
    BY <1>a, <1>b, <1>e, <2>1, <2>2 DEF MemoTellsOfProbe, SomeoneIs, Doing
  <2>5. BegunWithInstalled'
    BY <1>b, <1>e, <2>1, <2>2 DEF BegunWithInstalled, Doing
  <2>6. StampIsOfMeasured'
    BY <1>b, <1>e DEF StampIsOfMeasured
  <2>7. QED
    BY <2>3, <2>4, <2>5, <2>6 DEF AcceleratorInductive
<1>1. ASSUME NEW q \in Asker, AskAccel(q) PROVE AcceleratorInductive'
  BY <1>1, <1>a, <1>e DEF AskAccel, Doing
<1>2. ASSUME NEW q \in Asker, Answered(q) PROVE AcceleratorInductive'
  BY <1>2, <1>a, <1>e DEF Answered, Doing
<1>3. ASSUME NEW q \in Asker, NoneHere(q) PROVE AcceleratorInductive'
  <2>1. engine' \in Engine /\ engine'.probes = engine.probes /\ engine'.accel # "unset"
    BY <1>3, <1>a DEF NoneHere, Engine
  <2>2. QED
    BY <1>3, <1>e, <2>1 DEF NoneHere
<1>4. ASSUME NEW q \in Asker, TakeStored(q) PROVE AcceleratorInductive'
  <2>1. engine' \in Engine /\ engine'.probes = engine.probes /\ engine'.accel # "unset"
    BY <1>4, <1>a DEF TakeStored, Engine
  <2>2. QED
    BY <1>4, <1>e, <2>1 DEF TakeStored
<1>5. ASSUME NEW q \in Asker, BeginProbe(q) PROVE AcceleratorInductive'
  <2>1. engine.probes = 0 /\ ~SomeoneIs("probing")
    BY <1>5, <1>b DEF BeginProbe, TakeLock, MemoTellsOfProbe
  <2>2. engine' \in Engine /\ engine'.probes = 1
    <3>1. Measured \in Engine /\ Measured.probes = 1
      BY <2>1, <1>a, ProbeCount DEF Measured, Engine
    <3>2. QED
      BY <1>5, <3>1 DEF BeginProbe, Engine
  <2>3. asking' = [asking EXCEPT ![q] = [pc |-> "probing", of |-> emulator.build,
                                         works |-> emulator.works /\ emulator.runs, swapped |-> FALSE]]
        /\ UNCHANGED <<emulator, entry, changes>>
    BY <1>5 DEF BeginProbe
  <2>4. [pc |-> "probing", of |-> emulator.build, works |-> emulator.works /\ emulator.runs, swapped |-> FALSE] \in Asking
    BY <1>a DEF Asking, Emulator
  <2>5. AcceleratorTypeOK'
    BY <2>1, <2>2, <2>3, <2>4, <1>a DEF AcceleratorTypeOK, SomeoneIs, Doing
  <2>6. MemoTellsOfProbe'
    BY <2>2, <2>3, <1>a DEF MemoTellsOfProbe, SomeoneIs, Doing
  <2>7. BegunWithInstalled'
    BY <2>1, <2>3, <1>a DEF BegunWithInstalled, SomeoneIs, Doing
  <2>8. StampIsOfMeasured'
    BY <2>3, <1>b DEF StampIsOfMeasured
  <2>9. QED
    BY <2>5, <2>6, <2>7, <2>8 DEF AcceleratorInductive
<1>6. ASSUME NEW q \in Asker, Operational(q) PROVE AcceleratorInductive'
  <2>1. PICK v \in Version \union {Untold} :
          /\ engine' = [engine EXCEPT !.accel = "hardware", !.version = v]
          /\ entry' \in {entry, [stored |-> TRUE, stamp |-> Identity(v), fresh |-> TRUE,
                                 of |-> asking[q].of, swapped |-> asking[q].swapped]}
    BY <1>6 DEF Operational
  <2>2. engine' \in Engine /\ engine'.probes = engine.probes /\ engine'.accel # "unset"
    BY <2>1, <1>a DEF Engine
  <2>3. Identity(v) \in (Version \union {Untold}) \X (Build \union {Untold})
    BY <1>a DEF Identity, Emulator
  <2>4. [stored |-> TRUE, stamp |-> Identity(v), fresh |-> TRUE,
         of |-> asking[q].of, swapped |-> asking[q].swapped] \in Entry
    BY <2>3, <1>a DEF Entry, Asking
  <2>5. entry' \in Entry
    BY <2>1, <2>4, <1>a
  <2>6. Turn(q, "idle") /\ UNCHANGED <<emulator, changes>> /\ Doing(q, "probing")
    BY <1>6 DEF Operational
  <2>7. /\ asking' \in [Asker -> Asking]
        /\ asking'[q] = [asking[q] EXCEPT !.pc = "idle"]
        /\ \A r \in Asker \ {q} : asking'[r] = asking[r]
        /\ \A p, r \in Asker : p # r /\ asking'[p].pc = asking'[r].pc => asking'[p].pc \in {"idle", "waiting"}
    BY <1>d, <2>6
  <2>8. asking'[q].pc = "idle"
    BY <2>7, <1>a DEF Asking
  <2>9. AcceleratorTypeOK'
    BY <1>a, <2>2, <2>5, <2>6, <2>7 DEF AcceleratorTypeOK
  <2>10. MemoTellsOfProbe'
    BY <1>b, <2>2 DEF MemoTellsOfProbe
  <2>11. BegunWithInstalled'
    BY <1>b, <2>6, <2>7, <2>8 DEF BegunWithInstalled, Doing
  <2>12. asking[q].swapped \/ asking[q].of = emulator.build
    BY <2>6, <1>b DEF BegunWithInstalled
  <2>13. Identity(v)[2] \in {Untold, emulator.build}
    BY DEF Identity
  <2>14. StampIsOfMeasured'
    BY <2>1, <2>12, <2>13, <1>b DEF StampIsOfMeasured
  <2>15. QED
    BY <2>9, <2>10, <2>11, <2>14 DEF AcceleratorInductive
<1>7. ASSUME NEW q \in Asker, NotOperational(q) PROVE AcceleratorInductive'
  <2>1. engine' \in Engine /\ engine'.probes = engine.probes /\ engine'.accel # "unset"
    BY <1>7, <1>a DEF NotOperational, Engine
  <2>2. QED
    BY <1>7, <1>e, <2>1 DEF NotOperational
<1>8. ASSUME NEW q \in Asker, CheckAvailable(q) PROVE AcceleratorInductive'
  BY <1>8, <1>a, <1>e DEF CheckAvailable, Doing
<1>9. ASSUME NEW q \in Asker, MeasureAvailability(q) PROVE AcceleratorInductive'
  <2>1. engine' \in Engine /\ engine'.probes = engine.probes /\ engine'.accel = engine.accel
    BY <1>9, <1>a DEF MeasureAvailability, Engine
  <2>2. QED
    BY <1>9, <1>e, <2>1 DEF MeasureAvailability, Doing
<1>10. ASSUME NEW q \in Asker, Support(q) PROVE AcceleratorInductive'
  <2>1. engine' \in Engine /\ engine'.probes = engine.probes /\ engine'.accel = engine.accel
    BY <1>10, <1>a DEF Support, Engine, Emulator, Build
  <2>2. QED
    BY <1>10, <1>a, <1>b, <2>1
       DEF Support, AcceleratorInductive, AcceleratorTypeOK, MemoTellsOfProbe, BegunWithInstalled, StampIsOfMeasured, SomeoneIs, Doing
<1>11. CASE LaunchFails
  BY <1>11, <1>a, <1>b
     DEF LaunchFails, NoEntry, Entry, AcceleratorInductive, AcceleratorTypeOK, MemoTellsOfProbe, BegunWithInstalled, StampIsOfMeasured, SomeoneIs, Doing
<1>12. ASSUME NEW b \in Build, Install(b) PROVE AcceleratorInductive'
  <2>1. emulator' \in Emulator /\ changes' \in 0..MaxChanges /\ UNCHANGED <<entry, engine>>
    BY <1>12, <1>a, <1>c DEF Install, Change, Emulator
  <2>2. asking' = [q \in Asker |-> [asking[q] EXCEPT !.swapped = @ \/ Doing(q, "probing")]]
    BY <1>12 DEF Install
  <2>3. asking' \in [Asker -> Asking]
    BY <2>2, <1>a DEF Asking, Doing
  <2>4. \A q \in Asker : asking'[q].pc = asking[q].pc /\ (asking[q].pc = "probing" => asking'[q].swapped)
    BY <2>2, <1>a DEF Asking, Doing
  <2>5. QED
    BY <2>1, <2>3, <2>4, <1>a, <1>b
       DEF AcceleratorInductive, AcceleratorTypeOK, MemoTellsOfProbe, BegunWithInstalled, StampIsOfMeasured, SomeoneIs, Doing
<1>13. CASE Toggle
  <2>1. /\ emulator' \in Emulator /\ emulator'.build = emulator.build /\ changes' \in 0..MaxChanges
        /\ UNCHANGED <<entry, engine, asking>>
    <3>1. changes' \in 0..MaxChanges /\ UNCHANGED <<entry, engine, asking>>
      BY <1>13, <1>a, <1>c DEF Toggle, Change
    <3>2. CASE emulator' = [emulator EXCEPT !.works = ~@]
      BY <3>1, <3>2, <1>a DEF Emulator
    <3>3. CASE emulator' = [emulator EXCEPT !.runs = ~@]
      BY <3>1, <3>3, <1>a DEF Emulator
    <3>4. QED
      BY <1>13, <3>2, <3>3 DEF Toggle
  <2>2. QED
    BY <2>1, <1>a, <1>b
       DEF AcceleratorInductive, AcceleratorTypeOK, MemoTellsOfProbe, BegunWithInstalled, StampIsOfMeasured, SomeoneIs, Doing
<1>14. CASE Clock
  <2>1. changes' \in 0..MaxChanges /\ UNCHANGED <<emulator, engine, asking>>
    BY <1>14, <1>c, <1>a DEF Clock, Change
  <2>2. /\ entry' \in Entry /\ entry.stored /\ entry'.stored
        /\ entry'.stamp = entry.stamp /\ entry'.of = entry.of /\ entry'.swapped = entry.swapped
    BY <1>14, <1>a DEF Clock, Entry, NoEntry
  <2>3. QED
    BY <2>1, <2>2, <1>a, <1>b
       DEF AcceleratorInductive, AcceleratorTypeOK, MemoTellsOfProbe, BegunWithInstalled, StampIsOfMeasured, SomeoneIs, Doing
<1>15. CASE AvailabilityAges
  <2>1. engine' \in Engine /\ engine'.probes = engine.probes /\ engine'.accel = engine.accel
    BY <1>15, <1>a DEF AvailabilityAges, Engine
  <2>2. QED
    BY <1>15, <2>1, <1>a, <1>b
       DEF AvailabilityAges, AcceleratorInductive, AcceleratorTypeOK, MemoTellsOfProbe, BegunWithInstalled, StampIsOfMeasured, SomeoneIs, Doing
<1>16. CASE RestartBackend
  <2>1. NewEngine \in Engine /\ NewEngine.probes = 0
    BY ProbeCount DEF NewEngine, Engine
  <2>2. changes' \in 0..MaxChanges
    BY <1>16, <1>a, <1>c DEF RestartBackend, Change
  <2>3. asking' \in [Asker -> Asking] /\ \A q \in Asker : asking'[q].pc = "idle"
    BY <1>16, NotAskingType DEF RestartBackend
  <2>4. QED
    BY <1>16, <2>1, <2>2, <2>3, <1>a, <1>b
       DEF RestartBackend, AcceleratorInductive, AcceleratorTypeOK, MemoTellsOfProbe, BegunWithInstalled, StampIsOfMeasured, SomeoneIs, Doing
<1>17. CASE UNCHANGED acceleratorVars
  BY <1>17, <1>a, <1>b
     DEF acceleratorVars, AcceleratorInductive, AcceleratorTypeOK, MemoTellsOfProbe, BegunWithInstalled, StampIsOfMeasured, SomeoneIs, Doing
<1>18. QED
  BY <1>1, <1>2, <1>3, <1>4, <1>5, <1>6, <1>7, <1>8, <1>9, <1>10, <1>11, <1>12, <1>13, <1>14, <1>15, <1>16, <1>17
     DEF AcceleratorNext

\* One probe measures a build for a process, and what was measured with a
\* build that is gone is not taken for this one (accelerator.py).
THEOREM OneMeasurement == AcceleratorSpec => []MeasuredOnce
<1>1. AcceleratorSpec => []AcceleratorInductive
  BY AcceleratorStarts, AcceleratorSteps, PTL DEF AcceleratorSpec
<1>2. QED
  BY <1>1, LoadedIsMeasured, PTL

-----------------------------------------------------------------------------
(***************************************************************************)
(* The service                                                             *)
(***************************************************************************)


\* A step of an install acts on the unit that was written; the last one on
\* what systemd has read of it.  An install that is done leaves no step.
Underway ==
  /\ command.pc \in {"reload", "enable", "restart"} => unit.file \in Path
  /\ command.pc = "restart" => unit.loaded = unit.file /\ unit.enabled
  /\ done.path # NoPath => command.pc = "idle"

\* The command that was installed is still there, or a later release of it.
NoOlder == done.path # NoPath => done.release <= installed[done.path]

ServiceInductive == ServiceTypeOK /\ Underway /\ NoOlder /\ InstallTakesEffect

LEMMA ServiceStarts == ServiceInit => ServiceInductive
BY ServiceAssumption
   DEF ServiceInit, ServiceInductive, ServiceTypeOK, Underway, NoOlder, InstallTakesEffect, Unit, NoUnit,
       Running, Down, Release, Place, NotDone

\* A backend started from a path where the command is installed.
LEMMA StartedType ==
  ASSUME ServiceTypeOK, NEW p \in Path
  PROVE  /\ Started(p) \in Running
         /\ Started(p).pc = "starting" /\ Started(p).path = p /\ Started(p).release = installed[p]
BY DEF ServiceTypeOK, Started, Running, Release

\* Putting a backend that does not listen in a place.
LEMMA Replaced ==
  ASSUME ServiceTypeOK, NEW x \in Place, NEW r \in Running, r.pc # "listening",
         proc' = [proc EXCEPT ![x] = r]
  PROVE  /\ proc' \in [Place -> Running]
         /\ proc'[x] = r
         /\ \A y, z \in Place : proc'[y].pc = "listening" /\ proc'[z].pc = "listening" => y = z
BY DEF ServiceTypeOK

LEMMA ServiceSteps ==
  ASSUME ServiceInductive, [ServiceNext]_serviceVars
  PROVE  ServiceInductive'
<1> USE ServiceAssumption DEF Release
<1>a. /\ unit \in Unit /\ installed \in [Path -> 0..MaxReleases] /\ proc \in [Place -> Running]
      /\ command \in [pc : {"idle", "reload", "enable", "restart", "disable", "unlink", "forget"},
                      left : 0..MaxCommands]
      /\ done \in [path : Path \union {NoPath}, release : 0..MaxReleases]
      /\ \A x, y \in Place : proc[x].pc = "listening" /\ proc[y].pc = "listening" => x = y
  BY DEF ServiceInductive, ServiceTypeOK
<1>b. "unit" \in Place /\ "terminal" \in Place /\ Down \in Running /\ NotDone.path = NoPath
      /\ NotDone \in [path : Path \union {NoPath}, release : 0..MaxReleases]
  BY DEF Place, Down, Running, NotDone
<1>c. Underway /\ NoOlder /\ InstallTakesEffect
  BY DEF ServiceInductive
<1> DEFINE Kept == ServiceInductive'
<1>1. ASSUME NEW p \in Path, InstallUnit(p) PROVE Kept
  BY <1>1, <1>a, <1>b DEF InstallUnit, Take, ServiceInductive, ServiceTypeOK, Underway, NoOlder, InstallTakesEffect, Unit
<1>2. CASE Reload
  BY <1>2, <1>a, <1>b, <1>c DEF Reload, Performs, NextStep, GiveUp, ServiceInductive, ServiceTypeOK, Underway, NoOlder, InstallTakesEffect, Unit
<1>3. CASE Enable
  BY <1>3, <1>a, <1>b, <1>c, ZenonT(60) DEF Enable, Performs, NextStep, GiveUp, ServiceInductive, ServiceTypeOK, Underway, NoOlder, InstallTakesEffect, Unit
<1>4. CASE FinishInstall
  <2>1. CASE RestartUnit /\ command' = [command EXCEPT !.pc = "idle"]
             /\ done' = [path |-> unit.file, release |-> installed[unit.file]] /\ UNCHANGED installed
    <3>1. unit.file \in Path /\ unit.loaded = unit.file /\ unit.enabled
      BY <1>4, <1>c DEF FinishInstall, Performs, Underway
    <3>2. /\ Started(unit.loaded) \in Running
          /\ Started(unit.loaded).pc = "starting" /\ Started(unit.loaded).path = unit.file
          /\ Started(unit.loaded).release = installed[unit.file]
      BY <3>1, StartedType DEF ServiceInductive
    <3>3. /\ proc' \in [Place -> Running] /\ proc'["unit"] = Started(unit.loaded)
          /\ \A y, z \in Place : proc'[y].pc = "listening" /\ proc'[z].pc = "listening" => y = z
      BY <2>1, <3>2, <1>b, Replaced DEF RestartUnit, ServiceInductive
    <3>4. unit' \in Unit /\ unit' = [unit EXCEPT !.wanted = TRUE]
      BY <2>1, <1>a DEF RestartUnit, Unit
    <3>5. installed[unit.file] \in 0..MaxReleases
      BY <3>1, <1>a
    <3>6. ServiceTypeOK'
      BY <2>1, <3>1, <3>3, <3>4, <3>5, <1>a DEF ServiceTypeOK
    <3>7. Underway' /\ NoOlder'
      BY <2>1, <3>1, <3>4, <3>5, <1>a DEF Underway, NoOlder
    <3>8. InstallTakesEffect'
      BY <2>1, <3>1, <3>2, <3>3, <3>4, <3>5, <1>a DEF InstallTakesEffect, Unit
    <3>9. QED
      BY <3>6, <3>7, <3>8 DEF ServiceInductive
  <2>2. CASE RestartFails /\ GiveUp /\ UNCHANGED installed
    BY <1>4, <2>2, <1>a, <1>b, <1>c DEF FinishInstall, Performs, RestartFails, NextStep, GiveUp, Down, ServiceInductive, ServiceTypeOK, Underway, NoOlder, InstallTakesEffect, Unit
  <2>3. QED
    BY <1>4, <2>1, <2>2 DEF FinishInstall
<1>5. CASE Uninstall
  BY <1>5, <1>a, <1>b DEF Uninstall, Take, ServiceInductive, ServiceTypeOK, Underway, NoOlder, InstallTakesEffect, Unit
<1>6. CASE Disable
  <2>1. done.path = NoPath /\ done' = done /\ UNCHANGED installed
    BY <1>6, <1>c DEF Disable, Performs, NextStep, GiveUp, Underway
  <2>2. /\ unit' \in Unit /\ unit'.file = unit.file
        /\ command' \in [pc : {"idle", "reload", "enable", "restart", "disable", "unlink", "forget"}, left : 0..MaxCommands]
        /\ command'.pc \in {"idle", "unlink"}
    BY <1>6, <1>a DEF Disable, NextStep, GiveUp, Unit
  <2>3. Down.pc # "listening"
    BY DEF Down
  <2>4. /\ proc' \in [Place -> Running]
        /\ \A y, z \in Place : proc'[y].pc = "listening" /\ proc'[z].pc = "listening" => y = z
    <3>1. CASE proc' = [proc EXCEPT !["unit"] = Down]
      BY <3>1, <2>3, <1>b, Replaced DEF ServiceInductive
    <3>2. CASE UNCHANGED proc
      BY <3>2, <1>a
    <3>3. QED
      BY <1>6, <3>1, <3>2 DEF Disable
  <2>5. QED
    BY <2>1, <2>2, <2>4, <1>a DEF ServiceInductive, ServiceTypeOK, Underway, NoOlder, InstallTakesEffect
<1>7. CASE Unlink
  BY <1>7, <1>a, <1>b, <1>c DEF Unlink, Performs, NextStep, ServiceInductive, ServiceTypeOK, Underway, NoOlder, InstallTakesEffect, Unit
<1>8. CASE Forget
  BY <1>8, <1>a, <1>b, <1>c DEF Forget, Performs, NextStep, GiveUp, ServiceInductive, ServiceTypeOK, Underway, NoOlder, InstallTakesEffect, Unit
<1>9. CASE RestartService
  <2>1. CASE RestartUnit
    <3>1. unit.loaded \in Path
      BY <1>9, <1>a DEF RestartService, Unit
    <3>2. /\ Started(unit.loaded) \in Running
          /\ Started(unit.loaded).pc = "starting" /\ Started(unit.loaded).path = unit.loaded
          /\ Started(unit.loaded).release = installed[unit.loaded]
      BY <3>1, StartedType DEF ServiceInductive
    <3>3. /\ proc' \in [Place -> Running] /\ proc'["unit"] = Started(unit.loaded)
          /\ \A y, z \in Place : proc'[y].pc = "listening" /\ proc'[z].pc = "listening" => y = z
      BY <2>1, <3>2, <1>b, Replaced DEF RestartUnit, ServiceInductive
    <3>4. unit' \in Unit /\ unit' = [unit EXCEPT !.wanted = TRUE]
      BY <2>1, <1>a DEF RestartUnit, Unit
    <3>5. ServiceTypeOK'
      BY <1>9, <3>3, <3>4, <1>a DEF RestartService, ServiceTypeOK
    <3>6. Underway' /\ NoOlder'
      BY <1>9, <3>4, <1>a, <1>c DEF RestartService, Underway, NoOlder, Unit
    <3>7. InstallTakesEffect'
      BY <1>9, <3>2, <3>3, <3>4, <1>a, <1>c DEF RestartService, InstallTakesEffect, NoOlder, Unit
    <3>8. QED
      BY <3>5, <3>6, <3>7 DEF ServiceInductive
  <2>2. CASE RestartFails
    BY <1>9, <2>2, <1>a, <1>b, <1>c DEF RestartService, RestartFails, Down, ServiceInductive, ServiceTypeOK, Underway, NoOlder, InstallTakesEffect, Unit
  <2>3. QED
    BY <1>9, <2>1, <2>2 DEF RestartService
<1>10. CASE CutShort
  BY <1>10, <1>a, <1>b, <1>c DEF CutShort, NextStep, GiveUp, ServiceInductive, ServiceTypeOK, Underway, NoOlder, InstallTakesEffect, Unit
<1>11. ASSUME NEW p \in Path, Serve(p) PROVE Kept
  <2>1. Started(p) \in Running /\ Started(p).pc = "starting"
    BY StartedType DEF ServiceInductive
  <2>2. proc'["unit"] = proc["unit"]
    BY <1>11, <1>a, <1>b DEF Serve
  <2>3. QED
    BY <1>11, <2>1, <2>2, <1>a, <1>b, <1>c DEF Serve, ServiceInductive, ServiceTypeOK, Underway, NoOlder, InstallTakesEffect
<1>12. ASSUME NEW x \in Place, Bind(x) PROVE Kept
  <2>1. proc' \in [Place -> Running]
    BY <1>12, <1>a, <1>b DEF Bind, Running
  <2>2. \A y, z \in Place : proc'[y].pc = "listening" /\ proc'[z].pc = "listening" => y = z
    BY <1>12, <1>a, <1>b DEF Bind, Listening, Running, Down
  <2>3. InstallTakesEffect'
    BY <1>12, <1>a, <1>b, <1>c DEF Bind, Running, Down, InstallTakesEffect
  <2>4. QED
    BY <1>12, <2>1, <2>2, <2>3, <1>a, <1>c DEF Bind, ServiceInductive, ServiceTypeOK, Underway, NoOlder
<1>13. ASSUME NEW x \in Place, Exit(x) PROVE Kept
  BY <1>13, <1>a, <1>b, <1>c DEF Exit, Down, ServiceInductive, ServiceTypeOK, Underway, NoOlder, InstallTakesEffect
<1>14. CASE StartAgain
  <2>1. unit.loaded \in Path
    BY <1>14, <1>a DEF StartAgain, Unit
  <2>2. /\ Started(unit.loaded) \in Running
        /\ Started(unit.loaded).pc = "starting" /\ Started(unit.loaded).path = unit.loaded
        /\ Started(unit.loaded).release = installed[unit.loaded]
    BY <2>1, StartedType DEF ServiceInductive
  <2>3. QED
    BY <1>14, <2>1, <2>2, <1>a, <1>b, <1>c DEF StartAgain, ServiceInductive, ServiceTypeOK, Underway, NoOlder, InstallTakesEffect
<1>15. CASE LogIn
  <2>1. unit.file # NoPath => unit.file \in Path
    BY <1>a DEF Unit
  <2>2. unit.file # NoPath =>
        /\ Started(unit.file) \in Running
        /\ Started(unit.file).pc = "starting" /\ Started(unit.file).path = unit.file
        /\ Started(unit.file).release = installed[unit.file]
    BY <2>1, StartedType DEF ServiceInductive
  <2>3. QED
    BY <1>15, <2>1, <2>2, <1>a, <1>b, <1>c DEF LogIn, Down, ServiceInductive, ServiceTypeOK, Underway, NoOlder, InstallTakesEffect, Unit
<1>16. ASSUME NEW p \in Path, Upgrade(p) PROVE Kept
  BY <1>16, <1>a, <1>b, <1>c DEF Upgrade, ServiceInductive, ServiceTypeOK, Underway, NoOlder, InstallTakesEffect
<1>17. CASE UNCHANGED serviceVars
  BY <1>17 DEF serviceVars, ServiceInductive, ServiceTypeOK, Underway, NoOlder, InstallTakesEffect
<1>18. QED
  BY <1>1, <1>2, <1>3, <1>4, <1>5, <1>6, <1>7, <1>8, <1>9, <1>10, <1>11, <1>12, <1>13, <1>14, <1>15, <1>16, <1>17 DEF ServiceNext

\* After an install the service runs what was installed, whatever ran before
\* (service.py).
THEOREM InstallHolds == ServiceSpec => []InstallTakesEffect
<1>1. ServiceSpec => []ServiceInductive
  BY ServiceStarts, ServiceSteps, PTL DEF ServiceSpec
<1>2. QED
  BY <1>1, PTL DEF ServiceInductive

-----------------------------------------------------------------------------
(***************************************************************************)
(* All of it                                                               *)
(***************************************************************************)

ControlInductive == KeyringInductive /\ AcceleratorInductive /\ SchemaInductive /\ ServiceInductive

LEMMA ControlSteps ==
  ASSUME ControlInductive, [ControlNext]_controlVars
  PROVE  ControlInductive'
<1>1. CASE UNCHANGED controlVars
  BY <1>1, KeyringSteps, AcceleratorSteps, SchemaSteps, ServiceSteps DEF ControlInductive, controlVars
<1>2. CASE KeyringNext /\ UNCHANGED <<acceleratorVars, schemaVars, serviceVars>>
  BY <1>2, KeyringSteps, AcceleratorSteps, SchemaSteps, ServiceSteps DEF ControlInductive
<1>3. CASE AcceleratorNext /\ UNCHANGED <<keyringVars, schemaVars, serviceVars>>
  BY <1>3, KeyringSteps, AcceleratorSteps, SchemaSteps, ServiceSteps DEF ControlInductive
<1>4. CASE SchemaNext /\ UNCHANGED <<keyringVars, acceleratorVars, serviceVars>>
  BY <1>4, KeyringSteps, AcceleratorSteps, SchemaSteps, ServiceSteps DEF ControlInductive
<1>5. CASE ServiceNext /\ UNCHANGED <<keyringVars, acceleratorVars, schemaVars>>
  BY <1>5, KeyringSteps, AcceleratorSteps, SchemaSteps, ServiceSteps DEF ControlInductive
<1>6. QED
  BY <1>1, <1>2, <1>3, <1>4, <1>5 DEF ControlNext

\* Everything that TLC checks of the four parts side by side: their types,
\* and the promises of each.
THEOREM Control == ControlSpec => /\ []ControlTypeOK
                                  /\ []OutIsOut /\ []LockoutHolds /\ []MeasuredOnce
                                  /\ []ServesMigrated /\ []RestorePointKept /\ []InstallTakesEffect
<1>1. ControlInit => ControlInductive
  BY KeyringStarts, AcceleratorStarts, SchemaStarts, ServiceStarts DEF ControlInit, ControlInductive
<1>2. ControlInductive => /\ ControlTypeOK
                          /\ OutIsOut /\ LockoutHolds /\ MeasuredOnce
                          /\ ServesMigrated /\ RestorePointKept /\ InstallTakesEffect
  BY KeyringInvariants, LoadedIsMeasured, SchemaInvariants
     DEF ControlInductive, ControlTypeOK, AcceleratorInductive, ServiceInductive
<1>3. ControlSpec => []ControlInductive
  BY <1>1, ControlSteps, PTL DEF ControlSpec
<1>4. QED
  BY <1>2, <1>3, PTL
=============================================================================
