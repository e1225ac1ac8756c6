--------------------------- MODULE LaunchesProofs ---------------------------
(***************************************************************************)
(* Proofs about Launches, for every value of its constants.                *)
(*                                                                         *)
(* Nothing in the code holds a lock over an image, a project or a key, so  *)
(* the three promises rest on what each desk still knows when it acts, and *)
(* on the order in which a job takes its parts.  LaunchesInductive says    *)
(* that, in five parts: what desks and jobs carry (Desks, Jobs), what may  *)
(* be in the store and who looks after whose file (Files, Watched), what a *)
(* measurement still covers (Covered), and which keys a disk has (Keyed).  *)
(***************************************************************************)
EXTENDS Launches, FiniteSetTheorems, TLAPS

\* What a request carries: a delete never aims at the shipped image or the
\* default project, and the row to be inserted has the image its disk will
\* stand on, or the keys that the copied disk has.
Desks == \A c \in Client :
  /\ desk[c].pc \in {"unlinking", "dropping"} => desk[c].image \in Image \ {Builtin}
  /\ desk[c].pc = "moving" => desk[c].project # DefaultProject
  /\ desk[c].op = "launch" => desk[c].row.st = "Pending"
  /\ desk[c].row.overlay => desk[c].row.image \in Image
  /\ ~desk[c].row.overlay /\ desk[c].row.links # {} => desk[c].row.installed # {}

\* How far a job has come is what its row says.
Jobs == \A i \in Slot :
  /\ job[i] = "ready" => row[i].st = "Pending"
  /\ job[i] \in {"imaging", "fetching"} => row[i].st = "Provisioning"
  /\ row[i].overlay => row[i].image \in Image

\* Only two downloads at once leave holes in a file; one at a time works on
\* a base image that is not there yet.
Files ==
  /\ Builtin \notin importing
  /\ \A g \in Image \ {Builtin} : store[g].file # "holed"
  /\ tangled \/ ( /\ store[Builtin].file # "holed"
                  /\ \A i \in Slot : job[i] = "fetching" => store[Builtin].file = "none"
                  /\ \A i, k \in Slot : job[i] = "fetching" /\ job[k] = "fetching" => i = k )

\* An image whose file is about to go has no users but those that crossed.
Watched == \A c \in Client, i \in Slot :
  desk[c].pc = "unlinking" /\ Live(i) /\ row[i].image = desk[c].image => i \in crossed

\* What was measured is still there, as long as no room was taken beside it.
Covered == unchecked \/
  ( /\ Committed =< Room
    /\ reading # NoReading => reading + Committed =< Room
    /\ \A c \in Client : desk[c].pc \in {"measuring", "checked"} =>
         desk[c].seen \in Nat /\ desk[c].seen + Committed =< Room )

\* A disk that is past its seed, or a copy of one, has a key of its row's.
Keyed == \A i \in Slot :
  /\ \/ row[i].st \in {"Provisioning", "Running", "Stopped"}
     \/ job[i] = "ready" /\ ~row[i].overlay
  /\ row[i].links # {}
  => row[i].installed # {}

\* Rows that did not cross are filed.
Filed == DefaultProject \in projects /\ \A i \in Slot \ crossed : row[i].project \in projects

LaunchesInductive ==
  LaunchesTypeOK /\ Desks /\ Jobs /\ Files /\ Watched /\ BackingIsWhole /\ Covered /\ Keyed /\ Filed

-----------------------------------------------------------------------------
(***************************************************************************)
(* Room: how many instances hold memory.                                   *)
(***************************************************************************)

Holds(st) == st \in {"Pending", "Provisioning", "Running"}

LEMMA CommittedSet == Committed = Cardinality({i \in Slot : Holds(row[i].st)})
BY DEF Committed, Holds

LEMMA CommittedType == Committed \in Nat
<1> IsFiniteSet({i \in Slot : row[i].st \in {"Pending", "Provisioning", "Running"}})
  BY FS_Subset, LaunchesAssumption
<1> QED  BY FS_CardinalityType DEF Committed

LEMMA CommittedTypeNext == Committed' \in Nat
<1> IsFiniteSet({i \in Slot : row'[i].st \in {"Pending", "Provisioning", "Running"}})
  BY FS_Subset, LaunchesAssumption
<1> QED  BY FS_CardinalityType DEF Committed

\* If no row takes memory anew, no more is committed.
LEMMA Fewer ==
  ASSUME \A i \in Slot : Holds(row'[i].st) => Holds(row[i].st)
  PROVE  Committed' =< Committed
<1> DEFINE A == {i \in Slot : row[i].st \in {"Pending", "Provisioning", "Running"}}
           B == {i \in Slot : row'[i].st \in {"Pending", "Provisioning", "Running"}}
<1>1. IsFiniteSet(A)  BY FS_Subset, LaunchesAssumption
<1>2. B \subseteq A  BY DEF Holds
<1>3. Cardinality(B) =< Cardinality(A)
  <2> HIDE DEF A, B
  <2> QED  BY <1>1, <1>2, FS_Subset
<1> QED  BY <1>3 DEF Committed

\* One row that takes memory takes the room of one.
LEMMA OneMore ==
  ASSUME NEW i \in Slot, ~Holds(row[i].st),
         \A k \in Slot \ {i} : Holds(row'[k].st) => Holds(row[k].st)
  PROVE  Committed' =< Committed + 1
<1> DEFINE A == {k \in Slot : row[k].st \in {"Pending", "Provisioning", "Running"}}
           B == {k \in Slot : row'[k].st \in {"Pending", "Provisioning", "Running"}}
<1>1. IsFiniteSet(A)  BY FS_Subset, LaunchesAssumption
<1>2. B \subseteq A \union {i} /\ i \notin A  BY DEF Holds
<1>3. Cardinality(B) =< Cardinality(A) + 1
  <2> HIDE DEF A, B
  <2>1. IsFiniteSet(A \union {i}) /\ Cardinality(A \union {i}) = Cardinality(A) + 1
    BY <1>1, <1>2, FS_AddElement
  <2> QED  BY <1>2, <2>1, FS_Subset
<1> QED  BY <1>3 DEF Committed

-----------------------------------------------------------------------------
(***************************************************************************)
(* How a step moves: one row with its job, or one desk.                    *)
(***************************************************************************)

Job == {"none", "ready", "imaging", "fetching"}

\* A row that keeps its image, its project and its links, and takes no
\* memory that it did not have.
LEMMA RowMoves ==
  ASSUME LaunchesInductive, NEW i \in Slot, NEW r \in Row, NEW j \in Job,
         row' = [row EXCEPT ![i] = r], job' = [job EXCEPT ![i] = j],
         r.image = row[i].image, r.project = row[i].project,
         r.overlay => row[i].overlay,
         Holds(r.st) => Holds(row[i].st),
         r.st \notin {"none", "Terminated"} => Live(i),
         j = "ready" => r.st = "Pending",
         j \in {"imaging", "fetching"} => r.st = "Provisioning",
         /\ r.st \in {"Provisioning", "Running", "Stopped"} \/ (j = "ready" /\ ~r.overlay)
         /\ r.links # {}
         => r.installed # {},
         UNCHANGED <<desk, reading, projects, crossed, unchecked>>
  PROVE  /\ row' \in [Slot -> Row] /\ job' \in [Slot -> Job]
         /\ Desks' /\ Jobs' /\ Watched' /\ Covered' /\ Keyed' /\ Filed'
<1> USE DEF LaunchesInductive
<1>1. row' \in [Slot -> Row] /\ job' \in [Slot -> Job]
  BY DEF LaunchesTypeOK, Job
<1>2. /\ row'[i] = r /\ job'[i] = j
      /\ \A k \in Slot \ {i} : row'[k] = row[k] /\ job'[k] = job[k]
  BY DEF LaunchesTypeOK
<1>3. Desks'
  BY DEF Desks
<1>4. Jobs'
  BY <1>2 DEF Jobs
<1>5. Watched'
  BY <1>2 DEF Watched, Live
<1>6. Covered'
  <2>1. Committed' =< Committed
    BY <1>2, Fewer
  <2>2. CASE unchecked
    BY <2>2 DEF Covered
  <2>3. CASE ~unchecked
    <3>1. PICK a \in Nat : a = Committed  BY CommittedType
    <3>2. PICK b \in Nat : b = Committed'  BY CommittedTypeNext
    <3>3. b =< a  BY <2>1, <3>1, <3>2
    <3>4. a =< Room  BY <2>3, <3>1 DEF Covered
    <3>5. reading # NoReading => reading \in Nat /\ reading + a =< Room
      BY <2>3, <3>1 DEF Covered, LaunchesTypeOK
    <3>6. \A c \in Client : desk[c].pc \in {"measuring", "checked"} =>
             desk[c].seen \in Nat /\ desk[c].seen + a =< Room
      BY <2>3, <3>1 DEF Covered
    <3>7. b =< Room /\ (reading # NoReading => reading + b =< Room)
      BY <3>3, <3>4, <3>5, LaunchesAssumption
    <3>8. \A c \in Client : desk[c].pc \in {"measuring", "checked"} =>
             desk[c].seen \in Nat /\ desk[c].seen + b =< Room
      BY <3>3, <3>6, LaunchesAssumption
    <3> QED  BY <3>2, <3>7, <3>8 DEF Covered
  <2> QED  BY <2>2, <2>3
<1>7. Keyed'
  BY <1>2 DEF Keyed
<1>8. Filed'
  BY <1>2 DEF Filed
<1> QED  BY <1>1, <1>3, <1>4, <1>5, <1>6, <1>7, <1>8

\* What a request may carry.
Carries(r) ==
  /\ r.pc \in {"unlinking", "dropping"} => r.image \in Image \ {Builtin}
  /\ r.pc = "moving" => r.project # DefaultProject
  /\ r.op = "launch" => r.row.st = "Pending"
  /\ r.row.overlay => r.row.image \in Image
  /\ ~r.row.overlay /\ r.row.links # {} => r.row.installed # {}

LEMMA DeskMoves ==
  ASSUME LaunchesInductive, NEW c \in Client, NEW r \in Desk, Carries(r),
         desk' = [desk EXCEPT ![c] = r],
         r.pc = "unlinking" => \A i \in Slot : Live(i) /\ row[i].image = r.image => i \in crossed,
         r.pc \in {"measuring", "checked"} /\ ~unchecked =>
           r.seen \in Nat /\ r.seen + Committed =< Room,
         UNCHANGED <<row, reading, crossed, unchecked>>
  PROVE  desk' \in [Client -> Desk] /\ Desks' /\ Watched' /\ Covered'
<1> USE DEF LaunchesInductive
<1>1. desk' \in [Client -> Desk]
  BY DEF LaunchesTypeOK
<1>2. desk'[c] = r /\ \A k \in Client \ {c} : desk'[k] = desk[k]
  BY DEF LaunchesTypeOK
<1>3. Desks'
  BY <1>2 DEF Desks, Carries
<1>4. Watched'
  BY <1>2 DEF Watched, Live
<1>5. Covered'
  <2>1. Committed' = Committed
    BY DEF Committed
  <2> QED  BY <1>2, <2>1 DEF Covered
<1> QED  BY <1>1, <1>3, <1>4, <1>5

LEMMA EmptyDesk == NoDesk \in Desk /\ Carries(NoDesk) /\ NoRow \in Row
BY LaunchesAssumption DEF NoDesk, Desk, Carries, NoRow, Row, RowStatus

LEMMA Allowances ==
  ASSUME LaunchesTypeOK, Asked \/ Mishap \/ UNCHANGED allowance
  PROVE  allowance' \in [asked : 0..MaxAsked, mishaps : 0..MaxMishaps]
BY LaunchesAssumption DEF LaunchesTypeOK, Asked, Mishap

\* Nothing but a desk and the allowance changes.
LEMMA DeskOnly ==
  ASSUME LaunchesInductive, NEW c \in Client, NEW r \in Desk, Carries(r),
         desk' = [desk EXCEPT ![c] = r],
         r.pc = "unlinking" => \A i \in Slot : Live(i) /\ row[i].image = r.image => i \in crossed,
         r.pc \in {"measuring", "checked"} /\ ~unchecked =>
           r.seen \in Nat /\ r.seen + Committed =< Room,
         UNCHANGED <<shelf, row, job, reading, directory, history>>,
         allowance' \in [asked : 0..MaxAsked, mishaps : 0..MaxMishaps]
  PROVE  LaunchesInductive'
<1>1. desk' \in [Client -> Desk] /\ Desks' /\ Watched' /\ Covered'
  BY DeskMoves DEF history
<1> USE DEF LaunchesInductive, shelf, directory, history
<1>2. LaunchesTypeOK'
  BY <1>1 DEF LaunchesTypeOK
<1>3. Jobs' /\ Files' /\ Keyed' /\ Filed'
  BY DEF Jobs, Files, Keyed, Filed
<1>4. BackingIsWhole'
  BY DEF BackingIsWhole, Live
<1> QED  BY <1>1, <1>2, <1>3, <1>4

\* A row and its job move, as RowMoves says; of the store, only the file of
\* the shipped image may.
LEMMA RowAndStore ==
  ASSUME LaunchesInductive, NEW i \in Slot, NEW r \in Row, NEW j \in Job,
         row' = [row EXCEPT ![i] = r], job' = [job EXCEPT ![i] = j],
         r.image = row[i].image, r.project = row[i].project,
         r.overlay => row[i].overlay,
         Holds(r.st) => Holds(row[i].st),
         r.st \notin {"none", "Terminated"} => Live(i),
         j = "ready" => r.st = "Pending",
         j \in {"imaging", "fetching"} => r.st = "Provisioning",
         /\ r.st \in {"Provisioning", "Running", "Stopped"} \/ (j = "ready" /\ ~r.overlay)
         /\ r.links # {}
         => r.installed # {},
         UNCHANGED <<desk, reading, directory, crossed, unchecked, importing>>,
         catalog' \in [Image -> ImageStatus],
         NEW f \in StoreFile, store' = [store EXCEPT ![Builtin] = f],
         tangled' \in BOOLEAN, tangled => tangled',
         \/ tangled'
         \/ /\ f.file # "holed"
            /\ store[Builtin].file = "whole" => f.file = "whole"
            /\ \A k \in Slot : job'[k] = "fetching" => f.file = "none"
            /\ \A k, m \in Slot : job'[k] = "fetching" /\ job'[m] = "fetching" => k = m,
         r.st \notin {"none", "Terminated"} /\ r.overlay /\ j = "none" =>
           \/ row[i].overlay /\ job[i] = "none" /\ Live(i)
           \/ store[row[i].image].file # "none",
         allowance' \in [asked : 0..MaxAsked, mishaps : 0..MaxMishaps]
  PROVE  LaunchesInductive'
<1>1. /\ row' \in [Slot -> Row] /\ job' \in [Slot -> Job]
      /\ Desks' /\ Jobs' /\ Watched' /\ Covered' /\ Keyed' /\ Filed'
  BY RowMoves DEF directory
<1> USE DEF LaunchesInductive, directory
<1>2. store' \in [Image -> StoreFile]
  BY DEF LaunchesTypeOK
<1>3. LaunchesTypeOK'
  BY <1>1, <1>2 DEF LaunchesTypeOK, Job
<1>4. store'[Builtin] = f /\ \A g \in Image \ {Builtin} : store'[g] = store[g]
  BY LaunchesAssumption DEF LaunchesTypeOK
<1>5. Files'
  BY <1>4, LaunchesAssumption DEF Files
<1>6. /\ row'[i] = r /\ job'[i] = j
      /\ \A k \in Slot \ {i} : row'[k] = row[k] /\ job'[k] = job[k]
  BY DEF LaunchesTypeOK
<1>7. BackingIsWhole'
  <2> SUFFICES ASSUME NEW k \in Slot \ crossed, Live(k)', row'[k].overlay, job'[k] = "none",
                      row'[k].image = Builtin => ~tangled'
               PROVE  store'[row'[k].image].file = "whole"
    BY DEF BackingIsWhole
  <2>1. row'[k].image = row[k].image /\ row[k].image \in Image /\ row[k].overlay
    BY <1>6 DEF Jobs
  <2>2. store[row[k].image] \in StoreFile
    BY <2>1 DEF LaunchesTypeOK
  <2>3. store[row[k].image].file = "whole"
    <3>1. CASE row[k].overlay /\ job[k] = "none" /\ Live(k)
      BY <2>1, <3>1 DEF BackingIsWhole
    <3>2. CASE store[row[k].image].file # "none"
      BY <2>1, <2>2, <3>2 DEF Files, StoreFile
    <3>3. CASE k # i
      BY <1>6, <3>1, <3>3 DEF Live
    <3>4. CASE k = i
      BY <1>6, <3>1, <3>2, <3>4 DEF Live
    <3> QED  BY <3>3, <3>4
  <2>4. CASE row[k].image = Builtin
    BY <1>4, <2>1, <2>3, <2>4
  <2>5. CASE row[k].image # Builtin
    BY <1>4, <2>1, <2>3, <2>5
  <2> QED  BY <2>4, <2>5
<1> QED  BY <1>1, <1>3, <1>5, <1>7

\* The same with the shelf as it was.
LEMMA RowOnly ==
  ASSUME LaunchesInductive, NEW i \in Slot, NEW r \in Row, NEW j \in Job \ {"fetching"},
         row' = [row EXCEPT ![i] = r], job' = [job EXCEPT ![i] = j],
         r.image = row[i].image, r.project = row[i].project,
         r.overlay => row[i].overlay,
         Holds(r.st) => Holds(row[i].st),
         r.st \notin {"none", "Terminated"} => Live(i),
         j = "ready" => r.st = "Pending",
         j = "imaging" => r.st = "Provisioning",
         /\ r.st \in {"Provisioning", "Running", "Stopped"} \/ (j = "ready" /\ ~r.overlay)
         /\ r.links # {}
         => r.installed # {},
         UNCHANGED <<desk, reading, directory, history, store, importing>>,
         catalog' \in [Image -> ImageStatus],
         r.st \notin {"none", "Terminated"} /\ r.overlay /\ j = "none" =>
           \/ row[i].overlay /\ job[i] = "none" /\ Live(i)
           \/ store[row[i].image].file # "none",
         allowance' \in [asked : 0..MaxAsked, mishaps : 0..MaxMishaps]
  PROVE  LaunchesInductive'
<1>1. PICK f \in StoreFile : f = store[Builtin]
  BY LaunchesAssumption DEF LaunchesInductive, LaunchesTypeOK
<1>2. store' = [store EXCEPT ![Builtin] = f]
  BY <1>1, LaunchesAssumption DEF LaunchesInductive, LaunchesTypeOK
<1>3. UNCHANGED <<crossed, unchecked, tangled>>
  BY DEF history
<1>4. \A k \in Slot : job'[k] = "fetching" => job[k] = "fetching"
  BY DEF LaunchesInductive, LaunchesTypeOK
<1>5. \/ tangled'
      \/ /\ f.file # "holed"
         /\ store[Builtin].file = "whole" => f.file = "whole"
         /\ \A k \in Slot : job'[k] = "fetching" => f.file = "none"
         /\ \A k, m \in Slot : job'[k] = "fetching" /\ job'[m] = "fetching" => k = m
  BY <1>1, <1>3, <1>4 DEF LaunchesInductive, Files
<1>6. tangled' \in BOOLEAN /\ (tangled => tangled')
  BY <1>3 DEF LaunchesInductive, LaunchesTypeOK
<1> QED  BY <1>2, <1>3, <1>5, <1>6, RowAndStore

-----------------------------------------------------------------------------
(***************************************************************************)
(* Jobs, and the rest of an instance's life.                               *)
(***************************************************************************)

\* The rows, jobs and files that a step starts from.
LEMMA RowFacts ==
  ASSUME LaunchesInductive, NEW i \in Slot
  PROVE  /\ row[i] \in Row /\ job[i] \in Job /\ store[Builtin] \in StoreFile
         /\ job[i] = "ready" => row[i].st = "Pending"
         /\ job[i] \in {"imaging", "fetching"} => row[i].st = "Provisioning"
         /\ catalog \in [Image -> ImageStatus]
         /\ store \in [Image -> StoreFile]
BY LaunchesAssumption DEF LaunchesInductive, LaunchesTypeOK, Jobs, Job

\* A job that fails leaves a row that stands on nothing and holds no room.
LEMMA Failed ==
  ASSUME LaunchesInductive, NEW i \in Slot, JobFails(i), job[i] # "none"
  PROVE  \E r \in Row :
           /\ row' = [row EXCEPT ![i] = r] /\ job' = [job EXCEPT ![i] = "none"]
           /\ r.st = "Error" /\ ~r.overlay /\ Live(i)
           /\ r.image = row[i].image /\ r.project = row[i].project
<1>1. PICK r : r = [row[i] EXCEPT !.st = "Error", !.overlay = FALSE]
  OBVIOUS
<1>2. row[i] \in Row /\ job[i] \in Job
  BY RowFacts
<1>3. /\ r \in Row /\ r.st = "Error" /\ r.overlay = FALSE
      /\ r.image = row[i].image /\ r.project = row[i].project
  BY <1>1, <1>2 DEF Row, RowStatus
<1>4. row' = [row EXCEPT ![i] = r]
  BY <1>1 DEF JobFails
<1>5. job' = [job EXCEPT ![i] = "none"]
  BY DEF JobFails
<1>6. Live(i)
  BY <1>2, RowFacts DEF Live, Job
<1> QED  BY <1>3, <1>4, <1>5, <1>6

\* Such a failure with the shelf as it was.
LEMMA FailsOnly ==
  ASSUME LaunchesInductive, NEW i \in Slot, JobFails(i), job[i] # "none",
         UNCHANGED <<shelf, desk, reading, directory, history>>,
         allowance' \in [asked : 0..MaxAsked, mishaps : 0..MaxMishaps]
  PROVE  LaunchesInductive'
<1>1. PICK r \in Row :
         /\ row' = [row EXCEPT ![i] = r] /\ job' = [job EXCEPT ![i] = "none"]
         /\ r.st = "Error" /\ ~r.overlay /\ Live(i)
         /\ r.image = row[i].image /\ r.project = row[i].project
  BY Failed
<1>2. catalog' \in [Image -> ImageStatus] /\ UNCHANGED <<store, importing>>
  BY RowFacts DEF shelf
<1> QED  BY <1>1, <1>2, RowOnly DEF Holds, Job

LEMMA BeginFailsKeeps ==
  ASSUME LaunchesInductive, NEW i \in Slot, BeginFails(i)  PROVE  LaunchesInductive'
<1>1. allowance' \in [asked : 0..MaxAsked, mishaps : 0..MaxMishaps]
  BY DEF LaunchesInductive, LaunchesTypeOK, BeginFails
<1> QED  BY <1>1, FailsOnly DEF BeginFails

LEMMA BeginKeeps ==
  ASSUME LaunchesInductive, NEW i \in Slot, Begin(i)  PROVE  LaunchesInductive'
<1>1. PICK r : r = [row[i] EXCEPT !.st = "Provisioning", !.installed = Usable(i)]
  OBVIOUS
<1>2. row[i] \in Row /\ row[i].st = "Pending" /\ catalog \in [Image -> ImageStatus]
  BY RowFacts DEF Begin
<1>3. Usable(i) \subseteq Key /\ (row[i].links # {} => Usable(i) # {})
  BY <1>2 DEF Usable, Row, Begin
<1>4. /\ r \in Row /\ r.st = "Provisioning" /\ r.overlay = row[i].overlay
      /\ r.image = row[i].image /\ r.project = row[i].project
      /\ r.links = row[i].links /\ r.installed = Usable(i)
  BY <1>1, <1>2, <1>3 DEF Row, RowStatus
<1>5. row' = [row EXCEPT ![i] = r] /\ job' = [job EXCEPT ![i] = "imaging"]
  BY <1>1 DEF Begin
<1>6. allowance' \in [asked : 0..MaxAsked, mishaps : 0..MaxMishaps]
  BY DEF LaunchesInductive, LaunchesTypeOK, Begin
<1>7. UNCHANGED <<desk, reading, directory, history, store, importing, catalog>>
  BY DEF Begin, shelf
<1> QED  BY <1>2, <1>3, <1>4, <1>5, <1>6, <1>7, RowOnly DEF Holds, Job, Live

LEMMA DownloadKeeps ==
  ASSUME LaunchesInductive, NEW i \in Slot, Download(i)  PROVE  LaunchesInductive'
<1>1. PICK r \in Row : r = row[i]
  BY RowFacts
<1>2. row' = [row EXCEPT ![i] = r]
  BY <1>1 DEF LaunchesInductive, LaunchesTypeOK, Download
<1>3. PICK f : f = [store[Builtin] EXCEPT !.part = "cut"]
  OBVIOUS
<1>4. f \in StoreFile /\ f.file = "none" /\ store' = [store EXCEPT ![Builtin] = f]
  BY <1>3, RowFacts DEF Download, StoreFile
<1>5. /\ job' = [job EXCEPT ![i] = "fetching"] /\ row[i].st = "Provisioning"
      /\ tangled' = (tangled \/ \E k \in Slot : job[k] = "fetching")
      /\ store[Builtin].file = "none"
      /\ UNCHANGED <<desk, reading, directory, crossed, unchecked, importing, catalog>>
  BY RowFacts DEF Download
<1>6. tangled' \in BOOLEAN /\ (tangled => tangled')
  BY <1>5
<1>7. \/ tangled'
      \/ \A k, m \in Slot : job'[k] = "fetching" /\ job'[m] = "fetching" => k = m
  BY <1>5 DEF LaunchesInductive, LaunchesTypeOK
<1>8. allowance' \in [asked : 0..MaxAsked, mishaps : 0..MaxMishaps]
  BY DEF LaunchesInductive, LaunchesTypeOK, Download
<1>9. row[i].links # {} => row[i].installed # {}
  BY <1>5 DEF LaunchesInductive, Keyed
<1> QED  BY <1>1, <1>2, <1>4, <1>5, <1>6, <1>7, <1>8, <1>9, RowFacts, RowAndStore
         DEF Holds, Job, Live

LEMMA DownloadedKeeps ==
  ASSUME LaunchesInductive, NEW i \in Slot, Downloaded(i)  PROVE  LaunchesInductive'
<1> DEFINE others == {k \in Slot \ {i} : job[k] = "fetching"}
<1>1. /\ job[i] = "fetching" /\ row[i].st = "Provisioning" /\ row[i] \in Row
      /\ store[Builtin] \in StoreFile /\ job \in [Slot -> Job]
      /\ UNCHANGED <<desk, reading, directory, crossed, unchecked, tangled, importing, catalog>>
      /\ catalog' \in [Image -> ImageStatus]
  BY RowFacts DEF Downloaded, history, LaunchesInductive, LaunchesTypeOK, Job
<1>2. allowance' \in [asked : 0..MaxAsked, mishaps : 0..MaxMishaps]
  BY DEF LaunchesInductive, LaunchesTypeOK, Downloaded
<1>3. tangled' \in BOOLEAN /\ (tangled => tangled')
  BY <1>1 DEF LaunchesInductive, LaunchesTypeOK
<1>4. tangled \/ (store[Builtin].file = "none" /\ others = {})
  BY <1>1 DEF LaunchesInductive, Files
<1>5. CASE store[Builtin].part = "none"
  <2>1. /\ store' = [store EXCEPT ![Builtin].file = IF @ = "holed" THEN "whole" ELSE @]
        /\ JobFails(i)
    BY <1>5 DEF Downloaded
  <2>2. PICK r \in Row :
          /\ row' = [row EXCEPT ![i] = r] /\ job' = [job EXCEPT ![i] = "none"]
          /\ r.st = "Error" /\ ~r.overlay /\ Live(i)
          /\ r.image = row[i].image /\ r.project = row[i].project
    BY <1>1, <2>1, Failed
  <2>3. PICK f : f = [store[Builtin] EXCEPT !.file = IF @ = "holed" THEN "whole" ELSE @]
    OBVIOUS
  <2>4. /\ f \in StoreFile /\ store' = [store EXCEPT ![Builtin] = f]
        /\ f.file # "holed" /\ (tangled \/ f.file = "none")
    <3>1. f.part = store[Builtin].part /\ f.file = IF store[Builtin].file = "holed" THEN "whole" ELSE store[Builtin].file
      BY <1>1, <2>3 DEF StoreFile
    <3>2. f = [file |-> f.file, part |-> f.part]
      BY <1>1, <2>3 DEF StoreFile
    <3>3. f.file \in {"none", "holed", "whole"} /\ f.part \in {"none", "cut"}
      BY <1>1, <3>1 DEF StoreFile
    <3>4. f \in StoreFile
      BY <3>2, <3>3 DEF StoreFile
    <3>5. store' = [store EXCEPT ![Builtin] = f]
      BY <2>1, <2>3
    <3> QED  BY <1>1, <1>4, <3>1, <3>4, <3>5 DEF StoreFile
  <2>5. \A k \in Slot : job'[k] = "fetching" => k \in others
    BY <1>1, <2>2
  <2>6. tangled \/ \A k \in Slot : job'[k] # "fetching"
    BY <1>4, <2>5
  <2> QED  BY <1>1, <1>2, <1>3, <1>4, <2>2, <2>4, <2>6, RowAndStore DEF Holds, Job
<1>6. CASE store[Builtin].part # "none"
  <2>1. /\ store' = [store EXCEPT ![Builtin] =
                 [file |-> IF others = {} THEN "whole" ELSE "holed", part |-> "none"]]
        /\ job' = [job EXCEPT ![i] = "imaging"] /\ UNCHANGED row
    BY <1>6 DEF Downloaded
  <2>2. PICK r \in Row : r = row[i]
    BY <1>1
  <2>3. row' = [row EXCEPT ![i] = r]
    BY <2>1, <2>2 DEF LaunchesInductive, LaunchesTypeOK
  <2>4. PICK f : f = [file |-> IF others = {} THEN "whole" ELSE "holed", part |-> "none"]
    OBVIOUS
  <2>5. f \in StoreFile /\ (others = {} => f.file = "whole") /\ store' = [store EXCEPT ![Builtin] = f]
    BY <2>1, <2>4 DEF StoreFile
  <2>6. \A k \in Slot : job'[k] = "fetching" => k \in others
    BY <1>1, <2>1
  <2>7. tangled \/ (f.file = "whole" /\ \A k \in Slot : job'[k] # "fetching")
    BY <1>4, <2>5, <2>6
  <2>8. row[i].links # {} => row[i].installed # {}
    BY <1>1 DEF LaunchesInductive, Keyed
  <2>9. \/ tangled'
        \/ /\ f.file # "holed"
           /\ store[Builtin].file = "whole" => f.file = "whole"
           /\ \A k \in Slot : job'[k] = "fetching" => f.file = "none"
           /\ \A k, m \in Slot : job'[k] = "fetching" /\ job'[m] = "fetching" => k = m
    BY <1>1, <2>7
  <2>10. Live(i)
    BY <1>1 DEF Live
  <2>11. PICK j \in Job : j = "imaging"
    BY DEF Job
  <2>12. job' = [job EXCEPT ![i] = j]
    BY <2>1, <2>11
  <2>13. /\ r.st = "Provisioning" /\ (r.links # {} => r.installed # {})
         /\ r.image = row[i].image /\ r.project = row[i].project /\ r.overlay = row[i].overlay
    BY <1>1, <2>2, <2>8
  <2> HIDE DEF others
  <2> QED  BY <1>1, <1>2, <1>3, <2>3, <2>5, <2>9, <2>10, <2>11, <2>12, <2>13, RowAndStore
           DEF Holds
<1> QED  BY <1>5, <1>6

LEMMA DownloadFailsKeeps ==
  ASSUME LaunchesInductive, NEW i \in Slot, DownloadFails(i)  PROVE  LaunchesInductive'
<1>1. PICK r \in Row :
        /\ row' = [row EXCEPT ![i] = r] /\ job' = [job EXCEPT ![i] = "none"]
        /\ r.st = "Error" /\ ~r.overlay /\ Live(i)
        /\ r.image = row[i].image /\ r.project = row[i].project
  BY Failed DEF DownloadFails
<1>2. PICK f : f = [store[Builtin] EXCEPT !.part = "none"]
  OBVIOUS
<1>3. /\ f \in StoreFile /\ f.file = store[Builtin].file
      /\ store' = [store EXCEPT ![Builtin] = f]
  BY <1>2, RowFacts DEF DownloadFails, StoreFile
<1>4. /\ UNCHANGED <<desk, reading, directory, crossed, unchecked, tangled, importing>>
      /\ catalog' \in [Image -> ImageStatus]
  BY RowFacts DEF DownloadFails, history
<1>5. allowance' \in [asked : 0..MaxAsked, mishaps : 0..MaxMishaps]
  BY Allowances DEF DownloadFails, LaunchesInductive
<1>6. \A k \in Slot : job'[k] = "fetching" => job[k] = "fetching"
  BY <1>1 DEF LaunchesInductive, LaunchesTypeOK
<1>7. tangled' \in BOOLEAN /\ (tangled => tangled')
  BY <1>4 DEF LaunchesInductive, LaunchesTypeOK
<1>8. \/ tangled'
      \/ /\ f.file # "holed"
         /\ store[Builtin].file = "whole" => f.file = "whole"
         /\ \A k \in Slot : job'[k] = "fetching" => f.file = "none"
         /\ \A k, m \in Slot : job'[k] = "fetching" /\ job'[m] = "fetching" => k = m
  BY <1>3, <1>4, <1>6 DEF LaunchesInductive, Files
<1> QED  BY <1>1, <1>3, <1>4, <1>5, <1>7, <1>8, RowAndStore DEF Holds, Job

LEMMA BuildOverlayKeeps ==
  ASSUME LaunchesInductive, NEW i \in Slot, BuildOverlay(i)  PROVE  LaunchesInductive'
<1>1. /\ row[i] \in Row /\ row[i].st = "Provisioning"
      /\ row[i].links # {} => row[i].installed # {}
      /\ store[row[i].image].file # "none"
  BY RowFacts DEF BuildOverlay, LaunchesInductive, Keyed
<1>2. PICK r : r = [row[i] EXCEPT !.st = "Running"]
  OBVIOUS
<1>3. /\ r \in Row /\ r.st = "Running" /\ r.overlay = row[i].overlay
      /\ r.image = row[i].image /\ r.project = row[i].project
      /\ r.links = row[i].links /\ r.installed = row[i].installed
  BY <1>1, <1>2 DEF Row, RowStatus
<1>4. row' = [row EXCEPT ![i] = r] /\ job' = [job EXCEPT ![i] = "none"]
  BY <1>2 DEF BuildOverlay
<1>5. catalog' \in [Image -> ImageStatus]
  BY RowFacts DEF BuildOverlay, Synced, ImageStatus
<1>6. allowance' \in [asked : 0..MaxAsked, mishaps : 0..MaxMishaps]
  BY DEF LaunchesInductive, LaunchesTypeOK, BuildOverlay
<1>7. UNCHANGED <<desk, reading, directory, history, store, importing>>
  BY DEF BuildOverlay
<1> QED  BY <1>1, <1>3, <1>4, <1>5, <1>6, <1>7, RowOnly DEF Holds, Job, Live

LEMMA BuildOverlayFailsKeeps ==
  ASSUME LaunchesInductive, NEW i \in Slot, BuildOverlayFails(i)  PROVE  LaunchesInductive'
<1>1. Mishap \/ UNCHANGED allowance
  BY DEF BuildOverlayFails
<1>2. allowance' \in [asked : 0..MaxAsked, mishaps : 0..MaxMishaps]
  BY <1>1, Allowances DEF LaunchesInductive
<1> QED  BY <1>2, FailsOnly DEF BuildOverlayFails

LEMMA BootFailsOnImageKeeps ==
  ASSUME LaunchesInductive, NEW i \in Slot, BootFailsOnImage(i)  PROVE  LaunchesInductive'
<1>1. /\ row[i] \in Row /\ row[i].st = "Provisioning"
      /\ store[row[i].image].file # "none"
  BY RowFacts DEF BootFailsOnImage
<1>2. PICK r : r = [row[i] EXCEPT !.st = "Error"]
  OBVIOUS
<1>3. /\ r \in Row /\ r.st = "Error" /\ r.overlay = row[i].overlay
      /\ r.image = row[i].image /\ r.project = row[i].project
  BY <1>1, <1>2 DEF Row, RowStatus
<1>4. row' = [row EXCEPT ![i] = r] /\ job' = [job EXCEPT ![i] = "none"]
  BY <1>2 DEF BootFailsOnImage
<1>5. UNCHANGED <<desk, reading, directory, history, store, importing, catalog>>
  BY DEF BootFailsOnImage, shelf
<1>6. allowance' \in [asked : 0..MaxAsked, mishaps : 0..MaxMishaps]
  BY Allowances DEF LaunchesInductive, BootFailsOnImage
<1>7. catalog' \in [Image -> ImageStatus]
  BY <1>5, RowFacts
<1> QED  BY <1>1, <1>3, <1>4, <1>5, <1>6, <1>7, RowOnly DEF Holds, Job, Live

LEMMA CloneDoneKeeps ==
  ASSUME LaunchesInductive, NEW i \in Slot, CloneDone(i)  PROVE  LaunchesInductive'
<1>1. /\ row[i] \in Row /\ row[i].st = "Pending" /\ row[i].overlay = FALSE
      /\ row[i].links # {} => row[i].installed # {}
  BY RowFacts DEF CloneDone, LaunchesInductive, Keyed, Row
<1>2. PICK r : r = [row[i] EXCEPT !.st = "Running", !.installed = @ \union Usable(i)]
  OBVIOUS
<1>3. Usable(i) \subseteq Key
  BY <1>1 DEF Usable, Row
<1>4. /\ r \in Row /\ r.st = "Running" /\ r.overlay = row[i].overlay
      /\ r.image = row[i].image /\ r.project = row[i].project
      /\ r.links = row[i].links /\ row[i].installed \subseteq r.installed
  BY <1>1, <1>2, <1>3 DEF Row, RowStatus
<1>5. row' = [row EXCEPT ![i] = r] /\ job' = [job EXCEPT ![i] = "none"]
  BY <1>2 DEF CloneDone
<1>6. UNCHANGED <<desk, reading, directory, history, store, importing, catalog>>
  BY DEF CloneDone, shelf
<1>7. allowance' \in [asked : 0..MaxAsked, mishaps : 0..MaxMishaps]
  BY DEF LaunchesInductive, LaunchesTypeOK, CloneDone
<1>8. catalog' \in [Image -> ImageStatus]
  BY <1>6, RowFacts
<1>9. r.links # {} => r.installed # {}
  BY <1>1, <1>4
<1> QED  BY <1>1, <1>4, <1>5, <1>6, <1>7, <1>8, <1>9, RowOnly DEF Holds, Job, Live

LEMMA CloneFailsKeeps ==
  ASSUME LaunchesInductive, NEW i \in Slot, CloneFails(i)  PROVE  LaunchesInductive'
<1>1. allowance' \in [asked : 0..MaxAsked, mishaps : 0..MaxMishaps]
  BY Allowances DEF LaunchesInductive, CloneFails
<1> QED  BY <1>1, FailsOnly DEF CloneFails

\* A row that a user's call moves has no job.
LEMMA HaltKeeps ==
  ASSUME LaunchesInductive, NEW i \in Slot, Halt(i)  PROVE  LaunchesInductive'
<1>1. /\ row[i] \in Row /\ row[i].st = "Running" /\ job[i] = "none"
      /\ row[i].links # {} => row[i].installed # {}
  BY RowFacts DEF Halt, LaunchesInductive, Keyed, Job
<1>2. PICK r : r = [row[i] EXCEPT !.st = "Stopped"]
  OBVIOUS
<1>3. /\ r \in Row /\ r.st = "Stopped" /\ r.overlay = row[i].overlay
      /\ r.image = row[i].image /\ r.project = row[i].project
      /\ r.links = row[i].links /\ r.installed = row[i].installed
  BY <1>1, <1>2 DEF Row, RowStatus
<1>4. row' = [row EXCEPT ![i] = r]
  BY <1>2 DEF Halt
<1>5. job' = [job EXCEPT ![i] = "none"]
  BY <1>1 DEF Halt, LaunchesInductive, LaunchesTypeOK
<1>6. UNCHANGED <<desk, reading, directory, history, store, importing, catalog>>
  BY DEF Halt, shelf
<1>7. allowance' \in [asked : 0..MaxAsked, mishaps : 0..MaxMishaps]
  BY DEF LaunchesInductive, LaunchesTypeOK, Halt
<1>8. catalog' \in [Image -> ImageStatus]
  BY <1>6, RowFacts
<1> QED  BY <1>1, <1>3, <1>4, <1>5, <1>6, <1>7, <1>8, RowOnly DEF Holds, Job, Live

LEMMA TerminateKeeps ==
  ASSUME LaunchesInductive, NEW i \in Slot, Terminate(i)  PROVE  LaunchesInductive'
<1>1. row[i] \in Row /\ job[i] = "none"
  BY RowFacts DEF Terminate
<1>2. PICK r : r = [row[i] EXCEPT !.st = "Terminated", !.overlay = FALSE]
  OBVIOUS
<1>3. /\ r \in Row /\ r.st = "Terminated" /\ r.overlay = FALSE
      /\ r.image = row[i].image /\ r.project = row[i].project
  BY <1>1, <1>2 DEF Row, RowStatus
<1>4. row' = [row EXCEPT ![i] = r]
  BY <1>2 DEF Terminate
<1>5. job' = [job EXCEPT ![i] = "none"]
  BY <1>1 DEF Terminate, LaunchesInductive, LaunchesTypeOK
<1>6. UNCHANGED <<desk, reading, directory, history, store, importing, catalog>>
  BY DEF Terminate, shelf
<1>7. allowance' \in [asked : 0..MaxAsked, mishaps : 0..MaxMishaps]
  BY Allowances DEF LaunchesInductive, Terminate
<1>8. catalog' \in [Image -> ImageStatus]
  BY <1>6, RowFacts
<1> QED  BY <1>1, <1>3, <1>4, <1>5, <1>6, <1>7, <1>8, RowOnly DEF Holds, Job, Live

\* A start is not checked: from then on nothing is said of the room.
LEMMA ResumeKeeps ==
  ASSUME LaunchesInductive, NEW i \in Slot, Resume(i)  PROVE  LaunchesInductive'
<1> USE DEF LaunchesInductive, shelf, directory
<1>1. /\ row[i] \in Row /\ row[i].st = "Stopped" /\ job[i] = "none"
      /\ row[i].links # {} => row[i].installed # {}
  BY RowFacts DEF Resume, Keyed, Job
<1>2. PICK r : r = [row[i] EXCEPT !.st = "Running"]
  OBVIOUS
<1>3. /\ r \in Row /\ r.st = "Running" /\ r.overlay = row[i].overlay
      /\ r.image = row[i].image /\ r.project = row[i].project
      /\ r.links = row[i].links /\ r.installed = row[i].installed
  BY <1>1, <1>2 DEF Row, RowStatus
<1>4. row' = [row EXCEPT ![i] = r]
  BY <1>2 DEF Resume
<1>5. row'[i] = r /\ \A k \in Slot \ {i} : row'[k] = row[k]
  BY <1>4 DEF LaunchesTypeOK
<1>6. allowance' \in [asked : 0..MaxAsked, mishaps : 0..MaxMishaps]
  BY Allowances DEF Resume
<1>7. UNCHANGED <<catalog, store, importing, job, desk, reading, projects, keys, crossed, tangled>>
      /\ unchecked' = TRUE
  BY DEF Resume
<1>8. LaunchesTypeOK'
  BY <1>3, <1>4, <1>6, <1>7 DEF LaunchesTypeOK
<1>9. Desks' /\ Jobs' /\ Files' /\ Covered' /\ Filed'
  BY <1>1, <1>3, <1>5, <1>7 DEF Desks, Jobs, Files, Covered, Filed
<1>10. Watched' /\ BackingIsWhole'
  BY <1>1, <1>3, <1>5, <1>7 DEF Watched, BackingIsWhole, Live
<1>11. Keyed'
  BY <1>1, <1>3, <1>5, <1>7 DEF Keyed
<1> QED  BY <1>8, <1>9, <1>10, <1>11

-----------------------------------------------------------------------------
(***************************************************************************)
(* Requests, measurements and the insert.                                  *)
(***************************************************************************)

\* What is computed, or was computed and is still cached, is there.
LEMMA Room4All ==
  ASSUME LaunchesInductive
  PROVE  \E x \in Nat : /\ x = IF reading = NoReading THEN RoomLeft ELSE reading
                        /\ ~unchecked => x + Committed =< Room
<1>1. PICK a \in Nat : a = Committed
  BY CommittedType
<1>2. CASE reading = NoReading
  <2>1. PICK x : x = IF a >= Room THEN 0 ELSE Room - a
    OBVIOUS
  <2>2. x = RoomLeft
    BY <1>1, <2>1 DEF RoomLeft
  <2>3. ~unchecked => a =< Room
    BY <1>1 DEF LaunchesInductive, Covered
  <2>4. x \in Nat /\ (~unchecked => x + a =< Room)
    BY <2>1, <2>3, LaunchesAssumption
  <2> QED  BY <1>1, <1>2, <2>2, <2>4
<1>3. CASE reading # NoReading
  <2>1. reading \in Nat /\ (~unchecked => reading + Committed =< Room)
    BY <1>3 DEF LaunchesInductive, LaunchesTypeOK, Covered
  <2> QED  BY <1>3, <2>1
<1> QED  BY <1>2, <1>3

LEMMA LooksUp ==
  ASSUME LaunchesInductive, NEW c \in Client, NEW r \in Desk, r.pc = "free", Carries(r),
         LookUp(c, r)
  PROVE  LaunchesInductive'
<1>1. PICK x \in Nat : /\ x = IF reading = NoReading THEN RoomLeft ELSE reading
                       /\ ~unchecked => x + Committed =< Room
  BY Room4All
<1>2. PICK pc : pc = IF reading = NoReading THEN "measuring" ELSE "checked"
  OBVIOUS
<1>3. PICK d : d = [r EXCEPT !.seen = x, !.pc = pc]
  OBVIOUS
<1>4. /\ d \in Desk /\ d.seen = x /\ d.pc \in {"measuring", "checked"}
      /\ d.row = r.row /\ d.op = r.op
  BY <1>2, <1>3 DEF Desk
<1>5. desk' = [desk EXCEPT ![c] = d]
  BY <1>1, <1>2, <1>3 DEF LookUp
<1>6. Carries(d)
  BY <1>4 DEF Carries
<1>7. allowance' \in [asked : 0..MaxAsked, mishaps : 0..MaxMishaps]
  BY Allowances DEF LookUp, LaunchesInductive
<1>8. UNCHANGED <<shelf, row, job, reading, directory, history>>
  BY DEF LookUp
<1> QED  BY <1>1, <1>4, <1>5, <1>6, <1>7, <1>8, DeskOnly

LEMMA AskLaunchKeeps ==
  ASSUME LaunchesInductive, NEW c \in Client, AskLaunch(c)  PROVE  LaunchesInductive'
<1>1. PICK g \in Image, w \in Wish :
        LookUp(c, [NoDesk EXCEPT !.op = "launch", !.row =
          [NoRow EXCEPT !.st = "Pending", !.image = g, !.overlay = TRUE,
                        !.project = w.project, !.links = w.links]])
  BY DEF AskLaunch
<1>2. w \in [project : Project, links : SUBSET Key]
  BY LaunchesAssumption
<1>3. PICK t : t = [NoRow EXCEPT !.st = "Pending", !.image = g, !.overlay = TRUE,
                                 !.project = w.project, !.links = w.links]
  OBVIOUS
<1>4. t \in Row /\ t.overlay = TRUE /\ t.image = g /\ t.st = "Pending"
  BY <1>2, <1>3 DEF NoRow, Row, RowStatus
<1>5. PICK d : d = [NoDesk EXCEPT !.op = "launch", !.row = t]
  OBVIOUS
<1>6. d \in Desk /\ d.pc = "free" /\ d.row = t
  BY <1>4, <1>5, LaunchesAssumption DEF NoDesk, Desk
<1>7. Carries(d)
  BY <1>4, <1>6 DEF Carries
<1>8. LookUp(c, d)
  BY <1>1, <1>3, <1>5
<1> QED  BY <1>6, <1>7, <1>8, LooksUp

\* A stopped row with keys has some installed, and the copy has those.
LEMMA AskCloneKeeps ==
  ASSUME LaunchesInductive, NEW c \in Client, AskClone(c)  PROVE  LaunchesInductive'
<1>1. PICK s \in Slot :
        /\ row[s].st = "Stopped"
        /\ LookUp(c, [NoDesk EXCEPT !.op = "launch", !.row =
             [row[s] EXCEPT !.st = "Pending", !.overlay = FALSE, !.links = @ \intersect keys]])
  BY DEF AskClone
<1>2. row[s] \in Row /\ (row[s].links # {} => row[s].installed # {})
  BY <1>1, RowFacts DEF LaunchesInductive, Keyed
<1>3. PICK t : t = [row[s] EXCEPT !.st = "Pending", !.overlay = FALSE, !.links = @ \intersect keys]
  OBVIOUS
<1>4. /\ t \in Row /\ t.overlay = FALSE /\ t.st = "Pending" /\ t.links \subseteq row[s].links
      /\ t.installed = row[s].installed
  BY <1>2, <1>3 DEF Row, RowStatus
<1>5. PICK d : d = [NoDesk EXCEPT !.op = "launch", !.row = t]
  OBVIOUS
<1>6. d \in Desk /\ d.pc = "free" /\ d.row = t
  BY <1>4, <1>5, LaunchesAssumption DEF NoDesk, Desk
<1>7. Carries(d)
  BY <1>2, <1>4, <1>6 DEF Carries
<1>8. LookUp(c, d)
  BY <1>1, <1>3, <1>5
<1> QED  BY <1>6, <1>7, <1>8, LooksUp

LEMMA PollKeeps ==
  ASSUME LaunchesInductive, NEW c \in Client, Poll(c)  PROVE  LaunchesInductive'
<1>1. PICK d : d = [NoDesk EXCEPT !.op = "poll"]
  OBVIOUS
<1>2. d \in Desk /\ d.pc = "free" /\ d.row = NoRow /\ d.op = "poll"
  BY <1>1, LaunchesAssumption DEF NoDesk, Desk, NoRow, Row, RowStatus
<1>3. Carries(d)
  BY <1>2 DEF Carries, NoRow
<1>4. LookUp(c, d)
  BY <1>1 DEF Poll
<1> QED  BY <1>2, <1>3, <1>4, LooksUp

LEMMA StoreReadingKeeps ==
  ASSUME LaunchesInductive, NEW c \in Client, StoreReading(c)  PROVE  LaunchesInductive'
<1> USE DEF LaunchesInductive, shelf, directory, history
<1>1. /\ desk[c] \in Desk /\ desk[c].pc = "measuring" /\ reading' = desk[c].seen
      /\ desk' = [desk EXCEPT ![c].pc = "checked"]
      /\ UNCHANGED <<shelf, row, job, directory, history, allowance>>
  BY DEF StoreReading, AtDesk, LaunchesTypeOK
<1>2. PICK d : d = [desk[c] EXCEPT !.pc = "checked"]
  OBVIOUS
<1>3. /\ d \in Desk /\ d.pc = "checked" /\ d.row = desk[c].row /\ d.seen = desk[c].seen
      /\ d.op = desk[c].op
      /\ desk' = [desk EXCEPT ![c] = d]
  BY <1>1, <1>2 DEF Desk
<1>4. d.seen \in Nat \union {NoReading}
  BY <1>3 DEF Desk
<1>5. LaunchesTypeOK'
  BY <1>1, <1>3, <1>4 DEF LaunchesTypeOK
<1>6. desk'[c] = d /\ \A k \in Client \ {c} : desk'[k] = desk[k]
  BY <1>3 DEF LaunchesTypeOK
<1>7. Desks' /\ Watched'
  BY <1>1, <1>3, <1>6 DEF Desks, Watched, Live
<1>8. Covered'
  <2>1. Committed' = Committed
    BY <1>1 DEF Committed
  <2> QED  BY <1>1, <1>3, <1>6, <2>1 DEF Covered
<1>9. Jobs' /\ Files' /\ Keyed' /\ Filed' /\ BackingIsWhole'
  BY <1>1 DEF Jobs, Files, Keyed, Filed, BackingIsWhole, Live
<1> QED  BY <1>5, <1>7, <1>8, <1>9

LEMMA NoRoomKeeps ==
  ASSUME LaunchesInductive, NEW c \in Client, NoRoom(c)  PROVE  LaunchesInductive'
<1>1. allowance' \in [asked : 0..MaxAsked, mishaps : 0..MaxMishaps]
  BY DEF NoRoom, LaunchesInductive, LaunchesTypeOK
<1>2. PICK d \in Desk : d = NoDesk
  BY EmptyDesk
<1>3. desk' = [desk EXCEPT ![c] = d] /\ d.pc = "free" /\ Carries(d)
  BY <1>2, EmptyDesk DEF NoRoom, LeaveDesk, NoDesk
<1> QED  BY <1>1, <1>3, DeskOnly DEF NoRoom

LEMMA InsertKeeps ==
  ASSUME LaunchesInductive, NEW c \in Client, Insert(c)  PROVE  LaunchesInductive'
<1> USE DEF LaunchesInductive, shelf, directory
<1>1. PICK i \in Slot :
        /\ row[i].st = "none"
        /\ AtDesk(c, "checked") /\ desk[c].op = "launch" /\ desk[c].seen > 0
        /\ row' = [row EXCEPT ![i] = desk[c].row]
        /\ job' = [job EXCEPT ![i] = "ready"]
        /\ reading' = NoReading
        /\ crossed' = IF Crosses(desk[c].row) THEN crossed \union {i} ELSE crossed
        /\ unchecked' = (unchecked \/ \E k \in Client \ {c} : desk[k].pc \in {"measuring", "checked"})
        /\ LeaveDesk(c)
        /\ UNCHANGED <<shelf, directory, tangled, allowance>>
  BY DEF Insert
<1>2. PICK r \in Row : r = desk[c].row
  BY DEF LaunchesTypeOK, Desk
<1>3. /\ r.st = "Pending" /\ (r.overlay => r.image \in Image)
      /\ ~r.overlay /\ r.links # {} => r.installed # {}
  BY <1>1, <1>2 DEF Desks
<1>4. row' = [row EXCEPT ![i] = r]
  BY <1>1, <1>2
<1>5. /\ row'[i] = r /\ job'[i] = "ready"
      /\ \A k \in Slot \ {i} : row'[k] = row[k] /\ job'[k] = job[k]
  BY <1>1, <1>4 DEF LaunchesTypeOK
<1>6. /\ desk'[c] = NoDesk /\ desk' \in [Client -> Desk]
      /\ \A k \in Client \ {c} : desk'[k] = desk[k]
  BY <1>1, EmptyDesk DEF LeaveDesk, LaunchesTypeOK
<1>7. crossed \subseteq crossed' /\ crossed' \subseteq crossed \union {i}
      /\ (Crosses(r) => i \in crossed')
  BY <1>1, <1>2
<1>8. unchecked' \in BOOLEAN /\ (unchecked => unchecked')
      /\ \A k \in Client \ {c} : desk[k].pc \in {"measuring", "checked"} => unchecked'
  BY <1>1
<1>9. /\ row' \in [Slot -> Row] /\ job' \in [Slot -> Job] /\ crossed' \subseteq Slot
      /\ UNCHANGED <<catalog, store, importing, projects, keys, tangled, allowance>>
      /\ reading' = NoReading
  BY <1>1, <1>4, <1>7 DEF LaunchesTypeOK, Job
<1>10. LaunchesTypeOK'
  BY <1>6, <1>8, <1>9 DEF LaunchesTypeOK, Job
<1>11. Desks'
  BY <1>6, EmptyDesk DEF Desks, NoDesk, NoRow
<1>12. Jobs' /\ Files' /\ Keyed'
  BY <1>3, <1>5, <1>9 DEF Jobs, Files, Keyed
<1>13. Watched'
  <2> SUFFICES ASSUME NEW k \in Client, NEW m \in Slot, desk'[k].pc = "unlinking",
                      Live(m)', row'[m].image = desk'[k].image
               PROVE  m \in crossed'
    BY DEF Watched
  <2>1. k # c /\ desk[k].pc = "unlinking" /\ desk[k].image = desk'[k].image
    BY <1>6 DEF NoDesk
  <2>2. CASE m = i
    BY <1>5, <1>7, <2>1, <2>2 DEF Crosses
  <2>3. CASE m # i
    BY <1>5, <1>7, <2>1, <2>3 DEF Watched, Live
  <2> QED  BY <2>2, <2>3
<1>14. BackingIsWhole'
  BY <1>5, <1>7, <1>9 DEF BackingIsWhole, Live
<1>15. Filed'
  BY <1>5, <1>7, <1>9 DEF Filed, Crosses
<1>16. Covered'
  <2>1. CASE unchecked'
    BY <2>1 DEF Covered
  <2>2. CASE ~unchecked'
    <3>1. PICK a \in Nat : a = Committed  BY CommittedType
    <3>2. PICK b \in Nat : b = Committed'  BY CommittedTypeNext
    <3>3. Committed' =< Committed + 1
      BY <1>1, <1>5, OneMore DEF Holds
    <3>4. desk[c].seen \in Nat /\ desk[c].seen + a =< Room /\ desk[c].seen > 0
      BY <1>1, <1>8, <2>2, <3>1 DEF Covered, AtDesk
    <3>5. b =< Room
      BY <3>1, <3>2, <3>3, <3>4, LaunchesAssumption
    <3>6. \A k \in Client : desk'[k].pc \notin {"measuring", "checked"}
      BY <1>6, <1>8, <2>2 DEF NoDesk
    <3> QED  BY <1>9, <3>2, <3>5, <3>6 DEF Covered
  <2> QED  BY <2>1, <2>2
<1> QED  BY <1>10, <1>11, <1>12, <1>13, <1>14, <1>15, <1>16

LEMMA ExpireKeeps ==
  ASSUME LaunchesInductive, Expire  PROVE  LaunchesInductive'
<1> USE DEF LaunchesInductive, shelf, directory, history, Expire
<1>1. LaunchesTypeOK'
  BY DEF LaunchesTypeOK
<1>2. Desks' /\ Jobs' /\ Files' /\ Keyed' /\ Filed'
  BY DEF Desks, Jobs, Files, Keyed, Filed
<1>3. Watched' /\ BackingIsWhole'
  BY DEF Watched, BackingIsWhole, Live
<1>4. Committed' = Committed
  BY DEF Committed
<1>5. Covered'
  BY <1>4 DEF Covered
<1> QED  BY <1>1, <1>2, <1>3, <1>5

-----------------------------------------------------------------------------
(***************************************************************************)
(* Images, projects and key pairs.                                         *)
(***************************************************************************)

\* Only the shelf and the allowance change, and every file that is whole
\* stays so.
LEMMA ShelfOnly ==
  ASSUME LaunchesInductive,
         catalog' \in [Image -> ImageStatus], store' \in [Image -> StoreFile],
         importing' \subseteq Image,
         allowance' \in [asked : 0..MaxAsked, mishaps : 0..MaxMishaps],
         UNCHANGED <<row, job, desk, reading, directory, history>>,
         Builtin \notin importing', store'[Builtin].file = store[Builtin].file,
         \A g \in Image \ {Builtin} :
           store'[g].file # "holed" /\ (store[g].file = "whole" => store'[g].file = "whole")
  PROVE  LaunchesInductive'
<1> USE DEF LaunchesInductive, directory, history
<1>1. LaunchesTypeOK'
  BY DEF LaunchesTypeOK
<1>2. Desks' /\ Jobs' /\ Files' /\ Keyed' /\ Filed'
  BY DEF Desks, Jobs, Files, Keyed, Filed
<1>3. Watched'
  BY DEF Watched, Live
<1>4. BackingIsWhole'
  BY DEF BackingIsWhole, Live, Jobs
<1>5. Committed' = Committed
  BY DEF Committed
<1>6. Covered'
  BY <1>5 DEF Covered
<1> QED  BY <1>1, <1>2, <1>3, <1>4, <1>6

LEMMA AskImportKeeps ==
  ASSUME LaunchesInductive, NEW c \in Client, AskImport(c)  PROVE  LaunchesInductive'
<1>1. PICK g \in Image \ {Builtin} :
        /\ catalog' = [catalog EXCEPT ![g] = "Importing"]
        /\ importing' = importing \union {g}
        /\ store' = [store EXCEPT ![g].part = "cut"]
  BY DEF AskImport
<1>2. allowance' \in [asked : 0..MaxAsked, mishaps : 0..MaxMishaps]
  BY Allowances DEF AskImport, LaunchesInductive
<1>3. /\ store \in [Image -> StoreFile] /\ importing \subseteq Image
      /\ catalog \in [Image -> ImageStatus] /\ Builtin \notin importing
      /\ \A x \in Image \ {Builtin} : store[x].file # "holed"
  BY DEF LaunchesInductive, LaunchesTypeOK, Files
<1>4. PICK f : f = [store[g] EXCEPT !.part = "cut"]
  OBVIOUS
<1>5. f \in StoreFile /\ f.file = store[g].file /\ store' = [store EXCEPT ![g] = f]
  BY <1>1, <1>3, <1>4 DEF StoreFile
<1>6. /\ store' \in [Image -> StoreFile] /\ importing' \subseteq Image /\ Builtin \notin importing'
      /\ catalog' \in [Image -> ImageStatus]
      /\ \A x \in Image : store'[x].file = store[x].file
  BY <1>1, <1>3, <1>5 DEF ImageStatus
<1> QED  BY <1>2, <1>3, <1>6, LaunchesAssumption, ShelfOnly DEF AskImport

LEMMA ImportedKeeps ==
  ASSUME LaunchesInductive, NEW g \in Image, Imported(g)  PROVE  LaunchesInductive'
<1>1. /\ store \in [Image -> StoreFile] /\ importing \subseteq Image
      /\ catalog \in [Image -> ImageStatus] /\ Builtin \notin importing
      /\ \A x \in Image \ {Builtin} : store[x].file # "holed"
  BY DEF LaunchesInductive, LaunchesTypeOK, Files
<1>2. g # Builtin
  BY <1>1 DEF Imported
<1>3. PICK f \in StoreFile : f = [file |-> "whole", part |-> "none"]
  BY DEF StoreFile
<1>4. store' = [store EXCEPT ![g] = f] /\ f.file = "whole"
  BY <1>3 DEF Imported
<1>5. /\ store' \in [Image -> StoreFile] /\ importing' \subseteq Image /\ Builtin \notin importing'
      /\ \A x \in Image : store'[x].file = IF x = g THEN "whole" ELSE store[x].file
  BY <1>1, <1>4 DEF Imported
<1>6. catalog' \in [Image -> ImageStatus]
  BY <1>1 DEF Imported, ImageStatus
<1>7. allowance' \in [asked : 0..MaxAsked, mishaps : 0..MaxMishaps]
  BY DEF Imported, LaunchesInductive, LaunchesTypeOK
<1>8. store'[Builtin].file = store[Builtin].file
  BY <1>2, <1>5, LaunchesAssumption
<1>9. \A x \in Image \ {Builtin} :
        store'[x].file # "holed" /\ (store[x].file = "whole" => store'[x].file = "whole")
  BY <1>1, <1>5
<1> QED  BY <1>5, <1>6, <1>7, <1>8, <1>9, ShelfOnly DEF Imported

LEMMA ImportFailsKeeps ==
  ASSUME LaunchesInductive, NEW g \in Image, ImportFails(g)  PROVE  LaunchesInductive'
<1>1. /\ store \in [Image -> StoreFile] /\ importing \subseteq Image
      /\ catalog \in [Image -> ImageStatus] /\ Builtin \notin importing
      /\ \A x \in Image \ {Builtin} : store[x].file # "holed"
  BY DEF LaunchesInductive, LaunchesTypeOK, Files
<1>2. PICK f : f = [store[g] EXCEPT !.part = "none"]
  OBVIOUS
<1>3. f \in StoreFile /\ f.file = store[g].file /\ store' = [store EXCEPT ![g] = f]
  BY <1>1, <1>2 DEF StoreFile, ImportFails
<1>4. /\ store' \in [Image -> StoreFile] /\ importing' \subseteq Image /\ Builtin \notin importing'
      /\ \A x \in Image : store'[x].file = store[x].file
  BY <1>1, <1>3 DEF ImportFails
<1>5. catalog' \in [Image -> ImageStatus]
  BY <1>1 DEF ImportFails, ImageStatus
<1>6. allowance' \in [asked : 0..MaxAsked, mishaps : 0..MaxMishaps]
  BY Allowances DEF ImportFails, LaunchesInductive
<1> QED  BY <1>1, <1>4, <1>5, <1>6, LaunchesAssumption, ShelfOnly DEF ImportFails

\* The check for users, with the delete still to come.
LEMMA AskDeleteImageKeeps ==
  ASSUME LaunchesInductive, NEW c \in Client, AskDeleteImage(c)  PROVE  LaunchesInductive'
<1>1. PICK g \in Image \ {Builtin} :
        /\ ~InUseBy(g)
        /\ desk' = [desk EXCEPT ![c] =
             [NoDesk EXCEPT !.pc = "unlinking", !.op = "image", !.image = g]]
  BY DEF AskDeleteImage
<1>2. PICK d : d = [NoDesk EXCEPT !.pc = "unlinking", !.op = "image", !.image = g]
  OBVIOUS
<1>3. d \in Desk /\ d.pc = "unlinking" /\ d.op = "image" /\ d.image = g /\ d.row = NoRow
  BY <1>2, LaunchesAssumption DEF NoDesk, Desk, NoRow, Row, RowStatus
<1>4. Carries(d)
  BY <1>3 DEF Carries, NoRow
<1>5. \A i \in Slot : ~(Live(i) /\ row[i].image = d.image)
  BY <1>1, <1>3 DEF InUseBy
<1>6. allowance' \in [asked : 0..MaxAsked, mishaps : 0..MaxMishaps]
  BY Allowances DEF AskDeleteImage, LaunchesInductive
<1>7. desk' = [desk EXCEPT ![c] = d] /\ UNCHANGED <<shelf, row, job, reading, directory, history>>
  BY <1>1, <1>2 DEF AskDeleteImage
<1> QED  BY <1>3, <1>4, <1>5, <1>6, <1>7, DeskOnly

\* Whoever still stands on the image has crossed.
LEMMA UnlinkImageKeeps ==
  ASSUME LaunchesInductive, NEW c \in Client, UnlinkImage(c)  PROVE  LaunchesInductive'
<1> USE DEF LaunchesInductive, directory, history
<1>1. PICK g \in Image \ {Builtin} : g = desk[c].image
  BY DEF UnlinkImage, AtDesk, Desks
<1>2. /\ desk[c] \in Desk /\ desk[c].pc = "unlinking"
      /\ store' = [store EXCEPT ![g].file = "none"]
      /\ desk' = [desk EXCEPT ![c].pc = "dropping"]
      /\ UNCHANGED <<catalog, importing, row, job, reading, directory, history, allowance>>
  BY <1>1 DEF UnlinkImage, AtDesk, LaunchesTypeOK
<1>3. PICK d : d = [desk[c] EXCEPT !.pc = "dropping"]
  OBVIOUS
<1>4. /\ d \in Desk /\ d.pc = "dropping" /\ d.row = desk[c].row /\ d.image = g
      /\ d.op = desk[c].op
      /\ desk' = [desk EXCEPT ![c] = d]
  BY <1>1, <1>2, <1>3 DEF Desk
<1>5. Carries(d)
  BY <1>4 DEF Carries, Desks
<1>6. desk' \in [Client -> Desk] /\ Desks' /\ Watched' /\ Covered'
  BY <1>2, <1>4, <1>5, DeskMoves
<1>7. PICK f : f = [store[g] EXCEPT !.file = "none"]
  OBVIOUS
<1>8. f \in StoreFile /\ f.file = "none" /\ store' = [store EXCEPT ![g] = f]
  BY <1>2, <1>7 DEF StoreFile, LaunchesTypeOK
<1>9. /\ store' \in [Image -> StoreFile]
      /\ \A x \in Image : store'[x].file = IF x = g THEN "none" ELSE store[x].file
  BY <1>8 DEF LaunchesTypeOK
<1>10. LaunchesTypeOK'
  BY <1>2, <1>6, <1>9 DEF LaunchesTypeOK
<1>11. Jobs' /\ Keyed' /\ Filed'
  BY <1>2 DEF Jobs, Keyed, Filed
<1>12. store'[Builtin].file = store[Builtin].file
  BY <1>1, <1>9, LaunchesAssumption
<1>13. Files'
  BY <1>2, <1>9, <1>12 DEF Files
<1>14. BackingIsWhole'
  <2> SUFFICES ASSUME NEW k \in Slot \ crossed, Live(k)', row'[k].overlay, job'[k] = "none",
                      row'[k].image = Builtin => ~tangled'
               PROVE  store'[row'[k].image].file = "whole"
    BY <1>2 DEF BackingIsWhole
  <2>1. row'[k].image = row[k].image /\ row[k].image \in Image /\ Live(k)
    BY <1>2 DEF Jobs, Live
  <2>2. row[k].image # g
    BY <1>1, <1>2, <2>1 DEF Watched
  <2>3. store[row[k].image].file = "whole"
    BY <1>2, <2>1 DEF BackingIsWhole
  <2> QED  BY <1>9, <2>1, <2>2, <2>3
<1> QED  BY <1>6, <1>10, <1>11, <1>13, <1>14

LEMMA DropImageKeeps ==
  ASSUME LaunchesInductive, NEW c \in Client, DropImage(c)  PROVE  LaunchesInductive'
<1> USE DEF LaunchesInductive, directory, history
<1>1. PICK d \in Desk : d = NoDesk
  BY EmptyDesk
<1>2. /\ desk' = [desk EXCEPT ![c] = d] /\ d.pc = "free" /\ Carries(d)
      /\ UNCHANGED <<store, importing, row, job, reading, directory, history, allowance>>
  BY <1>1, EmptyDesk DEF DropImage, LeaveDesk, NoDesk
<1>3. desk' \in [Client -> Desk] /\ Desks' /\ Watched' /\ Covered'
  BY <1>2, DeskMoves
<1>4. catalog' \in [Image -> ImageStatus]
  BY DEF DropImage, LaunchesTypeOK, ImageStatus
<1>5. LaunchesTypeOK'
  BY <1>2, <1>3, <1>4 DEF LaunchesTypeOK
<1>6. Jobs' /\ Files' /\ Keyed' /\ Filed' /\ BackingIsWhole'
  BY <1>2 DEF Jobs, Files, Keyed, Filed, BackingIsWhole, Live
<1> QED  BY <1>3, <1>5, <1>6

\* Only the directory and the allowance change, and no project goes.
LEMMA DirectoryOnly ==
  ASSUME LaunchesInductive, projects \subseteq projects', projects' \subseteq Project, keys' \subseteq Key,
         allowance' \in [asked : 0..MaxAsked, mishaps : 0..MaxMishaps],
         UNCHANGED <<shelf, row, job, desk, reading, history>>
  PROVE  LaunchesInductive'
<1> USE DEF LaunchesInductive, shelf, history
<1>1. LaunchesTypeOK'
  BY DEF LaunchesTypeOK
<1>2. Desks' /\ Jobs' /\ Files' /\ Keyed' /\ Filed'
  BY DEF Desks, Jobs, Files, Keyed, Filed
<1>3. Watched' /\ BackingIsWhole'
  BY DEF Watched, BackingIsWhole, Live
<1>4. Committed' = Committed
  BY DEF Committed
<1>5. Covered'
  BY <1>4 DEF Covered
<1> QED  BY <1>1, <1>2, <1>3, <1>5

LEMMA CreateProjectKeeps ==
  ASSUME LaunchesInductive, CreateProject  PROVE  LaunchesInductive'
<1>1. allowance' \in [asked : 0..MaxAsked, mishaps : 0..MaxMishaps]
  BY Allowances DEF CreateProject, LaunchesInductive
<1>2. projects \subseteq projects' /\ projects' \subseteq Project /\ keys' \subseteq Key
  BY DEF CreateProject, LaunchesInductive, LaunchesTypeOK
<1> QED  BY <1>1, <1>2, DirectoryOnly DEF CreateProject

LEMMA AddKeyKeeps ==
  ASSUME LaunchesInductive, AddKey  PROVE  LaunchesInductive'
<1>1. allowance' \in [asked : 0..MaxAsked, mishaps : 0..MaxMishaps]
  BY Allowances DEF AddKey, LaunchesInductive
<1>2. projects \subseteq projects' /\ projects' \subseteq Project /\ keys' \subseteq Key
  BY DEF AddKey, LaunchesInductive, LaunchesTypeOK
<1> QED  BY <1>1, <1>2, DirectoryOnly DEF AddKey

LEMMA DeleteKeyKeeps ==
  ASSUME LaunchesInductive, DeleteKey  PROVE  LaunchesInductive'
<1>1. allowance' \in [asked : 0..MaxAsked, mishaps : 0..MaxMishaps]
  BY Allowances DEF DeleteKey, LaunchesInductive
<1>2. projects \subseteq projects' /\ projects' \subseteq Project /\ keys' \subseteq Key
  BY DEF DeleteKey, LaunchesInductive, LaunchesTypeOK
<1> QED  BY <1>1, <1>2, DirectoryOnly DEF DeleteKey

LEMMA AskDeleteProjectKeeps ==
  ASSUME LaunchesInductive, NEW c \in Client, AskDeleteProject(c)  PROVE  LaunchesInductive'
<1>1. PICK p \in projects \ {DefaultProject} :
        desk' = [desk EXCEPT ![c] = [NoDesk EXCEPT !.pc = "moving", !.op = "project", !.project = p]]
  BY DEF AskDeleteProject
<1>2. PICK d : d = [NoDesk EXCEPT !.pc = "moving", !.op = "project", !.project = p]
  OBVIOUS
<1>3. /\ d \in Desk /\ d.pc = "moving" /\ d.op = "project" /\ d.project = p /\ d.row = NoRow
  BY <1>2, LaunchesAssumption
     DEF LaunchesInductive, LaunchesTypeOK, NoDesk, Desk, NoRow, Row, RowStatus
<1>4. Carries(d)
  BY <1>3 DEF Carries, NoRow
<1>5. allowance' \in [asked : 0..MaxAsked, mishaps : 0..MaxMishaps]
  BY Allowances DEF AskDeleteProject, LaunchesInductive
<1>6. desk' = [desk EXCEPT ![c] = d] /\ UNCHANGED <<shelf, row, job, reading, directory, history>>
  BY <1>1, <1>2 DEF AskDeleteProject
<1> QED  BY <1>3, <1>4, <1>5, <1>6, DeskOnly

\* Rows move to the project that is never dropped.
LEMMA DropProjectKeeps ==
  ASSUME LaunchesInductive, NEW c \in Client, DropProject(c)  PROVE  LaunchesInductive'
<1> USE DEF LaunchesInductive, shelf, history
<1>1. PICK p \in Project : p = desk[c].project
  BY DEF LaunchesTypeOK, Desk
<1>2. /\ desk[c].pc = "moving" /\ p # DefaultProject
      /\ row' = [i \in Slot |-> IF row[i].project = p
                              THEN [row[i] EXCEPT !.project = DefaultProject] ELSE row[i]]
      /\ projects' = projects \ {p} /\ desk' = [desk EXCEPT ![c] = NoDesk]
      /\ UNCHANGED <<shelf, job, reading, keys, history, allowance>>
  BY <1>1 DEF DropProject, AtDesk, Desks, LeaveDesk
<1>3. \A i \in Slot :
        /\ row'[i] \in Row
        /\ row'[i].st = row[i].st /\ row'[i].image = row[i].image
        /\ row'[i].overlay = row[i].overlay /\ row'[i].links = row[i].links
        /\ row'[i].installed = row[i].installed
        /\ row'[i].project = IF row[i].project = p THEN DefaultProject ELSE row[i].project
  <2> SUFFICES ASSUME NEW i \in Slot
               PROVE  /\ row'[i] \in Row
                      /\ row'[i].st = row[i].st /\ row'[i].image = row[i].image
                      /\ row'[i].overlay = row[i].overlay /\ row'[i].links = row[i].links
                      /\ row'[i].installed = row[i].installed
                      /\ row'[i].project = IF row[i].project = p THEN DefaultProject ELSE row[i].project
    OBVIOUS
  <2>1. row[i] \in Row
    BY DEF LaunchesTypeOK
  <2>2. CASE row[i].project = p
    <3>1. row'[i] = [row[i] EXCEPT !.project = DefaultProject]
      BY <1>2, <2>2
    <3> QED  BY <2>1, <2>2, <3>1, LaunchesAssumption DEF Row
  <2>3. CASE row[i].project # p
    BY <1>2, <2>1, <2>3
  <2> QED  BY <2>2, <2>3
<1>4. row' \in [Slot -> Row]
  <2>1. row' = [i \in Slot |-> row'[i]]
    BY <1>2
  <2> QED  BY <1>3, <2>1
<1>5. /\ desk'[c] = NoDesk /\ desk' \in [Client -> Desk]
      /\ \A k \in Client \ {c} : desk'[k] = desk[k]
  BY <1>2, EmptyDesk DEF LaunchesTypeOK
<1>6. LaunchesTypeOK'
  BY <1>2, <1>4, <1>5 DEF LaunchesTypeOK
<1>7. Desks'
  BY <1>5, EmptyDesk DEF Desks, NoDesk, NoRow
<1>8. Jobs' /\ Files' /\ Keyed'
  BY <1>2, <1>3 DEF Jobs, Files, Keyed
<1>9. Watched'
  <2> SUFFICES ASSUME NEW k \in Client, NEW m \in Slot, desk'[k].pc = "unlinking",
                      Live(m)', row'[m].image = desk'[k].image
               PROVE  m \in crossed'
    BY DEF Watched
  <2>1. k # c
    BY <1>5 DEF NoDesk
  <2> QED  BY <1>2, <1>3, <1>5, <2>1 DEF Watched, Live
<1>10. BackingIsWhole'
  BY <1>2, <1>3 DEF BackingIsWhole, Live
<1>11. Filed'
  BY <1>2, <1>3 DEF Filed
<1>12. Covered'
  <2>1. Committed' = Committed
    <3>1. {i \in Slot : row'[i].st \in {"Pending", "Provisioning", "Running"}}
            = {i \in Slot : row[i].st \in {"Pending", "Provisioning", "Running"}}
      BY <1>3
    <3> QED  BY <3>1 DEF Committed
  <2> QED  BY <1>2, <1>5, <2>1 DEF Covered, NoDesk
<1> QED  BY <1>6, <1>7, <1>8, <1>9, <1>10, <1>11, <1>12

-----------------------------------------------------------------------------
(***************************************************************************)
(* The service ends and starts again.                                      *)
(***************************************************************************)

LEMMA RebootKeeps ==
  ASSUME LaunchesInductive, Reboot  PROVE  LaunchesInductive'
<1> USE DEF LaunchesInductive, directory, history
<1>1. /\ job' = [i \in Slot |-> "none"]
      /\ desk' = [c \in Client |-> NoDesk]
      /\ importing' = {} /\ reading' = NoReading
      /\ row' = [i \in Slot |-> IF job[i] \in {"ready", "imaging", "fetching"}
                              THEN [row[i] EXCEPT !.overlay = FALSE] ELSE row[i]]
      /\ catalog' = [catalog EXCEPT ![Builtin] =
           IF store[Builtin].file = "none" THEN "Importing" ELSE "Available"]
      /\ UNCHANGED <<store, directory, history>>
  BY DEF Reboot
<1>2. \A i \in Slot :
        /\ row'[i] \in Row
        /\ row'[i].st = row[i].st /\ row'[i].image = row[i].image
        /\ row'[i].project = row[i].project /\ row'[i].links = row[i].links
        /\ row'[i].installed = row[i].installed
        /\ row'[i].overlay => row[i].overlay /\ job[i] = "none"
  <2> SUFFICES ASSUME NEW i \in Slot
               PROVE  /\ row'[i] \in Row
                      /\ row'[i].st = row[i].st /\ row'[i].image = row[i].image
                      /\ row'[i].project = row[i].project /\ row'[i].links = row[i].links
                      /\ row'[i].installed = row[i].installed
                      /\ row'[i].overlay => row[i].overlay /\ job[i] = "none"
    OBVIOUS
  <2>1. row[i] \in Row /\ job[i] \in Job
    BY RowFacts
  <2>2. CASE job[i] # "none"
    <3>1. row'[i] = [row[i] EXCEPT !.overlay = FALSE]
      BY <1>1, <2>1, <2>2 DEF Job
    <3> QED  BY <2>1, <3>1 DEF Row
  <2>3. CASE job[i] = "none"
    BY <1>1, <2>1, <2>3
  <2> QED  BY <2>2, <2>3
<1>3. row' \in [Slot -> Row]
  <2>1. row' = [i \in Slot |-> row'[i]]
    BY <1>1
  <2> QED  BY <1>2, <2>1
<1>4. allowance' \in [asked : 0..MaxAsked, mishaps : 0..MaxMishaps]
  BY Allowances DEF Reboot
<1>5. catalog' \in [Image -> ImageStatus]
  BY <1>1 DEF LaunchesTypeOK, ImageStatus
<1>6. desk' \in [Client -> Desk] /\ \A c \in Client : desk'[c] = NoDesk
  BY <1>1, EmptyDesk
<1>7. job' \in [Slot -> {"none", "ready", "imaging", "fetching"}] /\ \A i \in Slot : job'[i] = "none"
  BY <1>1
<1>8. LaunchesTypeOK'
  BY <1>1, <1>3, <1>4, <1>5, <1>6, <1>7 DEF LaunchesTypeOK
<1>9. Desks'
  BY <1>6, EmptyDesk DEF Desks, NoDesk, NoRow
<1>10. Jobs' /\ Files' /\ Keyed' /\ Filed'
  BY <1>1, <1>2, <1>7 DEF Jobs, Files, Keyed, Filed
<1>11. Watched' /\ BackingIsWhole'
  BY <1>1, <1>2, <1>6, <1>7 DEF Watched, BackingIsWhole, Live, NoDesk
<1>12. Covered'
  <2>1. Committed' = Committed
    <3>1. {i \in Slot : row'[i].st \in {"Pending", "Provisioning", "Running"}}
            = {i \in Slot : row[i].st \in {"Pending", "Provisioning", "Running"}}
      BY <1>2
    <3> QED  BY <3>1 DEF Committed
  <2> QED  BY <1>1, <1>6, <2>1 DEF Covered, NoDesk
<1> QED  BY <1>8, <1>9, <1>10, <1>11, <1>12

-----------------------------------------------------------------------------
(***************************************************************************)
(* The theorems.                                                           *)
(***************************************************************************)

LEMMA LaunchesStarts ==
  ASSUME LaunchesInit  PROVE  LaunchesInductive
<1> USE LaunchesAssumption DEF LaunchesInit
<1>1. PICK have \in SUBSET (Image \ {Builtin}) :
        catalog = [g \in Image |-> IF g = Builtin THEN "Importing"
                                  ELSE IF g \in have THEN "Available" ELSE "none"]
  OBVIOUS
<1>2. catalog \in [Image -> ImageStatus]
  BY <1>1 DEF ImageStatus
<1>3. \A g \in Image : store[g] \in StoreFile /\ store[g].file # "holed"
  BY DEF StoreFile
<1>4. store \in [Image -> StoreFile]
  <2>1. store = [g \in Image |-> store[g]]
    OBVIOUS
  <2> QED  BY <1>3, <2>1
<1>5. \A i \in Slot : row[i] = NoRow
  OBVIOUS
<1>6. row \in [Slot -> Row] /\ desk \in [Client -> Desk] /\ \A c \in Client : desk[c] = NoDesk
  BY EmptyDesk
<1>7. allowance \in [asked : 0..MaxAsked, mishaps : 0..MaxMishaps]
  OBVIOUS
<1>8. LaunchesTypeOK
  BY <1>2, <1>4, <1>6, <1>7 DEF LaunchesTypeOK
<1>9. Desks /\ Watched
  BY <1>6, EmptyDesk DEF Desks, Watched, NoDesk, NoRow
<1>10. Jobs /\ Keyed /\ Filed /\ BackingIsWhole
  BY <1>5 DEF Jobs, Keyed, Filed, BackingIsWhole, Live, NoRow
<1>11. Files
  BY <1>3 DEF Files
<1>12. Covered
  <2>1. {i \in Slot : row[i].st \in {"Pending", "Provisioning", "Running"}} = {}
    BY <1>5 DEF NoRow
  <2>2. Committed = 0
    BY <2>1, FS_EmptySet DEF Committed
  <2> QED  BY <1>6, <2>2 DEF Covered, NoDesk
<1> QED  BY <1>8, <1>9, <1>10, <1>11, <1>12 DEF LaunchesInductive

LEMMA LaunchesRests ==
  ASSUME LaunchesInductive, UNCHANGED launchesVars  PROVE  LaunchesInductive'
<1>1. projects \subseteq projects' /\ projects' \subseteq Project /\ keys' \subseteq Key
  BY DEF launchesVars, directory, LaunchesInductive, LaunchesTypeOK
<1>2. allowance' \in [asked : 0..MaxAsked, mishaps : 0..MaxMishaps]
  BY DEF launchesVars, LaunchesInductive, LaunchesTypeOK
<1> QED  BY <1>1, <1>2, DirectoryOnly DEF launchesVars

LEMMA LaunchesSteps ==
  ASSUME LaunchesInductive, LaunchesNext  PROVE  LaunchesInductive'
<1>1. ASSUME NEW c \in Client,
             \/ AskLaunch(c) \/ AskClone(c) \/ Poll(c) \/ StoreReading(c) \/ NoRoom(c) \/ Insert(c)
             \/ AskImport(c) \/ AskDeleteImage(c) \/ UnlinkImage(c) \/ DropImage(c)
             \/ AskDeleteProject(c) \/ DropProject(c)
      PROVE  LaunchesInductive'
  BY <1>1, AskLaunchKeeps, AskCloneKeeps, PollKeeps, StoreReadingKeeps, NoRoomKeeps, InsertKeeps,
     AskImportKeeps, AskDeleteImageKeeps, UnlinkImageKeeps, DropImageKeeps,
     AskDeleteProjectKeeps, DropProjectKeeps
<1>2. ASSUME NEW i \in Slot,
             \/ BeginFails(i) \/ Begin(i) \/ Download(i) \/ Downloaded(i) \/ DownloadFails(i)
             \/ BuildOverlay(i) \/ BuildOverlayFails(i) \/ BootFailsOnImage(i)
             \/ CloneDone(i) \/ CloneFails(i)
             \/ Halt(i) \/ Resume(i) \/ Terminate(i)
      PROVE  LaunchesInductive'
  BY <1>2, BeginFailsKeeps, BeginKeeps, DownloadKeeps, DownloadedKeeps, DownloadFailsKeeps,
     BuildOverlayKeeps, BuildOverlayFailsKeeps, BootFailsOnImageKeeps, CloneDoneKeeps,
     CloneFailsKeeps, HaltKeeps, ResumeKeeps, TerminateKeeps
<1>3. ASSUME NEW g \in Image, Imported(g) \/ ImportFails(g)  PROVE  LaunchesInductive'
  BY <1>3, ImportedKeeps, ImportFailsKeeps
<1>4. CASE Expire \/ CreateProject \/ AddKey \/ DeleteKey \/ Reboot
  BY <1>4, ExpireKeeps, CreateProjectKeeps, AddKeyKeeps, DeleteKeyKeeps, RebootKeeps
<1> QED  BY <1>1, <1>2, <1>3, <1>4 DEF LaunchesNext

LEMMA LaunchesInvariant == LaunchesSpec => []LaunchesInductive
<1>1. LaunchesInductive /\ [LaunchesNext]_launchesVars => LaunchesInductive'
  BY LaunchesSteps, LaunchesRests
<1> QED  BY <1>1, LaunchesStarts, PTL DEF LaunchesSpec

\* What the run checks follows from the inductive invariant.
LEMMA LaunchesPromises ==
  ASSUME LaunchesInductive
  PROVE  LaunchesTypeOK /\ BackingIsWhole /\ CommittedFits /\ RowsHaveTheirParts
BY DEF LaunchesInductive, Covered, CommittedFits, RowsHaveTheirParts, Keyed, Filed

\* For any number of rows, images and clients, and whatever is deleted,
\* fails or is downloaded twice: the disk of an instance stands on a file
\* that is there and complete, but for the exemptions the property names
\* (delete_image, ensure_base_image).
THEOREM Backing == LaunchesSpec => []BackingIsWhole
<1>1. LaunchesInductive => BackingIsWhole
  BY LaunchesPromises
<1> QED  BY <1>1, LaunchesInvariant, PTL

\* For any room on the host and any number of clients: launches that are
\* checked one after another never take more than there is, whatever the
\* cache holds (get_capacity, invalidate_cache).
THEOREM Fits == LaunchesSpec => []CommittedFits
<1>1. LaunchesInductive => CommittedFits
  BY LaunchesPromises
<1> QED  BY <1>1, LaunchesInvariant, PTL

\* For any projects and keys: a row is filed under a project that exists,
\* and a guest launched with keys has one of them (delete_project,
\* instance_public_keys).
THEOREM Parts == LaunchesSpec => []RowsHaveTheirParts
<1>1. LaunchesInductive => RowsHaveTheirParts
  BY LaunchesPromises
<1> QED  BY <1>1, LaunchesInvariant, PTL

\* Every variable of Launches keeps its type.
THEOREM LaunchesTypes == LaunchesSpec => []LaunchesTypeOK
<1>1. LaunchesInductive => LaunchesTypeOK
  BY LaunchesPromises
<1> QED  BY <1>1, LaunchesInvariant, PTL
=============================================================================
