------------------------------ MODULE Launches ------------------------------
(***************************************************************************)
(* What a launch is made from: an image of the catalog, a project to file  *)
(* it under, key pairs to install, and room on the host.                   *)
(*                                                                         *)
(* A request checks all of these, inserts its row later, and a job looks   *)
(* again later still.  Meanwhile images, projects and keys are deleted,    *)
(* each with a check of its own, and the base image is downloaded by       *)
(* whichever launch needs it first.  Instances are of one size, so room is *)
(* counted in instances.                                                   *)
(***************************************************************************)
EXTENDS Integers, FiniteSets

CONSTANTS
  Slot,       \* rows of the instances table
  Image,      \* rows of the images table
  Builtin,    \* the shipped cloud image, downloaded when first needed
  NoImage,    \* an instance that stands on no image
  Project, DefaultProject,
  Key,        \* key pairs
  Wish,       \* what is asked for: a project and key pairs
  Client,     \* threads running requests
  Room,       \* instances the host has memory for, after its reserve
  NoReading,  \* nothing measured
  MaxAsked,   \* bound: requests
  MaxMishaps  \* bound: failures and crashes

ASSUME LaunchesAssumption ==
  /\ Builtin \in Image /\ NoImage \notin Image
  /\ DefaultProject \in Project
  /\ Wish \subseteq [project : Project, links : SUBSET Key]
  /\ IsFiniteSet(Slot)
  /\ NoReading \notin Nat
  /\ Room \in Nat /\ MaxAsked \in Nat /\ MaxMishaps \in Nat

VARIABLES
  catalog,   \* status of each image
  store,     \* its file, and the partial file beside it
  importing, \* images whose import or fetch job runs
  row,       \* the instances
  job,       \* the job of each instance
  desk,      \* what each client's request is doing
  reading,   \* host_capacity's cached answer: the room that is left
  projects, keys, \* the rows of those tables
  crossed,   \* history: rows inserted past a delete in progress
  tangled,   \* history: two downloads shared the partial file
  unchecked, \* history: room was taken without, or beside, a check
  allowance  \* requests and mishaps left

shelf        == <<catalog, store, importing>>
directory    == <<projects, keys>>
history      == <<crossed, tangled, unchecked>>
launchesVars == <<shelf, row, job, desk, reading, directory, history, allowance>>

-----------------------------------------------------------------------------
ImageStatus == {"none", "Importing", "Available", "Error"}

\* "holed": in place with some of its bytes missing.
StoreFile == [file : {"none", "holed", "whole"}, part : {"none", "cut"}]

RowStatus == {"none", "Pending", "Provisioning", "Running", "Stopped", "Error", "Terminated"}

\* image is what the row says, overlay whether the disk stands on it.
Row == [st : RowStatus, image : Image \union {NoImage}, overlay : BOOLEAN,
        project : Project, links : SUBSET Key, installed : SUBSET Key]

NoRow == [st |-> "none", image |-> NoImage, overlay |-> FALSE,
          project |-> DefaultProject, links |-> {}, installed |-> {}]

Desk ==
  [pc : {"free", "measuring", "checked", "unlinking", "dropping", "moving"},
   op : {"none", "launch", "poll", "image", "project"},
   seen : Nat \union {NoReading}, row : Row, image : Image \union {NoImage}, project : Project]

NoDesk == [pc |-> "free", op |-> "none", seen |-> NoReading, row |-> NoRow,
           image |-> NoImage, project |-> DefaultProject]

Live(i)   == row[i].st \notin {"none", "Terminated"}

\* _committed: stopped and failed instances hold no memory.
Committed == Cardinality({i \in Slot : row[i].st \in {"Pending", "Provisioning", "Running"}})

\* _image_is_launchable
Launchable(g) ==
  \/ catalog[g] = "Available"
  \/ g = Builtin /\ catalog[g] = "Importing"

\* Mutant: room taken twice over is counted below zero.
RoomLeftUnclamped == Room - Committed

\* compute_capacity
RoomLeft == IF Committed >= Room THEN 0 ELSE Room - Committed

AtDesk(c, pc) == desk[c].pc = pc
LeaveDesk(c)  == desk' = [desk EXCEPT ![c] = NoDesk]
Mishap        == allowance.mishaps > 0 /\ allowance' = [allowance EXCEPT !.mishaps = @ - 1]
Asked         == allowance.asked > 0 /\ allowance' = [allowance EXCEPT !.asked = @ - 1]

-----------------------------------------------------------------------------
(***************************************************************************)
(* create_instance, clone_instance; GET of the capacity.                   *)
(***************************************************************************)

\* get_capacity: the cached answer, or one that is computed now and stored
\* later.
LookUp(c, r) ==
  /\ AtDesk(c, "free") /\ Asked
  /\ desk' = [desk EXCEPT ![c] =
       [r EXCEPT !.seen = IF reading = NoReading THEN RoomLeft ELSE reading,
                 !.pc   = IF reading = NoReading THEN "measuring" ELSE "checked"]]
  /\ UNCHANGED <<shelf, row, job, reading, directory, history>>

\* Image, project and keys are looked up; the keys of an instance may be none.
AskLaunch(c) ==
  \E g \in {g \in Image : Launchable(g)}, w \in Wish :
    /\ w.project \in projects /\ w.links \subseteq keys
    /\ LookUp(c, [NoDesk EXCEPT !.op = "launch", !.row =
         [NoRow EXCEPT !.st = "Pending", !.image = g, !.overlay = TRUE,
                       !.project = w.project, !.links = w.links]])

\* A stopped instance is copied into a disk of its own.  The row keeps the
\* image and the project, and the links to keys that are still there; the
\* disk has the keys that were installed.
AskClone(c) == \E s \in {s \in Slot : row[s].st = "Stopped"} :
  LookUp(c, [NoDesk EXCEPT !.op = "launch", !.row =
    [row[s] EXCEPT !.st = "Pending", !.overlay = FALSE, !.links = @ \intersect keys]])

Poll(c) == LookUp(c, [NoDesk EXCEPT !.op = "poll"])

StoreReading(c) ==
  /\ AtDesk(c, "measuring")
  /\ reading' = desk[c].seen
  /\ desk' = [desk EXCEPT ![c].pc = "checked"]
  /\ UNCHANGED <<shelf, row, job, directory, history, allowance>>

\* _validate_sizing
NoRoom(c) ==
  /\ AtDesk(c, "checked")
  /\ desk[c].op = "poll" \/ desk[c].seen = 0
  /\ LeaveDesk(c)
  /\ UNCHANGED <<shelf, row, job, reading, directory, history, allowance>>

\* A row was inserted past a check that did not see it.
Crosses(r) ==
  \/ r.project \notin projects
  \/ \E c \in Client : \/ AtDesk(c, "moving") /\ desk[c].project = r.project
                       \/ desk[c].pc \in {"unlinking", "dropping"} /\ desk[c].image = r.image

\* Mutant: the cached answer is kept.
InsertAndKeepReading(c) == \E i \in {i \in Slot : row[i].st = "none"} :
  /\ AtDesk(c, "checked") /\ desk[c].op = "launch" /\ desk[c].seen > 0
  /\ row' = [row EXCEPT ![i] = desk[c].row]
  /\ job' = [job EXCEPT ![i] = "ready"]
  /\ crossed' = IF Crosses(desk[c].row) THEN crossed \union {i} ELSE crossed
  /\ unchecked' = (unchecked \/ \E k \in Client \ {c} : desk[k].pc \in {"measuring", "checked"})
  /\ LeaveDesk(c)
  /\ UNCHANGED <<shelf, reading, directory, tangled, allowance>>

\* The row and its links, then invalidate_cache, then the job.
Insert(c) == \E i \in {i \in Slot : row[i].st = "none"} :
  /\ AtDesk(c, "checked") /\ desk[c].op = "launch" /\ desk[c].seen > 0
  /\ row' = [row EXCEPT ![i] = desk[c].row]
  /\ job' = [job EXCEPT ![i] = "ready"]
  /\ reading' = NoReading
  /\ crossed' = IF Crosses(desk[c].row) THEN crossed \union {i} ELSE crossed
  /\ unchecked' = (unchecked \/ \E k \in Client \ {c} : desk[k].pc \in {"measuring", "checked"})
  /\ LeaveDesk(c)
  /\ UNCHANGED <<shelf, directory, tangled, allowance>>

\* capacity_cache_seconds have passed.
Expire ==
  /\ reading # NoReading
  /\ reading' = NoReading
  /\ UNCHANGED <<shelf, row, job, desk, directory, history, allowance>>

-----------------------------------------------------------------------------
(***************************************************************************)
(* The job: _provision_job and the part of provision_instance that builds  *)
(* the disk, _clone_job.                                                   *)
(***************************************************************************)

JobFails(i) ==
  /\ row' = [row EXCEPT ![i].st = "Error", ![i].overlay = FALSE]
  /\ job' = [job EXCEPT ![i] = "none"]

Usable(i) == row[i].links \intersect keys

\* _build_launch_options, instance_public_keys: the image or every key has
\* gone since.
BeginFails(i) ==
  /\ job[i] = "ready" /\ row[i].overlay
  /\ \/ ~Launchable(row[i].image)
     \/ row[i].links # {} /\ Usable(i) = {}
  /\ JobFails(i)
  /\ UNCHANGED <<shelf, desk, reading, directory, history, allowance>>

\* Mutant: the guest gets what keys there are.
BeginRegardless(i) ==
  /\ job[i] = "ready" /\ row[i].overlay
  /\ Launchable(row[i].image)
  /\ row' = [row EXCEPT ![i].st = "Provisioning", ![i].installed = Usable(i)]
  /\ job' = [job EXCEPT ![i] = "imaging"]
  /\ UNCHANGED <<shelf, desk, reading, directory, history, allowance>>

Begin(i) ==
  /\ job[i] = "ready" /\ row[i].overlay
  /\ Launchable(row[i].image)
  /\ row[i].links = {} \/ Usable(i) # {}
  /\ row' = [row EXCEPT ![i].st = "Provisioning", ![i].installed = Usable(i)]
  /\ job' = [job EXCEPT ![i] = "imaging"]
  /\ UNCHANGED <<shelf, desk, reading, directory, history, allowance>>

\* Mutant: the base image is written in place.
DownloadInPlace(i) ==
  /\ job[i] = "imaging" /\ row[i].image = Builtin
  /\ store[Builtin].file = "none"
  /\ store' = [store EXCEPT ![Builtin] = [file |-> "holed", part |-> "cut"]]
  /\ tangled' = (tangled \/ \E k \in Slot : job[k] = "fetching")
  /\ job' = [job EXCEPT ![i] = "fetching"]
  /\ UNCHANGED <<catalog, importing, row, desk, reading, directory, crossed, unchecked, allowance>>

\* ensure_base_image opens the partial file, which is one for all.
Download(i) ==
  /\ job[i] = "imaging" /\ row[i].image = Builtin
  /\ store[Builtin].file = "none"
  /\ store' = [store EXCEPT ![Builtin].part = "cut"]
  /\ tangled' = (tangled \/ \E k \in Slot : job[k] = "fetching")
  /\ job' = [job EXCEPT ![i] = "fetching"]
  /\ UNCHANGED <<catalog, importing, row, desk, reading, directory, crossed, unchecked, allowance>>

\* The stream ends and the partial file is put in place.  Another download
\* that still writes to it leaves holes until it ends; then it finds nothing
\* to put in place, and its launch fails.
Downloaded(i) ==
  LET others == {k \in Slot \ {i} : job[k] = "fetching"} IN
  /\ job[i] = "fetching"
  /\ IF store[Builtin].part = "none"
       THEN /\ store' = [store EXCEPT ![Builtin].file = IF @ = "holed" THEN "whole" ELSE @]
            /\ JobFails(i)
       ELSE /\ store' = [store EXCEPT ![Builtin] =
                 [file |-> IF others = {} THEN "whole" ELSE "holed", part |-> "none"]]
            /\ job' = [job EXCEPT ![i] = "imaging"] /\ UNCHANGED row
  /\ UNCHANGED <<catalog, importing, desk, reading, directory, history, allowance>>

\* The network or the disk failed, or the file was empty.
DownloadFails(i) ==
  /\ job[i] = "fetching"
  /\ Mishap
  /\ store' = [store EXCEPT ![Builtin].part = "none"]
  /\ JobFails(i)
  /\ UNCHANGED <<catalog, importing, desk, reading, directory, history>>

\* sync_builtin_image, after a launch.
Synced == IF store[Builtin].file = "none" THEN catalog
          ELSE [catalog EXCEPT ![Builtin] = "Available"]

\* An overlay on a file that is there, whatever is in it, and the guest
\* boots.
BuildOverlay(i) ==
  /\ job[i] = "imaging"
  /\ store[row[i].image].file # "none"
  /\ row' = [row EXCEPT ![i].st = "Running"]
  /\ job' = [job EXCEPT ![i] = "none"]
  /\ catalog' = Synced
  /\ UNCHANGED <<store, importing, desk, reading, directory, history, allowance>>

\* The backing file is not there; or qemu-img fails and the directory goes.
BuildOverlayFails(i) ==
  /\ job[i] = "imaging"
  /\ IF row[i].image # Builtin /\ store[row[i].image].file = "none"
       THEN UNCHANGED allowance ELSE Mishap
  /\ JobFails(i)
  /\ UNCHANGED <<shelf, desk, reading, directory, history>>

\* The guest did not come up; its directory stays, on its image.
BootFailsOnImage(i) ==
  /\ job[i] = "imaging" /\ store[row[i].image].file # "none"
  /\ Mishap
  /\ row' = [row EXCEPT ![i].st = "Error"]
  /\ job' = [job EXCEPT ![i] = "none"]
  /\ UNCHANGED <<shelf, desk, reading, directory, history>>

\* A seed with what keys there are, on a disk that has the old ones.
CloneDone(i) ==
  /\ job[i] = "ready" /\ ~row[i].overlay
  /\ row' = [row EXCEPT ![i].st = "Running", ![i].installed = @ \union Usable(i)]
  /\ job' = [job EXCEPT ![i] = "none"]
  /\ UNCHANGED <<shelf, desk, reading, directory, history, allowance>>

CloneFails(i) ==
  /\ job[i] = "ready" /\ ~row[i].overlay
  /\ Mishap
  /\ JobFails(i)
  /\ UNCHANGED <<shelf, desk, reading, directory, history>>

-----------------------------------------------------------------------------
(***************************************************************************)
(* The rest of an instance's life, as far as it takes room or lets go of   *)
(* an image.                                                               *)
(***************************************************************************)

Halt(i) ==
  /\ row[i].st = "Running"
  /\ row' = [row EXCEPT ![i].st = "Stopped"]
  /\ UNCHANGED <<shelf, job, desk, reading, directory, history, allowance>>

\* Starting takes room nobody checks, and leaves the cached answer as it is.
Resume(i) ==
  /\ row[i].st = "Stopped" /\ Asked
  /\ row' = [row EXCEPT ![i].st = "Running"]
  /\ unchecked' = TRUE
  /\ UNCHANGED <<shelf, job, desk, reading, directory, crossed, tangled>>

Terminate(i) ==
  /\ Live(i) /\ job[i] = "none" /\ Asked
  /\ row' = [row EXCEPT ![i].st = "Terminated", ![i].overlay = FALSE]
  /\ UNCHANGED <<shelf, job, desk, reading, directory, history>>

-----------------------------------------------------------------------------
(***************************************************************************)
(* Images                                                                  *)
(***************************************************************************)

\* import_image, fetch_image: the row, then the job.
AskImport(c) == \E g \in Image \ {Builtin} :
  /\ AtDesk(c, "free") /\ Asked
  /\ catalog[g] = "none" /\ g \notin importing
  /\ store[g].file = "none"
  /\ \A i \in Slot : row[i].image # g
  /\ \A k \in Client : desk[k].row.image # g
  /\ catalog' = [catalog EXCEPT ![g] = "Importing"]
  /\ importing' = importing \union {g}
  /\ store' = [store EXCEPT ![g].part = "cut"]
  /\ UNCHANGED <<row, job, desk, reading, directory, history>>

\* copy_into_store, fetch_into_store put the file in place when it is
\* complete.  If the row was deleted meanwhile, its update fails and the
\* file stays.
Imported(g) ==
  /\ g \in importing
  /\ importing' = importing \ {g}
  /\ store' = [store EXCEPT ![g] = [file |-> "whole", part |-> "none"]]
  /\ catalog' = IF catalog[g] = "none" THEN catalog ELSE [catalog EXCEPT ![g] = "Available"]
  /\ UNCHANGED <<row, job, desk, reading, directory, history, allowance>>

ImportFails(g) ==
  /\ g \in importing
  /\ Mishap
  /\ importing' = importing \ {g}
  /\ store' = [store EXCEPT ![g].part = "none"]
  /\ catalog' = IF catalog[g] = "none" THEN catalog ELSE [catalog EXCEPT ![g] = "Error"]
  /\ UNCHANGED <<row, job, desk, reading, directory, history>>

\* The users of an image: stopped and failed instances count.
InUseBy(g) == \E i \in Slot : Live(i) /\ row[i].image = g

AskDeleteImage(c) == \E g \in Image \ {Builtin} :
  /\ AtDesk(c, "free") /\ Asked
  /\ catalog[g] # "none"
  /\ ~InUseBy(g)
  /\ desk' = [desk EXCEPT ![c] =
       [NoDesk EXCEPT !.pc = "unlinking", !.op = "image", !.image = g]]
  /\ UNCHANGED <<shelf, row, job, reading, directory, history>>

UnlinkImage(c) ==
  /\ AtDesk(c, "unlinking")
  /\ store' = [store EXCEPT ![desk[c].image].file = "none"]
  /\ desk' = [desk EXCEPT ![c].pc = "dropping"]
  /\ UNCHANGED <<catalog, importing, row, job, reading, directory, history, allowance>>

DropImage(c) ==
  /\ AtDesk(c, "dropping")
  /\ catalog' = [catalog EXCEPT ![desk[c].image] = "none"]
  /\ LeaveDesk(c)
  /\ UNCHANGED <<store, importing, row, job, reading, directory, history, allowance>>

-----------------------------------------------------------------------------
(***************************************************************************)
(* Projects and key pairs                                                  *)
(***************************************************************************)

\* An identifier is not used again.
CreateProject == \E p \in Project \ projects :
  /\ Asked
  /\ \A i \in Slot : row[i].project # p
  /\ \A k \in Client : desk[k].row.project # p
  /\ projects' = projects \union {p}
  /\ UNCHANGED <<shelf, row, job, desk, reading, keys, history>>

AskDeleteProject(c) == \E p \in projects \ {DefaultProject} :
  /\ AtDesk(c, "free") /\ Asked
  /\ ~\E i \in Slot : Live(i) /\ row[i].project = p
  /\ desk' = [desk EXCEPT ![c] =
       [NoDesk EXCEPT !.pc = "moving", !.op = "project", !.project = p]]
  /\ UNCHANGED <<shelf, row, job, reading, directory, history>>

\* Everything filed under it by now moves to the default project.
DropProject(c) == LET p == desk[c].project IN
  /\ AtDesk(c, "moving")
  /\ row' = [i \in Slot |-> IF row[i].project = p
                              THEN [row[i] EXCEPT !.project = DefaultProject] ELSE row[i]]
  /\ projects' = projects \ {p}
  /\ LeaveDesk(c)
  /\ UNCHANGED <<shelf, job, reading, keys, history, allowance>>

\* import_keypair, generate
AddKey == \E k \in Key \ keys :
  /\ Asked
  /\ \A i \in Slot : k \notin row[i].links
  /\ \A c \in Client : k \notin desk[c].row.links
  /\ keys' = keys \union {k}
  /\ UNCHANGED <<shelf, row, job, desk, reading, projects, history>>

\* Whoever was launched with it: the links stay.
DeleteKey == \E k \in keys :
  /\ Asked
  /\ keys' = keys \ {k}
  /\ UNCHANGED <<shelf, row, job, desk, reading, projects, history>>

-----------------------------------------------------------------------------
\* The service ends and starts again: jobs and requests are gone, partial
\* files and rows stay, the cache is empty, and ensure_builtin_image looks.
Reboot ==
  /\ Mishap
  /\ job' = [i \in Slot |-> "none"]
  /\ desk' = [c \in Client |-> NoDesk]
  /\ importing' = {}
  /\ reading' = NoReading
  /\ row' = [i \in Slot |-> IF job[i] \in {"ready", "imaging", "fetching"}
                              THEN [row[i] EXCEPT !.overlay = FALSE] ELSE row[i]]
  /\ catalog' = [catalog EXCEPT ![Builtin] =
       IF store[Builtin].file = "none" THEN "Importing" ELSE "Available"]
  /\ UNCHANGED <<store, directory, history>>

LaunchesInit ==
  /\ \E have \in SUBSET (Image \ {Builtin}) :
       catalog = [g \in Image |-> IF g = Builtin THEN "Importing"
                                 ELSE IF g \in have THEN "Available" ELSE "none"]
  /\ store = [g \in Image |->
       [file |-> IF catalog[g] = "Available" THEN "whole" ELSE "none", part |-> "none"]]
  /\ importing = {}
  /\ row = [i \in Slot |-> NoRow]
  /\ job = [i \in Slot |-> "none"]
  /\ desk = [c \in Client |-> NoDesk]
  /\ reading = NoReading
  /\ projects = Project /\ keys = Key
  /\ crossed = {} /\ tangled = FALSE /\ unchecked = FALSE
  /\ allowance = [asked |-> MaxAsked, mishaps |-> MaxMishaps]

LaunchesNext ==
  \/ \E c \in Client :
       \/ AskLaunch(c) \/ AskClone(c) \/ Poll(c) \/ StoreReading(c) \/ NoRoom(c) \/ Insert(c)
       \/ AskImport(c) \/ AskDeleteImage(c) \/ UnlinkImage(c) \/ DropImage(c)
       \/ AskDeleteProject(c) \/ DropProject(c)
  \/ \E i \in Slot :
       \/ BeginFails(i) \/ Begin(i) \/ Download(i) \/ Downloaded(i) \/ DownloadFails(i)
       \/ BuildOverlay(i) \/ BuildOverlayFails(i) \/ BootFailsOnImage(i)
       \/ CloneDone(i) \/ CloneFails(i)
       \/ Halt(i) \/ Resume(i) \/ Terminate(i)
  \/ \E g \in Image : Imported(g) \/ ImportFails(g)
  \/ Expire \/ CreateProject \/ AddKey \/ DeleteKey \/ Reboot

LaunchesSpec == LaunchesInit /\ [][LaunchesNext]_launchesVars

-----------------------------------------------------------------------------
LaunchesTypeOK ==
  /\ catalog \in [Image -> ImageStatus]
  /\ store \in [Image -> StoreFile]
  /\ importing \subseteq Image
  /\ row \in [Slot -> Row]
  /\ job \in [Slot -> {"none", "ready", "imaging", "fetching"}]
  /\ desk \in [Client -> Desk]
  /\ reading \in Nat \union {NoReading}
  /\ projects \subseteq Project /\ keys \subseteq Key
  /\ crossed \subseteq Slot /\ tangled \in BOOLEAN /\ unchecked \in BOOLEAN
  /\ allowance \in [asked : 0..MaxAsked, mishaps : 0..MaxMishaps]

\* The disk of an instance that is not terminated stands on a file that is
\* there and complete, through deletes, failed downloads and crashes
\* (delete_image, ensure_base_image), unless its row was inserted after a
\* delete had looked for users, or two launches downloaded at once.
BackingIsWhole ==
  \A i \in Slot \ crossed :
    /\ Live(i) /\ row[i].overlay /\ job[i] = "none"
    /\ row[i].image = Builtin => ~tangled
    => store[row[i].image].file = "whole"

\* The cached answer never lets in more than the host has room for: launches
\* one after another are each checked against what the ones before took
\* (get_capacity, invalidate_cache).  Two at once, a poll beside a launch,
\* and starting a stopped instance are not covered by the code.
CommittedFits == unchecked \/ Committed =< Room

\* A row is filed under a project that exists, and a guest that was launched
\* with keys has one of them, whatever is deleted between the request and
\* the job (delete_project, instance_public_keys).
RowsHaveTheirParts ==
  /\ \A i \in Slot \ crossed : row[i].project \in projects
  /\ \A i \in Slot : row[i].st = "Running" /\ row[i].links # {} => row[i].installed # {}
=============================================================================
