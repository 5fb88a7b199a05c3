-------------------------------- MODULE FileCtl --------------------------------
(***************************************************************************)
(* r1-filectl, mods/r1-filectl/src/r1_filectl.c: the commands by which R1  *)
(* Manager changes the microSD card.  Every command that writes holds one  *)
(* file lock from context_open to its exit, so there is at most one such   *)
(* command (job) at a time; but it is a sequence of system calls, any of   *)
(* which may fail, and it may be killed, or the power cut, between two of  *)
(* them.  SCP writes a staged payload without the lock, at any time.       *)
(*                                                                         *)
(* A file of the library is opaque: a song, or a folder tree that one      *)
(* rename moves.  A private directory (slot) is what mkdir of an id makes  *)
(* under .r1-manager/trash or .r1-manager/incoming: a metadata file and an *)
(* item (the trashed file, or payload.part).                               *)
(***************************************************************************)
EXTENDS Integers

CONSTANTS Dirs,      \* folders of the library
          Root,      \* the one that always exists
          Names,     \* names of files
          Places,    \* the paths in use: pairs of a folder and a name
          Stock,     \* the songs that are on the card at first
          Ids,       \* what identifier() may return; each is returned once
          Size,      \* the size of a song, and of each upload that is prepared
          None       \* no file, no path, no identifier

Policies == {"fail", "skip", "replace", "keep"}

ASSUME PlacesAssumption == Root \in Dirs /\ Places \subseteq Dirs \X Names
ASSUME SizeAssumption == Size \in Nat \ {0}
ASSUME NoneAssumption ==
  /\ None \notin [song : Stock \cup Ids, bytes : Nat]
  /\ None \notin [path : Places, policy : Policies \cup {"none"}]
  /\ None \notin [path : Places \cup {None}, item : [song : Stock \cup Ids, bytes : Nat]]
  /\ None \notin Dirs \cup Places \cup Ids
  /\ Stock \cap Ids = {}

\* An upload's song is named by the upload; its sender may send a byte too many.
Songs    == Stock \cup Ids
Items    == [song : Songs, bytes : 0 .. Size + 1]
Complete == [song : Songs, bytes : {Size}]
Metadata == [path : Places, policy : Policies \cup {"none"}]

VARIABLES
  lib,     \* the file at each place of the library
  dirs,    \* the folders that exist
  slot,    \* the private directory of each identifier
  scp,     \* the transfer of each upload: none, ready, runs or over
  job,     \* the writing command that holds the lock
  doomed   \* history: trash items whose deletion was asked for

vars == <<lib, dirs, slot, scp, job, doomed>>

NoSlot == [area |-> "none", meta |-> None, item |-> None]
Idle   == [cmd |-> "none", at |-> "idle", id |-> None, from |-> None, to |-> None,
           policy |-> "none"]

\* The folder a path is in.
DirOf(p) == p[1]

-------------------------------------------------------------------------------
Init ==
  /\ lib \in [Places -> [song : Stock, bytes : {Size}] \cup {None}]
  /\ \A p, q \in Places : lib[p] # None /\ lib[p] = lib[q] => p = q
  /\ dirs = {Root} \cup {DirOf(p) : p \in {q \in Places : lib[q] # None}}
  /\ slot = [i \in Ids |-> NoSlot]
  /\ scp = [i \in Ids |-> "none"]
  /\ job = Idle
  /\ doomed = {}

(***************************************************************************)
(* Commands and their steps.                                               *)
(***************************************************************************)
Free == job = Idle
At(cmds, s) == job.cmd \in cmds /\ job.at = s
Go(s) == job' = [job EXCEPT !.at = s]
Done == job' = Idle

Begin(cmd, s, id, from, to, policy) ==
  /\ Free
  /\ job' = [cmd |-> cmd, at |-> s, id |-> id, from |-> from, to |-> to,
             policy |-> policy]

\* The step fails and the command has no rollback, or the process is killed.
GiveUp ==
  /\ ~Free
  /\ Done
  /\ UNCHANGED <<lib, dirs, slot, scp, doomed>>

(***************************************************************************)
(* Renaming within the library.                                            *)
(***************************************************************************)
\* Where move_with_policy puts a file that asks for q; nowhere when it fails
\* or skips.  choose_keep_name takes a name of the same folder that is free.
LandingUnchecked(q, policy) == {q}     \* a variant: EEXIST is not noticed
Landing(q, policy) ==
  CASE policy = "replace" -> {q}
    [] policy = "keep" /\ lib[q] # None ->
         {r \in Places : DirOf(r) = DirOf(q) /\ lib[r] = None}
    [] OTHER -> IF lib[q] = None THEN {q} ELSE {}

\* command_rename: rename_noreplace in the same folder.
BeginRename(p, q) ==
  /\ DirOf(p) = DirOf(q)
  /\ Begin("rename", "rename", None, p, q, "fail")
  /\ UNCHANGED <<lib, dirs, slot, scp, doomed>>

\* command_move: into the folder d, under the same name.
BeginMove(p, d, policy) ==
  /\ d \in dirs
  /\ <<d, p[2]>> \in Places
  /\ Begin("move", "rename", None, p, <<d, p[2]>>, policy)
  /\ UNCHANGED <<lib, dirs, slot, scp, doomed>>

RenameFile ==
  /\ At({"rename", "move"}, "rename")
  /\ lib[job.from] # None
  /\ \E r \in Landing(job.to, job.policy) :
       lib' = IF r = job.from THEN lib
              ELSE [lib EXCEPT ![r] = lib[job.from], ![job.from] = None]
  /\ Done
  /\ UNCHANGED <<dirs, slot, scp, doomed>>

\* command_mkdir is one mkdirat.
Mkdir(d) ==
  /\ Free
  /\ d \notin dirs
  /\ dirs' = dirs \cup {d}
  /\ UNCHANGED <<lib, slot, scp, job, doomed>>

(***************************************************************************)
(* command_delete: remove_at on a file, or on a folder and all in it.      *)
(***************************************************************************)
BeginDelete(p) ==
  /\ lib[p] # None
  /\ Begin("delete", "unlink", None, p, None, "none")
  /\ UNCHANGED <<lib, dirs, slot, scp, doomed>>

DeleteFile ==
  /\ At({"delete"}, "unlink")
  /\ lib' = [lib EXCEPT ![job.from] = None]
  /\ Done
  /\ UNCHANGED <<dirs, slot, scp, doomed>>

BeginDeleteFolder(d) ==
  /\ d \in dirs \ {Root}
  /\ Begin("delete", "entries", None, None, d, "none")
  /\ UNCHANGED <<lib, dirs, slot, scp, doomed>>

DeleteEntry ==
  /\ At({"delete"}, "entries")
  /\ \E p \in Places :
       /\ DirOf(p) = job.to
       /\ lib[p] # None
       /\ lib' = [lib EXCEPT ![p] = None]
  /\ UNCHANGED <<dirs, slot, scp, job, doomed>>

\* AT_REMOVEDIR; it is all there is to `delete PATH empty`.
DeleteFolder ==
  /\ At({"delete"}, "entries")
  /\ \A p \in Places : DirOf(p) = job.to => lib[p] = None
  /\ dirs' = dirs \ {job.to}
  /\ Done
  /\ UNCHANGED <<lib, slot, scp, doomed>>

(***************************************************************************)
(* Making a private directory: command_trash and command_upload_prepare.   *)
(***************************************************************************)
Fresh(i) == slot[i] = NoSlot

MakeSlot(i, area) == slot' = [slot EXCEPT ![i] = [NoSlot EXCEPT !.area = area]]

BeginTrash(p, i) ==
  /\ Fresh(i)
  /\ Begin("trash", "meta", i, p, None, "none")
  /\ MakeSlot(i, "trash")
  /\ UNCHANGED <<lib, dirs, scp, doomed>>

\* The space check refuses or does not; it reserves nothing.
BeginPrepare(p, policy, i) ==
  /\ Fresh(i)
  /\ Begin("prepare", "meta", i, None, p, policy)
  /\ MakeSlot(i, "incoming")
  /\ UNCHANGED <<lib, dirs, scp, doomed>>

\* write_metadata: where a trashed file comes from, where an upload goes to.
SlotMetadata == [path   |-> IF job.cmd = "trash" THEN job.from ELSE job.to,
                 policy |-> job.policy]

WriteMetadata ==
  /\ At({"trash", "prepare"}, "meta")
  /\ slot' = [slot EXCEPT ![job.id].meta = SlotMetadata]
  /\ Go(IF job.cmd = "trash" THEN "rename" ELSE "payload")
  /\ UNCHANGED <<lib, dirs, scp, doomed>>

\* A variant: the file is linked into the trash, not renamed.
LinkToTrash ==
  /\ At({"trash"}, "rename")
  /\ lib[job.from] # None
  /\ slot' = [slot EXCEPT ![job.id].item = lib[job.from]]
  /\ Done
  /\ UNCHANGED <<lib, dirs, scp, doomed>>

TrashFile ==
  /\ At({"trash"}, "rename")
  /\ lib[job.from] # None
  /\ lib' = [lib EXCEPT ![job.from] = None]
  /\ slot' = [slot EXCEPT ![job.id].item = lib[job.from]]
  /\ Done
  /\ UNCHANGED <<dirs, scp, doomed>>

\* An empty payload.part; the reply gives the client its path.
CreatePayload ==
  /\ At({"prepare"}, "payload")
  /\ slot' = [slot EXCEPT ![job.id].item = [song |-> job.id, bytes |-> 0]]
  /\ scp' = [scp EXCEPT ![job.id] = "ready"]
  /\ Done
  /\ UNCHANGED <<lib, dirs, doomed>>

\* Any of these steps fails: goto rollback, which unlinks the metadata ...
StepFails ==
  /\ At({"trash", "prepare"}, "meta") \/ At({"trash"}, "rename")
       \/ At({"prepare"}, "payload")
  /\ Go("undo")
  /\ UNCHANGED <<lib, dirs, slot, scp, doomed>>

UndoMetadata ==
  /\ At({"trash", "prepare"}, "undo")
  /\ slot' = [slot EXCEPT ![job.id].meta = None]
  /\ Go("rmdir")
  /\ UNCHANGED <<lib, dirs, scp, doomed>>

\* ... and removes the directory, which also ends restore, upload-commit and
\* remove_at.  It fails when something is left in it.
Empty(i) == slot[i].meta = None /\ slot[i].item = None

RemoveSlot ==
  /\ job.at = "rmdir"
  /\ slot' = IF Empty(job.id) THEN [slot EXCEPT ![job.id].area = "gone"] ELSE slot
  /\ IF job.cmd = "empty" /\ Empty(job.id)
     THEN job' = [job EXCEPT !.at = "next", !.id = None]
     ELSE Done
  /\ doomed' = IF Empty(job.id) THEN doomed \ {job.id} ELSE doomed
  /\ UNCHANGED <<lib, dirs, scp>>

(***************************************************************************)
(* SCP, into the path that upload-prepare returned.                        *)
(***************************************************************************)
\* It creates or truncates payload.part; without the directory it fails.
ScpOpens(i) ==
  /\ scp[i] = "ready"
  /\ IF slot[i].area = "incoming"
     THEN /\ slot' = [slot EXCEPT ![i].item = [song |-> i, bytes |-> 0]]
          /\ scp' = [scp EXCEPT ![i] = "runs"]
     ELSE UNCHANGED slot /\ scp' = [scp EXCEPT ![i] = "over"]
  /\ UNCHANGED <<lib, dirs, job, doomed>>

\* A byte is written, unless the file was unlinked meanwhile.
ScpWrites(i) ==
  /\ scp[i] = "runs"
  /\ slot[i].item # None
  /\ slot[i].item.bytes <= Size
  /\ slot' = [slot EXCEPT ![i].item.bytes = @ + 1]
  /\ UNCHANGED <<lib, dirs, scp, job, doomed>>

\* It is complete, or cut off.
ScpEnds(i) ==
  /\ scp[i] = "runs"
  /\ scp' = [scp EXCEPT ![i] = "over"]
  /\ UNCHANGED <<lib, dirs, slot, job, doomed>>

(***************************************************************************)
(* Publishing: command_restore and command_upload_commit.                  *)
(***************************************************************************)
\* Only one with readable metadata can be restored.
BeginRestore(i) ==
  /\ slot[i].area = "trash"
  /\ slot[i].meta # None
  /\ Begin("restore", "parents", i, None, slot[i].meta.path, "fail")
  /\ UNCHANGED <<lib, dirs, slot, scp, doomed>>

\* The payload must have exactly the prepared size.
AnySize(i) == TRUE                     \* a variant: the size is not compared
SizeMatches(i) == slot[i].item.bytes = Size

\* R1 Manager commits when its SCP is over.
BeginCommit(i) ==
  /\ slot[i].area = "incoming"
  /\ slot[i].meta # None /\ slot[i].item # None
  /\ scp[i] = "over"
  /\ SizeMatches(i)
  /\ Begin("commit", "parents", i, None, slot[i].meta.path, slot[i].meta.policy)
  /\ UNCHANGED <<lib, dirs, slot, scp, doomed>>

\* A variant: the metadata, already read, is unlinked before the rename.
UnlinkMetadataEarly ==
  /\ At({"restore", "commit"}, "parents")
  /\ dirs' = dirs \cup {DirOf(job.to)}
  /\ slot' = [slot EXCEPT ![job.id].meta = None]
  /\ Go("publish")
  /\ UNCHANGED <<lib, scp, doomed>>

\* ensure_parent makes the missing folders.
MakeParent ==
  /\ At({"restore", "commit"}, "parents")
  /\ dirs' = dirs \cup {DirOf(job.to)}
  /\ Go("publish")
  /\ UNCHANGED <<lib, slot, scp, doomed>>

\* The rename out of the private directory.
PublishFile ==
  /\ At({"restore", "commit"}, "publish")
  /\ slot[job.id].item # None
  /\ \E r \in Landing(job.to, job.policy) :
       lib' = [lib EXCEPT ![r] = slot[job.id].item]
  /\ slot' = [slot EXCEPT ![job.id].item = None]
  /\ Go("unmeta")
  /\ UNCHANGED <<dirs, scp, doomed>>

\* The policy is skip and something is there: the payload is unlinked.
SkipPayload ==
  /\ At({"commit"}, "publish")
  /\ job.policy = "skip"
  /\ lib[job.to] # None
  /\ slot' = [slot EXCEPT ![job.id].item = None]
  /\ Go("unmeta")
  /\ UNCHANGED <<lib, dirs, scp, doomed>>

UnlinkMetadata ==
  /\ At({"restore", "commit"}, "unmeta")
  /\ slot' = [slot EXCEPT ![job.id].meta = None]
  /\ Go("rmdir")
  /\ UNCHANGED <<lib, dirs, scp, doomed>>

(***************************************************************************)
(* Removing a private directory: purge, empty-trash and upload-cancel.     *)
(***************************************************************************)
BeginPurge(i) ==
  /\ slot[i].area = "trash"
  /\ Begin("purge", "entries", i, None, None, "none")
  /\ doomed' = doomed \cup {i}
  /\ UNCHANGED <<lib, dirs, slot, scp>>

BeginCancel(i) ==
  /\ slot[i].area = "incoming"
  /\ Begin("cancel", "entries", i, None, None, "none")
  /\ UNCHANGED <<lib, dirs, slot, scp, doomed>>

BeginEmptyTrash ==
  /\ Begin("empty", "next", None, None, None, "none")
  /\ doomed' = doomed \cup {i \in Ids : slot[i].area = "trash"}
  /\ UNCHANGED <<lib, dirs, slot, scp>>

NextSlot ==
  /\ At({"empty"}, "next")
  /\ \E i \in Ids :
       /\ slot[i].area = "trash"
       /\ job' = [job EXCEPT !.at = "entries", !.id = i]
  /\ UNCHANGED <<lib, dirs, slot, scp, doomed>>

NoMoreSlots ==
  /\ At({"empty"}, "next")
  /\ \A i \in Ids : slot[i].area # "trash"
  /\ Done
  /\ UNCHANGED <<lib, dirs, slot, scp, doomed>>

\* remove_at unlinks the entries in the order readdir gives them.
RemoveEntry ==
  /\ At({"purge", "empty", "cancel"}, "entries")
  /\ \/ slot' = [slot EXCEPT ![job.id].meta = None]
     \/ slot' = [slot EXCEPT ![job.id].item = None]
  /\ UNCHANGED <<lib, dirs, scp, job, doomed>>

EntriesRemoved ==
  /\ At({"purge", "empty", "cancel"}, "entries")
  /\ Empty(job.id)
  /\ Go("rmdir")
  /\ UNCHANGED <<lib, dirs, slot, scp, doomed>>

Commands ==
  \/ \E p \in Places :
       \/ \E q \in Places : BeginRename(p, q)
       \/ \E d \in Dirs, policy \in Policies : BeginMove(p, d, policy)
       \/ BeginDelete(p)
       \/ \E i \in Ids : BeginTrash(p, i)
       \/ \E i \in Ids, policy \in Policies : BeginPrepare(p, policy, i)
  \/ \E d \in Dirs : Mkdir(d) \/ BeginDeleteFolder(d)
  \/ \E i \in Ids : BeginRestore(i) \/ BeginCommit(i) \/ BeginPurge(i) \/ BeginCancel(i)
  \/ BeginEmptyTrash

Steps ==
  \/ GiveUp
  \/ RenameFile
  \/ DeleteFile
  \/ DeleteEntry
  \/ DeleteFolder
  \/ WriteMetadata
  \/ TrashFile
  \/ CreatePayload
  \/ StepFails
  \/ UndoMetadata
  \/ RemoveSlot
  \/ MakeParent
  \/ PublishFile
  \/ SkipPayload
  \/ UnlinkMetadata
  \/ NextSlot
  \/ NoMoreSlots
  \/ RemoveEntry
  \/ EntriesRemoved

Scp == \E i \in Ids : ScpOpens(i) \/ ScpWrites(i) \/ ScpEnds(i)

Next == Commands \/ Steps \/ Scp

Spec == Init /\ [][Next]_vars

-------------------------------------------------------------------------------
(***************************************************************************)
(* Properties.                                                             *)
(***************************************************************************)
SlotType == [area : {"none", "trash", "incoming", "gone"},
             meta : Metadata \cup {None}, item : Items \cup {None}]
JobType == [cmd    : {"none", "rename", "move", "delete", "trash", "prepare",
                      "restore", "commit", "purge", "cancel", "empty"},
            at     : {"idle", "rename", "unlink", "entries", "meta", "payload",
                      "undo", "rmdir", "parents", "publish", "unmeta", "next"},
            id     : Ids \cup {None},
            from   : Places \cup {None},
            to     : Places \cup Dirs \cup {None},
            policy : Policies \cup {"none"}]

TypeOK ==
  /\ lib \in [Places -> Items \cup {None}]
  /\ dirs \subseteq Dirs
  /\ slot \in [Ids -> SlotType]
  /\ scp \in [Ids -> {"none", "ready", "runs", "over"}]
  /\ job \in JobType
  /\ doomed \subseteq Ids

\* "An interrupted transfer never appears in the music library": every file
\* of the library has all its bytes, whatever SCP and the commands did.
LibraryComplete == \A p \in Places : lib[p] # None => lib[p] \in Complete

\* trash-list shows the items that can be restored.
Listed(i) == slot[i].area = "trash" /\ slot[i].meta # None /\ slot[i].item # None

\* A trashed file can always be found and restored until its deletion was asked
\* for, though trash or restore be killed half-way.
TrashRestorable ==
  \A i \in Ids : slot[i].area = "trash" /\ slot[i].item # None => Listed(i) \/ i \in doomed

\* Is the file x in the library or in the trash?
Kept(x) == \/ \E p \in Places : lib[p] = x
           \/ \E i \in Ids : slot[i].area = "trash" /\ slot[i].item = x

\* A whole file is lost only to delete, to the policy replace, or to a purge of
\* its own trash item; never to fail, skip or keep, or to an interrupted command.
NoSilentLoss ==
  [][ \A x \in Complete :
        Kept(x) /\ ~Kept(x)' =>
          \/ job.cmd = "delete"
          \/ job.policy = "replace"
          \/ \E i \in doomed : slot[i].item = x ]_vars

\* The card, as FileStore sees it: every command happened or did not.
BinOf(i) ==
  IF slot[i].area = "trash" /\ slot[i].item # None
  THEN [path |-> IF slot[i].meta = None THEN None ELSE slot[i].meta.path,
        item |-> slot[i].item]
  ELSE None

Store == INSTANCE FileStore WITH bin <- [i \in Ids |-> BinOf(i)]

StoreSpec == Store!Spec

(***************************************************************************)
(* The inductive invariant: what each step of a command may rely on, which *)
(* is what the steps before it left, whoever was killed in between.        *)
(***************************************************************************)
InSlot == \/ job.cmd \in {"trash", "prepare", "restore", "commit", "purge", "cancel"}
          \/ job.cmd = "empty" /\ job.at # "next"

ArgumentsInv ==
  /\ InSlot => job.id \in Ids
  /\ job.cmd \in {"rename", "move", "trash"} => job.from \in Places
  /\ job.cmd \in {"rename", "move", "prepare", "restore", "commit"} => job.to \in Places
  /\ job.at = "rmdir" => InSlot

TrashInv ==
  job.cmd = "trash" =>
    /\ slot[job.id].area = "trash" /\ slot[job.id].item = None
    /\ job.at = "rename" => slot[job.id].meta = SlotMetadata

RestoreInv ==
  job.cmd = "restore" =>
    /\ slot[job.id].area = "trash" /\ job.policy = "fail"
    /\ job.at \in {"parents", "publish"} => /\ slot[job.id].meta # None
                                           /\ slot[job.id].meta.path = job.to
    /\ job.at \in {"unmeta", "rmdir"} => slot[job.id].item = None

UploadInv ==
  /\ job.cmd \in {"prepare", "commit", "cancel"} => slot[job.id].area = "incoming"
  /\ job.cmd = "commit" /\ job.at \in {"parents", "publish"} =>
       scp[job.id] = "over" /\ slot[job.id].item \in Complete

PurgeInv ==
  /\ job.cmd \in {"purge", "empty"} /\ InSlot =>
       slot[job.id].area = "trash" /\ job.id \in doomed
  /\ job.cmd = "empty" => \A i \in Ids : slot[i].area = "trash" => i \in doomed

\* A private directory of the trash holds a whole file or none, and SCP has
\* nothing to do with it.
SlotInv ==
  \A i \in Ids :
    /\ slot[i].area = "trash" =>
         /\ slot[i].item # None => slot[i].item \in Complete
         /\ scp[i] = "none"
    /\ slot[i].area = "none" => scp[i] = "none"

\* TypeOK and LibraryComplete belong to it; TrashRestorable does, too.
CardInv ==
  /\ TypeOK
  /\ LibraryComplete
  /\ TrashRestorable
  /\ SlotInv
  /\ ArgumentsInv
  /\ TrashInv
  /\ RestoreInv
  /\ UploadInv
  /\ PurgeInv

================================================================================
