----------------------------- MODULE FileCtlProofs -----------------------------
(***************************************************************************)
(* Theorems about r1-filectl, for every card: any folders, names and       *)
(* places, any number of commands and uploads, any size of a song.         *)
(***************************************************************************)
EXTENDS FileCtl, TLAPS

\* The invariant is expanded in every lemma below: a command's step relies on
\* what the steps before it left in its private directory.
USE NoneAssumption, SizeAssumption, PlacesAssumption
    DEF CardInv, TypeOK, SlotType, JobType, Items, Metadata, Policies, Songs, Complete,
        LibraryComplete, TrashRestorable, Listed, SlotInv, InSlot, ArgumentsInv,
        SlotMetadata, TrashInv, RestoreInv, UploadInv, PurgeInv

\* What an assignment to one private directory does.
LEMMA SlotUpdated ==
  ASSUME NEW i \in Ids, NEW new \in SlotType,
         slot \in [Ids -> SlotType], slot' = [slot EXCEPT ![i] = new]
  PROVE  /\ slot' \in [Ids -> SlotType]
         /\ \A k \in Ids : slot'[k] = IF k = i THEN new ELSE slot[k]
  OBVIOUS

(***************************************************************************)
(* Every step keeps the invariant, first those the provers take as they    *)
(* are.  A kill keeps it: each directory is as some step left it.          *)
(***************************************************************************)
LEMMA GiveUpStep ==
  ASSUME CardInv, GiveUp
  PROVE  CardInv'
  BY DEF GiveUp, Free, Done, Idle

LEMMA RenameFileStep ==
  ASSUME CardInv, RenameFile
  PROVE  CardInv'
  BY DEF RenameFile, At, Done, Idle, Landing

LEMMA DeleteFileStep ==
  ASSUME CardInv, DeleteFile
  PROVE  CardInv'
  BY DEF DeleteFile, At, Done, Idle

LEMMA DeleteEntryStep ==
  ASSUME CardInv, DeleteEntry
  PROVE  CardInv'
  BY DEF DeleteEntry, At

LEMMA DeleteFolderStep ==
  ASSUME CardInv, DeleteFolder
  PROVE  CardInv'
  BY DEF DeleteFolder, At, Done, Idle

LEMMA StepFailsStep ==
  ASSUME CardInv, StepFails
  PROVE  CardInv'
  BY DEF StepFails, At, Go

LEMMA MakeParentStep ==
  ASSUME CardInv, MakeParent
  PROVE  CardInv'
  BY DEF MakeParent, At, Go, DirOf

LEMMA NoMoreSlotsStep ==
  ASSUME CardInv, NoMoreSlots
  PROVE  CardInv'
  BY DEF NoMoreSlots, At, Done, Idle

LEMMA EntriesRemovedStep ==
  ASSUME CardInv, EntriesRemoved
  PROVE  CardInv'
  BY DEF EntriesRemoved, At, Go, Empty

\* The commands begin: each checks what its steps rely on.
LEMMA BeginRenameStep ==
  ASSUME CardInv, NEW p \in Places, NEW q \in Places, BeginRename(p, q)
  PROVE  CardInv'
  BY DEF BeginRename, Free, Idle, Begin

LEMMA BeginMoveStep ==
  ASSUME CardInv, NEW p \in Places, NEW d \in Dirs, NEW policy \in Policies, BeginMove(p,
         d, policy)
  PROVE  CardInv'
  BY DEF BeginMove, Free, Idle, Begin

LEMMA BeginDeleteStep ==
  ASSUME CardInv, NEW p \in Places, BeginDelete(p)
  PROVE  CardInv'
  BY DEF BeginDelete, Free, Idle, Begin

LEMMA MkdirStep ==
  ASSUME CardInv, NEW d \in Dirs, Mkdir(d)
  PROVE  CardInv'
  BY DEF Mkdir

LEMMA BeginDeleteFolderStep ==
  ASSUME CardInv, NEW d \in Dirs, BeginDeleteFolder(d)
  PROVE  CardInv'
  BY DEF BeginDeleteFolder, Free, Idle, Begin

LEMMA BeginTrashStep ==
  ASSUME CardInv, NEW p \in Places, NEW i \in Ids, BeginTrash(p, i)
  PROVE  CardInv'
  BY DEF BeginTrash, Free, Idle, Begin, Fresh, MakeSlot, NoSlot

LEMMA BeginPrepareStep ==
  ASSUME CardInv, NEW p \in Places, NEW policy \in Policies, NEW i \in Ids,
         BeginPrepare(p, policy, i)
  PROVE  CardInv'
  BY DEF BeginPrepare, Free, Idle, Begin, Fresh, MakeSlot, NoSlot

LEMMA BeginRestoreStep ==
  ASSUME CardInv, NEW i \in Ids, BeginRestore(i)
  PROVE  CardInv'
  BY DEF BeginRestore, Free, Idle, Begin

LEMMA BeginCommitStep ==
  ASSUME CardInv, NEW i \in Ids, BeginCommit(i)
  PROVE  CardInv'
  BY DEF BeginCommit, Free, Idle, Begin, SizeMatches

LEMMA BeginPurgeStep ==
  ASSUME CardInv, NEW i \in Ids, BeginPurge(i)
  PROVE  CardInv'
  BY DEF BeginPurge, Free, Idle, Begin

LEMMA BeginCancelStep ==
  ASSUME CardInv, NEW i \in Ids, BeginCancel(i)
  PROVE  CardInv'
  BY DEF BeginCancel, Free, Idle, Begin

LEMMA BeginEmptyTrashStep ==
  ASSUME CardInv, BeginEmptyTrash
  PROVE  CardInv'
  BY DEF BeginEmptyTrash, Free, Idle, Begin

\* SCP writes to a staged payload, and not once its size was compared.
LEMMA ScpWritesStep ==
  ASSUME CardInv, NEW i \in Ids, ScpWrites(i)
  PROVE  CardInv'
  BY DEF ScpWrites

LEMMA ScpEndsStep ==
  ASSUME CardInv, NEW i \in Ids, ScpEnds(i)
  PROVE  CardInv'
  BY DEF ScpEnds

(***************************************************************************)
(* The steps that change a private directory: new is what it becomes, and  *)
(* the others stay.                                                        *)
(***************************************************************************)
LEMMA WriteMetadataStep ==
  ASSUME CardInv, WriteMetadata
  PROVE  CardInv'
<1> DEFINE new == [slot[job.id] EXCEPT !.meta = SlotMetadata]
<1>1. job.id \in Ids /\ slot[job.id] \in SlotType
  BY DEF WriteMetadata, At, Go, Idle
<1>2. slot' = [slot EXCEPT ![job.id] = new]
  BY <1>1 DEF WriteMetadata
<1>3. /\ new \in SlotType
      /\ new.area = slot[job.id].area /\ new.item = slot[job.id].item
      /\ new.meta = SlotMetadata /\ new.meta # None
  BY <1>1 DEF WriteMetadata, At, Go, Idle
<1>4. /\ slot' \in [Ids -> SlotType]
      /\ \A k \in Ids : slot'[k] = IF k = job.id THEN new ELSE slot[k]
  BY <1>1, <1>2, <1>3, SlotUpdated
<1>5. TypeOK'
  <2>1. job' \in JobType
    BY DEF WriteMetadata, At, Go, Idle
  <2>2. lib' \in [Places -> Items \cup {None}]
    BY <1>1 DEF WriteMetadata, At, Go, Idle
  <2>3. QED
    BY <1>4, <2>1, <2>2 DEF WriteMetadata
<1>6. (LibraryComplete /\ TrashRestorable /\ SlotInv)'
  <2>1. LibraryComplete'
    BY <1>1 DEF WriteMetadata, At, Go, Idle
  <2>2. TrashRestorable'
    BY <1>1, <1>3, <1>4 DEF WriteMetadata, At, Go, Idle
  <2>3. SlotInv'
    BY <1>1, <1>3, <1>4 DEF WriteMetadata, At, Go, Idle
  <2>4. QED
    BY <2>1, <2>2, <2>3
<1>7. (ArgumentsInv /\ TrashInv /\ RestoreInv /\ UploadInv /\ PurgeInv)'
  BY <1>1, <1>3, <1>4 DEF WriteMetadata, At, Go, Idle
<1>8. QED
  BY <1>5, <1>6, <1>7

\* The metadata was written before the rename.
LEMMA TrashFileStep ==
  ASSUME CardInv, TrashFile
  PROVE  CardInv'
<1> DEFINE new == [slot[job.id] EXCEPT !.item = lib[job.from]]
<1>1. job.id \in Ids /\ slot[job.id] \in SlotType
  BY DEF TrashFile, At, Done, Idle
<1>2. slot' = [slot EXCEPT ![job.id] = new]
  BY <1>1 DEF TrashFile
<1>3. /\ new \in SlotType
      /\ new.item \in Complete /\ new.meta # None
      /\ new.area = slot[job.id].area
  BY <1>1 DEF TrashFile, At, Done, Idle
<1>4. /\ slot' \in [Ids -> SlotType]
      /\ \A k \in Ids : slot'[k] = IF k = job.id THEN new ELSE slot[k]
  BY <1>1, <1>2, <1>3, SlotUpdated
<1>5. TypeOK'
  <2>1. job' \in JobType
    BY DEF TrashFile, At, Done, Idle
  <2>2. lib' \in [Places -> Items \cup {None}]
    BY <1>1 DEF TrashFile, At, Done, Idle
  <2>3. QED
    BY <1>4, <2>1, <2>2 DEF TrashFile
<1>6. (LibraryComplete /\ TrashRestorable /\ SlotInv)'
  BY <1>1, <1>3, <1>4 DEF TrashFile, At, Done, Idle
<1>7. (ArgumentsInv /\ TrashInv /\ RestoreInv /\ UploadInv /\ PurgeInv)'
  BY <1>1, <1>3, <1>4 DEF TrashFile, At, Done, Idle
<1>8. QED
  BY <1>5, <1>6, <1>7

LEMMA CreatePayloadStep ==
  ASSUME CardInv, CreatePayload
  PROVE  CardInv'
<1> DEFINE new == [slot[job.id] EXCEPT !.item = [song |-> job.id, bytes |-> 0]]
<1>1. job.id \in Ids /\ slot[job.id] \in SlotType
  BY DEF CreatePayload, At, Done, Idle
<1>2. slot' = [slot EXCEPT ![job.id] = new]
  BY <1>1 DEF CreatePayload
<1>3. /\ new \in SlotType
      /\ new.area = "incoming"
      /\ new.meta = slot[job.id].meta
  BY <1>1 DEF CreatePayload, At, Done, Idle
<1>4. /\ slot' \in [Ids -> SlotType]
      /\ \A k \in Ids : slot'[k] = IF k = job.id THEN new ELSE slot[k]
  BY <1>1, <1>2, <1>3, SlotUpdated
<1>5. TypeOK'
  <2>1. job' \in JobType
    BY DEF CreatePayload, At, Done, Idle
  <2>2. lib' \in [Places -> Items \cup {None}]
    BY <1>1 DEF CreatePayload, At, Done, Idle
  <2>3. QED
    BY <1>4, <2>1, <2>2 DEF CreatePayload
<1>6. (LibraryComplete /\ TrashRestorable /\ SlotInv)'
  BY <1>1, <1>3, <1>4 DEF CreatePayload, At, Done, Idle
<1>7. (ArgumentsInv /\ TrashInv /\ RestoreInv /\ UploadInv /\ PurgeInv)'
  BY <1>1, <1>3, <1>4 DEF CreatePayload, At, Done, Idle
<1>8. QED
  BY <1>5, <1>6, <1>7

LEMMA UndoMetadataStep ==
  ASSUME CardInv, UndoMetadata
  PROVE  CardInv'
<1> DEFINE new == [slot[job.id] EXCEPT !.meta = None]
<1>1. job.id \in Ids /\ slot[job.id] \in SlotType
  BY DEF UndoMetadata, At, Go, Idle
<1>2. slot' = [slot EXCEPT ![job.id] = new]
  BY <1>1 DEF UndoMetadata
<1>3. /\ new \in SlotType
      /\ new.area = slot[job.id].area
      /\ new.item = slot[job.id].item
  BY <1>1 DEF UndoMetadata, At, Go, Idle
<1>4. /\ slot' \in [Ids -> SlotType]
      /\ \A k \in Ids : slot'[k] = IF k = job.id THEN new ELSE slot[k]
  BY <1>1, <1>2, <1>3, SlotUpdated
<1>5. TypeOK'
  <2>1. job' \in JobType
    BY DEF UndoMetadata, At, Go, Idle
  <2>2. lib' \in [Places -> Items \cup {None}]
    BY <1>1 DEF UndoMetadata, At, Go, Idle
  <2>3. QED
    BY <1>4, <2>1, <2>2 DEF UndoMetadata
<1>6. (LibraryComplete /\ TrashRestorable /\ SlotInv)'
  BY <1>1, <1>3, <1>4 DEF UndoMetadata, At, Go, Idle
<1>7. (ArgumentsInv /\ TrashInv /\ RestoreInv /\ UploadInv /\ PurgeInv)'
  BY <1>1, <1>3, <1>4 DEF UndoMetadata, At, Go, Idle
<1>8. QED
  BY <1>5, <1>6, <1>7

\* A restored file is whole; so is a payload of the prepared size.
LEMMA PublishFileStep ==
  ASSUME CardInv, PublishFile
  PROVE  CardInv'
<1> DEFINE new == [slot[job.id] EXCEPT !.item = None]
<1>1. job.id \in Ids /\ slot[job.id] \in SlotType
  BY DEF PublishFile, At, Go, Landing, Idle
<1>2. slot' = [slot EXCEPT ![job.id] = new]
  BY <1>1 DEF PublishFile
<1>3. /\ new \in SlotType
      /\ new.area = slot[job.id].area
      /\ new.item = None
      /\ new.meta = slot[job.id].meta
  BY <1>1 DEF PublishFile, At, Go, Landing, Idle
<1>4. /\ slot' \in [Ids -> SlotType]
      /\ \A k \in Ids : slot'[k] = IF k = job.id THEN new ELSE slot[k]
  BY <1>1, <1>2, <1>3, SlotUpdated
<1>5. TypeOK'
  <2>1. job' \in JobType
    BY DEF PublishFile, At, Go, Landing, Idle
  <2>2. lib' \in [Places -> Items \cup {None}]
    BY <1>1 DEF PublishFile, At, Go, Landing, Idle
  <2>3. QED
    BY <1>4, <2>1, <2>2 DEF PublishFile
<1>6. (LibraryComplete /\ TrashRestorable /\ SlotInv)'
  BY <1>1, <1>3, <1>4 DEF PublishFile, At, Go, Landing, Idle
<1>7. (ArgumentsInv /\ TrashInv /\ RestoreInv /\ UploadInv /\ PurgeInv)'
  BY <1>1, <1>3, <1>4 DEF PublishFile, At, Go, Landing, Idle
<1>8. QED
  BY <1>5, <1>6, <1>7

LEMMA SkipPayloadStep ==
  ASSUME CardInv, SkipPayload
  PROVE  CardInv'
<1> DEFINE new == [slot[job.id] EXCEPT !.item = None]
<1>1. job.id \in Ids /\ slot[job.id] \in SlotType
  BY DEF SkipPayload, At, Go, Idle
<1>2. slot' = [slot EXCEPT ![job.id] = new]
  BY <1>1 DEF SkipPayload
<1>3. /\ new \in SlotType
      /\ new.area = slot[job.id].area
      /\ new.item = None
      /\ new.meta = slot[job.id].meta
  BY <1>1 DEF SkipPayload, At, Go, Idle
<1>4. /\ slot' \in [Ids -> SlotType]
      /\ \A k \in Ids : slot'[k] = IF k = job.id THEN new ELSE slot[k]
  BY <1>1, <1>2, <1>3, SlotUpdated
<1>5. TypeOK'
  <2>1. job' \in JobType
    BY DEF SkipPayload, At, Go, Idle
  <2>2. lib' \in [Places -> Items \cup {None}]
    BY <1>1 DEF SkipPayload, At, Go, Idle
  <2>3. QED
    BY <1>4, <2>1, <2>2 DEF SkipPayload
<1>6. (LibraryComplete /\ TrashRestorable /\ SlotInv)'
  BY <1>1, <1>3, <1>4 DEF SkipPayload, At, Go, Idle
<1>7. (ArgumentsInv /\ TrashInv /\ RestoreInv /\ UploadInv /\ PurgeInv)'
  BY <1>1, <1>3, <1>4 DEF SkipPayload, At, Go, Idle
<1>8. QED
  BY <1>5, <1>6, <1>7

LEMMA UnlinkMetadataStep ==
  ASSUME CardInv, UnlinkMetadata
  PROVE  CardInv'
<1> DEFINE new == [slot[job.id] EXCEPT !.meta = None]
<1>1. job.id \in Ids /\ slot[job.id] \in SlotType
  BY DEF UnlinkMetadata, At, Go, Idle
<1>2. slot' = [slot EXCEPT ![job.id] = new]
  BY <1>1 DEF UnlinkMetadata
<1>3. /\ new \in SlotType
      /\ new.area = slot[job.id].area
      /\ new.item = slot[job.id].item
  BY <1>1 DEF UnlinkMetadata, At, Go, Idle
<1>4. /\ slot' \in [Ids -> SlotType]
      /\ \A k \in Ids : slot'[k] = IF k = job.id THEN new ELSE slot[k]
  BY <1>1, <1>2, <1>3, SlotUpdated
<1>5. TypeOK'
  <2>1. job' \in JobType
    BY DEF UnlinkMetadata, At, Go, Idle
  <2>2. lib' \in [Places -> Items \cup {None}]
    BY <1>1 DEF UnlinkMetadata, At, Go, Idle
  <2>3. QED
    BY <1>4, <2>1, <2>2 DEF UnlinkMetadata
<1>6. (LibraryComplete /\ TrashRestorable /\ SlotInv)'
  BY <1>1, <1>3, <1>4 DEF UnlinkMetadata, At, Go, Idle
<1>7. (ArgumentsInv /\ TrashInv /\ RestoreInv /\ UploadInv /\ PurgeInv)'
  BY <1>1, <1>3, <1>4 DEF UnlinkMetadata, At, Go, Idle
<1>8. QED
  BY <1>5, <1>6, <1>7

LEMMA NextSlotStep ==
  ASSUME CardInv, NextSlot
  PROVE  CardInv'
<1>1. PICK i \in Ids : /\ slot[i].area = "trash"
                      /\ job' = [job EXCEPT !.at = "entries", !.id = i]
  BY DEF NextSlot
<1>2. TypeOK'
  BY <1>1 DEF NextSlot
<1>3. (LibraryComplete /\ TrashRestorable /\ SlotInv)'
  BY DEF NextSlot
<1>4. (ArgumentsInv /\ TrashInv /\ RestoreInv /\ UploadInv /\ PurgeInv)'
  BY <1>1 DEF NextSlot, At
<1>5. QED
  BY <1>2, <1>3, <1>4

LEMMA RemoveSlotStep ==
  ASSUME CardInv, RemoveSlot
  PROVE  CardInv'
<1> DEFINE new == [slot[job.id] EXCEPT !.area = "gone"]
<1>1. job.id \in Ids /\ slot[job.id] \in SlotType
  BY DEF RemoveSlot
<1>2. CASE Empty(job.id)
  <2>1. slot' = [slot EXCEPT ![job.id] = new]
    BY <1>1, <1>2 DEF RemoveSlot
  <2>2. /\ new \in SlotType
        /\ new.area = "gone" /\ new.meta = None /\ new.item = None
    BY <1>1, <1>2 DEF Empty
  <2>3. /\ slot' \in [Ids -> SlotType]
        /\ \A k \in Ids : slot'[k] = IF k = job.id THEN new ELSE slot[k]
    BY <1>1, <2>1, <2>2, SlotUpdated
  <2>4. \/ job' = Idle
        \/ /\ job.cmd = "empty"
           /\ job' = [cmd |-> "empty", at |-> "next", id |-> None, from |-> job.from,
                      to |-> job.to, policy |-> job.policy]
    <3>1. CASE job.cmd = "empty"
      <4>1. job' = [job EXCEPT !.at = "next", !.id = None]
        BY <1>2, <3>1 DEF RemoveSlot
      <4>2. QED
        BY <3>1, <4>1
    <3>2. CASE job.cmd # "empty"
      BY <3>2 DEF RemoveSlot, Done
    <3>3. QED
      BY <3>1, <3>2
  <2>5. TypeOK'
    BY <1>2, <2>3, <2>4 DEF RemoveSlot, Idle
  <2>6. (LibraryComplete /\ TrashRestorable /\ SlotInv)'
    BY <1>1, <1>2, <2>2, <2>3 DEF RemoveSlot
  <2>7. PurgeInv'
    BY <1>1, <1>2, <2>2, <2>3, <2>4 DEF RemoveSlot, Idle
  <2>8. (ArgumentsInv /\ TrashInv /\ RestoreInv /\ UploadInv)'
    BY <2>4 DEF Idle
  <2>9. QED
    BY <2>5, <2>6, <2>7, <2>8
<1>3. CASE ~Empty(job.id)
  BY <1>3 DEF RemoveSlot, Done, Idle
<1>4. QED
  BY <1>2, <1>3

\* Either entry may go first.
LEMMA RemoveEntryStep ==
  ASSUME CardInv, RemoveEntry
  PROVE  CardInv'
<1>1. job.id \in Ids /\ slot[job.id] \in SlotType
  BY DEF RemoveEntry, At
<1>2. \E new \in SlotType :
        /\ slot' = [slot EXCEPT ![job.id] = new]
        /\ new.area = slot[job.id].area
        /\ new.item \in {slot[job.id].item, None}
  <2>1. CASE slot' = [slot EXCEPT ![job.id].meta = None]
    <3>1. [slot[job.id] EXCEPT !.meta = None] \in SlotType
      BY <1>1
    <3>2. QED
      BY <1>1, <2>1, <3>1
  <2>2. CASE slot' = [slot EXCEPT ![job.id].item = None]
    <3>1. [slot[job.id] EXCEPT !.item = None] \in SlotType
      BY <1>1
    <3>2. QED
      BY <1>1, <2>2, <3>1
  <2>3. QED
    BY <2>1, <2>2 DEF RemoveEntry
<1>3. PICK new \in SlotType :
        /\ slot' = [slot EXCEPT ![job.id] = new]
        /\ new.area = slot[job.id].area
        /\ new.item \in {slot[job.id].item, None}
  BY <1>2
<1>4. /\ slot' \in [Ids -> SlotType]
      /\ \A k \in Ids : slot'[k] = IF k = job.id THEN new ELSE slot[k]
  BY <1>1, <1>3, SlotUpdated
<1>5. TypeOK'
  BY <1>1, <1>4 DEF RemoveEntry, At
<1>6. (LibraryComplete /\ TrashRestorable /\ SlotInv)'
  BY <1>1, <1>3, <1>4 DEF RemoveEntry, At
<1>7. (ArgumentsInv /\ TrashInv /\ RestoreInv /\ UploadInv /\ PurgeInv)'
  BY <1>1, <1>3, <1>4 DEF RemoveEntry, At
<1>8. QED
  BY <1>5, <1>6, <1>7

LEMMA ScpOpensStep ==
  ASSUME CardInv, NEW i \in Ids, ScpOpens(i)
  PROVE  CardInv'
<1> DEFINE new == [slot[i] EXCEPT !.item = [song |-> i, bytes |-> 0]]
<1>1. CASE slot[i].area = "incoming"
  <2>1. slot' = [slot EXCEPT ![i] = new]
    BY <1>1 DEF ScpOpens
  <2>2. /\ new \in SlotType
        /\ new.area = "incoming"
        /\ new.meta = slot[i].meta
    BY <1>1
  <2>3. /\ slot' \in [Ids -> SlotType]
        /\ \A k \in Ids : slot'[k] = IF k = i THEN new ELSE slot[k]
    BY <2>1, <2>2, SlotUpdated
  <2>4. TypeOK'
    BY <1>1, <2>3 DEF ScpOpens
  <2>5. (LibraryComplete /\ TrashRestorable /\ SlotInv)'
    BY <1>1, <2>2, <2>3 DEF ScpOpens
  <2>6. (ArgumentsInv /\ TrashInv /\ RestoreInv /\ UploadInv /\ PurgeInv)'
    BY <1>1, <2>2, <2>3 DEF ScpOpens
  <2>7. QED
    BY <2>4, <2>5, <2>6
<1>2. CASE slot[i].area # "incoming"
  BY <1>2 DEF ScpOpens
<1>3. QED
  BY <1>1, <1>2

(***************************************************************************)
(* The invariant holds.                                                    *)
(***************************************************************************)
\* No command has run.
LEMMA CardInit == Init => CardInv
<1> SUFFICES ASSUME Init PROVE CardInv
  OBVIOUS
<1>1. \A i \in Ids : slot[i] = NoSlot /\ scp[i] = "none"
  BY DEF Init
<1>2. TypeOK
  BY DEF Init, Idle, NoSlot, DirOf
<1>3. LibraryComplete
  BY DEF Init
<1>4. TrashRestorable /\ SlotInv
  BY <1>1 DEF NoSlot
<1>5. ArgumentsInv /\ TrashInv /\ RestoreInv /\ UploadInv /\ PurgeInv
  BY DEF Init, Idle
<1>6. QED
  BY <1>2, <1>3, <1>4, <1>5

\* Every step keeps it.
LEMMA CardNext == CardInv /\ [Next]_vars => CardInv'
<1> HIDE DEF CardInv
<1> SUFFICES ASSUME CardInv, [Next]_vars PROVE CardInv'
  OBVIOUS
<1>1. CASE Commands
  BY <1>1, BeginRenameStep, BeginMoveStep, BeginDeleteStep, BeginTrashStep,
     BeginPrepareStep, MkdirStep, BeginDeleteFolderStep, BeginRestoreStep,
     BeginCommitStep, BeginPurgeStep, BeginCancelStep, BeginEmptyTrashStep DEF Commands
<1>2. CASE Steps
  BY <1>2, GiveUpStep, RenameFileStep, DeleteFileStep, DeleteEntryStep,
     DeleteFolderStep, WriteMetadataStep, TrashFileStep, CreatePayloadStep,
     StepFailsStep, UndoMetadataStep, RemoveSlotStep, MakeParentStep, PublishFileStep,
     SkipPayloadStep, UnlinkMetadataStep, NextSlotStep, NoMoreSlotsStep,
     RemoveEntryStep, EntriesRemovedStep DEF Steps
<1>3. CASE Scp
  BY <1>3, ScpOpensStep, ScpWritesStep, ScpEndsStep DEF Scp
<1>4. CASE UNCHANGED vars
  BY <1>4 DEF vars, CardInv
<1>5. QED
  BY <1>1, <1>2, <1>3, <1>4 DEF Next

\* What every step of a command relies on holds in every reachable state.
THEOREM CardInvariant == Spec => []CardInv
<1> HIDE DEF CardInv
<1>1. QED
  BY CardInit, CardNext, PTL DEF Spec

HIDE DEF CardInv, TypeOK, SlotType, JobType, Items, Metadata, Policies, Songs, Complete,
         LibraryComplete, TrashRestorable, Listed, SlotInv, InSlot, ArgumentsInv,
         SlotMetadata, TrashInv, RestoreInv, UploadInv, PurgeInv

\* The variables keep their types.
THEOREM TypeCorrect == Spec => []TypeOK
BY CardInvariant, PTL DEF CardInv

\* Whatever is interrupted, every file of the library has all its bytes.
THEOREM LibraryAlwaysComplete == Spec => []LibraryComplete
BY CardInvariant, PTL DEF CardInv

\* A trashed file can be restored until its deletion is asked for.
THEOREM TrashAlwaysRestorable == Spec => []TrashRestorable
BY CardInvariant, PTL DEF CardInv

(***************************************************************************)
(* Every step is a step of FileStore or changes nothing it sees.           *)
(***************************************************************************)
Bin == [i \in Ids |-> BinOf(i)]

\* The bin is empty at first.
LEMMA StoreInit == Init => Store!Init
BY NoneAssumption DEF Init, Store!Init, BinOf, NoSlot, Complete, Songs

\* A step of one private directory changes one entry of the bin ...
LEMMA BinUpdated ==
  ASSUME NEW i \in Ids, \A k \in Ids \ {i} : slot'[k] = slot[k]
  PROVE  Bin' = [Bin EXCEPT ![i] = BinOf(i)']
BY DEF Bin, BinOf

\* ... or none, when it is not of the trash or holds no file.
LEMMA BinUnchanged ==
  ASSUME NEW i \in Ids, \A k \in Ids \ {i} : slot'[k] = slot[k],
         BinOf(i)' = BinOf(i)
  PROVE  Bin' = Bin
BY DEF Bin, BinOf

\* An entry that holds a file is not None.
LEMMA BinOfAFile ==
  ASSUME TypeOK, NEW i \in Ids, slot[i].area = "trash", slot[i].item # None
  PROVE  BinOf(i) # None
<1>1. slot[i].item \in [song : Stock \cup Ids, bytes : Nat]
  BY SizeAssumption DEF TypeOK, SlotType, Items, Songs
<1>2. slot[i].meta # None => slot[i].meta.path \in Places
  BY DEF TypeOK, SlotType, Metadata
<1>3. BinOf(i) \in [path : Places \cup {None}, item : [song : Stock \cup Ids, bytes : Nat]]
  BY <1>1, <1>2 DEF BinOf
<1>4. QED
  BY <1>3, NoneAssumption

\* What one step of FileStore is, in terms of Bin.
LEMMA StoreUnchanged ==
  ASSUME lib' = lib, Bin' = Bin
  PROVE  UNCHANGED Store!vars
BY DEF Store!vars, Bin

\* rename and move relocate, delete erases.
LEMMA LibrarySteps ==
  ASSUME CardInv, RenameFile \/ DeleteFile \/ DeleteEntry
  PROVE  [Store!Next]_Store!vars
<1>1. slot' = slot /\ Bin' = Bin
  BY DEF RenameFile, DeleteFile, DeleteEntry, Bin, BinOf
<1>2. lib \in [Places -> Items \cup {None}]
  BY DEF CardInv, TypeOK
<1>3. CASE RenameFile
  <2>1. job.from \in Places /\ job.to \in Places
    BY <1>3 DEF RenameFile, At, CardInv, ArgumentsInv
  <2>2. PICK r \in Landing(job.to, job.policy) :
          lib' = IF r = job.from THEN lib
                 ELSE [lib EXCEPT ![r] = lib[job.from], ![job.from] = None]
    BY <1>3 DEF RenameFile
  <2>3. r \in Places
    BY <2>1 DEF Landing
  <2>4. CASE r = job.from
    BY <1>1, <2>2, <2>4, StoreUnchanged
  <2>5. CASE r # job.from
    <3>1. Store!Relocate(job.from, r)
      BY <1>1, <1>3, <2>2, <2>5 DEF RenameFile, Store!Relocate, Bin
    <3>2. QED
      BY <2>1, <2>3, <3>1 DEF Store!Next
  <2>6. QED
    BY <2>4, <2>5
<1>4. CASE DeleteFile
  <2>1. lib' = [lib EXCEPT ![job.from] = None]
    BY <1>4 DEF DeleteFile
  <2>2. CASE job.from \in Places /\ lib[job.from] # None
    BY <1>1, <2>1, <2>2 DEF Store!Next, Store!Erase, Bin
  <2>3. CASE ~(job.from \in Places /\ lib[job.from] # None)
    <3>1. lib' = lib
      BY <1>2, <2>1, <2>3
    <3>2. QED
      BY <1>1, <3>1, StoreUnchanged
  <2>4. QED
    BY <2>2, <2>3
<1>5. CASE DeleteEntry
  BY <1>1, <1>5 DEF DeleteEntry, Store!Next, Store!Erase, Bin
<1>6. QED
  BY <1>3, <1>4, <1>5

\* Only trash, restore, upload-commit and the removal of a trash item change what
\* FileStore sees of a private directory.
LEMMA QuietSlotSteps ==
  ASSUME CardInv,
         \/ WriteMetadata \/ CreatePayload \/ UndoMetadata \/ RemoveSlot
         \/ SkipPayload \/ UnlinkMetadata
  PROVE  UNCHANGED Store!vars
<1>1. PICK i \in Ids : i = job.id /\ slot \in [Ids -> SlotType]
  BY DEF WriteMetadata, CreatePayload, UndoMetadata, RemoveSlot, SkipPayload,
         UnlinkMetadata, At, CardInv, TypeOK, ArgumentsInv, InSlot
<1>2. lib' = lib /\ \A k \in Ids \ {i} : slot'[k] = slot[k]
  BY <1>1 DEF WriteMetadata, CreatePayload, UndoMetadata, RemoveSlot, SkipPayload,
              UnlinkMetadata
<1>3. BinOf(i)' = BinOf(i)
  <2>1. CASE WriteMetadata \/ UndoMetadata
    BY <1>1, <2>1 DEF WriteMetadata, UndoMetadata, At, CardInv, TrashInv, UploadInv,
                      BinOf, SlotType
  <2>2. CASE CreatePayload \/ SkipPayload
    BY <1>1, <2>2 DEF CreatePayload, SkipPayload, At, CardInv, UploadInv, BinOf, SlotType
  <2>3. CASE RemoveSlot
    BY <1>1, <2>3 DEF RemoveSlot, Empty, BinOf, SlotType
  <2>4. CASE UnlinkMetadata
    BY <1>1, <2>4 DEF UnlinkMetadata, At, CardInv, RestoreInv, UploadInv, BinOf, SlotType
  <2>5. QED
    BY <2>1, <2>2, <2>3, <2>4
<1>4. QED
  BY <1>1, <1>2, <1>3, BinUnchanged, StoreUnchanged

\* trash happens at its rename.
LEMMA TrashIsDiscard ==
  ASSUME CardInv, TrashFile
  PROVE  Store!Next
<1>1. PICK i \in Ids :
      /\ i = job.id /\ slot[i] \in SlotType
      /\ job.from \in Places /\ lib[job.from] # None
      /\ slot[i].area = "trash" /\ slot[i].item = None
      /\ slot[i].meta # None /\ slot[i].meta.path = job.from
  BY NoneAssumption DEF TrashFile, At, CardInv, TypeOK, ArgumentsInv, InSlot, TrashInv,
     SlotMetadata, JobType, SlotType, Metadata
<1>2. /\ lib' = [lib EXCEPT ![job.from] = None]
      /\ slot' = [slot EXCEPT ![i].item = lib[job.from]]
  BY <1>1 DEF TrashFile
<1>3. BinOf(i)' = [path |-> job.from, item |-> lib[job.from]]
  BY <1>1, <1>2 DEF BinOf, CardInv, TypeOK, SlotType
<1>4. Bin[i] = None /\ Bin' = [Bin EXCEPT ![i] = BinOf(i)']
  BY <1>1, <1>2, BinUpdated DEF Bin, BinOf, CardInv, TypeOK
<1>5. Store!Discard(job.from, i)
  BY <1>1, <1>2, <1>3, <1>4 DEF Store!Discard, Bin
<1>6. QED
  BY <1>1, <1>5 DEF Store!Next

\* upload-commit and restore happen at theirs.
LEMMA PublishIsPublishOrRecover ==
  ASSUME CardInv, PublishFile
  PROVE  Store!Next
<1>1. PICK i \in Ids :
      /\ i = job.id /\ slot[i] \in SlotType
      /\ job.to \in Places /\ slot[i].item # None
  BY DEF PublishFile, At, CardInv, TypeOK, ArgumentsInv, InSlot
<1>2. PICK r \in Landing(job.to, job.policy) :
        lib' = [lib EXCEPT ![r] = slot[i].item]
  BY <1>1 DEF PublishFile
<1>3. slot' = [slot EXCEPT ![i].item = None]
  BY <1>1 DEF PublishFile
<1>4. BinOf(i)' = None /\ \A k \in Ids \ {i} : slot'[k] = slot[k]
  BY <1>1, <1>3 DEF BinOf, CardInv, TypeOK, SlotType
<1>5. CASE job.cmd = "restore"
  <2>1. /\ slot[i].area = "trash"
        /\ slot[i].meta # None /\ slot[i].meta.path = job.to
        /\ r = job.to /\ lib[job.to] = None
    BY <1>1, <1>2, <1>5 DEF PublishFile, At, CardInv, RestoreInv, Landing
  <2>2. Bin[i] = [path |-> job.to, item |-> slot[i].item]
    BY <1>1, <2>1 DEF Bin, BinOf
  <2>3. Bin[i] # None
    BY <1>1, <2>1, BinOfAFile DEF Bin, CardInv
  <2>4. Bin' = [Bin EXCEPT ![i] = None]
    BY <1>1, <1>4, BinUpdated
  <2>5. /\ job.to = Bin[i].path
        /\ lib' = [lib EXCEPT ![job.to] = Bin[i].item]
    BY <1>1, <1>2, <2>1, <2>2
  <2>6. Store!Recover(i)
    BY <1>1, <2>1, <2>3, <2>4, <2>5 DEF Store!Recover, Bin
  <2>7. QED
    BY <1>1, <2>6 DEF Store!Next
<1>6. CASE job.cmd = "commit"
  <2>1. slot[i].area = "incoming" /\ slot[i].item \in Complete /\ r \in Places
    BY <1>1, <1>2, <1>6 DEF PublishFile, At, CardInv, UploadInv, Landing
  <2>2. BinOf(i) = None
    BY <2>1 DEF BinOf
  <2>3. Bin' = Bin
    BY <1>1, <1>4, <2>2, BinUnchanged
  <2>4. Store!Publish(r, slot[i].item)
    BY <1>2, <2>3 DEF Store!Publish, Bin
  <2>5. QED
    BY <2>1, <2>4 DEF Store!Next
<1>7. QED
  BY <1>5, <1>6 DEF PublishFile, At

\* A removal forgets where the file comes from, or destroys it.
LEMMA RemovalIsForgetOrDestroy ==
  ASSUME CardInv, RemoveEntry
  PROVE  [Store!Next]_Store!vars
<1>1. PICK i \in Ids : i = job.id /\ slot \in [Ids -> SlotType]
  BY DEF RemoveEntry, At, CardInv, TypeOK, ArgumentsInv, InSlot
<1>2. lib' = lib /\ \A k \in Ids \ {i} : slot'[k] = slot[k]
  BY <1>1 DEF RemoveEntry
<1>3. Bin' = [Bin EXCEPT ![i] = BinOf(i)']
  BY <1>1, <1>2, BinUpdated
<1>4. CASE BinOf(i) = None
  <2>1. BinOf(i)' = BinOf(i)
    BY <1>1, <1>4, BinOfAFile DEF RemoveEntry, BinOf, CardInv, SlotType
  <2>2. QED
    BY <1>1, <1>2, <2>1, BinUnchanged, StoreUnchanged
<1>5. CASE BinOf(i) # None
  <2>1. slot[i].area = "trash" /\ slot[i].item # None
    BY <1>5 DEF BinOf
  <2>2. Bin[i] = BinOf(i) /\ BinOf(i).item = slot[i].item
    BY <1>1, <2>1 DEF Bin, BinOf
  <2>3. CASE slot' = [slot EXCEPT ![i].meta = None]
    <3>1. BinOf(i)' = [path |-> None, item |-> slot[i].item]
      BY <1>1, <2>1, <2>3 DEF BinOf, SlotType
    <3>2. Store!Forget(i)
      BY <1>2, <1>3, <1>5, <2>2, <3>1 DEF Store!Forget, Bin
    <3>3. QED
      BY <1>1, <3>2 DEF Store!Next
  <2>4. CASE slot' = [slot EXCEPT ![i].item = None]
    <3>1. BinOf(i)' = None
      BY <1>1, <2>4 DEF BinOf, SlotType
    <3>2. Store!Destroy(i)
      BY <1>2, <1>3, <1>5, <2>2, <3>1 DEF Store!Destroy, Bin
    <3>3. QED
      BY <1>1, <3>2 DEF Store!Next
  <2>5. QED
    BY <1>1, <2>3, <2>4 DEF RemoveEntry
<1>6. QED
  BY <1>4, <1>5

\* A new private directory is empty.
LEMMA MakingASlotIsQuiet ==
  ASSUME CardInv, NEW i \in Ids, NEW area, Fresh(i), MakeSlot(i, area), lib' = lib
  PROVE  UNCHANGED Store!vars
<1>1. BinOf(i)' = BinOf(i) /\ \A k \in Ids \ {i} : slot'[k] = slot[k]
  BY DEF Fresh, MakeSlot, NoSlot, BinOf, CardInv, TypeOK
<1>2. QED
  BY <1>1, BinUnchanged, StoreUnchanged

\* Nothing has happened when a command begins.
LEMMA CommandsAreQuiet ==
  ASSUME CardInv, Commands
  PROVE  UNCHANGED Store!vars
<1>1. CASE lib' = lib /\ slot' = slot
  BY <1>1, StoreUnchanged DEF Bin, BinOf
<1>2. CASE \E p \in Places, i \in Ids : BeginTrash(p, i)
  BY <1>2, MakingASlotIsQuiet DEF BeginTrash
<1>3. CASE \E p \in Places, i \in Ids, policy \in Policies : BeginPrepare(p, policy, i)
  BY <1>3, MakingASlotIsQuiet DEF BeginPrepare
<1>4. QED
  BY <1>1, <1>2, <1>3 DEF Commands, BeginRename, BeginMove, BeginDelete, Mkdir,
     BeginDeleteFolder, BeginRestore, BeginCommit, BeginPurge, BeginCancel,
     BeginEmptyTrash

\* SCP writes to staged payloads only.
LEMMA ScpIsQuiet ==
  ASSUME CardInv, Scp
  PROVE  UNCHANGED Store!vars
<1>1. PICK i \in Ids : ScpOpens(i) \/ ScpWrites(i) \/ ScpEnds(i)
  BY DEF Scp
<1>2. lib' = lib /\ \A k \in Ids \ {i} : slot'[k] = slot[k]
  BY <1>1 DEF ScpOpens, ScpWrites, ScpEnds, CardInv, TypeOK
<1>3. slot' = slot \/ (slot[i].area # "trash" /\ slot'[i].area = slot[i].area)
  BY <1>1 DEF ScpOpens, ScpWrites, ScpEnds, CardInv, TypeOK, SlotInv, SlotType
<1>4. BinOf(i)' = BinOf(i)
  BY <1>3 DEF BinOf
<1>5. QED
  BY <1>2, <1>4, BinUnchanged, StoreUnchanged

\* So each step is one of FileStore's, or none.
LEMMA StoreNext == CardInv /\ [Next]_vars => [Store!Next]_Store!vars
<1> SUFFICES ASSUME CardInv, [Next]_vars PROVE [Store!Next]_Store!vars
  OBVIOUS
<1>1. CASE Commands
  BY <1>1, CommandsAreQuiet
<1>2. CASE Scp
  BY <1>2, ScpIsQuiet
<1>3. CASE Steps
  <2>1. CASE RenameFile \/ DeleteFile \/ DeleteEntry
    BY <2>1, LibrarySteps
  <2>2. CASE \/ WriteMetadata \/ CreatePayload \/ UndoMetadata \/ RemoveSlot
             \/ SkipPayload \/ UnlinkMetadata
    BY <2>2, QuietSlotSteps
  <2>3. CASE TrashFile \/ PublishFile \/ RemoveEntry
    BY <2>3, TrashIsDiscard, PublishIsPublishOrRecover, RemovalIsForgetOrDestroy
  <2>4. CASE \/ GiveUp \/ DeleteFolder \/ StepFails \/ MakeParent
             \/ NextSlot \/ NoMoreSlots \/ EntriesRemoved
    <3>1. lib' = lib /\ slot' = slot
      BY <2>4 DEF GiveUp, DeleteFolder, StepFails, MakeParent, NextSlot, NoMoreSlots,
                  EntriesRemoved
    <3>2. QED
      BY <3>1, StoreUnchanged DEF Bin, BinOf
  <2>5. QED
    BY <1>3, <2>1, <2>2, <2>3, <2>4 DEF Steps
<1>4. CASE UNCHANGED vars
  BY <1>4, StoreUnchanged DEF vars, Bin, BinOf
<1>5. QED
  BY <1>1, <1>2, <1>3, <1>4 DEF Next

\* r1-filectl implements FileStore: interrupted anywhere, a command has happened
\* or it has not, as far as the library and the trash show it.
THEOREM ImplementsFileStore == Spec => StoreSpec
BY StoreInit, StoreNext, CardInvariant, PTL DEF Spec, StoreSpec, Store!Spec

(***************************************************************************)
(* What may lose a file.                                                   *)
(***************************************************************************)
\* A file in the trash stays while its private directory keeps it.
LEMMA KeptByTheRest ==
  ASSUME NEW x, NEW i \in Ids, Kept(x), lib' = lib,
         \A k \in Ids \ {i} : slot'[k] = slot[k],
         slot[i].area = "trash" /\ slot[i].item = x
           => slot'[i].area = "trash" /\ slot'[i].item = x
  PROVE  Kept(x)'
BY DEF Kept

\* fail, skip and keep land where nothing is.
LEMMA RenameKeeps ==
  ASSUME CardInv, NEW x \in Complete, Kept(x), RenameFile, job.policy # "replace"
  PROVE  Kept(x)'
<1>1. slot' = slot /\ lib \in [Places -> Items \cup {None}]
  BY DEF RenameFile, CardInv, TypeOK
<1>2. job.from \in Places /\ job.to \in Places
  BY DEF RenameFile, At, CardInv, ArgumentsInv
<1>3. PICK r \in Landing(job.to, job.policy) :
        lib' = IF r = job.from THEN lib
               ELSE [lib EXCEPT ![r] = lib[job.from], ![job.from] = None]
  BY DEF RenameFile
<1>4. r \in Places /\ lib[r] = None
  BY <1>2 DEF Landing
<1>5. x # None
  BY NoneAssumption, SizeAssumption DEF Complete, Songs
<1>6. ASSUME NEW p \in Places, lib[p] = x
      PROVE  \E q \in Places : lib'[q] = x
  BY <1>1, <1>2, <1>3, <1>4, <1>5, <1>6
<1>7. QED
  BY <1>1, <1>6 DEF Kept

\* The file leaves the library for the trash, in one rename.
LEMMA TrashKeeps ==
  ASSUME CardInv, NEW x \in Complete, Kept(x), TrashFile
  PROVE  Kept(x)'
<1>1. PICK i \in Ids : i = job.id /\ slot \in [Ids -> SlotType]
  BY DEF TrashFile, At, CardInv, TypeOK, ArgumentsInv, InSlot
<1>2. /\ job.from \in Places /\ lib \in [Places -> Items \cup {None}]
      /\ slot[i].area = "trash" /\ slot[i].item = None
  BY <1>1 DEF TrashFile, At, CardInv, TypeOK, ArgumentsInv, TrashInv
<1>3. x # None
  BY NoneAssumption, SizeAssumption DEF Complete, Songs
<1>4. /\ lib' = [lib EXCEPT ![job.from] = None]
      /\ slot' = [slot EXCEPT ![i].item = lib[job.from]]
  BY <1>1 DEF TrashFile
<1>5. slot'[i].area = "trash" /\ slot'[i].item = lib[job.from]
  BY <1>1, <1>2, <1>4 DEF SlotType
<1>6. \A k \in Ids \ {i} : slot'[k] = slot[k]
  BY <1>1, <1>4
<1>7. QED
  BY <1>2, <1>3, <1>4, <1>5, <1>6 DEF Kept

\* ... as a published file does.
LEMMA PublishKeeps ==
  ASSUME CardInv, NEW x \in Complete, Kept(x), PublishFile, job.policy # "replace"
  PROVE  Kept(x)'
<1>1. PICK i \in Ids : i = job.id /\ slot \in [Ids -> SlotType]
  BY DEF PublishFile, At, CardInv, TypeOK, ArgumentsInv, InSlot
<1>2. job.to \in Places /\ lib \in [Places -> Items \cup {None}]
  BY DEF PublishFile, At, CardInv, TypeOK, ArgumentsInv
<1>3. PICK r \in Landing(job.to, job.policy) : lib' = [lib EXCEPT ![r] = slot[i].item]
  BY <1>1 DEF PublishFile
<1>4. r \in Places /\ lib[r] = None
  BY <1>2 DEF Landing
<1>5. x # None
  BY NoneAssumption, SizeAssumption DEF Complete, Songs
<1>6. lib'[r] = slot[i].item /\ \A p \in Places \ {r} : lib'[p] = lib[p]
  BY <1>2, <1>3, <1>4
<1>7. \A k \in Ids \ {i} : slot'[k] = slot[k]
  BY <1>1 DEF PublishFile
<1>8. QED
  BY <1>4, <1>5, <1>6, <1>7 DEF Kept

\* The other steps of a command that change a private directory, and those of SCP.
LEMMA SlotStepsKeep ==
  ASSUME CardInv, NEW x \in Complete, Kept(x),
         \/ WriteMetadata \/ CreatePayload \/ UndoMetadata \/ RemoveSlot
         \/ SkipPayload \/ UnlinkMetadata
  PROVE  Kept(x)'
<1>1. PICK i \in Ids : i = job.id /\ slot \in [Ids -> SlotType]
  BY DEF WriteMetadata, CreatePayload, UndoMetadata, RemoveSlot, SkipPayload,
         UnlinkMetadata, At, CardInv, TypeOK, ArgumentsInv, InSlot
<1>2. lib' = lib /\ \A k \in Ids \ {i} : slot'[k] = slot[k]
  BY <1>1 DEF WriteMetadata, CreatePayload, UndoMetadata, RemoveSlot, SkipPayload,
              UnlinkMetadata
<1>3. x # None
  BY NoneAssumption, SizeAssumption DEF Complete, Songs
<1>4. slot[i].area = "trash" /\ slot[i].item = x
        => slot'[i].area = "trash" /\ slot'[i].item = x
  <2>1. CASE WriteMetadata \/ UndoMetadata \/ UnlinkMetadata
    BY <1>1, <2>1 DEF WriteMetadata, UndoMetadata, UnlinkMetadata, SlotType
  <2>2. CASE CreatePayload \/ SkipPayload
    BY <1>1, <2>2 DEF CreatePayload, SkipPayload, At, CardInv, UploadInv
  <2>3. CASE RemoveSlot
    BY <1>1, <1>3, <2>3 DEF RemoveSlot, Empty
  <2>4. QED
    BY <2>1, <2>2, <2>3
<1>5. QED
  BY <1>2, <1>4, KeptByTheRest

\* SCP has nothing to do with the trash.
LEMMA ScpKeeps ==
  ASSUME CardInv, NEW x \in Complete, Kept(x), Scp
  PROVE  Kept(x)'
<1>1. PICK i \in Ids : ScpOpens(i) \/ ScpWrites(i) \/ ScpEnds(i)
  BY DEF Scp
<1>2. lib' = lib /\ \A k \in Ids \ {i} : slot'[k] = slot[k]
  BY <1>1 DEF ScpOpens, ScpWrites, ScpEnds, CardInv, TypeOK
<1>3. slot' = slot \/ slot[i].area # "trash"
  BY <1>1 DEF ScpOpens, ScpWrites, ScpEnds, CardInv, SlotInv
<1>4. QED
  BY <1>2, <1>3, KeptByTheRest

\* Beginning a command loses nothing.
LEMMA CommandsKeep ==
  ASSUME CardInv, NEW x \in Complete, Kept(x), Commands
  PROVE  Kept(x)'
<1>1. CASE lib' = lib /\ slot' = slot
  BY <1>1 DEF Kept
<1>2. x # None
  BY NoneAssumption, SizeAssumption DEF Complete, Songs
<1>3. ASSUME NEW i \in Ids, NEW area, Fresh(i), MakeSlot(i, area), lib' = lib
      PROVE  Kept(x)'
  <2>1. /\ \A k \in Ids \ {i} : slot'[k] = slot[k]
        /\ slot[i].area # "trash"
    BY <1>3 DEF Fresh, MakeSlot, NoSlot, CardInv, TypeOK
  <2>2. QED
    BY <1>3, <2>1, KeptByTheRest
<1>4. QED
  BY <1>1, <1>3 DEF Commands, BeginRename, BeginMove, BeginDelete, Mkdir, BeginTrash,
     BeginPrepare, BeginDeleteFolder, BeginRestore, BeginCommit, BeginPurge, BeginCancel,
     BeginEmptyTrash

\* Only purge and empty-trash unlink a file of the trash, and it is doomed.
LEMMA RemovalKeepsTheRest ==
  ASSUME CardInv, NEW x \in Complete, Kept(x), RemoveEntry, ~Kept(x)'
  PROVE  \E i \in doomed : slot[i].item = x
<1>1. PICK i \in Ids : i = job.id /\ slot \in [Ids -> SlotType]
  BY DEF RemoveEntry, At, CardInv, TypeOK, ArgumentsInv, InSlot
<1>2. lib' = lib /\ \A k \in Ids \ {i} : slot'[k] = slot[k]
  BY <1>1 DEF RemoveEntry
<1>3. slot[i].area = "trash" /\ slot[i].item = x
  BY <1>2, KeptByTheRest
<1>4. i \in doomed
  BY <1>1, <1>3 DEF RemoveEntry, At, CardInv, UploadInv, PurgeInv, InSlot
<1>5. QED
  BY <1>3, <1>4

\* A whole file is lost only to delete, to the policy replace, or to a purge of its
\* trash item that was asked for.
THEOREM NothingLostSilently == Spec => NoSilentLoss
<1> DEFINE Lost(x) == \/ job.cmd = "delete"
                      \/ job.policy = "replace"
                      \/ \E i \in doomed : slot[i].item = x
           Loss == \A x \in Complete : Kept(x) /\ ~Kept(x)' => Lost(x)
<1>1. CardInv /\ [Next]_vars => [Loss]_vars
  <2> SUFFICES ASSUME CardInv, Next, NEW x \in Complete, Kept(x), ~Kept(x)'
               PROVE  Lost(x)
    OBVIOUS
  <2>1. ~Commands /\ ~Scp
    BY CommandsKeep, ScpKeeps
  <2>2. CASE RenameFile \/ TrashFile \/ PublishFile
    BY <2>2, RenameKeeps, TrashKeeps, PublishKeeps
  <2>3. CASE DeleteFile \/ DeleteEntry
    BY <2>3 DEF DeleteFile, DeleteEntry, At
  <2>4. CASE \/ WriteMetadata \/ CreatePayload \/ UndoMetadata \/ RemoveSlot
             \/ SkipPayload \/ UnlinkMetadata
    BY <2>4, SlotStepsKeep
  <2>5. CASE RemoveEntry
    BY <2>5, RemovalKeepsTheRest
  <2>6. CASE \/ GiveUp \/ DeleteFolder \/ StepFails \/ MakeParent
             \/ NextSlot \/ NoMoreSlots \/ EntriesRemoved
    BY <2>6 DEF GiveUp, DeleteFolder, StepFails, MakeParent, NextSlot, NoMoreSlots,
                EntriesRemoved, Kept
  <2>7. QED
    BY <2>1, <2>2, <2>3, <2>4, <2>5, <2>6 DEF Next, Steps
<1>2. QED
  BY <1>1, CardInvariant, PTL DEF Spec, NoSilentLoss

================================================================================
