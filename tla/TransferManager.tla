--------------------------- MODULE TransferManager ---------------------------
(***************************************************************************)
(* R1 Manager's transfers: R1ManagerViewModel.kt with the repository, the  *)
(* r1-filectl client and the SSH transport it calls.                       *)
(*                                                                         *)
(* Four threads share the view model: main (the taps), batch (the upload   *)
(* queue), fetch (a download) and view (a directory refresh), the last     *)
(* three coroutines of Dispatchers.IO.  All of them publish with           *)
(* `_state.value = _state.value.copy(...)`, which is a read of the screen  *)
(* state and, later, a write of the whole of it: here Publish, in one step *)
(* or torn in two, with what the others write in between lost at Store.    *)
(* Every remote call opens an SSH connection of its own and compares the   *)
(* host key with the pin the block captured when it began.                 *)
(*                                                                         *)
(* One profile is modelled.  A call that only reads the player is one step *)
(* for all the reads of its block, which see the same pin.                 *)
(***************************************************************************)
EXTENDS Naturals, FiniteSets

CONSTANTS
  Uploads,      \* the files of the reviewed batch
  Download,     \* the file being downloaded
  Paths,        \* destinations on the microSD
  Dest,         \* the planned destination of each upload
  MaxKey,       \* host keys the player goes through: 1, 2, ... MaxKey
  MaxFaults,    \* bound: broken connections and refused commands
  MaxTaps,      \* bound: answers about a host key and resets of the pin
  MaxTorn,      \* bound: state updates another thread gets into
  None

Transfers == Uploads \cup {Download}
Keys == 1..MaxKey
Threads == {"main", "batch", "fetch", "view"}

\* ConflictPolicy by its wire name; ASK travels as "fail".
Policies == {"fail", "skip", "replace", "keep"}

\* TransferState.
States == {"queued", "running", "trust?", "decision?",
           "completed", "skipped", "failed", "cancelled"}

\* The blocks given to withTrustedProfile.
Blocks == {"exists", "upload", "refresh", "fetch", "list"}

ASSUME DestAssumption == Dest \in [Uploads -> Paths]
ASSUME KeyAssumption == MaxKey \in Nat \ {0} /\ {MaxFaults, MaxTaps, MaxTorn} \subseteq Nat
ASSUME NoneAssumption ==
  /\ None \notin Transfers /\ None \notin Keys
  /\ None \notin Threads \cup Policies \cup States \cup Blocks
  /\ None \notin {"foreign", "open", "cancel"}
  /\ Download \notin Uploads

VARIABLES
  ui,                \* _state.value: [transfers, trust, conflict, pin]
  torn,              \* state updates split in two so far
  th,                \* each thread's position and local variables
  todo,              \* the rest of the batch
  policy,            \* the policy confirmed with it; None before
  activeTransferId,
  trustDecision,     \* whose CompletableDeferred it is
  conflictDecision,  \* the batch's: None, "open" or its value
  saved,             \* the pin in ProfileStore
  device,            \* the player: [key, disk, staged, published]
  faults,
  taps,
  approved,          \* history: the host keys the user accepted
  chosen,            \* history: a dialog was answered Replace
  replaced           \* history: an upload replaced a file

vars == <<ui, torn, th, todo, policy, activeTransferId, trustDecision, conflictDecision,
          saved, device, faults, taps, approved, chosen, replaced>>

screen == <<ui, torn>>
decisions == <<trustDecision, conflictDecision>>
history == <<approved, chosen, replaced>>
queue == <<todo, policy>>

Screen == [transfers : [Transfers -> States \cup {None}],
           trust     : Keys \cup {None},
           conflict  : Uploads \cup {None},
           pin       : Keys \cup {None}]

Calls == {"exists", "prepare", "commit", "refresh", "fetch", "list"}

Positions ==
  Calls \cup {"new", "idle", "store", "next", "begin", "trusted", "cancel",
              "ask", "request", "await", "conflict", "dialog", "choose", "completed",
              "skipped", "failed", "cancelled", "report", "finally", "over", "launch",
              "launchFetch", "dismiss", "yes", "no", "notice"}

Local == [at     : Positions,
          next   : Positions \cup {None},   \* where to go on after the store
          draft  : Screen \cup {None},      \* the copy about to be stored
          block  : Blocks \cup {None},      \* the block of withTrustedProfile
          item   : Transfers \cup {None},
          pin    : Keys \cup {None},        \* the profile's, when the block began
          wire   : Policies \cup {None},
          ticket : BOOLEAN,                 \* an upload is prepared on the player
          wanted : Keys \cup {None},        \* the key an exception carries
          answer : {"yes", "no", None}]     \* the thread's own deferred

Fresh(where) ==
  [at |-> where, next |-> None, draft |-> None, block |-> None, item |-> None,
   pin |-> None, wire |-> None, ticket |-> FALSE, wanted |-> None, answer |-> None]

\* A profile that was never connected, or one approved earlier.
Init ==
  /\ saved \in {None, 1}
  /\ ui = [transfers |-> [i \in Transfers |-> None], trust |-> None,
           conflict |-> None, pin |-> saved]
  /\ torn = 0
  /\ th = [t \in Threads |-> Fresh(IF t = "main" THEN "idle" ELSE "new")]
  /\ todo = {}
  /\ policy = None
  /\ activeTransferId = None
  /\ trustDecision = None
  /\ conflictDecision = None
  /\ device = [key |-> 1, disk |-> [p \in Paths |-> None], staged |-> 0,
               published |-> [i \in Uploads |-> 0]]
  /\ faults = 0
  /\ taps = 0
  /\ approved = {saved} \ {None}
  /\ chosen = FALSE
  /\ replaced = FALSE

(***************************************************************************)
(* Moving a thread on, and a state update: at once, or torn.               *)
(***************************************************************************)
At(t, where) == th[t].at = where

Go(t, local, where) ==
  /\ th' = [th EXCEPT ![t] = [local EXCEPT !.at = where]]
  /\ UNCHANGED screen

Publish(t, local, new, next) ==
  \/ /\ ui' = new
     /\ th' = [th EXCEPT ![t] = [local EXCEPT !.at = next]]
     /\ UNCHANGED torn
  \/ /\ torn < MaxTorn
     /\ torn' = torn + 1
     /\ th' = [th EXCEPT ![t] = [local EXCEPT !.at = "store", !.draft = new, !.next = next]]
     /\ UNCHANGED ui

Store(t) ==
  /\ At(t, "store")
  /\ ui' = th[t].draft
  /\ th' = [th EXCEPT ![t] = [th[t] EXCEPT !.at = th[t].next, !.draft = None, !.next = None]]
  /\ UNCHANGED <<torn, queue, activeTransferId, decisions, saved, device, faults, taps, history>>

\* updateTransfer; an item that is not listed is not added.
Mark(i, state) ==
  IF ui.transfers[i] = None THEN ui ELSE [ui EXCEPT !.transfers[i] = state]

\* activeTransferId?.let { updateTransfer(...) }
MarkActive(t, local, state, next) ==
  IF activeTransferId = None
  THEN Go(t, local, next)
  ELSE Publish(t, local, Mark(activeTransferId, state), next)

(***************************************************************************)
(* Remote calls.                                                           *)
(***************************************************************************)
\* A variant: the first key seen is taken without asking.
AcceptsFirst(t) == th[t].pin \in {device.key, None}

\* PinnedRepository.check.
Accepts(t) == th[t].pin = device.key

Connected(t, where) == At(t, where) /\ Accepts(t)

\* withTrustedProfile reads the profile again each time round.
TrustedBlock(t) ==
  /\ At(t, "trusted")
  /\ Go(t, [th[t] EXCEPT !.pin = ui.pin],
        IF th[t].block = "upload" THEN "prepare" ELSE th[t].block)
  /\ UNCHANGED <<queue, activeTransferId, decisions, saved, device, faults, taps, history>>

\* A variant: withTrustedProfile also tries a broken connection again.
RetriesAll(key) == IF key = None THEN "trusted" ELSE "ask"

\* withTrustedProfile catches a host-key exception, its caller any other.
Handler(key) == IF key = None THEN "failed" ELSE "ask"

\* R1Repository.upload cancels its ticket before it lets the exception go on.
Raised(t, key) ==
  Go(t, [th[t] EXCEPT !.wanted = key],
     IF th[t].at = "commit" THEN "cancel" ELSE Handler(key))

\* HostTrustRequired or HostIdentityChanged.
HostKeyRefused(t) ==
  /\ th[t].at \in Calls
  /\ ~Accepts(t)
  /\ Raised(t, device.key)
  /\ UNCHANGED <<queue, activeTransferId, decisions, saved, device, faults, taps, history>>

\* The connection breaks before the command runs, or r1-filectl refuses it.
CallFails(t) ==
  /\ th[t].at \in Calls
  /\ faults < MaxFaults
  /\ faults' = faults + 1
  /\ Raised(t, None)
  /\ UNCHANGED <<queue, activeTransferId, decisions, saved, device, taps, history>>

\* The reply with the ticket's name may be lost.
PrepareUpload(t) ==
  /\ Connected(t, "prepare")
  /\ device' = [device EXCEPT !.staged = @ + 1]
  /\ \/ Go(t, [th[t] EXCEPT !.ticket = TRUE], "commit") /\ UNCHANGED faults
     \/ faults < MaxFaults /\ faults' = faults + 1 /\ Raised(t, None)
  /\ UNCHANGED <<queue, activeTransferId, decisions, saved, taps, history>>

\* onProgress, of the SCP between a ticket and its commit or of a download.
Progress(t) ==
  /\ th[t].at \in {"commit", "fetch"}
  /\ Accepts(t)
  /\ Publish(t, th[t], Mark(th[t].item, "running"), th[t].at)
  /\ UNCHANGED <<queue, activeTransferId, decisions, saved, device, faults, taps, history>>

(***************************************************************************)
(* upload-status and upload-commit: published, skipped or refused; the     *)
(* reply may be lost after the player acted.                               *)
(***************************************************************************)
Occupied(i) == device.disk[Dest[i]] # None

\* A variant: ASK would travel as "replace".
AskReplaces(i, wire) ==
  IF ~Occupied(i) \/ wire # "skip" THEN "completed" ELSE "skipped"

Outcome(i, wire) ==
  IF ~Occupied(i) \/ wire \in {"replace", "keep"} THEN "completed"
  ELSE IF wire = "skip" THEN "skipped" ELSE "failed"

CommitUpload(t) ==
  LET i == th[t].item
      outcome == Outcome(i, th[t].wire)
      here == outcome = "completed" /\ ~(Occupied(i) /\ th[t].wire = "keep")
      done == [th[t] EXCEPT !.ticket = FALSE, !.wanted = None]
  IN
  /\ Connected(t, "commit")
  /\ outcome # "failed"
  /\ device' = [device EXCEPT
                  !.staged = @ - 1,
                  !.disk[Dest[i]] = IF here THEN i ELSE @,
                  !.published[i] = IF outcome = "completed" THEN @ + 1 ELSE @]
  /\ replaced' = (replaced \/ (here /\ Occupied(i)))
  /\ \/ Go(t, done, outcome) /\ UNCHANGED faults
     \/ faults < MaxFaults /\ faults' = faults + 1 /\ Go(t, done, "cancel")
  /\ UNCHANGED <<queue, activeTransferId, decisions, saved, taps, approved, chosen>>

\* DESTINATION_EXISTS.
CommitRefused(t) ==
  /\ Connected(t, "commit")
  /\ Outcome(th[t].item, th[t].wire) = "failed"
  /\ Raised(t, None)
  /\ UNCHANGED <<queue, activeTransferId, decisions, saved, device, faults, taps, history>>

\* A variant: the error path leaves the ticket.
CancelForgotten(t) ==
  /\ At(t, "cancel")
  /\ Go(t, [th[t] EXCEPT !.ticket = FALSE], Handler(th[t].wanted))
  /\ UNCHANGED <<queue, activeTransferId, decisions, saved, device, faults, taps, history>>

\* runCatching { cancelUpload } and the exception goes on.
CancelUpload(t) ==
  /\ At(t, "cancel")
  /\ \/ /\ Accepts(t) /\ th[t].ticket
        /\ device' = [device EXCEPT !.staged = @ - 1]
        /\ UNCHANGED faults
     \/ /\ Accepts(t) /\ th[t].ticket
        /\ faults < MaxFaults /\ faults' = faults + 1
        /\ UNCHANGED device
     \/ ~(Accepts(t) /\ th[t].ticket) /\ UNCHANGED <<device, faults>>
  /\ Go(t, [th[t] EXCEPT !.ticket = FALSE], Handler(th[t].wanted))
  /\ UNCHANGED <<queue, activeTransferId, decisions, saved, taps, history>>

(***************************************************************************)
(* awaitTrust.  There is one trustDecision and one trustRequest, whoever   *)
(* asks, and the item marked is the active one, whoever's it is.           *)
(***************************************************************************)
AwaitTrust(t) ==
  /\ At(t, "ask")
  /\ trustDecision' = t
  /\ MarkActive(t, [th[t] EXCEPT !.answer = None], "trust?", "request")
  /\ UNCHANGED <<queue, activeTransferId, conflictDecision, saved, device, faults, taps, history>>

RequestTrust(t) ==
  /\ At(t, "request")
  /\ Publish(t, th[t], [ui EXCEPT !.trust = th[t].wanted], "await")
  /\ UNCHANGED <<queue, activeTransferId, decisions, saved, device, faults, taps, history>>

\* A variant: without the runCatching around the refresh.
RejectedUncaught(t) == IF th[t].block = "list" THEN "report" ELSE "cancelled"

\* What TrustRejected does: launchRemote and the refresh after a transfer only
\* give up, a transfer is cancelled.
Rejected(t) ==
  CASE th[t].block = "refresh" -> "finally"
    [] th[t].block = "list" -> "report"
    [] OTHER -> "cancelled"

TrustDecided(t) ==
  LET awake == [th[t] EXCEPT !.answer = None, !.wanted = None]
  IN
  /\ At(t, "await")
  /\ trustDecision' = None
  /\ \/ th[t].answer = "yes" /\ MarkActive(t, awake, "running", "trusted")
     \/ th[t].answer = "no" /\ Go(t, awake, Rejected(t))
  /\ UNCHANGED <<queue, activeTransferId, conflictDecision, saved, device, faults, taps, history>>

(***************************************************************************)
(* processUploadBatch.  No screen calls cancelTransfer, so that            *)
(* isTransferActive holds of every item still to do.                       *)
(***************************************************************************)
NextUpload ==
  /\ At("batch", "next")
  /\ \E i \in todo :
       /\ todo' = todo \ {i}
       /\ activeTransferId' = i
       /\ Publish("batch",
                  [th["batch"] EXCEPT !.item = i, !.wire = policy,
                                      !.block = IF policy = "fail" THEN "exists" ELSE "upload"],
                  Mark(i, "running"), "trusted")
  /\ UNCHANGED <<policy, decisions, saved, device, faults, taps, history>>

BatchOver ==
  /\ At("batch", "next")
  /\ todo = {}
  /\ Go("batch", th["batch"], "over")
  /\ UNCHANGED <<queue, activeTransferId, decisions, saved, device, faults, taps, history>>

\* Only a batch with ASK comes here.
DestinationExists ==
  /\ Connected("batch", "exists")
  /\ IF Occupied(th["batch"].item)
     THEN Go("batch", th["batch"], "conflict")
     ELSE Go("batch", [th["batch"] EXCEPT !.block = "upload"], "trusted")
  /\ UNCHANGED <<queue, activeTransferId, decisions, saved, device, faults, taps, history>>

\* awaitConflict.
AwaitConflict ==
  /\ At("batch", "conflict")
  /\ conflictDecision' = "open"
  /\ Publish("batch", th["batch"], Mark(th["batch"].item, "decision?"), "dialog")
  /\ UNCHANGED <<queue, activeTransferId, trustDecision, saved, device, faults, taps, history>>

RequestConflict ==
  /\ At("batch", "dialog")
  /\ Publish("batch", th["batch"], [ui EXCEPT !.conflict = th["batch"].item], "choose")
  /\ UNCHANGED <<queue, activeTransferId, decisions, saved, device, faults, taps, history>>

ConflictDecided ==
  LET closed == [ui EXCEPT !.conflict = None]
  IN
  /\ At("batch", "choose")
  /\ conflictDecision \notin {"open", None}
  /\ conflictDecision' = None
  /\ IF conflictDecision = "cancel"
     THEN Publish("batch", th["batch"], closed, "cancelled")
     ELSE Publish("batch", [th["batch"] EXCEPT !.wire = conflictDecision, !.block = "upload"],
                  closed, "trusted")
  /\ UNCHANGED <<queue, activeTransferId, trustDecision, saved, device, faults, taps, history>>

\* COMPLETED or SKIPPED; an upload is followed by refreshAfterTransfer.
Finished(t) ==
  /\ th[t].at \in {"completed", "skipped"}
  /\ IF t = "batch"
     THEN Publish(t, [th[t] EXCEPT !.block = "refresh"], Mark(th[t].item, th[t].at), "trusted")
     ELSE Publish(t, th[t], Mark(th[t].item, th[t].at), "finally")
  /\ UNCHANGED <<queue, activeTransferId, decisions, saved, device, faults, taps, history>>

RefreshAfterTransfer ==
  /\ Connected("batch", "refresh")
  /\ Publish("batch", th["batch"], ui, "finally")
  /\ UNCHANGED <<queue, activeTransferId, decisions, saved, device, faults, taps, history>>

\* The handlers: FAILED and then the problem, CANCELLED, or for a refresh after
\* a transfer nothing (runCatching) and for a directory refresh the problem.
Failed(t) ==
  /\ At(t, "failed")
  /\ CASE th[t].block = "refresh" -> Go(t, th[t], "finally")
       [] th[t].block = "list" -> Go(t, th[t], "report")
       [] OTHER -> Publish(t, th[t], Mark(th[t].item, "failed"), "report")
  /\ UNCHANGED <<queue, activeTransferId, decisions, saved, device, faults, taps, history>>

Cancelled(t) ==
  /\ At(t, "cancelled")
  /\ Publish(t, th[t], Mark(th[t].item, "cancelled"), "finally")
  /\ UNCHANGED <<queue, activeTransferId, decisions, saved, device, faults, taps, history>>

Report(t) ==
  /\ At(t, "report")
  /\ IF t = "view" THEN Publish(t, Fresh("over"), ui, "over")
                   ELSE Publish(t, th[t], ui, "finally")
  /\ UNCHANGED <<queue, activeTransferId, decisions, saved, device, faults, taps, history>>

Finally(t) ==
  /\ At(t, "finally")
  /\ activeTransferId' = IF activeTransferId = th[t].item THEN None ELSE activeTransferId
  /\ th' = [th EXCEPT ![t] = Fresh(IF t = "batch" THEN "next" ELSE "over")]
  /\ UNCHANGED <<screen, queue, decisions, saved, device, faults, taps, history>>

(***************************************************************************)
(* downloadSingleTo's coroutine, and launchRemote's for refresh.           *)
(***************************************************************************)
BeginDownload ==
  /\ At("fetch", "begin")
  /\ activeTransferId' = Download
  /\ Publish("fetch", [th["fetch"] EXCEPT !.item = Download, !.block = "fetch"],
             Mark(Download, "running"), "trusted")
  /\ UNCHANGED <<queue, decisions, saved, device, faults, taps, history>>

Fetched ==
  /\ Connected("fetch", "fetch")
  /\ Go("fetch", th["fetch"], "completed")
  /\ UNCHANGED <<queue, activeTransferId, decisions, saved, device, faults, taps, history>>

Listed ==
  /\ Connected("view", "list")
  /\ Publish("view", Fresh("over"), ui, "over")
  /\ UNCHANGED <<queue, activeTransferId, decisions, saved, device, faults, taps, history>>

(***************************************************************************)
(* The taps.                                                               *)
(***************************************************************************)
Idle == At("main", "idle")

Tap == Idle /\ taps < MaxTaps /\ taps' = taps + 1

\* The plan is confirmed once: transferJob refuses a second one meanwhile.
ConfirmUploads(chosenPolicy) ==
  /\ Idle
  /\ policy = None
  /\ policy' = chosenPolicy
  /\ Publish("main", th["main"],
             [ui EXCEPT !.transfers = [i \in Transfers |->
                                         IF i \in Uploads THEN "queued" ELSE @[i]]],
             "launch")
  /\ UNCHANGED <<todo, activeTransferId, decisions, saved, device, faults, taps, history>>

ProcessUploadBatch ==
  /\ At("main", "launch")
  /\ todo' = Uploads
  /\ th' = [th EXCEPT !["main"] = Fresh("idle"), !["batch"] = Fresh("next")]
  /\ UNCHANGED <<screen, policy, activeTransferId, decisions, saved, device, faults, taps, history>>

DownloadSingleTo ==
  /\ Idle
  /\ At("fetch", "new")
  /\ Publish("main", th["main"], [ui EXCEPT !.transfers[Download] = "queued"], "launchFetch")
  /\ UNCHANGED <<queue, activeTransferId, decisions, saved, device, faults, taps, history>>

LaunchDownload ==
  /\ At("main", "launchFetch")
  /\ th' = [th EXCEPT !["main"] = Fresh("idle"), !["fetch"] = Fresh("begin")]
  /\ UNCHANGED <<screen, queue, activeTransferId, decisions, saved, device, faults, taps, history>>

Refresh ==
  /\ Idle
  /\ At("view", "new")
  /\ Publish("view", [Fresh("idle") EXCEPT !.block = "list"], ui, "trusted")
  /\ UNCHANGED <<queue, activeTransferId, decisions, saved, device, faults, taps, history>>

\* The observed fingerprint is saved and the profiles are read back.
AcceptTrust ==
  /\ Tap
  /\ ui.trust # None
  /\ saved' = ui.trust
  /\ approved' = approved \cup {ui.trust}
  /\ Publish("main", [th["main"] EXCEPT !.answer = "yes"], [ui EXCEPT !.pin = ui.trust], "dismiss")
  /\ UNCHANGED <<queue, activeTransferId, decisions, device, faults, chosen, replaced>>

RejectTrust ==
  /\ Tap
  /\ ui.trust # None
  /\ Go("main", [th["main"] EXCEPT !.answer = "no"], "dismiss")
  /\ UNCHANGED <<queue, activeTransferId, decisions, saved, device, faults, history>>

DismissTrust ==
  /\ At("main", "dismiss")
  /\ Publish("main", th["main"], [ui EXCEPT !.trust = None], th["main"].answer)
  /\ UNCHANGED <<queue, activeTransferId, decisions, saved, device, faults, taps, history>>

\* trustDecision?.complete(...): the first answer stays.
CompleteTrust ==
  /\ th["main"].at \in {"yes", "no"}
  /\ th' = [t \in Threads |->
              IF t = "main" THEN Fresh("idle")
              ELSE IF t = trustDecision /\ th[t].answer = None
                   THEN [th[t] EXCEPT !.answer = th["main"].at]
                   ELSE th[t]]
  /\ UNCHANGED <<screen, queue, activeTransferId, decisions, saved, device, faults, taps, history>>

\* From the dialog on screen; it completes the deferred there is.
ResolveConflict(answer) ==
  /\ Idle
  /\ ui.conflict # None
  /\ conflictDecision = "open"
  /\ conflictDecision' = answer
  /\ chosen' = (chosen \/ answer = "replace")
  /\ UNCHANGED <<screen, th, queue, activeTransferId, trustDecision, saved, device, faults,
                 taps, approved, replaced>>

\* The second update is the notice.
ResetPinnedHostKey ==
  /\ Tap
  /\ saved # None
  /\ saved' = None
  /\ Publish("main", th["main"], [ui EXCEPT !.pin = None], "notice")
  /\ UNCHANGED <<queue, activeTransferId, decisions, device, faults, history>>

NoticeReset ==
  /\ At("main", "notice")
  /\ Publish("main", th["main"], ui, "idle")
  /\ UNCHANGED <<queue, activeTransferId, decisions, saved, device, faults, taps, history>>

(***************************************************************************)
(* The player: its host key is regenerated, or somebody else writes a file *)
(* at a destination.                                                       *)
(***************************************************************************)
HostKeyChanges ==
  /\ device.key < MaxKey
  /\ device' = [device EXCEPT !.key = @ + 1]
  /\ UNCHANGED <<screen, th, queue, activeTransferId, decisions, saved, faults, taps, history>>

ForeignWrite(p) ==
  /\ device.disk[p] = None
  /\ device' = [device EXCEPT !.disk[p] = "foreign"]
  /\ UNCHANGED <<screen, th, queue, activeTransferId, decisions, saved, faults, taps, history>>

Taps ==
  \/ \E p \in Policies : ConfirmUploads(p)
  \/ ProcessUploadBatch
  \/ DownloadSingleTo
  \/ LaunchDownload
  \/ Refresh
  \/ AcceptTrust
  \/ RejectTrust
  \/ DismissTrust
  \/ CompleteTrust
  \/ \E a \in {"skip", "replace", "keep", "cancel"} : ResolveConflict(a)
  \/ ResetPinnedHostKey
  \/ NoticeReset

Batch ==
  \/ NextUpload
  \/ BatchOver
  \/ DestinationExists
  \/ AwaitConflict
  \/ RequestConflict
  \/ ConflictDecided
  \/ RefreshAfterTransfer

Coroutine(t) ==
  \/ Store(t)
  \/ TrustedBlock(t)
  \/ HostKeyRefused(t)
  \/ CallFails(t)
  \/ PrepareUpload(t)
  \/ Progress(t)
  \/ CommitUpload(t)
  \/ CommitRefused(t)
  \/ CancelUpload(t)
  \/ AwaitTrust(t)
  \/ RequestTrust(t)
  \/ TrustDecided(t)
  \/ Finished(t)
  \/ Failed(t)
  \/ Cancelled(t)
  \/ Report(t)
  \/ Finally(t)

Player == HostKeyChanges \/ \E p \in Paths : ForeignWrite(p)

Next ==
  \/ Taps
  \/ Batch
  \/ BeginDownload
  \/ Fetched
  \/ Listed
  \/ \E t \in Threads : Coroutine(t)
  \/ Player

Spec == Init /\ [][Next]_vars

-------------------------------------------------------------------------------
(***************************************************************************)
(* Properties.                                                             *)
(***************************************************************************)
\* What the list shows of a finished upload is what happened on the player,
\* whatever stale copies of the list other threads stored meanwhile.
ShownResultIsTrue ==
  \A i \in Uploads :
    /\ ui.transfers[i] = "completed" => device.published[i] = 1
    /\ ui.transfers[i] \in {"skipped", "cancelled"} => device.published[i] = 0

\* An upload that is resumed, after an approval or several, is not published twice.
PublishedOnce == \A i \in Uploads : device.published[i] <= 1

\* With ASK, nothing is replaced if no dialog was answered Replace, also when the
\* file appeared after the check that found none.
NeverReplacedUnasked ==
  replaced => policy = "replace" \/ chosen

\* A command runs only on a player whose host key the user accepted, although an
\* answer may reach another coroutine than the one that asked.
ApprovedPlayerOnly ==
  \A t \in Threads : th[t].at \in Calls /\ Accepts(t) => device.key \in approved

\* A ticket stays on the card only if a connection broke or the key changed.
LeaksHaveACause ==
  device.staged <= Cardinality({t \in Threads : th[t].ticket}) + faults + device.key - 1

\* android/r1-manager/README.md: "a sequential transfer queue that resumes the
\* same operation after approving the R1 host key".  While the batch waits for
\* an approval, an approval would reach it.
ResumesAfterApproval ==
  At("batch", "await") /\ th["batch"].answer = None => trustDecision = "batch"

===============================================================================
