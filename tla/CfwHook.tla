-------------------------------- MODULE CfwHook --------------------------------
(***************************************************************************)
(* The launcher hook of mods/cfw-ui/src/r1_cfw_hook.c.  It is preloaded in *)
(* the multithreaded hiby_player: one thread that taps the CFW tile runs   *)
(* cfw_callback, which lends the display and the touchscreen to a sidecar  *)
(* process and takes them back, while every other thread keeps issuing     *)
(* framebuffer ioctls through r1_cfw_ioctl.                                *)
(*                                                                         *)
(* Offsets count framebuffer pages.  The spin lock of virtual_display is   *)
(* not a variable: a critical section is one action, which is what it is   *)
(* for the other users of the lock.  The one ioctl forwarded OUTSIDE the   *)
(* lock (r1_cfw_hook.c:225) is a step of its own.                          *)
(***************************************************************************)
EXTENDS Integers, FiniteSets

CONSTANTS Threads,    \* the threads of hiby_player
          MaxOffset,  \* the last page a pan may select: (yres_virtual - yres)
          Nobody      \* no value: a read that has not returned

ASSUME ThreadsAssumption == IsFiniteSet(Threads)
\* capture_framebuffer refuses a framebuffer of fewer than two pages.
ASSUME MaxOffsetAssumption == MaxOffset \in Nat /\ MaxOffset >= 1
ASSUME NobodyAssumption == Nobody \notin Nat

Offsets  == 0 .. MaxOffset
\* What a thread may ask for: one request lies past the framebuffer.
Requests == 0 .. (MaxOffset + 1)

VARIABLES
  player,          \* hiby_player: "up", or "dead" until the device reboots
  pc,              \* where each thread of the player is
  req,             \* the page of a thread's pan in flight
  report,          \* the offset the last FBIOGET_VSCREENINFO returned
  told,            \* the page of the last pan the player was told succeeded
  hw,              \* the page the display controller scans out
  fb,              \* who drew the pixels of each page
  virtual,         \* struct virtual_display_state
  snapshot,        \* struct framebuffer_snapshot
  callback_active, \* the test-and-set word of cfw_callback
  grab,            \* whose open file owns EVIOCGRAB on the touchscreen
  stockGrabs,      \* does the stock player grab the touchscreen at all
  touch,           \* struct touch_ownership
  side,            \* the sidecar process
  page,            \* the sidecar's display.active_page
  status,          \* how the sidecar ended
  result,          \* cfw_callback's result: return, or open the stock route
  flips            \* pans of the player that reached fb0 in this session

ioVars      == <<req, report, told>>
displayVars == <<hw, fb, virtual, snapshot, flips>>
touchVars   == <<grab, touch>>
sideVars    == <<side, page, status>>
vars == <<player, pc, ioVars, displayVars, callback_active, touchVars,
          stockGrabs, sideVars, result>>

(***************************************************************************)
(* Control points.  In "pan" and "get" a thread has found the virtual      *)
(* display inactive, has dropped the lock and is about to forward.         *)
(***************************************************************************)
IoPoints == {"pan", "get"}
\* cfw_callback has set callback_active and not yet cleared it.
SessionPoints == {"open", "pixels", "begin", "touch", "transfer", "dup",
                  "wait", "restore", "finish", "release", "regrab", "clear"}
\* Between virtual_display_begin and virtual_display_finish.
OwningPoints == {"touch", "transfer", "dup", "wait", "restore", "finish"}
Points == {"idle", "route"} \cup IoPoints \cup SessionPoints

\* The sidecar after exec; before it the child still runs the hook's code.
Executing == {"init", "drawn", "poll"}
SideStates == {"none", "forked", "armed", "exited"} \cup Executing
\* WEXITSTATUS: one of the two route codes, any other code, or a signal.
Statuses == {"route", "other", "signal"}

InSession(t) == pc[t] \in SessionPoints
Session == \E t \in Threads : InSession(t)

\* The offset the player can observe: what its next read-back would return.
View == IF virtual.active THEN virtual.yoffset ELSE hw

\* fb0's driver selects a page that exists and refuses any other.
KernelPan(y) == IF y \in Offsets THEN y ELSE hw

StockPixels == [p \in Offsets |-> "stock"]
Inactive    == [active |-> FALSE, yoffset |-> 0]
NoSnapshot  == [valid |-> FALSE, yoffset |-> 0, copy |-> StockPixels]
NoTouch     == [grabbed |-> FALSE, stock |-> FALSE]

-------------------------------------------------------------------------------
Init ==
  /\ player = "up"
  /\ pc = [t \in Threads |-> "idle"]
  /\ req = [t \in Threads |-> 0]
  /\ report = Nobody
  /\ told = 0
  /\ hw = 0
  /\ fb = StockPixels
  /\ virtual = Inactive
  /\ snapshot = NoSnapshot
  /\ callback_active = FALSE
  /\ stockGrabs \in BOOLEAN
  /\ grab = IF stockGrabs THEN "stock" ELSE "none"
  /\ touch = NoTouch
  /\ side = "none"
  /\ page = 0
  /\ status = "other"
  /\ result = "return"
  /\ flips = 0

(***************************************************************************)
(* A stock thread's framebuffer ioctls.                                    *)
(***************************************************************************)
Goto(t, p) == pc' = [pc EXCEPT ![t] = p]

\* Does virtual_display_ioctl answer the call itself?
Filtered == virtual.active

\* The pages a pan may select while it does; for others it returns EINVAL.
Accepts(y) == y <= MaxOffset

\* The yoffset it puts into a read-back.
ForwardedOffset == hw                  \* a variant: the reply is not patched
ReportedOffset == virtual.yoffset

\* A pan while the sidecar owns the display.
VirtualPan(t, y) ==
  /\ pc[t] = "idle"
  /\ Filtered
  /\ Accepts(y)
  /\ virtual' = [virtual EXCEPT !.yoffset = y]
  /\ told' = y
  /\ UNCHANGED <<player, pc, req, report, hw, fb, snapshot, flips,
                 callback_active, touchVars, stockGrabs, sideVars, result>>

\* A read-back meanwhile.
VirtualGet(t) ==
  /\ pc[t] = "idle"
  /\ Filtered
  /\ report' = ReportedOffset
  /\ UNCHANGED <<player, pc, req, told, displayVars, callback_active,
                 touchVars, stockGrabs, sideVars, result>>

\* It found the virtual display inactive: the call will be forwarded.
PassPan(t, y) ==
  /\ pc[t] = "idle"
  /\ ~Filtered
  /\ Goto(t, "pan")
  /\ req' = [req EXCEPT ![t] = y]
  /\ UNCHANGED <<player, report, told, displayVars, callback_active,
                 touchVars, stockGrabs, sideVars, result>>

PassGet(t) ==
  /\ pc[t] = "idle"
  /\ ~Filtered
  /\ Goto(t, "get")
  /\ report' = Nobody
  /\ UNCHANGED <<player, req, told, displayVars, callback_active,
                 touchVars, stockGrabs, sideVars, result>>

\* forward_ioctl, with the lock no longer held.
ForwardPan(t) ==
  /\ pc[t] = "pan"
  /\ Goto(t, "idle")
  /\ req' = [req EXCEPT ![t] = 0]
  /\ hw' = KernelPan(req[t])
  /\ told' = IF req[t] \in Offsets THEN req[t] ELSE told
  /\ flips' = IF virtual.active THEN flips + 1 ELSE flips
  /\ UNCHANGED <<player, report, fb, virtual, snapshot, callback_active,
                 touchVars, stockGrabs, sideVars, result>>

ForwardGet(t) ==
  /\ pc[t] = "get"
  /\ Goto(t, "idle")
  /\ report' = hw
  /\ UNCHANGED <<player, req, told, displayVars, callback_active,
                 touchVars, stockGrabs, sideVars, result>>

(***************************************************************************)
(* cfw_callback, up to the sidecar's launch.  A call that finds            *)
(* callback_active set returns 0 at once and changes nothing.              *)
(***************************************************************************)
EnterCallback(t) ==
  /\ pc[t] = "idle"
  /\ ~callback_active
  /\ callback_active' = TRUE
  /\ Goto(t, "open")
  /\ touch' = NoTouch
  /\ snapshot' = NoSnapshot
  /\ result' = "return"
  /\ UNCHANGED <<player, ioVars, hw, fb, virtual, flips, grab, stockGrabs,
                 sideVars>>

\* open, FBIOGET_VSCREENINFO and the geometry checks.
ReadVariable(t) ==
  /\ pc[t] = "open"
  /\ snapshot' = [snapshot EXCEPT !.yoffset = hw]
  /\ Goto(t, "pixels")
  /\ UNCHANGED <<player, ioVars, hw, fb, virtual, flips, callback_active,
                 touchVars, stockGrabs, sideVars, result>>

\* mmap, malloc and the copy of every page.
CopyPixels(t) ==
  /\ pc[t] = "pixels"
  /\ snapshot' = [snapshot EXCEPT !.valid = TRUE, !.copy = fb]
  /\ Goto(t, "begin")
  /\ UNCHANGED <<player, ioVars, hw, fb, virtual, flips, callback_active,
                 touchVars, stockGrabs, sideVars, result>>

\* Any of the above fails: goto cleanup.
CaptureFails(t) ==
  /\ pc[t] \in {"open", "pixels"}
  /\ Goto(t, "release")
  /\ UNCHANGED <<player, ioVars, displayVars, callback_active, touchVars,
                 stockGrabs, sideVars, result>>

BeginVirtual(t) ==
  /\ pc[t] = "begin"
  /\ virtual' = [active |-> TRUE, yoffset |-> snapshot.yoffset]
  /\ flips' = 0
  /\ Goto(t, "touch")
  /\ UNCHANGED <<player, ioVars, hw, fb, snapshot, callback_active, touchVars,
                 stockGrabs, sideVars, result>>

\* acquire_touch: EVIOCGRAB on a fresh open file, when nobody holds it.
GrabTouch(t) ==
  /\ pc[t] = "touch"
  /\ grab = "none"
  /\ grab' = "fresh"
  /\ touch' = [touch EXCEPT !.grabbed = TRUE]
  /\ Goto(t, "dup")
  /\ UNCHANGED <<player, ioVars, displayVars, callback_active, stockGrabs,
                 sideVars, result>>

\* transfer_stock_grab, first half: a dup of the stock open file lets go.
UngrabStock(t) ==
  /\ pc[t] = "touch"
  /\ grab = "stock"
  /\ grab' = "none"
  /\ Goto(t, "transfer")
  /\ UNCHANGED <<player, ioVars, displayVars, callback_active, touch,
                 stockGrabs, sideVars, result>>

\* Second half: the fresh open file grabs and the dup is retained, ...
TransferGrab(t) ==
  /\ pc[t] = "transfer"
  /\ grab' = "fresh"
  /\ touch' = [grabbed |-> TRUE, stock |-> TRUE]
  /\ Goto(t, "dup")
  /\ UNCHANGED <<player, ioVars, displayVars, callback_active, stockGrabs,
                 sideVars, result>>

\* ... or cannot, and the stock open file takes it back: -EBUSY.
TransferRetries(t) ==                  \* a variant: try again, for ever
  /\ pc[t] = "transfer"
  /\ grab' = "stock"
  /\ Goto(t, "touch")
  /\ UNCHANGED <<player, ioVars, displayVars, callback_active, touch,
                 stockGrabs, sideVars, result>>

TransferFails(t) ==
  /\ pc[t] = "transfer"
  /\ grab' = "stock"
  /\ Goto(t, "restore")
  /\ UNCHANGED <<player, ioVars, displayVars, callback_active, touch,
                 stockGrabs, sideVars, result>>

\* No touchscreen (-ENODEV), no descriptor for the child, or no fork.
LaunchFailsToCleanup(t) ==             \* a variant: goto cleanup
  /\ pc[t] \in {"touch", "dup"}
  /\ Goto(t, "release")
  /\ UNCHANGED <<player, ioVars, displayVars, callback_active, touchVars,
                 stockGrabs, sideVars, result>>

LaunchFails(t) ==
  /\ pc[t] \in {"touch", "dup"}
  /\ Goto(t, "restore")
  /\ UNCHANGED <<player, ioVars, displayVars, callback_active, touchVars,
                 stockGrabs, sideVars, result>>

Fork(t) ==
  /\ pc[t] = "dup"
  /\ side' = "forked"
  /\ Goto(t, "wait")
  /\ UNCHANGED <<player, ioVars, displayVars, callback_active, touchVars,
                 stockGrabs, page, status, result>>

(***************************************************************************)
(* The child: the hook's code after fork, then /usr/bin/r1-cfw-ui.  Its    *)
(* own ioctls reach fb0 directly: in its process the virtual display is    *)
(* never active.                                                           *)
(***************************************************************************)
SideEnds(s) == side' = "exited" /\ status' = s /\ page' = 0
NoSidecar   == side' = "none" /\ status' = "other" /\ page' = 0

\* prctl(PR_SET_PDEATHSIG, SIGKILL).
ArmDeathSignal ==
  /\ side = "forked"
  /\ side' = "armed"
  /\ UNCHANGED <<player, pc, ioVars, displayVars, callback_active, touchVars,
                 stockGrabs, page, status, result>>

\* getppid() is asked after prctl: a parent that died before is noticed.
ParentUnchecked == TRUE                \* a variant: the check is missing
ParentAlive == player = "up"

\* The descriptors are closed, and exec.
ChildExec ==
  /\ side = "armed"
  /\ ParentAlive
  /\ side' = "init"
  /\ page' = IF hw >= 1 THEN 1 ELSE 0
  /\ UNCHANGED <<player, pc, ioVars, displayVars, callback_active, touchVars,
                 stockGrabs, status, result>>

\* The parent is gone (126), closing fails (126) or exec fails (127).
ChildExits ==
  /\ side = "armed"
  /\ SideEnds("other")
  /\ UNCHANGED <<player, pc, ioVars, displayVars, callback_active, touchVars,
                 stockGrabs, result>>

\* render draws the page that is not shown ...
DrawPage ==
  /\ side \in {"init", "poll"}
  /\ side' = "drawn"
  /\ fb' = [fb EXCEPT ![1 - page] = "ui"]
  /\ UNCHANGED <<player, pc, ioVars, hw, virtual, snapshot, flips,
                 callback_active, touchVars, stockGrabs, page, status, result>>

\* ... and pans to it.
ShowPage ==
  /\ side = "drawn"
  /\ side' = "poll"
  /\ page' = 1 - page
  /\ hw' = KernelPan(1 - page)
  /\ UNCHANGED <<player, pc, ioVars, fb, virtual, snapshot, flips,
                 callback_active, touchVars, stockGrabs, status, result>>

\* Every 33 ms the event loop pans to its active page again.
PanAgain ==
  /\ side = "poll"
  /\ hw' = KernelPan(page)
  /\ UNCHANGED <<player, pc, ioVars, fb, virtual, snapshot, flips,
                 callback_active, touchVars, stockGrabs, sideVars, result>>

\* Back, Wi-Fi or Bluetooth, a SIGTERM, or an error of the event loop.
SideReturns(s) ==
  /\ side \in {"init", "poll"}
  /\ s \in {"other", "route"}
  /\ side = "init" => s = "other"
  /\ SideEnds(s)
  /\ UNCHANGED <<player, pc, ioVars, displayVars, callback_active, touchVars,
                 stockGrabs, result>>

\* A signal ends it anywhere: it has handlers for SIGTERM and SIGINT only.
SideKilled ==
  /\ side \in {"forked", "armed"} \cup Executing
  /\ SideEnds("signal")
  /\ UNCHANGED <<player, pc, ioVars, displayVars, callback_active, touchVars,
                 stockGrabs, result>>

(***************************************************************************)
(* cfw_callback, from the sidecar's end.                                   *)
(***************************************************************************)
ChildEnded == side = "exited"

WaitChild(t) ==
  /\ pc[t] = "wait"
  /\ ChildEnded
  /\ NoSidecar
  /\ result' = IF status = "route" THEN "route" ELSE "return"
  /\ Goto(t, "restore")
  /\ UNCHANGED <<player, ioVars, displayVars, callback_active, touchVars,
                 stockGrabs>>

\* restore_framebuffer does nothing unless the capture succeeded.
PagesAsTheyAre == fb                   \* a variant: no copy back
RestoredPages == IF snapshot.valid THEN snapshot.copy ELSE fb

RestorePixels(t) ==
  /\ pc[t] = "restore"
  /\ fb' = RestoredPages
  /\ Goto(t, "finish")
  /\ UNCHANGED <<player, ioVars, hw, virtual, snapshot, flips,
                 callback_active, touchVars, stockGrabs, sideVars, result>>

\* The page virtual_display_finish selects.
EntryOffset == snapshot.yoffset        \* a variant: the page at the entry
FinalOffset == IF virtual.active THEN virtual.yoffset ELSE snapshot.yoffset

\* virtual_display_finish: the restoring pan, made under the lock.
FinishVirtual(t) ==
  /\ pc[t] = "finish"
  /\ hw' = IF snapshot.valid THEN KernelPan(FinalOffset) ELSE hw
  /\ virtual' = [virtual EXCEPT !.active = @ /\ ~snapshot.valid]
  /\ flips' = 0
  /\ Goto(t, "release")
  /\ UNCHANGED <<player, ioVars, fb, snapshot, callback_active,
                 touchVars, stockGrabs, sideVars, result>>

\* release_touch, first half: the fresh open file lets go.
ReleaseTouch(t) ==
  /\ pc[t] = "release"
  /\ grab' = IF touch.grabbed THEN "none" ELSE grab
  /\ Goto(t, "regrab")
  /\ UNCHANGED <<player, ioVars, displayVars, callback_active, touch,
                 stockGrabs, sideVars, result>>

\* Second half: the retained stock open file grabs again.
OnlyCloseStock(t) ==                   \* a variant: it is only closed
  /\ pc[t] = "regrab"
  /\ touch' = NoTouch
  /\ Goto(t, "clear")
  /\ UNCHANGED <<player, ioVars, displayVars, callback_active, grab, stockGrabs,
                 sideVars, result>>

RegrabStock(t) ==
  /\ pc[t] = "regrab"
  /\ grab' = IF touch.stock THEN "stock" ELSE grab
  /\ touch' = NoTouch
  /\ Goto(t, "clear")
  /\ UNCHANGED <<player, ioVars, displayVars, callback_active, stockGrabs,
                 sideVars, result>>

LeaveCallback(t) ==
  /\ pc[t] = "clear"
  /\ snapshot' = NoSnapshot           \* destroy_framebuffer
  /\ callback_active' = FALSE
  /\ Goto(t, IF result = "route" THEN "route" ELSE "idle")
  /\ UNCHANGED <<player, ioVars, hw, fb, virtual, flips, touchVars, stockGrabs,
                 sideVars, result>>

\* stock_route returns.
StockRoute(t) ==
  /\ pc[t] = "route"
  /\ Goto(t, "idle")
  /\ UNCHANGED <<player, ioVars, displayVars, callback_active, touchVars,
                 stockGrabs, sideVars, result>>

(***************************************************************************)
(* The player dies (a crash, the OOM killer).  Its memory and descriptors  *)
(* go; a child that has armed the death signal is killed; the touch grab   *)
(* lives as long as a process still holds the fresh open file.             *)
(***************************************************************************)
PlayerDies ==
  /\ player = "up"
  /\ player' = "dead"
  /\ pc' = [t \in Threads |-> "idle"]
  /\ req' = [t \in Threads |-> 0]
  /\ report' = Nobody
  /\ told' = 0
  /\ flips' = 0
  /\ callback_active' = FALSE
  /\ virtual' = Inactive
  /\ snapshot' = NoSnapshot
  /\ touch' = NoTouch
  /\ result' = "return"
  /\ side' = IF side = "forked" THEN "forked" ELSE "none"
  /\ grab' = IF side = "forked" /\ grab = "fresh" THEN "fresh" ELSE "none"
  /\ page' = 0
  /\ status' = "other"
  /\ UNCHANGED <<hw, fb, stockGrabs>>

\* Nobody waits for an orphan but init; its open files close with it.
ReapOrphan ==
  /\ player = "dead"
  /\ side = "exited"
  /\ NoSidecar
  /\ grab' = "none"
  /\ UNCHANGED <<player, pc, ioVars, displayVars, callback_active, touch,
                 stockGrabs, result>>

\* hiby_player.sh sleeps a second and reboots the device.
Reboot ==
  /\ player = "dead"
  /\ player' = "up"
  /\ NoSidecar
  /\ hw' = 0
  /\ told' = 0
  /\ virtual' = Inactive
  /\ fb' = StockPixels
  /\ grab' = IF stockGrabs THEN "stock" ELSE "none"
  /\ UNCHANGED <<pc, req, report, snapshot, flips, callback_active, touch,
                 stockGrabs, result>>

-------------------------------------------------------------------------------
StockIoctl(t) ==
  /\ player = "up"
  /\ \/ \E y \in Requests : VirtualPan(t, y) \/ PassPan(t, y)
     \/ VirtualGet(t)
     \/ PassGet(t)

ForwardIoctl(t) == ForwardPan(t) \/ ForwardGet(t)

CallbackStep(t) ==
  \/ ReadVariable(t)
  \/ CopyPixels(t)
  \/ CaptureFails(t)
  \/ BeginVirtual(t)
  \/ GrabTouch(t)
  \/ UngrabStock(t)
  \/ TransferGrab(t)
  \/ TransferFails(t)
  \/ LaunchFails(t)
  \/ Fork(t)
  \/ WaitChild(t)
  \/ RestorePixels(t)
  \/ FinishVirtual(t)
  \/ ReleaseTouch(t)
  \/ RegrabStock(t)
  \/ LeaveCallback(t)
  \/ StockRoute(t)

ChildStep == ArmDeathSignal \/ ChildExec \/ ChildExits

UiStep ==
  \/ DrawPage
  \/ ShowPage
  \/ PanAgain
  \/ \E s \in Statuses : SideReturns(s)

Next ==
  \/ \E t \in Threads :
       \/ StockIoctl(t)
       \/ ForwardIoctl(t)
       \/ player = "up" /\ EnterCallback(t)
       \/ CallbackStep(t)
  \/ ChildStep
  \/ UiStep
  \/ SideKilled
  \/ PlayerDies
  \/ ReapOrphan
  \/ Reboot

Spec == Init /\ [][Next]_vars

(***************************************************************************)
(* The kernel runs every thread that can run.  Nothing makes the user tap, *)
(* leave the sidecar or crash the player.                                  *)
(***************************************************************************)
Fairness ==
  /\ \A t \in Threads : WF_vars(CallbackStep(t)) /\ WF_vars(ForwardIoctl(t))
  /\ WF_vars(ChildStep)
  /\ WF_vars(ReapOrphan)

FairSpec == Spec /\ Fairness

-------------------------------------------------------------------------------
(***************************************************************************)
(* Properties.                                                             *)
(***************************************************************************)
Drawers      == {"stock", "ui"}
VirtualType  == [active : BOOLEAN, yoffset : Offsets]
SnapshotType == [valid : BOOLEAN, yoffset : Offsets, copy : [Offsets -> Drawers]]
TouchType    == [grabbed : BOOLEAN, stock : BOOLEAN]

TypeOK ==
  /\ player \in {"up", "dead"}
  /\ pc \in [Threads -> Points]
  /\ req \in [Threads -> Requests]
  /\ report \in Offsets \cup {Nobody}
  /\ told \in Offsets
  /\ hw \in Offsets
  /\ fb \in [Offsets -> Drawers]
  /\ virtual \in VirtualType
  /\ snapshot \in SnapshotType
  /\ callback_active \in BOOLEAN
  /\ grab \in {"stock", "fresh", "none"}
  /\ stockGrabs \in BOOLEAN
  /\ touch \in TouchType
  /\ side \in SideStates
  /\ page \in {0, 1}
  /\ status \in Statuses
  /\ result \in {"return", "route"}
  /\ flips \in Nat

\* One callback at a time holds the session, and the virtual display is live
\* exactly while that callback is between begin and finish: no error path of
\* cfw_callback leaves the player's pans suppressed.
SessionOwnsDisplay ==
  /\ \A t, u \in Threads : InSession(t) /\ InSession(u) => t = u
  /\ callback_active <=> Session
  /\ virtual.active <=> \E t \in Threads : pc[t] \in OwningPoints

\* While the sidecar program runs, the player that launched it is alive and
\* waits for it with the display virtual and a clean copy of every page, and
\* the touch stream is the sidecar's alone (the PDEATHSIG race of launch_ui).
SidecarContained ==
  side \in Executing =>
    /\ player = "up"
    /\ \E t \in Threads : pc[t] = "wait"
    /\ virtual.active
    /\ grab = "fresh"
    /\ snapshot.valid
    /\ \A p \in Offsets : snapshot.copy[p] = "stock"

\* Whenever no callback is in progress the stock player has its touch grab
\* back as it had it, no sidecar is left, and no page shows sidecar pixels,
\* whichever step of the launch failed.
HandedBack ==
  player = "up" /\ ~Session =>
    /\ grab = IF stockGrabs THEN "stock" ELSE "none"
    /\ side = "none"
    /\ \A p \in Offsets : fb[p] = "stock"

\* In one session, the player's pans reach fb0 at most once per other thread:
\* only a call that had passed the check before virtual_display_begin does.
LeaksBounded == flips < Cardinality(Threads) \/ flips = 0

\* The display the player observes is the page it was last told it shows.
Coherent == player = "up" => View = told

\* Coherence is lost in two places only, both at the start of a session: the
\* begin that installs an offset read earlier, and a pan forwarded late.
CoherenceLostOnlyAtHandOver ==
  [][ Coherent /\ ~Coherent' =>
        \E t \in Threads : \/ pc[t] = "begin" /\ pc'[t] = "touch"
                           \/ pc[t] = "pan" /\ virtual.active ]_vars

\* A read-back returns the page the player was last told it shows, unless
\* coherence was already lost or the call straddled the start of a session.
ReadBackTruthful ==
  [][ report' # report /\ report' # Nobody =>
        \/ report' = told
        \/ ~Coherent
        \/ virtual.active /\ \E t \in Threads : pc[t] = "get" /\ pc'[t] = "idle"
    ]_vars

\* The virtual display ends only after the sidecar is reaped and every page
\* is restored: the restoring pan never reveals a sidecar page.
HandBackClean ==
  [][ virtual.active /\ ~virtual'.active /\ player' = "up" =>
        side = "none" /\ \A p \in Offsets : fb[p] = "stock" ]_vars

\* A session ends unless a sidecar is at work in it: no failure on the way to
\* one, and no end of one, leaves the tapping thread waiting.
LaunchConcludes == Session ~> (side \in Executing \/ ~Session)

\* A dead player leaves no child behind, and nobody holding the touchscreen.
OrphanGone == player = "dead" ~> (side = "none" /\ grab # "fresh")

(***************************************************************************)
(* The inductive invariant behind SessionOwnsDisplay, SidecarContained and *)
(* HandedBack: what each control point of cfw_callback may rely on.        *)
(***************************************************************************)
\* Where the callback in progress is, if there is one.
Phase == IF Session THEN pc[CHOOSE t \in Threads : InSession(t)] ELSE "none"

\* The stock player's own claim on the touchscreen.
StockClaim == IF stockGrabs THEN "stock" ELSE "none"

NotTaken == ~touch.grabbed /\ ~touch.stock /\ grab = StockClaim
Taken    == touch.grabbed /\ (touch.stock <=> stockGrabs) /\ grab = "fresh"

ControlInv ==
  /\ \A t, u \in Threads : InSession(t) /\ InSession(u) => t = u
  /\ callback_active <=> Session
  /\ virtual.active <=> Phase \in OwningPoints
  /\ player = "dead" => \A t \in Threads : pc[t] = "idle"

TouchInv ==
  /\ player = "dead" => ~touch.grabbed /\ ~touch.stock
  /\ player = "up" =>
       /\ Phase \in {"none", "open", "pixels", "begin", "touch", "clear"} => NotTaken
       /\ Phase = "transfer" =>
            ~touch.grabbed /\ ~touch.stock /\ grab = "none" /\ stockGrabs
       /\ Phase \in {"dup", "wait"} => Taken
       /\ Phase \in {"restore", "finish", "release"} => NotTaken \/ Taken
       /\ Phase = "regrab" => /\ touch.stock => stockGrabs
                              /\ ~touch.stock => grab = StockClaim

PixelInv ==
  /\ Phase \in {"begin"} \cup OwningPoints => snapshot.valid
  /\ snapshot.copy = StockPixels
  /\ player = "up" /\ Phase \notin {"wait", "restore"} => fb = StockPixels

SidecarInv ==
  /\ player = "up" => (side # "none" <=> Phase = "wait")
  /\ player = "dead" => side \notin Executing

\* Every control point finds the display, the touchscreen, the pixels and the
\* sidecar as cfw_callback's next step needs them, on every path.
SessionInv == ControlInv /\ TouchInv /\ PixelInv /\ SidecarInv

================================================================================
