---------------------------- MODULE QemuValidation ----------------------------
(***************************************************************************)
(* tools/cfw_validate.py run_validation: one validation of a candidate     *)
(* against the guests of QemuGuest.                                        *)
(*                                                                         *)
(* The program is straight-line code: one list of steps, most of them      *)
(* touches and waits, and an exception at any step that does not go as it  *)
(* should.  Script is that list, put together by one operator per Python   *)
(* function, and an action is what a step of one kind does.  Between any   *)
(* two steps the guest goes on.                                            *)
(*                                                                         *)
(* Building the emulator's shims, key files and permissions, paths and     *)
(* digests are left out; the candidate's identity and the manifest's       *)
(* promotion are ReleaseGate's.                                            *)
(***************************************************************************)
EXTENDS QemuGuest

\* run_validation's runtime directories.
ASSUME Directories ==
  {"ssh-runtime", "stock", "candidate-present", "candidate-crash", "candidate-sd-absent"}
    \subseteq Runtimes

VARIABLES
  pc,        \* the step of Script it is at
  bench,     \* what the program holds: see NoBench
  verdict,   \* status in validation-manifest.json: "RUNNING", "PASS" or "FAIL"
  ended      \* the program has ended

validationVars == <<guestVars, pc, bench, verdict, ended>>

\* The frames its local variables hold, the sequence number of the last record
\* it looked at, the samples of wait_stable_frame, the screenshots, the checks
\* recorded, the canonical screenshots.
Holding == {"launcher", "base", "settings", "cfw", "present", "top", "last"}
NoSample == [frame |-> Blank, equal |-> 0]
NoBench == [frames |-> [name \in Holding |-> Blank], seq |-> 0,
            sample |-> NoSample, shots |-> <<>>, checks |-> {}, promoted |-> {}]

-----------------------------------------------------------------------------
(* The steps.                                                              *)

Boot(runtime, cfw, sd, crash) ==
  <<[op |-> "start", runtime |-> runtime, cfw |-> cfw, sd |-> sd, crash |-> crash],
    [op |-> "ready"], [op |-> "stable", into |-> "launcher"]>>
Shutdown == <<[op |-> "stop"]>>
Classify == <<[op |-> "classify"]>>
Alive == <<[op |-> "alive"]>>
Stable(name) == <<[op |-> "stable", into |-> name]>>
WaitChange(name) == <<[op |-> "change", from |-> name]>>
WaitHash(name) == <<[op |-> "hash", of |-> name]>>
Capture(name) == <<[op |-> "capture", into |-> name]>>
ClearSemantic == <<[op |-> "clear"]>>
Semantic == <<[op |-> "read"]>>
Tap(point) == <<[op |-> "touch", touch |-> [drag |-> FALSE, at |-> point]]>>
Drag(point) == <<[op |-> "touch", touch |-> [drag |-> TRUE, at |-> point]]>>
Record(check) == <<[op |-> "record", check |-> check]>>
PromoteShot(label) == <<[op |-> "promote", label |-> label]>>
Config(mask) == <<[op |-> "config", mask |-> mask]>>
Fixture(present) == <<[op |-> "fixture", present |-> present]>>
Same(a, b) == <<[op |-> "same", a |-> a, b |-> b]>>
Differ(a, b) == <<[op |-> "differ", a |-> a, b |-> b]>>

\* A screenshot of a frame it holds, or of one captured now.
Save(label, name) == <<[op |-> "save", label |-> label, frame |-> name]>>
SaveNow(label) == Capture("last") \o Save(label, "last")

\* A record that says one of the wanted values in each wanted field.
WaitSemantic(wanted) == <<[op |-> "semantic", wanted |-> wanted, newer |-> FALSE]>>
WaitNewer(wanted) == <<[op |-> "semantic", wanted |-> wanted, newer |-> TRUE]>>

TapChange(point) == Capture("last") \o Tap(point) \o WaitChange("last")

\* Variant: whatever marker files there are will do.
MarkersUnread(ssh) == Alive

Markers(ssh) == <<[op |-> "markers", ssh |-> ssh]>>

-----------------------------------------------------------------------------
(* What the sessions do.                                                   *)

Row(row) == <<220, HeaderHeight + row * RowHeight + 36>>
BackTouch == <<40, 30>>
StockBack == <<45, 92>>
StockFiles == <<355, 229>>
FirstItem == <<240, 197>>
DragStart == <<150, 250>>

\* The tiles, by where they lie.
TopWide == <<240, 173>>
BottomWide == <<240, 676>>
UpperLeft == <<120, 173>>
UpperRight == <<360, 173>>
MiddleLeft == <<120, 419>>
MiddleRight == <<360, 419>>
LowerRight == <<360, 665>>
DefaultCfwTile == MiddleRight
SixCfwTile == <<120, 665>>

SixTiles == Tiles \ {"ebook"}
AlternateSix == Tiles \ {"stream"}

OpenCfw(point) ==
  Stable("base") \o ClearSemantic \o Tap(point)
  \o WaitSemantic([screen |-> {"main"}, mask |-> SafeMasks])
  \o WaitChange("base")

BackToMain == Tap(BackTouch) \o WaitNewer([screen |-> {"main"}, action |-> {"back"}])

CfwPage(row, screen, label) ==
  Semantic \o Tap(Row(row)) \o WaitNewer([screen |-> {screen}])
  \o SaveNow(label) \o BackToMain

LeaveCfw(name) ==
  Semantic \o Tap(BackTouch)
  \o WaitNewer([screen |-> {"main"}, action |-> {"back"}, route |-> {"back"}])
  \o WaitHash(name)

StockTileRoundtrip(label, point) ==
  TapChange(point) \o Save(label, "last")
  \o Tap(StockBack) \o WaitHash("launcher")
  \o Stable("last") \o Same("last", "launcher")

ValidateStock ==
  Boot("stock", FALSE, TRUE, FALSE) \o Classify
  \o Save("stock-launcher", "launcher") \o Record("stock.launcher") \o Fixture(TRUE)
  \o TapChange(UpperLeft) \o TapChange(StockFiles)
  \o TapChange(FirstItem) \o Save("mp3-path-Music", "last")
  \o TapChange(FirstItem) \o Save("mp3-path-Lukrembo", "last")
  \o TapChange(FirstItem) \o Save("mp3-path-Jay", "last")
  \o TapChange(FirstItem) \o Save("mp3-selection-or-decoder-state", "last")
  \o Record("stock.mp3-fixture") \o Shutdown

DefaultRoutes ==
  Boot("candidate-present", TRUE, TRUE, FALSE)
  \o Save("default-launcher-71", "launcher") \o Config(DefaultMask)
  \o Record("default.launcher.71") \o PromoteShot("default-launcher-71")
  \o StockTileRoundtrip("route-default-music", TopWide)
  \o StockTileRoundtrip("route-default-system", MiddleLeft)
  \o StockTileRoundtrip("route-default-about", BottomWide)
  \o Record("default.stock-routes")

OpenAndLeave(label) ==
  OpenCfw(DefaultCfwTile) \o SaveNow(label) \o LeaveCfw("base")

CfwLifecycle ==
  OpenAndLeave("cfw-lifecycle-1-main") \o OpenAndLeave("cfw-lifecycle-2-main")
  \o OpenAndLeave("cfw-lifecycle-3-main")
  \o Record("cfw.lifecycle") \o Record("cfw.framebuffer-restore")

\* Variant: it does not wait for the record.
ToggleSshUnseen == Tap(Row(0))

ToggleSsh == Tap(Row(0)) \o WaitNewer([action |-> {"ssh_toggle"}])

SshToggles ==
  OpenCfw(DefaultCfwTile) \o SaveNow("cfw-main-sd-present")
  \o PromoteShot("cfw-main-sd-present")
  \o Markers({"fresh", "disabled"}) \o SaveNow("ssh-off")
  \o ToggleSsh \o Markers({"enabled"}) \o SaveNow("ssh-on-no-wifi")
  \o LeaveCfw("base")
  \o OpenCfw(DefaultCfwTile) \o SaveNow("ssh-on-after-reopen")
  \o ToggleSsh \o Markers({"disabled"}) \o SaveNow("ssh-off-again")
  \o Record("cfw.ssh")

InformationPages ==
  CfwPage(4, "internal", "internal-storage")
  \o CfwPage(5, "sd", "microsd-present")
  \o <<[op |-> "keep", of |-> "last", into |-> "present"]>>
  \o CfwPage(6, "memory", "memory")
  \o CfwPage(7, "system", "system-information")
  \o CfwPage(8, "about", "about-cfw")
  \o Record("cfw.information-pages") \o Record("storage.sd-present")

Toggles(row, mask) ==
  Tap(Row(row)) \o WaitNewer([screen |-> {"launcher"}, action |-> {"launcher_toggle"},
                              mask |-> {mask}])

LauncherSettings ==
  Semantic \o Tap(Row(3))
  \o WaitNewer([screen |-> {"launcher"}, mask |-> {DefaultMask}])
  \o SaveNow("launcher-settings-71")
  \o Toggles(1, DefaultMask \cup {"stream"}) \o Toggles(2, SixTiles)
  \o Capture("settings") \o Save("launcher-settings-77", "settings")
  \o Tap(Row(3))
  \o WaitNewer([screen |-> {"launcher"}, action |-> {"launcher_rejected"},
                mask |-> {SixTiles}])
  \o WaitChange("settings") \o Save("launcher-maximum-six-rejected", "last")
  \o Config(SixTiles) \o Record("launcher.maximum-rejected")
  \o Tap(Row(5))
  \o WaitNewer([action |-> {"launcher_rejected"}, mask |-> {SixTiles}])
  \o Drag(DragStart)
  \o WaitNewer([action |-> {"drag_ignored"}, mask |-> {SixTiles}])
  \o Config(SixTiles) \o Record("launcher.drag-no-activation")
  \o Tap(BackTouch) \o WaitSemantic([screen |-> {"main"}, action |-> {"back"}])
  \o Record("cfw.launcher-settings") \o LeaveCfw("base")

WirelessRoute(check, row, route, action, label) ==
  OpenCfw(DefaultCfwTile) \o Capture("cfw") \o Tap(Row(row))
  \o WaitNewer([route |-> {route}, action |-> {action}])
  \o WaitChange("cfw") \o Save(label, "last")
  \o Tap(StockBack) \o WaitHash("base") \o Record(check)

ValidateCandidateDefault ==
  DefaultRoutes \o CfwLifecycle \o SshToggles \o InformationPages \o LauncherSettings
  \o WirelessRoute("cfw.wifi-route", 1, "wifi", "wifi_route",
                   "stock-wireless-from-cfw-wifi")
  \o WirelessRoute("cfw.bluetooth-route", 2, "bluetooth", "bluetooth_route",
                   "stock-wireless-from-cfw-bluetooth")
  \o Shutdown

ValidateCrashRecovery ==
  Boot("candidate-crash", TRUE, TRUE, TRUE)
  \o ClearSemantic \o Tap(DefaultCfwTile)
  \o WaitSemantic([screen |-> {"main"}, mask |-> {DefaultMask}])
  \o WaitHash("launcher") \o Alive
  \o TapChange(TopWide) \o Save("stock-touch-after-cfw-crash", "last")
  \o Tap(StockBack) \o WaitHash("launcher")
  \o Record("cfw.crash-recovery") \o Shutdown

SixRoutes ==
  Boot("candidate-present", TRUE, TRUE, FALSE) \o Config(SixTiles)
  \o Save("six-tile-launcher-77", "launcher") \o Record("launcher.persistence.77")
  \o PromoteShot("six-tile-launcher-77")
  \o StockTileRoundtrip("route-six-77-music", UpperLeft)
  \o StockTileRoundtrip("route-six-77-stream", UpperRight)
  \o StockTileRoundtrip("route-six-77-wireless", MiddleLeft)
  \o StockTileRoundtrip("route-six-77-system", MiddleRight)
  \o StockTileRoundtrip("route-six-77-about", LowerRight)
  \o OpenCfw(SixCfwTile) \o SaveNow("six-77-cfw-open") \o LeaveCfw("base")
  \o Save("six-77-cfw-restored", "last") \o Record("launcher.six-tile-routes")

ValidateSixTileLauncher ==
  SixRoutes \o OpenCfw(SixCfwTile) \o Tap(Row(3))
  \o WaitNewer([screen |-> {"launcher"}, mask |-> {SixTiles}])
  \o Toggles(1, SixTiles \ {"stream"}) \o Toggles(3, AlternateSix)
  \o SaveNow("launcher-settings-alternate-six-7d") \o Config(AlternateSix)
  \o BackToMain \o LeaveCfw("base") \o Record("launcher.ebook-swap") \o Shutdown

ValidateAlternateSixLauncher ==
  Boot("candidate-present", TRUE, TRUE, FALSE) \o Config(AlternateSix)
  \o Save("alternate-six-launcher-7d", "launcher")
  \o StockTileRoundtrip("route-alternate-7d-ebook", MiddleLeft)
  \o Record("launcher.alternate-six-persistence")
  \o <<[op |-> "keep", of |-> "launcher", into |-> "top"]>> \o Shutdown

ValidateRestartPosition ==
  Boot("candidate-present", TRUE, TRUE, FALSE) \o Config(AlternateSix)
  \o Same("launcher", "top") \o Save("alternate-six-after-second-restart", "launcher")
  \o Record("launcher.restart-position") \o Shutdown

ValidateSdAbsent ==
  Boot("candidate-sd-absent", TRUE, FALSE, FALSE)
  \o OpenCfw(DefaultCfwTile) \o CfwPage(5, "sd", "microsd-absent")
  \o Differ("last", "present") \o Fixture(FALSE)
  \o Record("storage.sd-absent") \o Record("storage.sd-state-distinct") \o Shutdown

\* A program of the candidate under QEMU's user emulation: r1-ssh-control, or
\* one of Dropbear's that must succeed.
ControllerRun(command, expected) ==
  <<[op |-> "control", command |-> command, expected |-> expected]>>
GuestTool(program) == ControllerRun(program, 0)
Authenticate(trial) == <<[op |-> "ssh", trial |-> trial]>>

ValidateSshRuntime ==
  ControllerRun("disable", 0) \o ControllerRun("is-enabled", 1)
  \o ControllerRun("toggle", 0) \o ControllerRun("is-enabled", 0)
  \o ControllerRun("toggle", 0) \o ControllerRun("is-enabled", 1)
  \o ControllerRun("enable", 0) \o ControllerRun("is-enabled", 0)
  \o ControllerRun("status", 1) \o Markers({"enabled"})
  \o GuestTool("dropbear -V") \o GuestTool("dropbearkey")
  \o Authenticate("publickey") \o Authenticate("password")
  \o Authenticate("unknown-key") \o Authenticate("wrong-password")
  \o ControllerRun("disable", 0) \o Markers({"disabled"})
  \o Record("ssh.runtime-auth")

Script ==
  Record("preflight.exact-candidate") \o ValidateSshRuntime \o ValidateStock
  \o ValidateCandidateDefault \o ValidateCrashRecovery \o ValidateSixTileLauncher
  \o ValidateAlternateSixLauncher \o ValidateRestartPosition \o ValidateSdAbsent

RequiredChecks == {
  "preflight.exact-candidate", "stock.launcher", "stock.mp3-fixture",
  "default.launcher.71", "default.stock-routes",
  "cfw.lifecycle", "cfw.framebuffer-restore", "cfw.crash-recovery", "cfw.ssh",
  "ssh.runtime-auth", "cfw.information-pages", "cfw.launcher-settings",
  "cfw.wifi-route", "cfw.bluetooth-route", "launcher.persistence.77",
  "launcher.six-tile-routes", "launcher.maximum-rejected",
  "launcher.drag-no-activation", "launcher.ebook-swap",
  "launcher.alternate-six-persistence", "launcher.restart-position",
  "storage.sd-present", "storage.sd-absent", "storage.sd-state-distinct" }
FeaturedScreenshots == {"default-launcher-71", "cfw-main-sd-present",
                        "six-tile-launcher-77"}

ValidationInit ==
  /\ GuestInit
  /\ pc = 1 /\ bench = NoBench /\ verdict = "RUNNING" /\ ended = FALSE

-----------------------------------------------------------------------------
(* What a step does.                                                       *)

Step == Script[pc]
AtStep(ops) == ~ended /\ pc <= Len(Script) /\ Step.op \in ops

Continue == pc' = pc + 1 /\ UNCHANGED <<verdict, ended>>
Hold(b) == bench' = b /\ UNCHANGED guestVars

\* An exception: the session is stopped on its way out.
Leaves(status) ==
  /\ Stopped
  /\ pc' = Len(Script) + 1 /\ verdict' = status /\ ended' = TRUE
  /\ bench' = IF status = "PASS" THEN bench ELSE NoBench
Raise == Leaves("FAIL")

Up == player # "gone"

StartSession ==
  /\ AtStep({"start"})
  /\ Launches(Step.runtime, Step.cfw, Step.sd, Step.crash)
  /\ Continue /\ UNCHANGED bench

\* Its local variables go with it, but for the two frames that are returned.
StopSession ==
  /\ AtStep({"stop"})
  /\ Stopped
  /\ bench' = [bench EXCEPT !.seq = 0,
       !.frames = [name \in Holding |-> IF name \in {"present", "top"} THEN @[name] ELSE Blank]]
  /\ Continue

WaitPlayerReady ==
  /\ AtStep({"ready"}) /\ player = "up"
  /\ Continue /\ Hold(bench)

\* wait_stable_frame: the third equal sample.  Blank is a framebuffer that was
\* panned less than twice.
WaitStableFrame ==
  /\ AtStep({"stable"}) /\ Up /\ shown # Blank
  /\ LET equal == IF shown = bench.sample.frame THEN bench.sample.equal + 1 ELSE 0
     IN \/ /\ equal < 2
           /\ Hold([bench EXCEPT !.sample = [frame |-> shown, equal |-> equal]])
           /\ UNCHANGED <<pc, verdict, ended>>
        \/ /\ equal = 2
           /\ Hold([bench EXCEPT !.sample = NoSample, !.frames[Step.into] = shown])
           /\ Continue

WaitFrame ==
  /\ Up
  /\ \/ AtStep({"change"}) /\ shown # bench.frames[Step.from]
     \/ AtStep({"hash"}) /\ shown = bench.frames[Step.of]
  /\ Hold([bench EXCEPT !.frames["last"] = shown])
  /\ Continue

Parses == cfwState # NoState

WaitForRecord ==
  /\ AtStep({"semantic"}) /\ Up /\ Parses
  /\ Step.newer => cfwState.seq > bench.seq
  /\ \A field \in DOMAIN Step.wanted : cfwState[field] \in Step.wanted[field]
  /\ Hold([bench EXCEPT !.seq = cfwState.seq])
  /\ Continue

ReadRecord ==
  /\ AtStep({"read"}) /\ Parses
  /\ Hold([bench EXCEPT !.seq = cfwState.seq])
  /\ Continue

ClearRecord ==
  /\ AtStep({"clear"})
  /\ cfwState' = NoState
  /\ Continue
  /\ UNCHANGED <<store, session, player, page, shown, hook, side, input, flaws, bench>>

CaptureFrame ==
  /\ AtStep({"capture"}) /\ Up
  /\ Hold([bench EXCEPT !.frames[Step.into] = shown])
  /\ Continue

InjectTouch ==
  /\ AtStep({"touch"}) /\ Up
  /\ input' = Append(input, Step.touch)
  /\ Continue
  /\ UNCHANGED <<store, session, player, page, shown, hook, side, cfwState, flaws, bench>>

KeepEvidence ==
  /\ \/ AtStep({"save"}) /\ Hold([bench EXCEPT
            !.shots = [label \in DOMAIN @ \cup {Step.label} |->
                         IF label = Step.label THEN bench.frames[Step.frame] ELSE @[label]]])
     \/ AtStep({"keep"}) /\ Hold([bench EXCEPT !.frames[Step.into] = bench.frames[Step.of]])
     \/ AtStep({"record"}) /\ Hold([bench EXCEPT !.checks = @ \cup {Step.check}])
     \/ AtStep({"promote"}) /\ Hold([bench EXCEPT !.promoted = @ \cup {Step.label}])
  /\ Continue

\* The stock classifier sees the dividers of three rows of halves.
ClassifiesAsLauncher(frame) == frame.is = "launcher" /\ Cardinality(frame.tiles) > 4

MarkerHome == IF session.runtime = "" THEN "ssh-runtime" ELSE session.runtime

Agrees ==
  CASE Step.op = "classify" -> ClassifiesAsLauncher(bench.frames["launcher"])
    [] Step.op = "alive"    -> Up
    [] Step.op = "config"   -> store[session.runtime].mask = Step.mask
    [] Step.op = "markers"  -> store[MarkerHome].ssh \in Step.ssh
    [] Step.op = "fixture"  -> session.sd = Step.present
    [] Step.op = "same"     -> bench.frames[Step.a] = bench.frames[Step.b]
    [] Step.op = "differ"   -> bench.frames[Step.a] # bench.frames[Step.b]
Comparisons == {"classify", "alive", "config", "markers", "fixture", "same", "differ"}

CompareStep ==
  /\ AtStep(Comparisons) /\ Agrees
  /\ Continue /\ Hold(bench)

\* What the candidate's r1-ssh-control answers, and Dropbear's programs, which
\* touch no marker.
Enabled == store["ssh-runtime"].ssh = "enabled"
ExitCode(command) ==
  CASE command = "is-enabled" -> IF Enabled THEN 0 ELSE 1
    [] command = "status"     -> 1
    [] OTHER                  -> 0
Switched(command) ==
  CASE command = "enable"  -> "enabled"
    [] command = "disable" -> "disabled"
    [] command = "toggle" /\ "toggle_stuck" \notin flaws ->
         IF Enabled THEN "disabled" ELSE "enabled"
    [] OTHER -> store["ssh-runtime"].ssh

RunController ==
  /\ AtStep({"control"}) /\ ExitCode(Step.command) = Step.expected
  /\ store' = [store EXCEPT !["ssh-runtime"].ssh = Switched(Step.command)]
  /\ Continue
  /\ UNCHANGED <<session, player, page, shown, hook, side, input, cfwState, flaws, bench>>

\* What both ends say of one attempt to log in.
Admitted ==
  {trial \in {"publickey", "password", "unknown-key", "wrong-password"} :
     \/ trial = "publickey" /\ "refuses_publickey" \notin flaws
     \/ trial = "password" /\ "refuses_password" \notin flaws
     \/ trial = "unknown-key" /\ "accepts_unknown-key" \in flaws
     \/ trial = "wrong-password" /\ "accepts_wrong-password" \in flaws}
Dropped == IF "drops_unknown-key" \in flaws THEN {"unknown-key"} ELSE {}
Attempt(trial) ==
  LET admitted == trial \in Admitted
  IN [exit |-> IF admitted THEN 0 ELSE 255,
      authenticated |-> admitted,
      denied |-> ~admitted /\ trial \notin Dropped,
      root |-> admitted /\ "no_root" \notin flaws]

AttemptIsRight(trial, said) ==
  IF trial \in {"publickey", "password"}
  THEN said.exit = 0 /\ said.authenticated /\ said.root
  ELSE said.exit # 0 /\ ~said.authenticated /\ said.denied

RunSshAuthentication ==
  /\ AtStep({"ssh"}) /\ AttemptIsRight(Step.trial, Attempt(Step.trial))
  /\ Continue /\ Hold(bench)

\* A step that does not go as it should.
FailStep ==
  /\ \/ AtStep(Comparisons) /\ ~Agrees
     \/ AtStep({"read"}) /\ ~Parses
     \/ AtStep({"control"}) /\ ExitCode(Step.command) # Step.expected
     \/ AtStep({"ssh"}) /\ ~AttemptIsRight(Step.trial, Attempt(Step.trial))
     \/ /\ AtStep({"ready", "stable", "change", "hash", "semantic", "capture", "touch"})
        /\ ~Up
  /\ Raise

Waits == {"ready", "stable", "change", "hash", "semantic", "ssh"}

\* Variant: wait_semantic polls without a deadline.
ExpireFramesOnly == AtStep(Waits \ {"semantic"}) /\ Raise

\* Each of these waits has its deadline, on the monotonic clock; RunController
\* waits for its program without one.
Expire == AtStep(Waits) /\ Raise

\* The navigator's own errors, a frame that changed during every attempt and a
\* touch that no endpoint took, are no ValidationError: run_validation does not
\* catch them, and the manifest goes on saying RUNNING.
Escape == AtStep({"capture", "touch"}) /\ Up /\ Leaves("RUNNING")

Finish ==
  /\ ~ended /\ pc = Len(Script) + 1
  /\ Leaves(IF RequiredChecks = bench.checks /\ FeaturedScreenshots = bench.promoted
            THEN "PASS" ELSE "FAIL")

Advance ==
  \/ StartSession \/ StopSession \/ WaitPlayerReady \/ WaitStableFrame \/ WaitFrame
  \/ WaitForRecord \/ ReadRecord \/ ClearRecord \/ CaptureFrame \/ InjectTouch
  \/ KeepEvidence \/ CompareStep \/ RunController \/ RunSshAuthentication
  \/ FailStep \/ Finish

ValidationNext ==
  \/ Advance
  \/ Expire
  \/ Escape
  \/ ~ended /\ GuestNext /\ UNCHANGED <<pc, bench, verdict, ended>>

\* The program goes on while it can, and clocks tick; of the guest nothing is
\* expected.  Nothing then makes a program of the candidate return:
\* subprocess.run waits for it as long as it takes.
ValidationSpec ==
  /\ ValidationInit /\ [][ValidationNext]_validationVars
  /\ WF_validationVars(~AtStep({"control"}) /\ Advance)
  /\ WF_validationVars(Expire)

-----------------------------------------------------------------------------
(* Properties.                                                             *)

\* What a screenshot's label says of the picture.
LauncherOf(mask) == [is |-> "launcher", tiles |-> mask]
StockPage(name) == [is |-> "page", name |-> name]
CfwScreen(name) == [is |-> "cfw", name |-> name]
SshRow(on) == [is |-> "cfw", name |-> "main", note |-> IF on THEN "ssh on" ELSE "ssh off"]
Settings(mask) == [is |-> "cfw", name |-> "launcher", tiles |-> mask]
Card(there) == [is |-> "cfw", name |-> "sd", note |-> IF there THEN "card" ELSE "no card"]

Says == {
  <<"stock-launcher", LauncherOf(StockTiles)>>,
  <<"default-launcher-71", LauncherOf(DefaultMask)>>,
  <<"six-tile-launcher-77", LauncherOf(SixTiles)>>,
  <<"six-77-cfw-restored", LauncherOf(SixTiles)>>,
  <<"alternate-six-launcher-7d", LauncherOf(AlternateSix)>>,
  <<"alternate-six-after-second-restart", LauncherOf(AlternateSix)>>,
  <<"mp3-path-Music", StockPage("Music")>>,
  <<"mp3-path-Lukrembo", StockPage("Lukrembo")>>,
  <<"mp3-path-Jay", StockPage("Jay")>>,
  <<"mp3-selection-or-decoder-state", StockPage("playing")>>,
  <<"route-default-music", StockPage("music")>>,
  <<"route-default-system", StockPage("system")>>,
  <<"route-default-about", StockPage("about")>>,
  <<"stock-touch-after-cfw-crash", StockPage("music")>>,
  <<"route-six-77-music", StockPage("music")>>,
  <<"route-six-77-stream", StockPage("stream")>>,
  <<"route-six-77-wireless", StockPage("wireless")>>,
  <<"route-six-77-system", StockPage("system")>>,
  <<"route-six-77-about", StockPage("about")>>,
  <<"route-alternate-7d-ebook", StockPage("ebook")>>,
  <<"cfw-lifecycle-1-main", CfwScreen("main")>>,
  <<"cfw-lifecycle-2-main", CfwScreen("main")>>,
  <<"cfw-lifecycle-3-main", CfwScreen("main")>>,
  <<"cfw-main-sd-present", CfwScreen("main")>>,
  <<"six-77-cfw-open", CfwScreen("main")>>,
  <<"ssh-off", SshRow(FALSE)>>,
  <<"ssh-off-again", SshRow(FALSE)>>,
  <<"ssh-on-no-wifi", SshRow(TRUE)>>,
  <<"ssh-on-after-reopen", SshRow(TRUE)>>,
  <<"internal-storage", CfwScreen("internal")>>,
  <<"microsd-present", Card(TRUE)>>,
  <<"microsd-absent", Card(FALSE)>>,
  <<"memory", CfwScreen("memory")>>,
  <<"system-information", CfwScreen("system")>>,
  <<"about-cfw", CfwScreen("about")>>,
  <<"launcher-settings-71", Settings(DefaultMask)>>,
  <<"launcher-settings-77", Settings(SixTiles)>>,
  <<"launcher-maximum-six-rejected", Settings(SixTiles)>>,
  <<"launcher-settings-alternate-six-7d", Settings(AlternateSix)>> }
Said == {said[1] : said \in Says}

\* The screenshots of the stock wireless page are left out: nothing holds the
\* picture against the page, and it may be the launcher on the way there.
Unsaid == {"stock-wireless-from-cfw-wifi", "stock-wireless-from-cfw-bluetooth"}

\* A validation passes only a candidate that does nothing wrong: each single
\* thing that can go wrong makes some wait expire or some comparison fail,
\* however guest and program interleave.  The exception is a Wi-Fi row that
\* leads nowhere, which looks the same to wait_change as one on its way.
PassMeansWorking == verdict = "PASS" => flaws \subseteq {"route_ignored"}

\* The screenshots of a run that passed show what their labels say, although a
\* frame is captured whenever the program comes to it: never the splash screen,
\* a page not drawn yet, or the launcher before the hand-over.
ShotsTruthful ==
  verdict = "PASS" =>
    /\ DOMAIN bench.shots = Said \cup Unsaid
    /\ \A said \in Says : \A field \in DOMAIN said[2] :
         bench.shots[said[1]][field] = said[2][field]

\* Whatever the guest does or leaves undone, a validation comes to an end, or
\* waits for ever for one of the candidate's programs that it runs without a
\* timeout.
Concludes == <>ended \/ <>[]AtStep({"control"})

=============================================================================
