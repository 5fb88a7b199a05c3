------------------------------ MODULE QemuGuest ------------------------------
(***************************************************************************)
(* What the QEMU harnesses watch and touch: tools/run-r1-ui-qemu.sh, which *)
(* prepares a runtime directory and boots the player in it, the stock      *)
(* player, and the CFW sidecar with its hook (mods/cfw-ui/src).  The       *)
(* harness sees the shown frame and the record in cfw-state.bin, reads the *)
(* configuration files, and puts touches into the FIFOs of bridge.py.      *)
(*                                                                         *)
(* CfwHook has the hand-over between player and sidecar call by call, here *)
(* it is what a harness can tell apart: the sidecar has ended, its frame   *)
(* is gone, the touchscreen is the player's again, the player's own page   *)
(* opens.                                                                  *)
(*                                                                         *)
(* The player is not in the repository: its pages are those the harnesses' *)
(* plans name.  A flaw is one thing a candidate does wrong.                *)
(***************************************************************************)
EXTENDS LauncherLayout

CONSTANTS
  Runtimes,    \* runtime directories
  Candidates   \* each the set of what it does wrong

VARIABLES
  store,     \* per runtime: [mask, ssh], what launcher.conf and the markers say
  session,   \* [runtime, cfw, sd, crash, mask, boot]: what was booted
  player,    \* "off", "booting", "up", or "gone"
  page,      \* the player's
  shown,     \* the frame in the framebuffer's active page
  hook,      \* "idle", "sidecar", "ended", "restored", "routing", "stuck"
  side,      \* the sidecar
  input,     \* the touches in the FIFOs
  cfwState,  \* cfw-state.bin, or NoState
  flaws      \* what the candidate does wrong

\* What a candidate can do wrong.
Flaws == {
  \* the player and its launcher
  "tile_dead", "ebook_dead", "mask_forgotten", "layout_not_applied",
  "restart_moves",
  \* the hand-over
  "frame_kept", "touch_kept", "dies_with_sidecar", "route_ignored",
  \* the sidecar
  "back_dead", "page_dead", "drag_taps", "sd_not_seen", "notice_missing",
  "cfw_unlocked", "seventh_taken", "seventh_saved", "mask_not_saved",
  "starts_enabled", "ssh_no_marker", "ssh_forgotten",
  \* the SSH controller and Dropbear
  "toggle_stuck", "refuses_publickey", "refuses_password", "accepts_unknown-key",
  "accepts_wrong-password", "drops_unknown-key", "no_root"}

ASSUME CandidatesAssumption == Candidates \subseteq SUBSET Flaws

guestVars == <<store, session, player, page, shown, hook, side, input, cfwState,
               flaws>>

StockTiles == Tiles \ {"cfw"}
Frame(is, name, tiles, note) ==
  [is |-> is, name |-> name, tiles |-> tiles, note |-> note]
Blank == Frame("blank", "", {}, "")

NoState == [screen |-> "", action |-> "", mask |-> {}, route |-> "", seq |-> 0]
NoSide == [screen |-> "", mask |-> {}, action |-> "", route |-> "back",
           seq |-> 0, notice |-> FALSE, todo |-> "none"]
FreshStore == [mask |-> NoMask, ssh |-> "fresh"]

GuestInit ==
  /\ flaws \in Candidates
  /\ store = [r \in Runtimes |-> IF "starts_enabled" \in flaws
                                 THEN [FreshStore EXCEPT !.ssh = "enabled"]
                                 ELSE FreshStore]
  /\ session = [runtime |-> "", cfw |-> FALSE, sd |-> FALSE, crash |-> FALSE,
                mask |-> {}, boot |-> 0]
  /\ player = "off" /\ page = "splash" /\ shown = Blank
  /\ hook = "idle" /\ side = NoSide /\ input = <<>> /\ cfwState = NoState

-----------------------------------------------------------------------------
(* The runner.                                                             *)

\* It rewrites launcher.conf with the mask it selects, installs that
\* launcher, and empties the framebuffer and the records of the last session.
Launches(runtime, cfw, sd, crash) ==
  LET conf == IF "mask_forgotten" \in flaws THEN NoMask ELSE store[runtime].mask
      mask == SelectConfig(conf)
  IN /\ session' = [runtime |-> runtime, cfw |-> cfw, sd |-> sd, crash |-> crash,
                    mask |-> IF ~cfw THEN StockTiles
                             ELSE IF "layout_not_applied" \in flaws THEN DefaultMask
                             ELSE mask,
                    boot |-> session.boot + 1]
     /\ store' = IF cfw THEN [store EXCEPT ![runtime].mask = mask] ELSE store
     /\ player' = "booting" /\ page' = "splash" /\ shown' = Blank
     /\ hook' = "idle" /\ side' = NoSide /\ input' = <<>>
     /\ cfwState' = NoState
     /\ UNCHANGED flaws

\* The process group is killed.
Stopped ==
  /\ player' = "off" /\ page' = "splash" /\ shown' = Blank
  /\ hook' = "idle" /\ side' = NoSide /\ input' = <<>> /\ cfwState' = NoState
  /\ session' = [session EXCEPT !.runtime = "", !.mask = {}]
  /\ UNCHANGED <<store, flaws>>

-----------------------------------------------------------------------------
(* The player.                                                             *)

Links == {
  <<"music", <<355, 229>>, "explorer">>,
  <<"explorer", <<240, 197>>, "Music">>, <<"Music", <<240, 197>>, "Lukrembo">>,
  <<"Lukrembo", <<240, 197>>, "Jay">>,   <<"Jay", <<240, 197>>, "playing">>,
  <<"system", <<240, 197>>, "language">>,
  <<"system", <<240, 323>>, "backlight">>,
  <<"system", <<240, 449>>, "theme_color">>,
  <<"system", <<240, 575>>, "font_size">>,
  <<"system", <<240, 701>>, "ui_theme">> }

Parent(p) ==
  IF \E link \in Links : link[3] = p
  THEN (CHOOSE link \in Links : link[3] = p)[1]
  ELSE "launcher"

BackOf(p) == IF p = "playing" THEN <<50, 40>> ELSE <<45, 92>>

Opens(p, point) ==
  IF p = "launcher"
  THEN CASE TilesAt(session.mask, point) = {} -> p
         [] "tile_dead" \in flaws /\ session.cfw
            /\ TilesAt(session.mask, point) = {"about"} -> p
         [] "ebook_dead" \in flaws /\ session.cfw
            /\ TilesAt(session.mask, point) = {"ebook"} -> p
         [] OTHER -> CHOOSE tile \in TilesAt(session.mask, point) : TRUE
  ELSE IF point = BackOf(p) THEN Parent(p)
  ELSE IF \E link \in Links : link[1] = p /\ link[2] = point
       THEN (CHOOSE link \in Links : link[1] = p /\ link[2] = point)[3]
  ELSE p

Drawn(p) ==
  IF p = "launcher"
  THEN Frame("launcher",
             IF "restart_moves" \in flaws /\ session.boot % 2 = 0 THEN "moved" ELSE "top",
             session.mask, "")
  ELSE Frame("page", p, {}, "")

Splash ==
  /\ player = "booting" /\ page = "splash" /\ shown = Blank
  /\ shown' = Drawn("splash")
  /\ UNCHANGED <<store, session, player, page, hook, side, input, cfwState, flaws>>

\* It logs "running activity lg_activity_main" and then draws it.
Ready ==
  /\ player = "booting" /\ shown # Blank
  /\ player' = "up"
  /\ UNCHANGED <<store, session, page, shown, hook, side, input, cfwState, flaws>>

DrawLauncher ==
  /\ player = "up" /\ page = "splash"
  /\ page' = "launcher" /\ shown' = Drawn("launcher")
  /\ UNCHANGED <<store, session, player, hook, side, input, cfwState, flaws>>

Shows(p) == page' = p /\ shown' = Drawn(p)

Touch == Head(input)

PlayerTakesTouch ==
  /\ player = "up" /\ page # "splash" /\ hook = "idle" /\ input # <<>>
  /\ input' = Tail(input)
  /\ \/ /\ Opens(page, Touch.at) = "cfw"
        /\ hook' = "sidecar"
        /\ side' = [NoSide EXCEPT !.screen = "main", !.todo = "render",
                                  !.mask = store[session.runtime].mask]
        /\ UNCHANGED <<page, shown>>
     \/ /\ Opens(page, Touch.at) # "cfw"
        /\ Shows(Opens(page, Touch.at))
        /\ UNCHANGED <<hook, side>>
  /\ UNCHANGED <<store, session, player, cfwState, flaws>>

\* A touch while the player starts, or after a hand-over that failed, is
\* nobody's.
TouchIsLost ==
  /\ player \in {"booting", "up"} /\ input # <<>>
  /\ player = "booting" \/ page = "splash" \/ hook = "stuck"
  /\ input' = Tail(input)
  /\ UNCHANGED <<store, session, player, page, shown, hook, side, cfwState, flaws>>

PlayerExits ==
  /\ player \in {"booting", "up"}
  /\ player' = "gone"
  /\ UNCHANGED <<store, session, page, shown, hook, side, input, cfwState, flaws>>

-----------------------------------------------------------------------------
(* The sidecar.                                                            *)

Conf == store[session.runtime]

SidecarFrame ==
  Frame("cfw", side.screen,
    IF side.screen = "launcher" THEN side.mask ELSE {},
    CASE side.screen = "main" -> IF Conf.ssh = "enabled" THEN "ssh on" ELSE "ssh off"
      [] side.screen = "sd" -> IF session.sd /\ "sd_not_seen" \notin flaws
                               THEN "card" ELSE "no card"
      [] side.screen = "launcher" /\ side.notice /\ "notice_missing" \notin flaws ->
           "maximum 6"
      [] OTHER -> "")

\* render() draws and pans,
SidecarDraws ==
  /\ hook = "sidecar" /\ side.todo = "render"
  /\ shown' = SidecarFrame
  /\ side' = [side EXCEPT !.todo = "publish"]
  /\ UNCHANGED <<store, session, player, page, hook, input, cfwState, flaws>>

Published ==
  [screen |-> side.screen, action |-> side.action, mask |-> side.mask,
   route |-> side.route, seq |-> side.seq + 1]

\* and then publishes.
SidecarPublishes ==
  /\ hook = "sidecar" /\ side.todo = "publish"
  /\ cfwState' = Published
  /\ side' = [side EXCEPT !.todo = "poll", !.seq = @ + 1]
  /\ UNCHANGED <<store, session, player, page, shown, hook, input, flaws>>

HeaderHeight == 80
RowHeight == 72
RowAt(point) == (point[2] - HeaderHeight) \div RowHeight

Draw(s, action) == [s EXCEPT !.action = action, !.todo = "render"]
GoToPage(screen, action) ==
  Draw([side EXCEPT !.screen = screen, !.notice = FALSE,
                    !.mask = IF "mask_not_saved" \in flaws THEN @ ELSE Conf.mask],
       action)
Leave(route, action) ==
  [side EXCEPT !.route = route, !.action = action, !.todo = "leave"]

Back == IF side.screen = "main"
        THEN IF "back_dead" \in flaws THEN side ELSE Leave("back", "back")
        ELSE GoToPage("main", "back")

Pages == <<"launcher", "internal", "sd", "memory", "system", "about">>
MainTap(row) ==
  CASE row = 0 -> GoToPage("main", "ssh_toggle")
    [] row = 1 -> Leave("wifi", "wifi_route")
    [] row = 2 -> Leave("bluetooth", "bluetooth_route")
    [] row \in 3..8 -> IF "page_dead" \in flaws /\ row = 6 THEN side
                       ELSE GoToPage(Pages[row - 2], "open_page")
    [] OTHER -> side

Flip(mask, tile) == IF tile \in mask THEN mask \ {tile} ELSE mask \cup {tile}

\* r1_cfw_launcher_set takes it.
Allowed(row) ==
  LET mask == Flip(Conf.mask, TileOrder[row + 1])
  IN ValidMask(mask) \/ ("seventh_taken" \in flaws /\ mask = Tiles)

LauncherTap(row) ==
  IF row \notin 0..6 THEN side
  ELSE IF TileOrder[row + 1] = "cfw"
  THEN Draw([side EXCEPT !.notice = FALSE,
                         !.mask = IF "cfw_unlocked" \in flaws THEN @ \ {"cfw"} ELSE @],
            "launcher_rejected")
  ELSE IF Allowed(row)
  THEN Draw([side EXCEPT !.notice = FALSE, !.mask = Flip(@, TileOrder[row + 1])],
            "launcher_toggle")
  ELSE Draw([side EXCEPT !.notice = Cardinality(Conf.mask) = 6], "launcher_rejected")

ToggledSsh == IF "ssh_no_marker" \in flaws THEN Conf.ssh
              ELSE IF Conf.ssh = "enabled" THEN "disabled" ELSE "enabled"

\* What a tap writes.
Written(row) ==
  CASE side.screen = "main" /\ row = 0 -> [Conf EXCEPT !.ssh = ToggledSsh]
    [] /\ side.screen = "launcher" /\ row \in 0..6
       /\ TileOrder[row + 1] # "cfw" /\ "mask_not_saved" \notin flaws
       /\ Allowed(row) \/ "seventh_saved" \in flaws ->
         [Conf EXCEPT !.mask = Flip(@, TileOrder[row + 1])]
    [] OTHER -> Conf

SidecarTakesTouch ==
  /\ hook = "sidecar" /\ side.todo = "poll" /\ input # <<>>
  /\ input' = Tail(input)
  /\ LET point == Touch.at
         row == RowAt(point)
     IN IF Touch.drag /\ "drag_taps" \notin flaws
        THEN side' = Draw(side, "drag_ignored") /\ UNCHANGED store
        ELSE IF point[2] < HeaderHeight
        THEN /\ side' = IF point[1] < 110 THEN Back ELSE side
             /\ UNCHANGED store
        ELSE /\ side' = CASE side.screen = "main" -> MainTap(row)
                          [] side.screen = "launcher" -> LauncherTap(row)
                          [] OTHER -> side
             /\ store' = [store EXCEPT ![session.runtime] = Written(row)]
  /\ UNCHANGED <<session, player, page, shown, hook, cfwState, flaws>>

\* The last record is published at the end of run_ui.
SidecarEnds ==
  /\ hook = "sidecar" /\ side.todo = "leave"
  /\ cfwState' = Published
  /\ hook' = "ended"
  /\ store' = IF "ssh_forgotten" \in flaws
              THEN [store EXCEPT ![session.runtime].ssh = "disabled"] ELSE store
  /\ UNCHANGED <<session, player, page, shown, side, input, flaws>>

\* R1_CFW_TEST_CRASH_AFTER_MS: abort(), at the end of a turn of the loop.
SidecarAborts ==
  /\ session.crash /\ hook = "sidecar" /\ side.seq > 0
  /\ side.todo # "publish"
  /\ hook' = "ended"
  /\ side' = [side EXCEPT !.route = "crash"]
  /\ player' = IF "dies_with_sidecar" \in flaws THEN "gone" ELSE player
  /\ UNCHANGED <<store, session, page, shown, input, cfwState, flaws>>

-----------------------------------------------------------------------------
(* The hook hands back: the frame, then the touchscreen, whose waiting     *)
(* events are drained, then it runs the player's own route.                *)

RestoreFrame ==
  /\ hook = "ended"
  /\ hook' = "restored"
  /\ shown' = IF "frame_kept" \in flaws THEN shown ELSE Drawn(page)
  /\ UNCHANGED <<store, session, player, page, side, input, cfwState, flaws>>

ReleaseTouch ==
  /\ hook = "restored"
  /\ input' = <<>>
  /\ hook' = CASE side.route \in {"wifi", "bluetooth"} -> "routing"
               [] side.route = "crash" /\ "touch_kept" \in flaws -> "stuck"
               [] OTHER -> "idle"
  /\ side' = NoSide
  /\ UNCHANGED <<store, session, player, page, shown, cfwState, flaws>>

StockRoute ==
  /\ hook = "routing"
  /\ hook' = "idle"
  /\ IF "route_ignored" \in flaws THEN UNCHANGED <<page, shown>> ELSE Shows("wireless")
  /\ UNCHANGED <<store, session, player, side, input, cfwState, flaws>>

GuestStep ==
  \/ Splash \/ Ready \/ DrawLauncher \/ PlayerTakesTouch \/ TouchIsLost
  \/ SidecarDraws \/ SidecarPublishes \/ SidecarTakesTouch \/ SidecarEnds
  \/ SidecarAborts \/ RestoreFrame \/ ReleaseTouch \/ StockRoute

GuestNext == player # "gone" /\ (GuestStep \/ PlayerExits)

=============================================================================
