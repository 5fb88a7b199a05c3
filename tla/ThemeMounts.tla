------------------------------ MODULE ThemeMounts ------------------------------
(***************************************************************************)
(* S90r1-cfw, the boot-time selector of the launcher layout and the theme: *)
(* it reads the two configuration files and bind-mounts directories and    *)
(* launcher views of the firmware over the stock ones, as one transaction  *)
(* that is unwound when any part of it fails.  It runs once at boot before *)
(* the player and any writer of the files; afterwards a shell may run it   *)
(* again (reload, stop) while the player has files open and the files are  *)
(* being saved, which is all the module knows of CfwConfig (ConfStore).    *)
(*                                                                         *)
(* The kernel's mounts are modelled as far as the script can tell: each    *)
(* place has a stack of layers, a layer being a directory tree and the     *)
(* launcher views stacked over the one file in it.  A bind of a directory  *)
(* shows the tree its source shows, without what is mounted inside it.     *)
(***************************************************************************)
EXTENDS ConfFile, Sequences

ASSUME ThemesAssumption == Themes = {"stock", "light", "dark", "retro"}

VARIABLES
  conf,     \* the text of each file
  past,     \* the texts a power loss may leave in it
  over,     \* what is mounted at each place, the topmost layer first
  retro,    \* are the retro theme's resources complete
  player,   \* hiby_player: "down" until the boot scripts have run
  at,       \* where the script is
  plan,     \* the mask and the theme it has read
  left,     \* what it has still to bind, or that it unwinds once again
  ended,    \* how its last transaction ended
  refused   \* has an umount failed since the boot

confVars   == <<conf, past>>
scriptVars == <<at, plan, left, ended>>
vars == <<confVars, over, retro, player, scriptVars, refused>>

Store == INSTANCE ConfStore

Layouts == {"layout1", "layout2", "midi"}
Assets  == {"assets1", "assets2"}
Places  == Layouts \cup Assets

Layer(tree) == [tree |-> tree, views |-> <<>>]

\* The squashfs: each place shows its own stock tree.
Stock == [layout1 |-> <<Layer("theme1")>>, layout2 |-> <<Layer("theme2")>>,
          midi    |-> <<Layer("midi-theme1")>>,
          assets1 |-> <<Layer("theme1")>>, assets2 |-> <<Layer("theme2")>>]

Top(p) == Head(over[p])

\* The launcher views patch_r1_launcher.py and its retro sibling generate.
FiveAtMost == {m \in SUBSET Tiles :    \* a variant: the fullest masks are left out
                 Cfw \in m /\ MinTiles <= Cardinality(m) /\ Cardinality(m) < MaxTiles}
SAFE_MASKS == {m \in SUBSET Tiles :
                 Cfw \in m /\ MinTiles <= Cardinality(m) /\ Cardinality(m) <= MaxTiles}

-------------------------------------------------------------------------------
(***************************************************************************)
(* What is to be bound.                                                    *)
(***************************************************************************)
\* A bind over a place: of what another place shows, or of the retro tree.
BindDir(from, onto) == [from |-> from, onto |-> onto, view |-> <<>>]
BindView(variant, m, onto) ==
  [from |-> "views", onto |-> onto, view |-> <<[variant |-> variant, mask |-> m]>>]

\* apply_theme_directories.
ThemeDirectories(theme) ==
  CASE theme = "stock" -> <<>>
    [] theme = "light" -> <<BindDir("layout1", "layout2"), BindDir("assets1", "assets2")>>
    [] theme = "dark"  -> <<BindDir("layout2", "layout1"), BindDir("assets2", "assets1")>>
    [] theme = "retro" -> <<BindDir("retro", "layout1"), BindDir("retro", "layout2"),
                            BindDir("retro", "assets1"), BindDir("retro", "assets2")>>

\* The views' variant for each of the two stock themes, first and second.
first_variant(theme)  == [stock |-> "theme1", light |-> "theme1",
                          dark |-> "theme2", retro |-> "retro"][theme]
second_variant(theme) == [stock |-> "theme2", light |-> "theme1",
                          dark |-> "theme2", retro |-> "retro"][theme]

Binds(theme, m) ==
  ThemeDirectories(theme) \o
    <<BindView(first_variant(theme), m, "layout1"),
      BindView(second_variant(theme), m, "layout2"),
      BindView("midi-theme1", m, "midi")>>

\* validate_plan: the views exist for this mask, the retro tree is complete.
validate_plan == /\ plan.launcher \in SAFE_MASKS
                 /\ plan.theme = "retro" => retro

-------------------------------------------------------------------------------
Init ==
  /\ Store!Init
  /\ over = Stock
  /\ retro \in BOOLEAN
  /\ player = "down"
  /\ at = "start"
  /\ plan = Default
  /\ left = <<>>
  /\ ended = "none"
  /\ refused = FALSE

Goto(point, rest) == at' = point /\ left' = rest

\* start, reload and restart.  Without its state directory it does nothing.
Start ==
  /\ at = "start"
  /\ Goto("mask", <<>>)
  /\ UNCHANGED <<confVars, over, retro, player, plan, ended, refused>>

StartFails ==
  /\ at = "start"
  /\ Goto("idle", <<>>)
  /\ UNCHANGED <<confVars, over, retro, player, plan, ended, refused>>

ReadMask ==
  /\ at = "mask"
  /\ plan' = [plan EXCEPT !.launcher = Selected("launcher", conf["launcher"])]
  /\ Goto("theme", <<>>)
  /\ UNCHANGED <<confVars, over, retro, player, ended, refused>>

ReadTheme ==
  /\ at = "theme"
  /\ plan' = [plan EXCEPT !.theme = Selected("theme", conf["theme"])]
  /\ Goto("validate", <<>>)
  /\ UNCHANGED <<confVars, over, retro, player, ended, refused>>

Validate ==
  /\ at = "validate"
  /\ IF validate_plan THEN Goto("clear", <<>>) /\ UNCHANGED ended
                      ELSE Goto("unwind", <<>>) /\ ended' = "rejected"
  /\ UNCHANGED <<confVars, over, retro, player, plan, refused>>

(***************************************************************************)
(* unmount_all: unmount_one for each launcher view, then for each          *)
(* directory.  Nobody else mounts, so it is one step.  An umount fails     *)
(* where the player has a file open (busy), or where something is still    *)
(* mounted inside a directory; the script goes on.                         *)
(***************************************************************************)
ViewsLeft(p, busy) ==
  IF p \in busy \/ Top(p).views = <<>> THEN Top(p).views ELSE Tail(Top(p).views)

DirectoriesFirst(p, busy) ==           \* a variant: before what is mounted in them
  IF Len(over[p]) > 1 /\ p \notin busy /\ Top(p).views = <<>>
  THEN Tail(over[p])
  ELSE <<[Top(p) EXCEPT !.views = ViewsLeft(p, busy)]>> \o Tail(over[p])

Uncovered(p, busy) ==
  IF Len(over[p]) > 1 /\ p \notin busy /\ ViewsLeft(p, busy) = <<>>
  THEN Tail(over[p])
  ELSE <<[Top(p) EXCEPT !.views = ViewsLeft(p, busy)]>> \o Tail(over[p])

Mounted(p) == Len(over[p]) > 1 \/ Top(p).views # <<>>

unmount_all(busy) ==
  /\ over' = [p \in Places |-> Uncovered(p, busy)]
  /\ refused' = (refused \/ \E p \in busy : Mounted(p))

\* Where the player may have files open: the bound is one place at a time.
BusyPlaces ==
  {{}} \cup IF player = "up" THEN {{p} : p \in Places} ELSE {}

SkipClear ==                           \* a variant: nothing is unmounted first
  /\ at = "clear"
  /\ Goto("bind", Binds(plan.theme, plan.launcher))
  /\ UNCHANGED <<confVars, over, retro, player, plan, ended, refused>>

Clear ==
  /\ at = "clear"
  /\ \E busy \in BusyPlaces : unmount_all(busy)
  /\ Goto("bind", Binds(plan.theme, plan.launcher))
  /\ UNCHANGED <<confVars, retro, player, plan, ended>>

Unwind ==
  /\ at = "unwind"
  /\ \E busy \in BusyPlaces : unmount_all(busy)
  /\ IF left = <<>> THEN Goto("idle", <<>>) ELSE Goto("unwind", Tail(left))
  /\ UNCHANGED <<confVars, retro, player, plan, ended>>

(***************************************************************************)
(* bind_one.                                                               *)
(***************************************************************************)
Covered(b) ==
  IF b.view # <<>>
  THEN <<[Top(b.onto) EXCEPT !.views = b.view \o @]>> \o Tail(over[b.onto])
  ELSE <<Layer(IF b.from = "retro" THEN "retro" ELSE Top(b.from).tree)>> \o over[b.onto]

Bind ==
  /\ at = "bind"
  /\ left # <<>>
  /\ over' = [over EXCEPT ![Head(left).onto] = Covered(Head(left))]
  /\ Goto("bind", Tail(left))
  /\ UNCHANGED <<confVars, retro, player, plan, ended, refused>>

TryAgain ==                            \* a variant: the same bind again
  /\ at = "bind"
  /\ left # <<>>
  /\ ended' = "failed"
  /\ Goto("clear", <<>>)
  /\ UNCHANGED <<confVars, over, retro, player, plan, refused>>

\* The transaction unwinds itself, and then so does its caller.
BindFails ==
  /\ at = "bind"
  /\ left # <<>>
  /\ ended' = "failed"
  /\ Goto("unwind", <<"again">>)
  /\ UNCHANGED <<confVars, over, retro, player, plan, refused>>

Bound ==
  /\ at = "bind"
  /\ left = <<>>
  /\ ended' = "applied"
  /\ Goto("idle", <<>>)
  /\ UNCHANGED <<confVars, over, retro, player, plan, refused>>

(***************************************************************************)
(* Around the script.                                                      *)
(***************************************************************************)
\* The boot goes on, to the SSH service and the player.
StartPlayer ==
  /\ player = "down"
  /\ at = "idle"
  /\ player' = "up"
  /\ UNCHANGED <<confVars, over, retro, scriptVars, refused>>

\* A shell runs "reload" or "stop".  The bound of the module: not on top of
\* what an umount that was refused has left, or layers pile up without end.
RunByHand ==
  /\ player = "up"
  /\ at = "idle"
  /\ ~refused
  /\ \/ Goto("start", <<>>) /\ UNCHANGED ended
     \/ Goto("unwind", <<>>) /\ ended' = "stopped"
  /\ UNCHANGED <<confVars, over, retro, player, plan, refused>>

\* The sidecar UI or a data command, in the course of CfwConfig.
ConfChanges ==
  /\ player = "up"
  /\ \/ \E l \in Leaves : \E v \in Good[l] : Store!Save(l, v)
     \/ Store!Flush
  /\ UNCHANGED <<over, retro, player, scriptVars, refused>>

PowerLoss ==
  /\ Store!PowerLoss
  /\ over' = Stock
  /\ player' = "down"
  /\ Goto("start", <<>>)
  /\ plan' = Default
  /\ ended' = "none"
  /\ refused' = FALSE
  /\ UNCHANGED retro

ScriptStep ==
  \/ Start
  \/ StartFails
  \/ ReadMask
  \/ ReadTheme
  \/ Validate
  \/ Clear
  \/ Unwind
  \/ Bind
  \/ BindFails
  \/ Bound

Next ==
  \/ ScriptStep
  \/ StartPlayer
  \/ RunByHand
  \/ ConfChanges
  \/ PowerLoss

Spec == Init /\ [][Next]_vars

(***************************************************************************)
(* A shell script runs on, and init runs the next one.  Nothing makes      *)
(* anybody save, run the script by hand or cut the power.                  *)
(***************************************************************************)
Fairness == WF_vars(ScriptStep) /\ WF_vars(StartPlayer)
FairSpec == Spec /\ Fairness

-------------------------------------------------------------------------------
(***************************************************************************)
(* Properties.                                                             *)
(***************************************************************************)
AtRest == at = "idle"

\* A plan that was rejected, a bind that failed at any step and a stop leave
\* nothing mounted: the stock resources show, unless an umount was refused.
StockExposed ==
  AtRest /\ ~refused /\ ended # "applied" => over = Stock

\* The launcher view on show at a layout, if one is bound there.
Shows(p, variant, m) ==
  Top(p).views # <<>> /\ Head(Top(p).views) = [variant |-> variant, mask |-> m]

\* A transaction that ended well is whole, however many went before it: each
\* theme slot has the layout, the icons and the launcher of one theme, and
\* every launcher, MIDI's included, shows the mask that was read.
AppliedWhole ==
  AtRest /\ ~refused /\ ended = "applied" =>
    /\ \A slot \in {<<"layout1", "assets1">>, <<"layout2", "assets2">>} :
         LET tree == Top(slot[1]).tree IN
           Top(slot[2]).tree = tree /\ Shows(slot[1], tree, plan.launcher)
    /\ Shows("midi", "midi-theme1", plan.launcher)
    /\ {Top("layout1").tree, Top("layout2").tree} =
         [stock |-> {"theme1", "theme2"}, light |-> {"theme1"},
          dark |-> {"theme2"}, retro |-> {"retro"}][plan.theme]

\* At boot the selector takes every pair of values the C code can save, and
\* plans exactly those: the two parsers, and the masks the build generated
\* views for, agree on what the sidecar UI writes.
SavedIsTaken ==
  [][ /\ at = "validate" /\ player = "down"
      /\ \A l \in Leaves : Accepted(l, conf[l])
      => /\ \A l \in Leaves : plan[l] = conf[l].value
         /\ at' = "unwind" => conf["theme"].value = "retro" /\ ~retro ]_vars

\* Nothing the selector meets keeps the player from starting: "Fail open: a
\* rejected optional theme must never prevent normal boot".
BootCompletes ==
  (player = "down" ~> player = "up") \/ []<><<PowerLoss>>_vars

================================================================================
