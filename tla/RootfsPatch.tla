----------------------------- MODULE RootfsPatch -----------------------------
(***************************************************************************)
(* The tools that turn the vendor's extracted root file system into the    *)
(* CFW's: the overlays, patch_r1_branding.py, patch_r1_ssh_toggle.py,      *)
(* patch_r1_cfw_integration.py, patch_r1_launcher.py,                      *)
(* patch_r1_retro_theme.py and patch_r1_retro_launcher.py.                 *)
(*                                                                         *)
(* For each tool: which trees it takes, what it would write, and what its  *)
(* verify or --check mode asks of a tree.  FirmwareBuild writes the files  *)
(* one by one.                                                             *)
(*                                                                         *)
(* A tree is [file, temps, retro]: what is in each file, beside which      *)
(* files a temporary one was left, and what the Retro Handheld theme was   *)
(* derived from.  A file is                                                *)
(*   absent;  stock, the vendor's;  cfw, stock with the tool's change or   *)
(*   the tool's own output;  edited, what somebody made of the vendor's    *)
(*   file without touching the place a tool changes;  editedcfw, that with *)
(*   the tool's change;  or broken, which no tool recognises.              *)
(***************************************************************************)
EXTENDS FiniteSets

CONSTANTS
  OverlayFiles,    \* copied: the overlays and the programs built for them
  Config,          \* config.json, and the three stock launcher layouts:
  StockLayouts,    \*   these must be and stay the vendor's
  BrandFiles,      \* hiby_about_dev.view, about_dev.ini
  PlayerFiles,     \* hiby_player and developer_options.ini
  WrapperFiles,    \* hiby_player.sh
  LauncherTexts,   \* launcher.ini
  LauncherIcons,   \* cfw.png, cfw_s.png
  LauncherViews,   \* the generated layouts
  RetroViews,      \* those of the Retro Handheld theme
  LightFiles,      \* of the above, what lies in the light or dark theme
  NoTheme, PartTheme   \* no Retro Handheld theme, or a part of one

VendorFiles == Config \cup StockLayouts
Patched == BrandFiles \cup PlayerFiles \cup WrapperFiles \cup LauncherTexts
Generated == OverlayFiles \cup LauncherIcons \cup LauncherViews \cup RetroViews
Files == VendorFiles \cup Patched \cup Generated

ASSUME FilesAssumption ==
  /\ LightFiles \subseteq BrandFiles \cup LauncherIcons
  /\ VendorFiles \cap (Patched \cup Generated) = {}
  /\ Patched \cap Generated = {} /\ BrandFiles \cap PlayerFiles = {}

Contents == {"absent", "stock", "cfw", "edited", "editedcfw", "broken"}
Themes == [LightFiles -> Contents] \cup {NoTheme, PartTheme}
Trees == [file: [Files -> Contents], temps: SUBSET Files, retro: Themes]

ASSUME ThemesAssumption ==
  /\ NoTheme \notin [LightFiles -> Contents]
  /\ PartTheme \notin [LightFiles -> Contents]

StockTree ==
  [file  |-> [f \in Files |-> IF f \in Generated THEN "absent" ELSE "stock"],
   temps |-> {}, retro |-> NoTheme]

\* A structure the branding and the launcher.ini patch take, with and
\* without their change.
Unmarked == {"stock", "edited"}
Marked == {"cfw", "editedcfw"}
Mark(c) == IF c = "edited" THEN "editedcfw" ELSE "cfw"

\* The resources the theme is built from, as they are now.
Derived(t) == [f \in LightFiles |-> t.file[f]]

-----------------------------------------------------------------------------
(* What the tools ask of a tree before they write to it, and what they     *)
(* would write: all of it is worked out before the first write.            *)

BrandingTakes(t) ==
  /\ \A f \in Config : t.file[f] = "stock"
  /\ \A f \in BrandFiles : t.file[f] \in Unmarked \cup Marked
BrandingPlan(t) ==
  [f \in {g \in BrandFiles : t.file[g] \in Unmarked} |-> Mark(t.file[f])]

\* apply refuses what is not exactly stock, its own result too.
SshTakes(t) == \A f \in PlayerFiles : t.file[f] = "stock"
SshPlan(t) == [f \in PlayerFiles |-> "cfw"]

HookTakes(t) == \A f \in WrapperFiles : t.file[f] \in {"stock", "cfw"}
HookPlan(t) == [f \in {g \in WrapperFiles : t.file[g] = "stock"} |-> "cfw"]

\* Variant: what lies in the generated directories is not looked at.
LauncherTakesAnything(t) ==
  /\ \A f \in StockLayouts : t.file[f] = "stock"
  /\ \A f \in LauncherTexts : t.file[f] \in Unmarked \cup Marked

\* Generated directories may hold nothing but the generated files: a
\* temporary one that a killed run left there is refused.
LauncherTakes(t) ==
  /\ \A f \in StockLayouts : t.file[f] = "stock"
  /\ LauncherViews \cap t.temps = {}
  /\ \A f \in LauncherTexts : t.file[f] \in Unmarked \cup Marked
LauncherPlan(t) ==
  [f \in {g \in LauncherTexts : t.file[g] \in Unmarked}
         \cup {g \in LauncherIcons \cup LauncherViews : t.file[g] # "cfw"}
   |-> IF f \in LauncherTexts THEN Mark(t.file[f]) ELSE "cfw"]

RetroLauncherTakes(t) ==
  /\ t.retro \notin {NoTheme, PartTheme}
  /\ RetroViews \cap t.temps = {}
RetroLauncherPlan(t) == [f \in {g \in RetroViews : t.file[g] # "cfw"} |-> "cfw"]

OverlayPlan(t) == [f \in OverlayFiles |-> "cfw"]

-----------------------------------------------------------------------------
(* What verify and --check ask.                                            *)

BrandingChecked(t) == BrandingTakes(t) /\ DOMAIN BrandingPlan(t) = {}

SshVerified(t) == \A f \in PlayerFiles : t.file[f] = "cfw"

HookChecked(t) == \A f \in WrapperFiles : t.file[f] = "cfw"

LauncherVerified(t) ==
  /\ \A f \in StockLayouts : t.file[f] = "stock"
  /\ \A f \in LauncherTexts : t.file[f] \in Marked
  /\ LauncherViews \cap t.temps = {}
  /\ \A f \in LauncherIcons \cup LauncherViews : t.file[f] = "cfw"

\* Variant: the theme's marker file is enough.
RetroThere(t) == t.retro \notin {NoTheme, PartTheme}

\* The theme is built again from the tree's own resources and compared.
RetroVerified(t) == t.retro = Derived(t)

RetroLauncherVerified(t) ==
  /\ t.retro \notin {NoTheme, PartTheme}
  /\ RetroViews \cap t.temps = {}
  /\ \A f \in RetroViews : t.file[f] = "cfw"

OverlayCompared(t) == \A f \in OverlayFiles : t.file[f] = "cfw"

\* Nothing is added, removed or changed but what the build script lists.
StrictDiff(t) ==
  /\ t.temps = {}
  /\ \A f \in VendorFiles : t.file[f] = "stock"
  /\ \A f \in Patched : t.file[f] \notin {"stock", "absent"}
  /\ \A f \in Generated : t.file[f] # "absent"

-----------------------------------------------------------------------------
(* The tools by name.                                                      *)

Patchers == {"branding", "ssh", "hook", "launcher", "retro_launcher", "overlay"}
Tools == Patchers \cup {"retro"}

Takes(tool, t) ==
  CASE tool = "branding"       -> BrandingTakes(t)
    [] tool = "ssh"            -> SshTakes(t)
    [] tool = "hook"           -> HookTakes(t)
    [] tool = "launcher"       -> LauncherTakes(t)
    [] tool = "retro_launcher" -> RetroLauncherTakes(t)
    [] OTHER                   -> TRUE

Plan(tool, t) ==
  CASE tool = "branding"       -> BrandingPlan(t)
    [] tool = "ssh"            -> SshPlan(t)
    [] tool = "hook"           -> HookPlan(t)
    [] tool = "launcher"       -> LauncherPlan(t)
    [] tool = "retro_launcher" -> RetroLauncherPlan(t)
    [] tool = "overlay"        -> OverlayPlan(t)

\* Written to a temporary file that then takes the name, or in place.
Atomic(tool) == tool \in {"ssh", "launcher", "retro_launcher"}

Verified(tool, t) ==
  CASE tool = "branding"       -> BrandingChecked(t)
    [] tool = "ssh"            -> SshVerified(t)
    [] tool = "hook"           -> HookChecked(t)
    [] tool = "launcher"       -> LauncherVerified(t)
    [] tool = "retro"          -> RetroVerified(t)
    [] tool = "retro_launcher" -> RetroLauncherVerified(t)
    [] tool = "overlay"        -> OverlayCompared(t)

=============================================================================
