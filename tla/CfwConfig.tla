------------------------------- MODULE CfwConfig -------------------------------
(***************************************************************************)
(* The writers of the configuration: processes of /usr/bin/r1-cfw-ui.  One *)
(* may be the sidecar UI of r1_cfw_ui.c, which keeps what it last loaded   *)
(* on screen; the others are its data commands (--launcher-set and so on), *)
(* run over SSH at any time.  There is no lock: each loads, decides, and   *)
(* replaces the file through a temporary file named after its process id.  *)
(* A process can be killed anywhere (the sidecar with its player, a        *)
(* command with its SSH session) and the device can lose power anywhere.   *)
(***************************************************************************)
EXTENDS ConfFile, Sequences

CONSTANTS Pids,    \* process ids; one is used again after its process ended
          Nothing  \* no change to make

ASSUME PidsAssumption == IsFiniteSet(Pids)
ASSUME NothingAssumption == Nothing \notin [tile : Tiles, on : BOOLEAN]

VARIABLES
  conf,     \* the text of each file, as any process sees it
  disk,     \* the texts of each file a power loss may bring back
  temp,     \* the temporary file of each leaf and process id: "none", "cached",
            \* "safe" (flushed), or "left" by a process that is gone; nobody
            \* reads or removes that one
  kind,     \* what each process is: "none", "ui", "command"
  at,       \* where it is: "idle", "load", "write", "rename" (the temporary
            \* file is complete), "flush" (it is the file)
  loads,    \* the files it has still to load, the first one under way
  change,   \* the tile it is to set once loaded
  save,     \* the save under way: the file, its new value, the value loaded
  screen,   \* ui_state.screen: "main", "launcher", "about", "appearance"
  shown,    \* ui_state.launcher_mask and ui_state.theme
  foreign   \* has another process written a file since the UI last loaded it?

fileVars   == <<conf, disk, temp>>
procVars   == <<kind, at, loads, change, save>>
uiVars     == <<screen, shown, foreign>>
configVars == <<fileVars, procVars, uiVars>>

NoSave == [leaf |-> "theme", value |-> DefaultTheme]

\* refresh_info and --dump-info load both files.
Refresh == <<"launcher", "theme">>
Dump    == <<"theme", "launcher">>

ConfigInit ==
  /\ conf \in [launcher : Contents("launcher"), theme : Contents("theme")]
  /\ disk = [l \in Leaves |-> {conf[l]}]
  /\ temp = [l \in Leaves |-> [p \in Pids |-> "none"]]
  /\ kind = [p \in Pids |-> "none"]
  /\ at = [p \in Pids |-> "idle"]
  /\ loads = [p \in Pids |-> <<>>]
  /\ change = [p \in Pids |-> Nothing]
  /\ save = [p \in Pids |-> NoSave]
  /\ screen = "main"
  /\ shown = Default
  /\ foreign = [l \in Leaves |-> FALSE]

-------------------------------------------------------------------------------
(***************************************************************************)
(* Starting something: a process with its first task, or a tap.            *)
(***************************************************************************)
\* Process p is to load the files ls and then make change c.
Task(p, ls, c) ==
  /\ at' = [at EXCEPT ![p] = "load"]
  /\ loads' = [loads EXCEPT ![p] = ls]
  /\ change' = [change EXCEPT ![p] = c]
  /\ UNCHANGED save

\* Process p is to save value v of leaf l.
Saving(p, l, v) ==
  /\ at' = [at EXCEPT ![p] = "write"]
  /\ save' = [save EXCEPT ![p] = [leaf |-> l, value |-> v]]

Running(p, k) == kind[p] = "none" /\ kind' = [kind EXCEPT ![p] = k]

\* run_ui.  The hook launches one sidecar at a time and reaps it.
StartUi(p) ==
  /\ \A q \in Pids : kind[q] # "ui"
  /\ Running(p, "ui")
  /\ screen' = "main"
  /\ Task(p, Refresh, Nothing)
  /\ UNCHANGED <<fileVars, shown, foreign>>

\* --launcher-show, --theme-show and --dump-info.
ShowCommand(p, ls) ==
  /\ Running(p, "command")
  /\ Task(p, ls, Nothing)
  /\ UNCHANGED <<fileVars, uiVars>>

\* --launcher-set.
LauncherSet(p, t, on) ==
  /\ Running(p, "command")
  /\ Task(p, <<"launcher">>, [tile |-> t, on |-> on])
  /\ UNCHANGED <<fileVars, uiVars>>

\* --theme-set saves without loading.
ThemeSet(p, v) ==
  /\ Running(p, "command")
  /\ Saving(p, "theme", v)
  /\ UNCHANGED <<fileVars, loads, change, uiVars>>

Waiting(p) == kind[p] = "ui" /\ at[p] = "idle"

\* go_to_page.  The SSH row refreshes the main page, and the four pages that
\* only show information count as the main page too.
go_to_page(p, s) ==
  /\ screen' = s
  /\ Task(p, Refresh, Nothing)
  /\ UNCHANGED <<fileVars, kind, shown, foreign>>

handle_main_tap(p) ==
  /\ Waiting(p)
  /\ screen = "main"
  /\ \E s \in {"main", "launcher", "about"} : go_to_page(p, s)

handle_about_tap(p) ==
  /\ Waiting(p)
  /\ screen = "about"
  /\ go_to_page(p, "appearance")

handle_back(p) ==
  /\ Waiting(p)
  /\ screen # "main"
  /\ go_to_page(p, IF screen = "appearance" THEN "about" ELSE "main")

\* Which way a tap on tile t goes.
LoadedDirection(t) == t \notin Loaded("launcher", conf["launcher"])  \* a variant
TapDirection(t) == t \notin shown["launcher"]

\* The row of the CFW tile does nothing.
handle_launcher_tap(p, t) ==
  /\ Waiting(p)
  /\ screen = "launcher"
  /\ t # Cfw
  /\ Task(p, <<"launcher">>, [tile |-> t, on |-> TapDirection(t)])
  /\ UNCHANGED <<fileVars, kind, uiVars>>

handle_appearance_tap(p, v) ==
  /\ Waiting(p)
  /\ screen = "appearance"
  /\ Saving(p, "theme", v)
  /\ UNCHANGED <<fileVars, kind, loads, change, uiVars>>

-------------------------------------------------------------------------------
(***************************************************************************)
(* The end of a task.  A command exits; the UI waits for the next tap.     *)
(***************************************************************************)
Rest(p) ==
  /\ at' = [at EXCEPT ![p] = "idle"]
  /\ loads' = [loads EXCEPT ![p] = <<>>]
  /\ change' = [change EXCEPT ![p] = Nothing]
  /\ save' = [save EXCEPT ![p] = NoSave]
  /\ kind' = [kind EXCEPT ![p] = IF @ = "ui" THEN "ui" ELSE "none"]

\* The mask after the change, and the checks of r1_cfw_launcher_set.
Applied(c, mask) == IF c.on THEN mask \cup {c.tile} ELSE mask \ {c.tile}

\* EPERM; and ENOSPC for a mask that would be too full, ERANGE for others.
Refused(c, mask) ==
  \/ c.tile = Cfw /\ ~c.on
  \/ ~valid_mask(Applied(c, mask))

\* The load of the first file in loads[p] has returned value v.
Continue(p, v) ==
  LET more == Tail(loads[p])
  IN  /\ shown' = IF kind[p] = "ui" /\ change[p] = Nothing
                  THEN [shown EXCEPT ![Head(loads[p])] = v] ELSE shown
      /\ \/ /\ more # <<>>
            /\ at' = [at EXCEPT ![p] = "load"]
            /\ loads' = [loads EXCEPT ![p] = more]
            /\ save' = [save EXCEPT ![p] = NoSave]
            /\ UNCHANGED <<kind, change>>
         \/ /\ more = <<>>
            /\ change[p] # Nothing => Refused(change[p], v)
            /\ Rest(p)
         \/ /\ more = <<>>
            /\ change[p] # Nothing
            /\ ~Refused(change[p], v)
            /\ Saving(p, "launcher", Applied(change[p], v))
            /\ loads' = [loads EXCEPT ![p] = <<>>]
            /\ UNCHANGED <<kind, change>>

\* A save has returned.  One that healed a file during a load is ignored.
ShownWhateverHappened(p, ok) ==        \* a variant: the result is not looked at
  IF kind[p] = "ui" THEN [shown EXCEPT ![save[p].leaf] = save[p].value] ELSE shown
ShownAfter(p, ok) ==
  IF kind[p] = "ui" /\ ok
    THEN [shown EXCEPT ![save[p].leaf] = save[p].value] ELSE shown

Healing(p) == loads[p] # <<>>

Return(p, ok) ==
  \/ Healing(p) /\ Continue(p, Default[save[p].leaf])
  \/ ~Healing(p) /\ shown' = ShownAfter(p, ok) /\ Rest(p)

-------------------------------------------------------------------------------
(***************************************************************************)
(* Loading.  The file is read at its open: a later rename replaces it.     *)
(***************************************************************************)
\* The UI's copy is up to date again with a load that refreshes it.
Refreshed(p) ==
  foreign' = IF kind[p] = "ui" /\ change[p] = Nothing
             THEN [foreign EXCEPT ![Head(loads[p])] = FALSE] ELSE foreign

Load(p) ==
  /\ at[p] = "load"
  /\ LET l == Head(loads[p]) IN
       /\ ~Broken(l, conf[l])
       /\ Continue(p, Loaded(l, conf[l]))
  /\ Refreshed(p)
  /\ UNCHANGED <<fileVars, screen>>

LoadBroken(p) ==
  /\ at[p] = "load"
  /\ LET l == Head(loads[p]) IN
       /\ Broken(l, conf[l])
       /\ Saving(p, l, Default[l])
  /\ Refreshed(p)
  /\ UNCHANGED <<fileVars, kind, loads, change, screen, shown>>

-------------------------------------------------------------------------------
(***************************************************************************)
(* atomic_write_config.                                                    *)
(***************************************************************************)
Temp(p)       == temp[save[p].leaf][p]
SetTemp(p, s) == temp' = [temp EXCEPT ![save[p].leaf][p] = s]

\* open, write, fsync and close: the temporary file is this process's alone,
\* so they are one step.  O_EXCL: a leftover of an earlier process with the
\* same id is never reused.
WriteUnflushed(p) ==                   \* a variant: without the fsync
  /\ at[p] = "write"
  /\ Temp(p) = "none"
  /\ SetTemp(p, "cached")
  /\ at' = [at EXCEPT ![p] = "rename"]
  /\ UNCHANGED <<conf, disk, kind, loads, change, save, uiVars>>

Write(p) ==
  /\ at[p] = "write"
  /\ Temp(p) = "none"
  /\ SetTemp(p, "safe")
  /\ at' = [at EXCEPT ![p] = "rename"]
  /\ UNCHANGED <<conf, disk, kind, loads, change, save, uiVars>>

\* The directory or the file cannot be made, a leftover is in the way, or
\* the write or the fsync fails and the file is removed again.
WriteFails(p) ==
  /\ at[p] = "write"
  /\ Return(p, FALSE)
  /\ UNCHANGED <<fileVars, screen, foreign>>

\* What a power loss may leave of a renamed file.
OnDisk(p) == IF Temp(p) = "safe" THEN Exact(save[p].value) ELSE Garbage

Rename(p) ==
  /\ at[p] = "rename"
  /\ LET l == save[p].leaf IN
       /\ conf' = [conf EXCEPT ![l] = Exact(save[p].value)]
       /\ disk' = [disk EXCEPT ![l] = @ \cup {OnDisk(p)}]
       /\ foreign' = [foreign EXCEPT ![l] = @ \/ kind[p] # "ui"]
  /\ SetTemp(p, "none")
  /\ at' = [at EXCEPT ![p] = "flush"]
  /\ UNCHANGED <<kind, loads, change, save, screen, shown>>

RenameFails(p) ==
  /\ at[p] = "rename"
  /\ SetTemp(p, "none")
  /\ Return(p, FALSE)
  /\ UNCHANGED <<conf, disk, screen, foreign>>

\* fsync of the directory; whether it works is not looked at.
Flush(p) ==
  /\ at[p] = "flush"
  /\ disk' \in {disk, [l \in Leaves |-> {conf[l]}]}
  /\ Return(p, TRUE)
  /\ UNCHANGED <<conf, temp, screen, foreign>>

-------------------------------------------------------------------------------
(***************************************************************************)
(* Ends.                                                                   *)
(***************************************************************************)
Leftover(s) == IF s = "none" THEN "none" ELSE "left"

Gone(p) ==
  /\ kind' = [kind EXCEPT ![p] = "none"]
  /\ at' = [at EXCEPT ![p] = "idle"]
  /\ loads' = [loads EXCEPT ![p] = <<>>]
  /\ change' = [change EXCEPT ![p] = Nothing]
  /\ save' = [save EXCEPT ![p] = NoSave]
  /\ IF kind[p] = "ui"
     THEN screen' = "main" /\ shown' = Default /\ foreign' = [l \in Leaves |-> FALSE]
     ELSE UNCHANGED uiVars
  /\ temp' = [l \in Leaves |-> [temp[l] EXCEPT ![p] = Leftover(@)]]
  /\ UNCHANGED <<conf, disk>>

\* Back on the main page, or one of the two route rows.
ExitUi(p) ==
  /\ Waiting(p)
  /\ screen = "main"
  /\ Gone(p)

\* Its temporary file stays.
Kill(p) ==
  /\ kind[p] # "none"
  /\ Gone(p)

\* Temporary files survive or not.
PowerLoss ==
  /\ conf' \in [launcher : disk["launcher"], theme : disk["theme"]]
  /\ disk' = [l \in Leaves |-> {conf'[l]}]
  /\ temp' \in {[l \in Leaves |-> [p \in Pids |->
                   IF <<l, p>> \in left THEN Leftover(temp[l][p]) ELSE "none"]] :
                left \in SUBSET (Leaves \X Pids)}
  /\ kind' = [p \in Pids |-> "none"]
  /\ at' = [p \in Pids |-> "idle"]
  /\ loads' = [p \in Pids |-> <<>>]
  /\ change' = [p \in Pids |-> Nothing]
  /\ save' = [p \in Pids |-> NoSave]
  /\ screen' = "main"
  /\ shown' = Default
  /\ foreign' = [l \in Leaves |-> FALSE]

-------------------------------------------------------------------------------
Start(p) ==
  \/ StartUi(p)
  \/ \E ls \in {<<"launcher">>, <<"theme">>, Dump} : ShowCommand(p, ls)
  \/ \E t \in Tiles, on \in BOOLEAN : LauncherSet(p, t, on)
  \/ \E v \in Themes : ThemeSet(p, v)

handle_gesture(p) ==
  \/ handle_main_tap(p)
  \/ handle_about_tap(p)
  \/ handle_back(p)
  \/ \E t \in Tiles : handle_launcher_tap(p, t)
  \/ \E v \in Themes : handle_appearance_tap(p, v)

SaveStep(p) ==
  \/ Write(p)
  \/ WriteFails(p)
  \/ Rename(p)
  \/ RenameFails(p)
  \/ Flush(p)

ConfigNext ==
  \/ \E p \in Pids :
       \/ Start(p)
       \/ handle_gesture(p)
       \/ Load(p)
       \/ LoadBroken(p)
       \/ SaveStep(p)
       \/ ExitUi(p)
       \/ Kill(p)
  \/ PowerLoss

ConfigSpec == ConfigInit /\ [][ConfigNext]_configVars

-------------------------------------------------------------------------------
(***************************************************************************)
(* Properties.                                                             *)
(***************************************************************************)
\* Seen from outside, whole files with values the firmware can show replace
\* one another, through every failed save, race, kill and power loss.
Store == INSTANCE ConfStore WITH past <- disk
StoreSpec == Store!Spec

\* What the UI shows while it waits for a tap is what a load would return,
\* unless another process has written the file since: a save that failed has
\* not changed the screen, and one that worked has.
MirrorsFile ==
  \A p \in Pids : Waiting(p) =>
    \A l \in Leaves : foreign[l] \/ shown[l] = Loaded(l, conf[l])

\* A tap on a tile row that succeeds flips the row the user saw, also when
\* the file had changed under the UI.
TapFlipsRow ==
  [][ \A p \in Pids :
        /\ at[p] = "flush" /\ change[p] # Nothing /\ ~Healing(p)
        /\ kind[p] = "ui" /\ at'[p] = "idle" /\ kind'[p] = "ui"
        => LET t == change[p].tile IN
             t \in shown'["launcher"] <=> t \notin shown["launcher"] ]_configVars

================================================================================
