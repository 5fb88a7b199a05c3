---------------------------- MODULE SidecarProofs ----------------------------
(***************************************************************************)
(* Proofs about the CFW sidecar: its two configuration files and its UI    *)
(* (CfwConfig), and the session that the launcher hook runs it in          *)
(* (CfwHook).  The two modules share nothing and meet only here.           *)
(*                                                                         *)
(* The writers of the configuration, however many they are and whatever    *)
(* tiles and themes there are: they implement ConfStore, and the sidecar   *)
(* UI shows what the file says.                                            *)
(*                                                                         *)
(* The first rests on SaveInv: whatever way a value takes to a save, it is *)
(* one the firmware can show, and a temporary file that is to be renamed   *)
(* has been flushed.  The second rests on ScreenInv, which says for each   *)
(* point of a UI's task what keeps the screen true: the file is still to   *)
(* be loaded, or has just been replaced, or shows already.                 *)
(*                                                                         *)
(* The launcher hook, for any finite set of player threads and any number  *)
(* of framebuffer pages: SessionInv says where the one session is, and so  *)
(* what of the display, the snapshot and the grab is taken.                *)
(***************************************************************************)
EXTENDS CfwConfig, CfwHook, FiniteSetTheorems, TLAPS

Stages  == {"idle", "load", "write", "rename", "flush"}
Changes == [tile : Tiles, on : BOOLEAN] \cup {Nothing}

\* A save the firmware can show.
Saves == [leaf : {"launcher"}, value : Good["launcher"]]
           \cup [leaf : {"theme"}, value : Good["theme"]]

Types ==
  /\ kind \in [Pids -> {"none", "ui", "command"}]
  /\ at \in [Pids -> Stages]
  /\ loads \in [Pids -> Seq(Leaves)]
  /\ change \in [Pids -> Changes]
  /\ save \in [Pids -> Saves]
  /\ temp \in [Leaves -> [Pids -> {"none", "cached", "safe", "left"}]]

SaveInv ==
  /\ Types
  /\ \A p \in Pids : /\ at[p] = "load" => loads[p] # <<>>
                     /\ at[p] = "rename" => Temp(p) = "safe"

-------------------------------------------------------------------------------
\* The default of each file is a value the firmware can show.
LEMMA DefaultGood == \A l \in Leaves : Default[l] \in Good[l]
  BY DefaultAssumption DEF Leaves, Default, Good, valid_mask

LEMMA DefaultSaves ==
  ASSUME NEW l \in Leaves
  PROVE  [leaf |-> l, value |-> Default[l]] \in Saves
BY DefaultGood DEF Saves, Leaves

\* What a save is: a file, and a value good for it.
LEMMA SaveForm ==
  \A s \in Saves : s.leaf \in Leaves /\ s.value \in Good[s.leaf]
  BY DEF Saves, Leaves

LEMMA NoSaveGood == NoSave \in Saves
  BY DefaultAssumption DEF NoSave, Saves, Leaves, Good

\* What r1_cfw_launcher_set does not refuse, the firmware can show.
LEMMA UnrefusedSaves ==
  ASSUME NEW c, NEW mask, ~Refused(c, mask)
  PROVE  [leaf |-> "launcher", value |-> Applied(c, mask)] \in Saves
<1>1. valid_mask(Applied(c, mask))
  BY DEF Refused
<1> QED
  BY <1>1 DEF Saves, Leaves, Good, valid_mask

LEMMA ThemeSaves ==
  ASSUME NEW v \in Themes
  PROVE  [leaf |-> "theme", value |-> v] \in Saves
  BY DEF Saves, Leaves, Good

LEMMA SomeLoads ==
  /\ Refresh \in Seq(Leaves) /\ Refresh # <<>>
  /\ Dump \in Seq(Leaves) /\ Dump # <<>>
  /\ <<"launcher">> \in Seq(Leaves) /\ <<"launcher">> # <<>>
  /\ <<"theme">> \in Seq(Leaves) /\ <<"theme">> # <<>>
  /\ <<>> \in Seq(Leaves)
  BY DEF Refresh, Dump, Leaves

-------------------------------------------------------------------------------
\* Every action gives the variables of one process and leaves the others.
LEMMA TaskKeeps ==
  ASSUME SaveInv, NEW p \in Pids, NEW ls \in Seq(Leaves), ls # <<>>,
         NEW c \in Changes, Task(p, ls, c), UNCHANGED temp,
         kind' \in [Pids -> {"none", "ui", "command"}]
  PROVE  SaveInv'
  BY DEF SaveInv, Types, Task, Stages, Temp

LEMMA SavingKeeps ==
  ASSUME SaveInv, NEW p \in Pids, NEW l, NEW v,
         [leaf |-> l, value |-> v] \in Saves, Saving(p, l, v),
         loads' \in [Pids -> Seq(Leaves)],
         \A q \in Pids \ {p} : loads'[q] = loads[q],
         UNCHANGED <<temp, change>>,
         kind' \in [Pids -> {"none", "ui", "command"}]
  PROVE  SaveInv'
  BY DEF SaveInv, Types, Saving, Stages, Temp

LEMMA RestKeeps ==
  ASSUME SaveInv, NEW p \in Pids, Rest(p),
         temp' \in [Leaves -> [Pids -> {"none", "cached", "safe", "left"}]],
         \A l \in Leaves, q \in Pids \ {p} : temp'[l][q] = temp[l][q]
  PROVE  SaveInv'
  BY SaveForm, NoSaveGood, SomeLoads DEF SaveInv, Types, Rest, Stages, Temp, Changes

LEMMA ContinueKeeps ==
  ASSUME SaveInv, NEW p \in Pids, loads[p] # <<>>, NEW v, Continue(p, v),
         temp' \in [Leaves -> [Pids -> {"none", "cached", "safe", "left"}]],
         \A l \in Leaves, q \in Pids \ {p} : temp'[l][q] = temp[l][q]
  PROVE  SaveInv'
<1> DEFINE more == Tail(loads[p])
<1>1. more \in Seq(Leaves)
  BY DEF SaveInv, Types
<1>2. CASE /\ more # <<>>
           /\ at' = [at EXCEPT ![p] = "load"]
           /\ loads' = [loads EXCEPT ![p] = more]
           /\ save' = [save EXCEPT ![p] = NoSave]
           /\ UNCHANGED <<kind, change>>
  <2> HIDE DEF more
  <2> QED
    BY <1>1, <1>2, SaveForm, NoSaveGood DEF SaveInv, Types, Stages, Temp
<1>3. CASE Rest(p)
  BY <1>3, RestKeeps
<1>4. CASE /\ ~Refused(change[p], v)
           /\ Saving(p, "launcher", Applied(change[p], v))
           /\ loads' = [loads EXCEPT ![p] = <<>>]
           /\ UNCHANGED <<kind, change>>
  <2>1. [leaf |-> "launcher", value |-> Applied(change[p], v)] \in Saves
    BY <1>4, UnrefusedSaves
  <2> QED
    BY <2>1, <1>4, SaveForm, SomeLoads DEF SaveInv, Types, Saving, Stages, Temp
<1> QED
  BY <1>2, <1>3, <1>4 DEF Continue

LEMMA ReturnKeeps ==
  ASSUME SaveInv, NEW p \in Pids, NEW ok, Return(p, ok),
         temp' \in [Leaves -> [Pids -> {"none", "cached", "safe", "left"}]],
         \A l \in Leaves, q \in Pids \ {p} : temp'[l][q] = temp[l][q]
  PROVE  SaveInv'
  BY ContinueKeeps, RestKeeps DEF Return, Healing

-------------------------------------------------------------------------------
LEMMA SaveInit == ConfigInit => SaveInv
  BY SaveForm, NoSaveGood, SomeLoads
  DEF ConfigInit, SaveInv, Types, Stages, Changes, Temp

LEMMA StartSaves ==
  ASSUME SaveInv, NEW p \in Pids, Start(p)
  PROVE  SaveInv'
<1>1. CASE StartUi(p)
  BY <1>1, TaskKeeps, SomeLoads DEF StartUi, Running, SaveInv, Types, Changes, fileVars
<1>2. ASSUME NEW ls \in {<<"launcher">>, <<"theme">>, Dump}, ShowCommand(p, ls)
      PROVE  SaveInv'
  BY <1>2, TaskKeeps, SomeLoads DEF ShowCommand, Running, SaveInv, Types, Changes, fileVars
<1>3. ASSUME NEW t \in Tiles, NEW on \in BOOLEAN, LauncherSet(p, t, on)
      PROVE  SaveInv'
  BY <1>3, TaskKeeps, SomeLoads
  DEF LauncherSet, Running, SaveInv, Types, Changes, fileVars
<1>4. ASSUME NEW v \in Themes, ThemeSet(p, v)
      PROVE  SaveInv'
  BY <1>4, ThemeSaves, SavingKeeps DEF ThemeSet, Running, SaveInv, Types, fileVars
<1> QED
  BY <1>1, <1>2, <1>3, <1>4 DEF Start

LEMMA GestureSaves ==
  ASSUME SaveInv, NEW p \in Pids, handle_gesture(p)
  PROVE  SaveInv'
<1>1. ASSUME NEW s, go_to_page(p, s) PROVE SaveInv'
  BY <1>1, TaskKeeps, SomeLoads DEF go_to_page, SaveInv, Types, Changes, fileVars
<1>2. ASSUME NEW t \in Tiles, handle_launcher_tap(p, t)
      PROVE  SaveInv'
  BY <1>2, TaskKeeps, SomeLoads
  DEF handle_launcher_tap, TapDirection, SaveInv, Types, Changes, fileVars
<1>3. ASSUME NEW v \in Themes, handle_appearance_tap(p, v)
      PROVE  SaveInv'
  BY <1>3, ThemeSaves, SavingKeeps DEF handle_appearance_tap, SaveInv, Types, fileVars
<1> QED
  BY <1>1, <1>2, <1>3
  DEF handle_gesture, handle_main_tap, handle_about_tap, handle_back

LEMMA LoadSaves ==
  ASSUME SaveInv, NEW p \in Pids, Load(p) \/ LoadBroken(p)
  PROVE  SaveInv'
<1>0. loads[p] # <<>> /\ loads[p] \in Seq(Leaves)
  BY DEF Load, LoadBroken, SaveInv, Types
<1>1. CASE Load(p)
  BY <1>0, <1>1, ContinueKeeps DEF Load, SaveInv, Types, fileVars
<1>2. CASE LoadBroken(p)
  <2>1. Head(loads[p]) \in Leaves
    BY <1>0
  <2> QED
    BY <1>2, <2>1, DefaultSaves, SavingKeeps DEF LoadBroken, SaveInv, Types, fileVars
<1> QED
  BY <1>1, <1>2

LEMMA SaveStepSaves ==
  ASSUME SaveInv, NEW p \in Pids, SaveStep(p)
  PROVE  SaveInv'
<1>0. save[p].leaf \in Leaves
  BY SaveForm DEF SaveInv, Types
<1>1. CASE Write(p)
  BY <1>0, <1>1 DEF Write, SetTemp, Temp, SaveInv, Types, Stages
<1>2. CASE WriteFails(p)
  BY <1>2, ReturnKeeps DEF WriteFails, SaveInv, Types, fileVars
<1>3. CASE Rename(p)
  BY <1>0, <1>3 DEF Rename, SetTemp, Temp, SaveInv, Types, Stages
<1>4. CASE RenameFails(p)
  BY <1>0, <1>4, ReturnKeeps DEF RenameFails, SetTemp, SaveInv, Types
<1>5. CASE Flush(p)
  BY <1>5, ReturnKeeps DEF Flush, SaveInv, Types
<1> QED
  BY <1>1, <1>2, <1>3, <1>4, <1>5 DEF SaveStep

LEMMA GoneSaves ==
  ASSUME SaveInv, NEW p \in Pids, Gone(p)
  PROVE  SaveInv'
  BY SaveForm, NoSaveGood, SomeLoads
  DEF Gone, SaveInv, Types, Stages, Changes, Temp, Leftover

LEMMA PowerSaves ==
  ASSUME SaveInv, PowerLoss
  PROVE  SaveInv'
<1>1. temp' \in [Leaves -> [Pids -> {"none", "cached", "safe", "left"}]]
  <2>1. PICK left \in SUBSET (Leaves \X Pids) :
          temp' = [l \in Leaves |-> [p \in Pids |->
                     IF <<l, p>> \in left THEN Leftover(temp[l][p]) ELSE "none"]]
    BY DEF PowerLoss
  <2> QED
    BY <2>1 DEF Leftover
<1> QED
  BY <1>1, NoSaveGood, SomeLoads DEF PowerLoss, SaveInv, Types, Stages, Changes, Temp

LEMMA SaveNext ==
  ASSUME SaveInv, [ConfigNext]_configVars
  PROVE  SaveInv'
<1>1. CASE UNCHANGED configVars
  BY <1>1 DEF configVars, fileVars, procVars, uiVars, SaveInv, Types, Temp
<1>2. ASSUME NEW p \in Pids, ExitUi(p) \/ Kill(p)
      PROVE  SaveInv'
  BY <1>2, GoneSaves DEF ExitUi, Kill
<1> QED
  BY <1>1, <1>2, StartSaves, GestureSaves, LoadSaves, SaveStepSaves, PowerSaves
  DEF ConfigNext

\* Every value on its way to a file is one the firmware can show, and what is
\* renamed over a file has been flushed (atomic_write_config).
THEOREM AlwaysSaveInv == ConfigSpec => []SaveInv
  BY SaveInit, SaveNext, PTL DEF ConfigSpec

-------------------------------------------------------------------------------
\* ConfStore and CfwConfig read the same ConfFile.
LEMMA SameFile ==
  /\ Store!Leaves = Leaves
  /\ Store!Good = Good
  /\ \A v : Store!Exact(v) = Exact(v)
  /\ \A l : Store!Contents(l) = Contents(l)
<1>0. \A m : Store!Cardinality(m) = Cardinality(m)
  BY DEF Store!Cardinality, Cardinality
<1>1. Store!Leaves = Leaves /\ Store!Good = Good
  BY <1>0 DEF Store!Leaves, Leaves, Store!Good, Good, Store!valid_mask, valid_mask
<1>2. \A v : Store!Exact(v) = Exact(v)
  BY DEF Store!Exact, Exact
<1>3. Store!Values = Values
  BY DEF Store!Values, Values
<1>4. Store!Absent = Absent /\ Store!Garbage = Garbage
  BY DEF Store!Absent, Absent, Store!Garbage, Garbage
<1>5. \A l : Store!Contents(l) = Contents(l)
  BY <1>3, <1>4, Zenon DEF Store!Contents, Contents
<1> QED
  BY <1>1, <1>2, <1>5

\* A step of a process is one of the store's, or leaves it alone.
LEMMA StoreStep ==
  ASSUME SaveInv, [ConfigNext]_configVars
  PROVE  [Store!Next]_<<conf, disk>>
<1>1. CASE UNCHANGED configVars
  BY <1>1 DEF configVars, fileVars
<1>2. CASE PowerLoss
  BY <1>2, SameFile DEF PowerLoss, Store!Next, Store!PowerLoss
<1>3. ASSUME NEW p \in Pids, Rename(p)
      PROVE  Store!Next
  <2>1. save[p].leaf \in Leaves /\ save[p].value \in Good[save[p].leaf]
    BY SaveForm DEF SaveInv, Types
  <2>2. OnDisk(p) = Exact(save[p].value)
    BY <1>3 DEF Rename, SaveInv, OnDisk
  <2>3. Store!Save(save[p].leaf, save[p].value)
    BY <1>3, <2>1, <2>2, SameFile DEF Rename, Store!Save
  <2> QED
    BY <2>1, <2>3, SameFile DEF Store!Next
<1>4. ASSUME NEW p \in Pids, Flush(p)
      PROVE  [Store!Next]_<<conf, disk>>
  BY <1>4, SameFile DEF Flush, Store!Next, Store!Flush
<1>5. ASSUME NEW p \in Pids, Start(p)
      PROVE  UNCHANGED <<conf, disk>>
  BY <1>5 DEF Start, StartUi, ShowCommand, LauncherSet, ThemeSet, fileVars
<1>6. ASSUME NEW p \in Pids, handle_gesture(p)
      PROVE  UNCHANGED <<conf, disk>>
  BY <1>6 DEF handle_gesture, handle_main_tap, handle_about_tap, handle_back,
              go_to_page, handle_launcher_tap, handle_appearance_tap, fileVars
<1>7. ASSUME NEW p \in Pids,
             Load(p) \/ LoadBroken(p) \/ Write(p) \/ WriteFails(p) \/ RenameFails(p)
      PROVE  UNCHANGED <<conf, disk>>
  BY <1>7 DEF Load, LoadBroken, Write, WriteFails, RenameFails, fileVars
<1>8. ASSUME NEW p \in Pids, ExitUi(p) \/ Kill(p)
      PROVE  UNCHANGED <<conf, disk>>
  BY <1>8 DEF ExitUi, Kill, Gone
<1> QED
  BY <1>1, <1>2, <1>3, <1>4, <1>5, <1>6, <1>7, <1>8 DEF ConfigNext, SaveStep

\* The processes of r1-cfw-ui implement the store (ConfStore): seen from
\* outside, whole files with values the firmware can show replace one another,
\* through every race, failed save, kill and power loss.
THEOREM ImplementsStore == ConfigSpec => StoreSpec
<1>1. ConfigInit => Store!Init
  BY SameFile DEF ConfigInit, Store!Init
<1> QED
  BY <1>1, AlwaysSaveInv, StoreStep, PTL DEF ConfigSpec, StoreSpec, Store!Spec

-------------------------------------------------------------------------------
(* The screen. *)

\* The UI has still to load file l for the screen.
Pending(p, l) == change[p] = Nothing /\ \E i \in 1 .. Len(loads[p]) : loads[p][i] = l

SavePoints == {"write", "rename", "flush"}
SavesTap(p) == at[p] \in SavePoints /\ ~Healing(p)

\* What row l is to show: a save that has made the file is still to be taken over.
Due(p, l) == IF at[p] = "flush" /\ ~Healing(p) /\ save[p].leaf = l
             THEN save[p].value ELSE shown[l]

\* Each row of the UI's screen is true, or will be when it waits again.
RowsOK(p) ==
  \A l \in Leaves : foreign[l] \/ Pending(p, l) \/ Due(p, l) = Loaded(l, conf[l])

\* Replacing a broken file changes nothing for whoever loads it.
HealOK(p) ==
  Healing(p) /\ at[p] \in SavePoints =>
    LET l == Head(loads[p]) IN
      /\ save[p] = [leaf |-> l, value |-> Default[l]]
      /\ foreign[l] \/ Loaded(l, conf[l]) = Default[l]

\* The change asked for flips the row on show, and so does its save.
TapOK(p) ==
  change[p] # Nothing =>
    /\ change[p].on <=> change[p].tile \notin shown["launcher"]
    /\ SavesTap(p) => /\ save[p].leaf = "launcher"
                      /\ change[p].tile \in save[p].value <=> change[p].on

UiOK(p) == RowsOK(p) /\ HealOK(p) /\ TapOK(p)

\* A process at rest has nothing left to do.
RestOK(p) ==
  /\ kind[p] = "none" => at[p] = "idle"
  /\ at[p] = "idle" => loads[p] = <<>> /\ change[p] = Nothing

ScreenTypes ==
  /\ conf = [l \in Leaves |-> conf[l]]
  /\ shown = [l \in Leaves |-> shown[l]]
  /\ foreign \in [Leaves -> BOOLEAN]

ScreenInv ==
  /\ SaveInv
  /\ ScreenTypes
  /\ \A p \in Pids : RestOK(p)
  /\ \A p \in Pids : kind[p] = "ui" => UiOK(p)
  /\ \A p, q \in Pids : kind[p] = "ui" /\ kind[q] = "ui" => p = q

-------------------------------------------------------------------------------
Others(p) ==
  \A q \in Pids \ {p} :
    /\ kind'[q] = kind[q] /\ at'[q] = at[q] /\ loads'[q] = loads[q]
    /\ change'[q] = change[q] /\ save'[q] = save[q]

\* A process that is not the UI moves: it leaves the screen alone, and what it
\* writes is foreign to the UI.  Or the UI has ended.
LEMMA CommandKeeps ==
  ASSUME ScreenInv, SaveInv', ScreenTypes', NEW p \in Pids,
         kind'[p] # "ui", RestOK(p)', Others(p),
         \/ kind[p] = "ui"
         \/ /\ shown' = shown
            /\ \A l \in Leaves : foreign'[l] \/ (foreign'[l] = foreign[l] /\ conf'[l] = conf[l])
  PROVE  ScreenInv'
<1>1. \A q \in Pids : RestOK(q)'
  BY DEF ScreenInv, RestOK, Others
<1>2. ASSUME NEW q \in Pids, kind'[q] = "ui"
      PROVE  UiOK(q)'
  <2>1. q # p /\ kind[q] = "ui" /\ kind[p] # "ui" /\ UiOK(q)
    BY <1>2 DEF ScreenInv, Others
  <2>2. shown' = shown
    BY <2>1
  <2>3. /\ at'[q] = at[q] /\ loads'[q] = loads[q]
        /\ change'[q] = change[q] /\ save'[q] = save[q]
    BY <2>1 DEF Others
  <2>4. \A l \in Leaves : (foreign[l] => foreign'[l]) /\ (foreign'[l] \/ conf'[l] = conf[l])
    BY <2>1
  <2>5. RowsOK(q)'
    <3> SUFFICES ASSUME NEW l \in Leaves
                 PROVE  foreign'[l] \/ Pending(q, l)' \/ Due(q, l)' = Loaded(l, conf'[l])
      BY DEF RowsOK
    <3>1. Pending(q, l)' = Pending(q, l) /\ Due(q, l)' = Due(q, l)
      BY <2>2, <2>3 DEF Pending, Due, Healing
    <3>2. foreign[l] \/ Pending(q, l) \/ Due(q, l) = Loaded(l, conf[l])
      BY <2>1 DEF UiOK, RowsOK
    <3> QED
      BY <3>1, <3>2, <2>4
  <2>6. HealOK(q)'
    <3>1. Healing(q) => Head(loads[q]) \in Leaves
      BY DEF Healing, ScreenInv, SaveInv, Types
    <3> QED
      BY <2>1, <2>3, <2>4, <3>1 DEF UiOK, HealOK, Healing
  <2>7. TapOK(q)'
    BY <2>1, <2>2, <2>3 DEF UiOK, TapOK, SavesTap, Healing
  <2> QED
    BY <2>5, <2>6, <2>7 DEF UiOK
<1>3. \A q, r \in Pids : kind'[q] = "ui" /\ kind'[r] = "ui" => q = r
  BY DEF ScreenInv, Others
<1> QED
  BY <1>1, <1>2, <1>3 DEF ScreenInv

\* The UI moves: no other process is one.
LEMMA UiKeeps ==
  ASSUME ScreenInv, SaveInv', ScreenTypes', NEW p \in Pids,
         \A q \in Pids \ {p} : kind[q] # "ui",
         RestOK(p)', UiOK(p)', Others(p)
  PROVE  ScreenInv'
<1>1. \A q \in Pids : RestOK(q)'
  BY DEF ScreenInv, RestOK, Others
<1>2. \A q \in Pids : kind'[q] = "ui" => q = p
  BY DEF Others
<1> QED
  BY <1>1, <1>2 DEF ScreenInv

LEMMA OnlyUi ==
  ASSUME ScreenInv, NEW p \in Pids, kind[p] = "ui"
  PROVE  /\ \A q \in Pids \ {p} : kind[q] # "ui"
         /\ UiOK(p)
  BY DEF ScreenInv

\* What is pending besides the first file is pending after it.
LEMMA PendingTail ==
  ASSUME NEW s \in Seq(Leaves), s # <<>>,
         NEW l \in Leaves, l # Head(s), \E i \in 1 .. Len(s) : s[i] = l
  PROVE  Tail(s) # <<>> /\ \E i \in 1 .. Len(Tail(s)) : Tail(s)[i] = l
<1>1. PICK i \in 1 .. Len(s) : s[i] = l
  OBVIOUS
<1>2. i # 1 /\ Head(s) = s[1] /\ Len(Tail(s)) = Len(s) - 1
  BY <1>1
<1>3. i - 1 \in 1 .. Len(Tail(s)) /\ Tail(s)[i - 1] = s[i]
  BY <1>1, <1>2
<1>4. Tail(s) # <<>>
  <2>1. Len(Tail(s)) # 0
    BY <1>2, <1>3
  <2>2. Len(<<>>) = 0
    OBVIOUS
  <2> QED
    BY <2>1, <2>2, Zenon
<1> QED
  BY <1>1, <1>3, <1>4, Zenon

-------------------------------------------------------------------------------
LEMMA ScreenInit == ConfigInit => ScreenInv
<1> SUFFICES ASSUME ConfigInit PROVE ScreenInv
  OBVIOUS
<1>1. ScreenTypes
  BY DEF ConfigInit, ScreenTypes, Default, Leaves
<1>2. \A p \in Pids : RestOK(p) /\ kind[p] # "ui"
  BY DEF ConfigInit, RestOK
<1> QED
  BY <1>1, <1>2, SaveInit DEF ScreenInv

\* Both files are pending after Refresh.
LEMMA RefreshPending ==
  \A l \in Leaves : \E i \in 1 .. Len(Refresh) : Refresh[i] = l
  BY DEF Refresh, Leaves

LEMMA TaskFrames ==
  ASSUME SaveInv, NEW p \in Pids, NEW ls, NEW c, Task(p, ls, c),
         NEW k, kind' = [kind EXCEPT ![p] = k]
  PROVE  /\ Others(p)
         /\ at'[p] = "load" /\ loads'[p] = ls /\ change'[p] = c /\ kind'[p] = k
  BY DEF Task, Others, SaveInv, Types

\* A UI that is to load both files shows nothing stale.
LEMMA RefreshKeeps ==
  ASSUME ScreenInv, SaveInv', NEW p \in Pids,
         \A q \in Pids \ {p} : kind[q] # "ui",
         kind' = [kind EXCEPT ![p] = "ui"],
         Task(p, Refresh, Nothing),
         UNCHANGED <<conf, shown, foreign>>
  PROVE  ScreenInv'
<1>1. /\ Others(p) /\ at'[p] = "load" /\ loads'[p] = Refresh
      /\ change'[p] = Nothing /\ kind'[p] = "ui"
  BY TaskFrames DEF ScreenInv
<1>2. RestOK(p)' /\ HealOK(p)' /\ TapOK(p)'
  BY <1>1 DEF RestOK, HealOK, TapOK, SavePoints
<1>3. RowsOK(p)'
  BY <1>1, RefreshPending DEF RowsOK, Pending
<1>4. ScreenTypes'
  BY DEF ScreenInv, ScreenTypes
<1> QED
  BY <1>1, <1>2, <1>3, <1>4, UiKeeps DEF UiOK

LEMMA StartScreen ==
  ASSUME ScreenInv, SaveInv', NEW p \in Pids, Start(p)
  PROVE  ScreenInv'
<1>0. kind[p] = "none"
  BY DEF Start, StartUi, ShowCommand, LauncherSet, ThemeSet, Running
<1>1. CASE StartUi(p)
  BY <1>1, RefreshKeeps DEF StartUi, Running, fileVars
<1>2. ASSUME NEW ls, NEW c, Running(p, "command"), Task(p, ls, c),
             UNCHANGED <<fileVars, uiVars>>
      PROVE  ScreenInv'
  <2>1. Others(p) /\ at'[p] = "load" /\ kind'[p] = "command"
    BY <1>2, TaskFrames DEF ScreenInv, Running
  <2>2. RestOK(p)' /\ ScreenTypes'
    BY <1>2, <2>1 DEF RestOK, ScreenInv, ScreenTypes, fileVars, uiVars
  <2> QED
    BY <1>2, <2>1, <2>2, CommandKeeps DEF fileVars, uiVars
<1>3. ASSUME NEW v \in Themes, ThemeSet(p, v)
      PROVE  ScreenInv'
  <2>1. Others(p) /\ at'[p] = "write" /\ kind'[p] = "command"
    BY <1>3 DEF ThemeSet, Running, Saving, Others, ScreenInv, SaveInv, Types
  <2>2. RestOK(p)' /\ ScreenTypes'
    BY <1>3, <2>1 DEF RestOK, ScreenInv, ScreenTypes, fileVars, uiVars, ThemeSet
  <2> QED
    BY <1>3, <2>1, <2>2, CommandKeeps DEF fileVars, uiVars, ThemeSet
<1> QED
  BY <1>1, <1>2, <1>3 DEF Start, ShowCommand, LauncherSet

LEMMA GestureScreen ==
  ASSUME ScreenInv, SaveInv', NEW p \in Pids, handle_gesture(p)
  PROVE  ScreenInv'
<1>0. kind[p] = "ui" /\ at[p] = "idle"
  BY DEF handle_gesture, handle_main_tap, handle_about_tap, handle_back,
         handle_launcher_tap, handle_appearance_tap, Waiting
<1>a. /\ \A q \in Pids \ {p} : kind[q] # "ui"
      /\ UiOK(p) /\ loads[p] = <<>> /\ change[p] = Nothing
      /\ kind = [kind EXCEPT ![p] = "ui"]
  BY <1>0, OnlyUi DEF ScreenInv, RestOK, SaveInv, Types
<1>b. \A l \in Leaves : foreign[l] \/ shown[l] = Loaded(l, conf[l])
  BY <1>0, <1>a DEF UiOK, RowsOK, Pending, Due
<1>1. ASSUME NEW s, go_to_page(p, s)
      PROVE  ScreenInv'
  BY <1>a, <1>1, RefreshKeeps DEF go_to_page, fileVars
<1>2. ASSUME NEW t \in Tiles, handle_launcher_tap(p, t)
      PROVE  ScreenInv'
  <2> DEFINE c == [tile |-> t, on |-> TapDirection(t)]
  <2>1. Task(p, <<"launcher">>, c) /\ UNCHANGED <<conf, kind, shown, foreign>>
    BY <1>2 DEF handle_launcher_tap, fileVars, uiVars
  <2>2. /\ Others(p) /\ at'[p] = "load" /\ loads'[p] = <<"launcher">>
        /\ change'[p] = c /\ kind'[p] = "ui"
    BY <1>a, <2>1, TaskFrames DEF ScreenInv
  <2>3. c # Nothing
    <3>1. TapDirection(t) \in BOOLEAN
      BY DEF TapDirection
    <3>2. c \in [tile : Tiles, on : BOOLEAN]
      BY <3>1
    <3> QED
      BY <3>2, NothingAssumption
  <2>4. TapOK(p)'
    <3>1. change'[p].tile = t /\ change'[p].on = TapDirection(t)
      BY <2>2
    <3>2. ~SavesTap(p)'
      BY <2>2 DEF SavesTap, SavePoints
    <3>3. TapDirection(t) <=> t \notin shown'["launcher"]
      BY <2>1 DEF TapDirection
    <3> HIDE DEF c
    <3> QED
      BY <3>1, <3>2, <3>3, Zenon DEF TapOK
  <2>5. RestOK(p)' /\ HealOK(p)'
    BY <2>1, <2>2 DEF RestOK, HealOK, SavePoints
  <2>6. RowsOK(p)'
    BY <1>b, <2>1, <2>2 DEF RowsOK, Due
  <2>7. ScreenTypes'
    BY <2>1 DEF ScreenInv, ScreenTypes
  <2> QED
    BY <1>a, <2>2, <2>4, <2>5, <2>6, <2>7, UiKeeps DEF UiOK
<1>3. ASSUME NEW v \in Themes, handle_appearance_tap(p, v)
      PROVE  ScreenInv'
  <2>1. /\ Others(p) /\ at'[p] = "write" /\ loads'[p] = <<>>
        /\ change'[p] = Nothing /\ kind'[p] = "ui"
        /\ UNCHANGED <<conf, shown, foreign>>
    BY <1>0, <1>a, <1>3
    DEF handle_appearance_tap, Saving, Others, ScreenInv, SaveInv, Types, fileVars, uiVars
  <2>2. RestOK(p)' /\ HealOK(p)' /\ TapOK(p)'
    BY <2>1 DEF RestOK, HealOK, Healing, TapOK
  <2>3. RowsOK(p)'
    BY <1>b, <2>1 DEF RowsOK, Due
  <2>4. ScreenTypes'
    BY <2>1 DEF ScreenInv, ScreenTypes
  <2> QED
    BY <1>a, <2>1, <2>2, <2>3, <2>4, UiKeeps DEF UiOK
<1> QED
  BY <1>1, <1>2, <1>3
  DEF handle_gesture, handle_main_tap, handle_about_tap, handle_back

LEMMA GoneScreen ==
  ASSUME ScreenInv, SaveInv', NEW p \in Pids, Gone(p)
  PROVE  ScreenInv'
<1>1. Others(p) /\ kind'[p] = "none" /\ RestOK(p)'
  BY DEF Gone, Others, RestOK, ScreenInv, SaveInv, Types
<1>2. ScreenTypes'
  BY DEF Gone, ScreenInv, ScreenTypes, uiVars, Default, Leaves
<1> QED
  BY <1>1, <1>2, CommandKeeps DEF Gone, uiVars

LEMMA PowerScreen ==
  ASSUME ScreenInv, SaveInv', PowerLoss
  PROVE  ScreenInv'
<1>1. \A p \in Pids : RestOK(p)' /\ kind'[p] # "ui"
  BY DEF PowerLoss, RestOK
<1>2. ScreenTypes'
  BY DEF PowerLoss, ScreenTypes, Default, Leaves
<1> QED
  BY <1>1, <1>2 DEF ScreenInv

-------------------------------------------------------------------------------
(* Loading and saving. *)

LEMMA RestFrames ==
  ASSUME SaveInv, NEW p \in Pids, Rest(p)
  PROVE  /\ Others(p)
         /\ at'[p] = "idle" /\ loads'[p] = <<>> /\ change'[p] = Nothing
         /\ kind'[p] = IF kind[p] = "ui" THEN "ui" ELSE "none"
  BY DEF Rest, Others, SaveInv, Types

\* What Continue does to its process.
LEMMA ContinueFrames ==
  ASSUME SaveInv, NEW p \in Pids, NEW v, Continue(p, v)
  PROVE  /\ Others(p)
         /\ kind[p] = "ui" => kind'[p] = "ui"
         /\ kind[p] # "ui" => kind'[p] # "ui" /\ shown' = shown
         /\ kind'[p] = "none" => at'[p] = "idle" \/ kind[p] = "none"
         /\ at'[p] = "idle" => loads'[p] = <<>> /\ change'[p] = Nothing
<1>1. CASE Rest(p)
  BY <1>1, RestFrames DEF Continue
<1>2. CASE /\ at' = [at EXCEPT ![p] = "load"]
           /\ loads' = [loads EXCEPT ![p] = Tail(loads[p])]
           /\ save' = [save EXCEPT ![p] = NoSave]
           /\ UNCHANGED <<kind, change>>
  BY <1>2 DEF Continue, Others, SaveInv, Types
<1>3. CASE /\ Saving(p, "launcher", Applied(change[p], v))
           /\ loads' = [loads EXCEPT ![p] = <<>>]
           /\ UNCHANGED <<kind, change>>
  BY <1>3 DEF Continue, Saving, Others, SaveInv, Types
<1> QED
  BY <1>1, <1>2, <1>3 DEF Continue

\* Continue, with what a load returns or with the default of a file it healed,
\* keeps the rows of the UI true.
LEMMA ContinueUi ==
  ASSUME ScreenInv, NEW p \in Pids, kind[p] = "ui", at[p] # "idle",
         loads[p] # <<>>, NEW v, Continue(p, v), conf' = conf,
         LET l == Head(loads[p]) IN
           /\ v = Loaded(l, conf[l]) \/ foreign'[l]
           /\ \/ foreign' = foreign
              \/ change[p] = Nothing /\ foreign' = [foreign EXCEPT ![l] = FALSE]
  PROVE  UiOK(p)' /\ ScreenTypes'
<1> DEFINE l == Head(loads[p])
<1> DEFINE more == Tail(loads[p])
<1>1. loads[p] \in Seq(Leaves) /\ l \in Leaves /\ more \in Seq(Leaves)
  BY DEF ScreenInv, SaveInv, Types
<1>2. UiOK(p) /\ Healing(p) /\ ScreenTypes /\ SaveInv
  BY DEF ScreenInv, Healing
<1>3. \A k \in Leaves : Due(p, k) = shown[k]
  BY <1>2 DEF Due
<1>4. shown' = IF change[p] = Nothing THEN [shown EXCEPT ![l] = v] ELSE shown
  BY DEF Continue
<1>5. ScreenTypes'
  BY <1>1, <1>2, <1>4 DEF ScreenTypes
<1>6. \A k \in Leaves : k # l => foreign'[k] = foreign[k] /\ shown'[k] = shown[k]
  BY <1>1, <1>2, <1>4 DEF ScreenTypes
<1>7. CASE change[p] = Nothing
  <2>1. foreign'[l] \/ shown'[l] = Loaded(l, conf'[l])
    BY <1>1, <1>2, <1>4, <1>7 DEF ScreenTypes
  <2>2. ASSUME NEW k \in Leaves, k # l
        PROVE  \/ foreign'[k] \/ shown'[k] = Loaded(k, conf'[k])
               \/ more # <<>> /\ \E i \in 1 .. Len(more) : more[i] = k
    <3>1. foreign[k] \/ Pending(p, k) \/ shown[k] = Loaded(k, conf[k])
      BY <1>2, <1>3 DEF UiOK, RowsOK
    <3>2. Pending(p, k) => more # <<>> /\ \E i \in 1 .. Len(more) : more[i] = k
      BY <1>1, <2>2, PendingTail DEF Pending
    <3> QED
      BY <1>6, <2>2, <3>1, <3>2
  <2>3. CASE /\ at' = [at EXCEPT ![p] = "load"]
             /\ loads' = [loads EXCEPT ![p] = more]
             /\ UNCHANGED change
    <3>1. at'[p] = "load" /\ loads'[p] = more /\ change'[p] = Nothing
      BY <1>2, <1>7, <2>3 DEF SaveInv, Types
    <3> HIDE DEF more, l
    <3>2. RowsOK(p)'
      BY <2>1, <2>2, <3>1 DEF RowsOK, Pending, Due
    <3> QED
      BY <1>5, <3>1, <3>2 DEF UiOK, HealOK, TapOK, SavePoints
  <2>4. CASE more = <<>> /\ Rest(p)
    <3>1. at'[p] = "idle" /\ loads'[p] = <<>> /\ change'[p] = Nothing
      BY <1>2, <2>4, RestFrames
    <3> HIDE DEF more, l
    <3>2. RowsOK(p)'
      BY <2>1, <2>2, <2>4, <3>1 DEF RowsOK, Due
    <3> QED
      BY <1>5, <3>1, <3>2 DEF UiOK, HealOK, TapOK, SavePoints
  <2> QED
    BY <1>7, <2>3, <2>4 DEF Continue
<1>8. CASE change[p] # Nothing
  <2>1. shown' = shown /\ foreign' = foreign
    BY <1>4, <1>8
  <2>2. \A k \in Leaves : foreign'[k] \/ shown'[k] = Loaded(k, conf'[k])
    BY <1>2, <1>3, <1>8, <2>1 DEF UiOK, RowsOK, Pending
  <2>3. CASE /\ at' = [at EXCEPT ![p] = "load"]
             /\ UNCHANGED change
    <3>1. at'[p] = "load" /\ change'[p] = change[p]
      BY <1>2, <2>3 DEF SaveInv, Types
    <3>2. RowsOK(p)' /\ HealOK(p)'
      BY <2>2, <3>1 DEF RowsOK, Due, HealOK, SavePoints
    <3>3. TapOK(p)'
      BY <1>2, <2>1, <3>1 DEF UiOK, TapOK, SavesTap, SavePoints
    <3> QED
      BY <1>5, <3>2, <3>3 DEF UiOK
  <2>4. CASE Rest(p)
    <3>1. at'[p] = "idle" /\ change'[p] = Nothing
      BY <1>2, <2>4, RestFrames
    <3> QED
      BY <1>5, <2>2, <3>1 DEF UiOK, RowsOK, Due, HealOK, TapOK, SavePoints
  <2>5. CASE /\ ~Refused(change[p], v)
             /\ Saving(p, "launcher", Applied(change[p], v))
             /\ loads' = [loads EXCEPT ![p] = <<>>]
             /\ UNCHANGED change
    <3>1. /\ at'[p] = "write" /\ change'[p] = change[p] /\ loads'[p] = <<>>
          /\ save'[p] = [leaf |-> "launcher", value |-> Applied(change[p], v)]
      BY <1>2, <2>5 DEF Saving, SaveInv, Types
    <3>2. RowsOK(p)' /\ HealOK(p)'
      BY <2>2, <3>1 DEF RowsOK, Due, HealOK, Healing
    <3>3. change[p].tile \in Applied(change[p], v) <=> change[p].on
      BY DEF Applied
    <3>4. /\ save'[p].leaf = "launcher"
          /\ change'[p].tile \in save'[p].value <=> change'[p].on
      BY <3>1, <3>3
    <3>5. change'[p].on <=> change'[p].tile \notin shown'["launcher"]
      BY <1>2, <1>8, <2>1, <3>1 DEF UiOK, TapOK
    <3> QED
      BY <1>5, <3>2, <3>4, <3>5 DEF UiOK, TapOK
  <2> QED
    BY <2>3, <2>4, <2>5 DEF Continue
<1> QED
  BY <1>7, <1>8

\* Continue keeps the invariant, whichever process runs it.
LEMMA ContinueScreen ==
  ASSUME ScreenInv, SaveInv', NEW p \in Pids, kind[p] # "none", at[p] # "idle",
         loads[p] # <<>>, NEW v, Continue(p, v), conf' = conf,
         LET l == Head(loads[p]) IN
           kind[p] = "ui" =>
             /\ v = Loaded(l, conf[l]) \/ foreign'[l]
             /\ \/ foreign' = foreign
                \/ change[p] = Nothing /\ foreign' = [foreign EXCEPT ![l] = FALSE],
         kind[p] # "ui" => foreign' = foreign
  PROVE  ScreenInv'
<1>1. Others(p) /\ RestOK(p)'
  BY ContinueFrames DEF ScreenInv, RestOK
<1>2. CASE kind[p] = "ui"
  BY <1>1, <1>2, OnlyUi, ContinueUi, UiKeeps
<1>3. CASE kind[p] # "ui"
  <2>1. kind'[p] # "ui" /\ shown' = shown
    BY <1>3, ContinueFrames DEF ScreenInv
  <2>2. ScreenTypes'
    BY <1>3, <2>1 DEF ScreenInv, ScreenTypes
  <2> QED
    BY <1>1, <1>3, <2>1, <2>2, CommandKeeps
<1> QED
  BY <1>2, <1>3

LEMMA LoadScreen ==
  ASSUME ScreenInv, SaveInv', NEW p \in Pids, Load(p)
  PROVE  ScreenInv'
<1> DEFINE l == Head(loads[p])
<1>1. /\ at[p] = "load" /\ loads[p] # <<>> /\ kind[p] # "none" /\ l \in Leaves
      /\ foreign \in [Leaves -> BOOLEAN]
  BY DEF Load, ScreenInv, SaveInv, Types, RestOK, ScreenTypes
<1>2. Continue(p, Loaded(l, conf[l])) /\ conf' = conf
  BY DEF Load, fileVars
<1>3. /\ kind[p] # "ui" => foreign' = foreign
      /\ kind[p] = "ui" =>
           \/ foreign' = foreign
           \/ change[p] = Nothing /\ foreign' = [foreign EXCEPT ![l] = FALSE]
  BY DEF Load, Refreshed
<1> QED
  BY <1>1, <1>2, <1>3, ContinueScreen

LEMMA LoadBrokenScreen ==
  ASSUME ScreenInv, SaveInv', NEW p \in Pids, LoadBroken(p)
  PROVE  ScreenInv'
<1> DEFINE l == Head(loads[p])
<1>1. /\ at[p] = "load" /\ loads[p] # <<>> /\ kind[p] # "none" /\ l \in Leaves
      /\ ScreenTypes /\ SaveInv
  BY DEF LoadBroken, ScreenInv, SaveInv, Types, RestOK
<1>2. /\ Others(p) /\ at'[p] = "write" /\ loads'[p] = loads[p]
      /\ change'[p] = change[p] /\ kind' = kind
      /\ save'[p] = [leaf |-> l, value |-> Default[l]]
      /\ conf' = conf /\ shown' = shown
  BY <1>1 DEF LoadBroken, Saving, Others, SaveInv, Types, fileVars
<1>3. Loaded(l, conf[l]) = Default[l]
  BY DEF LoadBroken, Broken, Loaded
<1>4. RestOK(p)' /\ ScreenTypes'
  BY <1>1, <1>2 DEF RestOK, ScreenTypes, LoadBroken, Refreshed
<1>5. CASE kind[p] = "ui"
  <2>1. UiOK(p) /\ \A q \in Pids \ {p} : kind[q] # "ui"
    BY <1>5, OnlyUi
  <2>2. ASSUME NEW k \in Leaves
        PROVE  foreign'[k] \/ Pending(p, k)' \/ shown[k] = Loaded(k, conf[k])
    <3>1. foreign[k] \/ Pending(p, k) \/ shown[k] = Loaded(k, conf[k])
      BY <1>1, <2>1 DEF UiOK, RowsOK, Due
    <3>2. Pending(p, k)' = Pending(p, k)
      BY <1>2 DEF Pending
    <3>3. k # l \/ change[p] # Nothing => foreign'[k] = foreign[k]
      BY <1>1 DEF LoadBroken, Refreshed, ScreenTypes
    <3>4. k = l /\ change[p] = Nothing => Pending(p, k)
      BY <1>1 DEF Pending, SaveInv, Types
    <3> QED
      BY <3>1, <3>2, <3>3, <3>4
  <2>3. RowsOK(p)'
    BY <1>2, <2>2 DEF RowsOK, Due
  <2>4. HealOK(p)'
    BY <1>2, <1>3 DEF HealOK
  <2>5. TapOK(p)'
    BY <1>1, <1>2, <2>1 DEF UiOK, TapOK, SavesTap, Healing
  <2> QED
    BY <1>2, <1>4, <2>1, <2>3, <2>4, <2>5, UiKeeps DEF UiOK
<1>6. CASE kind[p] # "ui"
  <2>1. foreign' = foreign
    BY <1>6 DEF LoadBroken, Refreshed
  <2> QED
    BY <1>2, <1>4, <1>6, <2>1, CommandKeeps
<1> QED
  BY <1>5, <1>6

\* A save returns.
LEMMA ReturnScreen ==
  ASSUME ScreenInv, SaveInv', NEW p \in Pids, NEW ok \in BOOLEAN, Return(p, ok),
         at[p] \in SavePoints, ok <=> at[p] = "flush",
         UNCHANGED <<conf, foreign>>
  PROVE  ScreenInv'
<1>1. /\ kind[p] # "none" /\ at[p] # "idle" /\ ScreenTypes /\ SaveInv
      /\ save[p].leaf \in Leaves
  BY SaveForm DEF ScreenInv, RestOK, SavePoints, SaveInv, Types
<1>2. CASE Healing(p) /\ Continue(p, Default[save[p].leaf])
  <2> DEFINE l == Head(loads[p])
  <2>1. kind[p] = "ui" => save[p].leaf = l /\ (foreign[l] \/ Loaded(l, conf[l]) = Default[l])
    <3>1. kind[p] = "ui" => HealOK(p)
      BY OnlyUi DEF UiOK
    <3>2. HealOK(p) => save[p] = [leaf |-> l, value |-> Default[l]]
                       /\ (foreign[l] \/ Loaded(l, conf[l]) = Default[l])
      BY <1>2 DEF HealOK
    <3> QED
      BY <3>1, <3>2
  <2> HIDE DEF l
  <2>2. kind[p] = "ui" => Default[save[p].leaf] = Loaded(l, conf[l]) \/ foreign'[l]
    BY <2>1
  <2> QED
    BY <1>1, <1>2, <2>2, ContinueScreen DEF Healing, l
<1>3. CASE ~Healing(p) /\ shown' = ShownAfter(p, ok) /\ Rest(p)
  <2>1. /\ Others(p) /\ at'[p] = "idle" /\ loads'[p] = <<>> /\ change'[p] = Nothing
        /\ kind'[p] = IF kind[p] = "ui" THEN "ui" ELSE "none"
    BY <1>1, <1>3, RestFrames
  <2>2. ScreenTypes' /\ RestOK(p)'
    BY <1>1, <1>3, <2>1 DEF ScreenTypes, ShownAfter, RestOK
  <2>3. CASE kind[p] = "ui"
    <3>1. UiOK(p) /\ \A q \in Pids \ {p} : kind[q] # "ui"
      BY <2>3, OnlyUi
    <3>2. ASSUME NEW k \in Leaves
          PROVE  shown'[k] = Due(p, k)
      BY <1>1, <1>3, <2>3 DEF ShownAfter, Due, ScreenTypes
    <3>3. \A k \in Leaves : foreign[k] \/ Due(p, k) = Loaded(k, conf[k])
      BY <1>3, <3>1 DEF UiOK, RowsOK, Pending, Healing
    <3>4. RowsOK(p)'
      <4>1. \A k \in Leaves : Due(p, k)' = shown'[k]
        BY <2>1 DEF Due
      <4> QED
        BY <3>2, <3>3, <4>1 DEF RowsOK
    <3>5. HealOK(p)' /\ TapOK(p)'
      BY <2>1 DEF HealOK, TapOK, SavePoints
    <3> QED
      BY <2>1, <2>2, <2>3, <3>1, <3>4, <3>5, UiKeeps DEF UiOK
  <2>4. CASE kind[p] # "ui"
    <3>1. shown' = shown /\ kind'[p] # "ui"
      BY <1>3, <2>1, <2>4 DEF ShownAfter
    <3> QED
      BY <2>1, <2>2, <2>4, <3>1, CommandKeeps
  <2> QED
    BY <2>3, <2>4
<1> QED
  BY <1>2, <1>3 DEF Return

LEMMA WriteScreen ==
  ASSUME ScreenInv, SaveInv', NEW p \in Pids, Write(p)
  PROVE  ScreenInv'
<1>1. /\ kind[p] # "none" /\ at[p] = "write" /\ ScreenTypes /\ SaveInv
      /\ Others(p) /\ at'[p] = "rename"
      /\ UNCHANGED <<conf, kind, loads, change, save, shown, foreign>>
  BY DEF Write, Others, ScreenInv, SaveInv, Types, RestOK, uiVars
<1>2. ScreenTypes' /\ RestOK(p)'
  BY <1>1 DEF ScreenTypes, RestOK
<1>3. CASE kind[p] = "ui"
  <2>1. UiOK(p) /\ \A q \in Pids \ {p} : kind[q] # "ui"
    BY <1>3, OnlyUi
  <2>2. RowsOK(p)' /\ HealOK(p)' /\ TapOK(p)'
    BY <1>1, <2>1
    DEF UiOK, RowsOK, Pending, Due, HealOK, Healing, TapOK, SavesTap, SavePoints
  <2> QED
    BY <1>1, <1>2, <2>1, <2>2, UiKeeps DEF UiOK
<1> QED
  BY <1>1, <1>2, <1>3, CommandKeeps

LEMMA RenameScreen ==
  ASSUME ScreenInv, SaveInv', NEW p \in Pids, Rename(p)
  PROVE  ScreenInv'
<1> DEFINE l == save[p].leaf
<1> DEFINE v == save[p].value
<1>1. /\ kind[p] # "none" /\ at[p] = "rename" /\ ScreenTypes /\ SaveInv
      /\ l \in Leaves /\ v \in Good[l]
      /\ Others(p) /\ at'[p] = "flush"
      /\ UNCHANGED <<kind, loads, change, save, shown>>
  BY SaveForm DEF Rename, Others, ScreenInv, SaveInv, Types, RestOK
<1>2. /\ conf' = [conf EXCEPT ![l] = Exact(v)]
      /\ foreign' = [foreign EXCEPT ![l] = @ \/ kind[p] # "ui"]
  BY DEF Rename
<1>3. Loaded(l, conf'[l]) = v
  BY <1>1, <1>2 DEF Loaded, Accepted, Exact, ScreenTypes
<1>4. ScreenTypes' /\ RestOK(p)'
  BY <1>1, <1>2 DEF ScreenTypes, RestOK
<1>5. CASE kind[p] = "ui"
  <2>1. UiOK(p) /\ \A q \in Pids \ {p} : kind[q] # "ui"
    BY <1>5, OnlyUi
  <2>2. \A k \in Leaves : foreign'[k] = foreign[k] /\ (k # l => conf'[k] = conf[k])
    BY <1>1, <1>2, <1>5 DEF ScreenTypes
  <2>3. ASSUME NEW k \in Leaves
        PROVE  foreign'[k] \/ Pending(p, k)' \/ Due(p, k)' = Loaded(k, conf'[k])
    <3>1. foreign[k] \/ Pending(p, k) \/ shown[k] = Loaded(k, conf[k])
      BY <1>1, <2>1 DEF UiOK, RowsOK, Due
    <3>2. Pending(p, k)' = Pending(p, k)
      BY <1>1 DEF Pending
    <3>3. CASE k # l
      BY <1>1, <2>2, <3>1, <3>2, <3>3 DEF Due
    <3>4. CASE k = l /\ ~Healing(p)
      BY <1>1, <1>3, <3>4 DEF Due, Healing
    <3>5. CASE k = l /\ Healing(p)
      <4>1. v = Default[l] /\ (foreign[l] \/ Loaded(l, conf[l]) = Default[l])
        BY <1>1, <2>1, <3>5 DEF UiOK, HealOK, SavePoints
      <4>2. Due(p, k)' = shown[k]
        BY <1>1, <3>5 DEF Due, Healing
      <4> QED
        BY <1>3, <2>2, <3>1, <3>2, <3>5, <4>1, <4>2
    <3> QED
      BY <3>3, <3>4, <3>5
  <2>4. RowsOK(p)'
    BY <2>3 DEF RowsOK
  <2>5. HealOK(p)'
    <3>1. Healing(p) => Head(loads[p]) = l /\ save[p] = [leaf |-> l, value |-> Default[l]]
      BY <1>1, <2>1 DEF UiOK, HealOK, SavePoints
    <3> QED
      BY <1>1, <1>3, <3>1 DEF HealOK, Healing
  <2>6. TapOK(p)'
    BY <1>1, <2>1 DEF UiOK, TapOK, SavesTap, Healing, SavePoints
  <2> QED
    BY <1>1, <1>4, <2>1, <2>4, <2>5, <2>6, UiKeeps DEF UiOK
<1>6. CASE kind[p] # "ui"
  <2>1. \A k \in Leaves : foreign'[k] \/ (foreign'[k] = foreign[k] /\ conf'[k] = conf[k])
    BY <1>1, <1>2, <1>6 DEF ScreenTypes
  <2> QED
    BY <1>1, <1>4, <1>6, <2>1, CommandKeeps
<1> QED
  BY <1>5, <1>6

LEMMA SaveStepScreen ==
  ASSUME ScreenInv, SaveInv', NEW p \in Pids, SaveStep(p)
  PROVE  ScreenInv'
<1>1. CASE WriteFails(p)
  BY <1>1, ReturnScreen DEF WriteFails, fileVars, SavePoints
<1>2. CASE RenameFails(p)
  BY <1>2, ReturnScreen DEF RenameFails, SavePoints
<1>3. CASE Flush(p)
  BY <1>3, ReturnScreen DEF Flush, SavePoints
<1> QED
  BY <1>1, <1>2, <1>3, WriteScreen, RenameScreen DEF SaveStep

LEMMA ScreenNext ==
  ASSUME ScreenInv, [ConfigNext]_configVars
  PROVE  ScreenInv'
<1>0. SaveInv'
  BY SaveNext DEF ScreenInv
<1>1. CASE UNCHANGED configVars
  <2>1. \A p \in Pids : RestOK(p)' = RestOK(p) /\ UiOK(p)' = UiOK(p)
    BY <1>1 DEF configVars, fileVars, procVars, uiVars, RestOK, UiOK, RowsOK, Pending,
                Due, HealOK, Healing, TapOK, SavesTap
  <2>2. ScreenTypes'
    BY <1>1 DEF configVars, fileVars, uiVars, ScreenInv, ScreenTypes
  <2> QED
    BY <1>0, <1>1, <2>1, <2>2 DEF configVars, procVars, ScreenInv
<1>2. ASSUME NEW p \in Pids, ExitUi(p) \/ Kill(p)
      PROVE  ScreenInv'
  BY <1>0, <1>2, GoneScreen DEF ExitUi, Kill
<1> QED
  BY <1>0, <1>1, <1>2, StartScreen, GestureScreen, LoadScreen, LoadBrokenScreen,
     SaveStepScreen, PowerScreen DEF ConfigNext

\* At every point of a UI's task its rows are true or will be: pending, due or
\* shown already; only what another process wrote is not (r1_cfw_ui.c).
THEOREM AlwaysScreenInv == ConfigSpec => []ScreenInv
  BY ScreenInit, ScreenNext, PTL DEF ConfigSpec

\* What the sidecar UI shows while it waits for a tap is what a load would
\* return, unless another process has written the file since (r1_cfw_ui.c).
THEOREM ScreenMirrorsFile == ConfigSpec => []MirrorsFile
<1>1. ScreenInv => MirrorsFile
  BY DEF ScreenInv, RestOK, UiOK, RowsOK, Pending, Due, MirrorsFile, Waiting
<1> QED
  BY <1>1, AlwaysScreenInv, PTL

-------------------------------------------------------------------------------
ProcessStep(p) ==
  Start(p) \/ handle_gesture(p) \/ Load(p) \/ LoadBroken(p) \/ SaveStep(p)
    \/ ExitUi(p) \/ Kill(p)

\* A step of a process is that process's alone.
LEMMA StepsAlone ==
  ASSUME SaveInv, NEW p \in Pids, ProcessStep(p)
  PROVE  Others(p)
<1>1. ASSUME NEW ok, Return(p, ok) PROVE Others(p)
  BY <1>1, ContinueFrames, RestFrames DEF Return
<1>2. CASE Start(p)
  BY <1>2 DEF Start, StartUi, ShowCommand, LauncherSet, ThemeSet, Running, Task,
              Saving, Others, SaveInv, Types
<1>3. CASE handle_gesture(p)
  BY <1>3 DEF handle_gesture, handle_main_tap, handle_about_tap, handle_back,
              handle_launcher_tap, handle_appearance_tap, go_to_page, Task, Saving,
              Others, SaveInv, Types, uiVars
<1>4. CASE Load(p) \/ LoadBroken(p)
  <2>1. CASE Load(p)
    BY <2>1, ContinueFrames DEF Load
  <2>2. CASE LoadBroken(p)
    BY <2>2 DEF LoadBroken, Saving, Others, SaveInv, Types
  <2> QED
    BY <1>4, <2>1, <2>2
<1>5. CASE SaveStep(p)
  <2>1. CASE Write(p) \/ Rename(p)
    BY <2>1 DEF Write, Rename, Others, SaveInv, Types
  <2> QED
    BY <1>1, <1>5, <2>1 DEF SaveStep, WriteFails, RenameFails, Flush
<1>6. CASE ExitUi(p) \/ Kill(p)
  BY <1>6 DEF ExitUi, Kill, Gone, Others, SaveInv, Types
<1> QED
  BY <1>2, <1>3, <1>4, <1>5, <1>6 DEF ProcessStep

\* A tap on a tile row that succeeds flips the row the user saw, also when
\* another process had changed the file under the UI (r1_cfw_ui.c,
\* handle_launcher_tap).
THEOREM TapsFlipRows == ConfigSpec => TapFlipsRow
<1>1. ASSUME ScreenInv, [ConfigNext]_configVars, NEW p \in Pids,
             at[p] = "flush", change[p] # Nothing, ~Healing(p), kind[p] = "ui",
             at'[p] = "idle", kind'[p] = "ui"
      PROVE  change[p].tile \in shown'["launcher"]
               <=> change[p].tile \notin shown["launcher"]
  <2>1. Flush(p)
    <3>1. ~UNCHANGED configVars
      BY <1>1 DEF configVars, procVars
    <3>2. ~PowerLoss
      BY <1>1 DEF PowerLoss
    <3>3. PICK q \in Pids : ProcessStep(q)
      BY <1>1, <3>1, <3>2 DEF ConfigNext, ProcessStep
    <3>4. q = p
      BY <1>1, <3>3, StepsAlone DEF ScreenInv, Others
    <3>5. ~Start(p) /\ ~handle_gesture(p) /\ ~Load(p) /\ ~LoadBroken(p)
      BY <1>1
      DEF Start, StartUi, ShowCommand, LauncherSet, ThemeSet, Running, Load, LoadBroken,
          handle_gesture, handle_main_tap, handle_about_tap, handle_back,
          handle_launcher_tap, handle_appearance_tap, Waiting
    <3>6. ~Write(p) /\ ~WriteFails(p) /\ ~Rename(p) /\ ~RenameFails(p)
      BY <1>1 DEF Write, WriteFails, Rename, RenameFails
    <3>7. ~ExitUi(p) /\ ~Kill(p)
      BY <1>1 DEF ExitUi, Kill, Gone, ScreenInv, SaveInv, Types
    <3> QED
      BY <3>3, <3>4, <3>5, <3>6, <3>7 DEF ProcessStep, SaveStep
  <2>2. shown' = [shown EXCEPT ![save[p].leaf] = save[p].value]
    BY <1>1, <2>1 DEF Flush, Return, ShownAfter
  <2>3. /\ change[p].on <=> change[p].tile \notin shown["launcher"]
        /\ save[p].leaf = "launcher"
        /\ change[p].tile \in save[p].value <=> change[p].on
    BY <1>1 DEF ScreenInv, UiOK, TapOK, SavesTap, SavePoints
  <2>4. shown'["launcher"] = save[p].value
    BY <1>1, <2>2, <2>3 DEF ScreenInv, ScreenTypes, Leaves
  <2> QED
    BY <2>3, <2>4
<1>2. ScreenInv /\ [ConfigNext]_configVars =>
        \A p \in Pids :
          /\ at[p] = "flush" /\ change[p] # Nothing /\ ~Healing(p)
          /\ kind[p] = "ui" /\ at'[p] = "idle" /\ kind'[p] = "ui"
          => LET t == change[p].tile IN
               t \in shown'["launcher"] <=> t \notin shown["launcher"]
  BY <1>1
<1> QED
  BY <1>2, AlwaysScreenInv, PTL DEF ConfigSpec, TapFlipsRow

-------------------------------------------------------------------------------
USE MaxOffsetAssumption, NobodyAssumption
USE DEF Filtered, Accepts, ReportedOffset, ParentAlive, ChildEnded, RestoredPages,
        FinalOffset

\* The values a variable is reset to have its type.
LEMMA Resets ==
  /\ 0 \in Offsets
  /\ 0 \in Requests
  /\ StockPixels \in [Offsets -> Drawers]
  /\ Inactive \in VirtualType
  /\ NoSnapshot \in SnapshotType
  /\ NoTouch \in TouchType
  BY DEF Offsets, Requests, StockPixels, Drawers, Inactive, VirtualType,
         NoSnapshot, SnapshotType, NoTouch, TouchType

LEMMA TypeInit == Init => TypeOK
  <1> SUFFICES ASSUME Init PROVE TypeOK
    OBVIOUS
  <1>1. pc \in [Threads -> Points] /\ req \in [Threads -> Requests]
    BY Resets DEF Init, Points
  <1>2. grab \in {"stock", "fresh", "none"} /\ side \in SideStates
    BY DEF Init, SideStates
  <1> QED
    BY <1>1, <1>2, Resets DEF Init, TypeOK, Statuses

LEMMA TypeNext == TypeOK /\ [Next]_vars => TypeOK'
  <1> SUFFICES ASSUME TypeOK, [Next]_vars PROVE TypeOK'
    OBVIOUS
  <1> USE Resets DEF TypeOK, Points, IoPoints, SessionPoints, Goto, ioVars,
                     displayVars, touchVars, sideVars, SideStates, Executing,
                     Statuses, SideEnds, NoSidecar
  <1>1. ASSUME NEW t \in Threads, NEW y \in Requests, VirtualPan(t, y) PROVE TypeOK'
    <2>1. y \in Offsets
      BY <1>1 DEF VirtualPan, Requests, Offsets
    <2>2. virtual' \in VirtualType
      BY <1>1, <2>1 DEF VirtualPan, VirtualType
    <2>3. QED
      BY <1>1, <2>1, <2>2 DEF VirtualPan
  <1>2. ASSUME NEW t \in Threads, VirtualGet(t) PROVE TypeOK'
    BY <1>2 DEF VirtualGet, VirtualType
  <1>3. ASSUME NEW t \in Threads, NEW y \in Requests, PassPan(t, y) PROVE TypeOK'
    BY <1>3 DEF PassPan
  <1>4. ASSUME NEW t \in Threads, PassGet(t) PROVE TypeOK'
    BY <1>4 DEF PassGet
  <1>5. ASSUME NEW t \in Threads, ForwardPan(t) PROVE TypeOK'
    BY <1>5 DEF ForwardPan, KernelPan
  <1>6. ASSUME NEW t \in Threads, ForwardGet(t) PROVE TypeOK'
    BY <1>6 DEF ForwardGet
  <1>7. ASSUME NEW t \in Threads, EnterCallback(t) PROVE TypeOK'
    BY <1>7 DEF EnterCallback
  <1>8. ASSUME NEW t \in Threads, ReadVariable(t) PROVE TypeOK'
    <2>1. snapshot' \in SnapshotType
      BY <1>8 DEF ReadVariable, SnapshotType
    <2>2. QED
      BY <1>8, <2>1 DEF ReadVariable
  <1>9. ASSUME NEW t \in Threads, CopyPixels(t) PROVE TypeOK'
    <2>1. snapshot' \in SnapshotType
      BY <1>9 DEF CopyPixels, SnapshotType
    <2>2. QED
      BY <1>9, <2>1 DEF CopyPixels
  <1>10. ASSUME NEW t \in Threads, CaptureFails(t) PROVE TypeOK'
    BY <1>10 DEF CaptureFails
  <1>11. ASSUME NEW t \in Threads, BeginVirtual(t) PROVE TypeOK'
    <2>1. virtual' \in VirtualType
      BY <1>11 DEF BeginVirtual, VirtualType, SnapshotType
    <2>2. QED
      BY <1>11, <2>1 DEF BeginVirtual
  <1>12. ASSUME NEW t \in Threads, GrabTouch(t) PROVE TypeOK'
    <2>1. touch' \in TouchType
      BY <1>12 DEF GrabTouch, TouchType
    <2>2. QED
      BY <1>12, <2>1 DEF GrabTouch
  <1>13. ASSUME NEW t \in Threads, UngrabStock(t) PROVE TypeOK'
    BY <1>13 DEF UngrabStock
  <1>14. ASSUME NEW t \in Threads, TransferGrab(t) PROVE TypeOK'
    <2>1. touch' \in TouchType
      BY <1>14 DEF TransferGrab, TouchType
    <2>2. QED
      BY <1>14, <2>1 DEF TransferGrab
  <1>15. ASSUME NEW t \in Threads, TransferFails(t) PROVE TypeOK'
    BY <1>15 DEF TransferFails
  <1>16. ASSUME NEW t \in Threads, LaunchFails(t) PROVE TypeOK'
    BY <1>16 DEF LaunchFails
  <1>17. ASSUME NEW t \in Threads, Fork(t) PROVE TypeOK'
    BY <1>17 DEF Fork
  <1>18. ASSUME ArmDeathSignal PROVE TypeOK'
    BY <1>18 DEF ArmDeathSignal
  <1>19. ASSUME ChildExec PROVE TypeOK'
    BY <1>19 DEF ChildExec
  <1>20. ASSUME ChildExits PROVE TypeOK'
    BY <1>20 DEF ChildExits
  <1>21. ASSUME DrawPage PROVE TypeOK'
    BY <1>21 DEF DrawPage, Drawers, Offsets
  <1>22. ASSUME ShowPage PROVE TypeOK'
    BY <1>22 DEF ShowPage, KernelPan, Offsets
  <1>23. ASSUME PanAgain PROVE TypeOK'
    BY <1>23 DEF PanAgain, KernelPan, Offsets
  <1>24. ASSUME NEW s \in Statuses, SideReturns(s) PROVE TypeOK'
    BY <1>24 DEF SideReturns
  <1>25. ASSUME SideKilled PROVE TypeOK'
    BY <1>25 DEF SideKilled
  <1>26. ASSUME NEW t \in Threads, WaitChild(t) PROVE TypeOK'
    BY <1>26 DEF WaitChild
  <1>27. ASSUME NEW t \in Threads, RestorePixels(t) PROVE TypeOK'
    <2>1. fb' \in [Offsets -> Drawers]
      BY <1>27 DEF RestorePixels, SnapshotType
    <2>2. QED
      BY <1>27, <2>1 DEF RestorePixels
  <1>28. ASSUME NEW t \in Threads, FinishVirtual(t) PROVE TypeOK'
    <2>1. virtual' \in VirtualType
      BY <1>28 DEF FinishVirtual, VirtualType, SnapshotType
    <2>2. hw' \in Offsets
      BY <1>28 DEF FinishVirtual, KernelPan
    <2>3. QED
      BY <1>28, <2>1, <2>2 DEF FinishVirtual
  <1>29. ASSUME NEW t \in Threads, ReleaseTouch(t) PROVE TypeOK'
    BY <1>29 DEF ReleaseTouch
  <1>30. ASSUME NEW t \in Threads, RegrabStock(t) PROVE TypeOK'
    BY <1>30 DEF RegrabStock
  <1>31. ASSUME NEW t \in Threads, LeaveCallback(t) PROVE TypeOK'
    BY <1>31 DEF LeaveCallback
  <1>32. ASSUME NEW t \in Threads, StockRoute(t) PROVE TypeOK'
    BY <1>32 DEF StockRoute
  <1>33. ASSUME PlayerDies PROVE TypeOK'
    BY <1>33 DEF PlayerDies
  <1>34. ASSUME ReapOrphan PROVE TypeOK'
    BY <1>34 DEF ReapOrphan
  <1>35. ASSUME Reboot PROVE TypeOK'
    BY <1>35 DEF Reboot
  <1>36. CASE UNCHANGED vars
    BY <1>36 DEF vars
  <1> QED
    BY <1>1, <1>2, <1>3, <1>4, <1>5, <1>6, <1>7, <1>8, <1>9, <1>10, <1>11, <1>12, <1>13,
       <1>14, <1>15, <1>16, <1>17, <1>18, <1>19, <1>20, <1>21, <1>22, <1>23, <1>24, <1>25,
       <1>26, <1>27, <1>28, <1>29, <1>30, <1>31, <1>32, <1>33, <1>34, <1>35, <1>36
    DEF Next, StockIoctl, ForwardIoctl, CallbackStep, ChildStep, UiStep

\* Every variable keeps its type.
THEOREM TypeCorrect == Spec => []TypeOK
  BY TypeInit, TypeNext, PTL DEF Spec

(***************************************************************************)
(* How a step moves the phase of the session.                              *)
(***************************************************************************)
LEMMA PhaseWhere ==
  ASSUME ControlInv, NEW t \in Threads, InSession(t)
  PROVE  Session /\ Phase = pc[t]
  BY DEF ControlInv, Phase, Session

\* The thread in the session moves on, to another of its points.
LEMMA PhaseMoves ==
  ASSUME TypeOK, ControlInv, NEW t \in Threads, InSession(t),
         NEW p \in SessionPoints, pc' = [pc EXCEPT ![t] = p]
  PROVE  /\ Session' /\ Phase = pc[t] /\ Phase' = p
         /\ (\A v, u \in Threads : InSession(v) /\ InSession(u) => v = u)'
  <1>1. pc'[t] = p /\ \A u \in Threads \ {t} : pc'[u] = pc[u]
    BY DEF TypeOK
  <1>2. \A u \in Threads : InSession(u)' <=> u = t
    BY <1>1 DEF ControlInv, InSession
  <1>3. Phase' = pc'[CHOOSE u \in Threads : InSession(u)'] /\ Session'
    BY <1>2 DEF Phase, Session
  <1>4. (CHOOSE u \in Threads : InSession(u)') = t
    BY <1>2
  <1> QED
    BY <1>1, <1>2, <1>3, <1>4, PhaseWhere

\* Another thread moves: the phase stays.
LEMMA PhaseStays ==
  ASSUME TypeOK, ControlInv, NEW t \in Threads, ~InSession(t),
         NEW p \in Points \ SessionPoints, pc' = [pc EXCEPT ![t] = p]
  PROVE  /\ Session' = Session /\ Phase' = Phase
         /\ (\A v, u \in Threads : InSession(v) /\ InSession(u) => v = u)'
  <1>1. pc'[t] = p /\ \A u \in Threads \ {t} : pc'[u] = pc[u]
    BY DEF TypeOK
  <1>2. \A u \in Threads : InSession(u)' <=> InSession(u)
    BY <1>1 DEF InSession
  <1>3. CASE Session
    <2>1. PICK v \in Threads : InSession(v)
      BY <1>3 DEF Session
    <2>2. \A u \in Threads : InSession(u)' <=> u = v
      BY <1>2, <2>1 DEF ControlInv
    <2>3. (CHOOSE u \in Threads : InSession(u)') = v
      BY <2>2
    <2>4. pc'[v] = pc[v]
      BY <1>1, <2>1
    <2> QED
      BY <1>2, <1>3, <2>1, <2>2, <2>3, <2>4, PhaseWhere DEF Session, Phase
  <1>4. CASE ~Session
    BY <1>2, <1>4 DEF Session, Phase
  <1> QED
    BY <1>3, <1>4

\* No session, none after: the thread that leaves was its only one.
LEMMA PhaseEnds ==
  ASSUME TypeOK, ControlInv, NEW t \in Threads, InSession(t),
         NEW p \in Points \ SessionPoints, pc' = [pc EXCEPT ![t] = p]
  PROVE  /\ ~Session' /\ Phase = pc[t] /\ Phase' = "none"
         /\ (\A v, u \in Threads : InSession(v) /\ InSession(u) => v = u)'
  <1>1. pc'[t] = p /\ \A u \in Threads \ {t} : pc'[u] = pc[u]
    BY DEF TypeOK
  <1>2. \A u \in Threads : ~InSession(u)'
    BY <1>1 DEF ControlInv, InSession
  <1> QED
    BY <1>2, PhaseWhere DEF Session, Phase

\* Only a live player has a thread that is doing something.
LEMMA OnlyAliveActs ==
  ASSUME TypeOK, ControlInv, NEW t \in Threads, pc[t] # "idle"
  PROVE  player = "up"
  BY DEF TypeOK, ControlInv

(***************************************************************************)
(* The inductive invariant.                                                *)
(***************************************************************************)
LEMMA SessionInit == Init => SessionInv
  <1> SUFFICES ASSUME Init PROVE SessionInv
    OBVIOUS
  <1>1. ~Session /\ \A t \in Threads : pc[t] = "idle"
    BY DEF Init, Session, InSession, SessionPoints
  <1>2. Phase = "none"
    BY <1>1 DEF Phase
  <1> QED
    BY <1>1, <1>2 DEF Init, SessionInv, ControlInv, TouchInv, PixelInv, SidecarInv,
       Session, NotTaken, StockClaim, NoTouch, NoSnapshot, Inactive, OwningPoints,
       Executing

LEMMA ReadVariableStep ==
  ASSUME TypeOK, SessionInv, NEW t \in Threads, ReadVariable(t)
  PROVE  SessionInv'
  <1> USE DEF SessionInv
  <1>1. pc[t] = "open" /\ InSession(t) /\ player = "up"
    BY OnlyAliveActs DEF ReadVariable, InSession, SessionPoints
  <1>2. /\ Session' /\ Phase = pc[t] /\ Phase' = "pixels" /\ Session
        /\ (\A v, u \in Threads : InSession(v) /\ InSession(u) => v = u)'
    BY <1>1, PhaseMoves, PhaseWhere DEF ReadVariable, Goto, SessionPoints
  <1>3. ControlInv'
    BY <1>1, <1>2 DEF ReadVariable, ControlInv, OwningPoints, ioVars, displayVars, PixelInv,
       TypeOK, VirtualType
  <1>4. TouchInv'
    BY <1>1, <1>2 DEF ReadVariable, TouchInv, NotTaken, Taken, StockClaim, touchVars,
       TypeOK, TouchType, NoTouch
  <1>5. PixelInv'
    BY <1>1, <1>2 DEF ReadVariable, PixelInv, OwningPoints, displayVars, TypeOK,
       SnapshotType
  <1>6. SidecarInv'
    BY <1>1, <1>2 DEF ReadVariable, SidecarInv, sideVars, NoSidecar
  <1> QED
    BY <1>3, <1>4, <1>5, <1>6

LEMMA CopyPixelsStep ==
  ASSUME TypeOK, SessionInv, NEW t \in Threads, CopyPixels(t)
  PROVE  SessionInv'
  <1> USE DEF SessionInv
  <1>1. pc[t] = "pixels" /\ InSession(t) /\ player = "up"
    BY OnlyAliveActs DEF CopyPixels, InSession, SessionPoints
  <1>2. /\ Session' /\ Phase = pc[t] /\ Phase' = "begin" /\ Session
        /\ (\A v, u \in Threads : InSession(v) /\ InSession(u) => v = u)'
    BY <1>1, PhaseMoves, PhaseWhere DEF CopyPixels, Goto, SessionPoints
  <1>3. ControlInv'
    BY <1>1, <1>2 DEF CopyPixels, ControlInv, OwningPoints, ioVars, displayVars, PixelInv,
       TypeOK, VirtualType
  <1>4. TouchInv'
    BY <1>1, <1>2 DEF CopyPixels, TouchInv, NotTaken, Taken, StockClaim, touchVars, TypeOK,
       TouchType, NoTouch
  <1>5. PixelInv'
    BY <1>1, <1>2 DEF CopyPixels, PixelInv, OwningPoints, displayVars, TypeOK, SnapshotType
  <1>6. SidecarInv'
    BY <1>1, <1>2 DEF CopyPixels, SidecarInv, sideVars, NoSidecar
  <1> QED
    BY <1>3, <1>4, <1>5, <1>6

LEMMA BeginVirtualStep ==
  ASSUME TypeOK, SessionInv, NEW t \in Threads, BeginVirtual(t)
  PROVE  SessionInv'
  <1> USE DEF SessionInv
  <1>1. pc[t] = "begin" /\ InSession(t) /\ player = "up"
    BY OnlyAliveActs DEF BeginVirtual, InSession, SessionPoints
  <1>2. /\ Session' /\ Phase = pc[t] /\ Phase' = "touch" /\ Session
        /\ (\A v, u \in Threads : InSession(v) /\ InSession(u) => v = u)'
    BY <1>1, PhaseMoves, PhaseWhere DEF BeginVirtual, Goto, SessionPoints
  <1>3. ControlInv'
    BY <1>1, <1>2 DEF BeginVirtual, ControlInv, OwningPoints, ioVars, displayVars, PixelInv,
       TypeOK, VirtualType
  <1>4. TouchInv'
    BY <1>1, <1>2 DEF BeginVirtual, TouchInv, NotTaken, Taken, StockClaim, touchVars,
       TypeOK, TouchType, NoTouch
  <1>5. PixelInv'
    BY <1>1, <1>2 DEF BeginVirtual, PixelInv, OwningPoints, displayVars, TypeOK,
       SnapshotType
  <1>6. SidecarInv'
    BY <1>1, <1>2 DEF BeginVirtual, SidecarInv, sideVars, NoSidecar
  <1> QED
    BY <1>3, <1>4, <1>5, <1>6

LEMMA GrabTouchStep ==
  ASSUME TypeOK, SessionInv, NEW t \in Threads, GrabTouch(t)
  PROVE  SessionInv'
  <1> USE DEF SessionInv
  <1>1. pc[t] = "touch" /\ InSession(t) /\ player = "up"
    BY OnlyAliveActs DEF GrabTouch, InSession, SessionPoints
  <1>2. /\ Session' /\ Phase = pc[t] /\ Phase' = "dup" /\ Session
        /\ (\A v, u \in Threads : InSession(v) /\ InSession(u) => v = u)'
    BY <1>1, PhaseMoves, PhaseWhere DEF GrabTouch, Goto, SessionPoints
  <1>3. ControlInv'
    BY <1>1, <1>2 DEF GrabTouch, ControlInv, OwningPoints, ioVars, displayVars, PixelInv,
       TypeOK, VirtualType
  <1>4. TouchInv'
    BY <1>1, <1>2 DEF GrabTouch, TouchInv, NotTaken, Taken, StockClaim, touchVars, TypeOK,
       TouchType, NoTouch
  <1>5. PixelInv'
    BY <1>1, <1>2 DEF GrabTouch, PixelInv, OwningPoints, displayVars, TypeOK, SnapshotType
  <1>6. SidecarInv'
    BY <1>1, <1>2 DEF GrabTouch, SidecarInv, sideVars, NoSidecar
  <1> QED
    BY <1>3, <1>4, <1>5, <1>6

LEMMA UngrabStockStep ==
  ASSUME TypeOK, SessionInv, NEW t \in Threads, UngrabStock(t)
  PROVE  SessionInv'
  <1> USE DEF SessionInv
  <1>1. pc[t] = "touch" /\ InSession(t) /\ player = "up"
    BY OnlyAliveActs DEF UngrabStock, InSession, SessionPoints
  <1>2. /\ Session' /\ Phase = pc[t] /\ Phase' = "transfer" /\ Session
        /\ (\A v, u \in Threads : InSession(v) /\ InSession(u) => v = u)'
    BY <1>1, PhaseMoves, PhaseWhere DEF UngrabStock, Goto, SessionPoints
  <1>3. ControlInv'
    BY <1>1, <1>2 DEF UngrabStock, ControlInv, OwningPoints, ioVars, displayVars, PixelInv,
       TypeOK, VirtualType
  <1>4. TouchInv'
    BY <1>1, <1>2 DEF UngrabStock, TouchInv, NotTaken, Taken, StockClaim, touchVars, TypeOK,
       TouchType, NoTouch
  <1>5. PixelInv'
    BY <1>1, <1>2 DEF UngrabStock, PixelInv, OwningPoints, displayVars, TypeOK, SnapshotType
  <1>6. SidecarInv'
    BY <1>1, <1>2 DEF UngrabStock, SidecarInv, sideVars, NoSidecar
  <1> QED
    BY <1>3, <1>4, <1>5, <1>6

LEMMA TransferGrabStep ==
  ASSUME TypeOK, SessionInv, NEW t \in Threads, TransferGrab(t)
  PROVE  SessionInv'
  <1> USE DEF SessionInv
  <1>1. pc[t] = "transfer" /\ InSession(t) /\ player = "up"
    BY OnlyAliveActs DEF TransferGrab, InSession, SessionPoints
  <1>2. /\ Session' /\ Phase = pc[t] /\ Phase' = "dup" /\ Session
        /\ (\A v, u \in Threads : InSession(v) /\ InSession(u) => v = u)'
    BY <1>1, PhaseMoves, PhaseWhere DEF TransferGrab, Goto, SessionPoints
  <1>3. ControlInv'
    BY <1>1, <1>2 DEF TransferGrab, ControlInv, OwningPoints, ioVars, displayVars, PixelInv,
       TypeOK, VirtualType
  <1>4. TouchInv'
    BY <1>1, <1>2 DEF TransferGrab, TouchInv, NotTaken, Taken, StockClaim, touchVars,
       TypeOK, TouchType, NoTouch
  <1>5. PixelInv'
    BY <1>1, <1>2 DEF TransferGrab, PixelInv, OwningPoints, displayVars, TypeOK,
       SnapshotType
  <1>6. SidecarInv'
    BY <1>1, <1>2 DEF TransferGrab, SidecarInv, sideVars, NoSidecar
  <1> QED
    BY <1>3, <1>4, <1>5, <1>6

LEMMA TransferFailsStep ==
  ASSUME TypeOK, SessionInv, NEW t \in Threads, TransferFails(t)
  PROVE  SessionInv'
  <1> USE DEF SessionInv
  <1>1. pc[t] = "transfer" /\ InSession(t) /\ player = "up"
    BY OnlyAliveActs DEF TransferFails, InSession, SessionPoints
  <1>2. /\ Session' /\ Phase = pc[t] /\ Phase' = "restore" /\ Session
        /\ (\A v, u \in Threads : InSession(v) /\ InSession(u) => v = u)'
    BY <1>1, PhaseMoves, PhaseWhere DEF TransferFails, Goto, SessionPoints
  <1>3. ControlInv'
    BY <1>1, <1>2 DEF TransferFails, ControlInv, OwningPoints, ioVars, displayVars,
       PixelInv, TypeOK, VirtualType
  <1>4. TouchInv'
    BY <1>1, <1>2 DEF TransferFails, TouchInv, NotTaken, Taken, StockClaim, touchVars,
       TypeOK, TouchType, NoTouch
  <1>5. PixelInv'
    BY <1>1, <1>2 DEF TransferFails, PixelInv, OwningPoints, displayVars, TypeOK,
       SnapshotType
  <1>6. SidecarInv'
    BY <1>1, <1>2 DEF TransferFails, SidecarInv, sideVars, NoSidecar
  <1> QED
    BY <1>3, <1>4, <1>5, <1>6

LEMMA ForkStep ==
  ASSUME TypeOK, SessionInv, NEW t \in Threads, Fork(t)
  PROVE  SessionInv'
  <1> USE DEF SessionInv
  <1>1. pc[t] = "dup" /\ InSession(t) /\ player = "up"
    BY OnlyAliveActs DEF Fork, InSession, SessionPoints
  <1>2. /\ Session' /\ Phase = pc[t] /\ Phase' = "wait" /\ Session
        /\ (\A v, u \in Threads : InSession(v) /\ InSession(u) => v = u)'
    BY <1>1, PhaseMoves, PhaseWhere DEF Fork, Goto, SessionPoints
  <1>3. ControlInv'
    BY <1>1, <1>2 DEF Fork, ControlInv, OwningPoints, ioVars, displayVars, PixelInv, TypeOK,
       VirtualType
  <1>4. TouchInv'
    BY <1>1, <1>2 DEF Fork, TouchInv, NotTaken, Taken, StockClaim, touchVars, TypeOK,
       TouchType, NoTouch
  <1>5. PixelInv'
    BY <1>1, <1>2 DEF Fork, PixelInv, OwningPoints, displayVars, TypeOK, SnapshotType
  <1>6. SidecarInv'
    BY <1>1, <1>2 DEF Fork, SidecarInv, sideVars, NoSidecar
  <1> QED
    BY <1>3, <1>4, <1>5, <1>6

LEMMA WaitChildStep ==
  ASSUME TypeOK, SessionInv, NEW t \in Threads, WaitChild(t)
  PROVE  SessionInv'
  <1> USE DEF SessionInv
  <1>1. pc[t] = "wait" /\ InSession(t) /\ player = "up"
    BY OnlyAliveActs DEF WaitChild, InSession, SessionPoints
  <1>2. /\ Session' /\ Phase = pc[t] /\ Phase' = "restore" /\ Session
        /\ (\A v, u \in Threads : InSession(v) /\ InSession(u) => v = u)'
    BY <1>1, PhaseMoves, PhaseWhere DEF WaitChild, Goto, SessionPoints
  <1>3. ControlInv'
    BY <1>1, <1>2 DEF WaitChild, ControlInv, OwningPoints, ioVars, displayVars, PixelInv,
       TypeOK, VirtualType
  <1>4. TouchInv'
    BY <1>1, <1>2 DEF WaitChild, TouchInv, NotTaken, Taken, StockClaim, touchVars, TypeOK,
       TouchType, NoTouch
  <1>5. PixelInv'
    BY <1>1, <1>2 DEF WaitChild, PixelInv, OwningPoints, displayVars, TypeOK, SnapshotType
  <1>6. SidecarInv'
    BY <1>1, <1>2 DEF WaitChild, SidecarInv, sideVars, NoSidecar
  <1> QED
    BY <1>3, <1>4, <1>5, <1>6

LEMMA RestorePixelsStep ==
  ASSUME TypeOK, SessionInv, NEW t \in Threads, RestorePixels(t)
  PROVE  SessionInv'
  <1> USE DEF SessionInv
  <1>1. pc[t] = "restore" /\ InSession(t) /\ player = "up"
    BY OnlyAliveActs DEF RestorePixels, InSession, SessionPoints
  <1>2. /\ Session' /\ Phase = pc[t] /\ Phase' = "finish" /\ Session
        /\ (\A v, u \in Threads : InSession(v) /\ InSession(u) => v = u)'
    BY <1>1, PhaseMoves, PhaseWhere DEF RestorePixels, Goto, SessionPoints
  <1>3. ControlInv'
    BY <1>1, <1>2 DEF RestorePixels, ControlInv, OwningPoints, ioVars, displayVars,
       PixelInv, TypeOK, VirtualType
  <1>4. TouchInv'
    BY <1>1, <1>2 DEF RestorePixels, TouchInv, NotTaken, Taken, StockClaim, touchVars,
       TypeOK, TouchType, NoTouch
  <1>5. PixelInv'
    BY <1>1, <1>2 DEF RestorePixels, PixelInv, OwningPoints, displayVars, TypeOK,
       SnapshotType
  <1>6. SidecarInv'
    BY <1>1, <1>2 DEF RestorePixels, SidecarInv, sideVars, NoSidecar
  <1> QED
    BY <1>3, <1>4, <1>5, <1>6

LEMMA FinishVirtualStep ==
  ASSUME TypeOK, SessionInv, NEW t \in Threads, FinishVirtual(t)
  PROVE  SessionInv'
  <1> USE DEF SessionInv
  <1>1. pc[t] = "finish" /\ InSession(t) /\ player = "up"
    BY OnlyAliveActs DEF FinishVirtual, InSession, SessionPoints
  <1>2. /\ Session' /\ Phase = pc[t] /\ Phase' = "release" /\ Session
        /\ (\A v, u \in Threads : InSession(v) /\ InSession(u) => v = u)'
    BY <1>1, PhaseMoves, PhaseWhere DEF FinishVirtual, Goto, SessionPoints
  <1>3. ControlInv'
    BY <1>1, <1>2 DEF FinishVirtual, ControlInv, OwningPoints, ioVars, displayVars,
       PixelInv, TypeOK, VirtualType
  <1>4. TouchInv'
    BY <1>1, <1>2 DEF FinishVirtual, TouchInv, NotTaken, Taken, StockClaim, touchVars,
       TypeOK, TouchType, NoTouch
  <1>5. PixelInv'
    BY <1>1, <1>2 DEF FinishVirtual, PixelInv, OwningPoints, displayVars, TypeOK,
       SnapshotType
  <1>6. SidecarInv'
    BY <1>1, <1>2 DEF FinishVirtual, SidecarInv, sideVars, NoSidecar
  <1> QED
    BY <1>3, <1>4, <1>5, <1>6

LEMMA ReleaseTouchStep ==
  ASSUME TypeOK, SessionInv, NEW t \in Threads, ReleaseTouch(t)
  PROVE  SessionInv'
  <1> USE DEF SessionInv
  <1>1. pc[t] = "release" /\ InSession(t) /\ player = "up"
    BY OnlyAliveActs DEF ReleaseTouch, InSession, SessionPoints
  <1>2. /\ Session' /\ Phase = pc[t] /\ Phase' = "regrab" /\ Session
        /\ (\A v, u \in Threads : InSession(v) /\ InSession(u) => v = u)'
    BY <1>1, PhaseMoves, PhaseWhere DEF ReleaseTouch, Goto, SessionPoints
  <1>3. ControlInv'
    BY <1>1, <1>2 DEF ReleaseTouch, ControlInv, OwningPoints, ioVars, displayVars, PixelInv,
       TypeOK, VirtualType
  <1>4. TouchInv'
    BY <1>1, <1>2 DEF ReleaseTouch, TouchInv, NotTaken, Taken, StockClaim, touchVars,
       TypeOK, TouchType, NoTouch
  <1>5. PixelInv'
    BY <1>1, <1>2 DEF ReleaseTouch, PixelInv, OwningPoints, displayVars, TypeOK,
       SnapshotType
  <1>6. SidecarInv'
    BY <1>1, <1>2 DEF ReleaseTouch, SidecarInv, sideVars, NoSidecar
  <1> QED
    BY <1>3, <1>4, <1>5, <1>6

LEMMA RegrabStockStep ==
  ASSUME TypeOK, SessionInv, NEW t \in Threads, RegrabStock(t)
  PROVE  SessionInv'
  <1> USE DEF SessionInv
  <1>1. pc[t] = "regrab" /\ InSession(t) /\ player = "up"
    BY OnlyAliveActs DEF RegrabStock, InSession, SessionPoints
  <1>2. /\ Session' /\ Phase = pc[t] /\ Phase' = "clear" /\ Session
        /\ (\A v, u \in Threads : InSession(v) /\ InSession(u) => v = u)'
    BY <1>1, PhaseMoves, PhaseWhere DEF RegrabStock, Goto, SessionPoints
  <1>3. ControlInv'
    BY <1>1, <1>2 DEF RegrabStock, ControlInv, OwningPoints, ioVars, displayVars, PixelInv,
       TypeOK, VirtualType
  <1>4. TouchInv'
    BY <1>1, <1>2 DEF RegrabStock, TouchInv, NotTaken, Taken, StockClaim, touchVars, TypeOK,
       TouchType, NoTouch
  <1>5. PixelInv'
    BY <1>1, <1>2 DEF RegrabStock, PixelInv, OwningPoints, displayVars, TypeOK, SnapshotType
  <1>6. SidecarInv'
    BY <1>1, <1>2 DEF RegrabStock, SidecarInv, sideVars, NoSidecar
  <1> QED
    BY <1>3, <1>4, <1>5, <1>6

LEMMA CaptureFailsStep ==
  ASSUME TypeOK, SessionInv, NEW t \in Threads, CaptureFails(t)
  PROVE  SessionInv'
  <1> USE DEF SessionInv
  <1>1. pc[t] \in {"open", "pixels"} /\ InSession(t) /\ player = "up"
    BY OnlyAliveActs DEF CaptureFails, InSession, SessionPoints
  <1>2. /\ Session' /\ Phase = pc[t] /\ Phase' = "release" /\ Session
        /\ (\A v, u \in Threads : InSession(v) /\ InSession(u) => v = u)'
    BY <1>1, PhaseMoves, PhaseWhere DEF CaptureFails, Goto, SessionPoints
  <1>3. ControlInv'
    BY <1>1, <1>2 DEF CaptureFails, ControlInv, OwningPoints, ioVars, displayVars, PixelInv,
       TypeOK, VirtualType
  <1>4. TouchInv'
    BY <1>1, <1>2 DEF CaptureFails, TouchInv, NotTaken, Taken, StockClaim, touchVars,
       TypeOK, TouchType, NoTouch
  <1>5. PixelInv'
    BY <1>1, <1>2 DEF CaptureFails, PixelInv, OwningPoints, displayVars, TypeOK,
       SnapshotType
  <1>6. SidecarInv'
    BY <1>1, <1>2 DEF CaptureFails, SidecarInv, sideVars, NoSidecar
  <1> QED
    BY <1>3, <1>4, <1>5, <1>6

LEMMA LaunchFailsStep ==
  ASSUME TypeOK, SessionInv, NEW t \in Threads, LaunchFails(t)
  PROVE  SessionInv'
  <1> USE DEF SessionInv
  <1>1. pc[t] \in {"touch", "dup"} /\ InSession(t) /\ player = "up"
    BY OnlyAliveActs DEF LaunchFails, InSession, SessionPoints
  <1>2. /\ Session' /\ Phase = pc[t] /\ Phase' = "restore" /\ Session
        /\ (\A v, u \in Threads : InSession(v) /\ InSession(u) => v = u)'
    BY <1>1, PhaseMoves, PhaseWhere DEF LaunchFails, Goto, SessionPoints
  <1>3. ControlInv'
    BY <1>1, <1>2 DEF LaunchFails, ControlInv, OwningPoints, ioVars, displayVars, PixelInv,
       TypeOK, VirtualType
  <1>4. TouchInv'
    BY <1>1, <1>2 DEF LaunchFails, TouchInv, NotTaken, Taken, StockClaim, touchVars, TypeOK,
       TouchType, NoTouch
  <1>5. PixelInv'
    BY <1>1, <1>2 DEF LaunchFails, PixelInv, OwningPoints, displayVars, TypeOK, SnapshotType
  <1>6. SidecarInv'
    BY <1>1, <1>2 DEF LaunchFails, SidecarInv, sideVars, NoSidecar
  <1> QED
    BY <1>3, <1>4, <1>5, <1>6

\* EnterCallback starts a session: none was in progress.
LEMMA EnterCallbackStep ==
  ASSUME TypeOK, SessionInv, player = "up", NEW t \in Threads, EnterCallback(t)
  PROVE  SessionInv'
  <1> USE DEF SessionInv
  <1>1. pc'[t] = "open" /\ \A u \in Threads \ {t} : pc'[u] = pc[u]
    BY DEF EnterCallback, Goto, TypeOK
  <1>2. ~Session /\ Phase = "none" /\ player' = "up"
    BY DEF EnterCallback, ControlInv, Phase
  <1>3. \A u \in Threads : InSession(u)' <=> u = t
    BY <1>1, <1>2 DEF Session, InSession, SessionPoints
  <1>4. Session' /\ Phase' = "open"
    <2>1. (CHOOSE u \in Threads : InSession(u)') = t
      BY <1>3
    <2> QED
      BY <1>1, <1>3, <2>1 DEF Session, Phase
  <1>5. ControlInv'
    BY <1>2, <1>3, <1>4 DEF EnterCallback, ControlInv, OwningPoints
  <1>6. TouchInv'
    BY <1>2, <1>4 DEF EnterCallback, TouchInv, NotTaken, StockClaim, NoTouch
  <1>7. PixelInv'
    BY <1>2, <1>4 DEF EnterCallback, PixelInv, OwningPoints, NoSnapshot, StockPixels
  <1>8. SidecarInv'
    BY <1>2, <1>4 DEF EnterCallback, SidecarInv, sideVars
  <1> QED
    BY <1>5, <1>6, <1>7, <1>8

\* LeaveCallback ends it.
LEMMA LeaveCallbackStep ==
  ASSUME TypeOK, SessionInv, NEW t \in Threads, LeaveCallback(t)
  PROVE  SessionInv'
  <1> USE DEF SessionInv
  <1>1. pc[t] = "clear" /\ InSession(t) /\ player = "up" /\ player' = "up"
    BY OnlyAliveActs DEF LeaveCallback, InSession, SessionPoints
  <1>2. /\ ~Session' /\ Phase = "clear" /\ Phase' = "none"
        /\ (\A v, u \in Threads : InSession(v) /\ InSession(u) => v = u)'
    <2> DEFINE p == IF result = "route" THEN "route" ELSE "idle"
    <2>1. p \in Points \ SessionPoints
      BY DEF Points, SessionPoints
    <2>2. pc' = [pc EXCEPT ![t] = p]
      BY DEF LeaveCallback, Goto
    <2> HIDE DEF p
    <2>3. /\ ~Session' /\ Phase = pc[t] /\ Phase' = "none"
          /\ (\A v, u \in Threads : InSession(v) /\ InSession(u) => v = u)'
      BY <1>1, <2>1, <2>2, PhaseEnds DEF SessionInv
    <2> QED
      BY <1>1, <2>3
  <1>3. ControlInv'
    BY <1>1, <1>2 DEF LeaveCallback, ControlInv, OwningPoints
  <1>4. TouchInv'
    BY <1>1, <1>2 DEF LeaveCallback, TouchInv, NotTaken, StockClaim, touchVars
  <1>5. PixelInv'
    BY <1>1, <1>2 DEF LeaveCallback, PixelInv, OwningPoints, NoSnapshot, StockPixels
  <1>6. SidecarInv'
    BY <1>1, <1>2 DEF LeaveCallback, SidecarInv, sideVars
  <1> QED
    BY <1>3, <1>4, <1>5, <1>6

(***************************************************************************)
(* Steps outside the session: what the invariant reads stays as it was.    *)
(***************************************************************************)
\* A step of another thread that leaves the session's variables alone, but
\* for the offset of the virtual display.
LEMMA SessionUntouched ==
  ASSUME TypeOK, SessionInv, Session' = Session, Phase' = Phase,
         (\A v, u \in Threads : InSession(v) /\ InSession(u) => v = u)',
         player' = "up", player = "up",
         (virtual.active)' = virtual.active,
         UNCHANGED <<callback_active, touchVars, stockGrabs, fb, snapshot, side>>
  PROVE  SessionInv'
  <1>1. ControlInv'
    BY DEF SessionInv, ControlInv
  <1>2. TouchInv'
    BY DEF SessionInv, TouchInv, NotTaken, Taken, StockClaim, touchVars
  <1>3. PixelInv'
    BY DEF SessionInv, PixelInv
  <1>4. SidecarInv'
    BY DEF SessionInv, SidecarInv
  <1> QED
    BY <1>1, <1>2, <1>3, <1>4 DEF SessionInv

LEMMA StockIoctlStep ==
  ASSUME TypeOK, SessionInv, NEW t \in Threads, StockIoctl(t)
  PROVE  SessionInv'
  <1> USE DEF SessionInv
  <1>1. CASE (\E y \in Requests : VirtualPan(t, y)) \/ VirtualGet(t)
    <2>1. UNCHANGED pc /\ player = "up" /\ player' = "up" /\ (virtual.active)' = virtual.active
      BY <1>1 DEF StockIoctl, VirtualPan, VirtualGet, displayVars, TypeOK, VirtualType
    <2>2. Session' = Session /\ Phase' = Phase
      BY <2>1 DEF Session, Phase, InSession
    <2>3. (\A v, u \in Threads : InSession(v) /\ InSession(u) => v = u)'
      BY <2>1 DEF InSession, ControlInv
    <2> QED
      BY <1>1, <2>1, <2>2, <2>3, SessionUntouched
      DEF VirtualPan, VirtualGet, displayVars, touchVars, sideVars
  <1>2. CASE (\E y \in Requests : PassPan(t, y)) \/ PassGet(t)
    <2>1. /\ ~InSession(t)
          /\ \E p \in Points \ SessionPoints : pc' = [pc EXCEPT ![t] = p]
      BY <1>2 DEF PassPan, PassGet, Goto, InSession, Points, SessionPoints, IoPoints
    <2> QED
      BY <1>2, <2>1, PhaseStays, SessionUntouched
      DEF StockIoctl, PassPan, PassGet, displayVars, touchVars, sideVars
  <1> QED
    BY <1>1, <1>2 DEF StockIoctl

\* ForwardPan, ForwardGet and the end of the stock route.
LEMMA ReturnStep ==
  ASSUME TypeOK, SessionInv, NEW t \in Threads, ForwardIoctl(t) \/ StockRoute(t)
  PROVE  SessionInv'
  <1> USE DEF SessionInv
  <1>1. ~InSession(t) /\ pc' = [pc EXCEPT ![t] = "idle"] /\ pc[t] # "idle"
    BY DEF ForwardIoctl, ForwardPan, ForwardGet, StockRoute, Goto, InSession,
           SessionPoints
  <1>2. player = "up" /\ player' = "up"
    BY <1>1, OnlyAliveActs DEF ForwardIoctl, ForwardPan, ForwardGet, StockRoute
  <1> QED
    BY <1>1, <1>2, PhaseStays, SessionUntouched
    DEF ForwardIoctl, ForwardPan, ForwardGet, StockRoute, Points, SessionPoints,
        displayVars, touchVars, sideVars

\* The child and the sidecar run while the callback waits.
LEMMA SidecarStep ==
  ASSUME TypeOK, SessionInv, ChildStep \/ UiStep \/ SideKilled
  PROVE  SessionInv'
  <1> USE DEF SessionInv
  <1>1. /\ UNCHANGED <<player, pc, virtual, snapshot, callback_active, touchVars,
                       stockGrabs>>
        /\ side # "none" /\ side' # "none"
        /\ player = "dead" /\ side \notin Executing => side' \notin Executing
        /\ fb' # fb => side \in Executing
    BY DEF ChildStep, ArmDeathSignal, ChildExec, ChildExits, UiStep, DrawPage,
           ShowPage, PanAgain, SideReturns, SideKilled, SideEnds, displayVars,
           sideVars, Executing
  <1>2. Session' = Session /\ Phase' = Phase
    BY <1>1 DEF Session, Phase, InSession
  <1>3. ControlInv'
    BY <1>1, <1>2 DEF ControlInv, InSession
  <1>4. TouchInv'
    BY <1>1, <1>2 DEF TouchInv, NotTaken, Taken, StockClaim, touchVars
  <1>5. PixelInv'
    BY <1>1, <1>2 DEF PixelInv, SidecarInv, TypeOK
  <1>6. SidecarInv'
    BY <1>1, <1>2 DEF SidecarInv
  <1> QED
    BY <1>3, <1>4, <1>5, <1>6

\* The player dies, its orphan is reaped, the device reboots.
LEMMA CrashStep ==
  ASSUME TypeOK, SessionInv, PlayerDies \/ ReapOrphan \/ Reboot
  PROVE  SessionInv'
  <1> USE DEF SessionInv
  <1>1. \A t \in Threads : pc'[t] = "idle"
    BY DEF PlayerDies, ReapOrphan, Reboot, ControlInv
  <1>2. ~Session' /\ Phase' = "none"
    BY <1>1 DEF Session, Phase, InSession, SessionPoints
  <1>3. CASE PlayerDies
    BY <1>1, <1>2, <1>3
    DEF PlayerDies, ControlInv, TouchInv, PixelInv, SidecarInv, NoTouch, NoSnapshot,
        Inactive, InSession, SessionPoints, OwningPoints, Executing
  <1>4. CASE ReapOrphan \/ Reboot
    <2>1. player = "dead" /\ ~Session /\ Phase = "none"
      BY <1>4 DEF ReapOrphan, Reboot, ControlInv, Session, Phase, InSession, SessionPoints
    <2> QED
      BY <1>1, <1>2, <1>4, <2>1
      DEF ReapOrphan, Reboot, ControlInv, TouchInv, PixelInv, SidecarInv, NotTaken,
          StockClaim, NoSidecar, Inactive, displayVars, InSession, SessionPoints,
          OwningPoints, Executing
  <1> QED
    BY <1>3, <1>4

LEMMA SessionNext == TypeOK /\ SessionInv /\ [Next]_vars => SessionInv'
  <1> SUFFICES ASSUME TypeOK, SessionInv, [Next]_vars PROVE SessionInv'
    OBVIOUS
  <1>1. ASSUME NEW t \in Threads, CallbackStep(t) PROVE SessionInv'
    BY <1>1, ReturnStep, LeaveCallbackStep, ReadVariableStep, CopyPixelsStep,
       BeginVirtualStep, GrabTouchStep, UngrabStockStep, TransferGrabStep,
       TransferFailsStep, ForkStep, WaitChildStep, RestorePixelsStep, FinishVirtualStep,
       ReleaseTouchStep, RegrabStockStep, CaptureFailsStep, LaunchFailsStep
    DEF CallbackStep
  <1>2. ASSUME NEW t \in Threads, player = "up", EnterCallback(t) PROVE SessionInv'
    BY <1>2, EnterCallbackStep
  <1>3. ASSUME NEW t \in Threads, StockIoctl(t) \/ ForwardIoctl(t) PROVE SessionInv'
    BY <1>3, StockIoctlStep, ReturnStep
  <1>4. CASE ChildStep \/ UiStep \/ SideKilled \/ PlayerDies \/ ReapOrphan \/ Reboot
    BY <1>4, SidecarStep, CrashStep
  <1>5. CASE UNCHANGED vars
    BY <1>5
    DEF vars, ioVars, displayVars, touchVars, sideVars, SessionInv, ControlInv,
        TouchInv, PixelInv, SidecarInv, Session, Phase, InSession, NotTaken, Taken,
        StockClaim
  <1> QED
    BY <1>1, <1>2, <1>3, <1>4, <1>5 DEF Next

(***************************************************************************)
(* The results.                                                            *)
(***************************************************************************)
\* The inductive invariant holds of every reachable state.
THEOREM SessionInvariant == Spec => []SessionInv
  BY TypeInit, TypeNext, SessionInit, SessionNext, PTL DEF Spec

\* One callback at a time holds the session, and the virtual display is live
\* exactly while it is between begin and finish: cfw_callback's error paths
\* never leave the player's pans suppressed.
THEOREM DisplayOwnership == Spec => []SessionOwnsDisplay
  <1>1. SessionInv => SessionOwnsDisplay
    <2> SUFFICES ASSUME SessionInv PROVE SessionOwnsDisplay
      OBVIOUS
    <2> USE DEF SessionInv
    <2>1. \A t \in Threads : InSession(t) => Phase = pc[t]
      BY PhaseWhere
    <2>2. Phase \in OwningPoints => \E t \in Threads : pc[t] \in OwningPoints
      BY <2>1 DEF Phase, Session, OwningPoints
    <2>3. ASSUME NEW t \in Threads, pc[t] \in OwningPoints
          PROVE  Phase \in OwningPoints
      BY <2>1, <2>3 DEF InSession, OwningPoints, SessionPoints
    <2> QED
      BY <2>2, <2>3 DEF ControlInv, SessionOwnsDisplay
  <1> QED
    BY <1>1, SessionInvariant, PTL

\* The sidecar program runs only under a live player that waits for it, with
\* the touch stream to itself and a clean copy of every page in the parent.
THEOREM SidecarContainment == Spec => []SidecarContained
  <1>1. TypeOK /\ SessionInv => SidecarContained
    <2> SUFFICES ASSUME TypeOK, SessionInv, side \in Executing
                 PROVE  SidecarContained
      BY DEF SidecarContained
    <2> USE DEF SessionInv
    <2>1. player = "up" /\ Phase = "wait"
      BY DEF TypeOK, SidecarInv, Executing
    <2>2. \E t \in Threads : pc[t] = "wait"
      BY <2>1 DEF Phase, Session
    <2> QED
      BY <2>1, <2>2 DEF SidecarContained, ControlInv, TouchInv, PixelInv, Taken,
         OwningPoints, StockPixels
  <1> QED
    BY <1>1, TypeCorrect, SessionInvariant, PTL

\* With no callback in progress the stock player has its touch grab and its
\* pixels back and no sidecar is left, whichever step of the launch failed.
THEOREM HandBack == Spec => []HandedBack
  <1>1. SessionInv => HandedBack
    BY DEF SessionInv, HandedBack, TouchInv, PixelInv, SidecarInv, NotTaken,
           StockClaim, Phase, StockPixels
  <1> QED
    BY <1>1, SessionInvariant, PTL

\* The restoring pan comes after the sidecar is reaped and every page of the
\* framebuffer is the stock player's again.
THEOREM CleanHandBack == Spec => HandBackClean
  <1>1. TypeOK /\ SessionInv /\ [Next]_vars =>
          [virtual.active /\ ~virtual'.active /\ player' = "up" =>
             side = "none" /\ \A p \in Offsets : fb[p] = "stock"]_vars
    <2> SUFFICES ASSUME TypeOK, SessionInv, [Next]_vars,
                        virtual.active, ~virtual'.active, player' = "up"
                 PROVE  side = "none" /\ \A p \in Offsets : fb[p] = "stock"
      OBVIOUS
    <2> USE DEF SessionInv
    <2>1. player = "up"
      BY DEF ControlInv, TypeOK, Phase, Session, InSession, SessionPoints, OwningPoints
    <2>2. \E t \in Threads : FinishVirtual(t)
      BY <2>1 DEF Next, vars, StockIoctl, VirtualPan, VirtualGet, PassPan, PassGet,
         ForwardIoctl, ForwardPan, ForwardGet, EnterCallback, CallbackStep,
         ReadVariable, CopyPixels, CaptureFails, BeginVirtual, GrabTouch,
         UngrabStock, TransferGrab, TransferFails, LaunchFails, Fork, WaitChild,
         RestorePixels, ReleaseTouch, RegrabStock, LeaveCallback, StockRoute,
         ChildStep, ArmDeathSignal, ChildExec, ChildExits, UiStep, DrawPage,
         ShowPage, PanAgain, SideReturns, SideKilled, PlayerDies, ReapOrphan,
         Reboot, displayVars, TypeOK, VirtualType
    <2>3. Phase = "finish"
      BY <2>2, PhaseWhere DEF FinishVirtual, InSession, SessionPoints
    <2> QED
      BY <2>1, <2>3 DEF PixelInv, SidecarInv, StockPixels
  <1> QED
    BY <1>1, TypeCorrect, SessionInvariant, PTL DEF Spec, HandBackClean

\* The player's picture of the display goes wrong in two places only, both at
\* the start of a session: virtual_display_begin and a pan forwarded late.
THEOREM CoherenceLoss == Spec => CoherenceLostOnlyAtHandOver
  <1> DEFINE HandOver == \E t \in Threads : \/ pc[t] = "begin" /\ pc'[t] = "touch"
                                            \/ pc[t] = "pan" /\ virtual.active
  <1>1. ASSUME TypeOK, SessionInv, [Next]_vars, Coherent, ~HandOver
        PROVE  Coherent'
    <2> USE <1>1 DEF SessionInv, Coherent, View
    <2>1. CASE \E t \in Threads : StockIoctl(t)
      BY <2>1 DEF StockIoctl, VirtualPan, VirtualGet, PassPan, PassGet, displayVars,
         TypeOK, VirtualType
    <2>2. CASE \E t \in Threads : ForwardIoctl(t)
      BY <2>2 DEF ForwardIoctl, ForwardPan, ForwardGet, displayVars, KernelPan
    <2>3. ASSUME NEW t \in Threads, CallbackStep(t)
          PROVE  Coherent'
      <3>1. CASE BeginVirtual(t)
        BY <3>1 DEF BeginVirtual, Goto, TypeOK
      <3>2. CASE FinishVirtual(t)
        <4>1. snapshot.valid /\ View \in Offsets /\ virtual.active
          BY <3>2, PhaseWhere DEF FinishVirtual, InSession, SessionPoints, PixelInv,
             ControlInv, OwningPoints, TypeOK, VirtualType
        <4>2. player = "up"
          BY <3>2, OnlyAliveActs DEF FinishVirtual
        <4>3. ~virtual'.active
          BY <3>2, <4>1 DEF FinishVirtual, TypeOK, VirtualType
        <4> QED
          BY <3>2, <4>1, <4>2, <4>3 DEF FinishVirtual, KernelPan, ioVars
      <3>3. CASE ~BeginVirtual(t) /\ ~FinishVirtual(t)
        BY <2>3, <3>3 DEF CallbackStep, ReadVariable, CopyPixels, CaptureFails,
           GrabTouch, UngrabStock, TransferGrab, TransferFails, LaunchFails, Fork,
           WaitChild, RestorePixels, ReleaseTouch, RegrabStock, LeaveCallback,
           StockRoute, ioVars, displayVars
      <3> QED
        BY <3>1, <3>2, <3>3
    <2>4. CASE \E t \in Threads : EnterCallback(t)
      BY <2>4 DEF EnterCallback, ioVars
    <2>5. CASE ChildStep \/ UiStep \/ SideKilled
      <3>1. UNCHANGED <<player, told, virtual>>
        BY <2>5 DEF ChildStep, ArmDeathSignal, ChildExec, ChildExits, UiStep, DrawPage,
           ShowPage, PanAgain, SideReturns, SideKilled, ioVars, displayVars
      <3>2. hw' # hw => side \in Executing
        BY <2>5 DEF ChildStep, ArmDeathSignal, ChildExec, ChildExits, UiStep, DrawPage,
           ShowPage, PanAgain, SideReturns, SideKilled, displayVars, Executing
      <3>3. side \in Executing /\ player = "up" => virtual.active
        BY DEF SidecarInv, ControlInv, OwningPoints, Executing
      <3> QED
        BY <3>1, <3>2, <3>3
    <2>6. CASE PlayerDies \/ ReapOrphan \/ Reboot
      <3>1. CASE PlayerDies
        BY <3>1 DEF PlayerDies
      <3>2. CASE ReapOrphan
        BY <3>2 DEF ReapOrphan
      <3>3. CASE Reboot
        BY <3>3 DEF Reboot, Inactive
      <3> QED
        BY <2>6, <3>1, <3>2, <3>3
    <2>7. CASE UNCHANGED vars
      BY <2>7 DEF vars, ioVars, displayVars
    <2> QED
      BY <2>1, <2>2, <2>3, <2>4, <2>5, <2>6, <2>7 DEF Next
  <1>2. TypeOK /\ SessionInv /\ [Next]_vars =>
          [Coherent /\ ~Coherent' =>
             \E t \in Threads : \/ pc[t] = "begin" /\ pc'[t] = "touch"
                                \/ pc[t] = "pan" /\ virtual.active]_vars
    BY <1>1
  <1> QED
    BY <1>2, TypeCorrect, SessionInvariant, PTL DEF Spec, CoherenceLostOnlyAtHandOver

\* What the player reads back is the page it was last told it shows, unless
\* coherence was lost before or the read straddled the start of a session.
THEOREM TruthfulReadBack == Spec => ReadBackTruthful
  <1>1. TypeOK /\ SessionInv /\ [Next]_vars =>
          [report' # report /\ report' # Nobody =>
             \/ report' = told
             \/ ~Coherent
             \/ virtual.active /\ \E t \in Threads : pc[t] = "get" /\ pc'[t] = "idle"]_vars
    <2> SUFFICES ASSUME TypeOK, SessionInv, [Next]_vars,
                        report' # report, report' # Nobody, Coherent, report' # told
                 PROVE  virtual.active /\
                          \E t \in Threads : pc[t] = "get" /\ pc'[t] = "idle"
      OBVIOUS
    <2>1. (\E t \in Threads : ForwardGet(t)) \/
          (\E t \in Threads : player = "up" /\ VirtualGet(t))
      BY DEF Next, vars, StockIoctl, VirtualPan, PassPan, PassGet,
         ForwardIoctl, ForwardPan, EnterCallback, CallbackStep,
         ReadVariable, CopyPixels, CaptureFails, BeginVirtual, GrabTouch,
         UngrabStock, TransferGrab, TransferFails, LaunchFails, Fork, WaitChild,
         RestorePixels, FinishVirtual, ReleaseTouch, RegrabStock, LeaveCallback,
         StockRoute, ChildStep, ArmDeathSignal, ChildExec, ChildExits, UiStep,
         DrawPage, ShowPage, PanAgain, SideReturns, SideKilled, PlayerDies,
         ReapOrphan, Reboot, ioVars
    <2>2. ~\E t \in Threads : player = "up" /\ VirtualGet(t)
      BY DEF VirtualGet, Coherent, View
    <2>3. PICK t \in Threads : ForwardGet(t)
      BY <2>1, <2>2
    <2>4. player = "up"
      BY <2>3, OnlyAliveActs DEF ForwardGet, SessionInv
    <2>5. pc'[t] = "idle"
      BY <2>3 DEF ForwardGet, Goto, TypeOK
    <2> QED
      BY <2>3, <2>4, <2>5 DEF ForwardGet, Coherent, View
  <1> QED
    BY <1>1, TypeCorrect, SessionInvariant, PTL DEF Spec, ReadBackTruthful

(***************************************************************************)
(* How many pans of the player can reach fb0 in one session.  A thread may *)
(* still forward a pan only if it passed the check before the session      *)
(* began, and each does so once: a flip takes the place of a panning       *)
(* thread, and the session's own thread pans nowhere.                      *)
(***************************************************************************)
Panning == {t \in Threads : pc[t] = "pan"}

LeakInv ==
  /\ ~virtual.active => flips = 0
  /\ virtual.active => flips + Cardinality(Panning) <= Cardinality(Threads) - 1

LEMMA PanningFinite ==
  /\ IsFiniteSet(Panning)
  /\ Cardinality(Panning) \in Nat
  /\ Cardinality(Threads) \in Nat
  BY ThreadsAssumption, FS_Subset, FS_CardinalityType DEF Panning

\* A thread that neither starts nor ends a forwarded pan leaves the set alone.
LEMMA PanningStays ==
  ASSUME TypeOK, NEW t \in Threads, pc[t] # "pan", NEW p, p # "pan",
         pc' = [pc EXCEPT ![t] = p]
  PROVE  Panning' = Panning
  BY DEF TypeOK, Panning

\* While the display is virtual, a step lets no thread start a forwarded pan,
\* and counts the one that ends.
LEMMA PanningShrinks ==
  ASSUME TypeOK, SessionInv, [Next]_vars, virtual.active, virtual'.active
  PROVE  \/ flips' = flips /\ Panning' = Panning
         \/ flips' = flips + 1 /\ \E t \in Panning : Panning' = Panning \ {t}
  <1>1. CASE \E t \in Threads : StockIoctl(t)
    <2>1. PICK t \in Threads : StockIoctl(t)
      BY <1>1
    <2>2. flips' = flips /\ (pc' = pc \/ (pc[t] = "idle" /\ Goto(t, "get")))
      BY <2>1 DEF StockIoctl, VirtualPan, VirtualGet, PassPan, PassGet, displayVars
    <2> QED
      BY <2>2, PanningStays DEF Goto, Panning
  <1>2. CASE \E t \in Threads : ForwardPan(t)
    <2>1. PICK t \in Threads : ForwardPan(t)
      BY <1>2
    <2>2. t \in Panning /\ flips' = flips + 1
      BY <2>1 DEF ForwardPan, Panning
    <2>3. Panning' = Panning \ {t}
      BY <2>1 DEF ForwardPan, Goto, Panning, TypeOK
    <2> QED
      BY <2>2, <2>3
  <1>3. CASE \E t \in Threads : ForwardGet(t)
    <2>1. PICK t \in Threads : ForwardGet(t)
      BY <1>3
    <2> QED
      BY <2>1, PanningStays DEF ForwardGet, Goto, displayVars
  <1>4. CASE \E t \in Threads : EnterCallback(t)
    <2>1. PICK t \in Threads : EnterCallback(t)
      BY <1>4
    <2> QED
      BY <2>1, PanningStays DEF EnterCallback, Goto
  <1>5. CASE \E t \in Threads : CallbackStep(t)
    <2>1. PICK t \in Threads : CallbackStep(t)
      BY <1>5
    <2>2. pc[t] # "pan" /\ \E p : p # "pan" /\ pc' = [pc EXCEPT ![t] = p]
      BY <2>1 DEF CallbackStep, ReadVariable, CopyPixels, CaptureFails, BeginVirtual,
         GrabTouch, UngrabStock, TransferGrab, TransferFails, LaunchFails, Fork,
         WaitChild, RestorePixels, FinishVirtual, ReleaseTouch, RegrabStock,
         LeaveCallback, StockRoute, Goto
    <2>3. ~BeginVirtual(t)
      BY PhaseWhere DEF BeginVirtual, SessionInv, ControlInv, InSession,
         SessionPoints, OwningPoints
    <2>4. ~FinishVirtual(t)
      <3>1. ASSUME FinishVirtual(t) PROVE FALSE
        <4>1. snapshot.valid
          BY <3>1, PhaseWhere DEF FinishVirtual, InSession, SessionPoints, SessionInv,
             PixelInv, OwningPoints
        <4> QED
          BY <3>1, <4>1 DEF FinishVirtual, TypeOK, VirtualType
      <3> QED
        BY <3>1
    <2>5. flips' = flips
      BY <2>1, <2>3, <2>4 DEF CallbackStep, ReadVariable, CopyPixels, CaptureFails,
         GrabTouch, UngrabStock, TransferGrab, TransferFails, LaunchFails, Fork,
         WaitChild, RestorePixels, ReleaseTouch, RegrabStock,
         LeaveCallback, StockRoute, displayVars
    <2> QED
      BY <2>2, <2>5, PanningStays
  <1>6. CASE ChildStep \/ UiStep \/ SideKilled \/ ReapOrphan
    BY <1>6 DEF ChildStep, ArmDeathSignal, ChildExec, ChildExits, UiStep, DrawPage,
       ShowPage, PanAgain, SideReturns, SideKilled, ReapOrphan, displayVars, Panning
  <1>7. CASE PlayerDies \/ Reboot
    BY <1>7 DEF PlayerDies, Reboot, Inactive
  <1>8. CASE UNCHANGED vars
    BY <1>8 DEF vars, displayVars, Panning
  <1> QED
    BY <1>1, <1>2, <1>3, <1>4, <1>5, <1>6, <1>7, <1>8 DEF Next, ForwardIoctl

LEMMA LeakInit == Init => LeakInv
  BY DEF Init, LeakInv, Inactive

LEMMA LeakNext == TypeOK /\ SessionInv /\ LeakInv /\ [Next]_vars => LeakInv'
  <1> SUFFICES ASSUME TypeOK, SessionInv, LeakInv, [Next]_vars PROVE LeakInv'
    OBVIOUS
  <1>1. TypeOK'
    BY TypeNext
  <1>2. CASE virtual.active /\ virtual'.active
    <2>1. CASE flips' = flips /\ Panning' = Panning
      BY <1>2, <2>1 DEF LeakInv
    <2>2. CASE flips' = flips + 1 /\ \E t \in Panning : Panning' = Panning \ {t}
      <3>1. Cardinality(Panning') = Cardinality(Panning) - 1
        BY <2>2, PanningFinite, FS_RemoveElement
      <3> QED
        BY <1>2, <2>2, <3>1, PanningFinite DEF LeakInv, TypeOK
    <2> QED
      BY <1>2, <2>1, <2>2, PanningShrinks
  <1>3. CASE ~virtual.active /\ virtual'.active
    <2>1. PICK t \in Threads : BeginVirtual(t)
      BY <1>3 DEF Next, vars, StockIoctl, VirtualPan, VirtualGet, PassPan, PassGet,
         ForwardIoctl, ForwardPan, ForwardGet, EnterCallback, CallbackStep,
         ReadVariable, CopyPixels, CaptureFails, GrabTouch, UngrabStock,
         TransferGrab, TransferFails, LaunchFails, Fork, WaitChild, RestorePixels,
         FinishVirtual, ReleaseTouch, RegrabStock, LeaveCallback, StockRoute,
         ChildStep, ArmDeathSignal, ChildExec, ChildExits, UiStep, DrawPage,
         ShowPage, PanAgain, SideReturns, SideKilled, PlayerDies, ReapOrphan,
         Reboot, Inactive, displayVars, TypeOK, VirtualType
    <2>2. Panning' \in SUBSET (Threads \ {t}) /\ flips' = 0
      BY <2>1, <1>1 DEF BeginVirtual, Goto, Panning, TypeOK
    <2>3. Cardinality(Panning') <= Cardinality(Threads) - 1 /\ Cardinality(Panning') \in Nat
      BY <2>2, ThreadsAssumption, FS_RemoveElement, FS_Subset, FS_CardinalityType
    <2> QED
      BY <1>3, <2>2, <2>3, PanningFinite DEF LeakInv
  <1>4. CASE ~virtual'.active
    <2>1. CASE \E t \in Threads : FinishVirtual(t)
      BY <1>4, <2>1 DEF FinishVirtual, LeakInv
    <2>2. CASE PlayerDies
      BY <1>4, <2>2 DEF PlayerDies, LeakInv
    <2>3. CASE ~(\E t \in Threads : FinishVirtual(t)) /\ ~PlayerDies
      <3>1. ~virtual.active /\ flips' = flips
        <4>1. CASE Reboot
          <5>1. ~virtual.active
            BY <4>1 DEF Reboot, SessionInv, ControlInv, Phase, Session, InSession,
               SessionPoints, OwningPoints
          <5> QED
            BY <4>1, <5>1 DEF Reboot
        <4>2. CASE ~Reboot
          BY <1>4, <2>3, <4>2 DEF Next, vars, StockIoctl, VirtualPan, VirtualGet,
             PassPan, PassGet, ForwardIoctl, ForwardPan, ForwardGet, EnterCallback,
             CallbackStep, ReadVariable, CopyPixels, CaptureFails, BeginVirtual,
             GrabTouch, UngrabStock, TransferGrab, TransferFails, LaunchFails, Fork,
             WaitChild, RestorePixels, ReleaseTouch, RegrabStock, LeaveCallback,
             StockRoute, ChildStep, ArmDeathSignal, ChildExec, ChildExits, UiStep,
             DrawPage, ShowPage, PanAgain, SideReturns, SideKilled, ReapOrphan,
             displayVars, TypeOK, VirtualType
        <4> QED
          BY <4>1, <4>2
      <3> QED
        BY <1>4, <3>1 DEF LeakInv
    <2> QED
      BY <2>1, <2>2, <2>3
  <1> QED
    BY <1>1, <1>2, <1>3, <1>4 DEF TypeOK, VirtualType

\* In one session at most one pan of each other thread reaches fb0.
THEOREM FewLeaks == Spec => []LeaksBounded
  <1>1. TypeOK /\ LeakInv => LeaksBounded
    BY PanningFinite DEF TypeOK, VirtualType, LeakInv, LeaksBounded
  <1> QED
    BY <1>1, LeakInit, LeakNext, TypeCorrect, SessionInvariant, PTL DEF Spec

===============================================================================
