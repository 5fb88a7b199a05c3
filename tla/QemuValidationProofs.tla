------------------------- MODULE QemuValidationProofs -------------------------
(***************************************************************************)
(* What a run of the QEMU validation that passed has on record, and which  *)
(* flaws it cannot have missed.                                            *)
(*                                                                         *)
(* The validation's script is typed and taken apart into the blocks that   *)
(* its functions contribute (Yields, Parts), so that a step has a place    *)
(* (SshAt, SixAt, ...).  For each flaw an invariant follows the guest from *)
(* the step that provokes the flaw to the step that sees it, and a run     *)
(* past that step has none of it (Past).                                   *)
(***************************************************************************)
EXTENDS QemuValidation, FiniteSetTheorems, SequenceTheorems, TLAPS

-------------------------------------------------------------------------------
(***************************************************************************)
(* The script.                                                             *)
(***************************************************************************)
Booted == {"stock", "candidate-present", "candidate-crash", "candidate-sd-absent"}
Touches == [drag : BOOLEAN, at : Nat \X Nat]
Word == {
  "main", "launcher", "internal", "sd", "memory", "system", "about",
  "back", "ssh_toggle", "launcher_toggle", "launcher_rejected", "drag_ignored",
  "wifi", "bluetooth", "wifi_route", "bluetooth_route"}
Words == SUBSET Word
Trials == {"publickey", "password", "unknown-key", "wrong-password"}
SaidLabels == {
  "stock-launcher", "default-launcher-71", "six-tile-launcher-77",
  "six-77-cfw-restored", "alternate-six-launcher-7d",
  "alternate-six-after-second-restart", "mp3-path-Music",
  "mp3-path-Lukrembo", "mp3-path-Jay", "mp3-selection-or-decoder-state",
  "route-default-music", "route-default-system", "route-default-about",
  "stock-touch-after-cfw-crash", "route-six-77-music",
  "route-six-77-stream", "route-six-77-wireless", "route-six-77-system",
  "route-six-77-about", "route-alternate-7d-ebook",
  "cfw-lifecycle-1-main", "cfw-lifecycle-2-main",
  "cfw-lifecycle-3-main", "cfw-main-sd-present", "six-77-cfw-open",
  "ssh-off", "ssh-off-again", "ssh-on-no-wifi", "ssh-on-after-reopen",
  "internal-storage", "microsd-present", "microsd-absent", "memory",
  "system-information", "about-cfw", "launcher-settings-71",
  "launcher-settings-77", "launcher-maximum-six-rejected",
  "launcher-settings-alternate-six-7d"}
Labels == SaidLabels \cup {"stock-wireless-from-cfw-wifi", "stock-wireless-from-cfw-bluetooth"}
Wanted == UNION {
  [screen : Words], [action : Words], [screen : Words, mask : SUBSET SUBSET Tiles],
  [screen : Words, action : Words], [screen : Words, action : Words, route : Words],
  [screen : Words, action : Words, mask : SUBSET SUBSET Tiles],
  [action : Words, mask : SUBSET SUBSET Tiles], [route : Words, action : Words] }
Commands == {"enable", "disable", "toggle", "is-enabled", "status", "dropbear -V", "dropbearkey"}

Steps == UNION {
  [op : {"start"}, runtime : Booted, cfw : BOOLEAN, sd : BOOLEAN, crash : BOOLEAN],
  [op : {"ready", "stop", "classify", "alive", "clear", "read"}],
  [op : {"stable", "capture"}, into : Holding],
  [op : {"change"}, from : Holding], [op : {"hash"}, of : Holding],
  [op : {"keep"}, of : Holding, into : Holding],
  [op : {"touch"}, touch : Touches],
  [op : {"semantic"}, wanted : Wanted, newer : BOOLEAN],
  [op : {"record"}, check : RequiredChecks], [op : {"promote"}, label : Labels],
  [op : {"save"}, label : Labels, frame : Holding],
  [op : {"config"}, mask : SUBSET Tiles], [op : {"fixture"}, present : BOOLEAN],
  [op : {"same", "differ"}, a : Holding, b : Holding],
  [op : {"markers"}, ssh : SUBSET {"fresh", "enabled", "disabled"}],
  [op : {"control"}, command : Commands, expected : {0, 1}],
  [op : {"ssh"}, trial : Trials] }

\* What a list of steps records, promotes and saves.
Elements(s) == {s[i] : i \in 1..Len(s)}
Records(s) == {x.check : x \in {y \in Elements(s) : y.op = "record"}}
Promotes(s) == {x.label : x \in {y \in Elements(s) : y.op = "promote"}}
Saves(s) == {x.label : x \in {y \in Elements(s) : y.op = "save"}}
IsList(s) == s \in Seq(Steps)
Yields(s, checks, labels, shots) ==
  /\ IsList(s)
  /\ Records(s) = checks /\ Promotes(s) = labels /\ Saves(s) = shots
Plain(s) == Yields(s, {}, {}, {})
Checks(s, checked) == Yields(s, {checked}, {}, {})
Puts(s, label) == Yields(s, {}, {label}, {})
Shoots(s, label) == Yields(s, {}, {}, {label})

\* A block of one step records, promotes and saves what that step does.
LEMMA OneStep ==
  ASSUME NEW x \in Steps
  PROVE  Yields(<<x>>, IF x.op = "record" THEN {x.check} ELSE {},
                       IF x.op = "promote" THEN {x.label} ELSE {},
                       IF x.op = "save" THEN {x.label} ELSE {})
<1>1. Len(<<x>>) = 1 /\ <<x>>[1] = x /\ <<x>> \in Seq(Steps) /\ 1..1 = {1}
  OBVIOUS
<1>2. Elements(<<x>>) = {x}
  BY <1>1 DEF Elements
<1> QED
  BY <1>1, <1>2 DEF Yields, Records, Promotes, Saves, IsList

\* A list of two lists.
LEMMA Places ==
  ASSUME NEW s \in Seq(Steps), NEW t \in Seq(Steps)
  PROVE  /\ s \o t \in Seq(Steps) /\ Len(s \o t) = Len(s) + Len(t)
         /\ Len(s) \in Nat /\ Len(t) \in Nat
         /\ \A i \in 1..Len(s) : i \in 1..Len(s \o t) /\ (s \o t)[i] = s[i]
         /\ \A i \in 1..Len(t) :
              Len(s) + i \in 1..Len(s \o t) /\ (s \o t)[Len(s) + i] = t[i]
         /\ \A i \in 1..Len(s \o t) :
              i \in 1..Len(s) \/ \E j \in 1..Len(t) : i = Len(s) + j
<1>1. PICK n, m, k \in Nat : n = Len(s) /\ m = Len(t) /\ k = Len(s \o t)
  BY ConcatProperties, LenProperties
<1>2. /\ k = n + m /\ s \o t \in Seq(Steps)
      /\ \A i \in 1 .. n + m : (s \o t)[i] = IF i <= n THEN s[i] ELSE t[i - n]
  BY <1>1, ConcatProperties
<1>3. /\ \A i \in 1..n : i \in 1..k /\ i <= n
      /\ \A i \in 1..m : n + i \in 1..k /\ ~(n + i <= n) /\ (n + i) - n = i
      /\ \A i \in 1..k : i \in 1..n \/ (i - n \in 1..m /\ i = n + (i - n))
  BY <1>2
<1> QED
  BY <1>1, <1>2, <1>3

\* What two lists record, promote and save together is what each does.
LEMMA Joined ==
  \A s, t \in Seq(Steps) :
    /\ s \o t \in Seq(Steps)
    /\ Records(s \o t) = Records(s) \cup Records(t)
    /\ Promotes(s \o t) = Promotes(s) \cup Promotes(t)
    /\ Saves(s \o t) = Saves(s) \cup Saves(t)
<1> SUFFICES ASSUME NEW s \in Seq(Steps), NEW t \in Seq(Steps)
             PROVE  /\ s \o t \in Seq(Steps)
                    /\ Elements(s \o t) = Elements(s) \cup Elements(t)
  BY DEF Records, Promotes, Saves
<1>1. Elements(s \o t) \subseteq Elements(s) \cup Elements(t)
  BY Places DEF Elements
<1>2. Elements(s) \subseteq Elements(s \o t)
  BY Places DEF Elements
<1>3. Elements(t) \subseteq Elements(s \o t)
  <2> SUFFICES ASSUME NEW i \in 1..Len(t)
               PROVE  t[i] \in Elements(s \o t)
    BY DEF Elements
  <2>1. Len(s) + i \in 1..Len(s \o t) /\ (s \o t)[Len(s) + i] = t[i]
    BY Places
  <2> QED
    BY <2>1 DEF Elements
<1> QED
  BY <1>1, <1>2, <1>3, Places

\* The lists of one step.
Points == Nat \X Nat

\* The helpers of the harness that are one step each, with what they leave.
LEMMA SingleSteps ==
  /\ Plain(Shutdown) /\ Plain(Classify) /\ Plain(Alive)
  /\ Plain(ClearSemantic) /\ Plain(Semantic)
  /\ \A n \in Holding : Plain(Stable(n)) /\ Plain(WaitChange(n)) /\ Plain(WaitHash(n))
                        /\ Plain(Capture(n))
  /\ \A m, n \in Holding : Plain(Same(m, n)) /\ Plain(Differ(m, n))
                            /\ Plain(<<[op |-> "keep", of |-> m, into |-> n]>>)
  /\ \A p \in Points : Plain(Tap(p)) /\ Plain(Drag(p))
  /\ \A checked \in RequiredChecks : Checks(Record(checked), checked)
  /\ \A label \in Labels : Puts(PromoteShot(label), label)
  /\ \A label \in Labels, n \in Holding : Shoots(Save(label, n), label)
  /\ \A mask \in SUBSET Tiles : Plain(Config(mask))
  /\ \A present \in BOOLEAN : Plain(Fixture(present))
  /\ \A ssh \in SUBSET {"fresh", "enabled", "disabled"} : Plain(Markers(ssh))
  /\ \A command \in Commands, expected \in {0, 1} : Plain(ControllerRun(command, expected))
  /\ \A trial \in Trials : Plain(Authenticate(trial))
  /\ \A wanted \in Wanted : Plain(WaitSemantic(wanted)) /\ Plain(WaitNewer(wanted))
<1>1. Plain(Shutdown) /\ Plain(Classify) /\ Plain(Alive) /\ Plain(ClearSemantic) /\ Plain(Semantic)
  <2>1. \A o \in {"stop", "classify", "alive", "clear", "read"} : [op |-> o] \in Steps
    BY DEF Steps
  <2> QED
    BY <2>1, OneStep DEF Shutdown, Classify, Alive, ClearSemantic, Semantic, Plain
<1>2. \A n \in Holding : Plain(Stable(n)) /\ Plain(WaitChange(n)) /\ Plain(WaitHash(n))
                        /\ Plain(Capture(n))
  <2> TAKE n \in Holding
  <2>1. /\ [op |-> "stable", into |-> n] \in Steps /\ [op |-> "capture", into |-> n] \in Steps
        /\ [op |-> "change", from |-> n] \in Steps /\ [op |-> "hash", of |-> n] \in Steps
    BY DEF Steps
  <2> QED
    BY <2>1, OneStep DEF Stable, WaitChange, WaitHash, Capture, Plain
<1>3. \A m, n \in Holding : Plain(Same(m, n)) /\ Plain(Differ(m, n))
                            /\ Plain(<<[op |-> "keep", of |-> m, into |-> n]>>)
  <2> TAKE m, n \in Holding
  <2>1. /\ [op |-> "same", a |-> m, b |-> n] \in Steps
        /\ [op |-> "differ", a |-> m, b |-> n] \in Steps
        /\ [op |-> "keep", of |-> m, into |-> n] \in Steps
    BY DEF Steps
  <2> QED
    BY <2>1, OneStep DEF Same, Differ, Plain
<1>4. \A p \in Points : Plain(Tap(p)) /\ Plain(Drag(p))
  <2> TAKE p \in Points
  <2>1. \A d \in BOOLEAN : [op |-> "touch", touch |-> [drag |-> d, at |-> p]] \in Steps
    BY DEF Steps, Touches, Points
  <2> QED
    BY <2>1, OneStep DEF Tap, Drag, Plain
<1>5. /\ \A checked \in RequiredChecks : Checks(Record(checked), checked)
      /\ \A label \in Labels : Puts(PromoteShot(label), label)
  <2>1. /\ \A checked \in RequiredChecks : [op |-> "record", check |-> checked] \in Steps
        /\ \A label \in Labels : [op |-> "promote", label |-> label] \in Steps
    BY DEF Steps
  <2> QED
    BY <2>1, OneStep DEF Record, PromoteShot, Checks, Puts
<1>6. \A label \in Labels, n \in Holding : Shoots(Save(label, n), label)
  <2> TAKE label \in Labels, n \in Holding
  <2>1. [op |-> "save", label |-> label, frame |-> n] \in Steps
    BY DEF Steps
  <2> QED
    BY <2>1, OneStep DEF Save, Shoots
<1>7. \A mask \in SUBSET Tiles : Plain(Config(mask))
  <2> TAKE mask \in SUBSET Tiles
  <2>1. [op |-> "config", mask |-> mask] \in Steps
    BY DEF Steps
  <2> QED
    BY <2>1, OneStep DEF Config, Plain
<1>8. /\ \A present \in BOOLEAN : Plain(Fixture(present))
      /\ \A ssh \in SUBSET {"fresh", "enabled", "disabled"} : Plain(Markers(ssh))
  <2>1. /\ \A present \in BOOLEAN : [op |-> "fixture", present |-> present] \in Steps
        /\ \A ssh \in SUBSET {"fresh", "enabled", "disabled"} : [op |-> "markers", ssh |-> ssh] \in Steps
    BY DEF Steps
  <2> QED
    BY <2>1, OneStep DEF Fixture, Markers, Plain
<1>9. /\ \A command \in Commands, expected \in {0, 1} : Plain(ControllerRun(command, expected))
      /\ \A trial \in Trials : Plain(Authenticate(trial))
  <2>1. /\ \A command \in Commands, expected \in {0, 1} :
             [op |-> "control", command |-> command, expected |-> expected] \in Steps
        /\ \A trial \in Trials : [op |-> "ssh", trial |-> trial] \in Steps
    BY DEF Steps
  <2> QED
    BY <2>1, OneStep DEF ControllerRun, Authenticate, Plain
<1>10. \A wanted \in Wanted : Plain(WaitSemantic(wanted)) /\ Plain(WaitNewer(wanted))
  <2>1. \A wanted \in Wanted, newer \in BOOLEAN :
          [op |-> "semantic", wanted |-> wanted, newer |-> newer] \in Steps
    BY DEF Steps
  <2> QED
    BY <2>1, OneStep DEF WaitSemantic, WaitNewer, Plain
<1> QED
  BY <1>1, <1>2, <1>3, <1>4, <1>5, <1>6, <1>7, <1>8, <1>9, <1>10

\* The same for blocks, which are lists of steps.
LEMMA Union ==
  \A s, t : IsList(s) /\ IsList(t) =>
    /\ IsList(s \o t)
    /\ Records(s \o t) = Records(s) \cup Records(t)
    /\ Promotes(s \o t) = Promotes(s) \cup Promotes(t)
    /\ Saves(s \o t) = Saves(s) \cup Saves(t)
BY Joined DEF IsList

\* Two blocks that leave nothing leave nothing together.
LEMMA PlainJoin ==
  \A s, t : Plain(s) /\ Plain(t) => Plain(s \o t)
BY Union DEF Plain, Yields

\* Lists put together.
LEMMA Union2 ==
  \A s, t, c, d, l, m, h, k :
    Yields(s, c, l, h) /\ Yields(t, d, m, k) => Yields(s \o t, c \cup d, l \cup m, h \cup k)
BY Union DEF Yields

\* How what a block yields grows when a step or a block is added.
LEMMA Adds ==
  /\ \A s, t, c, l, h : Yields(s, c, l, h) /\ Plain(t) => Yields(s \o t, c, l, h)
  /\ \A s : Plain(s) => Yields(s, {}, {}, {})
  /\ \A s, k : Shoots(s, k) => Yields(s, {}, {}, {} \cup {k})
  /\ \A s, t, c, l, h, k : Yields(s, c, l, h) /\ Shoots(t, k) => Yields(s \o t, c, l, h \cup {k})
  /\ \A s, t, c, l, h, d : Yields(s, c, l, h) /\ Checks(t, d) => Yields(s \o t, c \cup {d}, l, h)
  /\ \A s, t, c, l, h, m : Yields(s, c, l, h) /\ Puts(t, m) => Yields(s \o t, c, l \cup {m}, h)
<1>0. \A x : x \cup {} = x /\ {} \cup x = x
  OBVIOUS
<1>1. \A s, t, c, l, h : Yields(s, c, l, h) /\ Plain(t) => Yields(s \o t, c, l, h)
  <2> TAKE s, t, c, l, h
  <2> HAVE Yields(s, c, l, h) /\ Plain(t)
  <2>1. Yields(s \o t, c \cup {}, l \cup {}, h \cup {})
    BY Union2 DEF Plain
  <2> QED
    BY <1>0, <2>1
<1>2. \A s : Plain(s) => Yields(s, {}, {}, {})
  BY DEF Plain
<1>3. \A s, t, c, l, h, k : Yields(s, c, l, h) /\ Shoots(t, k) => Yields(s \o t, c, l, h \cup {k})
  <2> TAKE s, t, c, l, h, k
  <2> HAVE Yields(s, c, l, h) /\ Shoots(t, k)
  <2>1. Yields(s \o t, c \cup {}, l \cup {}, h \cup {k})
    BY Union2 DEF Shoots
  <2> QED
    BY <1>0, <2>1
<1>4. \A s, t, c, l, h, d : Yields(s, c, l, h) /\ Checks(t, d) => Yields(s \o t, c \cup {d}, l, h)
  <2> TAKE s, t, c, l, h, d
  <2> HAVE Yields(s, c, l, h) /\ Checks(t, d)
  <2>1. Yields(s \o t, c \cup {d}, l \cup {}, h \cup {})
    BY Union2 DEF Checks
  <2> QED
    BY <1>0, <2>1
<1>5. \A s, t, c, l, h, m : Yields(s, c, l, h) /\ Puts(t, m) => Yields(s \o t, c, l \cup {m}, h)
  <2> TAKE s, t, c, l, h, m
  <2> HAVE Yields(s, c, l, h) /\ Puts(t, m)
  <2>1. Yields(s \o t, c \cup {}, l \cup {m}, h \cup {})
    BY Union2 DEF Puts
  <2> QED
    BY <1>0, <2>1
<1> QED
  BY <1>0, <1>1, <1>2, <1>3, <1>4, <1>5 DEF Shoots

\* The functions of one touch.
LEMMA Masks ==
  /\ Tiles = {"music", "stream", "wireless", "ebook", "system", "cfw", "about"}
  /\ DefaultMask \in SUBSET Tiles /\ SixTiles \in SUBSET Tiles
  /\ AlternateSix \in SUBSET Tiles /\ SafeMasks \in SUBSET SUBSET Tiles
  /\ DefaultMask \cup {"stream"} \in SUBSET Tiles /\ SixTiles \ {"stream"} \in SUBSET Tiles
<1>1. Tiles = {"music", "stream", "wireless", "ebook", "system", "cfw", "about"}
  <2>1. 1..7 = {1, 2, 3, 4, 5, 6, 7}
    OBVIOUS
  <2> QED
    BY <2>1 DEF Tiles, TileOrder
<1> QED
  BY <1>1 DEF DefaultMask, SixTiles, AlternateSix, SafeMasks, ValidMask

\* Every place that a script touches is a point of the screen.
LEMMA Rows ==
  /\ \A row \in Nat : Row(row) \in Points
  /\ BackTouch \in Points /\ StockBack \in Points
  /\ DefaultCfwTile \in Points /\ SixCfwTile \in Points
BY DEF Row, HeaderHeight, RowHeight, Points, MiddleRight, BackTouch, StockBack, DefaultCfwTile, SixCfwTile

\* What is waited for.
LEMMA Wants ==
  /\ [screen |-> {"main"}, mask |-> SafeMasks] \in Wanted
  /\ [screen |-> {"main"}, mask |-> {DefaultMask}] \in Wanted
  /\ [screen |-> {"main"}, action |-> {"back"}] \in Wanted
  /\ [action |-> {"ssh_toggle"}] \in Wanted
  /\ [screen |-> {"main"}, action |-> {"back"}, route |-> {"back"}] \in Wanted
  /\ \A mask \in SUBSET Tiles :
       [screen |-> {"launcher"}, action |-> {"launcher_toggle"}, mask |-> {mask}] \in Wanted
  /\ \A screen \in Word : [screen |-> {screen}] \in Wanted
  /\ \A mask \in SUBSET Tiles : [screen |-> {"launcher"}, mask |-> {mask}] \in Wanted
  /\ \A mask \in SUBSET Tiles :
       [screen |-> {"launcher"}, action |-> {"launcher_rejected"}, mask |-> {mask}] \in Wanted
  /\ \A mask \in SUBSET Tiles, action \in Word :
       [action |-> {action}, mask |-> {mask}] \in Wanted
  /\ \A route, action \in Word : [route |-> {route}, action |-> {action}] \in Wanted
<1>1. [screen |-> {"main"}, mask |-> SafeMasks] \in Wanted
  BY Masks DEF Wanted, Words, Word
<1>0. [screen |-> {"main"}, mask |-> {DefaultMask}] \in Wanted
  BY Masks DEF Wanted, Words, Word
<1>2. [screen |-> {"main"}, action |-> {"back"}] \in Wanted
  BY Masks DEF Wanted, Words, Word
<1>3. [action |-> {"ssh_toggle"}] \in Wanted
  BY Masks DEF Wanted, Words, Word
<1>4. [screen |-> {"main"}, action |-> {"back"}, route |-> {"back"}] \in Wanted
  BY Masks DEF Wanted, Words, Word
<1>5. \A mask \in SUBSET Tiles : [screen |-> {"launcher"}, action |-> {"launcher_toggle"}, mask |-> {mask}] \in Wanted
  BY Masks DEF Wanted, Words, Word
<1>6. \A screen \in Word : [screen |-> {screen}] \in Wanted
  BY Masks DEF Wanted, Words, Word
<1>7. \A mask \in SUBSET Tiles : [screen |-> {"launcher"}, mask |-> {mask}] \in Wanted
  BY Masks DEF Wanted, Words, Word
<1>8. \A mask \in SUBSET Tiles : [screen |-> {"launcher"}, action |-> {"launcher_rejected"}, mask |-> {mask}] \in Wanted
  BY Masks DEF Wanted, Words, Word
<1>9. \A mask \in SUBSET Tiles, action \in Word : [action |-> {action}, mask |-> {mask}] \in Wanted
  BY Masks DEF Wanted, Words, Word
<1>10. \A route, action \in Word : [route |-> {route}, action |-> {action}] \in Wanted
  BY Masks DEF Wanted, Words, Word
<1> QED
  BY <1>0, <1>1, <1>2, <1>3, <1>4, <1>5, <1>6, <1>7, <1>8, <1>9, <1>10

\* The small helpers of several steps: save_now, toggles, open and leave.
LEMMA SmallFunctions ==
  /\ \A label \in Labels : Shoots(SaveNow(label), label)
  /\ \A point \in Points : Plain(TapChange(point)) /\ Plain(OpenCfw(point))
  /\ Plain(BackToMain) /\ Plain(ToggleSsh)
  /\ \A name \in Holding : Plain(LeaveCfw(name))
  /\ \A row \in Nat, mask \in SUBSET Tiles : Plain(Toggles(row, mask))
<1> USE PlainJoin, SingleSteps, Wants, Masks, Rows
<1>0. {"last", "base"} \subseteq Holding
  BY DEF Holding
<1>1. \A label \in Labels : Shoots(SaveNow(label), label)
  BY <1>0, Union DEF SaveNow, Yields, Plain, Shoots
<1>2. \A point \in Points : Plain(TapChange(point))
  BY <1>0 DEF TapChange
<1>3. \A point \in Points : Plain(OpenCfw(point))
  BY <1>0 DEF OpenCfw
<1>4. Plain(BackToMain)
  BY DEF BackToMain
<1>5. Plain(ToggleSsh)
  BY DEF ToggleSsh
<1>6. \A name \in Holding : Plain(LeaveCfw(name))
  BY DEF LeaveCfw
<1>7. \A row \in Nat, mask \in SUBSET Tiles : Plain(Toggles(row, mask))
  BY DEF Toggles
<1> QED
  BY <1>1, <1>2, <1>3, <1>4, <1>5, <1>6, <1>7

\* stock_tile_roundtrip leaves one picture.
LEMMA Roundtrips ==
  \A label \in Labels, point \in Points :
    Shoots(StockTileRoundtrip(label, point), label)
<1> {"last", "launcher"} \subseteq Holding
  BY DEF Holding
<1>1. \A label \in Labels, point \in Points :
        Yields(StockTileRoundtrip(label, point), {}, {}, {} \cup {label})
  BY SmallFunctions, SingleSteps, Adds, Rows DEF StockTileRoundtrip
<1> QED
  BY <1>1 DEF Shoots

\* The functions of the sessions.
LEMMA Starts ==
  \A runtime \in Booted, cfw \in BOOLEAN, sd \in BOOLEAN, crash \in BOOLEAN :
    Plain(Boot(runtime, cfw, sd, crash))
<1> TAKE runtime \in Booted, cfw \in BOOLEAN, sd \in BOOLEAN, crash \in BOOLEAN
<1> DEFINE start == [op |-> "start", runtime |-> runtime, cfw |-> cfw, sd |-> sd, crash |-> crash]
           ready == [op |-> "ready"]
           stable == [op |-> "stable", into |-> "launcher"]
<1>1. start \in Steps /\ ready \in Steps /\ stable \in Steps
  BY DEF Steps, Holding
<1>2. /\ Boot(runtime, cfw, sd, crash) \in Seq(Steps)
      /\ Elements(Boot(runtime, cfw, sd, crash)) = {start, ready, stable}
  <2> HIDE <1>1
  <2>1. 1..3 = {1, 2, 3}
    OBVIOUS
  <2> QED
    BY <1>1, <2>1 DEF Boot, Elements
<1> QED
  BY <1>2 DEF Plain, Yields, Records, Promotes, Saves, IsList

\* Starting a session leaves nothing.
LEMMA Boots ==
  /\ Plain(Boot("stock", FALSE, TRUE, FALSE))
  /\ Plain(Boot("candidate-present", TRUE, TRUE, FALSE))
  /\ Plain(Boot("candidate-crash", TRUE, TRUE, TRUE))
  /\ Plain(Boot("candidate-sd-absent", TRUE, FALSE, FALSE))
BY Starts DEF Booted

\* The frames that the harness holds have these names.
LEMMA Held ==
  {"launcher", "base", "settings", "cfw", "present", "top", "last"} \subseteq Holding
BY DEF Holding

\* The masks that a script sets are sets of tiles.
LEMMA MaskSets ==
  /\ DefaultMask \in SUBSET Tiles /\ SixTiles \in SUBSET Tiles
  /\ AlternateSix \in SUBSET Tiles
  /\ DefaultMask \cup {"stream"} \in SUBSET Tiles /\ SixTiles \ {"stream"} \in SUBSET Tiles
BY Masks

\* The tiles and files that a script touches are points of the screen.
LEMMA TapPoints ==
  /\ StockFiles \in Points /\ FirstItem \in Points /\ DragStart \in Points
  /\ TopWide \in Points /\ BottomWide \in Points
  /\ UpperLeft \in Points /\ UpperRight \in Points
  /\ MiddleLeft \in Points /\ MiddleRight \in Points /\ LowerRight \in Points
BY DEF Points, StockFiles, FirstItem, DragStart, TopWide, BottomWide, UpperLeft, UpperRight,
       MiddleLeft, MiddleRight, LowerRight

\* What validate_stock records and saves.
LEMMA ValidateStockYields ==
  Yields(ValidateStock, {"stock.launcher", "stock.mp3-fixture"},
    {},
    {"stock-launcher", "mp3-path-Music", "mp3-path-Lukrembo", "mp3-path-Jay",
     "mp3-selection-or-decoder-state"})
<1>1. /\ {"stock.launcher", "stock.mp3-fixture"} \subseteq RequiredChecks
      /\ {"mp3-path-Jay", "mp3-path-Lukrembo", "mp3-path-Music",
         "mp3-selection-or-decoder-state", "stock-launcher"} \subseteq Labels
  BY DEF RequiredChecks, Labels, SaidLabels
<1>2. /\ Plain(Boot("stock", FALSE, TRUE, FALSE))
      /\ Plain(Classify)
      /\ Shoots(Save("stock-launcher", "launcher"), "stock-launcher")
      /\ Checks(Record("stock.launcher"), "stock.launcher")
      /\ Plain(Fixture(TRUE))
      /\ Plain(TapChange(UpperLeft))
      /\ Plain(TapChange(StockFiles))
      /\ Plain(TapChange(FirstItem))
      /\ Shoots(Save("mp3-path-Music", "last"), "mp3-path-Music")
      /\ Shoots(Save("mp3-path-Lukrembo", "last"), "mp3-path-Lukrembo")
      /\ Shoots(Save("mp3-path-Jay", "last"), "mp3-path-Jay")
      /\ Shoots(Save("mp3-selection-or-decoder-state", "last"),
         "mp3-selection-or-decoder-state")
      /\ Checks(Record("stock.mp3-fixture"), "stock.mp3-fixture")
      /\ Plain(Shutdown)
  BY <1>1, SmallFunctions, SingleSteps, Boots, MaskSets, Held, TapPoints
<1>3. Yields(Boot("stock", FALSE, TRUE, FALSE) \o Classify \o Save("stock-launcher",
         "launcher") \o Record("stock.launcher") \o Fixture(TRUE) \o
         TapChange(UpperLeft),
         {} \cup {"stock.launcher"}, {},
         {} \cup {"stock-launcher"})
  BY <1>2, Adds, Zenon
<1>4. Yields(Boot("stock", FALSE, TRUE, FALSE) \o Classify \o Save("stock-launcher",
         "launcher") \o Record("stock.launcher") \o Fixture(TRUE) \o
         TapChange(UpperLeft) \o TapChange(StockFiles) \o TapChange(FirstItem) \o
         Save("mp3-path-Music", "last") \o TapChange(FirstItem) \o
         Save("mp3-path-Lukrembo", "last"),
         {} \cup {"stock.launcher"}, {},
         {} \cup {"stock-launcher"} \cup {"mp3-path-Music"} \cup
         {"mp3-path-Lukrembo"})
  BY <1>2, <1>3, Adds, Zenon
<1>5. Yields(ValidateStock,
         {} \cup {"stock.launcher"} \cup {"stock.mp3-fixture"}, {},
         {} \cup {"stock-launcher"} \cup {"mp3-path-Music"} \cup
         {"mp3-path-Lukrembo"} \cup {"mp3-path-Jay"} \cup
         {"mp3-selection-or-decoder-state"})
  BY <1>2, <1>4, Adds, Zenon DEF ValidateStock
<1> QED
  BY <1>5

\* What the part of validate_candidate_default up to the CFW tile yields.
LEMMA DefaultRoutesYields ==
  Yields(DefaultRoutes, {"default.launcher.71", "default.stock-routes"},
    {"default-launcher-71"},
    {"default-launcher-71", "route-default-music", "route-default-system",
     "route-default-about"})
<1>1. /\ {"default.launcher.71", "default.stock-routes"} \subseteq RequiredChecks
      /\ {"default-launcher-71", "route-default-about", "route-default-music",
         "route-default-system"} \subseteq Labels
  BY DEF RequiredChecks, Labels, SaidLabels
<1>2. /\ Plain(Boot("candidate-present", TRUE, TRUE, FALSE))
      /\ Shoots(Save("default-launcher-71", "launcher"), "default-launcher-71")
      /\ Plain(Config(DefaultMask))
      /\ Checks(Record("default.launcher.71"), "default.launcher.71")
      /\ Puts(PromoteShot("default-launcher-71"), "default-launcher-71")
      /\ Shoots(StockTileRoundtrip("route-default-music", TopWide),
         "route-default-music")
      /\ Shoots(StockTileRoundtrip("route-default-system", MiddleLeft),
         "route-default-system")
      /\ Shoots(StockTileRoundtrip("route-default-about", BottomWide),
         "route-default-about")
      /\ Checks(Record("default.stock-routes"), "default.stock-routes")
  BY <1>1, SmallFunctions, SingleSteps, Boots, MaskSets, Held, TapPoints, Roundtrips
<1>3. Yields(Boot("candidate-present", TRUE, TRUE, FALSE) \o Save("default-launcher-71",
         "launcher") \o Config(DefaultMask) \o Record("default.launcher.71") \o
         PromoteShot("default-launcher-71") \o StockTileRoundtrip("route-default-music",
         TopWide),
         {} \cup {"default.launcher.71"}, {} \cup {"default-launcher-71"},
         {} \cup {"default-launcher-71"} \cup {"route-default-music"})
  BY <1>2, Adds, Zenon
<1>4. Yields(DefaultRoutes,
         {} \cup {"default.launcher.71"} \cup {"default.stock-routes"}, {} \cup
         {"default-launcher-71"},
         {} \cup {"default-launcher-71"} \cup {"route-default-music"} \cup
         {"route-default-system"} \cup {"route-default-about"})
  BY <1>2, <1>3, Adds, Zenon DEF DefaultRoutes
<1> QED
  BY <1>4

\* Opening and leaving the sidecar once leaves one picture.
LEMMA OpenAndLeaveYields ==
  \A label \in Labels :
    Shoots(OpenAndLeave(label), label)
<1> TAKE label \in Labels
<1>2. /\ Plain(OpenCfw(DefaultCfwTile))
      /\ Shoots(SaveNow(label), label)
      /\ Plain(LeaveCfw("base"))
  BY SmallFunctions, SingleSteps, Boots, MaskSets, Held, TapPoints, Rows
<1>3. Yields(OpenAndLeave(label),
         {}, {},
         {} \cup {label})
  BY <1>2, Adds, Zenon DEF OpenAndLeave
<1> QED
  BY <1>3 DEF Shoots

\* What the three openings of the sidecar yield.
LEMMA LifecycleYields ==
  Yields(CfwLifecycle, {"cfw.lifecycle", "cfw.framebuffer-restore"},
    {},
    {"cfw-lifecycle-1-main", "cfw-lifecycle-2-main", "cfw-lifecycle-3-main"})
<1>1. /\ {"cfw.lifecycle", "cfw.framebuffer-restore"} \subseteq RequiredChecks
      /\ {"cfw-lifecycle-1-main", "cfw-lifecycle-2-main", "cfw-lifecycle-3-main"} \subseteq
         Labels
  BY DEF RequiredChecks, Labels, SaidLabels
<1>2. /\ Shoots(OpenAndLeave("cfw-lifecycle-1-main"), "cfw-lifecycle-1-main")
      /\ Shoots(OpenAndLeave("cfw-lifecycle-2-main"), "cfw-lifecycle-2-main")
      /\ Shoots(OpenAndLeave("cfw-lifecycle-3-main"), "cfw-lifecycle-3-main")
      /\ Checks(Record("cfw.lifecycle"), "cfw.lifecycle")
      /\ Checks(Record("cfw.framebuffer-restore"), "cfw.framebuffer-restore")
  BY <1>1, OpenAndLeaveYields, SingleSteps
<1>3. Yields(CfwLifecycle,
         {} \cup {"cfw.lifecycle"} \cup {"cfw.framebuffer-restore"}, {},
         {} \cup {"cfw-lifecycle-1-main"} \cup {"cfw-lifecycle-2-main"} \cup
         {"cfw-lifecycle-3-main"})
  BY <1>2, Adds, Zenon DEF CfwLifecycle
<1> QED
  BY <1>3

\* What the part about the SSH row yields.
LEMMA SshTogglesYields ==
  Yields(SshToggles, {"cfw.ssh"},
    {"cfw-main-sd-present"},
    {"cfw-main-sd-present", "ssh-off", "ssh-on-no-wifi", "ssh-on-after-reopen",
     "ssh-off-again"})
<1>1. /\ {"cfw.ssh"} \subseteq RequiredChecks
      /\ {"cfw-main-sd-present", "ssh-off", "ssh-off-again", "ssh-on-after-reopen",
         "ssh-on-no-wifi"} \subseteq Labels
  BY DEF RequiredChecks, Labels, SaidLabels
<1>2. /\ Plain(OpenCfw(DefaultCfwTile))
      /\ Shoots(SaveNow("cfw-main-sd-present"), "cfw-main-sd-present")
      /\ Puts(PromoteShot("cfw-main-sd-present"), "cfw-main-sd-present")
      /\ Plain(Markers({"fresh", "disabled"}))
      /\ Shoots(SaveNow("ssh-off"), "ssh-off")
      /\ Plain(ToggleSsh)
      /\ Plain(Markers({"enabled"}))
      /\ Shoots(SaveNow("ssh-on-no-wifi"), "ssh-on-no-wifi")
      /\ Plain(LeaveCfw("base"))
      /\ Shoots(SaveNow("ssh-on-after-reopen"), "ssh-on-after-reopen")
      /\ Plain(Markers({"disabled"}))
      /\ Shoots(SaveNow("ssh-off-again"), "ssh-off-again")
      /\ Checks(Record("cfw.ssh"), "cfw.ssh")
  BY <1>1, SmallFunctions, SingleSteps, Boots, MaskSets, Held, TapPoints, Rows
<1>3. Yields(OpenCfw(DefaultCfwTile) \o SaveNow("cfw-main-sd-present") \o
         PromoteShot("cfw-main-sd-present") \o Markers({"fresh", "disabled"}) \o
         SaveNow("ssh-off") \o ToggleSsh,
         {}, {} \cup {"cfw-main-sd-present"},
         {} \cup {"cfw-main-sd-present"} \cup {"ssh-off"})
  BY <1>2, Adds, Zenon
<1>4. Yields(OpenCfw(DefaultCfwTile) \o SaveNow("cfw-main-sd-present") \o
         PromoteShot("cfw-main-sd-present") \o Markers({"fresh", "disabled"}) \o
         SaveNow("ssh-off") \o ToggleSsh \o Markers({"enabled"}) \o
         SaveNow("ssh-on-no-wifi") \o LeaveCfw("base") \o OpenCfw(DefaultCfwTile) \o
         SaveNow("ssh-on-after-reopen"),
         {}, {} \cup {"cfw-main-sd-present"},
         {} \cup {"cfw-main-sd-present"} \cup {"ssh-off"} \cup {"ssh-on-no-wifi"}
         \cup {"ssh-on-after-reopen"})
  BY <1>2, <1>3, Adds, Zenon
<1>5. Yields(SshToggles,
         {} \cup {"cfw.ssh"}, {} \cup {"cfw-main-sd-present"},
         {} \cup {"cfw-main-sd-present"} \cup {"ssh-off"} \cup {"ssh-on-no-wifi"}
         \cup {"ssh-on-after-reopen"} \cup {"ssh-off-again"})
  BY <1>2, <1>4, Adds, Zenon DEF SshToggles
<1> QED
  BY <1>5

\* A visit to a page of the sidecar leaves one picture.
LEMMA CfwPageYields ==
  \A row \in Nat, screen \in Word, label \in Labels :
    Shoots(CfwPage(row, screen, label), label)
<1> TAKE row \in Nat, screen \in Word, label \in Labels
<1>2. /\ Plain(Semantic)
      /\ Plain(Tap(Row(row)))
      /\ Plain(WaitNewer([screen |-> {screen}]))
      /\ Shoots(SaveNow(label), label)
      /\ Plain(BackToMain)
  BY SmallFunctions, SingleSteps, Boots, MaskSets, Held, TapPoints, Rows, Wants
<1>3. Yields(CfwPage(row, screen, label),
         {}, {},
         {} \cup {label})
  BY <1>2, Adds, Zenon DEF CfwPage
<1> QED
  BY <1>3 DEF Shoots

\* What the visits to the information pages yield.
LEMMA InformationPagesYields ==
  Yields(InformationPages, {"cfw.information-pages", "storage.sd-present"},
    {},
    {"internal-storage", "microsd-present", "memory", "system-information",
     "about-cfw"})
<1>1. /\ {"cfw.information-pages", "storage.sd-present"} \subseteq RequiredChecks
      /\ {"about-cfw", "internal-storage", "memory", "microsd-present", "system-information"}
         \subseteq Labels
  BY DEF RequiredChecks, Labels, SaidLabels
<1>2. /\ Shoots(CfwPage(4, "internal", "internal-storage"), "internal-storage")
      /\ Shoots(CfwPage(5, "sd", "microsd-present"), "microsd-present")
      /\ Plain(<<[op |-> "keep", of |-> "last", into |-> "present"]>>)
      /\ Shoots(CfwPage(6, "memory", "memory"), "memory")
      /\ Shoots(CfwPage(7, "system", "system-information"), "system-information")
      /\ Shoots(CfwPage(8, "about", "about-cfw"), "about-cfw")
      /\ Checks(Record("cfw.information-pages"), "cfw.information-pages")
      /\ Checks(Record("storage.sd-present"), "storage.sd-present")
  BY <1>1, CfwPageYields, SingleSteps, Held DEF Word
<1>3. Yields(InformationPages,
         {} \cup {"cfw.information-pages"} \cup {"storage.sd-present"}, {},
         {} \cup {"internal-storage"} \cup {"microsd-present"} \cup {"memory"} \cup
         {"system-information"} \cup {"about-cfw"})
  BY <1>2, Adds, Zenon DEF InformationPages
<1> QED
  BY <1>3

\* What the part about the launcher settings yields.
LEMMA LauncherSettingsYields ==
  Yields(LauncherSettings, {"launcher.maximum-rejected",
    "launcher.drag-no-activation", "cfw.launcher-settings"},
    {},
    {"launcher-settings-71", "launcher-settings-77",
     "launcher-maximum-six-rejected"})
<1>1. /\ {"launcher.maximum-rejected", "launcher.drag-no-activation",
         "cfw.launcher-settings"} \subseteq RequiredChecks
      /\ {"launcher-maximum-six-rejected", "launcher-settings-71", "launcher-settings-77"}
         \subseteq Labels
  BY DEF RequiredChecks, Labels, SaidLabels
<1>2. /\ Plain(Semantic)
      /\ Plain(Tap(Row(3)))
      /\ Plain(WaitNewer([screen |-> {"launcher"}, mask |-> {DefaultMask}]))
      /\ Shoots(SaveNow("launcher-settings-71"), "launcher-settings-71")
      /\ Plain(Toggles(1, DefaultMask \cup {"stream"}))
      /\ Plain(Toggles(2, SixTiles))
      /\ Plain(Capture("settings"))
      /\ Shoots(Save("launcher-settings-77", "settings"), "launcher-settings-77")
      /\ Plain(WaitNewer([screen |-> {"launcher"}, action |-> {"launcher_rejected"},
         mask |-> {SixTiles}]))
      /\ Plain(WaitChange("settings"))
      /\ Shoots(Save("launcher-maximum-six-rejected", "last"),
         "launcher-maximum-six-rejected")
      /\ Plain(Config(SixTiles))
      /\ Checks(Record("launcher.maximum-rejected"), "launcher.maximum-rejected")
      /\ Plain(Tap(Row(5)))
      /\ Plain(WaitNewer([action |-> {"launcher_rejected"}, mask |-> {SixTiles}]))
      /\ Plain(Drag(DragStart))
      /\ Plain(WaitNewer([action |-> {"drag_ignored"}, mask |-> {SixTiles}]))
      /\ Checks(Record("launcher.drag-no-activation"),
         "launcher.drag-no-activation")
      /\ Plain(Tap(BackTouch))
      /\ Plain(WaitSemantic([screen |-> {"main"}, action |-> {"back"}]))
      /\ Checks(Record("cfw.launcher-settings"), "cfw.launcher-settings")
      /\ Plain(LeaveCfw("base"))
  BY <1>1, SmallFunctions, SingleSteps, Boots, MaskSets, Held, TapPoints, Rows, Wants, TapPoints DEF Word
<1>3. Yields(Semantic \o Tap(Row(3)) \o WaitNewer([screen |-> {"launcher"}, mask |->
         {DefaultMask}]) \o SaveNow("launcher-settings-71") \o Toggles(1,
         DefaultMask \cup {"stream"}) \o Toggles(2, SixTiles),
         {}, {},
         {} \cup {"launcher-settings-71"})
  BY <1>2, Adds, Zenon
<1>4. Yields(Semantic \o Tap(Row(3)) \o WaitNewer([screen |-> {"launcher"}, mask |->
         {DefaultMask}]) \o SaveNow("launcher-settings-71") \o Toggles(1,
         DefaultMask \cup {"stream"}) \o Toggles(2, SixTiles) \o Capture("settings")
         \o Save("launcher-settings-77", "settings") \o Tap(Row(3)) \o
         WaitNewer([screen |-> {"launcher"}, action |-> {"launcher_rejected"}, mask
         |-> {SixTiles}]) \o WaitChange("settings"),
         {}, {},
         {} \cup {"launcher-settings-71"} \cup {"launcher-settings-77"})
  BY <1>2, <1>3, Adds, Zenon
<1>5. Yields(Semantic \o Tap(Row(3)) \o WaitNewer([screen |-> {"launcher"}, mask |->
         {DefaultMask}]) \o SaveNow("launcher-settings-71") \o Toggles(1,
         DefaultMask \cup {"stream"}) \o Toggles(2, SixTiles) \o Capture("settings")
         \o Save("launcher-settings-77", "settings") \o Tap(Row(3)) \o
         WaitNewer([screen |-> {"launcher"}, action |-> {"launcher_rejected"}, mask
         |-> {SixTiles}]) \o WaitChange("settings") \o
         Save("launcher-maximum-six-rejected", "last") \o Config(SixTiles) \o
         Record("launcher.maximum-rejected") \o Tap(Row(5)) \o WaitNewer([action |->
         {"launcher_rejected"}, mask |-> {SixTiles}]),
         {} \cup {"launcher.maximum-rejected"}, {},
         {} \cup {"launcher-settings-71"} \cup {"launcher-settings-77"} \cup
         {"launcher-maximum-six-rejected"})
  BY <1>2, <1>4, Adds, Zenon
<1>6. Yields(Semantic \o Tap(Row(3)) \o WaitNewer([screen |-> {"launcher"}, mask |->
         {DefaultMask}]) \o SaveNow("launcher-settings-71") \o Toggles(1,
         DefaultMask \cup {"stream"}) \o Toggles(2, SixTiles) \o Capture("settings")
         \o Save("launcher-settings-77", "settings") \o Tap(Row(3)) \o
         WaitNewer([screen |-> {"launcher"}, action |-> {"launcher_rejected"}, mask
         |-> {SixTiles}]) \o WaitChange("settings") \o
         Save("launcher-maximum-six-rejected", "last") \o Config(SixTiles) \o
         Record("launcher.maximum-rejected") \o Tap(Row(5)) \o WaitNewer([action |->
         {"launcher_rejected"}, mask |-> {SixTiles}]) \o Drag(DragStart) \o
         WaitNewer([action |-> {"drag_ignored"}, mask |-> {SixTiles}]) \o
         Config(SixTiles) \o Record("launcher.drag-no-activation") \o
         Tap(BackTouch),
         {} \cup {"launcher.maximum-rejected"} \cup {"launcher.drag-no-activation"},
         {},
         {} \cup {"launcher-settings-71"} \cup {"launcher-settings-77"} \cup
         {"launcher-maximum-six-rejected"})
  BY <1>2, <1>5, Adds, Zenon
<1>7. Yields(LauncherSettings,
         {} \cup {"launcher.maximum-rejected"} \cup {"launcher.drag-no-activation"}
         \cup {"cfw.launcher-settings"}, {},
         {} \cup {"launcher-settings-71"} \cup {"launcher-settings-77"} \cup
         {"launcher-maximum-six-rejected"})
  BY <1>2, <1>6, Adds, Zenon DEF LauncherSettings
<1> QED
  BY <1>7

\* A hand-over to a wireless page leaves one check and one picture.
LEMMA WirelessRouteYields ==
  \A checked \in RequiredChecks, row \in Nat, route, action \in Word, label \in Labels :
  Yields(WirelessRoute(checked, row, route, action, label), {checked},
    {},
    {label})
<1> TAKE checked \in RequiredChecks, row \in Nat, route, action \in Word, label \in Labels
<1>2. /\ Plain(OpenCfw(DefaultCfwTile))
      /\ Plain(Capture("cfw"))
      /\ Plain(Tap(Row(row)))
      /\ Plain(WaitNewer([route |-> {route}, action |-> {action}]))
      /\ Plain(WaitChange("cfw"))
      /\ Shoots(Save(label, "last"), label)
      /\ Plain(Tap(StockBack))
      /\ Plain(WaitHash("base"))
      /\ Checks(Record(checked), checked)
  BY SmallFunctions, SingleSteps, Boots, MaskSets, Held, TapPoints, Rows, Wants, TapPoints
<1>3. Yields(OpenCfw(DefaultCfwTile) \o Capture("cfw") \o Tap(Row(row)) \o
         WaitNewer([route |-> {route}, action |-> {action}]) \o WaitChange("cfw") \o
         Save(label, "last"),
         {}, {},
         {} \cup {label})
  BY <1>2, Adds, Zenon
<1>4. Yields(WirelessRoute(checked, row, route, action, label),
         {} \cup {checked}, {},
         {} \cup {label})
  BY <1>2, <1>3, Adds, Zenon DEF WirelessRoute
<1> QED
  BY <1>4

\* What validate_crash_recovery records and saves.
LEMMA ValidateCrashRecoveryYields ==
  Yields(ValidateCrashRecovery, {"cfw.crash-recovery"},
    {},
    {"stock-touch-after-cfw-crash"})
<1>1. /\ {"cfw.crash-recovery"} \subseteq RequiredChecks
      /\ {"stock-touch-after-cfw-crash"} \subseteq Labels
  BY DEF RequiredChecks, Labels, SaidLabels
<1>2. /\ Plain(Boot("candidate-crash", TRUE, TRUE, TRUE))
      /\ Plain(ClearSemantic)
      /\ Plain(Tap(DefaultCfwTile))
      /\ Plain(WaitSemantic([screen |-> {"main"}, mask |-> {DefaultMask}]))
      /\ Plain(WaitHash("launcher"))
      /\ Plain(Alive)
      /\ Plain(TapChange(TopWide))
      /\ Shoots(Save("stock-touch-after-cfw-crash", "last"),
         "stock-touch-after-cfw-crash")
      /\ Plain(Tap(StockBack))
      /\ Checks(Record("cfw.crash-recovery"), "cfw.crash-recovery")
      /\ Plain(Shutdown)
  BY <1>1, SmallFunctions, SingleSteps, Boots, MaskSets, Held, TapPoints, Wants, Rows
<1>3. Yields(Boot("candidate-crash", TRUE, TRUE, TRUE) \o ClearSemantic \o
         Tap(DefaultCfwTile) \o WaitSemantic([screen |-> {"main"}, mask |->
         {DefaultMask}]) \o WaitHash("launcher") \o Alive,
         {}, {},
         {})
  BY <1>2, Adds, Zenon
<1>4. Yields(ValidateCrashRecovery,
         {} \cup {"cfw.crash-recovery"}, {},
         {} \cup {"stock-touch-after-cfw-crash"})
  BY <1>2, <1>3, Adds, Zenon DEF ValidateCrashRecovery
<1> QED
  BY <1>4

\* What the part of validate_six_tile_launcher before the swap yields.
LEMMA SixRoutesYields ==
  Yields(SixRoutes, {"launcher.persistence.77", "launcher.six-tile-routes"},
    {"six-tile-launcher-77"},
    {"six-tile-launcher-77", "route-six-77-music", "route-six-77-stream",
     "route-six-77-wireless", "route-six-77-system", "route-six-77-about",
     "six-77-cfw-open", "six-77-cfw-restored"})
<1>1. /\ {"launcher.persistence.77", "launcher.six-tile-routes"} \subseteq RequiredChecks
      /\ {"route-six-77-about", "route-six-77-music", "route-six-77-stream",
         "route-six-77-system", "route-six-77-wireless", "six-77-cfw-open",
         "six-77-cfw-restored", "six-tile-launcher-77"} \subseteq Labels
  BY DEF RequiredChecks, Labels, SaidLabels
<1>2. /\ Plain(Boot("candidate-present", TRUE, TRUE, FALSE))
      /\ Plain(Config(SixTiles))
      /\ Shoots(Save("six-tile-launcher-77", "launcher"), "six-tile-launcher-77")
      /\ Checks(Record("launcher.persistence.77"), "launcher.persistence.77")
      /\ Puts(PromoteShot("six-tile-launcher-77"), "six-tile-launcher-77")
      /\ Shoots(StockTileRoundtrip("route-six-77-music", UpperLeft),
         "route-six-77-music")
      /\ Shoots(StockTileRoundtrip("route-six-77-stream", UpperRight),
         "route-six-77-stream")
      /\ Shoots(StockTileRoundtrip("route-six-77-wireless", MiddleLeft),
         "route-six-77-wireless")
      /\ Shoots(StockTileRoundtrip("route-six-77-system", MiddleRight),
         "route-six-77-system")
      /\ Shoots(StockTileRoundtrip("route-six-77-about", LowerRight),
         "route-six-77-about")
      /\ Plain(OpenCfw(SixCfwTile))
      /\ Shoots(SaveNow("six-77-cfw-open"), "six-77-cfw-open")
      /\ Plain(LeaveCfw("base"))
      /\ Shoots(Save("six-77-cfw-restored", "last"), "six-77-cfw-restored")
      /\ Checks(Record("launcher.six-tile-routes"), "launcher.six-tile-routes")
  BY <1>1, SmallFunctions, SingleSteps, Boots, MaskSets, Held, TapPoints, Roundtrips, Rows
<1>3. Yields(Boot("candidate-present", TRUE, TRUE, FALSE) \o Config(SixTiles) \o
         Save("six-tile-launcher-77", "launcher") \o
         Record("launcher.persistence.77") \o PromoteShot("six-tile-launcher-77") \o
         StockTileRoundtrip("route-six-77-music", UpperLeft),
         {} \cup {"launcher.persistence.77"}, {} \cup {"six-tile-launcher-77"},
         {} \cup {"six-tile-launcher-77"} \cup {"route-six-77-music"})
  BY <1>2, Adds, Zenon
<1>4. Yields(Boot("candidate-present", TRUE, TRUE, FALSE) \o Config(SixTiles) \o
         Save("six-tile-launcher-77", "launcher") \o
         Record("launcher.persistence.77") \o PromoteShot("six-tile-launcher-77") \o
         StockTileRoundtrip("route-six-77-music", UpperLeft) \o
         StockTileRoundtrip("route-six-77-stream", UpperRight) \o
         StockTileRoundtrip("route-six-77-wireless", MiddleLeft) \o
         StockTileRoundtrip("route-six-77-system", MiddleRight) \o
         StockTileRoundtrip("route-six-77-about", LowerRight) \o
         OpenCfw(SixCfwTile),
         {} \cup {"launcher.persistence.77"}, {} \cup {"six-tile-launcher-77"},
         {} \cup {"six-tile-launcher-77"} \cup {"route-six-77-music"} \cup
         {"route-six-77-stream"} \cup {"route-six-77-wireless"} \cup
         {"route-six-77-system"} \cup {"route-six-77-about"})
  BY <1>2, <1>3, Adds, Zenon
<1>5. Yields(SixRoutes,
         {} \cup {"launcher.persistence.77"} \cup {"launcher.six-tile-routes"}, {}
         \cup {"six-tile-launcher-77"},
         {} \cup {"six-tile-launcher-77"} \cup {"route-six-77-music"} \cup
         {"route-six-77-stream"} \cup {"route-six-77-wireless"} \cup
         {"route-six-77-system"} \cup {"route-six-77-about"} \cup
         {"six-77-cfw-open"} \cup {"six-77-cfw-restored"})
  BY <1>2, <1>4, Adds, Zenon DEF SixRoutes
<1> QED
  BY <1>5

\* What validate_alternate_six_launcher records and saves.
LEMMA ValidateAlternateSixLauncherYields ==
  Yields(ValidateAlternateSixLauncher, {"launcher.alternate-six-persistence"},
    {},
    {"alternate-six-launcher-7d", "route-alternate-7d-ebook"})
<1>1. /\ {"launcher.alternate-six-persistence"} \subseteq RequiredChecks
      /\ {"alternate-six-launcher-7d", "route-alternate-7d-ebook"} \subseteq Labels
  BY DEF RequiredChecks, Labels, SaidLabels
<1>2. /\ Plain(Boot("candidate-present", TRUE, TRUE, FALSE))
      /\ Plain(Config(AlternateSix))
      /\ Shoots(Save("alternate-six-launcher-7d", "launcher"),
         "alternate-six-launcher-7d")
      /\ Shoots(StockTileRoundtrip("route-alternate-7d-ebook", MiddleLeft),
         "route-alternate-7d-ebook")
      /\ Checks(Record("launcher.alternate-six-persistence"),
         "launcher.alternate-six-persistence")
      /\ Plain(<<[op |-> "keep", of |-> "launcher", into |-> "top"]>>)
      /\ Plain(Shutdown)
  BY <1>1, SmallFunctions, SingleSteps, Boots, MaskSets, Held, TapPoints, Roundtrips
<1>3. Yields(ValidateAlternateSixLauncher,
         {} \cup {"launcher.alternate-six-persistence"}, {},
         {} \cup {"alternate-six-launcher-7d"} \cup {"route-alternate-7d-ebook"})
  BY <1>2, Adds, Zenon DEF ValidateAlternateSixLauncher
<1> QED
  BY <1>3

\* What validate_restart_position records and saves.
LEMMA ValidateRestartPositionYields ==
  Yields(ValidateRestartPosition, {"launcher.restart-position"},
    {},
    {"alternate-six-after-second-restart"})
<1>1. /\ {"launcher.restart-position"} \subseteq RequiredChecks
      /\ {"alternate-six-after-second-restart"} \subseteq Labels
  BY DEF RequiredChecks, Labels, SaidLabels
<1>2. /\ Plain(Boot("candidate-present", TRUE, TRUE, FALSE))
      /\ Plain(Config(AlternateSix))
      /\ Plain(Same("launcher", "top"))
      /\ Shoots(Save("alternate-six-after-second-restart", "launcher"),
         "alternate-six-after-second-restart")
      /\ Checks(Record("launcher.restart-position"), "launcher.restart-position")
      /\ Plain(Shutdown)
  BY <1>1, SmallFunctions, SingleSteps, Boots, MaskSets, Held, TapPoints
<1>3. Yields(ValidateRestartPosition,
         {} \cup {"launcher.restart-position"}, {},
         {} \cup {"alternate-six-after-second-restart"})
  BY <1>2, Adds, Zenon DEF ValidateRestartPosition
<1> QED
  BY <1>3

\* What validate_sd_absent records and saves.
LEMMA ValidateSdAbsentYields ==
  Yields(ValidateSdAbsent, {"storage.sd-absent", "storage.sd-state-distinct"},
    {},
    {"microsd-absent"})
<1>1. /\ {"storage.sd-absent", "storage.sd-state-distinct"} \subseteq RequiredChecks
      /\ {"microsd-absent"} \subseteq Labels
  BY DEF RequiredChecks, Labels, SaidLabels
<1>2. /\ Plain(Boot("candidate-sd-absent", TRUE, FALSE, FALSE))
      /\ Plain(OpenCfw(DefaultCfwTile))
      /\ Shoots(CfwPage(5, "sd", "microsd-absent"), "microsd-absent")
      /\ Plain(Differ("last", "present"))
      /\ Plain(Fixture(FALSE))
      /\ Checks(Record("storage.sd-absent"), "storage.sd-absent")
      /\ Checks(Record("storage.sd-state-distinct"), "storage.sd-state-distinct")
      /\ Plain(Shutdown)
  BY <1>1, SmallFunctions, SingleSteps, Boots, MaskSets, Held, TapPoints, Rows, CfwPageYields DEF Word
<1>3. Yields(ValidateSdAbsent,
         {} \cup {"storage.sd-absent"} \cup {"storage.sd-state-distinct"}, {},
         {} \cup {"microsd-absent"})
  BY <1>2, Adds, Zenon DEF ValidateSdAbsent
<1> QED
  BY <1>3

\* What validate_ssh_runtime records.
LEMMA ValidateSshRuntimeYields ==
  Yields(ValidateSshRuntime, {"ssh.runtime-auth"},
    {},
    {})
<1>1. {"ssh.runtime-auth"} \subseteq RequiredChecks
  BY DEF RequiredChecks, Labels, SaidLabels
<1>2. /\ Plain(ControllerRun("disable", 0))
      /\ Plain(ControllerRun("is-enabled", 1))
      /\ Plain(ControllerRun("toggle", 0))
      /\ Plain(ControllerRun("is-enabled", 0))
      /\ Plain(ControllerRun("enable", 0))
      /\ Plain(ControllerRun("status", 1))
      /\ Plain(Markers({"enabled"}))
      /\ Plain(GuestTool("dropbear -V"))
      /\ Plain(GuestTool("dropbearkey"))
      /\ Plain(Authenticate("publickey"))
      /\ Plain(Authenticate("password"))
      /\ Plain(Authenticate("unknown-key"))
      /\ Plain(Authenticate("wrong-password"))
      /\ Plain(Markers({"disabled"}))
      /\ Checks(Record("ssh.runtime-auth"), "ssh.runtime-auth")
  BY <1>1, SingleSteps, Adds DEF Commands, Trials, GuestTool
<1>3. Yields(ControllerRun("disable", 0) \o ControllerRun("is-enabled", 1) \o
         ControllerRun("toggle", 0) \o ControllerRun("is-enabled", 0) \o
         ControllerRun("toggle", 0) \o ControllerRun("is-enabled", 1),
         {}, {},
         {})
  BY <1>2, Adds, Zenon
<1>4. Yields(ControllerRun("disable", 0) \o ControllerRun("is-enabled", 1) \o
         ControllerRun("toggle", 0) \o ControllerRun("is-enabled", 0) \o
         ControllerRun("toggle", 0) \o ControllerRun("is-enabled", 1) \o
         ControllerRun("enable", 0) \o ControllerRun("is-enabled", 0) \o
         ControllerRun("status", 1) \o Markers({"enabled"}) \o
         GuestTool("dropbear -V") \o GuestTool("dropbearkey"),
         {}, {},
         {})
  BY <1>2, <1>3, Adds, Zenon
<1>5. Yields(ValidateSshRuntime,
         {} \cup {"ssh.runtime-auth"}, {},
         {})
  BY <1>2, <1>4, Adds, Zenon DEF ValidateSshRuntime
<1> QED
  BY <1>5

\* What validate_candidate_default records, promotes and saves.
LEMMA ValidateCandidateDefaultYields ==
  Yields(ValidateCandidateDefault, {"default.launcher.71", "default.stock-routes",
    "cfw.lifecycle", "cfw.framebuffer-restore", "cfw.ssh", "cfw.information-pages",
    "storage.sd-present", "launcher.maximum-rejected",
    "launcher.drag-no-activation", "cfw.launcher-settings", "cfw.wifi-route",
    "cfw.bluetooth-route"},
    {"default-launcher-71", "cfw-main-sd-present"},
    {"default-launcher-71", "route-default-music", "route-default-system",
     "route-default-about", "cfw-lifecycle-1-main", "cfw-lifecycle-2-main",
     "cfw-lifecycle-3-main", "cfw-main-sd-present", "ssh-off", "ssh-on-no-wifi",
     "ssh-on-after-reopen", "ssh-off-again", "internal-storage", "microsd-present",
     "memory", "system-information", "about-cfw", "launcher-settings-71",
     "launcher-settings-77", "launcher-maximum-six-rejected",
     "stock-wireless-from-cfw-wifi", "stock-wireless-from-cfw-bluetooth"})
<1>1. /\ Yields(WirelessRoute("cfw.wifi-route", 1, "wifi", "wifi_route",
                            "stock-wireless-from-cfw-wifi"),
                {"cfw.wifi-route"}, {}, {"stock-wireless-from-cfw-wifi"})
      /\ Yields(WirelessRoute("cfw.bluetooth-route", 2, "bluetooth", "bluetooth_route",
                            "stock-wireless-from-cfw-bluetooth"),
                {"cfw.bluetooth-route"}, {}, {"stock-wireless-from-cfw-bluetooth"})
  <2>1. /\ {"cfw.wifi-route", "cfw.bluetooth-route"} \subseteq RequiredChecks
        /\ {"stock-wireless-from-cfw-wifi", "stock-wireless-from-cfw-bluetooth"} \subseteq Labels
        /\ {"wifi", "wifi_route", "bluetooth", "bluetooth_route"} \subseteq Word
    BY DEF RequiredChecks, Labels, Word
  <2> QED
    BY <2>1, WirelessRouteYields
<1>2. Yields(Shutdown, {}, {}, {})
  BY SingleSteps DEF Plain
<1>9. Yields(ValidateCandidateDefault, {"default.launcher.71", "default.stock-routes"}
         \cup {"cfw.lifecycle", "cfw.framebuffer-restore"} \cup {"cfw.ssh"} \cup
         {"cfw.information-pages", "storage.sd-present"} \cup
         {"launcher.maximum-rejected", "launcher.drag-no-activation",
         "cfw.launcher-settings"} \cup {"cfw.wifi-route"} \cup
         {"cfw.bluetooth-route"} \cup {},
         {"default-launcher-71"} \cup {} \cup {"cfw-main-sd-present"} \cup {} \cup
         {} \cup {} \cup {} \cup {},
         {"default-launcher-71", "route-default-music", "route-default-system",
         "route-default-about"} \cup {"cfw-lifecycle-1-main",
         "cfw-lifecycle-2-main", "cfw-lifecycle-3-main"} \cup
         {"cfw-main-sd-present", "ssh-off", "ssh-on-no-wifi", "ssh-on-after-reopen",
         "ssh-off-again"} \cup {"internal-storage", "microsd-present", "memory",
         "system-information", "about-cfw"} \cup {"launcher-settings-71",
         "launcher-settings-77", "launcher-maximum-six-rejected"} \cup
         {"stock-wireless-from-cfw-wifi"} \cup {"stock-wireless-from-cfw-bluetooth"}
         \cup {})
  BY <1>1, <1>2, DefaultRoutesYields, LifecycleYields, SshTogglesYields,
     InformationPagesYields, LauncherSettingsYields, Union, SMT DEF Yields, ValidateCandidateDefault
<1> QED
  BY <1>9

\* What validate_six_tile_launcher records, promotes and saves.
LEMMA ValidateSixTileLauncherYields ==
  Yields(ValidateSixTileLauncher, {"launcher.persistence.77",
    "launcher.six-tile-routes", "launcher.ebook-swap"},
    {"six-tile-launcher-77"},
    {"six-tile-launcher-77", "route-six-77-music", "route-six-77-stream",
     "route-six-77-wireless", "route-six-77-system", "route-six-77-about",
     "six-77-cfw-open", "six-77-cfw-restored",
     "launcher-settings-alternate-six-7d"})
<1>1. /\ "launcher.ebook-swap" \in RequiredChecks
      /\ "launcher-settings-alternate-six-7d" \in Labels
  BY DEF RequiredChecks, Labels, SaidLabels
<1>2. /\ Plain(OpenCfw(SixCfwTile)) /\ Plain(Tap(Row(3)))
      /\ Plain(WaitNewer([screen |-> {"launcher"}, mask |-> {SixTiles}]))
      /\ Plain(Toggles(1, SixTiles \ {"stream"})) /\ Plain(Toggles(3, AlternateSix))
      /\ Shoots(SaveNow("launcher-settings-alternate-six-7d"),
                "launcher-settings-alternate-six-7d")
      /\ Plain(Config(AlternateSix)) /\ Plain(BackToMain) /\ Plain(LeaveCfw("base"))
      /\ Checks(Record("launcher.ebook-swap"), "launcher.ebook-swap") /\ Plain(Shutdown)
  BY <1>1, SmallFunctions, SingleSteps, MaskSets, Held, Rows, Wants
<1>3. Yields(SixRoutes \o OpenCfw(SixCfwTile) \o Tap(Row(3)) \o WaitNewer([screen |->
         {"launcher"}, mask |-> {SixTiles}]) \o Toggles(1, SixTiles \ {"stream"}) \o
         Toggles(3, AlternateSix),
         {"launcher.persistence.77", "launcher.six-tile-routes"},
         {"six-tile-launcher-77"},
         {"six-tile-launcher-77", "route-six-77-music", "route-six-77-stream",
         "route-six-77-wireless", "route-six-77-system", "route-six-77-about",
         "six-77-cfw-open", "six-77-cfw-restored"})
  BY <1>2, SixRoutesYields, Adds, Zenon
<1>4. Yields(ValidateSixTileLauncher, {"launcher.persistence.77",
         "launcher.six-tile-routes"} \cup {"launcher.ebook-swap"},
         {"six-tile-launcher-77"},
         {"six-tile-launcher-77", "route-six-77-music", "route-six-77-stream",
         "route-six-77-wireless", "route-six-77-system", "route-six-77-about",
         "six-77-cfw-open", "six-77-cfw-restored"} \cup
         {"launcher-settings-alternate-six-7d"})
  BY <1>2, <1>3, Adds, Zenon DEF ValidateSixTileLauncher
<1> QED
  BY <1>4

\* What the whole run records, promotes and saves.
LEMMA ScriptYields ==
  Yields(Script, RequiredChecks, FeaturedScreenshots, Labels)
<1>1. Yields(Record("preflight.exact-candidate"), {"preflight.exact-candidate"}, {}, {})
  BY SingleSteps DEF RequiredChecks, Checks
<1>9. Yields(Script, {"preflight.exact-candidate"} \cup {"ssh.runtime-auth"} \cup
         {"stock.launcher", "stock.mp3-fixture"} \cup {"default.launcher.71",
         "default.stock-routes", "cfw.lifecycle", "cfw.framebuffer-restore",
         "cfw.ssh", "cfw.information-pages", "storage.sd-present",
         "launcher.maximum-rejected", "launcher.drag-no-activation",
         "cfw.launcher-settings", "cfw.wifi-route", "cfw.bluetooth-route"} \cup
         {"cfw.crash-recovery"} \cup {"launcher.persistence.77",
         "launcher.six-tile-routes", "launcher.ebook-swap"} \cup
         {"launcher.alternate-six-persistence"} \cup {"launcher.restart-position"}
         \cup {"storage.sd-absent", "storage.sd-state-distinct"},
         {} \cup {} \cup {} \cup {"default-launcher-71", "cfw-main-sd-present"} \cup
         {} \cup {"six-tile-launcher-77"} \cup {} \cup {} \cup {},
         {} \cup {} \cup {"stock-launcher", "mp3-path-Music", "mp3-path-Lukrembo",
         "mp3-path-Jay", "mp3-selection-or-decoder-state"} \cup
         {"default-launcher-71", "route-default-music", "route-default-system",
         "route-default-about", "cfw-lifecycle-1-main", "cfw-lifecycle-2-main",
         "cfw-lifecycle-3-main", "cfw-main-sd-present", "ssh-off", "ssh-on-no-wifi",
         "ssh-on-after-reopen", "ssh-off-again", "internal-storage",
         "microsd-present", "memory", "system-information", "about-cfw",
         "launcher-settings-71", "launcher-settings-77",
         "launcher-maximum-six-rejected", "stock-wireless-from-cfw-wifi",
         "stock-wireless-from-cfw-bluetooth"} \cup {"stock-touch-after-cfw-crash"}
         \cup {"six-tile-launcher-77", "route-six-77-music", "route-six-77-stream",
         "route-six-77-wireless", "route-six-77-system", "route-six-77-about",
         "six-77-cfw-open", "six-77-cfw-restored",
         "launcher-settings-alternate-six-7d"} \cup {"alternate-six-launcher-7d",
         "route-alternate-7d-ebook"} \cup {"alternate-six-after-second-restart"}
         \cup {"microsd-absent"})
  BY <1>1, ValidateSshRuntimeYields, ValidateStockYields, ValidateCandidateDefaultYields,
     ValidateCrashRecoveryYields, ValidateSixTileLauncherYields,
     ValidateAlternateSixLauncherYields, ValidateRestartPositionYields, ValidateSdAbsentYields, Union, SMT DEF Yields, Script
<1> QED
  BY <1>9 DEF RequiredChecks, FeaturedScreenshots, Labels, SaidLabels

\* The labels of the screenshots are those that something is said of, and two.
LEMMA LabelsSaid ==
  Labels = Said \cup Unsaid
<1>1. Said = SaidLabels
  BY DEF Said, Says, SaidLabels
<1> QED
  BY <1>1 DEF Labels, Unsaid

-------------------------------------------------------------------------------
(***************************************************************************)
(* A run that comes to the end of the script has all its evidence.         *)
(***************************************************************************)
Recorded(n) == {Script[i].check : i \in {j \in 1..(n - 1) : Script[j].op = "record"}}
Promoted(n) == {Script[i].label : i \in {j \in 1..(n - 1) : Script[j].op = "promote"}}
Saved(n) == {Script[i].label : i \in {j \in 1..(n - 1) : Script[j].op = "save"}}

\* The script is a list of steps.
LEMMA ScriptType ==
  /\ Script \in Seq(Steps) /\ Len(Script) \in Nat
  /\ \A i \in 1..Len(Script) : Script[i] \in Steps
BY ScriptYields, LenProperties, ElementOfSeq DEF Yields, IsList

\* What has to be on record after a step is what the step adds to it.
LEMMA KeptOnce ==
  ASSUME NEW n \in 1..Len(Script)
  PROVE  /\ Recorded(n + 1) = Recorded(n) \cup
              (IF Script[n].op = "record" THEN {Script[n].check} ELSE {})
         /\ Promoted(n + 1) = Promoted(n) \cup
              (IF Script[n].op = "promote" THEN {Script[n].label} ELSE {})
         /\ Saved(n + 1) = Saved(n) \cup
              (IF Script[n].op = "save" THEN {Script[n].label} ELSE {})
<1>1. 1..((n + 1) - 1) = (1..(n - 1)) \cup {n}
  BY ScriptType
<1> QED
  BY <1>1 DEF Recorded, Promoted, Saved

\* Nothing is on record at the start, and at the end all that a release needs.
LEMMA KeptAll ==
  /\ Recorded(1) = {} /\ Promoted(1) = {} /\ Saved(1) = {}
  /\ Recorded(Len(Script) + 1) = RequiredChecks
  /\ Promoted(Len(Script) + 1) = FeaturedScreenshots
  /\ Saved(Len(Script) + 1) = Labels
<1>1. 1..(1 - 1) = {} /\ (Len(Script) + 1) - 1 = Len(Script)
  BY ScriptType
<1>2. Recorded(1) = {} /\ Promoted(1) = {} /\ Saved(1) = {}
  BY <1>1 DEF Recorded, Promoted, Saved
<1>3. /\ Recorded(Len(Script) + 1) = Records(Script)
      /\ Promoted(Len(Script) + 1) = Promotes(Script)
      /\ Saved(Len(Script) + 1) = Saves(Script)
  BY <1>1 DEF Recorded, Promoted, Saved, Records, Promotes, Saves, Elements
<1> QED
  BY <1>2, <1>3, ScriptYields DEF Yields

BenchType ==
  /\ bench = [frames |-> bench.frames, seq |-> bench.seq, sample |-> bench.sample,
              shots |-> bench.shots, checks |-> bench.checks, promoted |-> bench.promoted]
  /\ bench.frames = [name \in Holding |-> bench.frames[name]]

EvidenceInv ==
  /\ BenchType
  /\ pc \in 1..(Len(Script) + 1) /\ ended \in BOOLEAN
  /\ ~ended => /\ verdict = "RUNNING"
               /\ bench.checks = Recorded(pc)
               /\ bench.promoted = Promoted(pc)
               /\ DOMAIN bench.shots = Saved(pc)
  /\ verdict = "PASS" =>
       /\ bench.checks = RequiredChecks
       /\ bench.promoted = FeaturedScreenshots
       /\ DOMAIN bench.shots = Labels

\* EvidenceInv holds at the start.
LEMMA EvidenceInit == ValidationInit => EvidenceInv
<1> SUFFICES ASSUME ValidationInit PROVE EvidenceInv
  OBVIOUS
<1>1. 1 \in 1..(Len(Script) + 1) /\ DOMAIN <<>> = {}
  BY ScriptType
<1> QED
  BY <1>1, KeptAll DEF ValidationInit, EvidenceInv, BenchType, NoBench

\* A validation that ends keeps EvidenceInv: a PASS has every check.
LEMMA EvidenceLeaves ==
  ASSUME EvidenceInv, NEW status \in {"RUNNING", "PASS", "FAIL"}, Leaves(status), ~ended,
         status = "PASS" => bench.checks = RequiredChecks /\ pc = Len(Script) + 1
                            /\ bench.promoted = FeaturedScreenshots
  PROVE  EvidenceInv'
<1>1. pc' \in 1..(Len(Script) + 1) /\ ended' = TRUE
  BY ScriptType DEF Leaves
<1>2. CASE status = "PASS"
  BY <1>1, <1>2, KeptAll DEF EvidenceInv, BenchType, Leaves
<1>3. CASE status # "PASS"
  BY <1>1, <1>3 DEF EvidenceInv, BenchType, Leaves, NoBench
<1> QED
  BY <1>2, <1>3

\* A step that goes on keeps EvidenceInv, if it puts on record what it says.
LEMMA EvidenceContinues ==
  ASSUME NEW ops, EvidenceInv, AtStep(ops), Continue, BenchType',
         bench'.checks = bench.checks \cup
           (IF Step.op = "record" THEN {Step.check} ELSE {}),
         bench'.promoted = bench.promoted \cup
           (IF Step.op = "promote" THEN {Step.label} ELSE {}),
         DOMAIN bench'.shots = DOMAIN bench.shots \cup
           (IF Step.op = "save" THEN {Step.label} ELSE {})
  PROVE  EvidenceInv'
<1>1. pc \in 1..Len(Script) /\ pc + 1 \in 1..(Len(Script) + 1)
  BY ScriptType DEF EvidenceInv, AtStep
<1> QED
  BY <1>1, KeptOnce DEF EvidenceInv, AtStep, Continue, Step

\* A step that neither records, promotes nor saves.
LEMMA EvidenceKept ==
  ASSUME NEW ops, EvidenceInv, AtStep(ops), Continue, BenchType',
         {"record", "promote", "save"} \cap ops = {},
         bench'.checks = bench.checks, bench'.promoted = bench.promoted,
         bench'.shots = bench.shots
  PROVE  EvidenceInv'
<1>1. Step.op \notin {"record", "promote", "save"}
  BY DEF AtStep
<1> QED
  BY <1>1, EvidenceContinues

\* Every step keeps EvidenceInv.
LEMMA EvidenceSteps ==
  ASSUME EvidenceInv, [ValidationNext]_validationVars
  PROVE  EvidenceInv'
<1>1. CASE StartSession
  BY <1>1, EvidenceKept DEF StartSession, EvidenceInv, BenchType
<1>2. CASE StopSession
  BY <1>2, EvidenceKept DEF StopSession, EvidenceInv, BenchType
<1>3. CASE WaitPlayerReady
  BY <1>3, EvidenceKept DEF WaitPlayerReady, Hold, EvidenceInv, BenchType
<1>4. CASE WaitStableFrame
  <2> DEFINE equal == IF shown = bench.sample.frame THEN bench.sample.equal + 1 ELSE 0
  <2>1. CASE /\ Hold([bench EXCEPT !.sample = [frame |-> shown, equal |-> equal]])
             /\ UNCHANGED <<pc, verdict, ended>>
    BY <2>1 DEF Hold, EvidenceInv, BenchType
  <2>2. CASE /\ Hold([bench EXCEPT !.sample = NoSample, !.frames[Step.into] = shown])
             /\ Continue
    BY <1>4, <2>2, EvidenceKept DEF WaitStableFrame, Hold, EvidenceInv, BenchType
  <2> QED
    BY <1>4, <2>1, <2>2 DEF WaitStableFrame
<1>5. CASE WaitFrame
  <2>1. /\ Continue /\ bench' = [bench EXCEPT !.frames["last"] = shown]
        /\ AtStep({"change"}) \/ AtStep({"hash"})
    BY <1>5 DEF WaitFrame, Hold
  <2>2. BenchType' /\ bench'.checks = bench.checks /\ bench'.promoted = bench.promoted
        /\ bench'.shots = bench.shots
    BY <2>1 DEF EvidenceInv, BenchType
  <2> QED
    BY <2>1, <2>2, EvidenceKept
<1>6. CASE WaitForRecord
  BY <1>6, EvidenceKept DEF WaitForRecord, Hold, EvidenceInv, BenchType
<1>7. CASE ReadRecord
  BY <1>7, EvidenceKept DEF ReadRecord, Hold, EvidenceInv, BenchType
<1>8. CASE ClearRecord
  BY <1>8, EvidenceKept DEF ClearRecord, EvidenceInv, BenchType
<1>9. CASE CaptureFrame
  BY <1>9, EvidenceKept DEF CaptureFrame, Hold, EvidenceInv, BenchType
<1>10. CASE InjectTouch
  BY <1>10, EvidenceKept DEF InjectTouch, EvidenceInv, BenchType
<1>11. CASE KeepEvidence
  <2>1. CASE AtStep({"save"}) /\ Hold([bench EXCEPT
            !.shots = [label \in DOMAIN @ \cup {Step.label} |->
                         IF label = Step.label THEN bench.frames[Step.frame] ELSE @[label]]])
    <3>1. Step.op = "save" /\ Continue
      BY <1>11, <2>1 DEF KeepEvidence, AtStep
    <3>2. /\ bench'.checks = bench.checks /\ bench'.promoted = bench.promoted
          /\ DOMAIN bench'.shots = DOMAIN bench.shots \cup {Step.label}
          /\ BenchType'
      BY <2>1 DEF Hold, EvidenceInv, BenchType
    <3> QED
      BY <2>1, <3>1, <3>2, EvidenceContinues
  <2>2. CASE AtStep({"keep"}) /\ Hold([bench EXCEPT !.frames[Step.into] = bench.frames[Step.of]])
    BY <1>11, <2>2, EvidenceKept DEF KeepEvidence, Hold, EvidenceInv, BenchType
  <2>3. CASE AtStep({"record"}) /\ Hold([bench EXCEPT !.checks = @ \cup {Step.check}])
    <3>1. Step.op = "record" /\ Continue
      BY <1>11, <2>3 DEF KeepEvidence, AtStep
    <3>2. /\ bench'.checks = bench.checks \cup {Step.check}
          /\ bench'.promoted = bench.promoted /\ bench'.shots = bench.shots /\ BenchType'
      BY <2>3 DEF Hold, EvidenceInv, BenchType
    <3> QED
      BY <2>3, <3>1, <3>2, EvidenceContinues
  <2>4. CASE AtStep({"promote"}) /\ Hold([bench EXCEPT !.promoted = @ \cup {Step.label}])
    <3>1. Step.op = "promote" /\ Continue
      BY <1>11, <2>4 DEF KeepEvidence, AtStep
    <3>2. /\ bench'.promoted = bench.promoted \cup {Step.label}
          /\ bench'.checks = bench.checks /\ bench'.shots = bench.shots /\ BenchType'
      BY <2>4 DEF Hold, EvidenceInv, BenchType
    <3> QED
      BY <2>4, <3>1, <3>2, EvidenceContinues
  <2> QED
    BY <1>11, <2>1, <2>2, <2>3, <2>4 DEF KeepEvidence
<1>12. CASE CompareStep
  BY <1>12, EvidenceKept DEF CompareStep, Comparisons, Hold, EvidenceInv, BenchType
<1>13. CASE RunController
  BY <1>13, EvidenceKept DEF RunController, EvidenceInv, BenchType
<1>14. CASE RunSshAuthentication
  BY <1>14, EvidenceKept DEF RunSshAuthentication, Hold, EvidenceInv, BenchType
<1>15. CASE FailStep \/ Expire
  BY <1>15, EvidenceLeaves DEF FailStep, Expire, Raise, AtStep
<1>16. CASE Escape
  BY <1>16, EvidenceLeaves DEF Escape, AtStep
<1>17. CASE Finish
  BY <1>17, EvidenceLeaves DEF Finish
<1>18. CASE UNCHANGED <<pc, bench, verdict, ended>>
  BY <1>18 DEF EvidenceInv, BenchType
<1> QED
  BY <1>1, <1>2, <1>3, <1>4, <1>5, <1>6, <1>7, <1>8, <1>9, <1>10, <1>11, <1>12, <1>13,
     <1>14, <1>15, <1>16, <1>17, <1>18 DEF ValidationNext, Advance, validationVars

\* What is on record is what the script up to the current step puts there:
\* EvidenceInv is an invariant of the validation.
THEOREM EvidenceAlways == ValidationSpec => []EvidenceInv
<1> QED
  BY EvidenceInit, EvidenceSteps, PTL DEF ValidationSpec

\* A validation that passes has made every check the release asks for, promoted
\* every featured screenshot, and kept a screenshot under each label that says
\* something of a picture.
PassHasEvidence ==
  verdict = "PASS" =>
    /\ bench.checks = RequiredChecks
    /\ bench.promoted = FeaturedScreenshots
    /\ DOMAIN bench.shots = Said \cup Unsaid

\* A manifest that says PASS has every required check, every featured picture
\* and every picture that a gallery is made of, for any candidates.
THEOREM PassAlwaysHasEvidence == ValidationSpec => []PassHasEvidence
<1>1. EvidenceInv => PassHasEvidence
  BY LabelsSaid DEF EvidenceInv, PassHasEvidence
<1> QED
  BY <1>1, EvidenceAlways, PTL

\* A validation fails only at a step: one that comes to the end of its script passes.
FinishPasses == [][Finish => verdict' = "PASS"]_validationVars

\* A run that comes to the end of its script writes PASS: at that point neither
\* a required check nor a featured picture is ever missing.
THEOREM FinishAlwaysPasses == ValidationSpec => FinishPasses
<1>1. EvidenceInv /\ [ValidationNext]_validationVars => [Finish => verdict' = "PASS"]_validationVars
  <2> SUFFICES ASSUME EvidenceInv, Finish PROVE verdict' = "PASS"
    OBVIOUS
  <2>1. bench.checks = RequiredChecks /\ bench.promoted = FeaturedScreenshots
    BY KeptAll DEF EvidenceInv, Finish
  <2> QED
    BY <2>1 DEF Finish, Leaves
<1> QED
  BY <1>1, EvidenceAlways, PTL DEF ValidationSpec, FinishPasses

-------------------------------------------------------------------------------
(***************************************************************************)
(* A block of the script, and where it stands.                             *)
(***************************************************************************)
Placed(block, s, k) ==
  /\ k \in Nat /\ k + Len(block) <= Len(s)
  /\ \A i \in 1..Len(block) : s[k + i] = block[i]
PartOf(block, s) == \E k : Placed(block, s, k)

\* A block is part of itself,
LEMMA PartSelf ==
  ASSUME NEW s, IsList(s)
  PROVE  PartOf(s, s)
<1>1. Len(s) \in Nat /\ \A i \in 1..Len(s) : 0 + i = i
  BY LenProperties DEF IsList
<1>2. Placed(s, s, 0)
  BY <1>1 DEF Placed
<1> QED
  BY <1>2 DEF PartOf

\* of what it begins,
LEMMA PartLeft ==
  ASSUME NEW block, NEW s, NEW t, IsList(block), IsList(s), IsList(t), PartOf(block, s)
  PROVE  PartOf(block, s \o t)
<1>1. PICK k : Placed(block, s, k)
  BY DEF PartOf
<1>2. Len(block) \in Nat
  BY LenProperties DEF IsList
<1>3. /\ Len(s \o t) = Len(s) + Len(t) /\ Len(s) \in Nat /\ Len(t) \in Nat
      /\ \A i \in 1..Len(s) : (s \o t)[i] = s[i]
  BY Places DEF IsList
<1>4. \A i \in 1..Len(block) : k + i \in 1..Len(s)
  BY <1>1, <1>2, <1>3 DEF Placed
<1>5. Placed(block, s \o t, k)
  BY <1>1, <1>2, <1>3, <1>4 DEF Placed
<1> QED
  BY <1>5 DEF PartOf

\* and of what it ends.
LEMMA PartRight ==
  ASSUME NEW block, NEW s, NEW t, IsList(block), IsList(s), IsList(t), PartOf(block, t)
  PROVE  PartOf(block, s \o t)
<1>1. PICK k : Placed(block, t, k)
  BY DEF PartOf
<1>2. Len(block) \in Nat
  BY LenProperties DEF IsList
<1>3. /\ Len(s \o t) = Len(s) + Len(t) /\ Len(s) \in Nat /\ Len(t) \in Nat
      /\ \A i \in 1..Len(t) : (s \o t)[Len(s) + i] = t[i]
  BY Places DEF IsList
<1>4. \A i \in 1..Len(block) : k + i \in 1..Len(t) /\ (Len(s) + k) + i = Len(s) + (k + i)
  BY <1>1, <1>2, <1>3 DEF Placed
<1>5. Placed(block, s \o t, Len(s) + k)
  <2>1. Len(s) + k \in Nat /\ (Len(s) + k) + Len(block) <= Len(s \o t)
    BY <1>1, <1>2, <1>3 DEF Placed
  <2>2. \A i \in 1..Len(block) : (s \o t)[(Len(s) + k) + i] = block[i]
    BY <1>1, <1>3, <1>4 DEF Placed
  <2> QED
    BY <2>1, <2>2 DEF Placed
<1> QED
  BY <1>5 DEF PartOf

\* The sessions are parts of the script.
LEMMA Parts ==
  /\ PartOf(ValidateSshRuntime, Script) /\ PartOf(ValidateCandidateDefault, Script)
  /\ PartOf(ValidateCrashRecovery, Script) /\ PartOf(ValidateSixTileLauncher, Script)
  /\ PartOf(ValidateAlternateSixLauncher, Script) /\ PartOf(ValidateRestartPosition, Script)
<1>1. /\ IsList(Record("preflight.exact-candidate")) /\ IsList(ValidateSshRuntime)
      /\ IsList(ValidateStock) /\ IsList(ValidateCandidateDefault)
      /\ IsList(ValidateCrashRecovery) /\ IsList(ValidateSixTileLauncher)
      /\ IsList(ValidateAlternateSixLauncher) /\ IsList(ValidateRestartPosition)
      /\ IsList(ValidateSdAbsent)
  <2>1. Yields(Record("preflight.exact-candidate"), {"preflight.exact-candidate"}, {}, {})
    BY SingleSteps DEF RequiredChecks, Checks
  <2> QED
    BY <2>1, ValidateSshRuntimeYields, ValidateStockYields, ValidateCandidateDefaultYields,
       ValidateCrashRecoveryYields, ValidateSixTileLauncherYields,
       ValidateAlternateSixLauncherYields, ValidateRestartPositionYields,
       ValidateSdAbsentYields DEF Yields
<1>2. \A s, t : IsList(s) /\ IsList(t) => IsList(s \o t)
  BY Union
<1> QED
  BY <1>1, <1>2, PartSelf, PartLeft, PartRight DEF Script

-------------------------------------------------------------------------------
(***************************************************************************)
(* What a step is.                                                         *)
(***************************************************************************)
GuestMoves == GuestNext /\ UNCHANGED <<pc, bench, verdict, ended>>

Does ==
  \/ StartSession \/ StopSession \/ WaitPlayerReady \/ WaitStableFrame \/ WaitFrame
  \/ WaitForRecord \/ ReadRecord \/ ClearRecord \/ CaptureFrame \/ InjectTouch
  \/ KeepEvidence \/ CompareStep \/ RunController \/ RunSshAuthentication

\* A candidate's flaws are what they are.
LEMMA FlawsStay ==
  ASSUME [ValidationNext]_validationVars
  PROVE  flaws' = flaws
<1>1. CASE UNCHANGED validationVars
  BY <1>1 DEF validationVars, guestVars
<1>2. CASE GuestNext
  BY <1>2 DEF GuestNext, GuestStep, PlayerExits, Splash, Ready, DrawLauncher,
     PlayerTakesTouch, TouchIsLost, SidecarDraws, SidecarPublishes, SidecarTakesTouch,
     SidecarEnds, SidecarAborts, RestoreFrame, ReleaseTouch, StockRoute
<1>3. CASE FailStep \/ Expire \/ Escape \/ Finish
  BY <1>3 DEF FailStep, Expire, Escape, Finish, Raise, Leaves, Stopped
<1>4. CASE Does
  BY <1>4 DEF Does, StartSession, Launches, StopSession, Stopped, WaitPlayerReady,
     WaitStableFrame, WaitFrame, WaitForRecord, ReadRecord, ClearRecord, CaptureFrame,
     InjectTouch, KeepEvidence, CompareStep, RunController, RunSshAuthentication, Hold, guestVars
<1> QED
  BY <1>1, <1>2, <1>3, <1>4 DEF ValidationNext, Advance, Does

\* While the run goes on, guest and program take turns.
LEMMA GoesOn ==
  ASSUME EvidenceInv, [ValidationNext]_validationVars, ~ended'
  PROVE  /\ ~ended
         /\ \/ UNCHANGED validationVars
            \/ GuestMoves
            \/ Does /\ pc \in 1..Len(Script) /\ pc' \in {pc, pc + 1} /\ verdict' = verdict
<1>1. CASE UNCHANGED validationVars
  BY <1>1 DEF validationVars
<1>2. CASE ~ended /\ GuestNext /\ UNCHANGED <<pc, bench, verdict, ended>>
  BY <1>2 DEF GuestMoves
<1>3. CASE FailStep \/ Expire \/ Escape \/ Finish
  BY <1>3 DEF FailStep, Expire, Escape, Finish, Raise, Leaves
<1>4. CASE Does
  <2>1. ~ended /\ pc <= Len(Script)
    BY <1>4 DEF Does, StartSession, StopSession, WaitPlayerReady,
       WaitStableFrame, WaitFrame, WaitForRecord, ReadRecord, ClearRecord, CaptureFrame,
       InjectTouch, KeepEvidence, CompareStep, RunController, RunSshAuthentication, AtStep
  <2>2. pc \in 1..Len(Script)
    BY <2>1, ScriptType DEF EvidenceInv
  <2>3. pc' \in {pc, pc + 1} /\ verdict' = verdict
    BY <1>4 DEF Does, StartSession, StopSession, WaitPlayerReady,
       WaitStableFrame, WaitFrame, WaitForRecord, ReadRecord, ClearRecord, CaptureFrame,
       InjectTouch, KeepEvidence, CompareStep, RunController, RunSshAuthentication, Continue
  <2> QED
    BY <1>4, <2>1, <2>2, <2>3
<1> QED
  BY <1>1, <1>2, <1>3, <1>4 DEF ValidationNext, Advance, Does

\* A run ends with PASS at the end of the script only.
LEMMA PassesAtTheEnd ==
  ASSUME EvidenceInv, [ValidationNext]_validationVars, verdict' = "PASS"
  PROVE  verdict = "PASS" \/ (~ended /\ pc = Len(Script) + 1)
<1>1. CASE FailStep \/ Expire \/ Escape
  BY <1>1 DEF FailStep, Expire, Escape, Raise, Leaves
<1>2. CASE Finish
  BY <1>2 DEF Finish
<1>3. CASE ended' = FALSE \/ UNCHANGED verdict
  BY <1>3, GoesOn DEF EvidenceInv, GuestMoves, validationVars
<1>4. CASE Does
  BY <1>4 DEF Does, StartSession, StopSession, WaitPlayerReady,
       WaitStableFrame, WaitFrame, WaitForRecord, ReadRecord, ClearRecord, CaptureFrame,
       InjectTouch, KeepEvidence, CompareStep, RunController, RunSshAuthentication, Continue
<1> QED
  BY <1>1, <1>2, <1>3, <1>4 DEF ValidationNext, Advance, Does, validationVars

\* The action that does a step of one kind.
LEMMA Kinds ==
  ASSUME Does
  PROVE  /\ Step.op = "start" => StartSession
         /\ Step.op = "stop" => StopSession
         /\ Step.op = "ready" => WaitPlayerReady
         /\ Step.op = "stable" => WaitStableFrame
         /\ Step.op \in {"change", "hash"} => WaitFrame
         /\ Step.op = "semantic" => WaitForRecord
         /\ Step.op = "clear" => ClearRecord
         /\ Step.op = "capture" => CaptureFrame
         /\ Step.op = "touch" => InjectTouch
         /\ Step.op \in {"save", "keep", "record", "promote"} => KeepEvidence
         /\ Step.op \in Comparisons => CompareStep
         /\ Step.op = "control" => RunController
         /\ Step.op = "ssh" => RunSshAuthentication
BY DEF Does, StartSession, StopSession, WaitPlayerReady, WaitStableFrame, WaitFrame,
   WaitForRecord, ReadRecord, ClearRecord, CaptureFrame, InjectTouch, KeepEvidence, CompareStep,
   Comparisons, RunController, RunSshAuthentication, AtStep

\* It goes on from step n.
Passes(n) == Does /\ ~ended /\ pc = n /\ pc' = n + 1

\* The run is past step n of the script, or has passed, with none of some flaws.
Past(n, set) ==
  (~ended /\ pc > n) \/ verdict = "PASS" => flaws \cap set = {}

\* A step keeps Past of a flaw, if it passes the place only without the flaw.
LEMMA PastStep ==
  ASSUME EvidenceInv, [ValidationNext]_validationVars, NEW n \in 1..Len(Script), NEW set, Past(n, set),
         Passes(n) => flaws \cap set = {}
  PROVE  Past(n, set)'
<1> SUFFICES ASSUME (~ended' /\ pc' > n) \/ verdict' = "PASS"
             PROVE  flaws \cap set = {}
  BY FlawsStay DEF Past
<1>1. CASE verdict' = "PASS"
  BY <1>1, PassesAtTheEnd, ScriptType DEF Past
<1>2. CASE ~ended' /\ pc' > n
  <2>1. CASE pc > n
    BY <1>2, <2>1, GoesOn DEF Past
  <2>2. CASE ~(pc > n)
    <3>1. ~ended /\ Does /\ pc' \in {pc, pc + 1} /\ pc \in Nat
      BY <1>2, <2>2, GoesOn DEF validationVars, GuestMoves
    <3>2. pc = n /\ pc' = n + 1
      BY <1>2, <2>2, <3>1, ScriptType
    <3> QED
      BY <3>1, <3>2 DEF Passes
  <2> QED
    BY <2>1, <2>2
<1> QED
  BY <1>1, <1>2

\* Nothing is past at the start.
LEMMA PastInit ==
  ASSUME ValidationInit, NEW n \in 1..Len(Script), NEW set
  PROVE  Past(n, set)
BY ScriptType DEF ValidationInit, Past

-------------------------------------------------------------------------------
(***************************************************************************)
(* The guest.                                                              *)
(***************************************************************************)
SshWords == {"fresh", "enabled", "disabled"}
Confs == [mask : SUBSET Tiles, ssh : SshWords]
SideFields == {"screen", "mask", "action", "route", "seq", "notice", "todo"}
IsSide(s) == s = [field \in SideFields |-> s[field]]
SessionFields == {"runtime", "cfw", "sd", "crash", "mask", "boot"}
IsSession(s) == s = [field \in SessionFields |-> s[field]]
GuestType ==
  /\ store \in [Runtimes -> Confs]
  /\ IsSession(session)
  /\ session.runtime \in Booted \cup {""} /\ session.boot \in Nat
  /\ IsSide(side)

\* The guest has its type at the start.
LEMMA GuestTypeInit == ValidationInit => GuestType
<1> SUFFICES ASSUME ValidationInit PROVE GuestType
  OBVIOUS
<1>1. FreshStore \in Confs /\ [FreshStore EXCEPT !.ssh = "enabled"] \in Confs
  BY DEF FreshStore, Confs, NoMask, SshWords
<1> QED
  BY <1>1 DEF ValidationInit, GuestInit, GuestType, IsSession, SessionFields, NoSide, IsSide, SideFields

\* What Start asks for.
LEMMA StartSteps ==
  ASSUME EvidenceInv, AtStep({"start"})
  PROVE  Step.runtime \in Booted
<1>1. Step \in Steps /\ Step.op = "start"
  BY ScriptType DEF AtStep, Step, EvidenceInv
<1> QED
  BY <1>1 DEF Steps

\* A mask that is read is a set of tiles.
LEMMA SelectedConf ==
  \A conf \in SUBSET Tiles : SelectConfig(conf) \in SUBSET Tiles
BY Masks DEF SelectConfig

\* A mask that is written is a configuration.
LEMMA WrittenType ==
  ASSUME GuestType, session.runtime \in Runtimes, NEW row
  PROVE  Written(row) \in Confs
<1>1. Conf \in Confs
  BY DEF GuestType, Conf
<1>2. [Conf EXCEPT !.ssh = ToggledSsh] \in Confs
  BY <1>1 DEF Confs, ToggledSsh, SshWords
<1>3. ASSUME row \in 0..6 PROVE [Conf EXCEPT !.mask = Flip(@, TileOrder[row + 1])] \in Confs
  <2>1. TileOrder[row + 1] \in Tiles
    BY <1>3 DEF Tiles
  <2> QED
    BY <1>1, <2>1 DEF Confs, Flip
<1> QED
  BY <1>1, <1>2, <1>3 DEF Written

\* What a tap does to the sidecar: nothing, or the sidecar leaves, or it draws.
LEMMA SideTaps ==
  ASSUME IsSide(side)
  PROVE  /\ \A action : IsSide(Draw(side, action))
         /\ IsSide(Back) /\ \A row : IsSide(MainTap(row)) /\ IsSide(LauncherTap(row))
<1>1. ASSUME NEW s, NEW action, IsSide(s)
      PROVE  IsSide(Draw(s, action))
  BY <1>1 DEF IsSide, Draw
<1>2. ASSUME NEW screen, NEW action
      PROVE  IsSide(GoToPage(screen, action))
  <2>1. ASSUME NEW m
        PROVE  IsSide([side EXCEPT !.screen = screen, !.notice = FALSE, !.mask = m])
    BY DEF IsSide
  <2> QED
    BY <1>1, <2>1 DEF GoToPage
<1>3. ASSUME NEW route, NEW action
      PROVE  IsSide(Leave(route, action))
  BY DEF IsSide, Leave
<1>4. IsSide(Back)
  BY <1>2, <1>3 DEF Back
<1>5. \A row : IsSide(MainTap(row))
  BY <1>2, <1>3 DEF MainTap
<1>6. \A row : IsSide(LauncherTap(row))
  <2> TAKE row
  <2>1. ASSUME NEW m PROVE IsSide([side EXCEPT !.notice = FALSE, !.mask = m])
    BY DEF IsSide
  <2>2. ASSUME NEW b PROVE IsSide([side EXCEPT !.notice = b])
    BY DEF IsSide
  <2> QED
    BY <1>1, <2>1, <2>2 DEF LauncherTap
<1> QED
  BY <1>1, <1>4, <1>5, <1>6

\* The guest's own steps keep its type.
LEMMA GuestTypeGuest ==
  ASSUME GuestType, GuestNext
  PROVE  GuestType'
<1>1. CASE Splash \/ Ready \/ DrawLauncher \/ TouchIsLost \/ PlayerExits \/ SidecarPublishes
           \/ SidecarDraws \/ SidecarAborts \/ RestoreFrame \/ ReleaseTouch \/ StockRoute
  BY <1>1 DEF GuestType, Splash, Ready, DrawLauncher, TouchIsLost, PlayerExits,
     SidecarPublishes, SidecarDraws, SidecarAborts, RestoreFrame, ReleaseTouch, StockRoute, NoSide, IsSide, SideFields
<1>2. CASE PlayerTakesTouch
  BY <1>2 DEF GuestType, PlayerTakesTouch, NoSide, IsSide, SideFields
<1>3. CASE SidecarTakesTouch
  <2>1. UNCHANGED session
    BY <1>3 DEF SidecarTakesTouch
  <2>2. store' \in [Runtimes -> Confs]
    <3>1. \/ UNCHANGED store
          \/ \E row : store' = [store EXCEPT ![session.runtime] = Written(row)]
      BY <1>3 DEF SidecarTakesTouch
    <3> QED
      BY <3>1, WrittenType DEF GuestType
  <2>3. IsSide(side')
    <3>1. \/ side' \in {side, Back, Draw(side, "drag_ignored")}
          \/ \E row : side' \in {MainTap(row), LauncherTap(row)}
      BY <1>3 DEF SidecarTakesTouch
    <3> QED
      BY <3>1, SideTaps DEF GuestType
  <2> QED
    BY <2>1, <2>2, <2>3 DEF GuestType
<1>4. CASE SidecarEnds
  BY <1>4 DEF GuestType, SidecarEnds, Confs, SshWords
<1> QED
  BY <1>1, <1>2, <1>3, <1>4 DEF GuestNext, GuestStep

\* The steps of the harness keep it too.
LEMMA GuestTypeSteps ==
  ASSUME EvidenceInv, GuestType, [ValidationNext]_validationVars
  PROVE  GuestType'
<1>1. CASE UNCHANGED guestVars
  BY <1>1 DEF GuestType, guestVars
<1>2. CASE GuestNext
  BY <1>2, GuestTypeGuest
<1>3. ASSUME Stopped PROVE GuestType'
  BY <1>3 DEF Stopped, GuestType, IsSession, SessionFields, NoSide, IsSide, SideFields
<1>4. CASE StartSession
  <2>1. Step.runtime \in Booted
    BY <1>4, StartSteps DEF StartSession
  <2>2. /\ IsSession(session')
        /\ session'.runtime = Step.runtime /\ session'.boot = session.boot + 1
        /\ side' = NoSide
    BY <1>4 DEF StartSession, Launches, IsSession, SessionFields
  <2>3. store' \in [Runtimes -> Confs]
    <3>1. PICK conf \in SUBSET Tiles : \/ UNCHANGED store
                    \/ store' = [store EXCEPT ![Step.runtime].mask = SelectConfig(conf)]
      <4>1. Step.runtime \in Runtimes
        BY <2>1, Directories DEF Booted
      <4>2. store[Step.runtime].mask \in SUBSET Tiles /\ NoMask \in SUBSET Tiles
        BY <4>1 DEF GuestType, Confs, NoMask
      <4> QED
        BY <1>4, <4>2 DEF StartSession, Launches
    <3>2. SelectConfig(conf) \in SUBSET Tiles
      BY SelectedConf
    <3> QED
      BY <3>1, <3>2 DEF GuestType, Confs
  <2>4. IsSide(NoSide)
    BY DEF IsSide, SideFields, NoSide
  <2>5. session.boot + 1 \in Nat
    <3>1. PICK boot \in Nat : boot = session.boot
      BY DEF GuestType
    <3>2. boot + 1 \in Nat
      OBVIOUS
    <3> QED
      BY <3>1, <3>2
  <2> QED
    BY <2>1, <2>2, <2>3, <2>4, <2>5 DEF GuestType
<1>5. CASE ClearRecord \/ InjectTouch
  BY <1>5 DEF ClearRecord, InjectTouch, GuestType
<1>6. CASE RunController
  <2>1. "ssh-runtime" \in Runtimes
    BY Directories
  <2>2. Switched(Step.command) \in SshWords
    BY <2>1 DEF Switched, GuestType, Confs, SshWords
  <2> QED
    BY <1>6, <2>1, <2>2 DEF RunController, GuestType, Confs
<1> QED
  BY <1>1, <1>2, <1>3, <1>4, <1>5, <1>6 DEF ValidationNext, Advance, validationVars, StopSession, WaitPlayerReady,
     WaitStableFrame, WaitFrame, WaitForRecord, ReadRecord, CaptureFrame, KeepEvidence,
     CompareStep, RunSshAuthentication, Hold, FailStep, Expire, Escape, Finish, Raise, Leaves

Typed == EvidenceInv /\ GuestType

\* The harness and the guest have their types in every state.
LEMMA TypedAlways == ValidationSpec => []Typed
<1>1. ValidationInit => Typed
  BY EvidenceInit, GuestTypeInit DEF Typed
<1>2. Typed /\ [ValidationNext]_validationVars => Typed'
  BY EvidenceSteps, GuestTypeSteps DEF Typed
<1> QED
  BY <1>1, <1>2, PTL DEF ValidationSpec

-------------------------------------------------------------------------------
(***************************************************************************)
(* The controller and the SSH server.                                      *)
(***************************************************************************)
SshAt == CHOOSE k : Placed(ValidateSshRuntime, Script, k)

\* The steps of the SSH trials, by their place in the script.
LEMMA SshSteps ==
  /\ SshAt \in Nat /\ SshAt + 19 <= Len(Script)
  /\ Script[SshAt + 1] = [op |-> "control", command |-> "disable", expected |-> 0]
  /\ Script[SshAt + 2] = [op |-> "control", command |-> "is-enabled", expected |-> 1]
  /\ Script[SshAt + 3] = [op |-> "control", command |-> "toggle", expected |-> 0]
  /\ Script[SshAt + 4] = [op |-> "control", command |-> "is-enabled", expected |-> 0]
  /\ Script[SshAt + 13] = [op |-> "ssh", trial |-> "publickey"]
  /\ Script[SshAt + 14] = [op |-> "ssh", trial |-> "password"]
  /\ Script[SshAt + 15] = [op |-> "ssh", trial |-> "unknown-key"]
  /\ Script[SshAt + 16] = [op |-> "ssh", trial |-> "wrong-password"]
<1>1. Placed(ValidateSshRuntime, Script, SshAt)
  BY Parts DEF PartOf, SshAt
<1>2. Len(ValidateSshRuntime) = 19
  BY DEF ValidateSshRuntime, ControllerRun, GuestTool, Markers, Authenticate, Record
<1>3. /\ ValidateSshRuntime[1] = [op |-> "control", command |-> "disable", expected |-> 0]
      /\ ValidateSshRuntime[2] = [op |-> "control", command |-> "is-enabled", expected |-> 1]
      /\ ValidateSshRuntime[3] = [op |-> "control", command |-> "toggle", expected |-> 0]
      /\ ValidateSshRuntime[4] = [op |-> "control", command |-> "is-enabled", expected |-> 0]
      /\ ValidateSshRuntime[13] = [op |-> "ssh", trial |-> "publickey"]
      /\ ValidateSshRuntime[14] = [op |-> "ssh", trial |-> "password"]
      /\ ValidateSshRuntime[15] = [op |-> "ssh", trial |-> "unknown-key"]
      /\ ValidateSshRuntime[16] = [op |-> "ssh", trial |-> "wrong-password"]
  BY DEF ValidateSshRuntime, ControllerRun, GuestTool, Markers, Authenticate, Record
<1>4. /\ SshAt \in Nat /\ SshAt + 19 <= Len(Script)
      /\ \A i \in 1..19 : Script[SshAt + i] = ValidateSshRuntime[i]
  BY <1>1, <1>2 DEF Placed
<1>5. {1, 2, 3, 4, 13, 14, 15, 16} \subseteq 1..19
  OBVIOUS
<1> QED
  BY <1>3, <1>4, <1>5

SshPast ==
  /\ Past(SshAt + 13, {"refuses_publickey", "no_root"})
  /\ Past(SshAt + 14, {"refuses_password"})
  /\ Past(SshAt + 15, {"accepts_unknown-key", "drops_unknown-key"})
  /\ Past(SshAt + 16, {"accepts_wrong-password"})

\* Those places are in the script.
LEMMA SshPlaces ==
  /\ SshAt + 4 \in 1..Len(Script) /\ SshAt + 13 \in 1..Len(Script)
  /\ SshAt + 14 \in 1..Len(Script) /\ SshAt + 15 \in 1..Len(Script)
  /\ SshAt + 16 \in 1..Len(Script)
<1>1. PICK k, n \in Nat : k = SshAt /\ n = Len(Script) /\ k + 19 <= n
  BY SshSteps, ScriptType
<1>2. k + 4 \in 1..n /\ k + 13 \in 1..n /\ k + 14 \in 1..n
      /\ k + 15 \in 1..n /\ k + 16 \in 1..n
  BY <1>1
<1> QED
  BY <1>1, <1>2

\* SshPast holds at the start.
LEMMA SshPastInit == ValidationInit => SshPast
<1> SUFFICES ASSUME ValidationInit PROVE SshPast
  OBVIOUS
<1>1. \A n \in 1..Len(Script) : \A set : Past(n, set)
  BY PastInit
<1> QED
  BY <1>1, SshPlaces DEF SshPast

\* The trials of validate_ssh_runtime see what Dropbear does wrong.
LEMMA SshPastSteps ==
  ASSUME EvidenceInv, SshPast, [ValidationNext]_validationVars
  PROVE  SshPast'
<1>1. ASSUME NEW trial, NEW n, Passes(n), Script[n] = [op |-> "ssh", trial |-> trial]
      PROVE  AttemptIsRight(trial, Attempt(trial))
  <2>1. Step = [op |-> "ssh", trial |-> trial]
    BY <1>1 DEF Step, Passes
  <2>2. RunSshAuthentication
    BY <1>1, <2>1, Kinds DEF Passes
  <2> QED
    BY <2>1, <2>2 DEF RunSshAuthentication
<1>2. Passes(SshAt + 13) => flaws \cap {"refuses_publickey", "no_root"} = {}
  <2> HAVE Passes(SshAt + 13)
  <2>1. AttemptIsRight("publickey", Attempt("publickey"))
    BY <1>1, SshSteps
  <2> QED
    BY <2>1 DEF AttemptIsRight, Attempt, Admitted
<1>3. Passes(SshAt + 14) => flaws \cap {"refuses_password"} = {}
  <2> HAVE Passes(SshAt + 14)
  <2>1. AttemptIsRight("password", Attempt("password"))
    BY <1>1, SshSteps
  <2> QED
    BY <2>1 DEF AttemptIsRight, Attempt, Admitted
<1>4. Passes(SshAt + 15) => flaws \cap {"accepts_unknown-key", "drops_unknown-key"} = {}
  <2> HAVE Passes(SshAt + 15)
  <2>1. AttemptIsRight("unknown-key", Attempt("unknown-key"))
    BY <1>1, SshSteps
  <2> QED
    BY <2>1 DEF AttemptIsRight, Attempt, Admitted, Dropped
<1>5. Passes(SshAt + 16) => flaws \cap {"accepts_wrong-password"} = {}
  <2> HAVE Passes(SshAt + 16)
  <2>1. AttemptIsRight("wrong-password", Attempt("wrong-password"))
    BY <1>1, SshSteps
  <2> QED
    BY <2>1 DEF AttemptIsRight, Attempt, Admitted
<1>6. Past(SshAt + 13, {"refuses_publickey", "no_root"})'
  <2>1. SshAt + 13 \in 1..Len(Script)
    BY SshPlaces
  <2> QED
    BY <1>2, <2>1, PastStep DEF SshPast
<1>7. Past(SshAt + 14, {"refuses_password"})'
  <2>1. SshAt + 14 \in 1..Len(Script)
    BY SshPlaces
  <2> QED
    BY <1>3, <2>1, PastStep DEF SshPast
<1>8. Past(SshAt + 15, {"accepts_unknown-key", "drops_unknown-key"})'
  <2>1. SshAt + 15 \in 1..Len(Script)
    BY SshPlaces
  <2> QED
    BY <1>4, <2>1, PastStep DEF SshPast
<1>9. Past(SshAt + 16, {"accepts_wrong-password"})'
  <2>1. SshAt + 16 \in 1..Len(Script)
    BY SshPlaces
  <2> QED
    BY <1>5, <2>1, PastStep DEF SshPast
<1> QED
  BY <1>6, <1>7, <1>8, <1>9 DEF SshPast

\* The guest writes to its own runtime directory only.
LEMMA GuestWrites ==
  ASSUME GuestType, GuestNext
  PROVE  \A runtime \in Runtimes \ {session.runtime} : store'[runtime] = store[runtime]
<1>1. \/ UNCHANGED store
      \/ \E conf : store' = [store EXCEPT ![session.runtime] = conf]
  BY DEF GuestNext, GuestStep, PlayerExits, Splash, Ready, DrawLauncher,
     PlayerTakesTouch, TouchIsLost, SidecarDraws, SidecarPublishes, SidecarTakesTouch,
     SidecarEnds, SidecarAborts, RestoreFrame, ReleaseTouch, StockRoute
<1> QED
  BY <1>1 DEF GuestType

Toggled ==
  /\ ~ended /\ pc \in (SshAt + 2)..(SshAt + 4) /\ "toggle_stuck" \in flaws
       => store["ssh-runtime"].ssh = "disabled"
  /\ Past(SshAt + 4, {"toggle_stuck"})

\* Toggled holds at the start.
LEMMA ToggledInit == ValidationInit => Toggled
<1> SUFFICES ASSUME ValidationInit PROVE Toggled
  OBVIOUS
<1>1. \A n \in 1..Len(Script) : \A set : Past(n, set)
  BY PastInit
<1>2. pc \notin (SshAt + 2)..(SshAt + 4)
  BY SshSteps DEF ValidationInit
<1> QED
  BY <1>1, <1>2, SshPlaces DEF Toggled

\* A switch that is stuck stays off, and is-enabled says so.
LEMMA ToggledSteps ==
  ASSUME Typed, Toggled, [ValidationNext]_validationVars
  PROVE  Toggled'
<1>1. EvidenceInv /\ GuestType /\ flaws' = flaws
  BY FlawsStay DEF Typed
<1>2. "ssh-runtime" \in Runtimes /\ "ssh-runtime" \notin Booted \cup {""}
  BY Directories DEF Booted
<1>3. Passes(SshAt + 4) => flaws \cap {"toggle_stuck"} = {}
  <2> HAVE Passes(SshAt + 4)
  <2>1. Step = [op |-> "control", command |-> "is-enabled", expected |-> 0]
    BY SshSteps DEF Passes, Step
  <2>2. RunController
    BY <2>1, Kinds DEF Passes
  <2>3. store["ssh-runtime"].ssh = "enabled"
    BY <2>1, <2>2 DEF RunController, ExitCode, Enabled
  <2>4. SshAt + 4 \in (SshAt + 2)..(SshAt + 4)
    BY SshSteps
  <2> QED
    BY <2>3, <2>4 DEF Toggled, Passes
<1>4. Past(SshAt + 4, {"toggle_stuck"})'
  <2>1. SshAt + 4 \in 1..Len(Script)
    BY SshPlaces
  <2> QED
    BY <1>1, <1>3, <2>1, PastStep DEF Toggled
<1>5. ASSUME ~ended', pc' \in (SshAt + 2)..(SshAt + 4), "toggle_stuck" \in flaws
      PROVE  store'["ssh-runtime"].ssh = "disabled"
  <2>1. ~ended
    BY <1>1, <1>5, GoesOn
  <2>2. CASE UNCHANGED validationVars
    BY <1>5, <2>1, <2>2 DEF validationVars, guestVars, Toggled
  <2>3. CASE GuestMoves
    <3>1. store'["ssh-runtime"] = store["ssh-runtime"]
      BY <1>1, <1>2, <2>3, GuestWrites DEF GuestMoves, GuestType
    <3> QED
      BY <1>5, <2>1, <2>3, <3>1 DEF GuestMoves, Toggled
  <2>4. CASE Does /\ pc' \in {pc, pc + 1}
    <3>1. PICK k, n \in Nat : k = SshAt /\ n = pc
      BY <1>1, SshSteps DEF EvidenceInv
    <3>2. n \in (k + 1)..(k + 4)
      BY <1>5, <2>4, <3>1
    <3>3. pc \in {SshAt + 1, SshAt + 2, SshAt + 3, SshAt + 4}
      BY <3>1, <3>2
    <3>4. RunController
      BY <2>4, <3>3, SshSteps, Kinds DEF Step
    <3>5. pc' = pc + 1 /\ store' = [store EXCEPT !["ssh-runtime"].ssh = Switched(Step.command)]
      BY <3>4 DEF RunController, Continue
    <3>6. store'["ssh-runtime"].ssh = Switched(Step.command)
      BY <1>1, <1>2, <3>5 DEF GuestType, Confs
    <3>7. CASE pc = SshAt + 1
      BY <3>6, <3>7, SshSteps DEF Step, Switched
    <3>8. CASE pc \in {SshAt + 2, SshAt + 3}
      <4>1. pc \in (SshAt + 2)..(SshAt + 4)
        BY <3>1, <3>8
      <4>2. store["ssh-runtime"].ssh = "disabled"
        BY <1>5, <2>1, <4>1 DEF Toggled
      <4>3. Step.command \in {"is-enabled", "toggle"}
        <5>1. Script[SshAt + 2].command = "is-enabled" /\ Script[SshAt + 3].command = "toggle"
          BY SshSteps
        <5> QED
          BY <3>8, <5>1 DEF Step
      <4> QED
        BY <1>5, <3>6, <4>2, <4>3 DEF Switched
    <3>9. CASE pc = SshAt + 4
      BY <1>5, <3>5, <3>9, SshSteps
    <3> QED
      BY <3>3, <3>7, <3>8, <3>9
  <2> QED
    BY <1>1, <1>5, <2>2, <2>3, <2>4, GoesOn
<1> QED
  BY <1>1, <1>4, <1>5 DEF Toggled

\* Part of a part is part of the whole.
LEMMA PartTrans ==
  ASSUME NEW a, NEW b, NEW c, IsList(a), IsList(b), IsList(c), PartOf(a, b), PartOf(b, c)
  PROVE  PartOf(a, c)
<1>1. PICK j : Placed(a, b, j)
  BY DEF PartOf
<1>2. PICK k : Placed(b, c, k)
  BY DEF PartOf
<1>3. Len(a) \in Nat /\ Len(b) \in Nat /\ Len(c) \in Nat
  BY LenProperties DEF IsList
<1>4. \A i \in 1..Len(a) : j + i \in 1..Len(b) /\ (k + j) + i = k + (j + i)
  BY <1>1, <1>2, <1>3 DEF Placed
<1>5. k + j \in Nat /\ (k + j) + Len(a) <= Len(c)
  BY <1>1, <1>2, <1>3 DEF Placed
<1>6. \A i \in 1..Len(a) : c[(k + j) + i] = a[i]
  BY <1>1, <1>2, <1>4 DEF Placed
<1>7. Placed(a, c, k + j)
  BY <1>5, <1>6 DEF Placed
<1> QED
  BY <1>7 DEF PartOf

\* The functions the parts are taken from, and the steps around them.
LEMMA Lists ==
  /\ \A s, t : IsList(s) /\ IsList(t) => IsList(s \o t)
  /\ IsList(Shutdown) /\ IsList(Alive) /\ IsList(ClearSemantic) /\ IsList(Semantic)
  /\ \A n \in Holding : IsList(Stable(n)) /\ IsList(WaitChange(n)) /\ IsList(WaitHash(n))
                        /\ IsList(Capture(n))
  /\ \A m, n \in Holding : IsList(Same(m, n)) /\ IsList(<<[op |-> "keep", of |-> m, into |-> n]>>)
  /\ \A p \in Points : IsList(Tap(p)) /\ IsList(Drag(p)) /\ IsList(OpenCfw(p)) /\ IsList(TapChange(p))
  /\ \A checked \in RequiredChecks : IsList(Record(checked))
  /\ \A label \in Labels : IsList(PromoteShot(label)) /\ IsList(SaveNow(label))
  /\ \A label \in Labels, n \in Holding : IsList(Save(label, n))
  /\ \A mask \in SUBSET Tiles : IsList(Config(mask))
  /\ \A ssh \in SUBSET {"fresh", "enabled", "disabled"} : IsList(Markers(ssh))
  /\ \A wanted \in Wanted : IsList(WaitSemantic(wanted)) /\ IsList(WaitNewer(wanted))
  /\ IsList(BackToMain) /\ IsList(ToggleSsh)
  /\ \A name \in Holding : IsList(LeaveCfw(name))
  /\ \A row \in Nat, mask \in SUBSET Tiles : IsList(Toggles(row, mask))
  /\ IsList(Script)
<1>1. \A s : Plain(s) => IsList(s)
  BY DEF Plain, Yields
<1>2. \A s, l : Checks(s, l) \/ Puts(s, l) \/ Shoots(s, l) => IsList(s)
  BY DEF Checks, Puts, Shoots, Yields
<1>3. \A s, t : IsList(s) /\ IsList(t) => IsList(s \o t)
  BY Union
<1>4. IsList(Script)
  BY ScriptYields DEF Yields
<1> QED
  BY <1>1, <1>2, <1>3, <1>4, SingleSteps, SmallFunctions

\* The functions of the script are lists of steps.
LEMMA SettingsLists ==
  /\ IsList(LauncherSettings) /\ IsList(InformationPages) /\ IsList(SshToggles)
  /\ IsList(DefaultRoutes) /\ IsList(SixRoutes) /\ IsList(CfwLifecycle)
  /\ IsList(ValidateCandidateDefault) /\ IsList(ValidateSixTileLauncher)
  /\ IsList(ValidateAlternateSixLauncher) /\ IsList(ValidateRestartPosition)
  /\ \A checked \in RequiredChecks, row \in Nat, route, action \in Word, label \in Labels :
       IsList(WirelessRoute(checked, row, route, action, label))
  /\ \A row \in Nat, screen \in Word, label \in Labels : IsList(CfwPage(row, screen, label))
BY LauncherSettingsYields, InformationPagesYields, SshTogglesYields, DefaultRoutesYields,
   SixRoutesYields, LifecycleYields, ValidateCandidateDefaultYields,
   ValidateSixTileLauncherYields, ValidateAlternateSixLauncherYields,
   ValidateRestartPositionYields, WirelessRouteYields, CfwPageYields DEF Yields, Shoots

\* The functions of the default session are parts of the script.
LEMMA DefaultParts ==
  /\ PartOf(DefaultRoutes, Script) /\ PartOf(SshToggles, Script)
  /\ PartOf(InformationPages, Script) /\ PartOf(LauncherSettings, Script)
<1> DEFINE wifi == WirelessRoute("cfw.wifi-route", 1, "wifi", "wifi_route",
                                 "stock-wireless-from-cfw-wifi")
           bluetooth == WirelessRoute("cfw.bluetooth-route", 2, "bluetooth",
                          "bluetooth_route", "stock-wireless-from-cfw-bluetooth")
<1>1. IsList(wifi) /\ IsList(bluetooth)
  <2>1. "cfw.wifi-route" \in RequiredChecks /\ "cfw.bluetooth-route" \in RequiredChecks
    BY DEF RequiredChecks
  <2>2. {"wifi", "wifi_route", "bluetooth", "bluetooth_route"} \subseteq Word
    BY DEF Word
  <2>3. /\ "stock-wireless-from-cfw-wifi" \in Labels
        /\ "stock-wireless-from-cfw-bluetooth" \in Labels
    BY DEF Labels
  <2>4. IsList(wifi)
    BY <2>1, <2>2, <2>3, SettingsLists
  <2>5. IsList(bluetooth)
    BY <2>1, <2>2, <2>3, SettingsLists
  <2> QED
    BY <2>4, <2>5
<1>2. ValidateCandidateDefault =
        DefaultRoutes \o CfwLifecycle \o SshToggles \o InformationPages \o LauncherSettings
          \o wifi \o bluetooth \o Shutdown
  BY DEF ValidateCandidateDefault
<1> HIDE DEF wifi, bluetooth
<1>3. /\ PartOf(DefaultRoutes, ValidateCandidateDefault)
      /\ PartOf(SshToggles, ValidateCandidateDefault)
      /\ PartOf(InformationPages, ValidateCandidateDefault)
      /\ PartOf(LauncherSettings, ValidateCandidateDefault)
  BY <1>1, <1>2, Lists, SettingsLists, PartSelf, PartLeft, PartRight
<1> QED
  BY <1>3, Parts, PartTrans, Lists, SettingsLists

\* A step that is a part of the script is one of its steps.
LEMMA StepOfPart ==
  ASSUME NEW x, PartOf(<<x>>, Script)
  PROVE  \E n \in 1..Len(Script) : Script[n] = x
<1>1. PICK k : Placed(<<x>>, Script, k)
  BY DEF PartOf
<1>2. Len(<<x>>) = 1 /\ <<x>>[1] = x /\ Len(Script) \in Nat
  BY ScriptType
<1>3. k + 1 \in 1..Len(Script) /\ Script[k + 1] = x
  BY <1>1, <1>2 DEF Placed
<1> QED
  BY <1>3

\* The page that tells of the memory, and the drag in the launcher settings.
MemoryWanted == [screen |-> {"memory"}]
DragWanted == [action |-> {"drag_ignored"}, mask |-> {SixTiles}]
Newer(wanted) == [op |-> "semantic", wanted |-> wanted, newer |-> TRUE]

\* Somewhere the script waits for the memory page,
LEMMA MemoryIsWanted == \E n \in 1..Len(Script) : Script[n] = Newer(MemoryWanted)
<1>1. /\ IsList(Semantic) /\ IsList(Tap(Row(6))) /\ IsList(WaitNewer([screen |-> {"memory"}]))
      /\ IsList(SaveNow("memory")) /\ IsList(BackToMain)
  <2>1. "memory" \in Word /\ "memory" \in Labels
    BY DEF Word, Labels, SaidLabels
  <2> QED
    BY <2>1, Lists, Wants, Rows
<1>2. PartOf(WaitNewer([screen |-> {"memory"}]), CfwPage(6, "memory", "memory"))
  BY <1>1, Lists, PartSelf, PartLeft, PartRight DEF CfwPage
<1>3. /\ IsList(CfwPage(4, "internal", "internal-storage"))
      /\ IsList(CfwPage(5, "sd", "microsd-present")) /\ IsList(CfwPage(6, "memory", "memory"))
      /\ IsList(CfwPage(7, "system", "system-information"))
      /\ IsList(CfwPage(8, "about", "about-cfw"))
      /\ IsList(<<[op |-> "keep", of |-> "last", into |-> "present"]>>)
      /\ IsList(Record("cfw.information-pages")) /\ IsList(Record("storage.sd-present"))
  <2>1. /\ {"internal", "sd", "memory", "system", "about"} \subseteq Word
        /\ {"internal-storage", "microsd-present", "memory", "system-information",
            "about-cfw"} \subseteq Labels
        /\ {"cfw.information-pages", "storage.sd-present"} \subseteq RequiredChecks
    BY DEF Word, Labels, SaidLabels, RequiredChecks
  <2> QED
    BY <2>1, Lists, SettingsLists, Held
<1>4. PartOf(CfwPage(6, "memory", "memory"), InformationPages)
  BY <1>3, Lists, PartSelf, PartLeft, PartRight, Zenon DEF InformationPages
<1>5. PartOf(WaitNewer([screen |-> {"memory"}]), Script)
  BY <1>1, <1>2, <1>3, <1>4, DefaultParts, PartTrans, Lists, SettingsLists
<1> QED
  BY <1>5, StepOfPart DEF WaitNewer, Newer, MemoryWanted

\* and for a record of a drag.
LEMMA DragIsWanted == \E n \in 1..Len(Script) : Script[n] = Newer(DragWanted)
<1> DEFINE before ==
  Semantic \o Tap(Row(3))
  \o WaitNewer([screen |-> {"launcher"}, mask |-> {DefaultMask}])
  \o SaveNow("launcher-settings-71")
  \o Toggles(1, DefaultMask \cup {"stream"}) \o Toggles(2, SixTiles)
  \o Capture("settings") \o Save("launcher-settings-77", "settings")
  \o Tap(Row(3))
  \o WaitNewer([screen |-> {"launcher"}, action |-> {"launcher_rejected"},
                mask |-> {SixTiles}])
  \o WaitChange("settings") \o Save("launcher-maximum-six-rejected", "last")
  \o Config(SixTiles) \o Record("launcher.maximum-rejected")
  \o Tap(Row(5))
  \o WaitNewer([action |-> {"launcher_rejected"}, mask |-> {SixTiles}])
  \o Drag(DragStart)
<1> DEFINE drag == WaitNewer([action |-> {"drag_ignored"}, mask |-> {SixTiles}])
<1>1. /\ IsList(Semantic) /\ IsList(Tap(Row(3)))
      /\ IsList(WaitNewer([screen |-> {"launcher"}, mask |-> {DefaultMask}]))
      /\ IsList(SaveNow("launcher-settings-71"))
      /\ IsList(Toggles(1, DefaultMask \cup {"stream"})) /\ IsList(Toggles(2, SixTiles))
      /\ IsList(Capture("settings")) /\ IsList(Save("launcher-settings-77", "settings"))
      /\ IsList(WaitNewer([screen |-> {"launcher"}, action |-> {"launcher_rejected"},
                           mask |-> {SixTiles}]))
      /\ IsList(WaitChange("settings")) /\ IsList(Save("launcher-maximum-six-rejected", "last"))
      /\ IsList(Config(SixTiles)) /\ IsList(Record("launcher.maximum-rejected"))
      /\ IsList(Tap(Row(5))) /\ IsList(Drag(DragStart)) /\ IsList(drag)
      /\ IsList(WaitNewer([action |-> {"launcher_rejected"}, mask |-> {SixTiles}]))
  <2>1. /\ {"launcher_rejected", "drag_ignored"} \subseteq Word
        /\ {"launcher-settings-71", "launcher-settings-77",
            "launcher-maximum-six-rejected"} \subseteq Labels
        /\ "launcher.maximum-rejected" \in RequiredChecks
    BY DEF Word, Labels, SaidLabels, RequiredChecks
  <2> QED
    BY <2>1, Lists, Wants, Rows, Held, MaskSets, TapPoints
<1>2. IsList(before)
  BY <1>1, Lists, Zenon
<1>3. /\ IsList(Record("launcher.drag-no-activation")) /\ IsList(Tap(BackTouch))
      /\ IsList(WaitSemantic([screen |-> {"main"}, action |-> {"back"}]))
      /\ IsList(Record("cfw.launcher-settings")) /\ IsList(LeaveCfw("base"))
  <2>1. {"launcher.drag-no-activation", "cfw.launcher-settings"} \subseteq RequiredChecks
    BY DEF RequiredChecks
  <2> QED
    BY <2>1, Lists, Wants, Rows, Held
<1>4. LauncherSettings =
        before \o drag \o Config(SixTiles) \o Record("launcher.drag-no-activation")
          \o Tap(BackTouch) \o WaitSemantic([screen |-> {"main"}, action |-> {"back"}])
          \o Record("cfw.launcher-settings") \o LeaveCfw("base")
  BY DEF LauncherSettings
<1> HIDE DEF before, drag
<1>5. PartOf(drag, LauncherSettings)
  BY <1>1, <1>2, <1>3, <1>4, Lists, PartSelf, PartLeft, PartRight, Zenon
<1>6. PartOf(drag, Script)
  BY <1>1, <1>5, DefaultParts, PartTrans, Lists, SettingsLists
<1> QED
  BY <1>6, StepOfPart DEF drag, WaitNewer, Newer, DragWanted

\* The start of the session with six tiles.
SixStart == Boot("candidate-present", TRUE, TRUE, FALSE) \o Config(SixTiles)
SixAt == CHOOSE k : Placed(SixStart, Script, k)

\* The session with six tiles is part of the script.
LEMMA SixPart == PartOf(SixStart, Script)
<1> DEFINE music == StockTileRoundtrip("route-six-77-music", UpperLeft)
           stream == StockTileRoundtrip("route-six-77-stream", UpperRight)
           wireless == StockTileRoundtrip("route-six-77-wireless", MiddleLeft)
           system == StockTileRoundtrip("route-six-77-system", MiddleRight)
           about == StockTileRoundtrip("route-six-77-about", LowerRight)
<1>1. /\ IsList(Boot("candidate-present", TRUE, TRUE, FALSE)) /\ IsList(Config(SixTiles))
      /\ IsList(SixStart)
  BY Lists, Boots, MaskSets DEF Plain, Yields, SixStart
<1>2. /\ IsList(Save("six-tile-launcher-77", "launcher"))
      /\ IsList(Record("launcher.persistence.77")) /\ IsList(PromoteShot("six-tile-launcher-77"))
      /\ IsList(music) /\ IsList(stream) /\ IsList(wireless) /\ IsList(system) /\ IsList(about)
      /\ IsList(OpenCfw(SixCfwTile)) /\ IsList(SaveNow("six-77-cfw-open"))
      /\ IsList(LeaveCfw("base")) /\ IsList(Save("six-77-cfw-restored", "last"))
      /\ IsList(Record("launcher.six-tile-routes"))
  <2>1. /\ {"six-tile-launcher-77", "route-six-77-music", "route-six-77-stream",
            "route-six-77-wireless", "route-six-77-system", "route-six-77-about",
            "six-77-cfw-open", "six-77-cfw-restored"} \subseteq Labels
        /\ {"launcher.persistence.77", "launcher.six-tile-routes"} \subseteq RequiredChecks
    BY DEF RequiredChecks, Labels, SaidLabels
  <2>2. \A label \in Labels, point \in Points : IsList(StockTileRoundtrip(label, point))
    BY Roundtrips DEF Shoots, Yields
  <2> QED
    BY <2>1, <2>2, Lists, Rows, TapPoints, Held
<1>3. SixRoutes =
        SixStart \o Save("six-tile-launcher-77", "launcher")
          \o Record("launcher.persistence.77") \o PromoteShot("six-tile-launcher-77")
          \o music \o stream \o wireless \o system \o about
          \o OpenCfw(SixCfwTile) \o SaveNow("six-77-cfw-open") \o LeaveCfw("base")
          \o Save("six-77-cfw-restored", "last") \o Record("launcher.six-tile-routes")
  BY DEF SixRoutes, SixStart
<1> HIDE DEF music, stream, wireless, system, about
<1>4. PartOf(SixStart, SixRoutes)
  BY <1>1, <1>2, <1>3, Lists, PartSelf, PartLeft, Zenon
<1>5. PartOf(SixRoutes, ValidateSixTileLauncher)
  <2>1. /\ IsList(OpenCfw(SixCfwTile)) /\ IsList(Tap(Row(3)))
        /\ IsList(WaitNewer([screen |-> {"launcher"}, mask |-> {SixTiles}]))
        /\ IsList(Toggles(1, SixTiles \ {"stream"})) /\ IsList(Toggles(3, AlternateSix))
        /\ IsList(SaveNow("launcher-settings-alternate-six-7d")) /\ IsList(Config(AlternateSix))
        /\ IsList(BackToMain) /\ IsList(LeaveCfw("base"))
        /\ IsList(Record("launcher.ebook-swap")) /\ IsList(Shutdown)
    <3>1. /\ "launcher-settings-alternate-six-7d" \in Labels
          /\ "launcher.ebook-swap" \in RequiredChecks
      BY DEF RequiredChecks, Labels, SaidLabels
    <3> QED
      BY <3>1, Lists, Wants, Rows, MaskSets, Held
  <2> QED
    BY <2>1, Lists, SettingsLists, PartSelf, PartLeft, Zenon DEF ValidateSixTileLauncher
<1> QED
  BY <1>1, <1>4, <1>5, Parts, PartTrans, Lists, SettingsLists

-------------------------------------------------------------------------------
(***************************************************************************)
(* What the records never say, and what is never saved.                    *)
(***************************************************************************)
MemoryAt == CHOOSE n \in 1..Len(Script) : Script[n] = Newer(MemoryWanted)
DragAt == CHOOSE n \in 1..Len(Script) : Script[n] = Newer(DragWanted)

Untold ==
  /\ "page_dead" \in flaws => side.screen # "memory" /\ cfwState.screen # "memory"
  /\ "drag_taps" \in flaws => side.action # "drag_ignored" /\ cfwState.action # "drag_ignored"
  /\ Past(MemoryAt, {"page_dead"})
  /\ Past(DragAt, {"drag_taps"})

\* Those two waits have places in the script.
LEMMA WantedPlaces ==
  /\ MemoryAt \in 1..Len(Script) /\ Script[MemoryAt] = Newer(MemoryWanted)
  /\ DragAt \in 1..Len(Script) /\ Script[DragAt] = Newer(DragWanted)
BY MemoryIsWanted, DragIsWanted DEF MemoryAt, DragAt

\* Untold holds at the start.
LEMMA UntoldInit == ValidationInit => Untold
<1> SUFFICES ASSUME ValidationInit PROVE Untold
  OBVIOUS
<1>1. Past(MemoryAt, {"page_dead"}) /\ Past(DragAt, {"drag_taps"})
  BY PastInit, WantedPlaces
<1>2. side.screen = "" /\ side.action = "" /\ cfwState.screen = "" /\ cfwState.action = ""
  BY DEF ValidationInit, GuestInit, NoSide, NoState
<1> QED
  BY <1>1, <1>2 DEF Untold

\* What a tap makes of the sidecar.
LEMMA TapsTell ==
  ASSUME IsSide(side), NEW row
  PROVE  /\ Draw(side, "drag_ignored").screen = side.screen
         /\ \A s \in {Back, MainTap(row), LauncherTap(row)} :
              /\ s.screen \in {side.screen, "main", "launcher", "internal", "sd", "memory",
                               "system", "about"}
              /\ s.screen = "memory" => side.screen = "memory" \/ "page_dead" \notin flaws
              /\ s.action = "drag_ignored" => side.action = "drag_ignored"
<1>1. ASSUME NEW s, IsSide(s), NEW action
      PROVE  Draw(s, action).screen = s.screen /\ Draw(s, action).action = action
  BY <1>1 DEF IsSide, SideFields, Draw
<1>2. ASSUME NEW screen, NEW action
      PROVE  /\ GoToPage(screen, action).screen = screen
             /\ GoToPage(screen, action).action = action
  <2>1. PICK m : GoToPage(screen, action) =
                   Draw([side EXCEPT !.screen = screen, !.notice = FALSE, !.mask = m], action)
    BY DEF GoToPage
  <2>2. PICK s : s = [side EXCEPT !.screen = screen, !.notice = FALSE, !.mask = m]
    OBVIOUS
  <2>3. IsSide(s) /\ s.screen = screen
    BY <2>2 DEF IsSide, SideFields
  <2>4. GoToPage(screen, action) = Draw(s, action)
    BY <2>1, <2>2, Zenon
  <2>5. Draw(s, action).screen = s.screen /\ Draw(s, action).action = action
    BY <1>1, <2>3
  <2> QED
    BY <2>3, <2>4, <2>5, Zenon
<1>3. ASSUME NEW route, NEW action
      PROVE  Leave(route, action).screen = side.screen /\ Leave(route, action).action = action
  BY DEF IsSide, SideFields, Leave
<1>4. ASSUME NEW m, NEW s, s = [side EXCEPT !.notice = FALSE, !.mask = m]
      PROVE  IsSide(s) /\ s.screen = side.screen
  BY <1>4 DEF IsSide, SideFields
<1>5. ASSUME NEW b, NEW s, s = [side EXCEPT !.notice = b]
      PROVE  IsSide(s) /\ s.screen = side.screen
  BY <1>5 DEF IsSide, SideFields
<1>6. /\ Back.screen \in {side.screen, "main"} /\ Back.action \in {side.action, "back"}
  BY <1>2, <1>3 DEF Back
<1>7. \A s : s = LauncherTap(row) =>
        s.screen = side.screen /\ s.action \in {side.action, "launcher_rejected", "launcher_toggle"}
  <2>1. \/ LauncherTap(row) = side
        \/ \E s, action : LauncherTap(row) = Draw(s, action) /\ IsSide(s)
              /\ s.screen = side.screen /\ action \in {"launcher_rejected", "launcher_toggle"}
    <3>1. PICK cfw, tiles, notice :
            LauncherTap(row) \in {
              side,
              Draw([side EXCEPT !.notice = FALSE, !.mask = cfw], "launcher_rejected"),
              Draw([side EXCEPT !.notice = FALSE, !.mask = tiles], "launcher_toggle"),
              Draw([side EXCEPT !.notice = notice], "launcher_rejected")}
      BY Zenon DEF LauncherTap
    <3>2. PICK a, b, c : /\ a = [side EXCEPT !.notice = FALSE, !.mask = cfw]
                         /\ b = [side EXCEPT !.notice = FALSE, !.mask = tiles]
                         /\ c = [side EXCEPT !.notice = notice]
      OBVIOUS
    <3>3. /\ IsSide(a) /\ IsSide(b) /\ IsSide(c)
          /\ a.screen = side.screen /\ b.screen = side.screen /\ c.screen = side.screen
      BY <1>4, <1>5, <3>2
    <3>4. LauncherTap(row) \in {side, Draw(a, "launcher_rejected"), Draw(b, "launcher_toggle"),
                               Draw(c, "launcher_rejected")}
      BY <3>1, <3>2, Zenon
    <3> QED
      BY <3>3, <3>4
  <2> QED
    BY <1>1, <2>1
<1>8. /\ MainTap(row).screen \in {side.screen, "main", "launcher", "internal", "sd", "memory",
                                 "system", "about"}
      /\ MainTap(row).screen = "memory" => side.screen = "memory" \/ "page_dead" \notin flaws
      /\ MainTap(row).action \in {side.action, "ssh_toggle", "wifi_route", "bluetooth_route",
                                 "open_page"}
  <2>1. CASE row \notin 0..8
    BY <2>1 DEF MainTap
  <2>2. CASE row = 0
    BY <2>2, <1>2 DEF MainTap
  <2>3. CASE row \in {1, 2}
    BY <2>3, <1>3 DEF MainTap
  <2>4. CASE row \in 3..8
    <3>1. row \in {3, 4, 5, 6, 7, 8}
      BY <2>4
    <3>2. /\ Pages[row - 2] \in {"launcher", "internal", "sd", "memory", "system", "about"}
          /\ Pages[row - 2] = "memory" => row = 6
      BY <3>1 DEF Pages
    <3>3. MainTap(row) = IF "page_dead" \in flaws /\ row = 6 THEN side
                         ELSE GoToPage(Pages[row - 2], "open_page")
      BY <3>1 DEF MainTap
    <3> QED
      BY <3>2, <3>3, <1>2
  <2> QED
    BY <2>1, <2>2, <2>3, <2>4
<1> QED
  BY <1>1, <1>6, <1>7, <1>8

\* What the guest's record and the sidecar's screen and action come from.
LEMMA GuestTells ==
  ASSUME GuestType, GuestNext
  PROVE  /\ cfwState' = cfwState \/ (cfwState'.screen = side.screen /\ cfwState'.action = side.action)
         /\ side'.screen = "memory" => side.screen = "memory" \/ "page_dead" \notin flaws
         /\ side'.action = "drag_ignored" => side.action = "drag_ignored" \/ "drag_taps" \notin flaws
<1>1. CASE Splash \/ Ready \/ DrawLauncher \/ TouchIsLost \/ PlayerExits
           \/ RestoreFrame \/ StockRoute
  BY <1>1 DEF Splash, Ready, DrawLauncher, TouchIsLost, PlayerExits, RestoreFrame, StockRoute
<1>2. CASE PlayerTakesTouch
  <2>1. UNCHANGED cfwState /\ (side' = side \/ (side'.screen = "main" /\ side'.action = ""))
    BY <1>2 DEF PlayerTakesTouch, NoSide
  <2> QED
    BY <2>1
<1>3. CASE SidecarDraws \/ SidecarAborts
  BY <1>3 DEF SidecarDraws, SidecarAborts, GuestType, IsSide, SideFields
<1>4. CASE SidecarPublishes
  BY <1>4 DEF SidecarPublishes, Published, GuestType, IsSide, SideFields
<1>5. CASE SidecarEnds
  BY <1>5 DEF SidecarEnds, Published
<1>6. CASE ReleaseTouch
  BY <1>6 DEF ReleaseTouch, NoSide
<1>7. CASE SidecarTakesTouch
  <2>1. IsSide(side) /\ UNCHANGED cfwState
    BY <1>7 DEF GuestType, SidecarTakesTouch
  <2>2. CASE side' = Draw(side, "drag_ignored") /\ "drag_taps" \notin flaws
    BY <2>1, <2>2, TapsTell
  <2>3. CASE \E row : side' \in {side, Back, MainTap(row), LauncherTap(row)}
    BY <2>1, <2>3, TapsTell
  <2> QED
    BY <1>7, <2>1, <2>2, <2>3 DEF SidecarTakesTouch
<1> QED
  BY <1>1, <1>2, <1>3, <1>4, <1>5, <1>6, <1>7 DEF GuestNext, GuestStep

\* The guest moves, or the program does one of five things to it, or nothing.
LEMMA Turns ==
  ASSUME [ValidationNext]_validationVars
  PROVE  \/ GuestMoves \/ UNCHANGED guestVars \/ Stopped
         \/ StartSession \/ ClearRecord \/ InjectTouch \/ RunController
<1>1. CASE UNCHANGED validationVars
  BY <1>1 DEF validationVars
<1>2. CASE ~ended /\ GuestNext /\ UNCHANGED <<pc, bench, verdict, ended>>
  BY <1>2 DEF GuestMoves
<1>3. CASE FailStep \/ Expire \/ Escape \/ Finish \/ StopSession
  BY <1>3 DEF FailStep, Expire, Escape, Finish, Raise, Leaves, StopSession
<1>4. CASE WaitPlayerReady \/ WaitStableFrame \/ WaitFrame \/ WaitForRecord \/ ReadRecord
           \/ CaptureFrame \/ KeepEvidence \/ CompareStep \/ RunSshAuthentication
  BY <1>4 DEF WaitPlayerReady, WaitStableFrame, WaitFrame, WaitForRecord, ReadRecord,
     CaptureFrame, KeepEvidence, CompareStep, RunSshAuthentication, Hold
<1> QED
  BY <1>1, <1>2, <1>3, <1>4 DEF ValidationNext, Advance

\* A page that does not open, and a drag that taps, are never told as what
\* the harness waits for.
LEMMA UntoldSteps ==
  ASSUME Typed, Untold, [ValidationNext]_validationVars
  PROVE  Untold'
<1>1. EvidenceInv /\ GuestType /\ flaws' = flaws
  BY FlawsStay DEF Typed
<1>2. /\ "page_dead" \in flaws => side'.screen # "memory" /\ cfwState'.screen # "memory"
      /\ "drag_taps" \in flaws =>
           side'.action # "drag_ignored" /\ cfwState'.action # "drag_ignored"
  <2>1. CASE GuestMoves
    BY <1>1, <2>1, GuestTells DEF GuestMoves, Untold
  <2>2. CASE UNCHANGED guestVars
    BY <2>2 DEF guestVars, Untold
  <2>3. CASE Stopped \/ StartSession
    <3>1. side' = NoSide /\ cfwState' = NoState
      BY <2>3 DEF Stopped, StartSession, Launches
    <3> QED
      BY <3>1 DEF NoSide, NoState
  <2>4. CASE ClearRecord \/ InjectTouch \/ RunController
    <3>1. side' = side /\ cfwState' \in {cfwState, NoState}
      BY <2>4 DEF ClearRecord, InjectTouch, RunController
    <3>2. NoState.screen = "" /\ NoState.action = ""
      BY DEF NoState
    <3> QED
      BY <3>1, <3>2 DEF Untold
  <2> QED
    BY <2>1, <2>2, <2>3, <2>4, Turns
<1>3. Passes(MemoryAt) => flaws \cap {"page_dead"} = {}
  <2> HAVE Passes(MemoryAt)
  <2>1. Step = Newer(MemoryWanted) /\ WaitForRecord
    BY WantedPlaces, Kinds DEF Passes, Step, Newer
  <2>2. cfwState.screen \in {"memory"}
    BY <2>1 DEF WaitForRecord, Newer, MemoryWanted
  <2> QED
    BY <2>2 DEF Untold
<1>4. Passes(DragAt) => flaws \cap {"drag_taps"} = {}
  <2> HAVE Passes(DragAt)
  <2>1. Step = Newer(DragWanted) /\ WaitForRecord
    BY WantedPlaces, Kinds DEF Passes, Step, Newer
  <2>2. cfwState.action \in {"drag_ignored"}
    BY <2>1 DEF WaitForRecord, Newer, DragWanted
  <2> QED
    BY <2>2 DEF Untold
<1>5. Past(MemoryAt, {"page_dead"})' /\ Past(DragAt, {"drag_taps"})'
  BY <1>1, <1>3, <1>4, WantedPlaces, PastStep DEF Untold
<1> QED
  BY <1>1, <1>2, <1>5 DEF Untold

-------------------------------------------------------------------------------
(***************************************************************************)
(* A guest that nobody has touched yet.                                    *)
(***************************************************************************)
Untouched(runtime) ==
  /\ session.runtime = runtime /\ player \in {"booting", "up", "gone"}
  /\ input = <<>> /\ hook = "idle" /\ side = NoSide /\ cfwState = NoState
  /\ \/ page = "splash" /\ shown \in {Blank, Drawn("splash")}
     \/ page = "launcher" /\ shown = Drawn("launcher")

\* A guest that nobody touches does not change its disk.
LEMMA UntouchedGuest ==
  ASSUME NEW runtime, Untouched(runtime), GuestNext
  PROVE  Untouched(runtime)' /\ UNCHANGED <<store, session>>
<1>1. CASE Splash \/ Ready \/ DrawLauncher \/ PlayerExits
  BY <1>1 DEF Splash, Ready, DrawLauncher, PlayerExits, Untouched, Drawn
<1>2. ~(PlayerTakesTouch \/ TouchIsLost \/ SidecarDraws \/ SidecarPublishes
        \/ SidecarTakesTouch \/ SidecarEnds \/ SidecarAborts \/ RestoreFrame
        \/ ReleaseTouch \/ StockRoute)
  BY DEF PlayerTakesTouch, TouchIsLost, SidecarDraws, SidecarPublishes, SidecarTakesTouch,
     SidecarEnds, SidecarAborts, RestoreFrame, ReleaseTouch, StockRoute, Untouched
<1> QED
  BY <1>1, <1>2 DEF GuestNext, GuestStep

\* A session begins untouched.
LEMMA UntouchedStart ==
  ASSUME GuestType, StartSession, NEW runtime, Step.runtime = runtime
  PROVE  Untouched(runtime)'
<1>1. session'.runtime = runtime
  BY DEF StartSession, Launches
<1> QED
  BY <1>1 DEF StartSession, Launches, Untouched

\* It stays so until the session ends or a touch is made.
LEMMA UntouchedDoes ==
  ASSUME NEW runtime, Untouched(runtime), [ValidationNext]_validationVars, ~ended',
         Does => ~StartSession /\ ~StopSession /\ ~InjectTouch /\ ~RunController,
         EvidenceInv
  PROVE  Untouched(runtime)' /\ UNCHANGED <<store, session, flaws>>
<1>1. CASE UNCHANGED validationVars
  BY <1>1 DEF validationVars, guestVars, Untouched, Drawn
<1>2. CASE GuestMoves
  BY <1>2, UntouchedGuest, FlawsStay DEF GuestMoves
<1>3. CASE Does
  <2>1. CASE UNCHANGED guestVars
    BY <2>1 DEF guestVars, Untouched, Drawn
  <2>2. CASE ClearRecord
    BY <2>2 DEF ClearRecord, Untouched, Drawn
  <2> QED
    BY <1>3, <2>1, <2>2 DEF Does, WaitPlayerReady, WaitStableFrame, WaitFrame, WaitForRecord,
       ReadRecord, CaptureFrame, KeepEvidence, CompareStep, RunSshAuthentication, Hold
<1> QED
  BY <1>1, <1>2, <1>3, GoesOn

-------------------------------------------------------------------------------
(***************************************************************************)
(* The mask that is read back when the six tiles are booted.               *)
(***************************************************************************)
LEMMA SixSteps ==
  /\ SixAt \in Nat /\ SixAt + 4 <= Len(Script)
  /\ Script[SixAt + 1] = [op |-> "start", runtime |-> "candidate-present", cfw |-> TRUE,
                          sd |-> TRUE, crash |-> FALSE]
  /\ Script[SixAt + 2] = [op |-> "ready"]
  /\ Script[SixAt + 3] = [op |-> "stable", into |-> "launcher"]
  /\ Script[SixAt + 4] = [op |-> "config", mask |-> SixTiles]
<1>1. Placed(SixStart, Script, SixAt)
  BY SixPart DEF PartOf, SixAt
<1>2. /\ Len(SixStart) = 4
      /\ SixStart[1] = [op |-> "start", runtime |-> "candidate-present", cfw |-> TRUE,
                        sd |-> TRUE, crash |-> FALSE]
      /\ SixStart[2] = [op |-> "ready"] /\ SixStart[3] = [op |-> "stable", into |-> "launcher"]
      /\ SixStart[4] = [op |-> "config", mask |-> SixTiles]
  BY DEF SixStart, Boot, Config
<1>3. /\ SixAt \in Nat /\ SixAt + 4 <= Len(Script)
      /\ \A i \in 1..4 : Script[SixAt + i] = SixStart[i]
  BY <1>1, <1>2 DEF Placed
<1>4. {1, 2, 3, 4} \subseteq 1..4
  OBVIOUS
<1> QED
  BY <1>2, <1>3, <1>4

SixSaved ==
  /\ "mask_not_saved" \in flaws =>
       \A runtime \in Runtimes : store[runtime].mask \in {NoMask, DefaultMask}
  /\ ~ended /\ pc \in (SixAt + 2)..(SixAt + 4) =>
       /\ Untouched("candidate-present")
       /\ "mask_forgotten" \in flaws => store["candidate-present"].mask = DefaultMask
  /\ Past(SixAt + 4, {"mask_forgotten", "mask_not_saved"})

\* SixSaved holds at the start.
LEMMA SixSavedInit == ValidationInit => SixSaved
<1> SUFFICES ASSUME ValidationInit PROVE SixSaved
  OBVIOUS
<1>1. pc = 1 /\ \A runtime \in Runtimes : store[runtime].mask = NoMask
  BY DEF ValidationInit, GuestInit, FreshStore
<1>2. SixAt + 4 \in 1..Len(Script) /\ 1 \notin (SixAt + 2)..(SixAt + 4)
  BY SixSteps
<1> QED
  BY <1>1, <1>2, PastInit DEF SixSaved

\* What becomes of the masks.
LEMMA MasksMove ==
  ASSUME Typed, [ValidationNext]_validationVars, NEW runtime \in Runtimes
  PROVE  \/ store'[runtime].mask = store[runtime].mask
         \/ SidecarTakesTouch /\ "mask_not_saved" \notin flaws
         \/ /\ StartSession
            /\ store'[runtime].mask \in {store[runtime].mask, DefaultMask}
<1>1. EvidenceInv /\ GuestType
  BY DEF Typed
<1>2. CASE GuestMoves
  <2>1. CASE SidecarTakesTouch /\ "mask_not_saved" \in flaws
    <3>1. \/ UNCHANGED store
          \/ \E row : store' = [store EXCEPT ![session.runtime] = Written(row)]
      BY <2>1 DEF SidecarTakesTouch
    <3>2. ASSUME session.runtime \in Runtimes
          PROVE  \A row : Written(row).mask = Conf.mask
      <4>1. Conf \in Confs
        BY <1>1, <3>2 DEF GuestType, Conf
      <4> QED
        BY <2>1, <4>1 DEF Written, Confs
    <3> QED
      BY <1>1, <3>1, <3>2 DEF GuestType, Conf
  <2>2. CASE SidecarEnds
    <3>1. \/ UNCHANGED store
          \/ store' = [store EXCEPT ![session.runtime].ssh = "disabled"]
      BY <2>2 DEF SidecarEnds
    <3>2. store \in [Runtimes -> Confs] /\ store[runtime] \in Confs
      BY <1>1 DEF GuestType
    <3>3. CASE runtime = session.runtime
      BY <3>1, <3>2, <3>3 DEF Confs
    <3>4. CASE runtime # session.runtime
      BY <3>1, <3>2, <3>4
    <3> QED
      BY <3>3, <3>4
  <2>3. CASE UNCHANGED store
    BY <2>3
  <2>4. SidecarTakesTouch \/ SidecarEnds \/ UNCHANGED store
    BY <1>2 DEF GuestMoves, GuestNext, GuestStep, PlayerExits, Splash, Ready, DrawLauncher,
       PlayerTakesTouch, TouchIsLost, SidecarDraws, SidecarPublishes,
       SidecarAborts, RestoreFrame, ReleaseTouch, StockRoute
  <2> QED
    BY <2>1, <2>2, <2>3, <2>4
<1>3. CASE UNCHANGED guestVars \/ Stopped \/ ClearRecord \/ InjectTouch
  BY <1>3 DEF guestVars, Stopped, ClearRecord, InjectTouch
<1>4. CASE StartSession
  <2>1. Step.runtime \in Runtimes
    BY <1>1, <1>4, StartSteps, Directories DEF StartSession, Booted
  <2>2. PICK conf \in {store[Step.runtime].mask, NoMask} :
             UNCHANGED store \/ store' = [store EXCEPT ![Step.runtime].mask = SelectConfig(conf)]
    BY <1>4 DEF StartSession, Launches
  <2>3. SelectConfig(conf) \in {store[Step.runtime].mask, DefaultMask}
    BY <2>2 DEF SelectConfig, ValidMask, NoMask
  <2> QED
    BY <1>1, <1>4, <2>1, <2>2, <2>3 DEF GuestType, Confs
<1>5. CASE RunController
  BY <1>1, <1>5 DEF RunController, GuestType, Confs
<1> QED
  BY <1>2, <1>3, <1>4, <1>5, Turns

\* A mask that the sidecar does not save, or the launcher forgets, is never
\* the one of six tiles that the harness looks for on the disk.
LEMMA SixSavedSteps ==
  ASSUME Typed, SixSaved, [ValidationNext]_validationVars
  PROVE  SixSaved'
<1>1. EvidenceInv /\ GuestType /\ flaws' = flaws
  BY FlawsStay DEF Typed
<1>2. "candidate-present" \in Runtimes /\ "candidate-present" \in Booted
  BY Directories DEF Booted
<1>3. "mask_not_saved" \in flaws =>
        \A runtime \in Runtimes : store'[runtime].mask \in {NoMask, DefaultMask}
  BY MasksMove DEF SixSaved
<1>4. ASSUME ~ended', pc' \in (SixAt + 2)..(SixAt + 4)
      PROVE  /\ Untouched("candidate-present")'
             /\ "mask_forgotten" \in flaws => store'["candidate-present"].mask = DefaultMask
  <2>1. CASE pc \in (SixAt + 2)..(SixAt + 4)
    <3>1. ~ended /\ (Does => pc' \in {pc, pc + 1})
      BY <1>1, <1>4, GoesOn DEF validationVars, GuestMoves
    <3>2. pc \in {SixAt + 2, SixAt + 3, SixAt + 4}
      BY <2>1, SixSteps
    <3>3. Does => ~StartSession /\ ~StopSession /\ ~InjectTouch /\ ~RunController
      <4>1. Step.op \in {"ready", "stable", "config"}
        BY <3>2, SixSteps DEF Step
      <4> QED
        BY <4>1 DEF StartSession, StopSession, InjectTouch, RunController, AtStep
    <3>4. Untouched("candidate-present")' /\ UNCHANGED store
      BY <1>1, <1>4, <2>1, <3>1, <3>3, UntouchedDoes DEF SixSaved
    <3> QED
      BY <2>1, <3>1, <3>4 DEF SixSaved
  <2>2. CASE pc \notin (SixAt + 2)..(SixAt + 4)
    <3>1. Does /\ pc \in 1..Len(Script) /\ pc' = pc + 1
      BY <1>1, <1>4, <2>2, GoesOn DEF validationVars, GuestMoves
    <3>2. pc = SixAt + 1
      BY <1>4, <2>2, <3>1, SixSteps, ScriptType
    <3>3. StartSession /\ Step.runtime = "candidate-present" /\ Step.cfw
      BY <3>1, <3>2, SixSteps, Kinds DEF Step
    <3>4. Untouched("candidate-present")'
      BY <1>1, <3>3, UntouchedStart
    <3>5. ASSUME "mask_forgotten" \in flaws
          PROVE  store'["candidate-present"].mask = DefaultMask
      <4>1. store' = [store EXCEPT !["candidate-present"].mask = SelectConfig(NoMask)]
        BY <3>3, <3>5 DEF StartSession, Launches
      <4>2. SelectConfig(NoMask) = DefaultMask
        BY DEF SelectConfig, ValidMask, NoMask
      <4> QED
        BY <1>1, <1>2, <4>1, <4>2 DEF GuestType, Confs
    <3> QED
      BY <3>4, <3>5
  <2> QED
    BY <2>1, <2>2
<1>5. Passes(SixAt + 4) => flaws \cap {"mask_forgotten", "mask_not_saved"} = {}
  <2> HAVE Passes(SixAt + 4)
  <2>1. Step = [op |-> "config", mask |-> SixTiles] /\ CompareStep
    BY SixSteps, Kinds DEF Passes, Step, Comparisons
  <2>2. store[session.runtime].mask = SixTiles
    BY <2>1 DEF CompareStep, Agrees
  <2>3. session.runtime = "candidate-present"
        /\ ("mask_forgotten" \in flaws => store["candidate-present"].mask = DefaultMask)
    <3>1. SixAt + 4 \in (SixAt + 2)..(SixAt + 4)
      BY SixSteps
    <3> QED
      BY <3>1 DEF SixSaved, Passes, Untouched
  <2>4. SixTiles \notin {NoMask, DefaultMask}
    <3>1. "stream" \in SixTiles
      BY Masks DEF SixTiles
    <3> QED
      BY <3>1 DEF NoMask, DefaultMask
  <2> QED
    BY <1>2, <2>2, <2>3, <2>4 DEF SixSaved
<1>6. Past(SixAt + 4, {"mask_forgotten", "mask_not_saved"})'
  <2>1. SixAt + 4 \in 1..Len(Script)
    BY SixSteps, ScriptType
  <2> QED
    BY <1>1, <1>5, <2>1, PastStep DEF SixSaved
<1> QED
  BY <1>1, <1>3, <1>4, <1>6 DEF SixSaved

-------------------------------------------------------------------------------
(***************************************************************************)
(* The marker that the SSH row writes.                                     *)
(***************************************************************************)
TogglesAt == CHOOSE k : Placed(SshToggles, Script, k)

\* The steps around the SSH row, by their place in the script.
LEMMA TogglesSteps ==
  /\ TogglesAt \in Nat /\ TogglesAt + 14 <= Len(Script)
  /\ Script[TogglesAt + 9] = [op |-> "markers", ssh |-> {"fresh", "disabled"}]
  /\ Script[TogglesAt + 10].op = "capture" /\ Script[TogglesAt + 11].op = "save"
  /\ Script[TogglesAt + 12].op = "touch" /\ Script[TogglesAt + 13].op = "semantic"
  /\ Script[TogglesAt + 14] = [op |-> "markers", ssh |-> {"enabled"}]
<1>1. Placed(SshToggles, Script, TogglesAt)
  BY DefaultParts DEF PartOf, TogglesAt
<1>2. Len(SshToggles) = 33
  BY DEF SshToggles, OpenCfw, Stable, ClearSemantic, Tap, WaitSemantic, WaitChange,
     SaveNow, Capture, Save, PromoteShot, Markers, ToggleSsh, WaitNewer, LeaveCfw, Semantic,
     WaitHash, Record
<1>3. SshToggles[9] = [op |-> "markers", ssh |-> {"fresh", "disabled"}]
  BY DEF SshToggles, OpenCfw, Stable, ClearSemantic, Tap, WaitSemantic, WaitChange,
     SaveNow, Capture, Save, PromoteShot, Markers, ToggleSsh, WaitNewer, LeaveCfw, Semantic,
     WaitHash, Record
<1>4. SshToggles[10].op = "capture"
  BY DEF SshToggles, OpenCfw, Stable, ClearSemantic, Tap, WaitSemantic, WaitChange,
     SaveNow, Capture, Save, PromoteShot, Markers, ToggleSsh, WaitNewer, LeaveCfw, Semantic,
     WaitHash, Record
<1>5. SshToggles[11].op = "save"
  BY DEF SshToggles, OpenCfw, Stable, ClearSemantic, Tap, WaitSemantic, WaitChange,
     SaveNow, Capture, Save, PromoteShot, Markers, ToggleSsh, WaitNewer, LeaveCfw, Semantic,
     WaitHash, Record
<1>6. SshToggles[12].op = "touch"
  BY DEF SshToggles, OpenCfw, Stable, ClearSemantic, Tap, WaitSemantic, WaitChange,
     SaveNow, Capture, Save, PromoteShot, Markers, ToggleSsh, WaitNewer, LeaveCfw, Semantic,
     WaitHash, Record
<1>7. SshToggles[13].op = "semantic"
  BY DEF SshToggles, OpenCfw, Stable, ClearSemantic, Tap, WaitSemantic, WaitChange,
     SaveNow, Capture, Save, PromoteShot, Markers, ToggleSsh, WaitNewer, LeaveCfw, Semantic,
     WaitHash, Record
<1>8. SshToggles[14] = [op |-> "markers", ssh |-> {"enabled"}]
  BY DEF SshToggles, OpenCfw, Stable, ClearSemantic, Tap, WaitSemantic, WaitChange,
     SaveNow, Capture, Save, PromoteShot, Markers, ToggleSsh, WaitNewer, LeaveCfw, Semantic,
     WaitHash, Record
<1>9. /\ TogglesAt \in Nat /\ TogglesAt + 14 <= Len(Script)
      /\ \A i \in 1..33 : Script[TogglesAt + i] = SshToggles[i]
  BY <1>1, <1>2, ScriptType DEF Placed
<1>10. {9, 10, 11, 12, 13, 14} \subseteq 1..33
  OBVIOUS
<1> QED
  BY <1>3, <1>4, <1>5, <1>6, <1>7, <1>8, <1>9, <1>10

Unmarked ==
  /\ ~ended /\ pc \in (TogglesAt + 10)..(TogglesAt + 14) /\ "ssh_no_marker" \in flaws =>
       MarkerHome \in Runtimes /\ store[MarkerHome].ssh # "enabled"
  /\ Past(TogglesAt + 14, {"ssh_no_marker"})

\* Unmarked holds at the start.
LEMMA UnmarkedInit == ValidationInit => Unmarked
<1> SUFFICES ASSUME ValidationInit PROVE Unmarked
  OBVIOUS
<1>1. pc = 1 /\ TogglesAt + 14 \in 1..Len(Script)
      /\ 1 \notin (TogglesAt + 10)..(TogglesAt + 14)
  BY TogglesSteps, ScriptType DEF ValidationInit
<1> QED
  BY <1>1, PastInit DEF Unmarked

\* A guest whose SSH row writes nothing switches SSH off at most.
LEMMA UnmarkedGuest ==
  ASSUME GuestType, GuestNext, "ssh_no_marker" \in flaws, NEW runtime \in Runtimes
  PROVE  store'[runtime].ssh \in {store[runtime].ssh, "disabled"}
<1>1. store \in [Runtimes -> Confs] /\ store[runtime] \in Confs
  BY DEF GuestType
<1>2. CASE SidecarTakesTouch
  <2>1. \/ UNCHANGED store
        \/ \E row : store' = [store EXCEPT ![session.runtime] = Written(row)]
    BY <1>2 DEF SidecarTakesTouch
  <2>2. CASE runtime = session.runtime
    <3>1. Conf \in Confs
      BY <1>1, <2>2 DEF Conf
    <3>2. \A row : Written(row).ssh = Conf.ssh
      BY <3>1 DEF Written, ToggledSsh, Confs
    <3> QED
      BY <1>1, <2>1, <2>2, <3>2 DEF Conf
  <2>3. CASE runtime # session.runtime
    BY <1>1, <2>1, <2>3
  <2> QED
    BY <2>2, <2>3
<1>3. CASE SidecarEnds
  <2>1. \/ UNCHANGED store
        \/ store' = [store EXCEPT ![session.runtime].ssh = "disabled"]
    BY <1>3 DEF SidecarEnds
  <2>2. CASE runtime = session.runtime
    BY <1>1, <2>1, <2>2 DEF Confs
  <2>3. CASE runtime # session.runtime
    BY <1>1, <2>1, <2>3
  <2> QED
    BY <2>2, <2>3
<1>4. SidecarTakesTouch \/ SidecarEnds \/ UNCHANGED store
  BY DEF GuestNext, GuestStep, PlayerExits, Splash, Ready, DrawLauncher,
     PlayerTakesTouch, TouchIsLost, SidecarDraws, SidecarPublishes,
     SidecarAborts, RestoreFrame, ReleaseTouch, StockRoute
<1> QED
  BY <1>2, <1>3, <1>4

\* The guest's own steps leave the session alone.
LEMMA GuestSession == GuestNext => UNCHANGED session
BY DEF GuestNext, GuestStep, PlayerExits, Splash, Ready, DrawLauncher,
   PlayerTakesTouch, TouchIsLost, SidecarDraws, SidecarPublishes, SidecarTakesTouch,
   SidecarEnds, SidecarAborts, RestoreFrame, ReleaseTouch, StockRoute

\* A sidecar that writes no marker is seen by the check of the markers.
LEMMA UnmarkedSteps ==
  ASSUME Typed, Unmarked, [ValidationNext]_validationVars
  PROVE  Unmarked'
<1>1. EvidenceInv /\ GuestType /\ flaws' = flaws
  BY FlawsStay DEF Typed
<1>2. MarkerHome \in Runtimes
  BY <1>1, Directories DEF GuestType, MarkerHome, Booted
<1>3. ASSUME ~ended', pc' \in (TogglesAt + 10)..(TogglesAt + 14), "ssh_no_marker" \in flaws
      PROVE  MarkerHome' \in Runtimes /\ store'[MarkerHome'].ssh # "enabled"
  <2>1. ~ended
    BY <1>1, <1>3, GoesOn
  <2>2. CASE UNCHANGED validationVars
    BY <1>3, <2>1, <2>2 DEF validationVars, guestVars, Unmarked, MarkerHome
  <2>3. CASE GuestMoves
    <3>1. MarkerHome' = MarkerHome
      BY <2>3, GuestSession DEF GuestMoves, MarkerHome
    <3>2. store[MarkerHome].ssh # "enabled"
      BY <1>3, <2>1, <2>3 DEF GuestMoves, Unmarked
    <3> QED
      BY <1>1, <1>2, <1>3, <2>3, <3>1, <3>2, UnmarkedGuest DEF GuestMoves
  <2>4. CASE Does /\ pc' \in {pc, pc + 1} /\ pc \in 1..Len(Script)
    <3>1. PICK k, n \in Nat : k = TogglesAt /\ n = pc
      BY <2>4, TogglesSteps, ScriptType
    <3>2. n \in (k + 9)..(k + 14)
      BY <1>3, <2>4, <3>1
    <3>3. pc \in {TogglesAt + 9, TogglesAt + 10, TogglesAt + 11, TogglesAt + 12,
                 TogglesAt + 13, TogglesAt + 14}
      BY <3>1, <3>2
    <3>4. Step.op \in {"markers", "capture", "save", "touch", "semantic"}
      <4>1. \A i \in 9..14 : Script[TogglesAt + i].op
                            \in {"markers", "capture", "save", "touch", "semantic"}
        BY TogglesSteps
      <4> QED
        BY <3>3, <4>1 DEF Step
    <3>5. UNCHANGED <<store, session>> /\ pc' = pc + 1
      BY <2>4, <3>4, Kinds DEF WaitForRecord, CaptureFrame, KeepEvidence, InjectTouch, CompareStep,
         Comparisons, Hold, guestVars, Continue
    <3>6. MarkerHome' = MarkerHome
      BY <3>5 DEF MarkerHome
    <3>7. CASE pc = TogglesAt + 9
      <4>1. Step = [op |-> "markers", ssh |-> {"fresh", "disabled"}] /\ CompareStep
        BY <2>4, <3>7, TogglesSteps, Kinds DEF Step, Comparisons
      <4>2. store[MarkerHome].ssh \in {"fresh", "disabled"}
        BY <4>1 DEF CompareStep, Agrees
      <4> QED
        BY <1>2, <3>5, <3>6, <4>2
    <3>8. CASE pc \in (TogglesAt + 10)..(TogglesAt + 14)
      BY <1>3, <2>1, <3>5, <3>6, <3>8 DEF Unmarked
    <3>9. pc = TogglesAt + 9 \/ pc \in (TogglesAt + 10)..(TogglesAt + 14)
      BY <3>1, <3>2
    <3> QED
      BY <3>7, <3>8, <3>9
  <2> QED
    BY <1>1, <1>3, <2>2, <2>3, <2>4, GoesOn
<1>4. Passes(TogglesAt + 14) => flaws \cap {"ssh_no_marker"} = {}
  <2> HAVE Passes(TogglesAt + 14)
  <2>1. Step = [op |-> "markers", ssh |-> {"enabled"}] /\ CompareStep
    BY TogglesSteps, Kinds DEF Passes, Step, Comparisons
  <2>2. store[MarkerHome].ssh \in {"enabled"}
    BY <2>1 DEF CompareStep, Agrees
  <2>3. TogglesAt + 14 \in (TogglesAt + 10)..(TogglesAt + 14)
    BY TogglesSteps
  <2> QED
    BY <2>2, <2>3 DEF Unmarked, Passes
<1>5. Past(TogglesAt + 14, {"ssh_no_marker"})'
  <2>1. TogglesAt + 14 \in 1..Len(Script)
    BY TogglesSteps, ScriptType
  <2> QED
    BY <1>1, <1>4, <2>1, PastStep DEF Unmarked
<1> QED
  BY <1>1, <1>3, <1>5 DEF Unmarked

-------------------------------------------------------------------------------
(***************************************************************************)
(* The sidecar that crashes.                                               *)
(***************************************************************************)
CrashAt == CHOOSE k : Placed(ValidateCrashRecovery, Script, k)
CrashTouch == [drag |-> FALSE, at |-> DefaultCfwTile]

\* The steps of validate_crash_recovery, by their place in the script.
LEMMA CrashSteps ==
  /\ CrashAt \in Nat /\ CrashAt + 11 <= Len(Script)
  /\ Script[CrashAt + 1] = [op |-> "start", runtime |-> "candidate-crash", cfw |-> TRUE,
                            sd |-> TRUE, crash |-> TRUE]
  /\ Script[CrashAt + 2] = [op |-> "ready"]
  /\ Script[CrashAt + 3] = [op |-> "stable", into |-> "launcher"]
  /\ Script[CrashAt + 4] = [op |-> "clear"]
  /\ Script[CrashAt + 5] = [op |-> "touch", touch |-> CrashTouch]
  /\ Script[CrashAt + 6] = [op |-> "semantic",
                            wanted |-> [screen |-> {"main"}, mask |-> {DefaultMask}],
                            newer |-> FALSE]
  /\ Script[CrashAt + 7] = [op |-> "hash", of |-> "launcher"]
  /\ Script[CrashAt + 8] = [op |-> "alive"]
  /\ Script[CrashAt + 9] = [op |-> "capture", into |-> "last"]
  /\ Script[CrashAt + 10].op = "touch"
  /\ Script[CrashAt + 11] = [op |-> "change", from |-> "last"]
<1> DEFINE touch == [op |-> "touch", touch |-> CrashTouch]
           wait == [op |-> "semantic", wanted |-> [screen |-> {"main"}, mask |-> {DefaultMask}],
                    newer |-> FALSE]
<1>1. Placed(ValidateCrashRecovery, Script, CrashAt)
  BY Parts DEF PartOf, CrashAt
<1>2. /\ Tap(DefaultCfwTile) = <<touch>>
      /\ WaitSemantic([screen |-> {"main"}, mask |-> {DefaultMask}]) = <<wait>>
      /\ \E x : x.op = "touch" /\ Tap(TopWide) = <<x>>
      /\ \E x : Tap(StockBack) = <<x>>
  BY DEF Tap, WaitSemantic, CrashTouch
<1> HIDE DEF touch, wait
<1>3. /\ Len(ValidateCrashRecovery) = 16
      /\ ValidateCrashRecovery[1] = [op |-> "start", runtime |-> "candidate-crash",
                                     cfw |-> TRUE, sd |-> TRUE, crash |-> TRUE]
      /\ ValidateCrashRecovery[2] = [op |-> "ready"]
      /\ ValidateCrashRecovery[3] = [op |-> "stable", into |-> "launcher"]
      /\ ValidateCrashRecovery[4] = [op |-> "clear"]
  BY DEF ValidateCrashRecovery, Boot, ClearSemantic, Tap, WaitSemantic, WaitHash, Alive, TapChange,
     Capture, WaitChange, Save, Record, Shutdown
<1>4. ValidateCrashRecovery[5] = touch /\ ValidateCrashRecovery[6] = wait
  BY <1>2 DEF ValidateCrashRecovery, Boot, ClearSemantic, WaitHash, Alive, TapChange,
     Capture, WaitChange, Save, Record, Shutdown
<1>5. /\ ValidateCrashRecovery[7] = [op |-> "hash", of |-> "launcher"]
      /\ ValidateCrashRecovery[8] = [op |-> "alive"]
      /\ ValidateCrashRecovery[9] = [op |-> "capture", into |-> "last"]
      /\ ValidateCrashRecovery[10].op = "touch"
      /\ ValidateCrashRecovery[11] = [op |-> "change", from |-> "last"]
  BY DEF ValidateCrashRecovery, Boot, ClearSemantic, Tap, WaitSemantic, WaitHash, Alive, TapChange,
     Capture, WaitChange, Save, Record, Shutdown
<1>6. /\ CrashAt \in Nat /\ CrashAt + 11 <= Len(Script)
      /\ \A i \in 1..16 : Script[CrashAt + i] = ValidateCrashRecovery[i]
  BY <1>1, <1>3, ScriptType DEF Placed
<1>7. {1, 2, 3, 4, 5, 6, 7, 8, 9, 10, 11} \subseteq 1..16
  OBVIOUS
<1> QED
  BY <1>3, <1>4, <1>5, <1>6, <1>7 DEF touch, wait

\* The touch on the tile is on its way, or came to nothing.
Unopened ==
  /\ input \in {<<>>, <<CrashTouch>>} /\ hook = "idle" /\ side = NoSide
  /\ cfwState = NoState

\* The sidecar was opened, and goes the way of the one that crashes.
Opened ==
  /\ input = <<>> /\ page # "splash"
  /\ \/ /\ hook = "sidecar" /\ side.screen = "main" /\ side.todo # "leave"
        /\ side.todo = "publish" \/ side.seq > 0 \/ cfwState # NoState => shown.is = "cfw"
        /\ side.seq > 0 => cfwState # NoState
     \/ /\ hook = "ended" /\ side.route = "crash" /\ cfwState # NoState
        /\ shown.is = "cfw"
     \/ /\ hook \in {"restored", "idle", "stuck"} /\ cfwState # NoState
        /\ hook = "restored" => side.route = "crash"
        /\ "frame_kept" \in flaws => shown.is = "cfw"
        /\ "touch_kept" \in flaws => hook # "idle"
  /\ "dies_with_sidecar" \in flaws => hook = "sidecar" \/ player = "gone"

\* A guest that was touched on the CFW tile has opened the sidecar, or not yet.
LEMMA OpeningGuest ==
  ASSUME GuestType, Unopened, GuestNext
  PROVE  Unopened' \/ Opened'
<1>1. CASE Splash \/ Ready \/ DrawLauncher \/ PlayerExits
  BY <1>1 DEF Splash, Ready, DrawLauncher, PlayerExits, Unopened
<1>2. CASE PlayerTakesTouch
  <2>1. input' = <<>> /\ page # "splash" /\ UNCHANGED <<cfwState, flaws, player>>
    BY <1>2 DEF PlayerTakesTouch, Unopened
  <2>2. CASE hook' = "idle" /\ side' = NoSide
    BY <2>1, <2>2 DEF Unopened
  <2>3. CASE /\ hook' = "sidecar" /\ UNCHANGED <<page, shown>>
             /\ side' = [NoSide EXCEPT !.screen = "main", !.todo = "render",
                                       !.mask = store[session.runtime].mask]
    <3>1. side'.screen = "main" /\ side'.todo = "render" /\ side'.seq = 0
      BY <2>3 DEF NoSide
    <3> QED
      BY <2>1, <2>3, <3>1 DEF Unopened, Opened
  <2> QED
    BY <1>2, <2>2, <2>3 DEF PlayerTakesTouch, Unopened
<1>3. CASE TouchIsLost
  <2>1. Tail(<<CrashTouch>>) = <<>>
    OBVIOUS
  <2> QED
    BY <1>3, <2>1 DEF TouchIsLost, Unopened
<1>4. ~(SidecarDraws \/ SidecarPublishes \/ SidecarTakesTouch \/ SidecarEnds \/ SidecarAborts
        \/ RestoreFrame \/ ReleaseTouch \/ StockRoute)
  BY DEF SidecarDraws, SidecarPublishes, SidecarTakesTouch, SidecarEnds, SidecarAborts,
     RestoreFrame, ReleaseTouch, StockRoute, Unopened
<1> QED
  BY <1>1, <1>2, <1>3, <1>4 DEF GuestNext, GuestStep

\* A sidecar that was opened, and is to crash, stays on its way, and what it
\* has told stays told.
LEMMA OpenedGuest ==
  ASSUME GuestType, Opened, GuestNext
  PROVE  Opened' /\ (cfwState # NoState => cfwState' # NoState)
<1>0. player # "gone" /\ flaws' = flaws
  BY DEF GuestNext, GuestStep, PlayerExits, Splash, Ready, DrawLauncher,
     PlayerTakesTouch, TouchIsLost, SidecarDraws, SidecarPublishes, SidecarTakesTouch,
     SidecarEnds, SidecarAborts, RestoreFrame, ReleaseTouch, StockRoute
<1>1. CASE Ready \/ PlayerExits
  BY <1>1 DEF Ready, PlayerExits, Opened
<1>2. CASE SidecarDraws
  <2>1. shown'.is = "cfw" /\ UNCHANGED <<page, hook, input, cfwState, flaws, player>>
    BY <1>2 DEF SidecarDraws, SidecarFrame, Frame
  <2>2. side'.screen = side.screen /\ side'.todo = "publish" /\ side'.seq = side.seq
    BY <1>2 DEF SidecarDraws, GuestType, IsSide, SideFields
  <2> QED
    BY <1>2, <2>1, <2>2 DEF Opened, SidecarDraws
<1>3. CASE SidecarPublishes
  <2>1. cfwState'.screen = side.screen /\ UNCHANGED <<page, hook, input, shown, flaws, player>>
    BY <1>3 DEF SidecarPublishes, Published
  <2>2. side'.screen = side.screen /\ side'.todo = "poll"
    BY <1>3 DEF SidecarPublishes, GuestType, IsSide, SideFields
  <2>3. cfwState' # NoState
    <3>1. side.screen = "main" /\ NoState.screen = ""
      BY <1>3 DEF SidecarPublishes, Opened, NoState
    <3> QED
      BY <2>1, <3>1
  <2> QED
    BY <1>3, <2>1, <2>2, <2>3 DEF Opened, SidecarPublishes
<1>4. CASE SidecarAborts
  <2>1. side'.route = "crash" /\ hook' = "ended" /\ UNCHANGED <<page, shown, input, cfwState>>
        /\ hook = "sidecar" /\ side.seq > 0
    BY <1>4 DEF SidecarAborts, GuestType, IsSide, SideFields
  <2> QED
    BY <1>0, <1>4, <2>1 DEF Opened, SidecarAborts
<1>5. CASE RestoreFrame
  BY <1>0, <1>5 DEF RestoreFrame, Opened
<1>6. CASE ReleaseTouch
  BY <1>0, <1>6 DEF ReleaseTouch, Opened
<1>7. ~(Splash \/ DrawLauncher \/ PlayerTakesTouch \/ TouchIsLost \/ SidecarTakesTouch
        \/ SidecarEnds \/ StockRoute)
  BY DEF Splash, DrawLauncher, PlayerTakesTouch, TouchIsLost, SidecarTakesTouch, SidecarEnds,
     StockRoute, Opened
<1> QED
  BY <1>1, <1>2, <1>3, <1>4, <1>5, <1>6, <1>7 DEF GuestNext, GuestStep

\* The touchscreen is not given back.
TouchKept ==
  /\ page # "splash"
  /\ hook = "stuck" \/ (hook = "restored" /\ side.route = "crash")

Crashing(i) ==
  /\ i \in 2..5 => Untouched("candidate-crash")
  /\ i \in 4..7 => bench.frames["launcher"].is # "cfw"
  /\ i = 6 => Unopened \/ Opened
  /\ i = 7 => Opened /\ cfwState # NoState
  /\ i \in 8..11 /\ "touch_kept" \in flaws => TouchKept
  /\ i \in 10..11 /\ "touch_kept" \in flaws => shown = bench.frames["last"]

\* Where the hook keeps the touchscreen, nothing is drawn any more.
LEMMA TouchKeptGuest ==
  ASSUME TouchKept, GuestNext, "touch_kept" \in flaws
  PROVE  TouchKept' /\ shown' = shown
<1>1. CASE Ready \/ PlayerExits \/ TouchIsLost
  BY <1>1 DEF Ready, PlayerExits, TouchIsLost, TouchKept
<1>2. CASE ReleaseTouch
  BY <1>2 DEF ReleaseTouch, TouchKept
<1>3. ~(Splash \/ DrawLauncher \/ PlayerTakesTouch \/ SidecarDraws \/ SidecarPublishes
        \/ SidecarTakesTouch \/ SidecarEnds \/ SidecarAborts \/ RestoreFrame \/ StockRoute)
  BY DEF Splash, DrawLauncher, PlayerTakesTouch, SidecarDraws, SidecarPublishes,
     SidecarTakesTouch, SidecarEnds, SidecarAborts, RestoreFrame, StockRoute, TouchKept
<1> QED
  BY <1>1, <1>2, <1>3 DEF GuestNext, GuestStep

\* Each stage of the crash is kept by the guest's own steps.
LEMMA CrashingGuest ==
  ASSUME GuestType, NEW i \in 2..11, Crashing(i), GuestNext, bench' = bench, flaws' = flaws
  PROVE  Crashing(i)'
<1>1. i \in 2..5 => Untouched("candidate-crash")'
  BY UntouchedGuest DEF Crashing
<1>2. i = 6 => (Unopened \/ Opened)'
  BY OpeningGuest, OpenedGuest DEF Crashing
<1>3. i = 7 => (Opened /\ cfwState # NoState)'
  BY OpenedGuest DEF Crashing
<1>4. i \in 8..11 /\ "touch_kept" \in flaws => TouchKept' /\ shown' = shown
  BY TouchKeptGuest DEF Crashing
<1>5. 10..11 \subseteq 8..11
  OBVIOUS
<1> QED
  BY <1>1, <1>2, <1>3, <1>4, <1>5 DEF Crashing

\* A frame of the player's is none of the sidecar's.
LEMMA UntouchedFrame ==
  ASSUME NEW runtime, Untouched(runtime)
  PROVE  shown.is # "cfw"
<1>1. Blank.is # "cfw" /\ Drawn("splash").is # "cfw" /\ Drawn("launcher").is # "cfw"
  BY DEF Blank, Drawn, Frame
<1> QED
  BY <1>1 DEF Untouched

\* The crash begins with the session that is made for it.
LEMMA CrashingStarts ==
  ASSUME EvidenceInv, GuestType, Does, pc = CrashAt + 1, pc' \in {pc, pc + 1}
  PROVE  pc' = CrashAt + 2 /\ Crashing(2)'
<1>1. StartSession /\ Step.runtime = "candidate-crash"
  BY CrashSteps, Kinds DEF Step
<1>2. pc' = pc + 1 /\ Untouched("candidate-crash")'
  BY <1>1, UntouchedStart DEF StartSession, Continue
<1>3. (CrashAt + 1) + 1 = CrashAt + 2
  BY CrashSteps
<1> QED
  BY <1>2, <1>3 DEF Crashing

\* Before the touch.
LEMMA CrashingBoots ==
  ASSUME EvidenceInv, Does, ~ended', [ValidationNext]_validationVars, NEW i \in 2..4, pc = CrashAt + i, Crashing(i)
  PROVE  (pc' = pc /\ Crashing(i)') \/ (pc' = pc + 1 /\ Crashing(i + 1)')
<1>0. i \in {2, 3, 4}
  OBVIOUS
<1>1. Step.op \in {"ready", "stable", "clear"} /\ (i # 3 => Step.op \in {"ready", "clear"})
      /\ (i = 3 => Step = [op |-> "stable", into |-> "launcher"])
  <2>1. CASE i = 2
    BY <2>1, CrashSteps DEF Step
  <2>2. CASE i = 3
    BY <2>2, CrashSteps DEF Step
  <2>3. CASE i = 4
    BY <2>3, CrashSteps DEF Step
  <2> QED
    BY <1>0, <2>1, <2>2, <2>3
<1>2. Untouched("candidate-crash")' /\ Untouched("candidate-crash") /\ flaws' = flaws
  <2>1. ~StartSession /\ ~StopSession /\ ~InjectTouch /\ ~RunController
    BY <1>1 DEF StartSession, StopSession, InjectTouch, RunController, AtStep
  <2> QED
    BY <1>0, <2>1, UntouchedDoes DEF Crashing
<1>3. CASE i = 2
  <2>1. pc' = pc + 1
    BY <1>3, CrashSteps, Kinds DEF Step, WaitPlayerReady, Continue
  <2> QED
    BY <1>2, <1>3, <2>1 DEF Crashing
<1>4. CASE i = 3
  <2>1. WaitStableFrame
    BY <1>1, <1>4, Kinds
  <2>2. CASE UNCHANGED pc
    BY <1>2, <1>4, <2>2 DEF Crashing
  <2>3. CASE Continue /\ bench' = [bench EXCEPT !.sample = NoSample,
                                               !.frames["launcher"] = shown]
    <3>1. bench'.frames["launcher"] = shown
      BY <2>3, Held DEF EvidenceInv, BenchType
    <3> QED
      BY <1>2, <1>4, <2>3, <3>1, UntouchedFrame DEF Continue, Crashing
  <2>4. Step.into = "launcher"
    BY <1>1, <1>4
  <2> QED
    BY <2>1, <2>2, <2>3, <2>4 DEF WaitStableFrame, Hold
<1>5. CASE i = 4
  <2>1. ClearRecord
    BY <1>5, CrashSteps, Kinds DEF Step
  <2> QED
    BY <1>2, <1>5, <2>1 DEF ClearRecord, Continue, Crashing
<1> QED
  BY <1>0, <1>3, <1>4, <1>5

\* The touch, the record, and the frame that comes back.
LEMMA CrashingOpens ==
  ASSUME EvidenceInv, GuestType, Does, [ValidationNext]_validationVars, NEW i \in 5..7, pc = CrashAt + i, Crashing(i)
  PROVE  /\ pc' = pc + 1 /\ Crashing(i + 1)'
         /\ i = 7 => flaws \cap {"frame_kept", "dies_with_sidecar"} = {}
<1>0. i \in {5, 6, 7} /\ flaws' = flaws
  BY FlawsStay
<1>1. CASE i = 5
  <2>1. InjectTouch /\ Step.touch = CrashTouch
    BY <1>1, CrashSteps, Kinds DEF Step
  <2>2. input' = <<CrashTouch>>
    BY <1>1, <2>1 DEF InjectTouch, Crashing, Untouched
  <2>3. Unopened' /\ bench' = bench /\ pc' = pc + 1
    BY <1>1, <2>1, <2>2 DEF InjectTouch, Continue, Crashing, Untouched, Unopened
  <2> QED
    BY <1>1, <2>3 DEF Crashing
<1>2. CASE i = 6
  <2>1. WaitForRecord
    BY <1>2, CrashSteps, Kinds DEF Step
  <2>2. cfwState # NoState /\ UNCHANGED guestVars /\ bench'.frames = bench.frames /\ pc' = pc + 1
    BY <2>1 DEF WaitForRecord, Parses, Hold, Continue, EvidenceInv, BenchType
  <2>3. Opened
    BY <1>2, <2>2 DEF Crashing, Unopened
  <2>4. Opened' /\ cfwState' # NoState
    BY <2>2, <2>3 DEF guestVars, Opened
  <2> QED
    BY <1>2, <2>2, <2>4 DEF Crashing
<1>3. CASE i = 7
  <2>1. WaitFrame /\ Step = [op |-> "hash", of |-> "launcher"]
    BY <1>3, CrashSteps, Kinds DEF Step
  <2>2. Up /\ shown = bench.frames["launcher"] /\ UNCHANGED guestVars /\ pc' = pc + 1
    BY <2>1 DEF WaitFrame, AtStep, Hold, Continue
  <2>3. shown.is # "cfw" /\ Opened /\ cfwState # NoState
    BY <1>3, <2>2 DEF Crashing
  <2>4. hook \in {"restored", "idle", "stuck"}
    BY <2>3 DEF Opened
  <2>5. flaws \cap {"frame_kept", "dies_with_sidecar"} = {}
    BY <2>2, <2>3, <2>4 DEF Opened, Up
  <2>6. "touch_kept" \in flaws => TouchKept
    BY <2>3, <2>4 DEF Opened, TouchKept
  <2>7. "touch_kept" \in flaws => TouchKept'
    BY <2>2, <2>6 DEF guestVars, TouchKept
  <2> QED
    BY <1>0, <1>3, <2>2, <2>5, <2>7 DEF Crashing
<1> QED
  BY <1>0, <1>1, <1>2, <1>3

\* The touch after the crash.
LEMMA CrashingCloses ==
  ASSUME EvidenceInv, GuestType, Does, [ValidationNext]_validationVars, NEW i \in 8..11, pc = CrashAt + i, Crashing(i)
  PROVE  /\ pc' = pc + 1 /\ (i < 11 => Crashing(i + 1)')
         /\ i = 11 => flaws \cap {"touch_kept"} = {}
<1>0. i \in {8, 9, 10, 11} /\ flaws' = flaws
  BY FlawsStay
<1>1. CASE i = 8
  <2>1. CompareStep
    BY <1>1, CrashSteps, Kinds DEF Step, Comparisons
  <2>2. UNCHANGED <<guestVars, bench>> /\ pc' = pc + 1
    BY <2>1 DEF CompareStep, Hold, Continue
  <2>3. "touch_kept" \in flaws => TouchKept'
    BY <1>1, <2>2 DEF guestVars, Crashing, TouchKept
  <2> QED
    BY <1>0, <1>1, <2>2, <2>3 DEF Crashing
<1>2. CASE i = 9
  <2>1. CaptureFrame /\ Step = [op |-> "capture", into |-> "last"]
    BY <1>2, CrashSteps, Kinds DEF Step
  <2>2. UNCHANGED guestVars /\ pc' = pc + 1 /\ bench' = [bench EXCEPT !.frames["last"] = shown]
    BY <2>1 DEF CaptureFrame, Hold, Continue
  <2>3. bench'.frames["last"] = shown
    BY <2>2, Held DEF EvidenceInv, BenchType
  <2>4. "touch_kept" \in flaws => TouchKept'
    BY <1>2, <2>2 DEF guestVars, Crashing, TouchKept
  <2> QED
    BY <1>0, <1>2, <2>2, <2>3, <2>4 DEF guestVars, Crashing
<1>3. CASE i = 10
  <2>1. InjectTouch
    BY <1>3, CrashSteps, Kinds DEF Step
  <2>2. "touch_kept" \in flaws => TouchKept' /\ shown' = bench'.frames["last"]
    BY <1>3, <2>1 DEF InjectTouch, Crashing, TouchKept
  <2> QED
    BY <1>0, <1>3, <2>1, <2>2 DEF InjectTouch, Continue, Crashing
<1>4. CASE i = 11
  <2>1. WaitFrame /\ Step = [op |-> "change", from |-> "last"]
    BY <1>4, CrashSteps, Kinds DEF Step
  <2>2. shown # bench.frames["last"] /\ pc' = pc + 1
    BY <2>1 DEF WaitFrame, AtStep, Continue
  <2> QED
    BY <1>4, <2>2 DEF Crashing
<1> QED
  BY <1>0, <1>1, <1>2, <1>3, <1>4

CrashSeen ==
  /\ ~ended => \A i \in 2..11 : pc = CrashAt + i => Crashing(i)
  /\ Past(CrashAt + 7, {"frame_kept", "dies_with_sidecar"})
  /\ Past(CrashAt + 11, {"touch_kept"})

\* The places of the crash are in the script.
LEMMA CrashPlaces ==
  /\ CrashAt + 7 \in 1..Len(Script) /\ CrashAt + 11 \in 1..Len(Script)
  /\ \A i \in 2..11 : 1 # CrashAt + i
<1>1. PICK k, n \in Nat : k = CrashAt /\ n = Len(Script) /\ k + 11 <= n
  BY CrashSteps, ScriptType
<1>2. k + 7 \in 1..n /\ k + 11 \in 1..n /\ \A i \in 2..11 : 1 # k + i
  BY <1>1
<1> QED
  BY <1>1, <1>2

\* CrashSeen holds at the start.
LEMMA CrashSeenInit == ValidationInit => CrashSeen
<1> SUFFICES ASSUME ValidationInit PROVE CrashSeen
  OBVIOUS
<1>1. pc = 1
  BY DEF ValidationInit
<1> QED
  BY <1>1, CrashPlaces, PastInit DEF CrashSeen

\* A player that dies with its sidecar, a frame and a touch that are kept
\* from the launcher are seen by validate_crash_recovery.
LEMMA CrashSeenSteps ==
  ASSUME Typed, CrashSeen, [ValidationNext]_validationVars
  PROVE  CrashSeen'
<1>1. EvidenceInv /\ GuestType /\ flaws' = flaws
  BY FlawsStay DEF Typed
<1>2. ASSUME ~ended', NEW i \in 2..11, pc' = CrashAt + i
      PROVE  Crashing(i)'
  <2>1. ~ended
    BY <1>1, <1>2, GoesOn
  <2>2. CASE UNCHANGED validationVars
    <3>1. Crashing(i)
      BY <1>2, <2>1, <2>2 DEF validationVars, CrashSeen
    <3> QED
      BY <2>2, <3>1 DEF validationVars, guestVars, Crashing, Untouched, Unopened, Opened, TouchKept, Drawn
  <2>3. CASE GuestMoves
    <3>1. Crashing(i)
      BY <1>2, <2>1, <2>3 DEF GuestMoves, CrashSeen
    <3> QED
      BY <1>1, <2>3, <3>1, CrashingGuest DEF GuestMoves
  <2>4. CASE Does /\ pc \in 1..Len(Script) /\ pc' \in {pc, pc + 1}
    <3>1. PICK j \in 1..11 : pc = CrashAt + j /\ (i = j \/ i = j + 1)
      <4>1. CASE pc' = pc
        BY <1>2, <4>1
      <4>2. CASE pc' = pc + 1
        <5>1. PICK k, n \in Nat : k = CrashAt /\ n = pc
          BY <2>4, CrashSteps
        <5>2. n + 1 = k + i
          BY <1>2, <4>2, <5>1
        <5>3. i - 1 \in 1..11 /\ n = k + (i - 1) /\ i = (i - 1) + 1
          BY <5>1, <5>2
        <5> QED
          BY <5>1, <5>3
      <4> QED
        BY <2>4, <4>1, <4>2
    <3>2. CASE j = 1
      <4>1. pc' = CrashAt + 2 /\ Crashing(2)'
        BY <1>1, <2>4, <3>1, <3>2, CrashingStarts
      <4>2. i = 2
        BY <1>2, <4>1, CrashSteps
      <4> QED
        BY <4>1, <4>2
    <3>3. CASE j \in 2..11
      <4>1. Crashing(j)
        BY <2>1, <3>1, <3>3 DEF CrashSeen
      <4>2. \/ pc' = pc /\ Crashing(j)'
            \/ pc' = pc + 1 /\ (j < 11 => Crashing(j + 1)')
        <5>1. CASE j \in 2..4
          BY <1>1, <1>2, <2>4, <3>1, <4>1, <5>1, CrashingBoots
        <5>2. CASE j \in 5..7
          BY <1>1, <2>4, <3>1, <4>1, <5>2, CrashingOpens
        <5>3. CASE j \in 8..11
          BY <1>1, <2>4, <3>1, <4>1, <5>3, CrashingCloses
        <5> QED
          BY <3>3, <5>1, <5>2, <5>3
      <4>3. (pc' = pc => i = j) /\ (pc' = pc + 1 => i = j + 1 /\ j < 11)
        BY <1>2, <3>1, CrashSteps
      <4> QED
        BY <4>2, <4>3
    <3> QED
      BY <3>2, <3>3
  <2> QED
    BY <1>1, <1>2, <2>2, <2>3, <2>4, GoesOn
<1>3. Passes(CrashAt + 7) => flaws \cap {"frame_kept", "dies_with_sidecar"} = {}
  <2> HAVE Passes(CrashAt + 7)
  <2>1. Crashing(7)
    BY DEF Passes, CrashSeen
  <2> QED
    BY <1>1, <2>1, CrashingOpens DEF Passes
<1>4. Passes(CrashAt + 11) => flaws \cap {"touch_kept"} = {}
  <2> HAVE Passes(CrashAt + 11)
  <2>1. Crashing(11)
    BY DEF Passes, CrashSeen
  <2> QED
    BY <1>1, <2>1, CrashingCloses DEF Passes
<1>5. /\ Past(CrashAt + 7, {"frame_kept", "dies_with_sidecar"})'
      /\ Past(CrashAt + 11, {"touch_kept"})'
  BY <1>1, <1>3, <1>4, CrashPlaces, PastStep DEF CrashSeen
<1> QED
  BY <1>1, <1>2, <1>5 DEF CrashSeen

-------------------------------------------------------------------------------
(***************************************************************************)
(* A run that passes has seen these flaws.                                 *)
(***************************************************************************)

\* What a step of the script asks in a way that no timing of the guest hides.
Detected == {
  "refuses_publickey", "no_root", "refuses_password", "accepts_unknown-key",
  "drops_unknown-key", "accepts_wrong-password", "toggle_stuck",
  "page_dead", "drag_taps", "mask_not_saved", "mask_forgotten", "ssh_no_marker",
  "frame_kept", "dies_with_sidecar", "touch_kept"}

\* A validation passes no candidate with one of these flaws, whichever others
\* it has, and however guest and program interleave.
PassMeansDetected == verdict = "PASS" => flaws \cap Detected = {}

WatchInv == /\ Typed /\ SshPast /\ Toggled /\ Untold /\ SixSaved /\ Unmarked
            /\ CrashSeen

\* WatchInv holds at the start.
LEMMA WatchInit == ValidationInit => WatchInv
<1> SUFFICES ASSUME ValidationInit PROVE WatchInv
  OBVIOUS
<1>1. Typed
  BY EvidenceInit, GuestTypeInit DEF Typed
<1>2. SshPast /\ Toggled /\ Untold /\ SixSaved /\ Unmarked /\ CrashSeen
  BY SshPastInit, ToggledInit, UntoldInit, SixSavedInit, UnmarkedInit, CrashSeenInit
<1> QED
  BY <1>1, <1>2 DEF WatchInv

\* Every step keeps WatchInv.
LEMMA WatchSteps == WatchInv /\ [ValidationNext]_validationVars => WatchInv'
<1> SUFFICES ASSUME WatchInv, [ValidationNext]_validationVars PROVE WatchInv'
  OBVIOUS
<1> USE DEF WatchInv
<1>1. Typed'
  BY EvidenceSteps, GuestTypeSteps DEF Typed
<1>2. SshPast'
  BY SshPastSteps DEF Typed
<1>3. Toggled'
  BY ToggledSteps DEF Typed
<1>4. Untold'
  BY UntoldSteps DEF Typed
<1>5. SixSaved'
  BY SixSavedSteps DEF Typed
<1>6. Unmarked'
  BY UnmarkedSteps DEF Typed
<1>7. CrashSeen'
  BY CrashSeenSteps DEF Typed
<1> QED
  BY <1>1, <1>2, <1>3, <1>4, <1>5, <1>6, <1>7

\* A validation that passed has seen every flaw that one step provokes and
\* shows, whatever else the candidate does wrong.
THEOREM PassAlwaysDetected == ValidationSpec => []PassMeansDetected
<1>1. WatchInv => PassMeansDetected
  BY DEF WatchInv, SshPast, Toggled, Untold, SixSaved, Unmarked, CrashSeen, Past,
     PassMeansDetected, Detected
<1> QED
  BY <1>1, WatchInit, WatchSteps, PTL DEF ValidationSpec

===============================================================================
