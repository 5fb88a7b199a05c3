--------------------------- MODULE ThemeMountsProofs ---------------------------
(***************************************************************************)
(* The launcher on the device, for any tiles and limits: what the boot-    *)
(* time selector leaves mounted (ThemeMounts), and the geometry of the     *)
(* launcher views it mounts (LauncherLayout).                              *)
(*                                                                         *)
(* The selector's proof follows one transaction.  While it binds, what is  *)
(* mounted is a function of the plan and of how many binds are left        *)
(* (Reached); before and after it, what is mounted is little enough for    *)
(* one unmount_all to take away (Removable).  Both end where an umount was *)
(* refused, of which nothing is said.                                      *)
(***************************************************************************)
EXTENDS ThemeMounts, Integers, SequenceTheorems, TLAPS

Layout == INSTANCE LauncherLayout

Of(tree, views) == [tree |-> tree, views |-> views]

StockTree == [layout1 |-> "theme1", layout2 |-> "theme2", midi |-> "midi-theme1",
              assets1 |-> "theme1", assets2 |-> "theme2"]

Trees    == {"theme1", "theme2", "midi-theme1", "retro"}
AllViews == [variant : Trees, mask : SUBSET Tiles]
Few      == {<<>>} \cup {<<v>> : v \in AllViews}

\* One unmount_all by a script that nothing is in the way of clears the place.
Removable(p, layers) ==
  \/ \E v \in Few : layers = <<Of(StockTree[p], v)>>
  \/ \E v \in Few : \E t \in Trees : layers = <<Of(t, v), Of(StockTree[p], <<>>)>>

AllRemovable == /\ over = [p \in Places |-> over[p]]
                /\ \A p \in Places : Removable(p, over[p])

\* How many binds are left when the directory of a place is about to be bound
\* (none is ever, where this is 0), and what tree it gets.
DirectoryDue(theme) ==
  CASE theme = "stock" -> [p \in Places |-> 0]
    [] theme = "light" -> [layout1 |-> 0, layout2 |-> 5, midi |-> 0, assets1 |-> 0, assets2 |-> 4]
    [] theme = "dark"  -> [layout1 |-> 5, layout2 |-> 0, midi |-> 0, assets1 |-> 4, assets2 |-> 0]
    [] theme = "retro" -> [layout1 |-> 7, layout2 |-> 6, midi |-> 0, assets1 |-> 5, assets2 |-> 4]
NewTree == [stock |-> "theme1", light |-> "theme1", dark |-> "theme2", retro |-> "retro"]

\* The same for the launcher views.
ViewDue == [layout1 |-> 3, layout2 |-> 2, midi |-> 1, assets1 |-> 0, assets2 |-> 0]
ViewOf(theme, m, p) ==
  [variant |-> CASE p = "layout1" -> first_variant(theme)
                 [] p = "layout2" -> second_variant(theme)
                 [] OTHER         -> "midi-theme1",
   mask |-> m]

\* What is mounted at a place when so many binds are left.
ReachedAt(theme, m, n, p) ==
  LET views == IF n < ViewDue[p] THEN <<ViewOf(theme, m, p)>> ELSE <<>> IN
    IF n < DirectoryDue(theme)[p]
    THEN <<Of(NewTree[theme], views), Of(StockTree[p], <<>>)>>
    ELSE <<Of(StockTree[p], views)>>

Reached(theme, m, n) == [p \in Places |-> ReachedAt(theme, m, n, p)]

\* The last n binds of a plan.
Rest(theme, m, n) ==
  LET all == Binds(theme, m) IN [i \in 1..n |-> all[Len(all) - n + i]]

\* What the last transaction left, when the script is at rest or starts.
Rested == over = IF ended = "applied" THEN Reached(plan.theme, plan.launcher, 0)
                                      ELSE Stock

Points == {"start", "mask", "theme", "validate", "clear", "bind", "unwind", "idle"}

ConfTypes ==
  /\ conf = [l \in Leaves |-> conf[l]] /\ past = [l \in Leaves |-> past[l]]
  /\ \A l \in Leaves : conf[l] \in Contents(l) /\ past[l] \subseteq Contents(l)

Types ==
  /\ ConfTypes
  /\ at \in Points
  /\ plan \in [launcher : SUBSET Tiles, theme : Themes]

MountsInv ==
  ~refused =>
    /\ at \in {"start", "idle"} => Rested
    /\ at \in {"mask", "theme", "validate", "clear", "unwind"} => AllRemovable
    /\ at = "bind" => \E n \in 0 .. Len(Binds(plan.theme, plan.launcher)) :
                        /\ left = Rest(plan.theme, plan.launcher, n)
                        /\ over = Reached(plan.theme, plan.launcher, n)
    /\ at = "unwind" => ended # "applied"

\* At boot nobody writes between the two reads and the validation.
PlanInv ==
  player = "down" =>
    /\ at \in {"theme", "validate"} =>
         plan.launcher = Selected("launcher", conf["launcher"])
    /\ at = "validate" => plan.theme = Selected("theme", conf["theme"])

Inv == Types /\ MountsInv /\ PlanInv

-------------------------------------------------------------------------------
(***************************************************************************)
(* The operators of the model.                                             *)
(***************************************************************************)
LEMMA StockPlaces ==
  /\ Stock = [p \in Places |-> Stock[p]]
  /\ \A p \in Places : Stock[p] = <<Of(StockTree[p], <<>>)>>
  BY DEF Stock, Places, Layouts, Assets, StockTree, Of, Layer

LEMMA StockRemovable == \A p \in Places : Removable(p, Stock[p])
  BY StockPlaces DEF Removable, Few

\* What unmount_all does to a place nothing is in the way of.
LEMMA OneUnmount ==
  ASSUME NEW p \in Places, NEW busy, Removable(p, over[p]),
         p \in busy => ~Mounted(p)
  PROVE  Uncovered(p, busy) = Stock[p]
<1> DEFINE tree == StockTree[p]
<1>1. CASE \E v \in Few : over[p] = <<Of(tree, v)>>
  <2>1. PICK v \in Few : over[p] = <<Of(tree, v)>>
    BY <1>1
  <2>2. Top(p) = Of(tree, v) /\ Len(over[p]) = 1 /\ Tail(over[p]) = <<>>
    BY <2>1 DEF Top
  <2>3. ViewsLeft(p, busy) = <<>>
    <3>1. CASE v = <<>>
      BY <2>2, <3>1 DEF ViewsLeft, Of
    <3>2. CASE v # <<>>
      <4>1. PICK x \in AllViews : v = <<x>>
        BY <3>2 DEF Few
      <4>2. p \notin busy
        BY <2>2, <3>2 DEF Mounted, Of
      <4> QED
        BY <2>2, <4>1, <4>2 DEF ViewsLeft, Of
    <3> QED
      BY <3>1, <3>2
  <2>4. [Top(p) EXCEPT !.views = <<>>] = Of(tree, <<>>)
    BY <2>2 DEF Of
  <2>5. Uncovered(p, busy) = <<[Top(p) EXCEPT !.views = ViewsLeft(p, busy)]>> \o Tail(over[p])
    BY <2>2 DEF Uncovered
  <2>6. <<Of(tree, <<>>)>> \o <<>> = <<Of(tree, <<>>)>>
    OBVIOUS
  <2> QED
    BY <2>2, <2>3, <2>4, <2>5, <2>6, StockPlaces
<1>2. CASE \E v \in Few : \E t \in Trees : over[p] = <<Of(t, v), Of(tree, <<>>)>>
  <2>1. PICK v \in Few, t \in Trees : over[p] = <<Of(t, v), Of(tree, <<>>)>>
    BY <1>2
  <2>2. Top(p) = Of(t, v) /\ Len(over[p]) = 2 /\ Tail(over[p]) = <<Of(tree, <<>>)>>
    BY <2>1 DEF Top
  <2>3. p \notin busy
    BY <2>2 DEF Mounted
  <2>4. ViewsLeft(p, busy) = <<>>
    <3>1. CASE v = <<>>
      BY <2>2, <3>1 DEF ViewsLeft, Of
    <3>2. CASE v # <<>>
      <4>1. PICK x \in AllViews : v = <<x>>
        BY <3>2 DEF Few
      <4> QED
        BY <2>2, <2>3, <4>1 DEF ViewsLeft, Of
    <3> QED
      BY <3>1, <3>2
  <2>5. Uncovered(p, busy) = <<Of(tree, <<>>)>>
    BY <2>2, <2>3, <2>4 DEF Uncovered
  <2> QED
    BY <2>5, StockPlaces
<1> QED
  BY <1>1, <1>2 DEF Removable

LEMMA AllUnmounted ==
  ASSUME AllRemovable, NEW busy, unmount_all(busy), ~refused'
  PROVE  over' = Stock
<1>1. \A p \in Places : Uncovered(p, busy) = Stock[p]
  BY OneUnmount DEF unmount_all, AllRemovable
<1> QED
  BY <1>1, StockPlaces DEF unmount_all

LEMMA ReachedRemovable ==
  ASSUME NEW theme \in Themes, NEW m \in SUBSET Tiles, NEW n \in Nat, NEW p \in Places
  PROVE  Removable(p, ReachedAt(theme, m, n, p))
<1>1. ViewOf(theme, m, p) \in AllViews
  BY ThemesAssumption DEF ViewOf, AllViews, Trees, first_variant, second_variant
<1>2. NewTree[theme] \in Trees
  BY ThemesAssumption DEF NewTree, Trees
<1> DEFINE views == IF n < ViewDue[p] THEN <<ViewOf(theme, m, p)>> ELSE <<>>
<1>3. views \in Few
  BY <1>1 DEF Few
<1>4. \/ ReachedAt(theme, m, n, p) = <<Of(NewTree[theme], views), Of(StockTree[p], <<>>)>>
      \/ ReachedAt(theme, m, n, p) = <<Of(StockTree[p], views)>>
  BY DEF ReachedAt
<1> HIDE DEF views
<1> QED
  BY <1>2, <1>3, <1>4 DEF Removable

\* The binds of each theme, counted.
LEMMA DirectoriesOf ==
  /\ ThemeDirectories("stock") = <<>>
  /\ ThemeDirectories("light") = <<BindDir("layout1", "layout2"), BindDir("assets1", "assets2")>>
  /\ ThemeDirectories("dark") = <<BindDir("layout2", "layout1"), BindDir("assets2", "assets1")>>
  /\ ThemeDirectories("retro") = <<BindDir("retro", "layout1"), BindDir("retro", "layout2"),
                                   BindDir("retro", "assets1"), BindDir("retro", "assets2")>>
  BY DEF ThemeDirectories

Directories == [stock |-> 0, light |-> 2, dark |-> 2, retro |-> 4]

LEMMA BindsOf ==
  ASSUME NEW theme \in Themes, NEW m
  PROVE  LET k == Directories[theme] IN
           /\ Len(Binds(theme, m)) = k + 3
           /\ Binds(theme, m) = [i \in 1 .. Len(Binds(theme, m)) |-> Binds(theme, m)[i]]
           /\ \A i \in 1..k : Binds(theme, m)[i] = ThemeDirectories(theme)[i]
           /\ Binds(theme, m)[k + 1] = BindView(first_variant(theme), m, "layout1")
           /\ Binds(theme, m)[k + 2] = BindView(second_variant(theme), m, "layout2")
           /\ Binds(theme, m)[k + 3] = BindView("midi-theme1", m, "midi")
<1> DEFINE k == Directories[theme]
           a == BindView(first_variant(theme), m, "layout1")
           b == BindView(second_variant(theme), m, "layout2")
           c == BindView("midi-theme1", m, "midi")
           D == {BindDir(x, y) : x, y \in Places \cup {"retro"}}
<1>1. Binds(theme, m) = ThemeDirectories(theme) \o <<a, b, c>>
  BY DEF Binds
<1>2. ThemeDirectories(theme) \in Seq(D) /\ k = Len(ThemeDirectories(theme)) /\ k \in Nat
  <2>1. \A x, y \in Places \cup {"retro"} : BindDir(x, y) \in D
    OBVIOUS
  <2>2. {"layout1", "layout2", "assets1", "assets2"} \subseteq Places
    BY DEF Places, Layouts, Assets
  <2> HIDE DEF D
  <2>3. CASE theme = "stock"
    <3>1. ThemeDirectories(theme) = <<>>
      BY <2>3, DirectoriesOf
    <3>2. k = 0
      BY <2>3 DEF Directories
    <3> HIDE DEF k
    <3>3. ThemeDirectories(theme) \in Seq(D) /\ Len(ThemeDirectories(theme)) = 0
      BY <3>1
    <3> QED
      BY <3>2, <3>3
  <2>4. CASE theme = "light"
    <3>1. ThemeDirectories(theme) = <<BindDir("layout1", "layout2"), BindDir("assets1", "assets2")>>
      BY <2>4, DirectoriesOf
    <3>2. k = 2
      BY <2>4 DEF Directories
    <3> HIDE DEF k
    <3>3. ThemeDirectories(theme) \in Seq(D) /\ Len(ThemeDirectories(theme)) = 2
      BY <2>1, <2>2, <3>1
    <3> QED
      BY <3>2, <3>3
  <2>5. CASE theme = "dark"
    <3>1. ThemeDirectories(theme) = <<BindDir("layout2", "layout1"), BindDir("assets2", "assets1")>>
      BY <2>5, DirectoriesOf
    <3>2. k = 2
      BY <2>5 DEF Directories
    <3> HIDE DEF k
    <3>3. ThemeDirectories(theme) \in Seq(D) /\ Len(ThemeDirectories(theme)) = 2
      BY <2>1, <2>2, <3>1
    <3> QED
      BY <3>2, <3>3
  <2>6. CASE theme = "retro"
    <3>1. ThemeDirectories(theme) = <<BindDir("retro", "layout1"), BindDir("retro", "layout2"),
                                      BindDir("retro", "assets1"), BindDir("retro", "assets2")>>
      BY <2>6, DirectoriesOf
    <3>2. k = 4
      BY <2>6 DEF Directories
    <3> HIDE DEF k
    <3>3. ThemeDirectories(theme) \in Seq(D) /\ Len(ThemeDirectories(theme)) = 4
      BY <2>1, <2>2, <3>1
    <3> QED
      BY <3>2, <3>3
  <2> QED
    BY <2>3, <2>4, <2>5, <2>6, ThemesAssumption
<1> HIDE DEF a, b, c, D, k
<1>3. /\ ThemeDirectories(theme) \in Seq(D \cup {a, b, c})
      /\ <<a, b, c>> \in Seq(D \cup {a, b, c}) /\ Len(<<a, b, c>>) = 3
  BY <1>2
<1>4. /\ Len(Binds(theme, m)) = k + 3
      /\ Binds(theme, m) \in Seq(D \cup {a, b, c})
      /\ \A i \in 1 .. k + 3 :
           Binds(theme, m)[i] = IF i <= k THEN ThemeDirectories(theme)[i] ELSE <<a, b, c>>[i - k]
  BY <1>1, <1>2, <1>3, ConcatProperties
<1>5. /\ \A i \in 1..k : Binds(theme, m)[i] = ThemeDirectories(theme)[i]
      /\ Binds(theme, m)[k + 1] = a /\ Binds(theme, m)[k + 2] = b /\ Binds(theme, m)[k + 3] = c
  <2>1. \A i \in 1..k : i \in 1 .. k + 3 /\ i <= k
    BY <1>2
  <2>2. /\ \A j \in 1..3 : k + j \in 1 .. k + 3 /\ ~(k + j <= k) /\ (k + j) - k = j
        /\ 1 \in 1..3 /\ 2 \in 1..3 /\ 3 \in 1..3
    BY <1>2
  <2>3. \A j \in 1..3 : Binds(theme, m)[k + j] = <<a, b, c>>[j]
    BY <1>4, <2>2
  <2>4. <<a, b, c>>[1] = a /\ <<a, b, c>>[2] = b /\ <<a, b, c>>[3] = c
    OBVIOUS
  <2> QED
    BY <1>4, <2>1, <2>2, <2>3, <2>4
<1> QED
  BY <1>4, <1>5 DEF a, b, c, k

LEMMA RestStep ==
  ASSUME NEW theme \in Themes, NEW m, NEW n \in 1 .. Len(Binds(theme, m))
  PROVE  /\ Rest(theme, m, n) # <<>>
         /\ Head(Rest(theme, m, n)) = Binds(theme, m)[Len(Binds(theme, m)) - n + 1]
         /\ Tail(Rest(theme, m, n)) = Rest(theme, m, n - 1)
<1> DEFINE all == Binds(theme, m)
<1>1. Len(all) \in Nat
  BY BindsOf, ThemesAssumption
<1> HIDE DEF all
<1> DEFINE f(k) == [i \in 1..k |-> all[Len(all) - k + i]]
<1>2. Len(f(n)) = n /\ Head(f(n)) = all[Len(all) - n + 1] /\ f(n) # <<>>
  BY <1>1 DEF all
<1>3. Tail(f(n)) = f(n - 1)
  BY <1>1 DEF all
<1> QED
  BY <1>2, <1>3 DEF Rest, all

\* Which bind comes next, by how many are left: the three views last, each over
\* the place that is due, and before them the theme's directories.
NextBindIs(theme, m, n, b) ==
  /\ b.onto \in Places
  /\ \A p \in Places \ {b.onto} : ViewDue[p] # n /\ DirectoryDue(theme)[p] # n
  /\ n <= 3 => /\ b = [from |-> "views", onto |-> b.onto, view |-> <<ViewOf(theme, m, b.onto)>>]
               /\ ViewDue[b.onto] = n
               /\ DirectoryDue(theme)[b.onto] # n
  /\ n > 3  => /\ b.view = <<>>
               /\ ViewDue[b.onto] < n
               /\ DirectoryDue(theme)[b.onto] = n
               /\ IF b.from = "retro" THEN theme = "retro"
                  ELSE /\ b.from \in Places
                       /\ DirectoryDue(theme)[b.from] = 0
                       /\ ViewDue[b.from] < n
                       /\ StockTree[b.from] = NewTree[theme]

LEMMA ViewsLast ==
  ASSUME NEW theme \in Themes, NEW m, NEW n \in 1..3
  PROVE  NextBindIs(theme, m, n, Binds(theme, m)[Len(Binds(theme, m)) - n + 1])
<1> DEFINE b == Binds(theme, m)[Len(Binds(theme, m)) - n + 1]
<1>1. n \in {1, 2, 3}
  OBVIOUS
<1>2. b = CASE n = 3 -> BindView(first_variant(theme), m, "layout1")
            [] n = 2 -> BindView(second_variant(theme), m, "layout2")
            [] n = 1 -> BindView("midi-theme1", m, "midi")
  <2> DEFINE k == Directories[theme]
  <2>1. k \in Nat
    BY ThemesAssumption DEF Directories
  <2> HIDE DEF k
  <2>2. /\ Len(Binds(theme, m)) = k + 3
        /\ Binds(theme, m)[k + 1] = BindView(first_variant(theme), m, "layout1")
        /\ Binds(theme, m)[k + 2] = BindView(second_variant(theme), m, "layout2")
        /\ Binds(theme, m)[k + 3] = BindView("midi-theme1", m, "midi")
    BY BindsOf DEF k
  <2> QED
    BY <1>1, <2>1, <2>2
<1> HIDE DEF b
<1>3. \A p \in Places : DirectoryDue(theme)[p] \in {0, 4, 5, 6, 7}
  <2> USE DEF DirectoryDue, Places, Layouts, Assets
  <2>1. CASE theme = "stock"
    BY <2>1
  <2>2. CASE theme = "light"
    BY <2>2
  <2>3. CASE theme = "dark"
    BY <2>3
  <2>4. CASE theme = "retro"
    BY <2>4
  <2> QED
    BY <2>1, <2>2, <2>3, <2>4, ThemesAssumption
<1>4. b = [from |-> "views", onto |-> b.onto, view |-> <<ViewOf(theme, m, b.onto)>>]
      /\ b.onto = CASE n = 3 -> "layout1" [] n = 2 -> "layout2" [] n = 1 -> "midi"
  <2>1. CASE n = 1
    BY <1>2, <2>1 DEF ViewOf, BindView
  <2>2. CASE n = 2
    BY <1>2, <2>2 DEF ViewOf, BindView
  <2>3. CASE n = 3
    BY <1>2, <2>3 DEF ViewOf, BindView
  <2> QED
    BY <1>1, <2>1, <2>2, <2>3
<1> QED
  BY <1>1, <1>3, <1>4 DEF b, NextBindIs, Places, Layouts, Assets, ViewDue

LEMMA DirectoriesBefore ==
  ASSUME NEW theme \in Themes, NEW m, NEW n \in 1 .. Len(Binds(theme, m)), n > 3
  PROVE  NextBindIs(theme, m, n, Binds(theme, m)[Len(Binds(theme, m)) - n + 1])
<1> DEFINE b == Binds(theme, m)[Len(Binds(theme, m)) - n + 1]
<1> USE DEF NextBindIs, Places, Layouts, Assets, ViewDue, DirectoryDue, BindDir,
            StockTree, NewTree
<1>1. CASE theme = "stock"
  <2>1. Len(Binds(theme, m)) = 3
    BY <1>1, BindsOf DEF Directories
  <2> QED
    BY <2>1
<1>2. CASE theme = "light"
  <2>0. Directories[theme] = 2
    BY <1>2 DEF Directories
  <2>1. n \in {4, 5} /\ b = ThemeDirectories(theme)[5 - n + 1]
    <3>1. LET k == Directories[theme] IN
            /\ Len(Binds(theme, m)) = k + 3
            /\ \A i \in 1..k : Binds(theme, m)[i] = ThemeDirectories(theme)[i]
      BY BindsOf
    <3> QED
      BY <2>0, <3>1
  <2>2. b = IF n = 5 THEN BindDir("layout1", "layout2") ELSE BindDir("assets1", "assets2")
    BY <1>2, <2>1, DirectoriesOf
  <2> HIDE DEF b
  <2> QED
    BY <1>2, <2>1, <2>2 DEF b
<1>3. CASE theme = "dark"
  <2>0. Directories[theme] = 2
    BY <1>3 DEF Directories
  <2>1. n \in {4, 5} /\ b = ThemeDirectories(theme)[5 - n + 1]
    <3>1. LET k == Directories[theme] IN
            /\ Len(Binds(theme, m)) = k + 3
            /\ \A i \in 1..k : Binds(theme, m)[i] = ThemeDirectories(theme)[i]
      BY BindsOf
    <3> QED
      BY <2>0, <3>1
  <2>2. b = IF n = 5 THEN BindDir("layout2", "layout1") ELSE BindDir("assets2", "assets1")
    BY <1>3, <2>1, DirectoriesOf
  <2> HIDE DEF b
  <2> QED
    BY <1>3, <2>1, <2>2 DEF b
<1>4. CASE theme = "retro"
  <2>0. Directories[theme] = 4
    BY <1>4 DEF Directories
  <2>1. n \in {4, 5, 6, 7} /\ b = ThemeDirectories(theme)[7 - n + 1]
    <3>1. LET k == Directories[theme] IN
            /\ Len(Binds(theme, m)) = k + 3
            /\ \A i \in 1..k : Binds(theme, m)[i] = ThemeDirectories(theme)[i]
      BY BindsOf
    <3> QED
      BY <2>0, <3>1
  <2>2. b = BindDir("retro", CASE n = 7 -> "layout1" [] n = 6 -> "layout2"
                               [] n = 5 -> "assets1" [] n = 4 -> "assets2")
    BY <1>4, <2>1, DirectoriesOf
  <2> HIDE DEF b
  <2> QED
    BY <1>4, <2>1, <2>2 DEF b
<1> QED
  BY <1>1, <1>2, <1>3, <1>4, ThemesAssumption

LEMMA OneAndOne ==
  ASSUME NEW a, NEW b
  PROVE  <<a>> \o <<b>> = <<a, b>>
<1> DEFINE s == <<a>> \o <<b>>
           t == <<a, b>>
<1>1. Len(s) = 2 /\ Len(t) = 2 /\ s \in Seq({a, b}) /\ t \in Seq({a, b})
  OBVIOUS
<1>2. \A i \in 1..2 : s[i] = t[i]
  OBVIOUS
<1> HIDE DEF s, t
<1>3. s = t
  BY <1>1, <1>2, SeqEqual
<1> QED
  BY <1>3 DEF s, t

\* A view and a directory over what a place shows.
LEMMA CoverView ==
  ASSUME NEW p, NEW v, NEW t, NEW u
  PROVE  LET b == [from |-> "views", onto |-> p, view |-> <<v>>] IN
           /\ over[p] = <<Of(t, <<>>)>> => Covered(b) = <<Of(t, <<v>>)>>
           /\ over[p] = <<Of(t, <<>>), u>> => Covered(b) = <<Of(t, <<v>>), u>>
<1> DEFINE b == [from |-> "views", onto |-> p, view |-> <<v>>]
<1>1. Covered(b) = <<[Top(p) EXCEPT !.views = <<v>> \o @]>> \o Tail(over[p])
  BY DEF Covered
<1>2. <<v>> \o <<>> = <<v>>
  OBVIOUS
<1>3. Top(p) = Of(t, <<>>) => [Top(p) EXCEPT !.views = <<v>> \o @] = Of(t, <<v>>)
  BY <1>2 DEF Of
<1>4. CASE over[p] = <<Of(t, <<>>)>>
  <2>1. Top(p) = Of(t, <<>>) /\ Tail(over[p]) = <<>>
    BY <1>4 DEF Top
  <2>2. <<Of(t, <<v>>)>> \o <<>> = <<Of(t, <<v>>)>>
    OBVIOUS
  <2> QED
    BY <1>1, <1>3, <1>4, <2>1, <2>2
<1>5. CASE over[p] = <<Of(t, <<>>), u>>
  <2>1. Top(p) = Of(t, <<>>) /\ Tail(over[p]) = <<u>>
    BY <1>5 DEF Top
  <2>2. <<Of(t, <<v>>)>> \o <<u>> = <<Of(t, <<v>>), u>>
    BY OneAndOne
  <2> QED
    BY <1>1, <1>3, <1>5, <2>1, <2>2
<1> QED
  BY <1>4, <1>5

LEMMA CoverDirectory ==
  ASSUME NEW b, b.view = <<>>, NEW u, over[b.onto] = <<u>>
  PROVE  Covered(b) = <<Layer(IF b.from = "retro" THEN "retro" ELSE Top(b.from).tree), u>>
<1> DEFINE l == Layer(IF b.from = "retro" THEN "retro" ELSE Top(b.from).tree)
<1>1. Covered(b) = <<l>> \o <<u>>
  BY DEF Covered
<1> HIDE DEF l
<1>2. <<l>> \o <<u>> = <<l, u>>
  BY OneAndOne
<1> QED
  BY <1>1, <1>2 DEF l

\* bind_one takes what is mounted from n binds left to n - 1.
LEMMA BindReaches ==
  ASSUME NEW theme \in Themes, NEW m, NEW n \in Nat \ {0}, NEW b, NextBindIs(theme, m, n, b),
         over = Reached(theme, m, n),
         over' = [over EXCEPT ![b.onto] = Covered(b)]
  PROVE  over' = Reached(theme, m, n - 1)
<1> DEFINE q == b.onto
<1>1. q \in Places /\ b.onto = q
  BY DEF NextBindIs
<1>2. \A p \in Places : DirectoryDue(theme)[p] \in Nat /\ ViewDue[p] \in 0..3
  <2> USE DEF DirectoryDue, ViewDue, Places, Layouts, Assets
  <2>1. CASE theme = "stock"
    BY <2>1
  <2>2. CASE theme = "light"
    BY <2>2
  <2>3. CASE theme = "dark"
    BY <2>3
  <2>4. CASE theme = "retro"
    BY <2>4
  <2> QED
    BY <2>1, <2>2, <2>3, <2>4, ThemesAssumption
<1>3. \A p \in Places : over[p] = ReachedAt(theme, m, n, p)
  BY DEF Reached
<1>4. \A p \in Places \ {q} : ReachedAt(theme, m, n - 1, p) = ReachedAt(theme, m, n, p)
  <2> TAKE p \in Places \ {q}
  <2>1. ViewDue[p] # n /\ DirectoryDue(theme)[p] # n
    BY DEF NextBindIs
  <2>2. (n - 1 < ViewDue[p]) <=> (n < ViewDue[p])
    BY <1>2, <2>1
  <2>3. (n - 1 < DirectoryDue(theme)[p]) <=> (n < DirectoryDue(theme)[p])
    BY <1>2, <2>1
  <2> QED
    BY <2>2, <2>3 DEF ReachedAt
<1>5. Covered(b) = ReachedAt(theme, m, n - 1, q)
  <2>1. CASE n <= 3
    <3> DEFINE v == ViewOf(theme, m, q)
    <3>1. b = [from |-> "views", onto |-> q, view |-> <<v>>] /\ ViewDue[q] = n
          /\ DirectoryDue(theme)[q] # n
      BY <2>1 DEF NextBindIs
    <3>2. (n - 1 < ViewDue[q]) /\ ~(n < ViewDue[q])
          /\ ((n - 1 < DirectoryDue(theme)[q]) <=> (n < DirectoryDue(theme)[q]))
      BY <1>1, <1>2, <3>1
    <3> HIDE DEF v
    <3>3. CASE n < DirectoryDue(theme)[q]
      <4>1. over[q] = <<Of(NewTree[theme], <<>>), Of(StockTree[q], <<>>)>>
        BY <1>1, <1>3, <3>2, <3>3 DEF ReachedAt
      <4>2. ReachedAt(theme, m, n - 1, q) = <<Of(NewTree[theme], <<v>>), Of(StockTree[q], <<>>)>>
        BY <3>2, <3>3 DEF ReachedAt, v
      <4> QED
        BY <3>1, <4>1, <4>2, CoverView
    <3>4. CASE ~(n < DirectoryDue(theme)[q])
      <4>1. over[q] = <<Of(StockTree[q], <<>>)>>
        BY <1>1, <1>3, <3>2, <3>4 DEF ReachedAt
      <4>2. ReachedAt(theme, m, n - 1, q) = <<Of(StockTree[q], <<v>>)>>
        BY <3>2, <3>4 DEF ReachedAt, v
      <4> QED
        BY <3>1, <4>1, <4>2, CoverView
    <3> QED
      BY <3>3, <3>4
  <2>2. CASE n > 3
    <3>1. /\ b.view = <<>> /\ ViewDue[q] < n /\ DirectoryDue(theme)[q] = n
          /\ IF b.from = "retro" THEN theme = "retro"
             ELSE /\ b.from \in Places
                  /\ DirectoryDue(theme)[b.from] = 0
                  /\ ViewDue[b.from] < n
                  /\ StockTree[b.from] = NewTree[theme]
      BY <2>2 DEF NextBindIs
    <3>2. ~(n < ViewDue[q]) /\ ~(n - 1 < ViewDue[q])
          /\ ~(n < DirectoryDue(theme)[q]) /\ n - 1 < DirectoryDue(theme)[q]
      BY <1>1, <1>2, <2>2, <3>1
    <3>3. over[q] = <<Of(StockTree[q], <<>>)>>
      BY <1>1, <1>3, <3>2 DEF ReachedAt
    <3>4. ReachedAt(theme, m, n - 1, q) = <<Of(NewTree[theme], <<>>), Of(StockTree[q], <<>>)>>
      BY <3>2 DEF ReachedAt
    <3>5. (IF b.from = "retro" THEN "retro" ELSE Top(b.from).tree) = NewTree[theme]
      <4>1. CASE b.from = "retro"
        BY <3>1, <4>1 DEF NewTree
      <4>2. CASE b.from # "retro"
        <5>1. ~(n < ViewDue[b.from]) /\ ~(n < DirectoryDue(theme)[b.from])
          BY <1>2, <3>1, <4>2
        <5>2. over[b.from] = <<Of(StockTree[b.from], <<>>)>>
          BY <1>3, <3>1, <4>2, <5>1 DEF ReachedAt
        <5> QED
          BY <3>1, <4>2, <5>2 DEF Top, Of
      <4> QED
        BY <4>1, <4>2
    <3>6. Covered(b) = <<Layer(NewTree[theme]), Of(StockTree[q], <<>>)>>
      BY <3>1, <3>3, <3>5, CoverDirectory
    <3> QED
      BY <3>4, <3>6 DEF Layer, Of
  <2> QED
    BY <2>1, <2>2
<1>6. over' = [p \in Places |-> ReachedAt(theme, m, n - 1, p)]
  <2>1. over = [p \in Places |-> over[p]]
    BY <1>3 DEF Reached
  <2> QED
    BY <1>1, <1>3, <1>4, <1>5, <2>1
<1> QED
  BY <1>6 DEF Reached

\* Before the first bind nothing is mounted.
LEMMA NothingReached ==
  ASSUME NEW theme \in Themes, NEW m
  PROVE  /\ Reached(theme, m, Len(Binds(theme, m))) = Stock
         /\ Binds(theme, m) = Rest(theme, m, Len(Binds(theme, m)))
         /\ Len(Binds(theme, m)) \in Nat
<1> DEFINE k == Len(Binds(theme, m))
<1>1. /\ k \in Nat
      /\ \A p \in Places : ~(k < ViewDue[p]) /\ ~(k < DirectoryDue(theme)[p])
  <2>1. k = Directories[theme] + 3
    BY BindsOf
  <2> HIDE DEF k
  <2> USE DEF Directories, DirectoryDue, ViewDue, Places, Layouts, Assets
  <2>2. CASE theme = "stock"
    BY <2>1, <2>2
  <2>3. CASE theme = "light"
    BY <2>1, <2>3
  <2>4. CASE theme = "dark"
    BY <2>1, <2>4
  <2>5. CASE theme = "retro"
    BY <2>1, <2>5
  <2> QED
    BY <2>2, <2>3, <2>4, <2>5, ThemesAssumption
<1>2. \A p \in Places : ReachedAt(theme, m, k, p) = Stock[p]
  BY <1>1, StockPlaces DEF ReachedAt
<1>3. Binds(theme, m) = [i \in 1..k |-> Binds(theme, m)[k - k + i]]
  <2>1. Binds(theme, m) = [i \in 1..k |-> Binds(theme, m)[i]]
    BY BindsOf
  <2>2. \A i \in 1..k : k - k + i = i
    BY <1>1
  <2> QED
    BY <2>1, <2>2
<1> QED
  BY <1>1, <1>2, <1>3, StockPlaces DEF Reached, Rest

-------------------------------------------------------------------------------
(***************************************************************************)
(* The invariant.                                                          *)
(***************************************************************************)
\* What ConfStore takes from ConfFile is what ThemeMounts takes from it.
LEMMA SameFile ==
  /\ Store!Leaves = Leaves
  /\ Store!Good = Good
  /\ \A v : Store!Exact(v) = Exact(v)
  /\ \A l : Store!Contents(l) = Contents(l)
<1>0. \A m : Store!Cardinality(m) = Cardinality(m)
  BY DEF Store!Cardinality, Cardinality
<1>1. Store!Leaves = Leaves /\ Store!Good = Good
  BY <1>0 DEF Store!Leaves, Leaves, Store!Good, Good, Store!valid_mask, valid_mask
<1>2. \A v : Store!Exact(v) = Exact(v)
  BY DEF Store!Exact, Exact
<1>3. Store!Values = Values
  BY DEF Store!Values, Values
<1>4. Store!Absent = Absent /\ Store!Garbage = Garbage
  BY DEF Store!Absent, Absent, Store!Garbage, Garbage
<1>5. \A l : Store!Contents(l) = Contents(l)
  BY <1>3, <1>4, Zenon DEF Store!Contents, Contents
<1> QED
  BY <1>1, <1>2, <1>5

\* What the writers save is text a reader can meet.
LEMMA SavedContents ==
  ASSUME NEW l \in Leaves, NEW v \in Good[l]
  PROVE  Exact(v) \in Contents(l)
<1>1. v \in Values[l]
  BY DEF Leaves, Good, Values
<1> QED
  BY <1>1 DEF Exact, Contents

LEMMA ConfInit == Store!Init => ConfTypes
  BY SameFile DEF Store!Init, ConfTypes, Leaves

LEMMA ConfStep ==
  ASSUME ConfTypes,
         \/ ConfChanges
         \/ Store!PowerLoss
         \/ UNCHANGED confVars
  PROVE  ConfTypes'
<1>1. CASE UNCHANGED confVars
  BY <1>1 DEF confVars, ConfTypes
<1>2. CASE Store!PowerLoss
  BY <1>2, SameFile DEF Store!PowerLoss, ConfTypes, Leaves
<1>3. CASE Store!Flush
  BY <1>3, SameFile DEF Store!Flush, ConfTypes
<1>4. ASSUME NEW l \in Leaves, NEW v \in Good[l], Store!Save(l, v) PROVE ConfTypes'
  <2>1. Exact(v) \in Contents(l)
    BY SavedContents
  <2> QED
    BY <1>4, <2>1, SameFile DEF Store!Save, ConfTypes
<1> QED
  BY <1>1, <1>2, <1>3, <1>4 DEF ConfChanges

\* What the script reads is a mask and a theme, whatever the files say.
LEMMA SelectedTypes ==
  ASSUME ConfTypes
  PROVE  /\ Selected("launcher", conf["launcher"]) \in SUBSET Tiles
         /\ Selected("theme", conf["theme"]) \in Themes
         /\ Default \in [launcher : SUBSET Tiles, theme : Themes]
<1>1. Default \in [launcher : SUBSET Tiles, theme : Themes]
  BY DefaultAssumption DEF Default, valid_mask
<1>2. \A l \in Leaves : Selected(l, conf[l]) \in Values[l]
  <2> TAKE l \in Leaves
  <2>1. conf[l] \in Contents(l) /\ Default[l] \in Values[l]
    BY <1>1 DEF ConfTypes, Values, Default, Leaves
  <2>2. Selected(l, conf[l]) \in {conf[l].value, Default[l]}
    BY DEF Selected
  <2>3. conf[l].form \in {"exact", "loose"} => conf[l].value \in Values[l]
    BY <2>1 DEF Contents, Absent, Garbage
  <2> QED
    BY <2>1, <2>3 DEF Selected
<1> QED
  BY <1>1, <1>2 DEF Values, Leaves

LEMMA InvInit == Init => Inv
<1> SUFFICES ASSUME Init PROVE Inv
  OBVIOUS
<1>1. Types
  BY ConfInit, SelectedTypes DEF Init, Types, Points
<1>2. MountsInv /\ PlanInv
  BY DEF Init, MountsInv, PlanInv, Rested
<1> QED
  BY <1>1, <1>2 DEF Inv

\* Whatever a plan has left mounted, one unmount_all takes away.
LEMMA RestedRemovable ==
  ASSUME Types, Rested
  PROVE  AllRemovable
<1>1. CASE ended = "applied"
  <2>1. over = Reached(plan.theme, plan.launcher, 0)
    BY <1>1 DEF Rested
  <2> QED
    BY <2>1, ReachedRemovable DEF Types, AllRemovable, Reached
<1>2. CASE ended # "applied"
  BY <1>2, StockPlaces, StockRemovable DEF Rested, AllRemovable
<1> QED
  BY <1>1, <1>2

LEMMA TypesNext ==
  ASSUME Types, [Next]_vars
  PROVE  Types'
<1>1. ConfTypes'
  <2>1. \/ ConfChanges
        \/ Store!PowerLoss
        \/ UNCHANGED confVars
    BY DEF Next, vars, ScriptStep, Start, StartFails, ReadMask, ReadTheme, Validate, Clear,
           Unwind, Bind, BindFails, Bound, StartPlayer, RunByHand, PowerLoss, confVars
  <2> QED
    BY <2>1, ConfStep DEF Types
<1>2. at' \in Points
  BY DEF Types, Points, Next, vars, ScriptStep, Start, StartFails, ReadMask, ReadTheme,
         Validate, Clear, Unwind, Bind, BindFails, Bound, StartPlayer, RunByHand,
         ConfChanges, PowerLoss, Goto, scriptVars
<1>3. plan' \in [launcher : SUBSET Tiles, theme : Themes]
  <2>1. CASE ReadMask
    BY <2>1, SelectedTypes DEF Types, ReadMask
  <2>2. CASE ReadTheme
    BY <2>2, SelectedTypes DEF Types, ReadTheme
  <2>3. CASE PowerLoss
    BY <2>3, SelectedTypes DEF Types, PowerLoss
  <2>4. CASE ~ (ReadMask \/ ReadTheme \/ PowerLoss)
    BY <2>4 DEF Types, Next, vars, ScriptStep, Start, StartFails, Validate, Clear, Unwind,
                Bind, BindFails, Bound, StartPlayer, RunByHand, ConfChanges, scriptVars
  <2> QED
    BY <2>1, <2>2, <2>3, <2>4
<1> QED
  BY <1>1, <1>2, <1>3 DEF Types

\* Nobody writes the files or reads them, where the plan of the boot matters.
LEMMA PlanNext ==
  ASSUME Types, PlanInv, [Next]_vars
  PROVE  PlanInv'
<1>1. CASE ReadMask
  BY <1>1 DEF Types, PlanInv, ReadMask, Goto, confVars
<1>2. CASE ReadTheme
  BY <1>2 DEF Types, PlanInv, ReadTheme, Goto, confVars
<1>3. CASE ~ (ReadMask \/ ReadTheme)
  BY <1>3 DEF PlanInv, Next, vars, ScriptStep, Start, StartFails, Validate, Clear, Unwind,
              Bind, BindFails, Bound, StartPlayer, RunByHand, ConfChanges, PowerLoss, Goto,
              confVars, scriptVars
<1> QED
  BY <1>1, <1>2, <1>3

\* The binds of a transaction, counted down, and where each of them leads.
LEMMA BindKeeps ==
  ASSUME Types, MountsInv, Bind
  PROVE  MountsInv'
<1> SUFFICES ASSUME ~refused PROVE MountsInv'
  BY DEF MountsInv, Bind
<1> DEFINE theme == plan.theme
           m == plan.launcher
<1>1. PICK n \in 0 .. Len(Binds(theme, m)) : left = Rest(theme, m, n) /\ over = Reached(theme, m, n)
  BY DEF MountsInv, Bind
<1>2. theme \in Themes /\ Len(Binds(theme, m)) \in Nat
  BY NothingReached DEF Types
<1>3. n \in 1 .. Len(Binds(theme, m))
  BY <1>1, <1>2 DEF Bind, Rest
<1>4. NextBindIs(theme, m, n, Head(left)) /\ Tail(left) = Rest(theme, m, n - 1)
  <2> HIDE DEF theme, m
  <2> DEFINE b == Binds(theme, m)[Len(Binds(theme, m)) - n + 1]
  <2>1. Head(left) = b /\ Tail(left) = Rest(theme, m, n - 1)
    BY <1>1, <1>2, <1>3, RestStep
  <2>2. NextBindIs(theme, m, n, b)
    <3>1. n \in 1..3 \/ n > 3
      BY <1>3
    <3> QED
      BY <1>2, <1>3, <3>1, ViewsLast, DirectoriesBefore
  <2> QED
    BY <2>1, <2>2
<1>5. over' = Reached(theme, m, n - 1)
  BY <1>1, <1>2, <1>3, <1>4, BindReaches DEF Bind
<1>6. left' = Rest(theme, m, n - 1) /\ n - 1 \in 0 .. Len(Binds(theme, m))
  BY <1>2, <1>3, <1>4 DEF Bind, Goto
<1> HIDE DEF theme, m
<1>7. at' = "bind" /\ plan'.theme = theme /\ plan'.launcher = m
  BY DEF Bind, Goto, theme, m
<1> QED
  BY <1>5, <1>6, <1>7 DEF MountsInv

LEMMA MountsNext ==
  ASSUME Types, MountsInv, [Next]_vars
  PROVE  MountsInv'
<1> SUFFICES ASSUME ~refused' PROVE MountsInv'
  BY DEF MountsInv
<1>1. CASE UNCHANGED vars
  BY <1>1 DEF vars, confVars, scriptVars, MountsInv, Rested, AllRemovable
<1>2. CASE Start
  <2>1. AllRemovable
    BY <1>2, RestedRemovable DEF Start, MountsInv
  <2> QED
    BY <1>2, <2>1 DEF Start, Goto, MountsInv, AllRemovable
<1>3. CASE StartFails
  BY <1>3 DEF StartFails, Goto, MountsInv, Rested
<1>4. CASE ReadMask \/ ReadTheme
  BY <1>4 DEF ReadMask, ReadTheme, Goto, MountsInv, AllRemovable
<1>5. CASE Validate
  BY <1>5 DEF Validate, Goto, MountsInv, AllRemovable
<1>6. CASE Clear
  <2>1. over' = Stock
    BY <1>6, AllUnmounted DEF Clear, unmount_all, MountsInv
  <2>2. /\ over' = Reached(plan.theme, plan.launcher, Len(Binds(plan.theme, plan.launcher)))
        /\ Binds(plan.theme, plan.launcher)
             = Rest(plan.theme, plan.launcher, Len(Binds(plan.theme, plan.launcher)))
        /\ Len(Binds(plan.theme, plan.launcher)) \in Nat
    BY <2>1, NothingReached DEF Types
  <2>3. at' = "bind" /\ left' = Binds(plan.theme, plan.launcher) /\ plan' = plan
    BY <1>6 DEF Clear, Goto
  <2> QED
    BY <2>2, <2>3 DEF MountsInv
<1>7. CASE Unwind
  <2>1. over' = Stock
    BY <1>7, AllUnmounted DEF Unwind, unmount_all, MountsInv
  <2>2. AllRemovable'
    BY <2>1, StockPlaces, StockRemovable DEF AllRemovable
  <2> QED
    BY <1>7, <2>1, <2>2 DEF Unwind, unmount_all, Goto, MountsInv, Rested
<1>8. CASE Bind
  BY <1>8, BindKeeps
<1>9. CASE BindFails
  <2>1. PICK n \in 0 .. Len(Binds(plan.theme, plan.launcher)) :
          over = Reached(plan.theme, plan.launcher, n)
    BY <1>9 DEF BindFails, MountsInv
  <2>2. n \in Nat
    BY NothingReached DEF Types
  <2>3. AllRemovable
    BY <2>1, <2>2, ReachedRemovable DEF Types, AllRemovable, Reached
  <2> QED
    BY <1>9, <2>3 DEF BindFails, Goto, MountsInv, AllRemovable
<1>10. CASE Bound
  <2>1. PICK n \in 0 .. Len(Binds(plan.theme, plan.launcher)) :
          /\ left = Rest(plan.theme, plan.launcher, n)
          /\ over = Reached(plan.theme, plan.launcher, n)
    BY <1>10 DEF Bound, MountsInv
  <2>2. n = 0
    BY <1>10, <2>1, RestStep, NothingReached DEF Bound, Types
  <2> QED
    BY <1>10, <2>1, <2>2 DEF Bound, Goto, MountsInv, Rested
<1>11. CASE StartPlayer
  BY <1>11 DEF StartPlayer, scriptVars, MountsInv, Rested
<1>12. CASE RunByHand
  <2>1. AllRemovable
    BY <1>12, RestedRemovable DEF RunByHand, MountsInv
  <2> QED
    BY <1>12, <2>1 DEF RunByHand, Goto, MountsInv, Rested, AllRemovable
<1>13. CASE ConfChanges
  BY <1>13 DEF ConfChanges, scriptVars, MountsInv, Rested, AllRemovable
<1>14. CASE PowerLoss
  BY <1>14 DEF PowerLoss, Goto, MountsInv, Rested
<1> QED
  BY <1>1, <1>2, <1>3, <1>4, <1>5, <1>6, <1>7, <1>8, <1>9, <1>10, <1>11, <1>12, <1>13, <1>14
  DEF Next, ScriptStep

\* What is mounted follows the transaction, whatever files, failures, reloads
\* and power losses came before it (S90r1-cfw, apply_plan and unmount_all).
THEOREM AlwaysInv == Spec => []Inv
<1>1. Inv /\ [Next]_vars => Inv'
  BY TypesNext, PlanNext, MountsNext DEF Inv
<1> QED
  BY <1>1, InvInit, PTL DEF Spec

\* A plan that was rejected, a bind that failed at any step and a stop leave
\* nothing mounted: the stock resources show, unless an umount was refused.
THEOREM StockIsExposed == Spec => []StockExposed
<1>1. Inv => StockExposed
  BY DEF Inv, MountsInv, StockExposed, AtRest, Rested
<1> QED
  BY <1>1, AlwaysInv, PTL

\* A transaction that ended well shows one theme per slot, icons, layout and
\* launcher, and on every launcher the mask that was read.
THEOREM AppliedIsWhole == Spec => []AppliedWhole
<1>1. Inv => AppliedWhole
  <2> SUFFICES ASSUME Inv, AtRest, ~refused, ended = "applied"
               PROVE  AppliedWhole
    BY DEF AppliedWhole
  <2> DEFINE theme == plan.theme
             m == plan.launcher
  <2>1. theme \in Themes /\ \A p \in Places : over[p] = ReachedAt(theme, m, 0, p)
    BY DEF Inv, Types, MountsInv, AtRest, Rested, Reached
  <2> HIDE DEF theme, m
  <2> DEFINE tree(p) == IF 0 < DirectoryDue(theme)[p] THEN NewTree[theme] ELSE StockTree[p]
  <2>2. \A p \in Layouts :
          Top(p) = Of(tree(p), <<ViewOf(theme, m, p)>>)
    <3> TAKE p \in Layouts
    <3>1. p \in Places /\ 0 < ViewDue[p]
      BY DEF Places, Layouts, ViewDue
    <3>2. over[p] = IF 0 < DirectoryDue(theme)[p]
                    THEN <<Of(NewTree[theme], <<ViewOf(theme, m, p)>>), Of(StockTree[p], <<>>)>>
                    ELSE <<Of(StockTree[p], <<ViewOf(theme, m, p)>>)>>
      BY <2>1, <3>1 DEF ReachedAt
    <3>3. CASE 0 < DirectoryDue(theme)[p]
      BY <3>2, <3>3 DEF Top
    <3>4. CASE ~(0 < DirectoryDue(theme)[p])
      BY <3>2, <3>4 DEF Top
    <3> QED
      BY <3>3, <3>4
  <2>3. \A p \in Assets : Top(p) = Of(tree(p), <<>>)
    <3> TAKE p \in Assets
    <3>1. p \in Places /\ ~(0 < ViewDue[p])
      BY DEF Places, Assets, ViewDue
    <3>2. over[p] = IF 0 < DirectoryDue(theme)[p]
                    THEN <<Of(NewTree[theme], <<>>), Of(StockTree[p], <<>>)>>
                    ELSE <<Of(StockTree[p], <<>>)>>
      BY <2>1, <3>1 DEF ReachedAt
    <3>3. CASE 0 < DirectoryDue(theme)[p]
      BY <3>2, <3>3 DEF Top
    <3>4. CASE ~(0 < DirectoryDue(theme)[p])
      BY <3>2, <3>4 DEF Top
    <3> QED
      BY <3>3, <3>4
  <2>4. /\ tree("layout1") = tree("assets1") /\ tree("layout2") = tree("assets2")
        /\ tree("layout1") = first_variant(theme) /\ tree("layout2") = second_variant(theme)
        /\ {first_variant(theme), second_variant(theme)} =
             [stock |-> {"theme1", "theme2"}, light |-> {"theme1"},
              dark |-> {"theme2"}, retro |-> {"retro"}][theme]
    <3> USE DEF DirectoryDue, NewTree, StockTree, Places, Layouts, Assets,
                first_variant, second_variant
    <3>1. CASE theme = "stock"
      BY <3>1
    <3>2. CASE theme = "light"
      BY <3>2
    <3>3. CASE theme = "dark"
      BY <3>3
    <3>4. CASE theme = "retro"
      BY <3>4
    <3> QED
      BY <2>1, <3>1, <3>2, <3>3, <3>4, ThemesAssumption
  <2> HIDE DEF tree
  <2>5. /\ Top("layout1").tree = first_variant(theme) /\ Top("assets1").tree = first_variant(theme)
        /\ Top("layout2").tree = second_variant(theme) /\ Top("assets2").tree = second_variant(theme)
    BY <2>2, <2>3, <2>4 DEF Layouts, Assets, Of
  <2>6. /\ Shows("layout1", first_variant(theme), m)
        /\ Shows("layout2", second_variant(theme), m)
        /\ Shows("midi", "midi-theme1", m)
    BY <2>2 DEF Layouts, Of, Shows, ViewOf
  <2> QED
    BY <2>4, <2>5, <2>6 DEF AppliedWhole, theme, m
<1> QED
  BY <1>1, AlwaysInv, PTL

\* What the C code accepts, the generated views exist for.
LEMMA GoodIsSafe ==
  ASSUME NEW mask \in Good["launcher"]
  PROVE  mask \in SAFE_MASKS
  BY DEF Good, valid_mask, SAFE_MASKS

\* At boot the selector takes what the sidecar UI saved: it plans the values
\* of the two files, and rejects them only for want of the retro resources.
THEOREM SavedTaken == Spec => SavedIsTaken
<1>1. Inv /\ [Next]_vars =>
        [ /\ at = "validate" /\ player = "down"
          /\ \A l \in Leaves : Accepted(l, conf[l])
          => /\ \A l \in Leaves : plan[l] = conf[l].value
             /\ at' = "unwind" => conf["theme"].value = "retro" /\ ~retro ]_vars
  <2> SUFFICES ASSUME Inv, Next, at = "validate", player = "down",
                      \A l \in Leaves : Accepted(l, conf[l])
               PROVE  /\ \A l \in Leaves : plan[l] = conf[l].value
                      /\ at' = "unwind" => conf["theme"].value = "retro" /\ ~retro
    BY DEF vars
  <2>1. \A l \in Leaves : plan[l] = conf[l].value /\ conf[l].value \in Good[l]
    BY DEF Inv, PlanInv, Leaves, Selected, Accepted
  <2>2. plan.launcher \in SAFE_MASKS /\ plan.theme = conf["theme"].value
    BY <2>1, GoodIsSafe DEF Leaves
  <2>3. ASSUME at' = "unwind" PROVE conf["theme"].value = "retro" /\ ~retro
    <3>1. Validate
      BY <2>3 DEF Next, ScriptStep, Start, StartFails, ReadMask, ReadTheme, Clear, Unwind, Bind,
                  BindFails, Bound, StartPlayer, RunByHand, ConfChanges, PowerLoss, Goto
    <3> QED
      BY <2>2, <2>3, <3>1 DEF Validate, Goto, validate_plan
  <2> QED
    BY <2>1, <2>3
<1> QED
  BY <1>1, AlwaysInv, PTL DEF Spec, SavedIsTaken

-------------------------------------------------------------------------------
(***************************************************************************)
(* What the views show, by the number of tiles of a mask.                  *)
(***************************************************************************)
\* Every number of tiles that a safe mask may have gives a layout without
\* overlap (_tile_geometry): no touch falls on two tiles.
THEOREM TilesNeverOverlap ==
  ASSUME NEW count \in 4..6, NEW i \in 1..count, NEW j \in 1..count, i # j,
         NEW x \in Int, NEW y \in Int
  PROVE  ~ (Layout!Inside(Layout!TileGeometry(count)[i], x, y) /\ Layout!Inside(Layout!TileGeometry(count)[j], x, y))
<1>1. CASE count = 4
  <2>1. i \in {1, 2, 3, 4} /\ j \in {1, 2, 3, 4}
    BY <1>1
  <2> QED
    BY <1>1, <2>1 DEF Layout!TileGeometry, Layout!Rectangle, Layout!Inside
<1>2. CASE count # 4
  <2> DEFINE column(k) == (k - 1) % 2
             row(k) == (k - 1) \div 2
  <2>1. \A k \in 1..count :
          /\ Layout!TileGeometry(count)[k].x = column(k) * 240
          /\ Layout!TileGeometry(count)[k].y = row(k) * 246
          /\ Layout!TileGeometry(count)[k].w = 240 /\ Layout!TileGeometry(count)[k].h = 246
    BY <1>2 DEF Layout!TileGeometry, Layout!Rectangle
  <2>2. /\ column(i) \in 0..1 /\ column(j) \in 0..1
        /\ row(i) \in Int /\ row(j) \in Int
        /\ i = 2 * row(i) + column(i) + 1
        /\ j = 2 * row(j) + column(j) + 1
    OBVIOUS
  <2> HIDE DEF column, row
  <2>3. column(i) # column(j) \/ row(i) # row(j)
    BY <2>2
  <2>4. SUFFICES ASSUME Layout!Inside(Layout!TileGeometry(count)[i], x, y),
                        Layout!Inside(Layout!TileGeometry(count)[j], x, y)
                 PROVE  FALSE
    OBVIOUS
  <2>5. /\ column(i) * 240 <= x /\ x < column(i) * 240 + 240
        /\ row(i) * 246 <= y /\ y < row(i) * 246 + 246
        /\ column(j) * 240 <= x /\ x < column(j) * 240 + 240
        /\ row(j) * 246 <= y /\ y < row(j) * 246 + 246
    BY <2>1, <2>4 DEF Layout!Inside
  <2> QED
    BY <2>2, <2>3, <2>5
<1> QED
  BY <1>1, <1>2

\* No tile lies beyond the visible part of the page: no layout needs the
\* scrolling that render_layout turns off.
THEOREM TilesInView ==
  ASSUME NEW count \in 4..6, NEW i \in 1..count
  PROVE  LET r == Layout!TileGeometry(count)[i]
         IN /\ 0 <= r.x /\ r.x + r.w <= 480
            /\ 0 <= r.y /\ r.y + r.h <= Layout!ContentHeight(count)
            /\ Layout!ContentHeight(count) <= Layout!ViewHeight
<1>1. CASE count = 4
  <2>1. i \in {1, 2, 3, 4}
    BY <1>1
  <2> QED
    BY <1>1, <2>1 DEF Layout!TileGeometry, Layout!Rectangle, Layout!ContentHeight, Layout!ViewHeight
<1>2. CASE count # 4
  <2>1. count \in {5, 6} /\ ((count + 1) \div 2) = 3
    BY <1>2
  <2>2. (i - 1) % 2 \in 0..1 /\ (i - 1) \div 2 \in 0..2
    OBVIOUS
  <2>3. Layout!TileGeometry(count)[i]
          = Layout!Rectangle(((i - 1) % 2) * 240, ((i - 1) \div 2) * 246, 240, 246)
    BY <1>2 DEF Layout!TileGeometry
  <2> QED
    BY <1>2, <2>1, <2>2, <2>3 DEF Layout!Rectangle, Layout!ContentHeight, Layout!ViewHeight
<1> QED
  BY <1>1, <1>2

================================================================================
