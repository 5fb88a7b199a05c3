------------------------------- MODULE FileStore -------------------------------
(***************************************************************************)
(* What r1-filectl (mods/r1-filectl) promises R1 Manager about the files   *)
(* on the card, without its mechanism: the music library and a bin, and    *)
(* commands that either happened or did not.  A file is at one place or in *)
(* the bin, it keeps its way back while it is in the bin, and nothing but  *)
(* a complete file is ever published.  FileCtl implements it.              *)
(***************************************************************************)
CONSTANTS Places,    \* where a file of the library may be
          Ids,       \* the identifiers of discarded files
          Complete,  \* whole files
          None       \* no file

VARIABLES lib,       \* the file at each place
          bin        \* the discarded file of each identifier, with its origin

vars == <<lib, bin>>

Init ==
  /\ lib \in [Places -> Complete \cup {None}]
  /\ bin = [i \in Ids |-> None]

\* upload-commit; it may replace what is there.
Publish(p, x) ==
  /\ lib' = [lib EXCEPT ![p] = x]
  /\ UNCHANGED bin

\* rename and move; a move may replace what is at q.
Relocate(p, q) ==
  /\ lib[p] # None
  /\ p # q
  /\ lib' = [lib EXCEPT ![q] = lib[p], ![p] = None]
  /\ UNCHANGED bin

\* delete.
Erase(p) ==
  /\ lib[p] # None
  /\ lib' = [lib EXCEPT ![p] = None]
  /\ UNCHANGED bin

\* trash.
Discard(p, i) ==
  /\ lib[p] # None
  /\ bin[i] = None
  /\ lib' = [lib EXCEPT ![p] = None]
  /\ bin' = [bin EXCEPT ![i] = [path |-> p, item |-> lib[p]]]

\* restore: back to where it was, and onto nothing.
Recover(i) ==
  /\ bin[i] # None
  /\ LET p == bin[i].path
     IN  /\ p \in Places
         /\ lib[p] = None
         /\ lib' = [lib EXCEPT ![p] = bin[i].item]
  /\ bin' = [bin EXCEPT ![i] = None]

\* purge and empty-trash: the way back may go first.
Forget(i) ==
  /\ bin[i] # None
  /\ bin' = [bin EXCEPT ![i] = [path |-> None, item |-> bin[i].item]]
  /\ UNCHANGED lib

Destroy(i) ==
  /\ bin[i] # None
  /\ bin' = [bin EXCEPT ![i] = None]
  /\ UNCHANGED lib

Next ==
  \/ \E p \in Places, x \in Complete : Publish(p, x)
  \/ \E p, q \in Places : Relocate(p, q)
  \/ \E p \in Places : Erase(p)
  \/ \E p \in Places, i \in Ids : Discard(p, i)
  \/ \E i \in Ids : Recover(i) \/ Forget(i) \/ Destroy(i)

Spec == Init /\ [][Next]_vars

================================================================================
