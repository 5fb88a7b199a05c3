------------------------------- MODULE ConfStore -------------------------------
(***************************************************************************)
(* What the configuration directory promises to a reader, whoever writes   *)
(* it: a file changes only as a whole, only to a value the firmware can    *)
(* show, and a power loss brings back one of the texts it had since the    *)
(* directory was last flushed.                                             *)
(***************************************************************************)
EXTENDS ConfFile

VARIABLES conf,  \* the text of each file
          past   \* the texts a power loss may leave in it

\* Written by an earlier version or edited by hand, and long since on disk.
Init ==
  /\ conf \in [launcher : Contents("launcher"), theme : Contents("theme")]
  /\ past = [l \in Leaves |-> {conf[l]}]

Save(l, v) ==
  /\ v \in Good[l]
  /\ conf' = [conf EXCEPT ![l] = Exact(v)]
  /\ past' = [past EXCEPT ![l] = @ \cup {Exact(v)}]

\* fsync of the directory: what the files say now is what they keep.
Flush ==
  /\ past' = [l \in Leaves |-> {conf[l]}]
  /\ UNCHANGED conf

PowerLoss ==
  /\ conf' \in [launcher : past["launcher"], theme : past["theme"]]
  /\ past' = [l \in Leaves |-> {conf'[l]}]

Next ==
  \/ \E l \in Leaves : \E v \in Good[l] : Save(l, v)
  \/ Flush
  \/ PowerLoss

Spec == Init /\ [][Next]_<<conf, past>>

================================================================================
