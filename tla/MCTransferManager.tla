-------------------------- MODULE MCTransferManager --------------------------
(***************************************************************************)
(* Two uploads to the same destination, one download, one refresh.         *)
(***************************************************************************)
EXTENDS TransferManager, TLC

CONSTANTS u1, u2, p

MCDest == [i \in Uploads |-> p]

\* The two files of the batch are alike.
Symmetry == Permutations(Uploads)

\* ASK, whose dialog leads to every other policy.
Asking == policy \in {"fail", None}

\* The batch is accompanied by a download or by a refresh.
OneCompanion == "new" \in {th["fetch"].at, th["view"].at}

\* What may disturb a batch: a torn update, a failed call, a new host key, an
\* answer about one or a reset, somebody else's file at the destination.
Events ==
  torn + faults + (device.key - 1) + taps + Cardinality({q \in Paths : device.disk[q] = "foreign"})

\* Two of them beside a download, one beside a refresh.
FewEvents == Events <= IF At("view", "new") THEN 2 ELSE 1

===============================================================================
