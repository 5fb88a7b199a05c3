----------------------------- MODULE MCSshControl -----------------------------
(***************************************************************************)
(* SshControl with model values for the processes and addresses.  The      *)
(* addresses are interchangeable, and so are the monitors.                 *)
(***************************************************************************)
EXTENDS SshControl, TLC

Symmetry == Permutations(Addresses) \cup Permutations(Monitors)

\* Bound of the run ssh_switch: the recovery card is not explored, which changes no
\* marker.  The switch and Developer Mode decide what the monitor wants.
NoCard == ~card

================================================================================
