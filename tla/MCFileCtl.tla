------------------------------- MODULE MCFileCtl -------------------------------
(***************************************************************************)
(* FileCtl with model values.  The identifiers are interchangeable.        *)
(***************************************************************************)
EXTENDS FileCtl, FiniteSets, TLC

CONSTANTS n1, n2, d1

\* One name in two folders, and a second name in one of them, which is where
\* keep and rename can go.
MCPlaces == {<<Root, n1>>, <<d1, n1>>, <<Root, n2>>}

Symmetry == Permutations(Ids)

\* Two files or private directories at a time.
FewFiles ==
  Cardinality({p \in Places : lib[p] # None}) + Cardinality({i \in Ids : slot[i] # NoSlot}) <= 2

================================================================================
