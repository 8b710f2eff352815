------------------------- MODULE MCApplicationDraft -------------------------
(***************************************************************************)
(* Model values and symmetry for ApplicationDraft.                         *)
(***************************************************************************)
EXTENDS ApplicationDraft, TLC

\* The dossiers, and the event requests, differ by name only.
Symmetry == Permutations(Keys) \cup Permutations(Posts)
=============================================================================
