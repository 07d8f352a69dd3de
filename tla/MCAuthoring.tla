------------------------------ MODULE MCAuthoring ------------------------------
(* Authoring for TLC: managers, sections and tasks are interchangeable,    *)
(* but for the section a checklist starts with.                            *)
EXTENDS Authoring, TLC

Interchangeable == Permutations(Managers) \union Permutations(Tasks)

=============================================================================
