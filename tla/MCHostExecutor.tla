--------------------------- MODULE MCHostExecutor ---------------------------
(* Changesets for checking HostExecutor.                                   *)
EXTENDS HostExecutor, TLC

CONSTANTS p1, p2, a, b

Creates(p, new)      == [path |-> p, old |-> NoFile, new |-> new]
Updates(p, old, new) == [path |-> p, old |-> old, new |-> new]
Deletes(p, old)      == [path |-> p, old |-> old, new |-> NoFile]

\* Two changes that fit the same workspaces
TwoFiles == {<<Creates(p1, a), Updates(p2, a, b)>>}

\* One file is created; another one is updated and then deleted.
ThreeChanges == {<<Creates(p1, a), Updates(p2, a, b), Deletes(p2, AnyContent)>>}

ExecSymmetry == Permutations(Execs)

=============================================================================
