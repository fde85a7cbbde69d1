--------------------------- MODULE MCMemoryStore ---------------------------
(* Places for checking MemoryStore: the global place, a global one to which *)
(* the id of a project came along, and a session.                          *)
EXTENDS MemoryStore, TLC

CONSTANTS pr, se, name

Place(scope, project, session) ==
    [scope |-> scope, project_id |-> project, session_id |-> session]

ThreePlaces ==
    {Place("global", None, None), Place("global", pr, None), Place("session", None, se)}

\* All proposals are about the same key, so that they compete.
OneKey == [p \in Proposals |-> name]

Symmetry == Permutations(Proposals)

=============================================================================
