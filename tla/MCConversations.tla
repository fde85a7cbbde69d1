--------------------------- MODULE MCConversations ---------------------------
(* Conversations and ReadMarks share no variable, so that what holds of    *)
(* each alone holds of both: either moves while the other is still at rest.*)
EXTENDS Conversations, ReadMarks

CONSTANT t1

EitherInit == Init /\ ReadInit

EitherNext ==
    \/ ReadInit /\ Next /\ UNCHANGED readVars
    \/ Init /\ kinds = <<{}, {}>> /\ ReadNext /\ UNCHANGED vars

EitherSpec == EitherInit /\ [][EitherNext]_<<vars, readVars>>
=============================================================================
