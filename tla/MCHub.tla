------------------------------- MODULE MCHub --------------------------------
(***************************************************************************)
(* One user with two connections; one room, or two.                        *)
(***************************************************************************)
EXTENDS Hub

MCUserOf == [c \in Conns |-> "a"]

=============================================================================
