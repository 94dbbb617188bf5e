------------------------------ MODULE MCAgent ------------------------------
(***************************************************************************)
(* A message from the account of bot 2 that calls both bots, published     *)
(* twice, or followed by a message of a person.                            *)
(***************************************************************************)
EXTENDS Agent

Called == [id |-> 1, client |-> 1, sender |-> 2, calls |-> {1, 2}]

Plain == [id |-> 2, client |-> 1, sender |-> 0, calls |-> {}]

MCTopics == {<<Called, Called>>, <<Called, Plain>>}
=============================================================================
