---------------------------- MODULE MCSequencer -----------------------------
(***************************************************************************)
(* Model values for checking Sequencer: one sender with two client ids,    *)
(* two rooms; a request, its retry, a conflicting reuse of its client id,  *)
(* two more requests of the same room, one without a room, one that does   *)
(* not parse.                                                              *)
(***************************************************************************)
EXTENDS Sequencer

Req(r, s, c, b, t) ==
    [room |-> r, sender |-> s, client |-> c, body |-> b, at |-> t,
     parses |-> TRUE]

MCSize == [b \in {"x", "y", "edge", "huge"} |->
              CASE b = "x" -> 1 [] b = "y" -> 2 [] b = "edge" -> 3 [] b = "huge" -> 9]

First    == Req("r1", "s1", "c1", "x", "t1")
Retry    == Req("r1", "s1", "c1", "x", "t2")
Reuse    == Req("r2", "s1", "c1", "x", "t1")
Second   == Req("r1", "s1", "c2", "y", "t1")
OtherMan == Req("r1", "s2", "c1", "y", "t2")
NoRoom   == Req("r0", "s1", "c1", "x", "t1")
Garbage  == [First EXCEPT !.parses = FALSE]

MCClock == {-1, 0, 1}

SafetyRequests == {First, Retry, Reuse, Second, OtherMan, NoRoom, Garbage}

=============================================================================
