------------------------- MODULE MCSequencerProcess -------------------------
(***************************************************************************)
(* The two loops together: one room, two senders, a retry, and requests    *)
(* that stop the numbering loop.                                           *)
(***************************************************************************)
EXTENDS SequencerProcess

(* Numbered, x and y fill a batch of the relay; two copies of y do not fit *)
(* into one, nor does edge.                                                *)
MCSize == [b \in {"x", "y", "edge", "huge"} |->
              CASE b = "x" -> 1 [] b = "y" -> 2 [] b = "edge" -> 5 [] b = "huge" -> 9]

MCClock == {1}

MCRequests ==
    {[room |-> "r1", sender |-> "s1", client |-> "c1", body |-> "x",
      at |-> "t1", parses |-> TRUE],
     [room |-> "r1", sender |-> "s2", client |-> "c1", body |-> "y",
      at |-> "t1", parses |-> TRUE],
     [room |-> "r1", sender |-> "s1", client |-> "c1", body |-> "edge",
      at |-> "t1", parses |-> TRUE],
     [room |-> "r1", sender |-> "s1", client |-> "c1", body |-> "huge",
      at |-> "t1", parses |-> TRUE],
     [room |-> "r1", sender |-> "s1", client |-> "c1", body |-> "x",
      at |-> "t1", parses |-> FALSE]}

=============================================================================
