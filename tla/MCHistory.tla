----------------------------- MODULE MCHistory ------------------------------
(***************************************************************************)
(* One room with an old row and a few numbered messages, read by a client  *)
(* while they are archived, replayed and cached.                           *)
(***************************************************************************)
EXTENDS History

Rec(k, i, n) == [room |-> "r1", key |-> k, body |-> "x", id |-> i, seq |-> n,
                 valid |-> TRUE]

MCLegacy == {Rec("k0", 9, 0)}

MCLogs == {<<Rec("k1", 1, 1), Rec("k2", 2, 2), Rec("k3", 3, 3)>>,
           <<Rec("k1", 1, 1), Rec("k2", 2, 2), Rec("k1", 1, 1)>>}

=============================================================================
