----------------------------- MODULE MCArchiver -----------------------------
(***************************************************************************)
(* Topics for Archiver: three messages of two rooms with a repetition; the *)
(* records of a second numbering life, which reuse numbers, keys or ids;   *)
(* a record without numbers; an old row whose key comes back.              *)
(***************************************************************************)
EXTENDS Archiver

Rec(r, k, b, i, n) ==
    [room |-> r, key |-> k, body |-> b, id |-> i, seq |-> n, valid |-> TRUE]

M1 == Rec("r1", "k1", "x", 1, 1)
M2 == Rec("r1", "k2", "x", 2, 2)
M3 == Rec("r1", "k3", "x", 3, 3)
O1 == Rec("r2", "k4", "x", 4, 1)

SameNumber == Rec("r1", "k5", "x", 5, 1)
SameKey    == Rec("r1", "k1", "x", 6, 9)
SameId     == Rec("r2", "k6", "x", 2, 7)
OldKey     == Rec("r1", "k0", "x", 7, 4)
Bad        == [M3 EXCEPT !.valid = FALSE]

MCLegacy == {Rec("r1", "k0", "x", -1, 0)}

MCLogs == {<<M1, M2, M1, O1>>, <<M1, O1, M2, M3>>,
           <<M1, SameNumber, M2>>, <<M1, SameKey, M2>>, <<M2, O1, SameId, M3>>,
           <<SameKey, M1, M2>>, <<M1, OldKey, M2>>, <<M1, M2, Bad, O1>>}

=============================================================================
