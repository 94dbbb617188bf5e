----------------------------- MODULE MCProducer -----------------------------
(***************************************************************************)
(* Two connections: one sends three small messages, the other a message    *)
(* that ReadPump skips, one too large, and one that fills a batch.         *)
(***************************************************************************)
EXTENDS Producer

M(n) == [size |-> n, formed |-> TRUE]

MCScript == [c \in {"a", "b"} |->
                IF c = "a" THEN <<M(1), M(2), M(1)>>
                ELSE <<[M(1) EXCEPT !.formed = FALSE], M(4), M(2)>>]

=============================================================================
