----------------------------- MODULE Numbering ------------------------------
(***************************************************************************)
(* What the sequencer promises, without its loop: a request key is given   *)
(* a message once and for all, each room counts 1, 2, 3, ..., ids grow     *)
(* across all rooms, and only numbered messages enter the formal topic,    *)
(* possibly more than once.                                                *)
(***************************************************************************)
EXTENDS Integers, Sequences

CONSTANTS Rooms, Senders, Clients, Bodies, Times

VARIABLES numbered,  \* the messages that have been given their numbers
          log        \* the formal topic

Message == [room : Rooms, sender : Senders, client : Clients, body : Bodies,
            at : Times, id : Int, seq : Int]

Init == numbered = {} /\ log = << >>

(* A request not seen before gets the next number of its room and an id    *)
(* above every id given so far.                                            *)
Number ==
    /\ \E m \in numbered' :
           /\ m \in Message
           /\ numbered' = numbered \cup {m}
           /\ m.seq > 0 /\ m.id > 0
           /\ \A x \in numbered :
                 /\ <<x.sender, x.client>> # <<m.sender, m.client>>
                 /\ x.id < m.id
                 /\ x.room = m.room => x.seq < m.seq
           /\ \A n \in 1..(m.seq - 1) :
                 \E x \in numbered : x.room = m.room /\ x.seq = n
    /\ UNCHANGED log

(* Numbered messages are appended, repeated, or appended only in part.     *)
Publish ==
    /\ Len(log') >= Len(log)
    /\ \A k \in 1..Len(log) : log'[k] = log[k]
    /\ \A k \in (Len(log) + 1)..Len(log') : log'[k] \in numbered
    /\ UNCHANGED numbered

Next == Number \/ Publish

Spec == Init /\ [][Next]_<<numbered, log>>

=============================================================================
