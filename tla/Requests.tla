------------------------------ MODULE Requests -------------------------------
(***************************************************************************)
(* What the HTTP services have in common: goroutines that serve requests,  *)
(* each a sequence of statements to a database, Redis, the object store or *)
(* the gateway, interleaved with those of the others; and the log of the   *)
(* administrators' actions (services/admin/application/audit.go).          *)
(***************************************************************************)
EXTENDS Integers, Sequences, FiniteSets

CONSTANTS Workers,    \* goroutines that serve requests
          Loads,      \* what may be asked: operations, how many requests, and
                      \* the rooms there are for them
          MaxFaults   \* bound: failed calls, requests cut short, events lost

ASSUME RequestsAssumption ==
    /\ \A l \in Loads : l.max \in Nat
    /\ MaxFaults \in Nat

VARIABLES req,      \* what each worker is doing
          load,     \* the member of Loads this behaviour is about
          served,   \* requests begun
          faults,
          audit     \* table admin_audit_logs, in the order of its ids

serving == <<req, load, served, faults, audit>>

Idle == [op |-> "idle"]

RequestsInit ==
    /\ req = [w \in Workers |-> Idle]
    /\ load \in Loads
    /\ served = 0
    /\ faults = 0
    /\ audit = << >>

Asked(op) == op \in load.ops

(* What a step that neither fails nor is logged leaves alone.              *)
Quietly == UNCHANGED <<load, served, faults, audit>>

(* The bound on requests is the load's.                                    *)
Free(w) == req[w] = Idle /\ served < load.max

Arrives(w, q) ==
    /\ Free(w)
    /\ Asked(q.op)
    /\ req' = [req EXCEPT ![w] = q]
    /\ served' = served + 1
    /\ UNCHANGED <<load, faults, audit>>

Doing(w, ops, at) == req[w] # Idle /\ req[w].op \in ops /\ req[w].at = at

Return(w) == req' = [req EXCEPT ![w] = Idle]

Go(w, at) == req' = [req EXCEPT ![w].at = at]

(* External: a call fails, or its answer is lost.                          *)
Fault ==
    /\ faults < MaxFaults
    /\ faults' = faults + 1
    /\ UNCHANGED <<load, served, audit>>

(* AuditService.Log.                                                       *)
Log(entry) ==
    /\ audit' = Append(audit, entry)
    /\ UNCHANGED <<load, served, faults>>

Resting == \A w \in Workers : req[w] = Idle

-----------------------------------------------------------------------------
(* Lists, page by page *)

(* The handlers of all lists: no page before the first, and 20 rows for a  *)
(* size out of bounds.                                                     *)
PageNumber(page) == IF page < 1 THEN 1 ELSE page

PageSize(size) == IF size < 1 \/ size > 100 THEN 20 ELSE size

Offset(page, size) == (page - 1) * size

(* The rows of a page, where position says how many come before a row.     *)
OnPage(rows, page, size, position) ==
    LET from == Offset(PageNumber(page), PageSize(size))
    IN  {x \in rows : position[x] \in from..(from + PageSize(size) - 1)}

=============================================================================
