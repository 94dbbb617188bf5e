------------------------------- MODULE Login --------------------------------
(***************************************************************************)
(* Logging in and registering: LoginProtector (services/auth/security),    *)
(* LoginHandler and RegisterHandler (services/gateway/handlers), AdminLogin *)
(* (services/admin/api).                                                   *)
(*                                                                         *)
(* A login is counted against its address, then against its address and    *)
(* name; looks the user up; and has the password compared by a goroutine   *)
(* for which a slot must be free.  A request that runs out of time returns, *)
(* its goroutine goes on and keeps the slot until the comparison has       *)
(* ended.  LoginHandler and AdminLogin have a protector each; a behaviour  *)
(* is about one of them.                                                   *)
(*                                                                         *)
(* Allow reads the clock first and takes the protector's lock after that:  *)
(* two steps, and others may be let pass, with later readings, in between. *)
(***************************************************************************)
EXTENDS Requests

CONSTANTS Addrs, Names,
          IPLimit, IPWindow, PairLimit, PairWindow, BcryptConcurrent,
          MaxTime   \* bound: ticks of the clock

ASSUME LoginAssumption ==
    /\ {IPLimit, IPWindow, PairLimit, PairWindow, BcryptConcurrent} \subseteq Nat \ {0}
    /\ MaxTime \in Nat
    /\ \A l \in Loads : {"login", "admin_login"} \cap l.ops # {"login", "admin_login"}

VARIABLES now,
          ips, pairs,  \* the windows, by address and by address and name
          nextGC,
          slots,       \* slots of the protector that are taken
          hashing,     \* comparisons under way
          account,     \* table users: rows of a name
          tried,       \* observation: attempts in the order Allow counted them,
                       \* with the clock's reading and whether they passed
          told         \* observation: requests told that they registered

windows == <<ips, pairs, nextGC>>
loginVars == <<now, windows, slots, hashing, account, tried, told>>

LoginOps == {"login", "admin_login"}

NoWindow == [start |-> -1, count |-> 0]

LoginTypeOK ==
    /\ now \in 0..MaxTime
    /\ ips \in [Addrs -> [start : -1..MaxTime, count : Nat]]
    /\ pairs \in [Addrs \X Names -> [start : -1..MaxTime, count : Nat]]
    /\ slots \in Int /\ hashing \in Nat
    /\ account \in [Names -> SUBSET [by : Nat, role : 0..3]]

(* The names are free, or those of users, or those of administrators; free *)
(* where time goes by, which is for the windows.                           *)
LoginInit ==
    /\ now = 0
    /\ ips = [a \in Addrs |-> NoWindow]
    /\ pairs = [p \in Addrs \X Names |-> NoWindow]
    /\ nextGC = 0
    /\ slots = 0
    /\ hashing = 0
    /\ account \in {[n \in Names |-> {[by |-> 0, role |-> r] : r \in has}] :
                       has \in IF load.ops \cap LoginOps = {} \/ Asked("time")
                              THEN {{}} ELSE {{}, {0}, {1}}}
    /\ tried = << >>
    /\ told = {}

(* External: time goes by.                                                 *)
Tick ==
    /\ Asked("time")
    /\ now < MaxTime
    /\ now' = now + 1
    /\ Quietly
    /\ UNCHANGED <<req, windows, slots, hashing, account, tried, told>>

-----------------------------------------------------------------------------
(* LoginProtector.Allow *)

(* The clock is read without the lock.                                     *)
ReadClock(w) ==
    /\ Doing(w, LoginOps, "allow")
    /\ req' = [req EXCEPT ![w].read = now, ![w].at = "lock"]
    /\ Quietly
    /\ UNCHANGED loginVars

Over(s, t, window) == s.start # -1 /\ t - s.start >= window

(* Mutant: one window's length for both maps.                              *)
CleanByIPWindow(s, t, window) == IF Over(s, t, IPWindow) THEN NoWindow ELSE s

CleanUp(s, t, window) == IF Over(s, t, window) THEN NoWindow ELSE s

incrementWindow(s, t, window) ==
    IF s.start = -1 \/ t - s.start >= window THEN [start |-> t, count |-> 1]
                                             ELSE [s EXCEPT !.count = @ + 1]

Least(x, y) == IF x < y THEN x ELSE y

(* Under the lock, with the reading: every map is swept when nextGC has    *)
(* come, then the address is counted, and the pair if the address passed.  *)
Allow(w) ==
    /\ Doing(w, LoginOps, "lock")
    /\ LET a == req[w].addr
           p == <<a, req[w].name>>
           t == req[w].read
           gc == t >= nextGC
           ips1 == [x \in Addrs |-> IF gc THEN CleanUp(ips[x], t, IPWindow) ELSE ips[x]]
           pairs1 == [x \in DOMAIN pairs |-> IF gc THEN CleanUp(pairs[x], t, PairWindow) ELSE pairs[x]]
           ip == incrementWindow(ips1[a], t, IPWindow)
           pair == incrementWindow(pairs1[p], t, PairWindow)
           ipPasses == ip.count <= IPLimit
           passes == ipPasses /\ pair.count <= PairLimit
       IN  /\ nextGC' = IF gc THEN t + Least(IPWindow, PairWindow) ELSE nextGC
           /\ ips' = [ips1 EXCEPT ![a] = ip]
           /\ pairs' = IF ipPasses THEN [pairs1 EXCEPT ![p] = pair] ELSE pairs1
           /\ tried' = Append(tried, [pair |-> p, at |-> t, passes |-> passes])
           /\ IF passes THEN Go(w, "look") ELSE Return(w)
    /\ Quietly
    /\ UNCHANGED <<now, slots, hashing, account, told>>

-----------------------------------------------------------------------------
(* LoginHandler, AdminLogin *)

LoginHandler(a, n) ==
    [op |-> "login", addr |-> a, name |-> n, at |-> "allow", read |-> 0, role |-> 0]

AdminLogin(a, n) == [LoginHandler(a, n) EXCEPT !.op = "admin_login"]

BeginLogin(w, q) ==
    /\ Arrives(w, q)
    /\ UNCHANGED loginVars

(* The row is read once; what it says then is in the token.                *)
LookUp(w) ==
    /\ Doing(w, LoginOps, "look")
    /\ IF account[req[w].name] = {} THEN Return(w)
       ELSE \E u \in account[req[w].name] :
               req' = [req EXCEPT ![w].role = u.role, ![w].at = "compare"]
    /\ Quietly
    /\ UNCHANGED loginVars

(* Compare: a slot, or ErrBcryptBusy at once.                              *)
TakeSlot(w) ==
    /\ Doing(w, LoginOps, "compare")
    /\ IF slots < BcryptConcurrent
       THEN Go(w, "wait") /\ slots' = slots + 1 /\ hashing' = hashing + 1
       ELSE Return(w) /\ UNCHANGED <<slots, hashing>>
    /\ Quietly
    /\ UNCHANGED <<now, windows, account, tried, told>>

Waiting == {w \in Workers : Doing(w, LoginOps, "wait")}

(* The goroutine of a waiting request has its result, the password was     *)
(* right or wrong; the slot is given back after it.                        *)
Compared(w, right) ==
    /\ w \in Waiting
    /\ hashing' = hashing - 1
    /\ IF right THEN Go(w, "role") ELSE Return(w)
    /\ Quietly
    /\ UNCHANGED <<now, windows, slots, account, tried, told>>

(* One whose request has gone ends for nobody.                             *)
ComparedLate ==
    /\ hashing > Cardinality(Waiting)
    /\ hashing' = hashing - 1
    /\ Quietly
    /\ UNCHANGED <<req, now, windows, slots, account, tried, told>>

ReleaseSlot ==
    /\ slots > hashing
    /\ slots' = slots - 1
    /\ Quietly
    /\ UNCHANGED <<req, now, windows, hashing, account, tried, told>>

(* Mutant: a request that returns takes its slot with it.                  *)
SlotsAfterTimeout(w) == IF w \in Waiting THEN slots - 1 ELSE slots

SlotsAfter(w) == slots

(* ctx.Done: while it looks the user up, at the slot, or as it waits.      *)
TimesOut(w) ==
    /\ req[w] # Idle /\ req[w].op \in LoginOps /\ req[w].at \in {"look", "compare", "wait"}
    /\ Fault
    /\ slots' = SlotsAfter(w)
    /\ Return(w)
    /\ UNCHANGED <<now, windows, hashing, account, tried, told>>

IsAdminRole(role) == role \in 1..3

(* The role decides which of the two handlers issues a token.              *)
IssueToken(w) ==
    /\ Doing(w, LoginOps, "role")
    /\ (req[w].op = "admin_login") = IsAdminRole(req[w].role)
    /\ Return(w)
    /\ Quietly
    /\ UNCHANGED loginVars

OtherEntrance(w) ==
    /\ Doing(w, LoginOps, "role")
    /\ (req[w].op = "admin_login") # IsAdminRole(req[w].role)
    /\ Return(w)
    /\ Quietly
    /\ UNCHANGED loginVars

-----------------------------------------------------------------------------
(* RegisterHandler *)

RegisterHandler(n) == [op |-> "register", name |-> n, at |-> "exists", id |-> served + 1]

(* An error of the query is taken for a name that is free.                 *)
LookForName(w) ==
    /\ Doing(w, {"register"}, "exists")
    /\ \/ account[req[w].name] # {} /\ Return(w) /\ Quietly
       \/ account[req[w].name] = {} /\ Go(w, "create") /\ Quietly
       \/ Go(w, "create") /\ Fault
    /\ UNCHANGED loginVars

(* Mutant: no unique index, the look before is trusted.                    *)
NameIsFree(n) == TRUE

(* The unique index of users.                                              *)
UsernameIsFree(n) == account[n] = {}

CreateUser(w) ==
    /\ Doing(w, {"register"}, "create")
    /\ LET n == req[w].name
       IN  IF UsernameIsFree(n)
           THEN /\ account' = [account EXCEPT ![n] = @ \cup {[by |-> req[w].id, role |-> 0]}]
                /\ Go(w, "answer")
           ELSE Return(w) /\ UNCHANGED account
    /\ Quietly
    /\ UNCHANGED <<now, windows, slots, hashing, tried, told>>

Answer(w) ==
    /\ Doing(w, {"register"}, "answer")
    /\ told' = told \cup {<<req[w].name, req[w].id>>}
    /\ Return(w)
    /\ Quietly
    /\ UNCHANGED <<now, windows, slots, hashing, account, tried>>

(* The row may be there and the answer lost.                               *)
RegisterFails(w) ==
    /\ Doing(w, {"register"}, "create") \/ Doing(w, {"register"}, "answer")
    /\ Fault
    /\ Return(w)
    /\ UNCHANGED loginVars

LoginStep(w) ==
    \/ ReadClock(w) \/ Allow(w) \/ LookUp(w) \/ TakeSlot(w) \/ TimesOut(w) \/ IssueToken(w) \/ OtherEntrance(w)
    \/ LookForName(w) \/ CreateUser(w) \/ Answer(w) \/ RegisterFails(w)
    \/ \E right \in BOOLEAN : Compared(w, right)

LoginNext ==
    \/ \E w \in Workers :
          \/ LoginStep(w)
          \/ \E a \in Addrs, n \in Names :
                BeginLogin(w, LoginHandler(a, n)) \/ BeginLogin(w, AdminLogin(a, n))
          \/ \E n \in Names : BeginLogin(w, RegisterHandler(n))
    \/ Tick \/ ComparedLate \/ ReleaseSlot

-----------------------------------------------------------------------------
(* Properties *)

(* Attempts that were overtaken between the clock and the lock.            *)
Late == {i \in DOMAIN tried : \E j \in 1..(i - 1) : tried[j].at > tried[i].at}

Read(s, from, to) == {i \in s : tried[i].at \in from..to}

Passed(s) == {i \in s : tried[i].passes}

(* Two windows that meet in a stretch of one's length, the first without   *)
(* its first attempt; and one more for each attempt that came late.        *)
BoundedFrom(t, s, window, limit) ==
    Cardinality(Read(Passed(s), t, t + window - 1))
        <= 2 * limit - 1 + limit * Cardinality(Read(s \cap Late, t - window + 1, t + window - 1))

(* In any stretch of time as long as a window, wherever it begins, fewer   *)
(* attempts pass than two windows allow, of an address and of an address   *)
(* and a name, whenever the maps were swept in between; unless attempts    *)
(* were overtaken between Allow's reading of the clock and its lock: each  *)
(* such attempt may open, or have closed, one window more.                 *)
AttemptsBounded ==
    \A t \in 0..now :
        /\ \A a \in Addrs :
              BoundedFrom(t, {i \in DOMAIN tried : tried[i].pair[1] = a}, IPWindow, IPLimit)
        /\ \A p \in DOMAIN pairs :
              BoundedFrom(t, {i \in DOMAIN tried : tried[i].pair = p}, PairWindow, PairLimit)

(* Never more password comparisons run than there are slots, those whose   *)
(* request has timed out counted with the others.                          *)
HashesBounded == hashing <= BcryptConcurrent

(* However registrations of one name overlap and whatever the look before  *)
(* said, the name has one row, and who was told he registered is its owner. *)
OneRegistrationWins ==
    \A n \in Names :
        /\ Cardinality(account[n]) <= 1
        /\ \A id \in {x[2] : x \in {y \in told : y[1] = n}} : \E u \in account[n] : u.by = id

=============================================================================
