--------------------------- MODULE DeliveryProofs ---------------------------
(***************************************************************************)
(* Proofs about a gateway's delivery to its connections, for every number  *)
(* of clients, shards and messages and every capacity of the queues.       *)
(***************************************************************************)
EXTENDS Delivery, TLAPS

-----------------------------------------------------------------------------
(* Sequences of numbers                                                    *)
Has(q, s) == \E k \in DOMAIN s : s[k] = q

Rising(s) == \A i, j \in DOMAIN s : i < j => s[i] < s[j]

Under(s, t) == \A i \in DOMAIN s, j \in DOMAIN t : s[i] < t[j]

Less(s, n) == \A i \in DOMAIN s : s[i] < n

(* Taking the first message off a queue keeps its order.                   *)
LEMMA TailNums ==
  ASSUME NEW s \in Seq(Msgs), s # << >>
  PROVE  /\ Tail(s) \in Seq(Msgs) /\ Head(s) \in Msgs /\ Len(Tail(s)) <= Len(s)
         /\ Rising(s) => Rising(Tail(s)) /\ Under(<<Head(s)>>, Tail(s))
         /\ \A t : Under(t, s) => Under(t, Tail(s)) /\ Less(t, Head(s))
         /\ \A t : Under(s, t) => Under(Tail(s), t) /\ Under(<<Head(s)>>, t)
         /\ \A n : Less(s, n) => Less(Tail(s), n) /\ Head(s) < n
         /\ \A q : Has(q, s) <=> q = Head(s) \/ Has(q, Tail(s))
<1>1. PICK t, h, n : t = Tail(s) /\ h = Head(s) /\ n = Len(s)
  OBVIOUS
<1>2. /\ t \in Seq(Msgs) /\ h \in Msgs /\ Len(t) <= Len(s) /\ n \in Nat /\ n > 0
      /\ DOMAIN s = 1..n /\ h = s[1] /\ DOMAIN t = 1..(n - 1)
      /\ \A i \in 1..(n - 1) : t[i] = s[i + 1]
  BY <1>1
<1>3. 1 \in DOMAIN s /\ h = s[1]
  BY <1>2
<1>4. \A i \in DOMAIN t : i + 1 \in DOMAIN s /\ t[i] = s[i + 1] /\ 1 < i + 1 /\ i \in Int
  BY <1>2
<1>5. DOMAIN <<h>> = {1} /\ <<h>>[1] = h
  OBVIOUS
<1>6. ASSUME Rising(s) PROVE Rising(t) /\ Under(<<h>>, t)
  <2>1. ASSUME NEW i \in DOMAIN t, NEW j \in DOMAIN t, i < j PROVE t[i] < t[j]
    <3>1. i + 1 < j + 1
      BY <1>4, <2>1
    <3> QED
      BY <1>4, <1>6, <2>1, <3>1 DEF Rising
  <2> QED
    BY <1>3, <1>4, <1>5, <1>6, <2>1 DEF Rising, Under
<1>7. ASSUME NEW u PROVE /\ Under(u, s) => Under(u, t) /\ Less(u, h)
                         /\ Under(s, u) => Under(t, u) /\ Under(<<h>>, u)
                         /\ Less(s, u) => Less(t, u) /\ h < u
  BY <1>3, <1>4, <1>5 DEF Under, Less
<1>8. ASSUME NEW q PROVE Has(q, s) <=> q = h \/ Has(q, t)
  <2>1. ASSUME NEW k \in DOMAIN s, s[k] = q PROVE q = h \/ Has(q, t)
    <3>1. CASE k # 1
      <4>1. k - 1 \in DOMAIN t /\ t[k - 1] = s[k]
        BY <1>2, <2>1, <3>1
      <4> QED
        BY <2>1, <4>1 DEF Has
    <3> QED
      BY <1>3, <2>1, <3>1
  <2> QED
    BY <1>3, <1>4, <2>1 DEF Has
<1> QED
  BY <1>1, <1>2, <1>6, <1>7, <1>8

(* Appending a newer message keeps it.                                     *)
LEMMA AppendNums ==
  ASSUME NEW s \in Seq(Msgs), NEW q \in Msgs
  PROVE  /\ Append(s, q) \in Seq(Msgs) /\ Len(Append(s, q)) = Len(s) + 1
         /\ Rising(s) /\ Less(s, q) => Rising(Append(s, q))
         /\ \A t : Under(t, s) /\ Less(t, q) => Under(t, Append(s, q))
         /\ \A t : Under(s, t) /\ Under(<<q>>, t) => Under(Append(s, q), t)
         /\ \A n : Less(s, n) /\ q < n => Less(Append(s, q), n)
         /\ \A p : Has(p, Append(s, q)) <=> Has(p, s) \/ p = q
<1>1. PICK t, n : t = Append(s, q) /\ n = Len(s)
  OBVIOUS
<1>2. /\ n \in Nat
      /\ t \in Seq(Msgs) /\ DOMAIN s = 1..n /\ DOMAIN t = 1..(n + 1) /\ Len(t) = n + 1
      /\ \A i \in 1..n : t[i] = s[i]
      /\ t[n + 1] = q
  BY <1>1
<1>3. DOMAIN <<q>> = {1} /\ <<q>>[1] = q
  OBVIOUS
<1>4. Rising(s) /\ Less(s, q) => Rising(t)
  BY <1>2 DEF Rising, Less
<1>5. ASSUME NEW u PROVE /\ Under(u, s) /\ Less(u, q) => Under(u, t)
                         /\ Under(s, u) /\ Under(<<q>>, u) => Under(t, u)
                         /\ Less(s, u) /\ q < u => Less(t, u)
  BY <1>2, <1>3 DEF Under, Less
<1>6. ASSUME NEW p PROVE Has(p, t) <=> Has(p, s) \/ p = q
  <2>1. Has(q, t)
    BY <1>2 DEF Has
  <2>2. Has(p, s) => Has(p, t)
    BY <1>2 DEF Has
  <2>3. Has(p, t) => Has(p, s) \/ p = q
    BY <1>2 DEF Has
  <2> QED
    BY <2>1, <2>2, <2>3
<1> QED
  BY <1>1, <1>2, <1>4, <1>5, <1>6

(* So does joining two queues, the older one in front.                     *)
LEMMA ConcatNums ==
  ASSUME NEW s \in Seq(Msgs), NEW p \in Seq(Msgs)
  PROVE  /\ s \o p \in Seq(Msgs)
         /\ Rising(s) /\ Rising(p) /\ Under(s, p) => Rising(s \o p)
         /\ \A t : Under(s, t) /\ Under(p, t) => Under(s \o p, t)
         /\ \A n : Less(s, n) /\ Less(p, n) => Less(s \o p, n)
         /\ \A q : Has(q, s \o p) <=> Has(q, s) \/ Has(q, p)
<1>1. PICK t, m, n : t = s \o p /\ m = Len(s) /\ n = Len(p)
  OBVIOUS
<1>2. /\ m \in Nat /\ n \in Nat /\ t \in Seq(Msgs)
      /\ DOMAIN s = 1..m /\ DOMAIN p = 1..n /\ DOMAIN t = 1..(m + n)
      /\ \A i \in 1..m : t[i] = s[i]
      /\ \A i \in (m + 1)..(m + n) : t[i] = p[i - m]
  BY <1>1
<1>3. \A i \in DOMAIN t : \/ i \in DOMAIN s /\ t[i] = s[i]
                          \/ i > m /\ i - m \in DOMAIN p /\ t[i] = p[i - m]
  BY <1>2
<1>4. /\ \A i \in DOMAIN s : i \in DOMAIN t /\ t[i] = s[i] /\ i <= m
      /\ \A k \in DOMAIN p : m + k \in DOMAIN t /\ t[m + k] = p[k]
  <2>1. ASSUME NEW k \in DOMAIN p PROVE m + k \in DOMAIN t /\ t[m + k] = p[k]
    <3>1. m + k \in (m + 1)..(m + n) /\ (m + k) - m = k
      BY <1>2, <2>1
    <3> QED
      BY <1>2, <3>1
  <2> QED
    BY <1>2, <2>1
<1>5. ASSUME Rising(s), Rising(p), Under(s, p) PROVE Rising(t)
  <2>1. ASSUME NEW i \in DOMAIN t, NEW j \in DOMAIN t, i < j PROVE t[i] < t[j]
    <3>1. i \in Int /\ j \in Int
      BY <1>2, <2>1
    <3>2. CASE i \in DOMAIN s /\ j \in DOMAIN s
      BY <1>4, <1>5, <2>1, <3>2 DEF Rising
    <3>3. CASE i \in DOMAIN s /\ j - m \in DOMAIN p /\ t[j] = p[j - m]
      BY <1>4, <1>5, <3>3 DEF Under
    <3>4. CASE i > m
      <4>1. i - m \in DOMAIN p /\ j - m \in DOMAIN p /\ t[i] = p[i - m] /\ t[j] = p[j - m]
        BY <1>2, <2>1, <3>1, <3>4
      <4>2. i - m < j - m
        BY <1>2, <2>1, <3>1
      <4> QED
        BY <1>5, <4>1, <4>2 DEF Rising
    <3> QED
      BY <1>3, <3>2, <3>3, <3>4
  <2> QED
    BY <2>1 DEF Rising
<1>6. ASSUME NEW u PROVE /\ Under(s, u) /\ Under(p, u) => Under(t, u)
                         /\ Less(s, u) /\ Less(p, u) => Less(t, u)
  <2>1. \A i \in DOMAIN t : \/ i \in DOMAIN s /\ t[i] = s[i]
                            \/ \E k \in DOMAIN p : t[i] = p[k]
    BY <1>3
  <2> QED
    BY <2>1 DEF Under, Less
<1>7. ASSUME NEW q PROVE Has(q, t) <=> Has(q, s) \/ Has(q, p)
  <2>1. Has(q, t) => Has(q, s) \/ Has(q, p)
    BY <1>3 DEF Has
  <2>2. Has(q, s) => Has(q, t)
    BY <1>4 DEF Has
  <2>3. Has(q, p) => Has(q, t)
    BY <1>4 DEF Has
  <2> QED
    BY <2>1, <2>2, <2>3
<1> QED
  BY <1>1, <1>2, <1>5, <1>6, <1>7

(* An empty queue is in order.                                             *)
LEMMA NoNums ==
  /\ << >> \in Seq(Msgs) /\ Rising(<< >>)
  /\ \A t : Under(<< >>, t) /\ Under(t, << >>)
  /\ \A n : Less(<< >>, n)
  /\ \A q : ~Has(q, << >>)
<1>1. DOMAIN << >> = {} /\ << >> \in Seq(Msgs)
  OBVIOUS
<1> QED
  BY <1>1 DEF Rising, Under, Less, Has

(* What a queue of clients holds after its head is taken or one is put in. *)
LEMMA QueueHas ==
  ASSUME NEW s \in Seq(Clients)
  PROVE  /\ s # << >> => /\ Tail(s) \in Seq(Clients) /\ Head(s) \in Clients
                         /\ Len(Tail(s)) <= Len(s)
                         /\ \A c : Has(c, s) => c = Head(s) \/ Has(c, Tail(s))
         /\ \A d \in Clients : /\ Append(s, d) \in Seq(Clients)
                               /\ Len(Append(s, d)) = Len(s) + 1
                               /\ \A c : Has(c, s) => Has(c, Append(s, d))
                               /\ Has(d, Append(s, d))
<1>1. ASSUME s # << >>
      PROVE  /\ Tail(s) \in Seq(Clients) /\ Head(s) \in Clients
             /\ Len(Tail(s)) <= Len(s)
             /\ \A c : Has(c, s) => c = Head(s) \/ Has(c, Tail(s))
  <2>1. PICK t, n : t = Tail(s) /\ n = Len(s)
    OBVIOUS
  <2>2. /\ t \in Seq(Clients) /\ Head(s) \in Clients /\ Len(t) <= Len(s) /\ n \in Nat
        /\ DOMAIN s = 1..n /\ Head(s) = s[1] /\ DOMAIN t = 1..(n - 1)
        /\ \A i \in 1..(n - 1) : t[i] = s[i + 1]
    BY <1>1, <2>1
  <2>3. ASSUME NEW k \in DOMAIN s, k # 1 PROVE Has(s[k], t)
    <3>1. k - 1 \in DOMAIN t /\ t[k - 1] = s[k]
      BY <2>2, <2>3
    <3> QED
      BY <3>1 DEF Has
  <2> QED
    BY <2>1, <2>2, <2>3 DEF Has
<1>2. ASSUME NEW d \in Clients
      PROVE  /\ Append(s, d) \in Seq(Clients)
             /\ Len(Append(s, d)) = Len(s) + 1
             /\ \A c : Has(c, s) => Has(c, Append(s, d))
             /\ Has(d, Append(s, d))
  <2>1. PICK t, n : t = Append(s, d) /\ n = Len(s)
    OBVIOUS
  <2>2. /\ n \in Nat /\ t \in Seq(Clients) /\ Len(t) = n + 1
        /\ DOMAIN s = 1..n /\ DOMAIN t = 1..(n + 1)
        /\ \A i \in 1..n : t[i] = s[i]
        /\ t[n + 1] = d
    BY <2>1
  <2>3. (\A c : Has(c, s) => Has(c, t)) /\ Has(d, t)
    BY <2>2 DEF Has
  <2> QED
    BY <2>1, <2>2, <2>3
<1> QED
  BY <1>1, <1>2

-----------------------------------------------------------------------------
(* The inductive invariant *)

(* The sequence s of client c is older than what is still to come to it:   *)
(* n have arrived from Redis, f is the forward queue, d the dispatch in    *)
(* hand.                                                                   *)
Older(c, s, n, f, d) ==
    /\ Less(s, n + 1) /\ Under(s, f)
    /\ \A t \in d : t[2] = c => Less(s, t[1])

(* What is written, collected and queued for a client is in order.         *)
InOrder(w, b, s) ==
    /\ Rising(w) /\ Rising(b) /\ Rising(s)
    /\ Under(w, b) /\ Under(w, s) /\ Under(b, s)

StreamInv(c) ==
    /\ InOrder(wire[c], batch[c], send[c])
    /\ Older(c, wire[c], arrived, forward, todo)
    /\ Older(c, batch[c], arrived, forward, todo)
    /\ Older(c, send[c], arrived, forward, todo)

(* The dispatch d in hand is of one message, older than the queue f.       *)
QueueInv(n, f, d) ==
    /\ Rising(f) /\ Less(f, n + 1)
    /\ \A t \in d : t[1] < n + 1 /\ Under(<<t[1]>>, f)
    /\ \A t, u \in d : t[1] = u[1]

Given(q, c) == Has(q, wire[c]) \/ Has(q, batch[c]) \/ Has(q, send[c])

(* Message q is on its way to client c, or was dropped on it.              *)
Held(q, c) ==
    Has(q, forward) \/ <<q, c>> \in todo \/ q \in lost \/ <<q, c>> \in dropped

Asked(c) == Has(c, killClient[ShardOf[c]])

Explained(c) ==
    \A q \in 1..arrived : Given(q, c) \/ Held(q, c) \/ Asked(c)

IInv ==
    /\ TypeOK
    /\ QueueInv(arrived, forward, todo)
    /\ \A c \in Clients : StreamInv(c)
    /\ \A c \in subscribed \cap writing : Explained(c)

(* What a step may do that keeps a client's gaps explained.                *)
LEMMA ExplainedKept ==
  ASSUME NEW c \in Clients, Explained(c), arrived' = arrived,
         \A q : Given(q, c) => Given(q, c)',
         \A q : Held(q, c) => Held(q, c)' \/ Given(q, c)' \/ Asked(c)',
         Asked(c) => Asked(c)'
  PROVE  Explained(c)'
<1>1. ASSUME NEW q \in 1..arrived'
      PROVE  Given(q, c)' \/ Held(q, c)' \/ Asked(c)'
  <2>1. Given(q, c) \/ Held(q, c) \/ Asked(c)
    BY <1>1 DEF Explained
  <2> QED
    BY <2>1
<1> QED
  BY <1>1 DEF Explained

-----------------------------------------------------------------------------
(* How the queues change *)

(* What is newer than a client's messages stays so when one arrives.       *)
LEMMA ArrivalOlder ==
  ASSUME NEW s \in Seq(Msgs), NEW f \in Seq(Msgs), NEW n \in Nat, n + 1 \in Msgs,
         NEW c, NEW d, Older(c, s, n, f, d)
  PROVE  /\ Older(c, s, n + 1, f, d)
         /\ Older(c, s, n + 1, Append(f, n + 1), d)
<1>1. \A i \in DOMAIN s : s[i] \in Int
  <2>1. \A i \in DOMAIN s : s[i] \in Msgs
    OBVIOUS
  <2> QED
    BY <2>1 DEF Msgs
<1>2. Less(s, (n + 1) + 1)
  BY <1>1 DEF Older, Less
<1>3. Under(s, Append(f, n + 1))
  BY AppendNums DEF Older
<1> QED
  BY <1>2, <1>3 DEF Older

(* A message that arrives is newer than all in the forward queue.          *)
LEMMA ArrivalQueue ==
  ASSUME NEW f \in Seq(Msgs), NEW n \in Nat, n + 1 \in Msgs, NEW d \in SUBSET (Msgs \X Clients),
         QueueInv(n, f, d)
  PROVE  /\ QueueInv(n + 1, f, d)
         /\ QueueInv(n + 1, Append(f, n + 1), d)
<1>1. \A i \in DOMAIN f : f[i] \in Int
  <2>1. \A i \in DOMAIN f : f[i] \in Msgs
    OBVIOUS
  <2> QED
    BY <2>1 DEF Msgs
<1>2. Less(f, (n + 1) + 1)
  BY <1>1 DEF QueueInv, Less
<1>3. PICK q : q = n + 1
  OBVIOUS
<1>5. /\ Rising(f) /\ Less(f, q) => Rising(Append(f, q))
      /\ \A r : Less(f, r) /\ q < r => Less(Append(f, q), r)
      /\ \A t : Under(t, f) /\ Less(t, q) => Under(t, Append(f, q))
  <2>1. q \in Msgs
    BY <1>3
  <2> QED
    BY <2>1, AppendNums
<1>6. q < (n + 1) + 1 /\ Less(f, q) /\ Rising(f)
  BY <1>3 DEF QueueInv
<1>7. Rising(Append(f, q)) /\ Less(Append(f, q), (n + 1) + 1)
  BY <1>2, <1>5, <1>6
<1>4. ASSUME NEW t \in d
      PROVE  /\ t[1] < (n + 1) + 1
             /\ Under(<<t[1]>>, Append(f, n + 1))
  <2>1. t[1] \in Int /\ t[1] < n + 1 /\ Under(<<t[1]>>, f)
    BY <1>4 DEF QueueInv, Msgs
  <2>2. Less(<<t[1]>>, n + 1)
    BY <2>1 DEF Less
  <2> QED
    BY <2>1, <2>2, <1>3, <1>5
<1> QED
  BY <1>2, <1>3, <1>4, <1>6, <1>7 DEF QueueInv

(* A message taken from the queue is newer than all its clients have.      *)
LEMMA TakeOlder ==
  ASSUME NEW s \in Seq(Msgs), NEW f \in Seq(Msgs), f # << >>, NEW n, NEW c,
         NEW e, Older(c, s, n, f, {})
  PROVE  Older(c, s, n, Tail(f), {Head(f)} \X e)
  BY TailNums DEF Older

(* And older than all that stay in the queue.                              *)
LEMMA TakeQueue ==
  ASSUME NEW f \in Seq(Msgs), f # << >>, NEW n, NEW e, QueueInv(n, f, {})
  PROVE  QueueInv(n, Tail(f), {Head(f)} \X e)
<1>1. \A t \in {Head(f)} \X e : t[1] = Head(f)
  OBVIOUS
<1>2. /\ Rising(Tail(f)) /\ Less(Tail(f), n + 1) /\ Head(f) < n + 1
      /\ Under(<<Head(f)>>, Tail(f))
  BY TailNums DEF QueueInv
<1> QED
  BY <1>1, <1>2 DEF QueueInv

(* Once sent, it is the client's newest, and owed to it no more.           *)
LEMMA SentOlder ==
  ASSUME NEW s \in Seq(Msgs), NEW n \in Nat, NEW f, NEW d \in SUBSET (Msgs \X Clients),
         NEW m \in Msgs, NEW c \in Clients, <<m, c>> \in d, QueueInv(n, f, d),
         Older(c, s, n, f, d)
  PROVE  Older(c, Append(s, m), n, f, d \ {<<m, c>>})
<1>1. m < n + 1 /\ Under(<<m>>, f)
  BY DEF QueueInv
<1>2. Less(Append(s, m), n + 1) /\ Under(Append(s, m), f)
  BY <1>1, AppendNums DEF Older
<1>3. ASSUME NEW t \in d \ {<<m, c>>}, t[2] = c PROVE FALSE
  <2>1. t[1] = m /\ t = <<t[1], t[2]>>
    BY DEF QueueInv
  <2> QED
    BY <1>3, <2>1
<1> QED
  BY <1>2, <1>3 DEF Older

(* Sending it keeps a client's wire, batch and queue in order.             *)
LEMMA SentInOrder ==
  ASSUME NEW w \in Seq(Msgs), NEW b \in Seq(Msgs), NEW s \in Seq(Msgs), NEW m \in Msgs,
         InOrder(w, b, s), Less(w, m), Less(b, m), Less(s, m)
  PROVE  InOrder(w, b, Append(s, m))
  BY AppendNums DEF InOrder

(* So does moving the head of the queue into the batch.                    *)
LEMMA ReceivedInOrder ==
  ASSUME NEW w \in Seq(Msgs), NEW b \in Seq(Msgs), NEW s \in Seq(Msgs), s # << >>,
         InOrder(w, b, s)
  PROVE  InOrder(w, Append(b, Head(s)), Tail(s))
<1>1. /\ Rising(Tail(s)) /\ Under(<<Head(s)>>, Tail(s))
      /\ Under(w, Tail(s)) /\ Less(w, Head(s))
      /\ Under(b, Tail(s)) /\ Less(b, Head(s))
      /\ Head(s) \in Msgs
  BY TailNums DEF InOrder
<1> QED
  BY <1>1, AppendNums DEF InOrder

(* The moved message stays older than all that are still to come.          *)
LEMMA ReceivedOlder ==
  ASSUME NEW b \in Seq(Msgs), NEW s \in Seq(Msgs), s # << >>,
         NEW c, NEW n, NEW f, NEW d, Older(c, b, n, f, d), Older(c, s, n, f, d)
  PROVE  Older(c, Append(b, Head(s)), n, f, d) /\ Older(c, Tail(s), n, f, d)
<1>1. /\ Head(s) \in Msgs
      /\ Less(Tail(s), n + 1) /\ Head(s) < n + 1
      /\ Under(Tail(s), f) /\ Under(<<Head(s)>>, f)
      /\ \A t \in d : t[2] = c => Less(Tail(s), t[1]) /\ Head(s) < t[1]
  BY TailNums DEF Older
<1> QED
  BY <1>1, AppendNums DEF Older

(* Writing the batch, or losing it, keeps the order too.                   *)
LEMMA WrittenInOrder ==
  ASSUME NEW w \in Seq(Msgs), NEW b \in Seq(Msgs), NEW s \in Seq(Msgs), InOrder(w, b, s)
  PROVE  /\ InOrder(w \o b, << >>, s)
         /\ InOrder(w, << >>, s)
  BY ConcatNums, NoNums DEF InOrder

(* What was written stays older than all that are still to come.           *)
LEMMA WrittenOlder ==
  ASSUME NEW w \in Seq(Msgs), NEW b \in Seq(Msgs),
         NEW c, NEW n, NEW f, NEW d, Older(c, w, n, f, d), Older(c, b, n, f, d)
  PROVE  Older(c, w \o b, n, f, d) /\ Older(c, << >>, n, f, d)
  BY ConcatNums, NoNums DEF Older

-----------------------------------------------------------------------------
(* Each action keeps the invariant *)

(* The types the steps below need.                                         *)
LEMMA Kinds ==
  ASSUME TypeOK
  PROVE  /\ arrived \in Nat /\ arrived \in 0..MaxMessages
         /\ forward \in Seq(Msgs) /\ taken \in Seq(Msgs)
         /\ todo \in SUBSET (Msgs \X Clients)
         /\ \A c \in Clients : /\ wire[c] \in Seq(Msgs) /\ batch[c] \in Seq(Msgs)
                               /\ send[c] \in Seq(Msgs) /\ ShardOf[c] \in Shards
         /\ \A s \in Shards : killClient[s] \in Seq(Clients)
  BY DeliveryAssumption DEF TypeOK

(* hub.go: a message arrives from Redis, or finds the queue full.          *)
LEMMA PublishKeeps == ASSUME IInv, Publish PROVE IInv'
<1>1. /\ arrived \in Nat /\ arrived + 1 \in Msgs /\ arrived + 1 \in 0..MaxMessages
      /\ forward \in Seq(Msgs) /\ todo \in SUBSET (Msgs \X Clients)
  <2>1. arrived \in Nat /\ forward \in Seq(Msgs) /\ todo \in SUBSET (Msgs \X Clients)
    BY Kinds, Zenon DEF IInv
  <2>2. arrived < MaxMessages /\ MaxMessages \in Nat
    BY DeliveryAssumption DEF Publish
  <2> QED
    BY <2>1, <2>2 DEF Msgs
<1>2. /\ arrived' = arrived + 1
      /\ \/ forward' = forward /\ lost' = lost \cup {arrived + 1}
         \/ /\ forward' = Append(forward, arrived + 1) /\ Len(forward) < ForwardCap
            /\ lost' = lost
      /\ UNCHANGED <<taken, todo, killClient, killing, dropped, subscribed, closing,
                     sendClosed, send, batch, wire, writing, open>>
  BY DEF Publish, killVars, connVars, pumpVars
<1>3. TypeOK'
  <2>1. forward' \in Seq(Msgs) /\ Len(forward') <= ForwardCap
    <3>1. Append(forward, arrived + 1) \in Seq(Msgs)
          /\ Len(Append(forward, arrived + 1)) = Len(forward) + 1
      BY <1>1, AppendNums
    <3>2. Len(forward) <= ForwardCap /\ Len(forward) \in Nat /\ ForwardCap \in Nat
      BY <1>1, DeliveryAssumption DEF IInv, TypeOK
    <3>3. CASE forward' = forward
      BY <1>1, <3>2, <3>3
    <3>4. CASE forward' = Append(forward, arrived + 1) /\ Len(forward) < ForwardCap
      BY <3>1, <3>2, <3>4
    <3> QED
      BY <1>2, <3>3, <3>4
  <2>2. lost' \subseteq Msgs
    BY <1>1, <1>2 DEF IInv, TypeOK
  <2> QED
    BY <1>1, <1>2, <2>1, <2>2 DEF IInv, TypeOK
<1>4. QueueInv(arrived, forward, todo)'
  BY <1>1, <1>2, ArrivalQueue DEF IInv
<1>5. ASSUME NEW c \in Clients PROVE StreamInv(c)'
  <2>1. StreamInv(c) /\ wire[c] \in Seq(Msgs) /\ batch[c] \in Seq(Msgs) /\ send[c] \in Seq(Msgs)
    BY Kinds DEF IInv
  <2>2. /\ Older(c, wire[c], arrived', forward', todo)
        /\ Older(c, batch[c], arrived', forward', todo)
        /\ Older(c, send[c], arrived', forward', todo)
    BY <1>1, <1>2, <2>1, ArrivalOlder DEF StreamInv
  <2> QED
    BY <1>2, <2>1, <2>2 DEF StreamInv
<1>6. ASSUME NEW c \in (subscribed \cap writing)' PROVE Explained(c)'
  <2>1. Explained(c) /\ arrived \in Nat
    BY <1>1, <1>2, <1>6 DEF IInv
  <2>2. ASSUME NEW q, Held(q, c) \/ q = arrived + 1 PROVE Held(q, c)'
    <3>1. Has(q, Append(forward, arrived + 1)) <=> Has(q, forward) \/ q = arrived + 1
      BY <1>1, AppendNums
    <3>2. Has(q, forward) \/ q = arrived + 1 => Has(q, forward') \/ q \in lost'
      BY <1>2, <3>1
    <3> QED
      BY <1>2, <2>2, <3>2 DEF Held
  <2>3. (\A q : Given(q, c)' = Given(q, c)) /\ Asked(c)' = Asked(c)
    BY <1>2 DEF Given, Asked
  <2>4. ASSUME NEW q \in 1..arrived' PROVE Given(q, c)' \/ Held(q, c)' \/ Asked(c)'
    <3>1. q \in 1..arrived \/ q = arrived + 1
      BY <1>2, <2>1, <2>4
    <3> QED
      BY <2>1, <2>2, <2>3, <3>1 DEF Explained
  <2> QED
    BY <2>4 DEF Explained
<1> QED
  BY <1>3, <1>4, <1>5, <1>6 DEF IInv

(* hub.go: the loop takes a message for the clients of its room.           *)
LEMMA TakeForwardKeeps == ASSUME IInv, TakeForward PROVE IInv'
<1>1. /\ todo = {} /\ forward # << >>
      /\ forward' = Tail(forward)
      /\ taken' = Append(taken, Head(forward))
      /\ todo' = {Head(forward)} \X subscribed
      /\ UNCHANGED <<arrived, lost, killClient, killing, dropped, subscribed, closing,
                     sendClosed, send, batch, wire, writing, open>>
  BY DEF TakeForward, LoopFree, killVars, connVars, pumpVars
<1>2. /\ forward \in Seq(Msgs) /\ taken \in Seq(Msgs) /\ Head(forward) \in Msgs
      /\ Tail(forward) \in Seq(Msgs) /\ Len(Tail(forward)) <= Len(forward)
      /\ Append(taken, Head(forward)) \in Seq(Msgs)
  BY <1>1, Kinds, TailNums, AppendNums DEF IInv
<1>3. TypeOK'
  <2>1. Len(Tail(forward)) <= ForwardCap
    BY <1>2, DeliveryAssumption DEF IInv, TypeOK
  <2>2. {Head(forward)} \X subscribed \subseteq Msgs \X Clients
    BY <1>2 DEF IInv, TypeOK
  <2> QED
    BY <1>1, <1>2, <2>1, <2>2 DEF IInv, TypeOK
<1>4. QueueInv(arrived, forward, todo)'
  BY <1>1, <1>2, TakeQueue DEF IInv
<1>5. ASSUME NEW c \in Clients PROVE StreamInv(c)'
  <2>1. StreamInv(c) /\ wire[c] \in Seq(Msgs) /\ batch[c] \in Seq(Msgs) /\ send[c] \in Seq(Msgs)
    BY Kinds DEF IInv
  <2>2. /\ Older(c, wire[c], arrived, forward', todo')
        /\ Older(c, batch[c], arrived, forward', todo')
        /\ Older(c, send[c], arrived, forward', todo')
    BY <1>1, <1>2, <2>1, TakeOlder DEF StreamInv
  <2> QED
    BY <1>1, <2>1, <2>2 DEF StreamInv
<1>6. ASSUME NEW c \in (subscribed \cap writing)' PROVE Explained(c)'
  <2>1. Explained(c) /\ c \in subscribed /\ c \in Clients
    BY <1>1, <1>6 DEF IInv, TypeOK
  <2>2. (\A q : Given(q, c) => Given(q, c)') /\ (Asked(c) => Asked(c)')
    BY <1>1 DEF Given, Asked
  <2>3. ASSUME NEW q, Held(q, c) PROVE Held(q, c)'
    <3>1. Has(q, forward) => q = Head(forward) \/ Has(q, Tail(forward))
      BY <1>1, <1>2, TailNums
    <3>2. q = Head(forward) => <<q, c>> \in todo'
      BY <1>1, <2>1
    <3> QED
      BY <1>1, <2>3, <3>1, <3>2 DEF Held
  <2> QED
    BY <1>1, <2>1, <2>2, <2>3, ExplainedKept
<1> QED
  BY <1>3, <1>4, <1>5, <1>6 DEF IInv


(* hub.go: the message is put into a client's queue, or the client is to   *)
(* be evicted.                                                             *)
LEMMA TrySendKeeps ==
  ASSUME IInv, NEW m \in Msgs, NEW c \in Clients, TrySend(m, c)
  PROVE  IInv'
<1>1. /\ <<m, c>> \in todo
      /\ todo' = todo \ {<<m, c>>}
      /\ \/ /\ CanSend(c)
            /\ send' = [send EXCEPT ![c] = Append(@, m)]
            /\ UNCHANGED <<killClient, dropped>>
         \/ /\ ~CanSend(c)
            /\ RequestEvict(m, c)
            /\ UNCHANGED send
      /\ UNCHANGED <<arrived, lost, forward, taken, killing, subscribed, closing,
                     sendClosed, batch, wire, writing, open>>
  BY DEF TrySend, connVars, pumpVars
<1>2. /\ arrived \in Nat /\ todo \in SUBSET (Msgs \X Clients)
      /\ QueueInv(arrived, forward, todo) /\ StreamInv(c)
      /\ \A d \in Clients : wire[d] \in Seq(Msgs) /\ batch[d] \in Seq(Msgs)
                            /\ send[d] \in Seq(Msgs)
      /\ killClient[ShardOf[c]] \in Seq(Clients) /\ ShardOf[c] \in Shards
      /\ killClient \in [Shards -> Seq(Clients)] /\ send \in [Clients -> Seq(Msgs)]
  BY Kinds DEF IInv, TypeOK
<1>3. QueueInv(arrived, forward, todo)'
  BY <1>1, <1>2 DEF QueueInv
<1>4. \A d, s : Older(d, s, arrived, forward, todo) =>
                     Older(d, s, arrived, forward, todo \ {<<m, c>>})
  BY DEF Older
<1>5. CASE CanSend(c) /\ send' = [send EXCEPT ![c] = Append(@, m)]
           /\ UNCHANGED <<killClient, dropped>>
  <2>1. /\ send'[c] = Append(send[c], m)
        /\ \A d \in Clients \ {c} : send'[d] = send[d]
    BY <1>2, <1>5
  <2>2. Append(send[c], m) \in Seq(Msgs) /\ Len(Append(send[c], m)) = Len(send[c]) + 1
    BY <1>2, AppendNums
  <2>6. \A q : Has(q, Append(send[c], m)) <=> Has(q, send[c]) \/ q = m
    BY <1>2, AppendNums
  <2>3. TypeOK'
    <3>1. send' \in [Clients -> Seq(Msgs)]
      BY <1>2, <1>5, <2>2
    <3>2. ASSUME NEW d \in Clients PROVE Len(send'[d]) <= SendCap
      <4>1. CASE d = c
        <5>1. Len(send[c]) \in Nat /\ SendCap \in Nat /\ Len(send[c]) < SendCap
          BY <1>2, <1>5, DeliveryAssumption DEF CanSend
        <5> QED
          BY <2>1, <2>2, <4>1, <5>1
      <4> QED
        BY <2>1, <4>1 DEF IInv, TypeOK
    <3> QED
      BY <1>1, <1>5, <3>1, <3>2 DEF IInv, TypeOK
  <2>4. ASSUME NEW d \in Clients PROVE StreamInv(d)'
    <3>1. StreamInv(d)
      BY DEF IInv
    <3>2. CASE d = c
      <4>1. Less(wire[c], m) /\ Less(batch[c], m) /\ Less(send[c], m)
        <5>1. <<m, c>>[1] = m /\ <<m, c>>[2] = c
          OBVIOUS
        <5> QED
          BY <1>1, <1>2, <5>1 DEF StreamInv, Older
      <4>2. InOrder(wire[c], batch[c], Append(send[c], m))
        BY <1>2, <4>1, SentInOrder DEF StreamInv
      <4>3. Older(c, Append(send[c], m), arrived, forward, todo \ {<<m, c>>})
        BY <1>1, <1>2, SentOlder DEF StreamInv
      <4> QED
        BY <1>1, <1>4, <2>1, <3>1, <3>2, <4>2, <4>3 DEF StreamInv
    <3>3. CASE d # c
      BY <1>1, <1>4, <2>1, <3>1, <3>3 DEF StreamInv
    <3> QED
      BY <3>2, <3>3
  <2>5. ASSUME NEW d \in (subscribed \cap writing)' PROVE Explained(d)'
    <3>1. Explained(d) /\ d \in Clients
      BY <1>1, <2>5 DEF IInv, TypeOK
    <3>2. ASSUME NEW q PROVE Given(q, d) => Given(q, d)'
      <4>1. Has(q, send[d]) => Has(q, send'[d])
        <5>1. Has(q, send[c]) => Has(q, send'[c])
          BY <2>1, <2>6
        <5> QED
          BY <2>1, <3>1, <5>1
      <4> QED
        BY <1>1, <4>1 DEF Given
    <3>3. ASSUME NEW q, Held(q, d) PROVE Held(q, d)' \/ Given(q, d)'
      <4>1. CASE q = m /\ d = c
        <5>1. Has(m, send'[c])
          BY <1>2, <2>1, AppendNums
        <5> QED
          BY <4>1, <5>1 DEF Given
      <4>2. CASE ~(q = m /\ d = c)
        <5>1. <<q, d>> \in todo => <<q, d>> \in todo'
          BY <1>1, <4>2
        <5> QED
          BY <1>1, <1>5, <3>3, <5>1 DEF Held
      <4> QED
        BY <4>1, <4>2
    <3>4. Asked(d) => Asked(d)'
      BY <1>5 DEF Asked
    <3> QED
      BY <1>1, <3>1, <3>2, <3>3, <3>4, ExplainedKept
  <2> QED
    BY <1>3, <2>3, <2>4, <2>5 DEF IInv
<1>6. CASE RequestEvict(m, c) /\ UNCHANGED send
  <2>1. \/ /\ killClient' = [killClient EXCEPT ![ShardOf[c]] = Append(@, c)]
           /\ Len(killClient[ShardOf[c]]) < KillCap
           /\ UNCHANGED dropped
        \/ dropped' = dropped \cup {<<m, c>>} /\ UNCHANGED killClient
    BY <1>6 DEF RequestEvict
  <2>2. /\ Append(killClient[ShardOf[c]], c) \in Seq(Clients)
        /\ Len(Append(killClient[ShardOf[c]], c)) = Len(killClient[ShardOf[c]]) + 1
        /\ \A d : Has(d, killClient[ShardOf[c]]) => Has(d, Append(killClient[ShardOf[c]], c))
        /\ Has(c, Append(killClient[ShardOf[c]], c))
    BY <1>2, QueueHas
  <2>3. /\ \A d \in Clients : Asked(d) => Asked(d)'
        /\ dropped \subseteq dropped'
        /\ Asked(c)' \/ <<m, c>> \in dropped'
    <3>1. CASE killClient' = [killClient EXCEPT ![ShardOf[c]] = Append(@, c)]
               /\ UNCHANGED dropped
      <4>1. killClient'[ShardOf[c]] = Append(killClient[ShardOf[c]], c)
            /\ \A s \in Shards \ {ShardOf[c]} : killClient'[s] = killClient[s]
        BY <1>2, <3>1
      <4>2. \A d \in Clients : ShardOf[d] \in Shards
        BY DeliveryAssumption
      <4> QED
        BY <2>2, <3>1, <4>1, <4>2 DEF Asked
    <3>2. CASE dropped' = dropped \cup {<<m, c>>} /\ UNCHANGED killClient
      BY <3>2 DEF Asked
    <3> QED
      BY <2>1, <3>1, <3>2
  <2>4. TypeOK'
    <3>1. CASE killClient' = [killClient EXCEPT ![ShardOf[c]] = Append(@, c)]
               /\ Len(killClient[ShardOf[c]]) < KillCap /\ UNCHANGED dropped
      <4>1. killClient' \in [Shards -> Seq(Clients)]
        BY <1>2, <2>2, <3>1
      <4>2. ASSUME NEW s \in Shards PROVE Len(killClient'[s]) <= KillCap
        <5>1. CASE s = ShardOf[c]
          <6>1. Len(killClient[s]) \in Nat /\ KillCap \in Nat
            BY <1>2, <5>1, DeliveryAssumption
          <6>2. killClient'[s] = Append(killClient[s], c)
            BY <1>2, <3>1, <5>1
          <6> QED
            BY <2>2, <3>1, <5>1, <6>1, <6>2
        <5>2. CASE s # ShardOf[c]
          BY <1>2, <3>1, <5>2 DEF IInv, TypeOK
        <5> QED
          BY <5>1, <5>2
      <4> QED
        BY <1>1, <1>6, <3>1, <4>1, <4>2 DEF IInv, TypeOK
    <3>2. CASE dropped' = dropped \cup {<<m, c>>} /\ UNCHANGED killClient
      BY <1>1, <1>6, <3>2 DEF IInv, TypeOK
    <3> QED
      BY <2>1, <3>1, <3>2
  <2>5. ASSUME NEW d \in Clients PROVE StreamInv(d)'
    BY <1>1, <1>4, <1>6 DEF IInv, StreamInv
  <2>6. ASSUME NEW d \in (subscribed \cap writing)' PROVE Explained(d)'
    <3>1. Explained(d) /\ d \in Clients
      BY <1>1, <2>6 DEF IInv, TypeOK
    <3>2. \A q : Given(q, d) => Given(q, d)'
      BY <1>1, <1>6 DEF Given
    <3>3. ASSUME NEW q, Held(q, d) PROVE Held(q, d)' \/ Asked(d)'
      <4>1. CASE q = m /\ d = c
        BY <2>3, <4>1 DEF Held
      <4>2. CASE ~(q = m /\ d = c)
        <5>1. <<q, d>> \in todo => <<q, d>> \in todo'
          BY <1>1, <4>2
        <5> QED
          BY <1>1, <2>3, <3>3, <5>1 DEF Held
      <4> QED
        BY <4>1, <4>2
    <3> QED
      BY <1>1, <2>3, <3>1, <3>2, <3>3, ExplainedKept
  <2> QED
    BY <1>3, <2>4, <2>5, <2>6 DEF IInv
<1> QED
  BY <1>1, <1>5, <1>6


(* A step that leaves the messages alone, unsubscribes clients and takes   *)
(* nobody still subscribed out of the queues of evictions.                 *)
LEMMA OthersKeep ==
  ASSUME IInv, TypeOK',
         UNCHANGED <<arrived, lost, forward, taken, todo, send, batch, wire, dropped>>,
         subscribed' \subseteq subscribed, writing' \subseteq writing,
         \A c \in subscribed' : Has(c, killClient[ShardOf[c]]) =>
                                    Has(c, killClient'[ShardOf[c]])
  PROVE  IInv'
<1>1. QueueInv(arrived, forward, todo)'
  BY DEF IInv
<1>2. ASSUME NEW c \in Clients PROVE StreamInv(c)'
  BY DEF IInv, StreamInv
<1>3. ASSUME NEW c \in (subscribed \cap writing)' PROVE Explained(c)'
  <2>1. Explained(c) /\ c \in Clients
    BY <1>3 DEF IInv, TypeOK
  <2>2. \A q : Given(q, c) => Given(q, c)'
    BY DEF Given
  <2>3. Asked(c) => Asked(c)'
    BY <1>3 DEF Asked
  <2>4. \A q : Held(q, c) => Held(q, c)'
    BY DEF Held
  <2> QED
    BY <2>1, <2>2, <2>3, <2>4, ExplainedKept
<1> QED
  BY <1>1, <1>2, <1>3 DEF IInv

(* hub.go: the loop of the client's shard evicts it.                       *)
LEMMA KillKeeps == ASSUME IInv, NEW s \in Shards, Kill(s) PROVE IInv'
<1>1. /\ killClient[s] # << >> /\ killClient[s] \in Seq(Clients)
      /\ Tail(killClient[s]) \in Seq(Clients) /\ Head(killClient[s]) \in Clients
      /\ Len(Tail(killClient[s])) <= Len(killClient[s])
      /\ \A d : Has(d, killClient[s]) => d = Head(killClient[s]) \/ Has(d, Tail(killClient[s]))
  BY Kinds, QueueHas DEF IInv, Kill
<1>2. /\ killClient' = [killClient EXCEPT ![s] = Tail(@)]
      /\ \/ /\ subscribed' = subscribed \ {Head(killClient[s])}
            /\ closing' = closing \cup {Head(killClient[s])}
            /\ killing' = [killing EXCEPT ![s] = Head(killClient[s])]
         \/ /\ Head(killClient[s]) \notin subscribed
            /\ UNCHANGED <<subscribed, closing, killing>>
      /\ UNCHANGED <<arrived, lost, forward, taken, todo, sendClosed, send, batch, wire, writing,
                     open, dropped>>
  BY DEF Kill, Unregister, connVars, queueVars, pumpVars
<1>3. killClient \in [Shards -> Seq(Clients)]
  BY DEF IInv, TypeOK
<1>4. /\ killClient'[s] = Tail(killClient[s])
      /\ \A r \in Shards \ {s} : killClient'[r] = killClient[r]
      /\ killClient' \in [Shards -> Seq(Clients)]
  BY <1>1, <1>2, <1>3
<1>5. ASSUME NEW r \in Shards PROVE Len(killClient'[r]) <= KillCap
  <2>1. CASE r = s
    <3>1. /\ Len(killClient[s]) \in Nat /\ Len(Tail(killClient[s])) \in Nat /\ KillCap \in Nat
          /\ Len(killClient[s]) <= KillCap
      <4>1. Len(killClient[s]) <= KillCap
        BY DEF IInv, TypeOK
      <4>2. KillCap \in Nat
        BY DeliveryAssumption
      <4> QED
        BY <1>1, <4>1, <4>2
    <3> QED
      BY <1>1, <1>4, <2>1, <3>1
  <2>2. CASE r # s
    BY <1>4, <2>2 DEF IInv, TypeOK
  <2> QED
    BY <2>1, <2>2
<1>6. TypeOK'
  <2>1. /\ killing' \in [Shards -> Clients \cup {None}]
        /\ closing' \subseteq Clients /\ subscribed' \subseteq Clients
    BY <1>1, <1>2 DEF IInv, TypeOK
  <2>2. {subscribed', closing', sendClosed', writing', open'} \subseteq SUBSET Clients
    BY <1>2, <2>1 DEF IInv, TypeOK
  <2>3. \A r \in Shards : Len(killClient'[r]) <= KillCap
    BY <1>5
  <2>4. /\ arrived' \in 0..MaxMessages /\ lost' \subseteq Msgs
        /\ forward' \in Seq(Msgs) /\ Len(forward') <= ForwardCap
        /\ taken' \in Seq(Msgs) /\ todo' \subseteq Msgs \X Clients
        /\ dropped' \subseteq Msgs \X Clients
    BY <1>2 DEF IInv, TypeOK
  <2>5. /\ send' \in [Clients -> Seq(Msgs)] /\ batch' \in [Clients -> Seq(Msgs)]
        /\ wire' \in [Clients -> Seq(Msgs)]
        /\ \A c \in Clients : Len(send'[c]) <= SendCap
    BY <1>2 DEF IInv, TypeOK
  <2> QED
    BY <1>4, <2>1, <2>2, <2>3, <2>4, <2>5, Zenon DEF TypeOK
<1>7. subscribed' \subseteq subscribed /\ Head(killClient[s]) \notin subscribed'
  BY <1>2
<1>8. ASSUME NEW c \in subscribed', Has(c, killClient[ShardOf[c]])
      PROVE  Has(c, killClient'[ShardOf[c]])
  <2>1. ShardOf[c] \in Shards
    BY <1>6, <1>8, DeliveryAssumption DEF TypeOK
  <2>2. CASE ShardOf[c] = s
    BY <1>1, <1>4, <1>7, <1>8, <2>2
  <2>3. CASE ShardOf[c] # s
    BY <1>4, <1>8, <2>1, <2>3
  <2> QED
    BY <2>2, <2>3
<1> QED
  BY <1>2, <1>6, <1>7, <1>8, OthersKeep

(* client.go: connection and pumps come to their ends.                     *)
LEMMA EndingKeeps ==
  ASSUME IInv, NEW c \in Clients,
         CloseSend(c) \/ Disconnect(c) \/ ReadPumpEnds(c) \/ Goodbye(c)
  PROVE  IInv'
<1>1. /\ UNCHANGED <<arrived, lost, forward, taken, todo, send, batch, wire, dropped, killClient,
                     killing>>
      /\ subscribed' \subseteq subscribed /\ writing' \subseteq writing
      /\ open' \subseteq open
      /\ closing' \subseteq closing \cup {c} /\ sendClosed' \subseteq sendClosed \cup {c}
  BY DEF CloseSend, Disconnect, ReadPumpEnds, Goodbye, Unregister, WritePumpEnds,
         queueVars, killVars, connVars, pumpVars
<1>2. TypeOK'
  BY <1>1 DEF IInv, TypeOK
<1> QED
  BY <1>1, <1>2, OthersKeep

(* client.go: WritePump takes a message into its batch.                    *)
LEMMA ReceiveKeeps == ASSUME IInv, NEW c \in Clients, Receive(c) PROVE IInv'
<1>1. /\ send[c] # << >>
      /\ send' = [send EXCEPT ![c] = Tail(@)]
      /\ batch' = [batch EXCEPT ![c] = Append(@, Head(send[c]))]
      /\ UNCHANGED <<arrived, lost, forward, taken, todo, killClient, killing, dropped, subscribed,
                     closing, sendClosed, wire, writing, open>>
  BY DEF Receive, queueVars, killVars, connVars
<1>2. /\ StreamInv(c)
      /\ wire[c] \in Seq(Msgs) /\ batch[c] \in Seq(Msgs) /\ send[c] \in Seq(Msgs)
      /\ batch \in [Clients -> Seq(Msgs)] /\ send \in [Clients -> Seq(Msgs)]
  BY Kinds DEF IInv, TypeOK
<1>3. /\ Tail(send[c]) \in Seq(Msgs) /\ Head(send[c]) \in Msgs
      /\ Len(Tail(send[c])) <= Len(send[c])
      /\ Append(batch[c], Head(send[c])) \in Seq(Msgs)
      /\ \A q : Has(q, send[c]) => q = Head(send[c]) \/ Has(q, Tail(send[c]))
      /\ \A q : Has(q, Append(batch[c], Head(send[c]))) <=> Has(q, batch[c]) \/ q = Head(send[c])
  <2>1. /\ Tail(send[c]) \in Seq(Msgs) /\ Head(send[c]) \in Msgs
        /\ Len(Tail(send[c])) <= Len(send[c])
        /\ \A q : Has(q, send[c]) => q = Head(send[c]) \/ Has(q, Tail(send[c]))
    BY <1>1, <1>2, TailNums
  <2> QED
    BY <1>2, <2>1, AppendNums
<1>4. /\ send'[c] = Tail(send[c]) /\ batch'[c] = Append(batch[c], Head(send[c]))
      /\ \A d \in Clients \ {c} : send'[d] = send[d] /\ batch'[d] = batch[d]
      /\ send' \in [Clients -> Seq(Msgs)] /\ batch' \in [Clients -> Seq(Msgs)]
  BY <1>1, <1>2, <1>3
<1>5. TypeOK'
  <2>1. ASSUME NEW d \in Clients PROVE Len(send'[d]) <= SendCap
    <3>1. CASE d = c
      <4>1. /\ Len(send[c]) \in Nat /\ Len(Tail(send[c])) \in Nat /\ SendCap \in Nat
            /\ Len(send[c]) <= SendCap
        <5>1. SendCap \in Nat
          BY DeliveryAssumption
        <5>2. Len(send[c]) <= SendCap
          BY Zenon DEF IInv, TypeOK
        <5> QED
          BY <1>2, <1>3, <5>1, <5>2
      <4> QED
        BY <1>3, <1>4, <3>1, <4>1
    <3>2. CASE d # c
      BY <1>4, <3>2 DEF IInv, TypeOK
    <3> QED
      BY <3>1, <3>2
  <2> QED
    BY <1>1, <1>4, <2>1 DEF IInv, TypeOK
<1>6. QueueInv(arrived, forward, todo)'
  BY <1>1 DEF IInv
<1>7. ASSUME NEW d \in Clients PROVE StreamInv(d)'
  <2>1. CASE d = c
    <3>1. InOrder(wire[c], batch'[c], send'[c])
      BY <1>1, <1>2, <1>4, ReceivedInOrder DEF StreamInv
    <3>2. /\ Older(c, batch'[c], arrived, forward, todo)
          /\ Older(c, send'[c], arrived, forward, todo)
      BY <1>1, <1>2, <1>4, ReceivedOlder DEF StreamInv
    <3> QED
      BY <1>1, <1>2, <2>1, <3>1, <3>2 DEF StreamInv
  <2>2. CASE d # c
    BY <1>1, <1>4, <2>2 DEF IInv, StreamInv
  <2> QED
    BY <2>1, <2>2
<1>8. ASSUME NEW d \in (subscribed \cap writing)' PROVE Explained(d)'
  <2>1. Explained(d) /\ d \in Clients
    BY <1>1, <1>8 DEF IInv, TypeOK
  <2>2. ASSUME NEW q PROVE Given(q, d) => Given(q, d)'
    <3>1. CASE d = c
      BY <1>1, <1>3, <1>4, <3>1 DEF Given
    <3>2. CASE d # c
      BY <1>1, <1>4, <2>1, <3>2 DEF Given
    <3> QED
      BY <3>1, <3>2
  <2>3. (Asked(d) => Asked(d)') /\ (\A q : Held(q, d) => Held(q, d)')
    BY <1>1 DEF Asked, Held
  <2> QED
    BY <1>1, <2>1, <2>2, <2>3, ExplainedKept
<1> QED
  BY <1>5, <1>6, <1>7, <1>8 DEF IInv

(* client.go: WritePump writes the batch, or fails to.                     *)
LEMMA WrittenKeeps ==
  ASSUME IInv, NEW c \in Clients, Flush(c) \/ WriteFails(c)
  PROVE  IInv'
<1>1. /\ batch' = [batch EXCEPT ![c] = << >>]
      /\ \/ wire' = [wire EXCEPT ![c] = @ \o batch[c]] /\ UNCHANGED <<writing, open>>
         \/ /\ wire' = wire \/ wire' = [wire EXCEPT ![c] = @ \o batch[c]]
            /\ writing' = writing \ {c} /\ open' = open \ {c}
      /\ UNCHANGED <<arrived, lost, forward, taken, todo, killClient, killing, dropped, subscribed,
                     closing, sendClosed, send>>
  BY DEF Flush, WriteFails, WritePumpEnds, queueVars, killVars, connVars
<1>2. /\ StreamInv(c)
      /\ wire[c] \in Seq(Msgs) /\ batch[c] \in Seq(Msgs) /\ send[c] \in Seq(Msgs)
      /\ batch \in [Clients -> Seq(Msgs)] /\ wire \in [Clients -> Seq(Msgs)]
  BY Kinds DEF IInv, TypeOK
<1>3. /\ wire[c] \o batch[c] \in Seq(Msgs) /\ << >> \in Seq(Msgs)
      /\ \A q : Has(q, wire[c] \o batch[c]) <=> Has(q, wire[c]) \/ Has(q, batch[c])
  BY <1>2, ConcatNums, NoNums
<1>4. /\ wire'[c] = wire[c] \/ wire'[c] = wire[c] \o batch[c]
      /\ c \in writing' => wire'[c] = wire[c] \o batch[c]
      /\ batch'[c] = << >>
      /\ \A d \in Clients \ {c} : wire'[d] = wire[d] /\ batch'[d] = batch[d]
      /\ wire' \in [Clients -> Seq(Msgs)] /\ batch' \in [Clients -> Seq(Msgs)]
  BY <1>1, <1>2, <1>3
<1>5. TypeOK'
  BY <1>1, <1>4 DEF IInv, TypeOK
<1>6. QueueInv(arrived, forward, todo)'
  BY <1>1 DEF IInv
<1>7. ASSUME NEW d \in Clients PROVE StreamInv(d)'
  <2>1. CASE d = c
    <3>1. InOrder(wire'[c], batch'[c], send[c])
      BY <1>2, <1>4, WrittenInOrder DEF StreamInv
    <3>2. /\ Older(c, wire'[c], arrived, forward, todo)
          /\ Older(c, batch'[c], arrived, forward, todo)
      <4>1. /\ Older(c, wire[c] \o batch[c], arrived, forward, todo)
            /\ Older(c, << >>, arrived, forward, todo)
            /\ Older(c, wire[c], arrived, forward, todo)
        BY <1>2, WrittenOlder DEF StreamInv
      <4> QED
        BY <1>4, <4>1
    <3> QED
      BY <1>1, <1>2, <2>1, <3>1, <3>2 DEF StreamInv
  <2>2. CASE d # c
    BY <1>1, <1>4, <2>2 DEF IInv, StreamInv
  <2> QED
    BY <2>1, <2>2
<1>8. ASSUME NEW d \in (subscribed \cap writing)' PROVE Explained(d)'
  <2>1. Explained(d) /\ d \in Clients /\ d \in writing'
    BY <1>1, <1>8 DEF IInv, TypeOK
  <2>2. ASSUME NEW q PROVE Given(q, d) => Given(q, d)'
    <3>1. CASE d = c
      BY <1>1, <1>3, <1>4, <2>1, <3>1 DEF Given
    <3>2. CASE d # c
      BY <1>1, <1>4, <2>1, <3>2 DEF Given
    <3> QED
      BY <3>1, <3>2
  <2>3. (Asked(d) => Asked(d)') /\ (\A q : Held(q, d) => Held(q, d)')
    BY <1>1 DEF Asked, Held
  <2> QED
    BY <1>1, <2>1, <2>2, <2>3, ExplainedKept
<1> QED
  BY <1>5, <1>6, <1>7, <1>8 DEF IInv

-----------------------------------------------------------------------------
(* The invariant holds and says what is wanted *)

(* Empty queues satisfy the invariant.                                     *)
LEMMA InitInv == Init => IInv
<1> SUFFICES ASSUME Init PROVE IInv
  OBVIOUS
<1>1. \A c \in Clients : send[c] = << >> /\ batch[c] = << >> /\ wire[c] = << >>
  BY DEF Init
<1>2. TypeOK
  <2>1. << >> \in Seq(Msgs) /\ << >> \in Seq(Clients) /\ Len(<< >>) = 0
    OBVIOUS
  <2>2. /\ \A s \in Shards : Len(killClient[s]) <= KillCap
        /\ \A c \in Clients : Len(send[c]) <= SendCap
        /\ Len(forward) <= ForwardCap
    BY <2>1, DeliveryAssumption DEF Init
  <2> QED
    BY <2>1, <2>2, DeliveryAssumption DEF Init, TypeOK
<1>3. QueueInv(arrived, forward, todo)
  BY NoNums DEF Init, QueueInv
<1>4. ASSUME NEW c \in Clients PROVE StreamInv(c)
  BY <1>1, NoNums DEF Init, StreamInv, InOrder, Older
<1>5. ASSUME NEW c \in subscribed \cap writing PROVE Explained(c)
  <2>1. 1..arrived = {}
    BY DEF Init
  <2> QED
    BY <2>1 DEF Explained
<1> QED
  BY <1>2, <1>3, <1>4, <1>5 DEF IInv

(* Every step keeps it.                                                    *)
LEMMA NextKeeps == IInv /\ [Next]_vars => IInv'
<1> SUFFICES ASSUME IInv, [Next]_vars PROVE IInv'
  OBVIOUS
<1>1. CASE Publish
  BY <1>1, PublishKeeps
<1>2. CASE LoopStep
  BY <1>2, TakeForwardKeeps, TrySendKeeps DEF LoopStep
<1>3. CASE \E s \in Shards : Kill(s)
  BY <1>3, KillKeeps
<1>4. ASSUME NEW c \in Clients,
             CloseSend(c) \/ Disconnect(c) \/ ReadPumpEnds(c) \/ PumpStep(c)
      PROVE  IInv'
  BY <1>4, EndingKeeps, ReceiveKeeps, WrittenKeeps DEF PumpStep
<1>5. CASE UNCHANGED vars
  <2>1. UNCHANGED <<arrived, lost, forward, taken, todo, send, batch, wire, dropped, killClient,
                    killing, subscribed, closing, sendClosed, writing, open>>
    BY <1>5 DEF vars, queueVars, killVars, connVars, pumpVars
  <2>2. TypeOK'
    BY <2>1 DEF IInv, TypeOK
  <2> QED
    BY <2>1, <2>2, OthersKeep
<1> QED
  BY <1>1, <1>2, <1>3, <1>4, <1>5 DEF Next

(* The invariant of the proofs: the messages of a client stand in the      *)
(* order of Redis on the wire, in its batch and in its send queue, and are *)
(* older than what the room's loop and forward queue still hold for it;    *)
(* what a subscribed client lacks is in hand, was dropped on its way to    *)
(* it, or its eviction is asked for.                                       *)
THEOREM Inductive == Spec => []IInv
<1>1. Init => IInv
  BY InitInv
<1>2. IInv /\ [Next]_vars => IInv'
  BY NextKeeps
<1> QED
  BY <1>1, <1>2, PTL DEF Spec

(* No queue of the hub or of a client outgrows its capacity.               *)
THEOREM TypeCorrect == Spec => []TypeOK
<1>1. IInv => TypeOK
  BY DEF IInv
<1> QED
  BY <1>1, Inductive, PTL

(* The invariant implies that a client's stream is whole.                  *)
LEMMA InvIsWhole == IInv => StreamIsWhole
<1> SUFFICES ASSUME IInv PROVE StreamIsWhole
  OBVIOUS
<1>1. ASSUME NEW c \in Clients
      PROVE  /\ Rising(Accepted(c))
             /\ \A q : Given(q, c) => Has(q, Accepted(c))
  <2>1. /\ wire[c] \in Seq(Msgs) /\ batch[c] \in Seq(Msgs) /\ send[c] \in Seq(Msgs)
        /\ InOrder(wire[c], batch[c], send[c])
    BY Kinds DEF IInv, StreamInv
  <2>2. PICK w : w = wire[c] \o batch[c]
    OBVIOUS
  <2>3. /\ w \in Seq(Msgs) /\ Rising(w) /\ Under(w, send[c])
        /\ \A q : Has(q, w) <=> Has(q, wire[c]) \/ Has(q, batch[c])
    BY <2>1, <2>2, ConcatNums DEF InOrder
  <2>4. /\ Rising(w \o send[c])
        /\ \A q : Has(q, w \o send[c]) <=> Has(q, w) \/ Has(q, send[c])
    BY <2>1, <2>3, ConcatNums DEF InOrder
  <2>5. Accepted(c) = w \o send[c]
    BY <2>2 DEF Accepted
  <2> QED
    BY <2>3, <2>4, <2>5 DEF Given
<1>2. StreamInOrder
  BY <1>1 DEF StreamInOrder, Rising
<1>3. ASSUME NEW c \in subscribed \cap writing, NEW m \in 1..arrived
      PROVE  \/ \E i \in DOMAIN Accepted(c) : Accepted(c)[i] = m
             \/ (\E k \in DOMAIN forward : forward[k] = m) \/ <<m, c>> \in todo
             \/ m \in lost
             \/ \E i \in DOMAIN killClient[ShardOf[c]] : killClient[ShardOf[c]][i] = c
             \/ <<m, c>> \in dropped
  <2>1. c \in Clients /\ Explained(c)
    BY <1>3 DEF IInv, TypeOK
  <2>2. Given(m, c) => Has(m, Accepted(c))
    BY <1>1, <2>1
  <2>3. Given(m, c) \/ Held(m, c) \/ Asked(c)
    BY <1>3, <2>1 DEF Explained
  <2> QED
    BY <2>2, <2>3 DEF Held, Asked, Has
<1> QED
  BY <1>2, <1>3 DEF StreamIsWhole, GapHasCause

(* A client hears the messages of its room once and in the order of Redis; *)
(* one that it is not given, though subscribed and with its pump running,  *)
(* is on its way, was dropped by Publish at the full forward queue, or     *)
(* found the client full, whose eviction was then asked for or the request *)
(* for it dropped (Publish, dispatchMessage, TrySend, requestEvict and     *)
(* WritePump).  Drops are not noticed; they have no other cause.           *)
THEOREM StreamIsWholeHolds == Spec => []StreamIsWhole
<1> QED
  BY Inductive, InvIsWhole, PTL
=============================================================================
