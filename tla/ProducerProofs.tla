--------------------------- MODULE ProducerProofs ---------------------------
(***************************************************************************)
(* Proofs about the gateway's producer.                                    *)
(***************************************************************************)
EXTENDS Producer, TLAPS

Types ==
    /\ sent \in [Conns -> Int]
    /\ \A c \in Conns : sent[c] \in 0..Len(Script[c])
    /\ waiting \in [Conns -> BOOLEAN]
    /\ \A c \in Conns : waiting[c] => sent[c] > 0
    /\ DOMAIN outcome \subseteq Requests
    /\ \A q \in DOMAIN outcome :
          outcome[q] \in {"skipped", "refused", "ok", "error", "timeout"}
    /\ DOMAIN answers \subseteq Requests
    /\ \A q \in DOMAIN answers : answers[q] \in {"ok", "error"}
    /\ queue \in Seq(Requests) /\ Len(queue) <= QueueCapacity
    /\ closed \in BOOLEAN
    /\ pc \in {"first", "collect", "write", "done"}
    /\ stopping \in BOOLEAN
    /\ pending \in Requests \cup {None}
    /\ batch \in Seq(Requests)
    /\ bytes \in Nat
    /\ topic \in Seq(Requests)
    /\ faults \in 0..MaxFaults

-----------------------------------------------------------------------------
(* Sequences of requests *)

InSeq(q, s) == \E k \in DOMAIN s : s[k] = q

Precedes(x, y) == x[1] = y[1] => x[2] < y[2]

(* What a connection sent, in this order.                                  *)
Ordered(s) == \A i, j \in DOMAIN s : i < j => Precedes(s[i], s[j])

Before(s, t) == \A i \in DOMAIN s, j \in DOMAIN t : Precedes(s[i], t[j])

(* A message comes, at first, after its predecessors.                       *)
InOrder(t) ==
    \A j, k \in DOMAIN t :
        t[j][1] = t[k][1] /\ t[j][2] > t[k][2] => \E i \in 1..(j - 1) : t[i] = t[k]

(* Whatever is in t has all of b that was sent before it in front of it.   *)
Led(t, b) ==
    \A j \in DOMAIN t, l \in DOMAIN b :
        t[j][1] = b[l][1] /\ t[j][2] > b[l][2] => \E i \in 1..(j - 1) : t[i] = b[l]

-----------------------------------------------------------------------------
(* Invariants *)

Working == pc \in {"collect", "write"}

(* Topic, batch, request put aside and queue are one line, in the order    *)
(* sent, where only what is in the batch may be in the topic already.      *)
FlowInv ==
    /\ Ordered(queue) /\ Before(topic, queue)
    /\ Working => Ordered(batch) /\ Before(batch, queue) /\ Led(topic, batch)
    /\ pc = "collect" => pending = None
    /\ pending # None =>
          /\ Before(topic, <<pending>>) /\ Before(<<pending>>, queue)
          /\ pc = "write" => Before(batch, <<pending>>)
    /\ InOrder(topic)

(* What has entered the queue.                                             *)
Entered(q) ==
    \/ InSeq(q, topic) \/ InSeq(q, batch) \/ InSeq(q, queue)
    \/ q = pending \/ q \in DOMAIN answers

Sent(q) == q[2] <= sent[q[1]]

OutcomeInv ==
    /\ \A q \in Requests : Entered(q) =>
          Sent(q) /\ (q \in DOMAIN outcome => outcome[q] \notin {"refused", "skipped"})
    /\ \A q \in DOMAIN outcome : Sent(q) /\ (outcome[q] = "ok" => InSeq(q, topic))
    /\ \A q \in DOMAIN answers : answers[q] = "ok" => InSeq(q, topic)

-----------------------------------------------------------------------------
(* Lemmas *)

(* A request is a connection and a place in its script.                    *)
LEMMA RequestShape ==
  ASSUME NEW q \in Requests
  PROVE  /\ q[1] \in Conns /\ q[2] \in 1..Len(Script[q[1]]) /\ q[2] \in Int
         /\ Size(q) \in Nat \ {0}
         /\ q # None
<1>1. PICK c \in Conns : \E i \in DOMAIN Script[c] : q = <<c, i>>
  BY DEF Requests
<1>2. PICK i \in DOMAIN Script[c] : q = <<c, i>>
  BY <1>1
<1>3. Script[c] \in Seq([size : Nat \ {0}, formed : BOOLEAN])
  BY ProducerAssumption
<1>4. i \in 1..Len(Script[c]) /\ Script[c][i] \in [size : Nat \ {0}, formed : BOOLEAN]
  <2> DEFINE R == [size : Nat \ {0}, formed : BOOLEAN]
  <2> HIDE DEF R
  <2>1. \A s : s \in Seq(R) => \A k \in DOMAIN s : k \in 1..Len(s) /\ s[k] \in R
    OBVIOUS
  <2> QED
    BY <1>2, <1>3, <2>1 DEF R
<1>5. Script[c][i].size \in Nat \ {0}
  BY <1>4
<1>6. q[1] = c /\ q[2] = i /\ q # << >>
  BY <1>2
<1> QED
  BY <1>4, <1>5, <1>6 DEF Size, None

(* The next message a connection reads.                                    *)
LEMMA UpcomingShape ==
  ASSUME Types, NEW c \in Conns, Reads(c)
  PROVE  /\ Upcoming(c) \in Requests /\ Upcoming(c)[1] = c /\ Upcoming(c)[2] = sent[c] + 1
         /\ sent' \in [Conns -> Int] /\ sent'[c] = sent[c] + 1
         /\ \A d \in Conns : d # c => sent'[d] = sent[d]
         /\ sent'[c] \in 0..Len(Script[c]) /\ sent'[c] > 0
<1>1. Script[c] \in Seq([size : Nat \ {0}, formed : BOOLEAN])
  BY ProducerAssumption
<1>2. sent[c] + 1 \in DOMAIN Script[c] /\ sent[c] \in Nat
  BY <1>1 DEF Types, Reads
<1> QED
  BY <1>1, <1>2 DEF Types, Reads, Upcoming, Requests

(* Taking the first request off a line keeps its order.                    *)
LEMMA TailLine ==
  ASSUME NEW s \in Seq(Requests), s # << >>
  PROVE  /\ Tail(s) \in Seq(Requests) /\ Head(s) \in Requests /\ Len(Tail(s)) <= Len(s)
         /\ Ordered(s) => Ordered(Tail(s)) /\ Before(<<Head(s)>>, Tail(s))
         /\ \A t : Before(t, s) => Before(t, Tail(s)) /\ Before(t, <<Head(s)>>)
         /\ \A q : InSeq(q, s) <=> q = Head(s) \/ InSeq(q, Tail(s))
<1>1. /\ Tail(s) \in Seq(Requests) /\ Head(s) \in Requests /\ Len(Tail(s)) <= Len(s)
      /\ Len(s) \in Nat /\ Len(s) > 0 /\ DOMAIN s = 1..Len(s)
      /\ Head(s) = s[1] /\ DOMAIN Tail(s) = 1..(Len(s) - 1)
      /\ \A i \in 1..(Len(s) - 1) : Tail(s)[i] = s[i + 1]
  OBVIOUS
<1>2. PICK t, h, n : t = Tail(s) /\ h = Head(s) /\ n = Len(s)
  OBVIOUS
<1>3. /\ n \in Nat /\ n > 0 /\ DOMAIN s = 1..n /\ h = s[1] /\ DOMAIN t = 1..(n - 1)
      /\ \A i \in 1..(n - 1) : t[i] = s[i + 1]
  BY <1>1, <1>2
<1>4. DOMAIN <<h>> = {1} /\ <<h>>[1] = h
  OBVIOUS
<1>5. ASSUME Ordered(s) PROVE Ordered(t) /\ Before(<<h>>, t)
  <2>1. ASSUME NEW i \in DOMAIN t, NEW j \in DOMAIN t, i < j PROVE Precedes(t[i], t[j])
    <3>1. i + 1 \in 1..n /\ j + 1 \in 1..n /\ i + 1 < j + 1
      BY <1>3, <2>1
    <3> QED
      BY <1>3, <1>5, <2>1, <3>1 DEF Ordered
  <2>2. ASSUME NEW j \in DOMAIN t PROVE Precedes(h, t[j])
    <3>1. 1 \in 1..n /\ j + 1 \in 1..n /\ 1 < j + 1
      BY <1>3, <2>2
    <3> QED
      BY <1>3, <1>5, <2>2, <3>1 DEF Ordered
  <2> QED
    BY <1>4, <2>1, <2>2 DEF Ordered, Before
<1>6. ASSUME NEW r, Before(r, s) PROVE Before(r, t) /\ Before(r, <<h>>)
  <2>1. ASSUME NEW i \in DOMAIN r, NEW j \in DOMAIN t PROVE Precedes(r[i], t[j])
    <3>1. j + 1 \in 1..n
      BY <1>3, <2>1
    <3> QED
      BY <1>3, <1>6, <2>1, <3>1 DEF Before
  <2> QED
    BY <1>3, <1>4, <1>6, <2>1 DEF Before
<1>7. ASSUME NEW q PROVE InSeq(q, s) <=> q = h \/ InSeq(q, t)
  <2>1. ASSUME NEW k \in DOMAIN s, s[k] = q PROVE q = h \/ InSeq(q, t)
    <3>1. CASE k = 1
      BY <1>3, <2>1, <3>1
    <3>2. CASE k # 1
      <4>1. k - 1 \in 1..(n - 1) /\ t[k - 1] = s[k]
        BY <1>3, <3>2
      <4> QED
        BY <1>3, <2>1, <4>1 DEF InSeq
    <3> QED
      BY <3>1, <3>2
  <2>2. ASSUME NEW k \in DOMAIN t, t[k] = q PROVE InSeq(q, s)
    <3>1. k + 1 \in 1..n /\ t[k] = s[k + 1]
      BY <1>3, <2>2
    <3> QED
      BY <1>3, <2>2, <3>1 DEF InSeq
  <2>3. InSeq(h, s)
    BY <1>3 DEF InSeq
  <2> QED
    BY <2>1, <2>2, <2>3 DEF InSeq
<1> QED
  BY <1>1, <1>2, <1>5, <1>6, <1>7

(* Appending the connection's next request keeps it.                       *)
LEMMA AppendLine ==
  ASSUME NEW s \in Seq(Requests), NEW q \in Requests
  PROVE  /\ Append(s, q) \in Seq(Requests) /\ Len(Append(s, q)) = Len(s) + 1
         /\ Ordered(s) /\ Before(s, <<q>>) => Ordered(Append(s, q))
         /\ \A t : Before(t, s) /\ Before(t, <<q>>) => Before(t, Append(s, q))
         /\ \A t : Before(s, t) /\ Before(<<q>>, t) => Before(Append(s, q), t)
         /\ \A p : InSeq(p, Append(s, q)) <=> InSeq(p, s) \/ p = q
<1>1. PICK t, n : t = Append(s, q) /\ n = Len(s)
  OBVIOUS
<1>2. /\ n \in Nat
      /\ t \in Seq(Requests) /\ DOMAIN s = 1..n /\ DOMAIN t = 1..(n + 1) /\ Len(t) = n + 1
      /\ \A i \in 1..n : t[i] = s[i]
      /\ t[n + 1] = q
  BY <1>1
<1>3. DOMAIN <<q>> = {1} /\ <<q>>[1] = q
  OBVIOUS
<1>4. Ordered(s) /\ Before(s, <<q>>) => Ordered(t)
  BY <1>2, <1>3 DEF Ordered, Before
<1>5. ASSUME NEW u PROVE /\ Before(u, s) /\ Before(u, <<q>>) => Before(u, t)
                         /\ Before(s, u) /\ Before(<<q>>, u) => Before(t, u)
  BY <1>2, <1>3 DEF Before
<1>6. ASSUME NEW p PROVE InSeq(p, t) <=> InSeq(p, s) \/ p = q
  <2>1. InSeq(q, t)
    BY <1>2 DEF InSeq
  <2>2. InSeq(p, s) => InSeq(p, t)
    BY <1>2 DEF InSeq
  <2>3. InSeq(p, t) => InSeq(p, s) \/ p = q
    BY <1>2 DEF InSeq
  <2> QED
    BY <2>1, <2>2, <2>3
<1> QED
  BY <1>1, <1>2, <1>4, <1>5, <1>6

(* t is s followed by p, of m and n elements.                              *)
Spliced(s, p, t, m, n) ==
    /\ t = s \o p /\ m = Len(s) /\ n = Len(p) /\ m \in Nat /\ n \in Nat
    /\ t \in Seq(Requests)
    /\ DOMAIN s = 1..m /\ DOMAIN p = 1..n /\ DOMAIN t = 1..(m + n)
    /\ \A i \in 1..m : t[i] = s[i]
    /\ \A i \in 1..n : t[m + i] = p[i]
    /\ \A i \in (m + 1)..(m + n) : i - m \in 1..n /\ t[i] = p[i - m]

(* The places of two lines that are joined.                                *)
LEMMA Concat ==
  ASSUME NEW s \in Seq(Requests), NEW p \in Seq(Requests)
  PROVE  \E t, m, n : Spliced(s, p, t, m, n)
<1>1. PICK t, m, n : t = s \o p /\ m = Len(s) /\ n = Len(p)
  OBVIOUS
<1>2. /\ m \in Nat /\ n \in Nat
      /\ t \in Seq(Requests)
      /\ DOMAIN s = 1..m /\ DOMAIN p = 1..n /\ DOMAIN t = 1..(m + n)
      /\ \A i \in 1..m : t[i] = s[i]
      /\ \A i \in (m + 1)..(m + n) : t[i] = p[i - m]
  BY <1>1
<1>3. \A i \in 1..n : m + i \in (m + 1)..(m + n) /\ (m + i) - m = i
  BY <1>2
<1>4. \A i \in 1..n : t[m + i] = p[i]
  BY <1>2, <1>3
<1>5. \A i \in (m + 1)..(m + n) : i - m \in 1..n /\ t[i] = p[i - m]
  BY <1>2
<1>6. Spliced(s, p, t, m, n)
  BY <1>1, <1>2, <1>4, <1>5 DEF Spliced
<1> QED
  BY <1>6

(* Every element of the whole comes from one of the parts.                 *)
LEMMA ConcatLine ==
  ASSUME NEW s \in Seq(Requests), NEW p \in Seq(Requests)
  PROVE  /\ s \o p \in Seq(Requests)
         /\ \A q : InSeq(q, s \o p) <=> InSeq(q, s) \/ InSeq(q, p)
         /\ \A u : Before(s, u) /\ Before(p, u) => Before(s \o p, u)
<1>1. PICK t, m, n : Spliced(s, p, t, m, n)
  BY Concat
<1> USE DEF Spliced
<1>2. \A i \in DOMAIN t : \/ i \in DOMAIN s /\ t[i] = s[i]
                          \/ \E k \in DOMAIN p : t[i] = p[k]
  <2>1. ASSUME NEW i \in DOMAIN t, i > m PROVE \E k \in DOMAIN p : t[i] = p[k]
    <3>1. i \in (m + 1)..(m + n)
      BY <1>1, <2>1
    <3>2. i - m \in DOMAIN p /\ t[i] = p[i - m]
      BY <1>1, <3>1
    <3> QED
      BY <3>2
  <2> QED
    BY <1>1, <2>1
<1>3. /\ \A i \in DOMAIN s : i \in DOMAIN t /\ t[i] = s[i]
      /\ \A k \in DOMAIN p : m + k \in DOMAIN t /\ t[m + k] = p[k]
  BY <1>1
<1>4. \A q : InSeq(q, t) <=> InSeq(q, s) \/ InSeq(q, p)
  BY <1>2, <1>3, Zenon DEF InSeq
<1>5. \A u : Before(s, u) /\ Before(p, u) => Before(t, u)
  <2>1. ASSUME NEW u, Before(s, u), Before(p, u), NEW i \in DOMAIN t, NEW j \in DOMAIN u
        PROVE  Precedes(t[i], u[j])
    <3>1. CASE i \in DOMAIN s /\ t[i] = s[i]
      BY <2>1, <3>1 DEF Before
    <3>2. CASE \E k \in DOMAIN p : t[i] = p[k]
      BY <2>1, <3>2 DEF Before
    <3> QED
      BY <1>2, <3>1, <3>2
  <2> QED
    BY <2>1 DEF Before
<1> QED
  BY <1>1, <1>4, <1>5

(* Writing a part of the batch, in its order, keeps the topic in order.    *)
LEMMA WriteOrder ==
  ASSUME NEW s \in Seq(Requests), NEW p \in Seq(Requests), NEW b \in Seq(Requests),
         InOrder(s), Ordered(p), Led(s, b),
         \A k \in DOMAIN p : \E l \in DOMAIN b : p[k] = b[l]
  PROVE  InOrder(s \o p)
<1>1. PICK t, m, n : Spliced(s, p, t, m, n)
  BY Concat
<1> USE DEF Spliced
<1>a. SUFFICES InOrder(t)
  BY <1>1
<1>b. SUFFICES ASSUME NEW j \in DOMAIN t, NEW k \in DOMAIN t,
                      t[j][1] = t[k][1] /\ t[j][2] > t[k][2]
               PROVE  \E i \in 1..(j - 1) : t[i] = t[k]
  BY Zenon DEF InOrder
<1>2. j \in 1..(m + n) /\ k \in 1..(m + n) /\ t[j][1] = t[k][1] /\ t[j][2] > t[k][2]
  BY <1>1, <1>b
<1>3. t[j][2] \in Int /\ t[k][2] \in Int
  <2>1. t[j] \in Requests /\ t[k] \in Requests
    BY <1>1
  <2> QED
    BY <2>1, RequestShape
<1>4. CASE j <= m /\ k <= m
  <2>1. j \in DOMAIN s /\ k \in DOMAIN s /\ t[j] = s[j] /\ t[k] = s[k]
    BY <1>1, <1>4
  <2>2. PICK i \in 1..(j - 1) : s[i] = s[k]
    BY <1>2, <2>1 DEF InOrder
  <2>3. t[i] = s[i]
    BY <1>1, <1>4, <2>2
  <2> QED
    BY <2>1, <2>2, <2>3
<1>5. CASE j > m /\ k <= m
  BY <1>1, <1>5
<1>6. CASE j <= m /\ k > m
  <2>1. k \in (m + 1)..(m + n)
    BY <1>1, <1>6
  <2>2. k - m \in DOMAIN p /\ t[k] = p[k - m] /\ j \in DOMAIN s /\ t[j] = s[j]
    BY <1>1, <1>6, <2>1
  <2>3. PICK l \in DOMAIN b : t[k] = b[l]
    BY <2>2
  <2>4. PICK i \in 1..(j - 1) : s[i] = b[l]
    BY <1>2, <2>2, <2>3 DEF Led
  <2>5. t[i] = s[i]
    BY <1>1, <1>6, <2>4
  <2> QED
    BY <2>3, <2>4, <2>5
<1>7. CASE j > m /\ k > m
  <2>1. j \in (m + 1)..(m + n) /\ k \in (m + 1)..(m + n)
    BY <1>1, <1>7
  <2>2. j - m \in DOMAIN p /\ k - m \in DOMAIN p /\ t[j] = p[j - m] /\ t[k] = p[k - m]
    BY <1>1, <2>1
  <2>3. ~(j - m < k - m)
    <3>1. ASSUME j - m < k - m PROVE Precedes(t[j], t[k])
      BY <2>2, <3>1 DEF Ordered
    <3> QED
      BY <1>2, <1>3, <3>1 DEF Precedes
  <2>4. j # k
    BY <1>2, <1>3
  <2>5. j \in Int /\ k \in Int /\ m \in Int /\ k >= 1
    BY <1>1, <1>2
  <2>6. k < j
    BY <2>3, <2>4, <2>5
  <2> QED
    BY <2>5, <2>6
<1>8. (j <= m \/ j > m) /\ (k <= m \/ k > m)
  <2>1. m \in Int /\ j \in Int /\ k \in Int
    BY <1>1, <1>2
  <2> QED
    BY <2>1
<1> QED
  BY <1>4, <1>5, <1>6, <1>7, <1>8, Zenon

(* Writing the batch's first messages leaves the topic led by the batch.   *)
LEMMA PrefixLed ==
  ASSUME NEW s \in Seq(Requests), NEW b \in Seq(Requests), NEW c \in DOMAIN b,
         Ordered(b), Led(s, b)
  PROVE  /\ Led(s \o SubSeq(b, 1, c), b)
         /\ SubSeq(b, 1, c) \in Seq(Requests) /\ Ordered(SubSeq(b, 1, c))
         /\ \A k \in DOMAIN SubSeq(b, 1, c) : \E l \in DOMAIN b : SubSeq(b, 1, c)[k] = b[l]
<1>1. PICK p : p = SubSeq(b, 1, c)
  OBVIOUS
<1>2. /\ p \in Seq(Requests) /\ DOMAIN p = 1..c /\ Len(p) = c /\ c \in Nat
      /\ \A k \in 1..c : k \in DOMAIN b /\ p[k] = b[k]
  BY <1>1
<1>3. Ordered(p)
  BY <1>2 DEF Ordered
<1>4. PICK t, m, n : Spliced(s, p, t, m, n)
  BY <1>2, Concat
<1> USE DEF Spliced
<1>5. ASSUME NEW j \in DOMAIN t, NEW l \in DOMAIN b, t[j][1] = b[l][1], t[j][2] > b[l][2]
      PROVE  \E i \in 1..(j - 1) : t[i] = b[l]
  <2>1. t[j][2] \in Int /\ b[l][2] \in Int
    <3>1. t[j] \in Requests /\ b[l] \in Requests
      BY <1>4, <1>5
    <3> QED
      BY <3>1, RequestShape
  <2>2. CASE j <= m
    <3>1. j \in DOMAIN s /\ t[j] = s[j]
      BY <1>4, <1>5, <2>2
    <3>2. PICK i \in 1..(j - 1) : s[i] = b[l]
      BY <1>5, <3>1 DEF Led
    <3>3. t[i] = s[i]
      BY <1>4, <2>2, <3>2
    <3> QED
      BY <3>2, <3>3
  <2>3. CASE j > m
    <3>1. j \in (m + 1)..(m + n)
      BY <1>4, <1>5, <2>3
    <3>2. j - m \in DOMAIN b /\ t[j] = b[j - m] /\ j - m <= n
      BY <1>2, <1>4, <3>1
    <3>3. ~(j - m < l) /\ j - m # l
      BY <1>5, <2>1, <3>2 DEF Ordered, Precedes
    <3>4. l \in Int /\ j \in Int /\ l >= 1
      BY <3>1
    <3>5. l \in 1..n /\ m + l \in 1..(j - 1)
      BY <1>4, <3>2, <3>3, <3>4
    <3>6. t[m + l] = b[l]
      BY <1>2, <1>4, <3>5
    <3> QED
      BY <3>5, <3>6
  <2>4. j <= m \/ j > m
    <3>1. j \in Int /\ m \in Int
      BY <1>4, <1>5
    <3> QED
      BY <3>1
  <2> QED
    BY <2>2, <2>3, <2>4, Zenon
<1>6. Led(t, b)
  BY <1>5 DEF Led
<1> QED
  BY <1>1, <1>2, <1>3, <1>4, <1>6

(* Any choice of the batch's messages, in its order.                       *)
LEMMA ChosenLine ==
  ASSUME NEW b \in Seq(Requests), Ordered(b), NEW n \in 0..Len(b),
         NEW at \in [1..n -> DOMAIN b], \A i, j \in 1..n : i < j => at[i] < at[j],
         NEW p, p = [i \in 1..n |-> b[at[i]]]
  PROVE  /\ p \in Seq(Requests) /\ Ordered(p)
         /\ \A k \in DOMAIN p : \E l \in DOMAIN b : p[k] = b[l]
<1>1. n \in Nat /\ DOMAIN p = 1..n
  OBVIOUS
<1>2. \A i \in 1..n : p[i] = b[at[i]] /\ at[i] \in DOMAIN b /\ b[at[i]] \in Requests
  OBVIOUS
<1>3. Ordered(p)
  BY <1>1, <1>2 DEF Ordered
<1>4. p \in Seq(Requests)
  BY <1>1, <1>2
<1> QED
  BY <1>1, <1>2, <1>3, <1>4

(* A message behind everything of its connection.                          *)
LEMMA AppendLed ==
  ASSUME NEW t \in Seq(Requests), NEW s \in Seq(Requests), NEW q \in Requests,
         Led(t, s), Before(t, <<q>>)
  PROVE  Led(t, Append(s, q))
<1>1. PICK u, n : u = Append(s, q) /\ n = Len(s)
  OBVIOUS
<1>2. /\ n \in Nat
      /\ DOMAIN s = 1..n /\ DOMAIN u = 1..(n + 1)
      /\ \A i \in 1..n : u[i] = s[i]
      /\ u[n + 1] = q
  BY <1>1
<1>3. ASSUME NEW j \in DOMAIN t PROVE t[j][1] = q[1] => ~(t[j][2] > q[2])
  <2>1. Precedes(t[j], q)
    BY <1>3 DEF Before
  <2>2. t[j][2] \in Int /\ q[2] \in Int
    BY <1>3, RequestShape
  <2> QED
    BY <2>1, <2>2 DEF Precedes
<1>4. ASSUME NEW j \in DOMAIN t, NEW l \in DOMAIN u, t[j][1] = u[l][1], t[j][2] > u[l][2]
      PROVE  \E i \in 1..(j - 1) : t[i] = u[l]
  <2>1. u[l] # q
    BY <1>3, <1>4
  <2>2. l \in DOMAIN s /\ u[l] = s[l]
    BY <1>2, <2>1
  <2> QED
    BY <1>4, <2>2 DEF Led
<1>5. Led(t, u)
  BY <1>4 DEF Led
<1> QED
  BY <1>1, <1>5

(* A line of one request is in order.                                      *)
LEMMA SingleLine ==
  ASSUME NEW q \in Requests
  PROVE  /\ <<q>> \in Seq(Requests) /\ Ordered(<<q>>)
         /\ \A p : InSeq(p, <<q>>) <=> p = q
         /\ \A t \in Seq(Requests) : Before(t, <<q>>) => Led(t, <<q>>)
<1>1. DOMAIN <<q>> = {1} /\ <<q>>[1] = q
  OBVIOUS
<1>2. ASSUME NEW t \in Seq(Requests), Before(t, <<q>>) PROVE Led(t, <<q>>)
  <2>1. ASSUME NEW j \in DOMAIN t PROVE t[j][1] = q[1] => ~(t[j][2] > q[2])
    <3>1. Precedes(t[j], q)
      BY <1>1, <1>2, <2>1 DEF Before
    <3>2. t[j][2] \in Int /\ q[2] \in Int
      BY <2>1, RequestShape
    <3> QED
      BY <3>1, <3>2 DEF Precedes
  <2> QED
    BY <1>1, <2>1 DEF Led
<1> QED
  BY <1>1, <1>2 DEF Ordered, InSeq

-----------------------------------------------------------------------------
(* The invariants are kept *)

IInv == Types /\ FlowInv /\ OutcomeInv

(* A message read now has not been dealt with before.                      *)
LEMMA NextIsNew ==
  ASSUME IInv, NEW c \in Conns, Reads(c)
  PROVE  /\ ~Entered(Upcoming(c)) /\ Upcoming(c) \notin DOMAIN outcome
         /\ \A q \in Requests : Sent(q) => q[2] <= sent'[q[1]]
         /\ Upcoming(c)[2] <= sent'[c]
         /\ \A q \in Requests : Sent(q) => Precedes(q, Upcoming(c))
<1> DEFINE u == Upcoming(c)
<1>1. u \in Requests /\ u[1] = c /\ u[2] = sent[c] + 1
  BY UpcomingShape DEF IInv
<1>2. sent'[c] = sent[c] + 1 /\ \A d \in Conns : d # c => sent'[d] = sent[d]
  BY UpcomingShape DEF IInv
<1>3. \A d \in Conns : sent[d] \in Int
  BY DEF IInv, Types
<1> HIDE DEF u
<1>4. ~Sent(u)
  BY <1>1, <1>3 DEF Sent
<1>5. ASSUME NEW q \in Requests, Sent(q) PROVE q[2] <= sent'[q[1]] /\ Precedes(q, u)
  <2>1. q[1] \in Conns /\ q[2] \in Int
    BY RequestShape
  <2> QED
    BY <1>1, <1>2, <1>3, <1>5, <2>1 DEF Sent, Precedes
<1>6. ~Entered(u) /\ u \notin DOMAIN outcome
  BY <1>1, <1>4 DEF IInv, OutcomeInv, Types
<1> QED
  BY <1>1, <1>2, <1>3, <1>5, <1>6 DEF u

(* A message that is skipped or refused.                                   *)
LEMMA DropKeeps ==
  ASSUME IInv, NEW c \in Conns, Reads(c), NEW v \in {"skipped", "refused"},
         outcome' = With(outcome, Upcoming(c), v),
         UNCHANGED <<waiting, answers, queue, closed, runVars, topic, faults>>
  PROVE  IInv'
<1> DEFINE u == Upcoming(c)
<1>1. /\ u \in Requests /\ u[1] = c /\ u[2] = sent[c] + 1
      /\ sent' \in [Conns -> Int] /\ sent'[c] = sent[c] + 1
      /\ \A d \in Conns : d # c => sent'[d] = sent[d]
      /\ sent'[c] \in 0..Len(Script[c]) /\ sent'[c] > 0
  BY UpcomingShape DEF IInv
<1>2. /\ ~Entered(u) /\ u \notin DOMAIN outcome
      /\ \A q \in Requests : Sent(q) => q[2] <= sent'[q[1]]
      /\ u[2] <= sent'[c]
  BY NextIsNew
<1>3. /\ DOMAIN outcome' = DOMAIN outcome \cup {u} /\ outcome'[u] = v
      /\ \A p \in DOMAIN outcome : p # u => outcome'[p] = outcome[p]
  <2>1. outcome' = With(outcome, u, v)
    OBVIOUS
  <2> HIDE DEF u
  <2> QED
    BY <2>1 DEF With
<1> HIDE DEF u
<1>4. Types'
  <2>1. \A d \in Conns : sent'[d] \in 0..Len(Script[d]) /\ (waiting'[d] => sent'[d] > 0)
    BY <1>1 DEF IInv, Types
  <2>2. DOMAIN outcome' \subseteq Requests
    BY <1>1, <1>3 DEF IInv, Types
  <2>3. \A q \in DOMAIN outcome' :
           outcome'[q] \in {"skipped", "refused", "ok", "error", "timeout"}
    BY <1>3 DEF IInv, Types
  <2> QED
    BY <1>1, <2>1, <2>2, <2>3 DEF IInv, Types, runVars
<1>5. FlowInv'
  BY DEF IInv, FlowInv, Working, runVars
<1>6. ASSUME NEW q \in Requests, Entered(q)'
      PROVE  Sent(q)' /\ (q \in DOMAIN outcome' => outcome'[q] \notin {"refused", "skipped"})
  <2>1. Entered(q)
    BY <1>6 DEF Entered, runVars
  <2>2. q # u /\ Sent(q) /\ (q \in DOMAIN outcome => outcome[q] \notin {"refused", "skipped"})
    BY <1>2, <2>1 DEF IInv, OutcomeInv
  <2> QED
    BY <1>2, <1>3, <2>2 DEF Sent
<1>7. ASSUME NEW q \in DOMAIN outcome'
      PROVE  Sent(q)' /\ (outcome'[q] = "ok" => InSeq(q, topic'))
  <2>1. CASE q = u
    BY <1>1, <1>2, <1>3, <2>1 DEF Sent
  <2>2. CASE q # u
    BY <1>2, <1>3, <1>7, <2>2 DEF IInv, OutcomeInv, Sent, Types
  <2> QED
    BY <2>1, <2>2
<1>8. OutcomeInv'
  BY <1>6, <1>7 DEF IInv, OutcomeInv
<1> QED
  BY <1>4, <1>5, <1>8 DEF IInv

(* ReadPump puts its next message into the queue.                          *)
LEMMA EnqueueKeeps ==
  ASSUME IInv, NEW c \in Conns, Enqueue(c)
  PROVE  IInv'
<1> DEFINE u == Upcoming(c)
<1>0. Reads(c) /\ Len(queue) < QueueCapacity /\ queue' = Append(queue, u)
      /\ waiting' = [waiting EXCEPT ![c] = TRUE]
      /\ UNCHANGED <<outcome, answers, closed, pc, stopping, pending, batch, bytes, topic, faults>>
  BY DEF Enqueue, CanQueue, runVars
<1>1. /\ u \in Requests /\ u[1] = c /\ u[2] = sent[c] + 1
      /\ sent' \in [Conns -> Int] /\ sent'[c] = sent[c] + 1
      /\ \A d \in Conns : d # c => sent'[d] = sent[d]
      /\ sent'[c] \in 0..Len(Script[c]) /\ sent'[c] > 0
  BY <1>0, UpcomingShape DEF IInv
<1>2. /\ ~Entered(u) /\ u \notin DOMAIN outcome
      /\ \A q \in Requests : Sent(q) => q[2] <= sent'[q[1]]
      /\ u[2] <= sent'[c]
      /\ \A q \in Requests : Sent(q) => Precedes(q, u)
  BY <1>0, NextIsNew
<1> HIDE DEF u
<1>t. queue \in Seq(Requests) /\ batch \in Seq(Requests) /\ topic \in Seq(Requests)
      /\ pending \in Requests \cup {None}
  BY DEF IInv, Types
<1>3. ASSUME NEW s \in Seq(Requests), \A q : InSeq(q, s) => Entered(q)
      PROVE  Before(s, <<u>>)
  <2>1. ASSUME NEW i \in DOMAIN s PROVE Precedes(s[i], u)
    <3>1. s[i] \in Requests /\ InSeq(s[i], s)
      BY <1>3, <2>1 DEF InSeq
    <3>2. Sent(s[i])
      BY <1>3, <3>1 DEF IInv, OutcomeInv
    <3> QED
      BY <1>2, <3>1, <3>2
  <2> QED
    BY <2>1 DEF Before
<1>4. Before(queue, <<u>>) /\ Before(batch, <<u>>) /\ Before(topic, <<u>>)
  BY <1>3, <1>t DEF Entered
<1>5. pending # None => Before(<<pending>>, <<u>>)
  <2>1. ASSUME pending # None PROVE pending \in Requests /\ Sent(pending)
    BY <1>t, <2>1 DEF Entered, IInv, OutcomeInv
  <2>2. ASSUME pending # None PROVE Precedes(pending, u)
    BY <1>2, <2>1, <2>2
  <2> QED
    BY <2>2 DEF Before
<1>6. /\ queue' \in Seq(Requests) /\ Len(queue') = Len(queue) + 1
      /\ Ordered(queue')
      /\ \A t : Before(t, queue) /\ Before(t, <<u>>) => Before(t, queue')
      /\ \A p : InSeq(p, queue') <=> InSeq(p, queue) \/ p = u
  BY <1>0, <1>1, <1>4, <1>t, AppendLine DEF IInv, FlowInv
<1>7. Types'
  <2>1. \A d \in Conns : sent'[d] \in 0..Len(Script[d]) /\ (waiting'[d] => sent'[d] > 0)
    BY <1>0, <1>1 DEF IInv, Types
  <2>2. Len(queue') <= QueueCapacity
    BY <1>0, <1>6, <1>t, ProducerAssumption
  <2>3. waiting' \in [Conns -> BOOLEAN]
    BY <1>0 DEF IInv, Types
  <2> QED
    BY <1>0, <1>1, <1>6, <2>1, <2>2, <2>3 DEF IInv, Types
<1>8. FlowInv'
  BY <1>0, <1>4, <1>5, <1>6 DEF IInv, FlowInv, Working
<1>9. ASSUME NEW q \in Requests, Entered(q)'
      PROVE  Sent(q)' /\ (q \in DOMAIN outcome' => outcome'[q] \notin {"refused", "skipped"})
  <2>1. Entered(q) \/ q = u
    BY <1>0, <1>6, <1>9 DEF Entered
  <2>2. CASE q = u
    BY <1>0, <1>1, <1>2, <2>2 DEF Sent
  <2>3. CASE Entered(q)
    BY <1>0, <1>2, <2>3 DEF IInv, OutcomeInv, Sent
  <2> QED
    BY <2>1, <2>2, <2>3
<1>10. \A q \in DOMAIN outcome : Sent(q)'
  BY <1>0, <1>2 DEF IInv, OutcomeInv, Types, Sent
<1>11. OutcomeInv'
  BY <1>0, <1>9, <1>10 DEF IInv, OutcomeInv
<1> QED
  BY <1>7, <1>8, <1>11 DEF IInv

(* ReadPump learns the result, or gives up waiting for it.                 *)
LEMMA LearnKeeps ==
  ASSUME IInv, NEW c \in Conns, Learn(c)
  PROVE  IInv'
<1>0. waiting[c] /\ waiting' = [waiting EXCEPT ![c] = FALSE]
      /\ UNCHANGED <<sent, answers, queue, closed, pc, stopping, pending, batch, bytes, topic,
                     faults>>
  BY DEF Learn, runVars
<1>1. PICK q, v : /\ q = <<c, sent[c]>> /\ outcome' = With(outcome, q, v)
                  /\ \/ q \in DOMAIN answers /\ v = answers[q]
                     \/ v = "timeout"
  BY DEF Learn
<1>2. q \in Requests /\ q[1] = c /\ q[2] = sent[c] /\ Sent(q)
  <2>1. sent[c] \in 1..Len(Script[c]) /\ sent[c] \in Int
    BY <1>0 DEF IInv, Types
  <2>2. Script[c] \in Seq([size : Nat \ {0}, formed : BOOLEAN])
    BY ProducerAssumption
  <2>3. sent[c] \in DOMAIN Script[c]
    BY <2>1, <2>2
  <2> QED
    BY <1>1, <2>1, <2>3 DEF Requests, Sent
<1>3. v \in {"ok", "error", "timeout"} /\ (v = "ok" => InSeq(q, topic))
  BY <1>1 DEF IInv, Types, OutcomeInv
<1>4. /\ DOMAIN outcome' = DOMAIN outcome \cup {q} /\ outcome'[q] = v
      /\ \A p \in DOMAIN outcome : p # q => outcome'[p] = outcome[p]
  BY <1>1 DEF With
<1>5. Types'
  <2>1. DOMAIN outcome' \subseteq Requests
    BY <1>2, <1>4 DEF IInv, Types
  <2>2. \A p \in DOMAIN outcome' :
           outcome'[p] \in {"skipped", "refused", "ok", "error", "timeout"}
    BY <1>3, <1>4 DEF IInv, Types
  <2>3. waiting' \in [Conns -> BOOLEAN] /\ \A d \in Conns : waiting'[d] => waiting[d]
    BY <1>0 DEF IInv, Types
  <2> QED
    BY <1>0, <2>1, <2>2, <2>3 DEF IInv, Types
<1>6. FlowInv'
  BY <1>0 DEF IInv, FlowInv, Working
<1>7. \A p : Entered(p)' <=> Entered(p)
  BY <1>0 DEF Entered
<1>8. \A p : Sent(p)' <=> Sent(p)
  BY <1>0 DEF Sent
<1>9. OutcomeInv'
  BY <1>0, <1>2, <1>3, <1>4, <1>7, <1>8 DEF IInv, OutcomeInv
<1> QED
  BY <1>5, <1>6, <1>9 DEF IInv

(* run takes the first request of a batch, or the one put aside.           *)
LEMMA TakeFirstKeeps ==
  ASSUME IInv, TakeFirst
  PROVE  IInv'
<1>0. pc = "first" /\ UNCHANGED <<sent, waiting, outcome, answers, closed, stopping, topic, faults>>
  BY DEF TakeFirst, callVars
<1>1. PICK h : /\ batch' = <<h>> /\ bytes' = Size(h) /\ pc' = "collect"
               /\ \/ /\ pending # None /\ h = pending /\ pending' = None /\ queue' = queue
                  \/ /\ pending = None /\ queue # << >> /\ h = Head(queue)
                     /\ queue' = Tail(queue) /\ pending' = pending
  BY DEF TakeFirst, StartBatch
<1>t. queue \in Seq(Requests) /\ topic \in Seq(Requests) /\ pending \in Requests \cup {None}
  BY DEF IInv, Types
<1>2. /\ h \in Requests /\ queue' \in Seq(Requests) /\ Len(queue') <= Len(queue)
      /\ pending' = None
      /\ Ordered(queue') /\ Before(topic, queue') /\ Before(<<h>>, queue') /\ Before(topic, <<h>>)
      /\ \A q : InSeq(q, queue') => InSeq(q, queue)
      /\ InSeq(h, queue) \/ h = pending
  <2>1. CASE pending # None
    BY <1>1, <1>t, <2>1 DEF IInv, FlowInv, Types
  <2>2. CASE pending = None
    BY <1>1, <1>t, <2>2, TailLine DEF IInv, FlowInv
  <2> QED
    BY <2>1, <2>2
<1>3. /\ <<h>> \in Seq(Requests) /\ Ordered(<<h>>) /\ Led(topic, <<h>>)
      /\ \A p : InSeq(p, <<h>>) <=> p = h
  BY <1>2, <1>t, SingleLine
<1>4. bytes' \in Nat
  BY <1>1, <1>2, RequestShape
<1>5. Types'
  <2>1. Len(queue') <= QueueCapacity
    BY <1>2, <1>t, ProducerAssumption DEF IInv, Types
  <2> QED
    BY <1>0, <1>1, <1>2, <1>3, <1>4, <2>1 DEF IInv, Types
<1>6. FlowInv'
  BY <1>0, <1>1, <1>2, <1>3 DEF IInv, FlowInv, Working
<1>7. ASSUME NEW q \in Requests, Entered(q)' PROVE Entered(q)
  <2>1. q # None
    BY <1>7, RequestShape
  <2> QED
    BY <1>0, <1>1, <1>2, <1>3, <1>7, <2>1 DEF Entered
<1>8. \A p : Sent(p)' <=> Sent(p)
  BY <1>0 DEF Sent
<1>9. OutcomeInv'
  BY <1>0, <1>7, <1>8 DEF IInv, OutcomeInv
<1> QED
  BY <1>5, <1>6, <1>9 DEF IInv

(* run collects the next one, puts it aside, or goes to write.             *)
LEMMA CollectNextKeeps ==
  ASSUME IInv, CollectNext
  PROVE  IInv'
<1>0. /\ pc = "collect" /\ queue # << >> /\ queue' = Tail(queue)
      /\ UNCHANGED <<sent, waiting, outcome, answers, closed, stopping, topic, faults>>
  BY DEF CollectNext, Collecting, callVars
<1>1. PICK h : /\ h = Head(queue)
               /\ \/ pending' = h /\ pc' = "write" /\ batch' = batch /\ bytes' = bytes
                  \/ /\ batch' = Append(batch, h) /\ bytes' = bytes + Size(h)
                     /\ pending' = pending /\ pc' = pc
  BY DEF CollectNext
<1>t. /\ queue \in Seq(Requests) /\ topic \in Seq(Requests) /\ batch \in Seq(Requests)
      /\ bytes \in Nat /\ pending = None
  BY <1>0 DEF IInv, Types, FlowInv
<1>2. /\ h \in Requests /\ queue' \in Seq(Requests) /\ Len(queue') <= Len(queue)
      /\ Ordered(queue') /\ Before(<<h>>, queue')
      /\ Before(topic, queue') /\ Before(topic, <<h>>)
      /\ Before(batch, queue') /\ Before(batch, <<h>>)
      /\ \A q : InSeq(q, queue) <=> q = h \/ InSeq(q, queue')
  <2>1. Ordered(queue) /\ Before(topic, queue) /\ Before(batch, queue)
    BY <1>0 DEF IInv, FlowInv, Working
  <2> QED
    BY <1>0, <1>1, <1>t, <2>1, TailLine
<1>3. h # None /\ Size(h) \in Nat
  BY <1>2, RequestShape
<1>4. /\ Append(batch, h) \in Seq(Requests)
      /\ Ordered(Append(batch, h)) /\ Before(Append(batch, h), queue')
      /\ \A p : InSeq(p, Append(batch, h)) <=> InSeq(p, batch) \/ p = h
  BY <1>0, <1>2, <1>t, AppendLine DEF IInv, FlowInv, Working
<1>5. Led(topic, Append(batch, h))
  BY <1>0, <1>2, <1>t, AppendLed DEF IInv, FlowInv, Working
<1>6. Types'
  <2>1. Len(queue') <= QueueCapacity
    BY <1>2, <1>t, ProducerAssumption DEF IInv, Types
  <2>2. batch' \in Seq(Requests) /\ bytes' \in Nat /\ pending' \in Requests \cup {None}
        /\ pc' \in {"collect", "write"}
    <3>1. CASE pending' = h /\ pc' = "write" /\ batch' = batch /\ bytes' = bytes
      BY <1>2, <1>t, <3>1
    <3>2. CASE /\ batch' = Append(batch, h) /\ bytes' = bytes + Size(h)
               /\ pending' = pending /\ pc' = pc
      <4>1. batch' \in Seq(Requests)
        BY <1>4, <3>2
      <4>2. bytes' \in Nat
        BY <1>3, <1>t, <3>2
      <4> QED
        BY <1>0, <1>t, <3>2, <4>1, <4>2
    <3> QED
      BY <1>1, <3>1, <3>2
  <2> QED
    BY <1>0, <1>2, <2>1, <2>2 DEF IInv, Types
<1>7. FlowInv'
  <2>1. CASE pending' = h /\ pc' = "write" /\ batch' = batch
    BY <1>0, <1>2, <1>3, <2>1 DEF IInv, FlowInv, Working
  <2>2. CASE batch' = Append(batch, h) /\ pending' = pending /\ pc' = pc
    BY <1>0, <1>2, <1>4, <1>5, <1>t, <2>2 DEF IInv, FlowInv, Working
  <2> QED
    BY <1>1, <2>1, <2>2
<1>8. ASSUME NEW q \in Requests, Entered(q)' PROVE Entered(q)
  BY <1>0, <1>1, <1>2, <1>4, <1>8 DEF Entered
<1>9. \A p : Sent(p)' <=> Sent(p)
  BY <1>0 DEF Sent
<1>10. OutcomeInv'
  BY <1>0, <1>8, <1>9 DEF IInv, OutcomeInv
<1> QED
  BY <1>6, <1>7, <1>10 DEF IInv

(* The batch, or a part of it, is added to the topic.                      *)
LEMMA AddToTopic ==
  ASSUME IInv, pc = "write", NEW p \in Seq(Requests), Ordered(p),
         \A k \in DOMAIN p : \E l \in DOMAIN batch : p[k] = batch[l],
         topic' = topic \o p
  PROVE  /\ topic' \in Seq(Requests) /\ InOrder(topic') /\ Before(topic', queue)
         /\ pending # None => Before(topic', <<pending>>)
         /\ \A q : InSeq(q, topic') <=> InSeq(q, topic) \/ InSeq(q, p)
         /\ \A q : InSeq(q, p) => InSeq(q, batch)
<1>1. /\ topic \in Seq(Requests) /\ batch \in Seq(Requests)
      /\ InOrder(topic) /\ Led(topic, batch)
      /\ Before(topic, queue) /\ Before(batch, queue)
      /\ pending # None => Before(topic, <<pending>>) /\ Before(batch, <<pending>>)
  BY DEF IInv, Types, FlowInv, Working
<1>2. InOrder(topic')
  BY <1>1, WriteOrder
<1>3. \A u : Before(batch, u) => Before(p, u)
  <2>1. ASSUME NEW u, Before(batch, u), NEW i \in DOMAIN p, NEW j \in DOMAIN u
        PROVE  Precedes(p[i], u[j])
    BY <2>1 DEF Before
  <2> QED
    BY <2>1 DEF Before
<1>4. /\ topic' \in Seq(Requests)
      /\ \A q : InSeq(q, topic') <=> InSeq(q, topic) \/ InSeq(q, p)
      /\ \A u : Before(topic, u) /\ Before(p, u) => Before(topic', u)
  BY <1>1, ConcatLine
<1>5. \A q : InSeq(q, p) => InSeq(q, batch)
  BY DEF InSeq
<1> QED
  BY <1>1, <1>2, <1>3, <1>4, <1>5

(* The callers of the batch are answered.                                  *)
LEMMA Answered ==
  ASSUME NEW v, Answer(v)
  PROVE  /\ pc' = "first"
         /\ \A q : q \in DOMAIN answers' <=> q \in DOMAIN answers \/ InSeq(q, batch)
         /\ \A q \in DOMAIN answers' :
               \/ answers'[q] = v /\ InSeq(q, batch)
               \/ q \in DOMAIN answers /\ answers'[q] = answers[q]
<1> DEFINE asked == {batch[k] : k \in DOMAIN batch}
<1>1. \A q : q \in asked <=> InSeq(q, batch)
  BY DEF InSeq
<1>2. /\ answers' = [q \in DOMAIN answers \cup asked |-> IF q \in asked THEN v ELSE answers[q]]
      /\ pc' = "first"
  BY DEF Answer
<1> HIDE DEF asked
<1>3. DOMAIN answers' = DOMAIN answers \cup asked
  BY <1>2
<1>4. \A q \in DOMAIN answers' :
         (answers'[q] = v /\ q \in asked) \/ (q \in DOMAIN answers /\ answers'[q] = answers[q])
  BY <1>2
<1> QED
  BY <1>1, <1>2, <1>3, <1>4

(* A write that ends answers all requests of the batch.                    *)
LEMMA AnswerKeeps ==
  ASSUME IInv, pc = "write", NEW v \in {"ok", "error"}, Answer(v),
         NEW p \in Seq(Requests), Ordered(p),
         \A k \in DOMAIN p : \E l \in DOMAIN batch : p[k] = batch[l],
         topic' = topic \o p,
         v = "ok" => p = batch,
         faults' \in 0..MaxFaults,
         UNCHANGED <<callVars, queue, closed, stopping, pending, batch, bytes>>
  PROVE  IInv'
<1>0. UNCHANGED <<sent, waiting, outcome>>
  BY DEF callVars
<1>1. /\ topic' \in Seq(Requests) /\ InOrder(topic') /\ Before(topic', queue)
      /\ pending # None => Before(topic', <<pending>>)
      /\ \A q : InSeq(q, topic') <=> InSeq(q, topic) \/ InSeq(q, p)
      /\ \A q : InSeq(q, p) => InSeq(q, batch)
  BY AddToTopic
<1>2. /\ pc' = "first"
      /\ \A q : q \in DOMAIN answers' <=> q \in DOMAIN answers \/ InSeq(q, batch)
      /\ \A q \in DOMAIN answers' :
            \/ answers'[q] = v /\ InSeq(q, batch)
            \/ q \in DOMAIN answers /\ answers'[q] = answers[q]
  BY Answered
<1>3. \A q : InSeq(q, batch) => q \in Requests
  BY DEF InSeq, IInv, Types
<1>4. Types'
  <2>1. DOMAIN answers' \subseteq Requests
    BY <1>2, <1>3 DEF IInv, Types
  <2>2. \A q \in DOMAIN answers' : answers'[q] \in {"ok", "error"}
    BY <1>2 DEF IInv, Types
  <2> QED
    BY <1>0, <1>1, <1>2, <2>1, <2>2 DEF IInv, Types
<1>5. FlowInv'
  BY <1>1, <1>2 DEF IInv, FlowInv, Working
<1>6. ASSUME NEW q, Entered(q)' PROVE Entered(q)
  BY <1>1, <1>2, <1>6 DEF Entered
<1>7. \A q : Sent(q)' <=> Sent(q)
  BY <1>0 DEF Sent
<1>8. \A q \in DOMAIN answers' : answers'[q] = "ok" => InSeq(q, topic')
  BY <1>1, <1>2 DEF IInv, OutcomeInv
<1>9. OutcomeInv'
  BY <1>0, <1>1, <1>6, <1>7, <1>8 DEF IInv, OutcomeInv
<1> QED
  BY <1>4, <1>5, <1>9 DEF IInv

(* A write that failed leaves a prefix in the topic and is repeated.       *)
LEMMA RetryKeeps ==
  ASSUME IInv, pc = "write", NEW n \in DOMAIN batch,
         topic' = topic \o SubSeq(batch, 1, n), faults' \in 0..MaxFaults,
         UNCHANGED <<callVars, answers, queue, closed, runVars>>
  PROVE  IInv'
<1>0. UNCHANGED <<sent, waiting, outcome, pc, stopping, pending, batch, bytes>>
  BY DEF callVars, runVars
<1>1. /\ batch \in Seq(Requests) /\ Ordered(batch) /\ Led(topic, batch) /\ topic \in Seq(Requests)
  BY DEF IInv, Types, FlowInv, Working
<1>2. PICK p : p = SubSeq(batch, 1, n)
  OBVIOUS
<1>3. /\ Led(topic', batch) /\ p \in Seq(Requests) /\ Ordered(p)
      /\ \A k \in DOMAIN p : \E l \in DOMAIN batch : p[k] = batch[l]
  BY <1>1, <1>2, PrefixLed
<1>4. /\ topic' \in Seq(Requests) /\ InOrder(topic') /\ Before(topic', queue)
      /\ pending # None => Before(topic', <<pending>>)
      /\ \A q : InSeq(q, topic') <=> InSeq(q, topic) \/ InSeq(q, p)
      /\ \A q : InSeq(q, p) => InSeq(q, batch)
  BY <1>2, <1>3, AddToTopic
<1>5. Types'
  BY <1>0, <1>4 DEF IInv, Types
<1>6. FlowInv'
  BY <1>0, <1>3, <1>4 DEF IInv, FlowInv, Working
<1>7. ASSUME NEW q, Entered(q)' PROVE Entered(q)
  BY <1>0, <1>4, <1>7 DEF Entered
<1>8. \A q : Sent(q)' <=> Sent(q)
  BY <1>0 DEF Sent
<1>9. OutcomeInv'
  BY <1>0, <1>4, <1>7, <1>8 DEF IInv, OutcomeInv
<1> QED
  BY <1>5, <1>6, <1>9 DEF IInv

(* The steps that only move run, or close the client.                      *)
LEMMA MoveKeeps ==
  ASSUME IInv, pc' \in {"first", "collect", "write", "done"},
         Working' => Working, pc = "first" \/ pc' # "first",
         pc' = "write" /\ pc # "write" => pending = None,
         pc' = "collect" => pc = "collect",
         closed' \in BOOLEAN, stopping' \in BOOLEAN,
         UNCHANGED <<callVars, answers, queue, pending, batch, bytes, topic, faults>>
  PROVE  IInv'
<1>0. UNCHANGED <<sent, waiting, outcome>>
  BY DEF callVars
<1>1. Types'
  BY <1>0 DEF IInv, Types
<1>2. FlowInv'
  BY DEF IInv, FlowInv, Working
<1>3. \A q : (Entered(q)' <=> Entered(q)) /\ (Sent(q)' <=> Sent(q))
  BY <1>0 DEF Entered, Sent
<1>4. OutcomeInv'
  BY <1>0, <1>3 DEF IInv, OutcomeInv
<1> QED
  BY <1>1, <1>2, <1>4 DEF IInv

(* Every step keeps the invariant.                                         *)
LEMMA NextKeeps ==
  ASSUME IInv, [Next]_vars
  PROVE  IInv'
<1>1. ASSUME NEW c \in Conns, Skip(c) \/ Refuse(c) PROVE IInv'
  <2>1. CASE Skip(c)
    BY <2>1, DropKeeps DEF Skip
  <2>2. CASE Refuse(c)
    BY <2>2, DropKeeps DEF Refuse
  <2> QED
    BY <1>1, <2>1, <2>2
<1>2. ASSUME NEW c \in Conns, Enqueue(c) PROVE IInv'
  BY <1>2, EnqueueKeeps
<1>3. ASSUME NEW c \in Conns, Learn(c) PROVE IInv'
  BY <1>3, LearnKeeps
<1>4. CASE TakeFirst
  BY <1>4, TakeFirstKeeps
<1>5. CASE CollectNext
  BY <1>5, CollectNextKeeps
<1>6. CASE SeeStop \/ Return \/ EndCollect \/ Close
  <2>1. pc = "collect" => pending = None
    BY DEF IInv, FlowInv
  <2>2. pc \in {"first", "collect", "write", "done"} /\ closed \in BOOLEAN /\ stopping \in BOOLEAN
    BY DEF IInv, Types
  <2>3. CASE SeeStop
    BY <2>2, <2>3, MoveKeeps DEF SeeStop, Working
  <2>4. CASE Return
    BY <2>2, <2>4, MoveKeeps DEF Return, Working
  <2>5. CASE EndCollect
    BY <2>1, <2>2, <2>5, MoveKeeps DEF EndCollect, Working
  <2>6. CASE Close
    BY <2>2, <2>6, MoveKeeps DEF Close, Working, runVars
  <2> QED
    BY <1>6, <2>3, <2>4, <2>5, <2>6
<1>7. CASE Write
  <2>1. pc = "write" /\ batch \in Seq(Requests) /\ Ordered(batch) /\ faults' \in 0..MaxFaults
    BY <1>7 DEF Write, IInv, Types, FlowInv, Working
  <2>2. \A k \in DOMAIN batch : \E l \in DOMAIN batch : batch[k] = batch[l]
    OBVIOUS
  <2> QED
    BY <1>7, <2>1, <2>2, AnswerKeeps DEF Write
<1>8. CASE WriteFails
  <2>1. /\ pc = "write" /\ faults' \in 0..MaxFaults
        /\ UNCHANGED <<callVars, queue, closed, stopping, pending, batch, bytes>>
        /\ batch \in Seq(Requests) /\ Ordered(batch)
    BY <1>8, ProducerAssumption DEF WriteFails, IInv, Types, FlowInv, Working
  <2>2. ASSUME NEW n \in DOMAIN batch, topic' = topic \o SubSeq(batch, 1, n),
               UNCHANGED <<answers, pc>>
        PROVE  IInv'
    BY <2>1, <2>2, RetryKeeps DEF runVars
  <2>3. ASSUME NEW n \in 0..Len(batch), NEW at \in [1..n -> DOMAIN batch],
               \A i, j \in 1..n : i < j => at[i] < at[j],
               topic' = topic \o [i \in 1..n |-> batch[at[i]]],
               Answer("error")
        PROVE  IInv'
    <3>1. PICK p : p = [i \in 1..n |-> batch[at[i]]]
      OBVIOUS
    <3>2. /\ p \in Seq(Requests) /\ Ordered(p)
          /\ \A k \in DOMAIN p : \E l \in DOMAIN batch : p[k] = batch[l]
      BY <2>1, <2>3, <3>1, ChosenLine
    <3> QED
      BY <2>1, <2>3, <3>1, <3>2, AnswerKeeps
  <2> QED
    BY <1>8, <2>2, <2>3 DEF WriteFails
<1>9. CASE UNCHANGED vars
  <2>1. UNCHANGED <<sent, waiting, outcome, answers, queue, closed, pc, stopping, pending, batch,
                    bytes, topic, faults>>
    BY <1>9 DEF vars, callVars, runVars
  <2>2. Types'
    BY <2>1 DEF IInv, Types
  <2>3. FlowInv'
    BY <2>1 DEF IInv, FlowInv, Working
  <2>4. \A q : (Entered(q)' <=> Entered(q)) /\ (Sent(q)' <=> Sent(q))
    BY <2>1 DEF Entered, Sent
  <2>5. OutcomeInv'
    BY <2>1, <2>4 DEF IInv, OutcomeInv
  <2> QED
    BY <2>2, <2>3, <2>5 DEF IInv
<1> QED
  BY <1>1, <1>2, <1>3, <1>4, <1>5, <1>6, <1>7, <1>8, <1>9 DEF Next, RunStep

(* The empty producer satisfies it.                                        *)
LEMMA InitInv ==
  ASSUME Init
  PROVE  IInv
<1>1. /\ sent = [c \in Conns |-> 0] /\ waiting = [c \in Conns |-> FALSE]
      /\ DOMAIN outcome = {} /\ DOMAIN answers = {} /\ queue = << >> /\ closed = FALSE
      /\ pc = "first" /\ stopping = FALSE /\ pending = None /\ batch = << >> /\ bytes = 0
      /\ topic = << >> /\ faults = 0
  BY DEF Init, Empty
<1>2. \A c \in Conns : Len(Script[c]) \in Nat
  <2>1. ASSUME NEW c \in Conns PROVE Len(Script[c]) \in Nat
    <3>1. Script[c] \in Seq([size : Nat \ {0}, formed : BOOLEAN])
      BY ProducerAssumption
    <3> QED
      BY <3>1
  <2> QED
    BY <2>1
<1>3. Types
  <2>1. /\ sent \in [Conns -> Int] /\ waiting \in [Conns -> BOOLEAN]
        /\ \A c \in Conns : sent[c] \in 0..Len(Script[c]) /\ ~waiting[c]
    BY <1>1, <1>2
  <2>2. << >> \in Seq(Requests) /\ Len(<< >>) <= QueueCapacity /\ 0 \in 0..MaxFaults
    BY ProducerAssumption
  <2> QED
    BY <1>1, <2>1, <2>2 DEF Types
<1>4. FlowInv
  BY <1>1 DEF FlowInv, Working, Ordered, Before, InOrder
<1>5. ASSUME NEW q \in Requests PROVE ~Entered(q)
  BY <1>1, RequestShape DEF Entered, InSeq
<1>6. OutcomeInv
  BY <1>1, <1>5 DEF OutcomeInv
<1> QED
  BY <1>3, <1>4, <1>6 DEF IInv

-----------------------------------------------------------------------------
(* The theorems *)

(* The invariant holds of every state: queue, request put aside, batch and *)
(* topic are one line in the order sent, and what has entered it has not   *)
(* been refused.                                                           *)
THEOREM Inductive == Spec => []IInv
<1>1. Init => IInv
  BY InitInv
<1>2. IInv /\ [Next]_vars => IInv'
  BY NextKeeps
<1> QED
  BY <1>1, <1>2, PTL DEF Spec

(* Every variable keeps its type; the queue channel keeps its capacity.    *)
THEOREM TypeCorrect == Spec => []TypeOK
<1>1. IInv => TypeOK
  BY DEF IInv, Types, TypeOK
<1> QED
  BY <1>1, Inductive, PTL

(* What one connection sends enters the topic in the order it was sent,    *)
(* through full batches, requests put aside, callers who gave up and       *)
(* writes that failed half way or were repeated (MessageClient.run).       *)
THEOREM SenderOrderHolds == Spec => []SenderOrder
<1>1. IInv => SenderOrder
  BY DEF IInv, FlowInv, InOrder, SenderOrder
<1> QED
  BY <1>1, Inductive, PTL

(* A sender whose call returned no error finds its message in the topic,   *)
(* one that was refused or skipped leaves nothing in the queue, the batch  *)
(* or the topic (HandleIncomingMessageAt, ReadPump).                       *)
THEOREM OutcomeIsTrueHolds == Spec => []OutcomeIsTrue
<1>1. ASSUME IInv, NEW q \in DOMAIN outcome
      PROVE  /\ outcome[q] = "ok" => InTopic(q)
             /\ outcome[q] \in {"refused", "skipped"} => ~InTopic(q) /\ q \notin Taken
  <2>1. outcome[q] = "ok" => InTopic(q)
    BY <1>1 DEF IInv, OutcomeInv, InSeq, InTopic
  <2>2. ASSUME outcome[q] \in {"refused", "skipped"} PROVE ~InTopic(q) /\ q \notin Taken
    <3>1. ~Entered(q)
      BY <1>1, <2>2 DEF IInv, OutcomeInv, Types
    <3> QED
      BY <3>1 DEF Entered, InSeq, InTopic, Taken
  <2> QED
    BY <2>1, <2>2
<1>2. IInv => OutcomeIsTrue
  BY <1>1 DEF OutcomeIsTrue
<1> QED
  BY <1>2, Inductive, PTL

=============================================================================
