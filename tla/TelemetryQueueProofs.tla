------------------------- MODULE TelemetryQueueProofs -------------------------
(* Theorems about TelemetryQueue for any number of recorders, any capacity,  *)
(* batch size and number of records: what the collector stores is in order   *)
(* and once, and what the queue holds is a run that ends at the last record, *)
(* although a batch is on the network while records are added and cleared.   *)
EXTENDS TelemetryQueue, SequenceTheorems, WellFoundedInduction, TLAPS

\* The records that wait are the newest ones, without a gap.
QueueInv ==
    /\ Len(queue) <= MaxQueued /\ Len(queue) <= made
    /\ \A i \in 1..Len(queue) : queue[i] = made - Len(queue) + i

\* A batch on its way: what was the head of the queue when it was read.
BatchInv ==
    flusher \in {"post", "drop"} =>
      /\ batch # <<>>
      /\ \A i \in 1..Len(batch) : batch[i] = batch[1] + i - 1
      /\ \A r \in ToSet(queue) : batch[1] <= r

\* Nothing that is older than a stored record is still to be stored.
Caught(records) ==
    \A i \in ToSet(records), r \in ToSet(rows) : i <= r => i \in ToSet(rows)

RowsInv ==
    /\ Increasing(rows) /\ Caught(queue)
    /\ flusher = "post" => Caught(batch)

\* Sending was on all the time and the queue never full.
Roomy == made <= MaxQueued /\ on /\ switched = 0

\* Then nothing but an answer takes a record from the queue.
RoomInv ==
    /\ switch = "clear" => ~on
    /\ ~on => switched < MaxSwitches
    /\ Roomy =>
         /\ \A i \in 1..made : i \in ToSet(queue) \cup ToSet(rows) \cup dropped
         /\ flusher \in {"post", "drop"} =>
               Len(batch) <= Len(queue) /\ batch[1] = queue[1]
         /\ flusher = "drop" => ToSet(batch) \subseteq ToSet(rows) \cup dropped

QInv == TypeOK /\ QueueInv /\ BatchInv /\ RowsInv /\ RoomInv
------------------------------------------------------------------------------
(* Sequences and counting.                                                    *)

\* Induction over 0..N for a set of numbers.
LEMMA Counting ==
  ASSUME NEW N \in Nat, NEW T, 0 \in T, \A n \in 0..(N - 1) : n \in T => n + 1 \in T
  PROVE  0..N \subseteq T
<1> SUFFICES ASSUME ~ (0..N \subseteq T) PROVE FALSE
  OBVIOUS
<1> DEFINE U == 0..N \ T
<1>1. U \subseteq Nat /\ U # {}
  OBVIOUS
<1>2. PICK x \in U : \A y \in U : ~ (<<y, x>> \in OpToRel(<, Nat))
  <2> HIDE DEF U
  <2> QED BY <1>1, NatLessThanWellFounded, WFMin
<1>3. x # 0 /\ x - 1 \in 0..(N - 1)
  OBVIOUS
<1>4. x - 1 \notin U
  <2>1. x - 1 < x /\ x - 1 \in Nat /\ x \in Nat
    BY <1>3
  <2>2. <<x - 1, x>> \in OpToRel(<, Nat)
    BY <2>1 DEF OpToRel
  <2> QED BY <1>2, <2>2
<1> QED BY <1>3, <1>4

\* Stored is the last of a sequence of tables, one insert after another.
LEMMA StoredSteps ==
  ASSUME NEW s \in Seq(Nat), rows \in Seq(Nat)
  PROVE  \E f \in [0..Len(s) -> Seq(Nat)] :
            /\ f[0] = rows /\ Stored(s) = f[Len(s)]
            /\ \A n \in 1..Len(s) : f[n] = IF s[n] \in ToSet(f[n - 1]) THEN f[n - 1]
                                           ELSE Append(f[n - 1], s[n])
<1> DEFINE Body(f, n) == IF n = 0 THEN rows
            ELSE IF s[n] \in ToSet(f[n - 1]) THEN f[n - 1]
            ELSE Append(f[n - 1], s[n])
<1> DEFINE N == Len(s)
<1> DEFINE T == {n \in 0..N : \E f \in [0..n -> Seq(Nat)] : \A i \in 0..n : f[i] = Body(f, i)}
<1>0. N \in Nat OBVIOUS
<1>1. 0 \in T
  <2>1. [i \in 0..0 |-> rows] \in [0..0 -> Seq(Nat)]
    OBVIOUS
  <2> DEFINE g == [i \in 0..0 |-> rows]
  <2>2. \A i \in 0..0 : g[i] = Body(g, i)
    OBVIOUS
  <2>3. g \in [0..0 -> Seq(Nat)]
    BY <2>1
  <2> HIDE DEF g, Body
  <2> QED BY <2>2, <2>3, <1>0
<1>2. ASSUME NEW n \in 0..(N - 1), n \in T PROVE n + 1 \in T
  <2>1. PICK f \in [0..n -> Seq(Nat)] : \A i \in 0..n : f[i] = Body(f, i)
    BY <1>2
  <2> DEFINE g == [i \in 0..(n + 1) |-> IF i = n + 1 THEN Body(f, n + 1) ELSE f[i]]
  <2>2. Body(f, n + 1) \in Seq(Nat)
    <3>1. f[n] \in Seq(Nat) /\ s[n + 1] \in Nat
      BY <1>0
    <3>2. Append(f[n], s[n + 1]) \in Seq(Nat)
      BY <3>1
    <3> QED BY <3>1, <3>2
  <2>3. g \in [0..(n + 1) -> Seq(Nat)]
    <3> HIDE DEF Body
    <3> QED BY <2>2
  <2>4. \A i \in 0..n : g[i] = f[i]
    <3> HIDE DEF Body
    <3> QED OBVIOUS
  <2>5. ASSUME NEW i \in 0..(n + 1) PROVE g[i] = Body(g, i)
    <3>1. i = 0 \/ (i - 1 \in 0..n /\ g[i - 1] = f[i - 1])
      BY <2>4
    <3>2. Body(g, i) = Body(f, i)
      <4> HIDE DEF g
      <4> QED BY <3>1
    <3>3. g[i] = Body(f, i)
      <4> HIDE DEF Body
      <4> QED BY <2>1
    <3> QED BY <3>2, <3>3
  <2>6. \A i \in 0..(n + 1) : g[i] = Body(g, i)
    BY <2>5
  <2>7. n + 1 \in 0..N
    BY <1>0
  <2> HIDE DEF g, Body, N
  <2> QED BY <2>3, <2>6, <2>7
<1>3. N \in T
  <2> HIDE DEF T, N
  <2>1. 0..N \subseteq T
    BY <1>0, <1>1, <1>2, Counting
  <2> QED BY <1>0, <2>1
<1>4. PICK f \in [0..N -> Seq(Nat)] : \A i \in 0..N : f[i] = Body(f, i)
  BY <1>3
<1>5. f = [n \in 0..Len(s) |-> Body(f, n)]
  <2> HIDE DEF Body
  <2> QED BY <1>4
<1> DEFINE h == CHOOSE g : g = [n \in 0..Len(s) |-> Body(g, n)]
<1>6. h = [n \in 0..Len(s) |-> Body(h, n)] /\ Stored(s) = h[Len(s)]
  BY <1>5 DEF Stored
<1>7. \A n \in 0..N : h[n] = Body(h, n)
  <2> HIDE DEF h, Body
  <2> QED BY <1>6
<1> DEFINE W == {n \in 0..N : h[n] \in Seq(Nat)}
<1>8. 0 \in W /\ \A n \in 0..(N - 1) : n \in W => n + 1 \in W
  <2> HIDE DEF h
  <2>1. h[0] = rows 
    BY <1>7, <1>0
  <2>2. ASSUME NEW n \in 0..(N - 1), n \in W PROVE n + 1 \in W
    <3>1. h[n] \in Seq(Nat) /\ s[n + 1] \in Nat
      BY <1>0, <2>2
    <3>2. Append(h[n], s[n + 1]) \in Seq(Nat)
      BY <3>1
    <3>3. h[n + 1] = Body(h, n + 1) /\ n + 1 # 0 /\ (n + 1) - 1 = n /\ n + 1 \in 0..N
      BY <1>0, <1>7
    <3>4. h[n + 1] = h[n] \/ h[n + 1] = Append(h[n], s[n + 1])
      BY <3>3
    <3> QED BY <3>1, <3>2, <3>3, <3>4
  <2> QED BY <2>1, <2>2, <1>0
<1>9. 0..N \subseteq W
  <2> HIDE DEF W, N
  <2> QED BY <1>0, <1>8, Counting
<1>10. h \in [0..N -> Seq(Nat)]
  <2> HIDE DEF h, Body
  <2>1. h = [n \in 0..N |-> Body(h,n)]
   BY <1>6
  <2> QED BY <2>1, <1>9
<1>11. h[0] = rows /\ \A n \in 1..N : h[n] = IF s[n] \in ToSet(h[n - 1]) THEN h[n - 1] ELSE Append(h[n - 1], s[n])
  <2> HIDE DEF h
  <2> QED BY <1>7, <1>0
<1> HIDE DEF h
<1> QED BY <1>6, <1>10, <1>11

\* The elements of a sequence and where they are.
LEMMA Elements ==
  ASSUME NEW S, NEW s \in Seq(S)
  PROVE  /\ Len(s) \in Nat /\ DOMAIN s = 1..Len(s) /\ ToSet(s) \subseteq S
         /\ \A i \in 1..Len(s) : s[i] \in S /\ s[i] \in ToSet(s)
         /\ ToSet(s) = {s[i] : i \in 1..Len(s)}
<1>1. Len(s) \in Nat /\ DOMAIN s = 1..Len(s)
  BY LenProperties
<1>2. \A i \in 1..Len(s) : s[i] \in S
  BY ElementOfSeq
<1> QED BY <1>1, <1>2 DEF ToSet

\* The last n elements of a sequence.
LEMMA NewestIs ==
  ASSUME NEW S, NEW s \in Seq(S), NEW n \in 0..Len(s)
  PROVE  /\ Newest(s, n) \in Seq(S) /\ Len(Newest(s, n)) = n
         /\ \A i \in 1..n : Newest(s, n)[i] = s[Len(s) - n + i]
<1> DEFINE m == Len(s) - n + 1
<1>1. Len(s) \in Nat /\ n \in Nat /\ n <= Len(s)
  BY Elements
<1>2. m \in Int /\ m >= 1 /\ m <= Len(s) + 1 /\ Len(s) - m + 1 = n
  BY <1>1
<1>3. \A i \in m..Len(s) : s[i] \in S
  <2> HIDE DEF m
  <2>1. \A i \in m..Len(s) : i \in 1..Len(s)
    BY <1>1, <1>2
  <2> QED BY <2>1, Elements
<1>4. /\ SubSeq(s, m, Len(s)) \in Seq(S)
      /\ Len(SubSeq(s, m, Len(s))) = IF m <= Len(s) THEN Len(s) - m + 1 ELSE 0
      /\ \A i \in 1..(Len(s) - m + 1) : SubSeq(s, m, Len(s))[i] = s[m + i - 1]
  <2> HIDE DEF m
  <2> QED BY <1>1, <1>2, <1>3, SubSeqProperties
<1>5. \A i \in 1..n : m + i - 1 = Len(s) - n + i
  BY <1>1
<1>6. Newest(s, n) = SubSeq(s, m, Len(s))
  BY DEF Newest
<1>7. Len(Newest(s, n)) = n
  <2> HIDE DEF m
  <2> QED BY <1>1, <1>2, <1>4, <1>6
<1> HIDE DEF m
<1> QED BY <1>2, <1>4, <1>5, <1>6, <1>7

\* What is left of a sequence without its first n elements.
LEMMA AfterIs ==
  ASSUME NEW S, NEW s \in Seq(S), NEW n \in Nat
  PROVE  /\ After(s, n) \in Seq(S)
         /\ Len(After(s, n)) = IF n <= Len(s) THEN Len(s) - n ELSE 0
         /\ \A i \in 1..Len(After(s, n)) : After(s, n)[i] = s[n + i]
<1>1. Len(s) \in Nat /\ \A i \in (n + 1)..Len(s) : s[i] \in S
  <2>1. Len(s) \in Nat /\ \A i \in (n + 1)..Len(s) : i \in 1..Len(s)
    BY Elements
  <2> QED BY <2>1, Elements
<1>2. /\ After(s, n) \in Seq(S)
      /\ Len(After(s, n)) = IF n + 1 <= Len(s) THEN Len(s) - (n + 1) + 1 ELSE 0
      /\ \A i \in 1..(Len(s) - (n + 1) + 1) : After(s, n)[i] = s[(n + 1) + i - 1]
  BY <1>1, SubSeqProperties DEF After
<1>3. \A i \in Nat : (n + 1) + i - 1 = n + i
  OBVIOUS
<1>4. Len(After(s, n)) = IF n <= Len(s) THEN Len(s) - n ELSE 0
  BY <1>1, <1>2
<1>5. \A i \in 1..Len(After(s, n)) : i \in 1..(Len(s) - (n + 1) + 1)
  BY <1>1, <1>4
<1> QED BY <1>2, <1>3, <1>4, <1>5

\* The first n elements of a sequence.
LEMMA FirstAre ==
  ASSUME NEW S, NEW s \in Seq(S), NEW n \in 0..Len(s)
  PROVE  /\ SubSeq(s, 1, n) \in Seq(S) /\ Len(SubSeq(s, 1, n)) = n
         /\ \A i \in 1..n : SubSeq(s, 1, n)[i] = s[i]
<1>1. Len(s) \in Nat /\ n \in Nat /\ \A i \in 1..n : s[i] \in S
  BY Elements
<1>2. /\ SubSeq(s, 1, n) \in Seq(S)
      /\ Len(SubSeq(s, 1, n)) = IF 1 <= n THEN n - 1 + 1 ELSE 0
      /\ \A i \in 1..(n - 1 + 1) : SubSeq(s, 1, n)[i] = s[1 + i - 1]
  BY <1>1, SubSeqProperties
<1>3. \A i \in 1..n : SubSeq(s, 1, n)[i] = s[i]
  BY <1>1, <1>2
<1>4. Len(SubSeq(s, 1, n)) = n
  BY <1>1, <1>2
<1> QED BY <1>2, <1>3, <1>4

\* A record later than all others keeps a sequence increasing.
LEMMA AppendLater ==
  ASSUME NEW s \in Seq(Nat), NEW x \in Nat, Increasing(s), \A y \in ToSet(s) : y < x
  PROVE  Increasing(Append(s, x)) /\ ToSet(Append(s, x)) = ToSet(s) \cup {x}
<1> DEFINE t == Append(s, x)
<1>1. /\ t \in Seq(Nat) /\ Len(t) = Len(s) + 1 /\ t[Len(s) + 1] = x
      /\ \A i \in 1..Len(s) : t[i] = s[i]
  BY AppendProperties
<1> HIDE DEF t
<1>2. /\ Len(s) \in Nat /\ ToSet(s) = {s[i] : i \in 1..Len(s)}
      /\ \A i \in 1..Len(s) : s[i] \in Nat /\ s[i] \in ToSet(s)
  BY Elements
<1>3. ToSet(t) = {t[i] : i \in 1..Len(t)}
  BY <1>1, Elements
<1>4. ToSet(t) = ToSet(s) \cup {x}
  <2>1. 1..Len(t) = 1..Len(s) \cup {Len(s) + 1}
    BY <1>1, <1>2
  <2>2. ToSet(t) = {t[i] : i \in 1..Len(s)} \cup {x}
    BY <1>1, <1>3, <2>1
  <2>3. {t[i] : i \in 1..Len(s)} = {s[i] : i \in 1..Len(s)}
    BY <1>1
  <2> QED BY <1>2, <2>2, <2>3
<1>5. ASSUME NEW i \in 1..Len(t), NEW j \in 1..Len(t), i < j PROVE t[i] < t[j]
  <2>1. i \in 1..Len(s) /\ t[i] = s[i]
    BY <1>1, <1>2, <1>5
  <2>2. CASE j = Len(s) + 1
    BY <2>1, <2>2, <1>1, <1>2
  <2>3. CASE j # Len(s) + 1
    <3>1. j \in 1..Len(s) /\ t[j] = s[j]
      BY <2>3, <1>1, <1>2
    <3> QED BY <2>1, <3>1, <1>5 DEF Increasing
  <2> QED BY <2>2, <2>3
<1>6. Increasing(t)
  BY <1>5 DEF Increasing
<1> QED BY <1>4, <1>6 DEF t
\* The elements of a run of consecutive records.
LEMMA RunSet ==
  ASSUME NEW s \in Seq(Nat), NEW m \in Int, \A i \in 1..Len(s) : s[i] = m + i
  PROVE  ToSet(s) = (m + 1)..(m + Len(s))
<1>1. ASSUME NEW x \in ToSet(s) PROVE x \in (m + 1)..(m + Len(s))
  BY DEF ToSet
<1>2. ASSUME NEW x \in (m + 1)..(m + Len(s)) PROVE x \in ToSet(s)
  <2>1. x - m \in 1..Len(s) /\ s[x - m] = x
    OBVIOUS
  <2> QED BY <2>1 DEF ToSet
<1> QED BY <1>1, <1>2

\* What is made of the first m records is made of the first n.
LEMMA MoreRecords ==
  ASSUME NEW m \in Nat, NEW n \in Nat, m <= n, NEW s \in Seq(1..m)
  PROVE  s \in Seq(1..n)
  OBVIOUS

\* Recording: the queue grows by the new record, or moves on by one when it is full.
LEMMA AppendIs ==
  ASSUME QInv, NEW r \in Recorders, AppendRecord(r)
  PROVE  /\ queue' \in Seq(1..made') /\ dropped' \subseteq 1..made'
         /\ Len(queue') = IF Len(queue) = MaxQueued THEN MaxQueued ELSE Len(queue) + 1
         /\ \A i \in 1..Len(queue') : queue'[i] = made' - Len(queue') + i
         /\ dropped \subseteq dropped'
<1>1. made \in Nat /\ queue \in Seq(1..made) /\ dropped \subseteq 1..made /\ MaxQueued \in Nat
  BY ConstantsAssumption DEF QInv, TypeOK
<1>2. Len(queue) \in Nat /\ Len(queue) <= MaxQueued
  BY <1>1, Elements DEF QInv, QueueInv
<1>3. made' = made + 1
  BY DEF AppendRecord
<1>4. PICK longer \in Seq(1..made') : longer = Append(queue, made + 1)
  <2>1. queue \in Seq(1..made') /\ made + 1 \in 1..made'
    BY <1>1, <1>3, MoreRecords
  <2> QED BY <2>1, AppendProperties
<1>5. /\ Len(longer) = Len(queue) + 1
      /\ \A i \in 1..Len(longer) : longer[i] = made - Len(queue) + i
  <2>1. queue \in Seq(1..made')
    BY <1>1, <1>3, MoreRecords
  <2>2. /\ Len(longer) = Len(queue) + 1 /\ longer[Len(queue) + 1] = made + 1
        /\ \A i \in 1..Len(queue) : longer[i] = queue[i]
    BY <1>1, <1>3, <1>4, <2>1, AppendProperties
  <2>3. \A i \in 1..Len(queue) : queue[i] = made - Len(queue) + i
    BY DEF QInv, QueueInv
  <2>4. ASSUME NEW i \in 1..Len(longer) PROVE longer[i] = made - Len(queue) + i
    <3>1. i \in 1..Len(queue) \/ i = Len(queue) + 1
      BY <1>2, <2>2
    <3>2. \A a, b \in Nat : a - b + (b + 1) = a + 1
      OBVIOUS
    <3> QED BY <1>1, <1>2, <2>2, <2>3, <3>1, <3>2
  <2> QED BY <2>2, <2>4
<1>6. PICK n \in 0..Len(longer) :
         /\ n = IF Len(longer) > MaxQueued THEN MaxQueued ELSE Len(longer)
         /\ n = IF Len(queue) = MaxQueued THEN MaxQueued ELSE Len(queue) + 1
  BY <1>1, <1>2, <1>5
<1>7. queue' = Newest(longer, n) /\ dropped' = dropped \cup (ToSet(longer) \ ToSet(queue'))
  BY <1>4, <1>6 DEF AppendRecord
<1>8. /\ queue' \in Seq(1..made') /\ Len(queue') = n
      /\ \A i \in 1..n : queue'[i] = longer[Len(longer) - n + i]
  BY <1>7, NewestIs
<1>9. ASSUME NEW i \in 1..n PROVE queue'[i] = made' - n + i
  <2>1. Len(longer) - n + i \in 1..Len(longer)
    BY <1>2, <1>5
  <2>2. longer[Len(longer) - n + i] = made - Len(queue) + (Len(longer) - n + i)
    BY <2>1, <1>5
  <2>3. i \in Int /\ n \in Int
    OBVIOUS
  <2>4. \A a, b, c, d \in Int : a - b + ((b + 1) - c + d) = (a + 1) - c + d
    OBVIOUS
  <2>5. made - Len(queue) + ((Len(queue) + 1) - n + i) = (made + 1) - n + i
    BY <1>1, <1>2, <2>3, <2>4
  <2>6. queue'[i] = longer[Len(longer) - n + i]
    BY <1>8
  <2> QED BY <2>2, <2>5, <2>6, <1>3, <1>5
<1>10. dropped' \subseteq 1..made' /\ dropped \subseteq dropped'
  <2>1. ToSet(longer) \subseteq 1..made'
    BY Elements
  <2>2. 1..made \subseteq 1..made'
    BY <1>1, <1>3
  <2> QED BY <1>1, <1>7, <2>1, <2>2
<1> QED BY <1>6, <1>8, <1>9, <1>10

\* Dropping a batch leaves a shorter run that still ends at the last record.
LEMMA DropIs ==
  ASSUME QInv, DropBatch
  PROVE  /\ queue' \in Seq(1..made')
         /\ Len(queue') = IF Len(batch) <= Len(queue) THEN Len(queue) - Len(batch) ELSE 0
         /\ \A i \in 1..Len(queue') : queue'[i] = made - Len(queue') + i
<1>1. /\ made' = made /\ made \in Nat /\ Len(batch) \in Nat /\ Len(queue) \in Nat
      /\ queue \in Seq(1..made) /\ queue' = After(queue, Len(batch))
  BY ConstantsAssumption, Elements DEF DropBatch, QInv, TypeOK
<1>2. /\ queue' \in Seq(1..made)
      /\ Len(queue') = IF Len(batch) <= Len(queue) THEN Len(queue) - Len(batch) ELSE 0
      /\ \A i \in 1..Len(queue') : queue'[i] = queue[Len(batch) + i]
  BY <1>1, AfterIs
<1>3. ASSUME NEW i \in 1..Len(queue') PROVE queue'[i] = made - Len(queue') + i
  <2>a. i \in Int /\ i >= 1 /\ i <= Len(queue')
    BY <1>2, Elements
  <2>1. Len(batch) <= Len(queue) /\ Len(queue') = Len(queue) - Len(batch)
    BY <1>1, <1>2, <2>a
  <2>b. Len(batch) + i \in 1..Len(queue)
    BY <1>1, <2>a, <2>1
  <2>2. queue[Len(batch) + i] = made - Len(queue) + (Len(batch) + i)
    BY <2>b DEF QInv, QueueInv
  <2>4. \A a, b, c, d \in Int : a - b + (c + d) = a - (b - c) + d
    OBVIOUS
  <2>5. made - Len(queue) + (Len(batch) + i) = made - (Len(queue) - Len(batch)) + i
    BY <1>1, <2>a, <2>4
  <2>6. queue'[i] = queue[Len(batch) + i]
    BY <1>2
  <2> QED BY <2>1, <2>2, <2>5, <2>6
<1> QED BY <1>1, <1>2, <1>3

\* A batch that is read is the head of the queue.
LEMMA ReadIs ==
  ASSUME QInv, ReadBatch
  PROVE  /\ batch' \in Seq(1..made) /\ Len(batch') <= Len(queue)
         /\ queue # <<>> => batch' # <<>> /\ Len(batch') >= 1
         /\ \A i \in 1..Len(batch') : batch'[i] = queue[i]
<1>1. Len(queue) \in Nat /\ queue \in Seq(1..made) /\ (queue # <<>> => Len(queue) >= 1)
  BY Elements, EmptySeq DEF QInv, TypeOK
<1>2. PICK n \in 0..Len(queue) :
         n = (IF Len(queue) < BatchSize THEN Len(queue) ELSE BatchSize) /\ (queue # <<>> => n >= 1)
  BY <1>1, ConstantsAssumption
<1>3. batch' = SubSeq(queue, 1, n)
  BY <1>2 DEF ReadBatch
<1>4. batch' \in Seq(1..made) /\ Len(batch') = n /\ \A i \in 1..n : batch'[i] = queue[i]
  BY <1>1, <1>3, FirstAre
<1>5. batch' = <<>> => Len(batch') = 0
  BY EmptySeq
<1> QED BY <1>1, <1>2, <1>4, <1>5

\* Inserting a run that is caught up with keeps the table in order.
LEMMA StoredRecords ==
  ASSUME rows \in Seq(Nat), Increasing(rows), NEW s \in Seq(Nat),
         \A i \in 1..Len(s) : s[i] = s[1] + i - 1, Caught(s)
  PROVE  /\ Increasing(Stored(s)) /\ Stored(s) \in Seq(Nat)
         /\ ToSet(Stored(s)) = ToSet(rows) \cup ToSet(s)
<1>1. PICK f \in [0..Len(s) -> Seq(Nat)] :
         /\ f[0] = rows /\ Stored(s) = f[Len(s)]
         /\ \A n \in 1..Len(s) : f[n] = IF s[n] \in ToSet(f[n - 1]) THEN f[n - 1]
                                        ELSE Append(f[n - 1], s[n])
  BY StoredSteps
<1>2. /\ Len(s) \in Nat /\ ToSet(s) = {s[i] : i \in 1..Len(s)}
      /\ \A i \in 1..Len(s) : s[i] \in Nat /\ s[i] \in ToSet(s)
      /\ \A x \in ToSet(rows) : x \in Nat
  BY Elements
<1> DEFINE Upto(n) == {s[i] : i \in 1..n}
           T == {n \in 0..Len(s) : Increasing(f[n]) /\ ToSet(f[n]) = ToSet(rows) \cup Upto(n)}
<1>3. 0 \in T
  BY <1>1, <1>2
<1>4. ASSUME NEW n \in 0..(Len(s) - 1), n \in T PROVE n + 1 \in T
  <2>1. n + 1 \in 1..Len(s) /\ n + 1 \in 0..Len(s) /\ (n + 1) - 1 = n /\ n \in 0..Len(s) /\ n \in Nat
    BY <1>2
  <2>2. f[n] \in Seq(Nat) /\ s[n + 1] \in Nat
    BY <1>2, <2>1
  <2>3. Increasing(f[n]) /\ ToSet(f[n]) = ToSet(rows) \cup Upto(n)
    BY <1>4
  <2>4. Upto(n + 1) = Upto(n) \cup {s[n + 1]}
    <3>1. 1..(n + 1) = 1..n \cup {n + 1}
      BY <2>1
    <3> QED BY <3>1
  <2>5. f[n + 1] = IF s[n + 1] \in ToSet(f[n]) THEN f[n] ELSE Append(f[n], s[n + 1])
    BY <1>1, <2>1
  <2>6. \A x \in Upto(n) : x < s[n + 1]
    <3>1. ASSUME NEW i \in 1..n PROVE s[i] < s[n + 1]
      <4>1. i \in 1..Len(s) /\ 1 \in 1..Len(s) /\ i \in Nat
        BY <1>2, <2>1
      <4>2. s[i] = s[1] + i - 1 /\ s[n + 1] = s[1] + (n + 1) - 1 /\ s[1] \in Nat
        BY <4>1, <2>1, <1>2
      <4>3. \A a, b, c \in Nat : b <= c => a + b - 1 < a + (c + 1) - 1
        OBVIOUS
      <4>4. i <= n
        BY <2>1
      <4> HIDE DEF Upto, T
      <4> QED BY <2>1, <4>1, <4>2, <4>3, <4>4
    <3> QED BY <3>1
  <2> HIDE DEF Upto
  <2>7. s[n + 1] \notin ToSet(rows) => \A x \in ToSet(rows) : x < s[n + 1]
    <3>1. s[n + 1] \in ToSet(s)
      BY <1>2, <2>1
    <3>2. \A x \in ToSet(rows) : s[n + 1] <= x => s[n + 1] \in ToSet(rows)
      BY <3>1 DEF Caught
    <3>3. \A x \in Nat : ~ (s[n + 1] <= x) => x < s[n + 1]
      BY <2>2
    <3> QED BY <1>2, <3>2, <3>3
  <2>8. Increasing(f[n + 1]) /\ ToSet(f[n + 1]) = ToSet(f[n]) \cup {s[n + 1]}
    <3>1. CASE s[n + 1] \in ToSet(f[n])
      BY <2>3, <2>5, <3>1
    <3>2. CASE s[n + 1] \notin ToSet(f[n])
      <4>1. \A x \in ToSet(f[n]) : x < s[n + 1]
        BY <2>3, <2>6, <2>7, <3>2
      <4>2. f[n + 1] = Append(f[n], s[n + 1])
        BY <2>5, <3>2
      <4> QED BY <2>2, <2>3, <4>1, <4>2, AppendLater
    <3> QED BY <3>1, <3>2
  <2> QED BY <2>1, <2>3, <2>4, <2>8
<1>5. Len(s) \in T
  <2>1. 0..Len(s) \subseteq T
    <3> HIDE DEF T
    <3> QED BY <1>2, <1>3, <1>4, Counting
  <2>2. Len(s) \in 0..Len(s)
    BY <1>2
  <2> HIDE DEF T
  <2> QED BY <2>1, <2>2
<1>6. Stored(s) \in Seq(Nat)
  BY <1>1, <1>2
<1> QED BY <1>1, <1>2, <1>5, <1>6

\* A sequence whose elements are all in S is a sequence over S.
LEMMA InSet ==
  ASSUME NEW S, NEW R, NEW s \in Seq(R), ToSet(s) \subseteq S
  PROVE  s \in Seq(S)
<1>1. /\ Len(s) \in Nat /\ s \in [1..Len(s) -> R]
      /\ \A i \in 1..Len(s) : s[i] \in S
  BY Elements, LenProperties
<1>2. s \in [1..Len(s) -> S]
  BY <1>1
<1> QED BY <1>1, <1>2, SeqDef

\* So the collector's answer to a batch does.
LEMMA StoredBatch ==
  ASSUME QInv, NEW answered, PostAccepted(answered)
  PROVE  rows' \in Seq(Nat) /\ Increasing(rows') /\ ToSet(rows') = ToSet(rows) \cup ToSet(batch)
<1>1. rows \in Seq(Nat) /\ batch \in Seq(Nat)
  BY DEF QInv, TypeOK
<1> QED BY <1>1, StoredRecords DEF PostAccepted, QInv, BatchInv, RowsInv

\* t

\* The waiting records are the last ones made.
LEMMA Waiting ==
  ASSUME QInv
  PROVE  Len(queue) \in Nat /\ made \in Nat /\ ToSet(queue) = (made - Len(queue) + 1)..made
<1>1. queue \in Seq(Nat) /\ made \in Nat /\ Len(queue) \in Nat
  BY ConstantsAssumption, Elements, MoreRecords DEF QInv, TypeOK
<1>2. PICK m \in Int : m = made - Len(queue)
  <2>1. made - Len(queue) \in Int
    BY <1>1
  <2> QED BY <2>1
<1>3. ToSet(queue) = (m + 1)..(m + Len(queue))
  BY <1>1, <1>2, RunSet DEF QInv, QueueInv
<1>4. m + Len(queue) = made
  BY <1>1, <1>2
<1> QED BY <1>1, <1>2, <1>3, <1>4

\* A batch on its way is a run of records.
LEMMA Sent ==
  ASSUME QInv, flusher \in {"post", "drop"}
  PROVE  /\ batch[1] \in Nat /\ Len(batch) \in Nat \ {0}
         /\ ToSet(batch) = batch[1]..(batch[1] + Len(batch) - 1)
<1>1. batch \in Seq(Nat) /\ Len(batch) \in Nat \ {0}
  BY ConstantsAssumption, EmptySeq DEF QInv, TypeOK, BatchInv
<1>2. batch[1] \in Nat
  BY <1>1, Elements
<1>3. PICK m \in Int : m = batch[1] - 1
  BY <1>2
<1>4. \A i \in 1..Len(batch) : batch[i] = m + i
  <2>1. \A i \in 1..Len(batch) : batch[i] = batch[1] + i - 1 /\ i \in Int
    BY DEF QInv, BatchInv
  <2>2. \A a, i \in Int : a + i - 1 = (a - 1) + i
    OBVIOUS
  <2> QED BY <1>2, <1>3, <2>1, <2>2
<1>5. ToSet(batch) = (m + 1)..(m + Len(batch))
  BY <1>1, <1>4, RunSet
<1>6. m + 1 = batch[1] /\ m + Len(batch) = batch[1] + Len(batch) - 1
  BY <1>1, <1>2, <1>3
<1> QED BY <1>1, <1>2, <1>5, <1>6

\* Type correctness is kept.
LEMMA TypesNext == ASSUME QInv, Next PROVE TypeOK'
<1> USE ConstantsAssumption DEF QInv, TypeOK
<1>1. ASSUME NEW r \in Recorders, LookAtSettings(r) PROVE TypeOK'
  BY <1>1 DEF LookAtSettings
<1>2. ASSUME NEW r \in Recorders, AppendRecord(r) PROVE TypeOK'
  <2>1. made' = made + 1 /\ made' \in 0..MaxRecords /\ made \in Nat
    BY <1>2 DEF AppendRecord
  <2>2. batch' \in Seq(1..made') /\ rows' \in Seq(1..made')
    BY <1>2, <2>1, MoreRecords DEF AppendRecord
  <2> QED BY <1>2, <2>1, <2>2, AppendIs DEF AppendRecord
<1>3. CASE SwitchOff
  BY <1>3 DEF SwitchOff
<1>4. CASE ClearQueue
  <2>1. ToSet(queue) \subseteq 1..made
    BY Elements
  <2>2. queue' \in Seq(1..made) /\ dropped' \subseteq 1..made
    BY <1>4, <2>1, EmptySeq DEF ClearQueue
  <2> QED BY <1>4, <2>2 DEF ClearQueue
<1>5. CASE SwitchOn
  <2>1. switched' \in 0..MaxSwitches
    BY <1>5 DEF SwitchOn, RoomInv
  <2> QED BY <1>5, <2>1 DEF SwitchOn
<1>6. CASE StartFlush
  BY <1>6 DEF StartFlush
<1>7. CASE ReadBatch
  BY <1>7, ReadIs DEF ReadBatch
<1>8. CASE PostRefused
  <2>1. ToSet(batch) \subseteq 1..made
    BY Elements
  <2> QED BY <1>8, <2>1 DEF PostRefused
<1>9. CASE PostFails
  BY <1>9 DEF PostFails
<1>10. CASE DropBatch
  BY <1>10, DropIs DEF DropBatch
<1>11. ASSUME NEW answered \in BOOLEAN, PostAccepted(answered) PROVE TypeOK'
  <2>1. rows' \in Seq(Nat) /\ ToSet(rows') = ToSet(rows) \cup ToSet(batch)
    BY <1>11, StoredBatch
  <2>2. ToSet(rows') \subseteq 1..made
    BY <2>1, Elements
  <2>3. rows' \in Seq(1..made)
    BY <2>1, <2>2, InSet
  <2> QED BY <1>11, <2>3 DEF PostAccepted
<1>12. CASE Restart
  BY <1>12 DEF Restart
<1> QED BY <1>1, <1>2, <1>3, <1>4, <1>5, <1>6, <1>7, <1>8, <1>9, <1>10, <1>11, <1>12 DEF Next, Flush

\* The queue stays a run that ends at the last record.
LEMMA QueueNext == ASSUME QInv, Next PROVE QueueInv'
<1> USE DEF QInv, TypeOK, QueueInv
<1>1. ASSUME NEW r \in Recorders, LookAtSettings(r) PROVE QueueInv'
  BY <1>1 DEF LookAtSettings
<1>2. ASSUME NEW r \in Recorders, AppendRecord(r) PROVE QueueInv'
  <2>1. Len(queue) \in Nat /\ made \in Nat /\ made' = made + 1
    BY <1>2, Waiting DEF AppendRecord, QInv
  <2> QED BY <1>2, <2>1, AppendIs, ConstantsAssumption
<1>3. CASE SwitchOff
  BY <1>3 DEF SwitchOff
<1>4. CASE ClearQueue
  <2>1. queue' = <<>> /\ Len(queue') = 0 /\ made' = made
    BY <1>4, EmptySeq DEF ClearQueue
  <2> QED BY <2>1, Waiting, ConstantsAssumption
<1>5. CASE SwitchOn
  BY <1>5 DEF SwitchOn
<1>6. CASE StartFlush
  BY <1>6 DEF StartFlush
<1>7. CASE ReadBatch
  BY <1>7 DEF ReadBatch
<1>8. CASE PostRefused
  BY <1>8 DEF PostRefused
<1>9. CASE PostFails
  BY <1>9 DEF PostFails
<1>10. CASE DropBatch
  <2>1. Len(batch) \in Nat /\ made' = made
    BY <1>10, Elements DEF DropBatch
  <2> QED BY <1>10, <2>1, Waiting, DropIs, ConstantsAssumption
<1>11. ASSUME NEW answered \in BOOLEAN, PostAccepted(answered) PROVE QueueInv'
  BY <1>11 DEF PostAccepted
<1>12. CASE Restart
  BY <1>12 DEF Restart
<1> QED BY <1>1, <1>2, <1>3, <1>4, <1>5, <1>6, <1>7, <1>8, <1>9, <1>10, <1>11, <1>12 DEF Next, Flush

\* So they are after the step.
LEMMA WaitingNext ==
  ASSUME QInv, Next
  PROVE  Len(queue') \in Nat /\ made' \in Nat /\ ToSet(queue') = (made' - Len(queue') + 1)..made'
<1>1. queue' \in Seq(Nat) /\ made' \in Nat /\ Len(queue') \in Nat
  BY TypesNext, ConstantsAssumption, Elements, MoreRecords DEF TypeOK
<1>2. PICK m \in Int : m = made' - Len(queue')
  <2>1. made' - Len(queue') \in Int
    BY <1>1
  <2> QED BY <2>1
<1>3. ToSet(queue') = (m + 1)..(m + Len(queue'))
  BY <1>1, <1>2, QueueNext, RunSet DEF QueueInv
<1>4. m + Len(queue') = made'
  BY <1>1, <1>2
<1> QED BY <1>1, <1>2, <1>3, <1>4

\* A record comes into the queue only when it is made.
LEMMA OnlyNewer ==
  ASSUME QInv, Next
  PROVE  \A r \in ToSet(queue') : r \in ToSet(queue) \/ (r = made + 1 /\ made' = made + 1)
<1>1. ASSUME NEW r \in Recorders, AppendRecord(r)
      PROVE  made' = made + 1 /\ Len(queue') <= Len(queue) + 1
  <2>1. Len(queue') = Len(queue) \/ Len(queue') = Len(queue) + 1
    BY <1>1, AppendIs
  <2> QED BY <1>1, <2>1, Waiting DEF AppendRecord
<1>2. CASE DropBatch
  <2>1. made' = made /\ Len(batch) \in Nat
    BY <1>2, Elements DEF DropBatch, QInv, TypeOK
  <2> QED BY <1>2, <2>1, DropIs, Waiting, WaitingNext
<1>3. CASE ClearQueue
  <2>1. made' = made /\ Len(queue') = 0
    BY <1>3, EmptySeq DEF ClearQueue
  <2> QED BY <2>1, Waiting, WaitingNext
<1>4. \/ \E r \in Recorders : AppendRecord(r)
      \/ DropBatch \/ ClearQueue \/ UNCHANGED queue
  BY DEF Next, Flush, LookAtSettings, SwitchOff, SwitchOn, StartFlush, ReadBatch, PostRefused,
         PostFails, PostAccepted, Restart
<1>5. CASE \E r \in Recorders : AppendRecord(r)
  <2>1. made' = made + 1 /\ Len(queue') <= Len(queue) + 1
    BY <1>1, <1>5
  <2> QED BY <2>1, Waiting, WaitingNext
<1> QED BY <1>2, <1>3, <1>4, <1>5

\* What was caught up with stays so while nothing is stored.
LEMMA OlderStay ==
  ASSUME QInv, Next, UNCHANGED rows
  PROVE  Caught(queue)'
<1>1. \A r \in ToSet(rows) : r \in Nat /\ r <= made
  BY Elements DEF QInv, TypeOK
<1>2. made \in Nat /\ Caught(queue)
  BY Waiting DEF QInv, RowsInv
<1>3. ASSUME NEW i \in ToSet(queue'), NEW r \in ToSet(rows), i <= r PROVE i \in ToSet(rows)
  <2>1. i \in ToSet(queue) \/ i = made + 1
    BY OnlyNewer
  <2> QED BY <1>1, <1>2, <1>3, <2>1 DEF Caught
<1> QED BY <1>3 DEF Caught

\* A batch on its way stays a run, and nothing older than its head waits.
LEMMA BatchNext == ASSUME QInv, Next PROVE BatchInv'
<1> USE DEF QInv, BatchInv
<1>1. ASSUME NEW r \in Recorders, LookAtSettings(r) PROVE BatchInv'
  BY <1>1, OnlyNewer, Waiting DEF LookAtSettings
<1>2. ASSUME NEW r \in Recorders, AppendRecord(r) PROVE BatchInv'
  <2>1. made' = made + 1 /\ made \in Nat /\ UNCHANGED <<flusher, batch>>
    BY <1>2, Waiting DEF AppendRecord
  <2>2. flusher \in {"post", "drop"} => batch[1] <= made
    BY Elements, Sent DEF QInv, TypeOK
  <2>3. \A r2 \in ToSet(queue') : r2 \in ToSet(queue) \/ r2 = made + 1
    BY OnlyNewer
  <2>4. flusher \in {"post", "drop"} => batch[1] \in Nat
    BY Sent
  <2> QED BY <2>1, <2>2, <2>3, <2>4
<1>3. CASE SwitchOff
  BY <1>3, OnlyNewer, Waiting DEF SwitchOff
<1>4. CASE ClearQueue
  <2>1. ToSet(queue') \subseteq ToSet(queue)
    BY <1>4, OnlyNewer, Waiting DEF ClearQueue
  <2> QED BY <1>4, <2>1 DEF ClearQueue
<1>5. CASE SwitchOn
  BY <1>5, OnlyNewer, Waiting DEF SwitchOn
<1>6. CASE StartFlush
  BY <1>6, OnlyNewer, Waiting DEF StartFlush
<1>7. CASE ReadBatch
  <2> SUFFICES ASSUME flusher' \in {"post", "drop"} PROVE BatchInv'
    OBVIOUS
  <2>1. queue # <<>> /\ UNCHANGED <<queue, made>>
    BY <1>7 DEF ReadBatch
  <2>2. Len(batch') \in Nat /\ Len(batch') >= 1 /\ batch' # <<>> /\ Len(batch') <= Len(queue)
    BY <1>7, <2>1, ReadIs, Elements
  <2>3. \A i \in 1..Len(batch') : batch'[i] = made - Len(queue) + i
    BY <1>7, <2>2, ReadIs, Waiting DEF QueueInv
  <2>4. \A a, b, i \in Int : a - b + i = a - b + 1 + i - 1
    OBVIOUS
  <2>5. \A i \in 1..Len(batch') : batch'[i] = batch'[1] + i - 1
    BY <2>2, <2>3, <2>4, Waiting
  <2>6. \A r \in ToSet(queue) : batch'[1] <= r
    BY <2>2, <2>3, Waiting
  <2> QED BY <2>1, <2>2, <2>5, <2>6
<1>8. CASE PostRefused
  BY <1>8, OnlyNewer, Waiting DEF PostRefused
<1>9. CASE PostFails
  BY <1>9, OnlyNewer, Waiting DEF PostFails
<1>10. CASE DropBatch
  BY <1>10 DEF DropBatch
<1>11. ASSUME NEW answered \in BOOLEAN, PostAccepted(answered) PROVE BatchInv'
  BY <1>11 DEF PostAccepted
<1>12. CASE Restart
  BY <1>12, OnlyNewer, Waiting DEF Restart
<1> QED BY <1>1, <1>2, <1>3, <1>4, <1>5, <1>6, <1>7, <1>8, <1>9, <1>10, <1>11, <1>12 DEF Next, Flush

\* The table stays in order and ahead of what is still to be stored.
LEMMA RowsNext == ASSUME QInv, Next PROVE RowsInv'
<1> USE DEF QInv, RowsInv, Caught
<1>1. ASSUME NEW r \in Recorders, LookAtSettings(r) PROVE RowsInv'
  BY <1>1 DEF LookAtSettings
<1>2. ASSUME NEW r \in Recorders, AppendRecord(r) PROVE RowsInv'
  <2>1. made' = made + 1 /\ UNCHANGED <<rows, flusher, batch>>
    BY <1>2 DEF AppendRecord
  <2>2. Caught(queue)'
    BY <2>1, OlderStay
  <2> QED BY <2>1, <2>2
<1>3. CASE SwitchOff
  BY <1>3 DEF SwitchOff
<1>4. CASE ClearQueue
  <2>1. UNCHANGED <<rows, flusher, batch>>
    BY <1>4 DEF ClearQueue
  <2>2. Caught(queue)'
    BY <2>1, OlderStay
  <2> QED BY <2>1, <2>2
<1>5. CASE SwitchOn
  BY <1>5 DEF SwitchOn
<1>6. CASE StartFlush
  BY <1>6 DEF StartFlush
<1>7. CASE ReadBatch
  <2>1. UNCHANGED <<rows, queue>>
    BY <1>7 DEF ReadBatch
  <2>2. ToSet(batch') \subseteq ToSet(queue)
    <3>1. batch' \in Seq(1..made) /\ queue \in Seq(1..made) /\ Len(batch') <= Len(queue)
          /\ \A i \in 1..Len(batch') : batch'[i] = queue[i]
      BY <1>7, ReadIs DEF TypeOK
    <3>2. /\ Len(batch') \in Nat /\ Len(queue) \in Nat
          /\ ToSet(batch') = {batch'[i] : i \in 1..Len(batch')}
          /\ \A i \in 1..Len(queue) : queue[i] \in ToSet(queue)
      BY <3>1, Elements
    <3>3. \A i \in 1..Len(batch') : i \in 1..Len(queue)
      BY <3>1, <3>2
    <3> QED BY <3>1, <3>2, <3>3
  <2> QED BY <2>1, <2>2
<1>8. CASE PostRefused
  BY <1>8 DEF PostRefused
<1>9. CASE PostFails
  BY <1>9 DEF PostFails
<1>10. CASE DropBatch
  <2>1. UNCHANGED <<rows, batch>> /\ flusher' = "read"
    BY <1>10 DEF DropBatch
  <2>2. Caught(queue)'
    BY <2>1, OlderStay
  <2> QED BY <2>1, <2>2
<1>11. ASSUME NEW answered \in BOOLEAN, PostAccepted(answered) PROVE RowsInv'
  <2>1. Increasing(rows') /\ ToSet(rows') = ToSet(rows) \cup ToSet(batch)
        /\ UNCHANGED queue /\ flusher = "post" /\ flusher' # "post"
    BY <1>11, StoredBatch DEF PostAccepted
  <2>2. ASSUME NEW i \in ToSet(queue), NEW r \in ToSet(batch), i <= r PROVE i \in ToSet(batch)
    <3>1. batch[1] <= i /\ i \in Int
      BY <2>1, Waiting DEF BatchInv
    <3> QED BY <2>1, <2>2, <3>1, Sent
  <2> QED BY <2>1, <2>2
<1>12. CASE Restart
  BY <1>12 DEF Restart
<1> QED BY <1>1, <1>2, <1>3, <1>4, <1>5, <1>6, <1>7, <1>8, <1>9, <1>10, <1>11, <1>12 DEF Next, Flush

\* While there is room, only an answer takes records from the queue.
LEMMA RoomNext == ASSUME QInv, Next PROVE RoomInv'
<1> USE DEF QInv, RoomInv, Roomy
<1>1. ASSUME NEW r \in Recorders, LookAtSettings(r) PROVE RoomInv'
  BY <1>1 DEF LookAtSettings
<1>2. ASSUME NEW r \in Recorders, AppendRecord(r) PROVE RoomInv'
  <2>1. made' = made + 1 /\ UNCHANGED <<on, switch, switched, flusher, batch, rows>> /\ dropped \subseteq dropped'
    BY <1>2, AppendIs DEF AppendRecord
  <2> SUFFICES ASSUME Roomy' PROVE RoomInv'
    BY <2>1
  <2>2. Roomy /\ Len(queue) < MaxQueued
    BY <2>1, Waiting, ConstantsAssumption DEF QueueInv
  <2>3. /\ Len(queue') = Len(queue) + 1
        /\ \A i \in 1..(Len(queue) + 1) : queue'[i] = made + 1 - (Len(queue) + 1) + i
    BY <1>2, <2>1, <2>2, AppendIs, Waiting
  <2>4. \A i \in 1..made' : i \in ToSet(queue') \/ (i \in 1..made /\ i \notin ToSet(queue))
    <3>1. /\ made' - Len(queue') + 1 = made - Len(queue) + 1
          /\ made \in Int /\ Len(queue) \in Int
      BY <2>1, <2>3, Waiting
    <3>2. ToSet(queue') = (made - Len(queue) + 1)..(made + 1)
      BY <2>1, <3>1, WaitingNext
    <3>3. ToSet(queue) = (made - Len(queue) + 1)..made
      BY Waiting
    <3> QED BY <2>1, <3>1, <3>2, <3>3
  <2>5. \A i \in 1..made' : i \in ToSet(queue') \cup ToSet(rows') \cup dropped'
    BY <2>1, <2>2, <2>4
  <2>6. ASSUME flusher \in {"post", "drop"} PROVE Len(batch) <= Len(queue') /\ batch[1] = queue'[1]
    <3>1. Len(batch) \in Nat \ {0} /\ Len(batch) <= Len(queue) /\ batch[1] = queue[1]
      BY <2>2, <2>6, Sent
    <3>2. queue[1] = made - Len(queue) + 1
      BY <3>1, Waiting DEF QueueInv
    <3> QED BY <2>3, <3>1, <3>2, Waiting
  <2> QED BY <2>1, <2>2, <2>5, <2>6
<1>3. CASE SwitchOff
  BY <1>3 DEF SwitchOff
<1>4. CASE ClearQueue
  BY <1>4 DEF ClearQueue
<1>5. CASE SwitchOn
  BY <1>5 DEF SwitchOn, TypeOK
<1>6. CASE StartFlush
  BY <1>6 DEF StartFlush
<1>7. CASE ReadBatch
  <2>1. UNCHANGED <<on, switch, switched, made, queue, rows, dropped>>
    BY <1>7 DEF ReadBatch
  <2>2. flusher' \in {"post", "drop"} =>
           flusher' # "drop" /\ Len(batch') <= Len(queue) /\ batch'[1] = queue[1]
    <3> SUFFICES ASSUME flusher' \in {"post", "drop"}
                 PROVE  flusher' # "drop" /\ Len(batch') <= Len(queue) /\ batch'[1] = queue[1]
      OBVIOUS
    <3>1. queue # <<>> /\ flusher' = "post"
      BY <1>7 DEF ReadBatch
    <3>2. Len(batch') \in Nat /\ Len(batch') >= 1
      BY <1>7, <3>1, ReadIs, Elements
    <3> QED BY <1>7, <3>1, <3>2, ReadIs
  <2> QED BY <2>1, <2>2
<1>8. CASE PostRefused
  BY <1>8 DEF PostRefused
<1>9. CASE PostFails
  BY <1>9 DEF PostFails
<1>10. CASE DropBatch
  <2>1. UNCHANGED <<on, switch, switched, made, batch, rows, dropped>> /\ flusher = "drop" /\ flusher' = "read"
    BY <1>10 DEF DropBatch
  <2> SUFFICES ASSUME Roomy PROVE \A i \in 1..made : i \in ToSet(queue') \cup ToSet(rows) \cup dropped
    BY <2>1
  <2>2. /\ Len(batch) <= Len(queue) /\ batch[1] = queue[1]
        /\ ToSet(batch) \subseteq ToSet(rows) \cup dropped
    BY <2>1
  <2>3. /\ Len(batch) \in Nat \ {0} /\ ToSet(batch) = batch[1]..(batch[1] + Len(batch) - 1)
    BY <2>1, Sent
  <2>4. Len(queue') = Len(queue) - Len(batch)
    BY <1>10, <2>2, DropIs
  <2>5. batch[1] = made - Len(queue) + 1
    BY <2>2, <2>3, Waiting DEF QueueInv
  <2>6. \A i \in ToSet(queue) : i \in ToSet(queue') \cup ToSet(batch)
    BY <2>1, <2>3, <2>4, <2>5, Waiting, WaitingNext
  <2> QED BY <2>2, <2>6
<1>11. ASSUME NEW answered \in BOOLEAN, PostAccepted(answered) PROVE RoomInv'
  <2>1. /\ ToSet(rows') = ToSet(rows) \cup ToSet(batch) /\ flusher = "post"
        /\ UNCHANGED <<on, switch, switched, made, queue, batch, dropped>>
    BY <1>11, StoredBatch DEF PostAccepted
  <2> QED BY <2>1
<1>12. CASE Restart
  BY <1>12 DEF Restart
<1> QED BY <1>1, <1>2, <1>3, <1>4, <1>5, <1>6, <1>7, <1>8, <1>9, <1>10, <1>11, <1>12 DEF Next, Flush

------------------------------------------------------------------------------
(* The theorems.                                                              *)

\* Every reachable state satisfies the inductive invariant: the queue is a run
\* of the newest records, a batch on the network is a run that is still at or
\* before the head of the queue, and nothing older than a stored record waits.
THEOREM QueueInvariant == Spec => []QInv
<1>1. Init => QInv
  <2> SUFFICES ASSUME Init PROVE QInv
    OBVIOUS
  <2>1. /\ queue = <<>> /\ batch = <<>> /\ rows = <<>>
        /\ Len(queue) = 0 /\ Len(rows) = 0 /\ ToSet(queue) = {} /\ ToSet(rows) = {}
    <3>1. queue = <<>> /\ batch = <<>> /\ rows = <<>>
      BY DEF Init
    <3>2. \A s : s = <<>> => Len(s) = 0 /\ DOMAIN s = {}
      OBVIOUS
    <3> QED BY <3>1, <3>2 DEF ToSet
  <2>2. made = 0 /\ 1..made = {} /\ MaxRecords \in Nat /\ MaxQueued \in Nat
    BY ConstantsAssumption DEF Init
  <2>3. TypeOK
    BY <2>1, <2>2, EmptySeq, ConstantsAssumption DEF Init, TypeOK
  <2>4. QueueInv
    BY <2>1, <2>2 DEF QueueInv
  <2>5. BatchInv /\ RowsInv
    BY <2>1 DEF Init, BatchInv, RowsInv, Caught, Increasing
  <2>6. RoomInv
    BY <2>2 DEF Init, RoomInv
  <2> QED BY <2>3, <2>4, <2>5, <2>6 DEF QInv
<1>2. QInv /\ [Next]_vars => QInv'
  <2> SUFFICES ASSUME QInv, [Next]_vars PROVE QInv'
    OBVIOUS
  <2>1. CASE Next
    BY <2>1, TypesNext, QueueNext, BatchNext, RowsNext, RoomNext DEF QInv
  <2>2. CASE UNCHANGED vars
    <3>1. TypeOK'
      BY <2>2 DEF vars, QInv, TypeOK
    <3>2. QueueInv' /\ BatchInv'
      BY <2>2 DEF vars, QInv, QueueInv, BatchInv
    <3>3. RowsInv' /\ RoomInv'
      BY <2>2 DEF vars, QInv, RowsInv, Caught, Increasing, RoomInv, Roomy
    <3> QED BY <3>1, <3>2, <3>3 DEF QInv
  <2> QED BY <2>1, <2>2
<1> QED BY <1>1, <1>2, PTL DEF Spec

\* The collector has each record at most once and in the order they were made,
\* however often a batch whose answer was lost is sent again (flush in
\* sida/telemetry.py, the insert in collector/app.py).
THEOREM StoredInOrderHolds == Spec => []StoredInOrder
<1>1. QInv => StoredInOrder
  BY DEF QInv, RowsInv, StoredInOrder
<1> QED BY <1>1, QueueInvariant, PTL

\* What waits is the unbroken run of the newest records, no more than MAX_QUEUED
\* of them, whatever was trimmed, cleared or dropped by count (_append,
\* clear_queue and flush in sida/telemetry.py).
THEOREM QueueIsNewestHolds == Spec => []QueueIsNewest
<1>1. QInv => QueueIsNewest
  BY DEF QInv, QueueInv, QueueIsNewest
<1> QED BY <1>1, QueueInvariant, PTL

\* While the queue has had room for every record and sending was never switched
\* off, every record waits, is stored, or was dropped for a stated reason: the
\* count that flush takes from the head is never more than what was answered.
THEOREM KeptWhileThereIsRoomHolds == Spec => []KeptWhileThereIsRoom
<1>1. QInv => KeptWhileThereIsRoom
  BY DEF QInv, RoomInv, Roomy, KeptWhileThereIsRoom
<1> QED BY <1>1, QueueInvariant, PTL
==============================================================================
