------------------------- MODULE DrawingTableProofs ---------------------------
(* Theorems about DrawingTable for any names, experts and limits: an id names *)
(* one paper wherever it lies, a link stays with its paper, photos keep their *)
(* files across crashes between two writes, and only the designer's own       *)
(* deletes take a paper from the designer.  The state is one nested record,   *)
(* so the lemmas speak of a board b and the board c made of it; the           *)
(* operations are then a chain of such boards, and Saves ends each.           *)
EXTENDS DrawingTable, SequenceTheorems, WellFoundedInduction, TLAPS

Boards == [papers : SUBSET Paper, tray : Seq(Paper), ideas : Seq(Idea)]

\* The papers of a sequence have different ids.
Different(s) == \A i, j \in 1..Len(s) : s[i].id = s[j].id => i = j

\* No two papers of a board have one id.
Apart(b) ==
    /\ \A p, q \in b.papers : p.id = q.id => p = q
    /\ Different(b.tray)
    /\ \A i, j \in 1..Len(b.ideas) :
          b.ideas[i].held # None /\ b.ideas[j].held # None
             /\ b.ideas[i].held.id = b.ideas[j].held.id => i = j
    /\ \A p \in b.papers, i \in 1..Len(b.tray) : p.id # b.tray[i].id
    /\ \A p \in b.papers, i \in 1..Len(b.ideas) :
          b.ideas[i].held # None => p.id # b.ideas[i].held.id
    /\ \A i \in 1..Len(b.tray), j \in 1..Len(b.ideas) :
          b.ideas[j].held # None => b.tray[i].id # b.ideas[j].held.id

\* Who made a paper stays on it, and the AI section has no photos.
Marked(b) ==
    /\ \A p \in Everywhere(b) : p.origin = p.made
    /\ \A i \in 1..Len(b.tray) : b.tray[i].kind # "photo"

\* Every link is to the paper it was made for: a board about to be saved.
Meant(b) == \A i \in 1..Len(b.ideas) : \A l \in b.ideas[i].links : l.meant

Sound(b) == b \in Boards /\ Apart(b) /\ Marked(b) /\ Meant(b)

\* A link of a saved board is to the paper it was made for, or to none.
Linked(b) ==
    \A i \in 1..Len(b.ideas) : \A l \in b.ideas[i].links : l.meant <=> l.id \in Taken(b)

BoardInv == Apart(board) /\ Marked(board) /\ Linked(board)

\* A removal is between the board's write and the touch.
Deleting == busy # None /\ busy.op = "delete"

\* A file that a removal waits for is no older than the removal, once it was touched.
FilesInv ==
    /\ \A p \in board.papers \cup Held(board) : p.kind = "photo" => p.file \in DOMAIN files
    /\ \A f \in DOMAIN removed : removed[f].by = "paper" =>
          /\ f \in DOMAIN files
          /\ files[f] <= removed[f].age \/ (Deleting /\ busy.file = f)

\* What the operation between its two writes knows still holds.
BusyInv ==
    busy # None =>
        /\ busy.op = "delete" => busy.file \in DOMAIN files
        /\ busy.op = "upload" =>
              /\ busy.paper.kind = "photo" /\ busy.paper.file \in DOMAIN files
              /\ busy.paper.id \notin Taken(board)
              /\ busy.paper.origin = busy.paper.made

TableInv == TypeOK /\ BoardInv /\ FilesInv /\ BusyInv
------------------------------------------------------------------------------
(* Sequences.                                                                 *)

\* The elements of a sequence and where they are.
LEMMA Elements ==
  ASSUME NEW S, NEW s \in Seq(S)
  PROVE  /\ Len(s) \in Nat /\ DOMAIN s = 1..Len(s)
         /\ \A i \in 1..Len(s) : s[i] \in S /\ s[i] \in Range(s)
         /\ \A e \in Range(s) : e \in S /\ \E i \in 1..Len(s) : e = s[i]
<1>1. Len(s) \in Nat /\ DOMAIN s = 1..Len(s)
  BY LenProperties
<1>2. \A i \in 1..Len(s) : s[i] \in S
  BY ElementOfSeq
<1> QED BY <1>1, <1>2 DEF Range

\* The first elements of a sequence, and the last.
LEMMA PartIs ==
  ASSUME NEW S, NEW s \in Seq(S), NEW m \in 1..(Len(s) + 1), NEW n \in 0..Len(s), m <= n + 1
  PROVE  /\ SubSeq(s, m, n) \in Seq(S) /\ Len(SubSeq(s, m, n)) = n - m + 1
         /\ \A k \in 1..(n - m + 1) : SubSeq(s, m, n)[k] = s[m + k - 1]
<1>1. Len(s) \in Nat /\ m \in Int /\ n \in Int
  BY Elements
<1>2. \A k \in m..n : s[k] \in S
  <2>1. \A k \in m..n : k \in 1..Len(s)
    BY <1>1
  <2> QED BY <2>1, Elements
<1>3. Len(SubSeq(s, m, n)) = IF m <= n THEN n - m + 1 ELSE 0
  BY <1>1, <1>2, SubSeqProperties
<1>4. Len(SubSeq(s, m, n)) = n - m + 1
  BY <1>1, <1>3
<1> QED BY <1>1, <1>2, <1>4, SubSeqProperties

\* Two sequences one after the other.
LEMMA Joined ==
  ASSUME NEW S, NEW a \in Seq(S), NEW b \in Seq(S)
  PROVE  /\ a \o b \in Seq(S) /\ Len(a \o b) = Len(a) + Len(b)
         /\ \A k \in 1..(Len(a) + Len(b)) : (a \o b)[k] = IF k <= Len(a) THEN a[k] ELSE b[k - Len(a)]
  BY ConcatProperties

\* A sequence without its i-th element.
LEMMA RemovedAt ==
  ASSUME NEW S, NEW s \in Seq(S), NEW i \in 1..Len(s)
  PROVE  /\ RemoveAt(s, i) \in Seq(S) /\ Len(RemoveAt(s, i)) = Len(s) - 1
         /\ \A k \in 1..(Len(s) - 1) :
               RemoveAt(s, i)[k] = IF k < i THEN s[k] ELSE s[k + 1]
<1>1. Len(s) \in Nat /\ i \in Int /\ 1 <= i /\ i <= Len(s)
  BY Elements
<1>2. PICK a \in Seq(S) : /\ a = SubSeq(s, 1, i - 1) /\ Len(a) = i - 1
                          /\ \A k \in 1..(i - 1) : a[k] = s[k]
  <2>1. 1 \in 1..(Len(s) + 1) /\ i - 1 \in 0..Len(s) /\ 1 <= (i - 1) + 1
    BY <1>1
  <2>2. /\ SubSeq(s, 1, i - 1) \in Seq(S) /\ Len(SubSeq(s, 1, i - 1)) = (i - 1) - 1 + 1
        /\ \A k \in 1..((i - 1) - 1 + 1) : SubSeq(s, 1, i - 1)[k] = s[1 + k - 1]
    BY <2>1, PartIs
  <2>3. (i - 1) - 1 + 1 = i - 1 /\ \A k \in 1..(i - 1) : 1 + k - 1 = k
    BY <1>1
  <2> QED BY <2>2, <2>3
<1>3. PICK b \in Seq(S) : /\ b = SubSeq(s, i + 1, Len(s)) /\ Len(b) = Len(s) - i
                          /\ \A k \in 1..(Len(s) - i) : b[k] = s[i + k]
  <2>1. i + 1 \in 1..(Len(s) + 1) /\ Len(s) \in 0..Len(s) /\ i + 1 <= Len(s) + 1
    BY <1>1
  <2>2. /\ SubSeq(s, i + 1, Len(s)) \in Seq(S)
        /\ Len(SubSeq(s, i + 1, Len(s))) = Len(s) - (i + 1) + 1
        /\ \A k \in 1..(Len(s) - (i + 1) + 1) : SubSeq(s, i + 1, Len(s))[k] = s[(i + 1) + k - 1]
    BY <2>1, PartIs
  <2>3. /\ Len(s) - (i + 1) + 1 = Len(s) - i
        /\ \A k \in 1..(Len(s) - i) : k \in 1..(Len(s) - (i + 1) + 1) /\ (i + 1) + k - 1 = i + k
    BY <1>1
  <2>4. PICK b \in Seq(S) : b = SubSeq(s, i + 1, Len(s))
    BY <2>2
  <2>5. \A k \in 1..(Len(s) - i) : b[k] = s[i + k]
    BY <2>2, <2>3, <2>4
  <2>6. Len(b) = Len(s) - i
    BY <2>2, <2>3, <2>4
  <2> QED BY <2>4, <2>5, <2>6
<1>4. /\ RemoveAt(s, i) = a \o b /\ a \o b \in Seq(S)
      /\ Len(a \o b) = Len(a) + Len(b)
      /\ \A k \in 1..(Len(a) + Len(b)) : (a \o b)[k] = IF k <= Len(a) THEN a[k] ELSE b[k - Len(a)]
  <2>1. RemoveAt(s, i) = a \o b
    BY <1>2, <1>3 DEF RemoveAt
  <2> QED BY <2>1, Joined
<1>5. Len(a) + Len(b) = Len(s) - 1
  <2>1. Len(a) = i - 1 /\ Len(b) = Len(s) - i
    BY <1>2, <1>3
  <2> QED BY <1>1, <2>1
<1>6. ASSUME NEW k \in 1..(Len(s) - 1) PROVE (a \o b)[k] = IF k < i THEN s[k] ELSE s[k + 1]
  <2>1. CASE k < i
    <3>1. k \in 1..(i - 1) /\ k <= i - 1 /\ Len(a) = i - 1
      BY <1>1, <1>2, <2>1
    <3> QED BY <1>2, <1>4, <1>5, <2>1, <3>1
  <2>2. CASE ~ (k < i)
    <3>1. ~ (k <= Len(a)) /\ k - Len(a) = k - (i - 1) /\ k - (i - 1) \in 1..(Len(s) - i)
      BY <1>1, <1>2, <2>2
    <3>2. i + (k - (i - 1)) = k + 1
      BY <1>1
    <3>3. (a \o b)[k] = b[k - Len(a)]
      BY <1>4, <1>5, <3>1
    <3>4. b[k - Len(a)] = s[k + 1]
      BY <1>3, <3>1, <3>2
    <3> QED BY <2>2, <3>3, <3>4
  <2> QED BY <2>1, <2>2
<1> QED BY <1>4, <1>5, <1>6

\* A sequence with an element put in at place `at`.
LEMMA InsertedAt ==
  ASSUME NEW S, NEW s \in Seq(S), NEW e \in S, NEW at \in 1..(Len(s) + 1)
  PROVE  /\ InsertAt(s, at, e) \in Seq(S) /\ Len(InsertAt(s, at, e)) = Len(s) + 1
         /\ \A k \in 1..(Len(s) + 1) :
               InsertAt(s, at, e)[k] = IF k < at THEN s[k] ELSE IF k = at THEN e ELSE s[k - 1]
<1>1. Len(s) \in Nat /\ at \in Int /\ 1 <= at /\ at <= Len(s) + 1
  BY Elements
<1>2. PICK a \in Seq(S) : /\ a = SubSeq(s, 1, at - 1) /\ Len(a) = at - 1
                          /\ \A k \in 1..(at - 1) : a[k] = s[k]
  <2>1. 1 \in 1..(Len(s) + 1) /\ at - 1 \in 0..Len(s) /\ 1 <= (at - 1) + 1
    BY <1>1
  <2>2. /\ SubSeq(s, 1, at - 1) \in Seq(S) /\ Len(SubSeq(s, 1, at - 1)) = (at - 1) - 1 + 1
        /\ \A k \in 1..((at - 1) - 1 + 1) : SubSeq(s, 1, at - 1)[k] = s[1 + k - 1]
    BY <2>1, PartIs
  <2>3. (at - 1) - 1 + 1 = at - 1 /\ \A k \in 1..(at - 1) : 1 + k - 1 = k
    BY <1>1
  <2> QED BY <2>2, <2>3
<1>3. PICK b \in Seq(S) : /\ b = SubSeq(s, at, Len(s)) /\ Len(b) = Len(s) - at + 1
                          /\ \A k \in 1..(Len(s) - at + 1) : b[k] = s[at + k - 1]
  <2>1. Len(s) \in 0..Len(s)
    BY <1>1
  <2>2. /\ SubSeq(s, at, Len(s)) \in Seq(S) /\ Len(SubSeq(s, at, Len(s))) = Len(s) - at + 1
        /\ \A k \in 1..(Len(s) - at + 1) : SubSeq(s, at, Len(s))[k] = s[at + k - 1]
    BY <1>1, <2>1, PartIs
  <2> QED BY <2>2
<1>4. PICK c \in Seq(S) : c = a \o <<e>> /\ Len(c) = at /\ \A k \in 1..at : c[k] = IF k < at THEN s[k] ELSE e
  <2>1. /\ Append(a, e) = a \o <<e>> /\ Append(a, e) \in Seq(S) /\ Len(Append(a, e)) = Len(a) + 1
        /\ \A k \in 1..Len(a) : Append(a, e)[k] = a[k]
        /\ Append(a, e)[Len(a) + 1] = e
    BY AppendProperties, AppendIsConcat
  <2>2. Len(a) + 1 = at /\ \A k \in 1..at : (k < at => k \in 1..(at - 1)) /\ (~ (k < at) => k = at)
    BY <1>1, <1>2
  <2>3. PICK c \in Seq(S) : c = Append(a, e)
    BY <2>1
  <2>4. \A k \in 1..(at - 1) : c[k] = s[k]
    BY <1>2, <2>1, <2>3
  <2>5. c[at] = e
    BY <2>1, <2>2, <2>3
  <2>6. \A k \in 1..at : c[k] = IF k < at THEN s[k] ELSE e
    BY <2>2, <2>4, <2>5
  <2> QED BY <2>1, <2>2, <2>3, <2>6
<1>5. /\ InsertAt(s, at, e) = c \o b /\ c \o b \in Seq(S)
      /\ Len(c \o b) = Len(c) + Len(b)
      /\ \A k \in 1..(Len(c) + Len(b)) : (c \o b)[k] = IF k <= Len(c) THEN c[k] ELSE b[k - Len(c)]
  <2>1. InsertAt(s, at, e) = c \o b
    BY <1>2, <1>3, <1>4 DEF InsertAt
  <2> QED BY <2>1, Joined
<1>6. Len(c) = at /\ Len(b) = Len(s) - at + 1 /\ Len(c) + Len(b) = Len(s) + 1
  <2>1. Len(c) = at /\ Len(b) = Len(s) - at + 1
    BY <1>3, <1>4
  <2> QED BY <1>1, <2>1
<1>7. ASSUME NEW k \in 1..(Len(s) + 1)
      PROVE  (c \o b)[k] = IF k < at THEN s[k] ELSE IF k = at THEN e ELSE s[k - 1]
  <2>1. CASE k <= at
    <3>1. k \in 1..at /\ k <= Len(c) /\ (~ (k < at) => k = at)
      BY <1>1, <1>6, <2>1
    <3> QED BY <1>4, <1>5, <1>6, <3>1
  <2>2. CASE ~ (k <= at)
    <3>1. /\ ~ (k <= Len(c)) /\ ~ (k < at) /\ k # at
          /\ k - Len(c) = k - at /\ k - at \in 1..(Len(s) - at + 1)
      BY <1>1, <1>6, <2>2
    <3>2. at + (k - at) - 1 = k - 1
      BY <1>1
    <3> QED BY <1>3, <1>5, <1>6, <3>1, <3>2
  <2> QED BY <2>1, <2>2
<1> QED BY <1>5, <1>6, <1>7

\* What is left of the AI section are papers of it, each once.
PartOf(t, s) ==
    /\ t \in Seq(Paper) /\ Different(t)
    /\ \A i \in 1..Len(t) : \E j \in 1..Len(s) : t[i] = s[j]

\* A paper taken out of the AI section.
LEMMA RemovedPart ==
  ASSUME NEW s \in Seq(Paper), Different(s), NEW i \in 1..Len(s)
  PROVE  /\ PartOf(RemoveAt(s, i), s)
         /\ \A k \in 1..Len(RemoveAt(s, i)) : RemoveAt(s, i)[k].id # s[i].id
<1>1. PICK t \in Seq(Paper) :
         /\ t = RemoveAt(s, i) /\ Len(t) = Len(s) - 1
         /\ \A k \in 1..(Len(s) - 1) : t[k] = IF k < i THEN s[k] ELSE s[k + 1]
  BY RemovedAt
<1>2. Len(s) \in Nat
  BY Elements
<1>3. \A k \in 1..Len(t) : \E j \in 1..Len(s) : t[k] = s[j] /\ j # i /\ j = IF k < i THEN k ELSE k + 1
  <2> TAKE k \in 1..Len(t)
  <2>1. CASE k < i
    <3>1. k \in 1..Len(s) /\ k # i /\ t[k] = s[k]
      BY <1>1, <1>2, <2>1
    <3> QED BY <2>1, <3>1
  <2>2. CASE ~ (k < i)
    <3>1. k + 1 \in 1..Len(s) /\ k + 1 # i /\ t[k] = s[k + 1]
      BY <1>1, <1>2, <2>2
    <3> QED BY <2>2, <3>1
  <2> QED BY <2>1, <2>2
<1>4. ASSUME NEW k \in 1..Len(t), NEW l \in 1..Len(t), t[k].id = t[l].id PROVE k = l
  <2>1. PICK j \in 1..Len(s) : t[k] = s[j] /\ j = IF k < i THEN k ELSE k + 1
    BY <1>3
  <2>2. PICK m \in 1..Len(s) : t[l] = s[m] /\ m = IF l < i THEN l ELSE l + 1
    BY <1>3
  <2>3. j = m
    BY <1>4, <2>1, <2>2 DEF Different
  <2> QED BY <2>1, <2>2, <2>3
<1> QED BY <1>1, <1>3, <1>4 DEF PartOf, Different

\* The oldest paper of the AI section goes.
LEMMA TailPart ==
  ASSUME NEW s \in Seq(Paper), Different(s), s # <<>>
  PROVE  PartOf(Tail(s), s)
<1>1. PICK t \in Seq(Paper) : /\ t = Tail(s) /\ Len(t) = Len(s) - 1
                              /\ \A k \in 1..Len(t) : t[k] = s[k + 1]
  BY HeadTailProperties
<1>2. Len(s) \in Nat /\ Len(t) \in Nat
  BY Elements
<1>3. \A k \in 1..Len(t) : k + 1 \in 1..Len(s)
  BY <1>1, <1>2
<1>4. Different(t)
  BY <1>1, <1>3 DEF Different
<1> QED BY <1>1, <1>3, <1>4 DEF PartOf

\* An earlier result of the expert's.
Gone(p, agent) == p.kind = "expert" /\ p.agent = agent

\* Induction over 0..N for a set of numbers.
LEMMA Counting ==
  ASSUME NEW N \in Nat, NEW T, 0 \in T, \A n \in 0..(N - 1) : n \in T => n + 1 \in T
  PROVE  0..N \subseteq T
<1> SUFFICES ASSUME ~ (0..N \subseteq T) PROVE FALSE
  OBVIOUS
<1> DEFINE U == 0..N \ T
<1>1. U \subseteq Nat /\ U # {}
  OBVIOUS
<1>2. PICK x \in U : \A y \in U : ~ (<<y, x>> \in OpToRel(<, Nat))
  <2> HIDE DEF U
  <2> QED BY <1>1, NatLessThanWellFounded, WFMin
<1>3. x # 0 /\ x - 1 \in 0..(N - 1)
  OBVIOUS
<1>4. x - 1 \notin U
  <2>1. x - 1 < x /\ x - 1 \in Nat /\ x \in Nat
    BY <1>3
  <2>2. <<x - 1, x>> \in OpToRel(<, Nat)
    BY <2>1 DEF OpToRel
  <2> QED BY <1>2, <2>2
<1> QED BY <1>3, <1>4

\* Earlier is the last of a sequence of lists, one paper looked at after another.
LEMMA EarlierSteps ==
  ASSUME NEW s \in Seq(Paper), NEW agent
  PROVE  \E f \in [0..Len(s) -> Seq(Paper)] :
            /\ f[0] = <<>> /\ Earlier(s, agent) = f[Len(s)]
            /\ \A n \in 1..Len(s) : f[n] = IF Gone(s[n], agent) THEN f[n - 1]
                                           ELSE Append(f[n - 1], s[n])
<1> DEFINE Body(f, n) == IF n = 0 THEN <<>>
            ELSE IF Gone(s[n], agent) THEN f[n - 1]
            ELSE Append(f[n - 1], s[n])
<1> DEFINE N == Len(s)
<1> DEFINE T == {n \in 0..N : \E f \in [0..n -> Seq(Paper)] : \A i \in 0..n : f[i] = Body(f, i)}
<1>0. N \in Nat OBVIOUS
<1>1. 0 \in T
  <2>1. [i \in 0..0 |-> <<>>] \in [0..0 -> Seq(Paper)]
    OBVIOUS
  <2> DEFINE g == [i \in 0..0 |-> <<>>]
  <2>2. \A i \in 0..0 : g[i] = Body(g, i)
    OBVIOUS
  <2>3. g \in [0..0 -> Seq(Paper)]
    BY <2>1
  <2> HIDE DEF g, Body
  <2> QED BY <2>2, <2>3, <1>0
<1>2. ASSUME NEW n \in 0..(N - 1), n \in T PROVE n + 1 \in T
  <2>1. PICK f \in [0..n -> Seq(Paper)] : \A i \in 0..n : f[i] = Body(f, i)
    BY <1>2
  <2> DEFINE g == [i \in 0..(n + 1) |-> IF i = n + 1 THEN Body(f, n + 1) ELSE f[i]]
  <2>2. Body(f, n + 1) \in Seq(Paper)
    <3>1. f[n] \in Seq(Paper) /\ s[n + 1] \in Paper
      BY <1>0
    <3>2. Append(f[n], s[n + 1]) \in Seq(Paper)
      BY <3>1
    <3> QED BY <3>1, <3>2
  <2>3. g \in [0..(n + 1) -> Seq(Paper)]
    <3> HIDE DEF Body
    <3> QED BY <2>2
  <2>4. \A i \in 0..n : g[i] = f[i]
    <3> HIDE DEF Body
    <3> QED OBVIOUS
  <2>5. ASSUME NEW i \in 0..(n + 1) PROVE g[i] = Body(g, i)
    <3>1. i = 0 \/ (i - 1 \in 0..n /\ g[i - 1] = f[i - 1])
      BY <2>4
    <3>2. Body(g, i) = Body(f, i)
      <4> HIDE DEF g
      <4> QED BY <3>1
    <3>3. g[i] = Body(f, i)
      <4> HIDE DEF Body
      <4> QED BY <2>1
    <3> QED BY <3>2, <3>3
  <2>6. \A i \in 0..(n + 1) : g[i] = Body(g, i)
    BY <2>5
  <2>7. n + 1 \in 0..N
    BY <1>0
  <2> HIDE DEF g, Body, N
  <2> QED BY <2>3, <2>6, <2>7
<1>3. N \in T
  <2> HIDE DEF T, N
  <2>1. 0..N \subseteq T
    BY <1>0, <1>1, <1>2, Counting
  <2> QED BY <1>0, <2>1
<1>4. PICK f \in [0..N -> Seq(Paper)] : \A i \in 0..N : f[i] = Body(f, i)
  BY <1>3
<1>5. f = [n \in 0..Len(s) |-> Body(f, n)]
  <2> HIDE DEF Body
  <2> QED BY <1>4
<1> DEFINE h == CHOOSE g : g = [n \in 0..Len(s) |-> Body(g, n)]
<1>6. h = [n \in 0..Len(s) |-> Body(h, n)] /\ Earlier(s, agent) = h[Len(s)]
  BY <1>5 DEF Earlier, Gone
<1>7. \A n \in 0..N : h[n] = Body(h, n)
  <2> HIDE DEF h, Body
  <2> QED BY <1>6
<1> DEFINE W == {n \in 0..N : h[n] \in Seq(Paper)}
<1>8. 0 \in W /\ \A n \in 0..(N - 1) : n \in W => n + 1 \in W
  <2> HIDE DEF h
  <2>1. h[0] = <<>>
    BY <1>7, <1>0
  <2>2. ASSUME NEW n \in 0..(N - 1), n \in W PROVE n + 1 \in W
    <3>1. h[n] \in Seq(Paper) /\ s[n + 1] \in Paper
      BY <1>0, <2>2
    <3>2. Append(h[n], s[n + 1]) \in Seq(Paper)
      BY <3>1
    <3>3. n + 1 # 0 /\ (n + 1) - 1 = n /\ n + 1 \in 0..N
      BY <1>0
    <3>4. h[n + 1] = Body(h, n + 1)
      <4> HIDE DEF Body
      <4> QED BY <1>7, <3>3
    <3>5. h[n + 1] = h[n] \/ h[n + 1] = Append(h[n], s[n + 1])
      BY <3>3, <3>4
    <3>6. h[n + 1] \in Seq(Paper)
      BY <3>1, <3>2, <3>5
    <3> QED BY <3>3, <3>6
  <2>3. 0 \in 0..N /\ h[0] \in Seq(Paper)
    BY <1>0, <2>1
  <2>4. 0 \in W
    BY <2>3
  <2> HIDE DEF W
  <2> QED BY <2>2, <2>4
<1>9. 0..N \subseteq W
  <2> HIDE DEF W, N
  <2> QED BY <1>0, <1>8, Counting
<1>10. h \in [0..N -> Seq(Paper)]
  <2> HIDE DEF h, Body
  <2>1. h = [n \in 0..N |-> Body(h,n)]
   BY <1>6
  <2> QED BY <2>1, <1>9
<1>11. h[0] = <<>> /\ \A n \in 1..N : h[n] = IF Gone(s[n], agent) THEN h[n - 1] ELSE Append(h[n - 1], s[n])
  <2> HIDE DEF h
  <2> QED BY <1>7, <1>0
<1> HIDE DEF h
<1> QED BY <1>6, <1>10, <1>11


\* What is left of the AI section without an expert's earlier results.
LEMMA EarlierPart ==
  ASSUME NEW s \in Seq(Paper), Different(s), NEW agent
  PROVE  PartOf(Earlier(s, agent), s)
<1>1. PICK f \in [0..Len(s) -> Seq(Paper)] :
         /\ f[0] = <<>> /\ Earlier(s, agent) = f[Len(s)]
         /\ \A n \in 1..Len(s) : f[n] = IF Gone(s[n], agent) THEN f[n - 1] ELSE Append(f[n - 1], s[n])
  BY EarlierSteps
<1>2. Len(s) \in Nat /\ \A i \in 1..Len(s) : s[i] \in Paper
  BY Elements
<1> DEFINE Upto(t, n) == /\ \A i, j \in 1..Len(t) : t[i].id = t[j].id => i = j
                         /\ \A i \in 1..Len(t) : \E j \in 1..n : t[i] = s[j]
<1> DEFINE T == {n \in 0..Len(s) : Upto(f[n], n)}
<1>3. 0 \in T
  <2>1. f[0] = <<>> /\ Len(<<>>) = 0 /\ 1..0 = {}
    BY <1>1
  <2>2. Upto(f[0], 0)
    BY <2>1
  <2> HIDE DEF Upto
  <2> QED BY <1>2, <2>2
<1>4. ASSUME NEW n \in 0..(Len(s) - 1), n \in T PROVE n + 1 \in T
  <2>1. n \in 0..Len(s) /\ n + 1 \in 1..Len(s) /\ n + 1 \in 0..Len(s) /\ (n + 1) - 1 = n
    BY <1>2
  <2>2. PICK t \in Seq(Paper) : t = f[n] /\ Upto(t, n)
    BY <2>1, <1>4
  <2>3. PICK p \in Paper : p = s[n + 1]
    BY <2>1, <1>2
  <2>4. f[n + 1] = t \/ f[n + 1] = Append(t, p)
    BY <1>1, <2>1, <2>2, <2>3
  <2>5. Upto(t, n + 1)
    <3>1. \A j \in 1..n : j \in 1..(n + 1)
      OBVIOUS
    <3> QED BY <2>2, <3>1
  <2>6. Upto(Append(t, p), n + 1)
    <3>1. PICK u \in Seq(Paper) : /\ u = Append(t, p) /\ Len(u) = Len(t) + 1 /\ u[Len(t) + 1] = p
                                  /\ \A i \in 1..Len(t) : u[i] = t[i]
      <4>1. /\ Append(t, p) \in Seq(Paper) /\ Len(Append(t, p)) = Len(t) + 1
            /\ \A i \in 1..Len(t) : Append(t, p)[i] = t[i]
            /\ Append(t, p)[Len(t) + 1] = p
        BY AppendProperties
      <4> QED BY <4>1
    <3>2. Len(t) \in Nat /\ \A i \in 1..Len(u) : i \in 1..Len(t) \/ i = Len(t) + 1
      BY <3>1, Elements
    <3>3. \A i \in 1..Len(t) : t[i].id # p.id
      <4>1. ASSUME NEW i \in 1..Len(t), t[i].id = p.id PROVE FALSE
        <5>1. PICK j \in 1..n : t[i] = s[j]
          BY <2>2
        <5>2. j \in 1..Len(s) /\ j # n + 1
          BY <2>1, <1>2
        <5> QED BY <2>1, <2>3, <4>1, <5>1, <5>2 DEF Different
      <4> QED BY <4>1
    <3>4. \A i \in 1..Len(u) : \E j \in 1..(n + 1) : u[i] = s[j]
      <4> TAKE i \in 1..Len(u)
      <4>1. CASE i \in 1..Len(t)
        <5>1. PICK j \in 1..(n + 1) : t[i] = s[j]
          BY <2>5, <4>1
        <5> QED BY <3>1, <4>1, <5>1
      <4>2. CASE i = Len(t) + 1
        <5>1. n + 1 \in 1..(n + 1)
          BY <2>1
        <5> QED BY <2>3, <3>1, <4>2, <5>1
      <4> QED BY <3>2, <4>1, <4>2
    <3>5. ASSUME NEW i \in 1..Len(u), NEW j \in 1..Len(u), u[i].id = u[j].id PROVE i = j
      BY <2>2, <3>1, <3>2, <3>3, <3>5
    <3> QED BY <3>1, <3>4, <3>5
  <2>7. Upto(f[n + 1], n + 1)
    <3> HIDE DEF Upto
    <3> QED BY <2>4, <2>5, <2>6
  <2> HIDE DEF Upto
  <2> QED BY <2>1, <2>7
<1>5. Len(s) \in T
  <2>1. 0..Len(s) \subseteq T
    <3> HIDE DEF T
    <3> QED BY <1>2, <1>3, <1>4, Counting
  <2>2. Len(s) \in 0..Len(s)
    BY <1>2
  <2> HIDE DEF T
  <2> QED BY <2>1, <2>2
<1>6. Earlier(s, agent) \in Seq(Paper) /\ Upto(Earlier(s, agent), Len(s))
  BY <1>1, <1>2, <1>5
<1> QED BY <1>6 DEF PartOf, Different

------------------------------------------------------------------------------
(* Boards.                                                                    *)

\* The parts of a board.
LEMMA Parts ==
  ASSUME NEW b \in Boards
  PROVE  /\ b.papers \subseteq Paper /\ b.tray \in Seq(Paper) /\ b.ideas \in Seq(Idea)
         /\ Len(b.tray) \in Nat /\ DOMAIN b.tray = 1..Len(b.tray)
         /\ \A i \in 1..Len(b.tray) : b.tray[i] \in Paper
         /\ Len(b.ideas) \in Nat /\ DOMAIN b.ideas = 1..Len(b.ideas)
         /\ \A i \in 1..Len(b.ideas) :
               /\ b.ideas[i] \in Idea /\ b.ideas[i].held \in Paper \cup {None}
               /\ b.ideas[i].links \subseteq Link
<1>1. b.papers \subseteq Paper /\ b.tray \in Seq(Paper) /\ b.ideas \in Seq(Idea)
  BY DEF Boards
<1>2. \A i \in 1..Len(b.ideas) : b.ideas[i] \in Idea
  BY <1>1, Elements
<1>3. \A x \in Idea : x.held \in Paper \cup {None} /\ x.links \subseteq Link
  BY DEF Idea
<1> QED BY <1>1, <1>2, <1>3, Elements

\* Where the papers of a board lie.
LEMMA Lying ==
  ASSUME NEW b \in Boards
  PROVE  /\ \A p : p \in Held(b) <=> \E i \in 1..Len(b.ideas) : p = b.ideas[i].held /\ p # None
         /\ \A p : p \in Everywhere(b) <=>
               p \in b.papers \/ (\E i \in 1..Len(b.tray) : p = b.tray[i]) \/ p \in Held(b)
         /\ \A n : n \in Taken(b) <=> \E p \in Everywhere(b) : n = p.id
         /\ Everywhere(b) \subseteq Paper
<1>1. \A p : p \in Held(b) <=> \E i \in 1..Len(b.ideas) : p = b.ideas[i].held /\ p # None
  BY Parts DEF Held, Range
<1>2. \A p : p \in Everywhere(b) <=>
        p \in b.papers \/ (\E i \in 1..Len(b.tray) : p = b.tray[i]) \/ p \in Held(b)
  BY Parts DEF Everywhere, Range
<1>3. \A n : n \in Taken(b) <=> \E p \in Everywhere(b) : n = p.id
  BY DEF Taken, Ids
<1>4. Everywhere(b) \subseteq Paper
  BY <1>1, <1>2, Parts
<1> QED BY <1>1, <1>2, <1>3, <1>4

\* An id that is not taken is nobody's.
LEMMA NotTaken ==
  ASSUME NEW b \in Boards, NEW n, n \notin Taken(b)
  PROVE  /\ \A p \in b.papers : p.id # n
         /\ \A i \in 1..Len(b.tray) : b.tray[i].id # n
         /\ \A i \in 1..Len(b.ideas) : b.ideas[i].held # None => b.ideas[i].held.id # n
  BY Lying

\* What it means that the papers of a board lie apart.
LEMMA ApartIs ==
  ASSUME NEW b, Apart(b)
  PROVE  /\ \A p, q \in b.papers : p.id = q.id => p = q
         /\ \A i, j \in 1..Len(b.tray) : b.tray[i].id = b.tray[j].id => i = j
         /\ \A i, j \in 1..Len(b.ideas) :
               b.ideas[i].held # None /\ b.ideas[j].held # None
                  /\ b.ideas[i].held.id = b.ideas[j].held.id => i = j
         /\ \A p \in b.papers, i \in 1..Len(b.tray) : p.id # b.tray[i].id
         /\ \A p \in b.papers, i \in 1..Len(b.ideas) :
               b.ideas[i].held # None => p.id # b.ideas[i].held.id
         /\ \A i \in 1..Len(b.tray), j \in 1..Len(b.ideas) :
               b.ideas[j].held # None => b.tray[i].id # b.ideas[j].held.id
  BY DEF Apart, Different

\* A paper is laid on the table.
LEMMA Laid ==
  ASSUME NEW b \in Boards, Sound(b), NEW p \in Paper, p.id \notin Taken(b), p.origin = p.made,
         NEW c \in Boards, c.papers = b.papers \cup {p}, c.tray = b.tray, c.ideas = b.ideas
  PROVE  Sound(c) /\ Held(c) = Held(b)
<1>1. Held(c) = Held(b) /\ Everywhere(c) = Everywhere(b) \cup {p}
  BY DEF Held, Everywhere
<1>2. Apart(c)
  BY NotTaken DEF Sound, Apart
<1>3. Marked(c) /\ Meant(c)
  BY <1>1 DEF Sound, Marked, Meant
<1> QED BY <1>1, <1>2, <1>3 DEF Sound

\* A paper is taken off the table; its id is free.
LEMMA TakenOff ==
  ASSUME NEW b \in Boards, Sound(b), NEW p \in b.papers,
         NEW c \in Boards, c.papers = b.papers \ {p}, c.tray = b.tray, c.ideas = b.ideas
  PROVE  Sound(c) /\ Held(c) = Held(b) /\ p.id \notin Taken(c)
<1>1. Held(c) = Held(b) /\ Everywhere(c) \subseteq Everywhere(b)
  BY DEF Held, Everywhere
<1>2. Apart(c)
  BY DEF Sound, Apart
<1>3. Marked(c) /\ Meant(c)
  BY <1>1 DEF Sound, Marked, Meant
<1>4. ASSUME NEW q \in Everywhere(c), p.id = q.id PROVE FALSE
  <2>1. q \notin c.papers
    BY <1>4 DEF Sound, Apart
  <2>2. \A i \in 1..Len(c.tray) : q # c.tray[i]
    BY <1>4 DEF Sound, Apart
  <2>3. q \notin Held(c)
    BY <1>4, Lying DEF Sound, Apart
  <2> QED BY <1>4, <2>1, <2>2, <2>3, Lying
<1>5. p.id \notin Taken(c)
  BY <1>4, Lying
<1> QED BY <1>1, <1>2, <1>3, <1>5 DEF Sound

\* The AI section has lost papers.
LEMMA TrayLess ==
  ASSUME NEW b \in Boards, Sound(b),
         NEW c \in Boards, PartOf(c.tray, b.tray), c.papers = b.papers, c.ideas = b.ideas
  PROVE  Sound(c) /\ Held(c) = Held(b) /\ Everywhere(c) \subseteq Everywhere(b)
<1>1. Held(c) = Held(b)
  BY DEF Held
<1>2. \A i \in 1..Len(c.tray) : \E j \in 1..Len(b.tray) : c.tray[i] = b.tray[j]
  BY DEF PartOf
<1>3. Everywhere(c) \subseteq Everywhere(b)
  BY <1>1, <1>2, Lying
<1>4. Apart(c)
  <2>1. Different(c.tray)
    BY DEF PartOf
  <2>2. \A p \in c.papers, i \in 1..Len(c.tray) : p.id # c.tray[i].id
    <3>1. \A p \in b.papers, j \in 1..Len(b.tray) : p.id # b.tray[j].id
      BY DEF Sound, Apart
    <3> QED BY <1>2, <3>1
  <2>3. \A i \in 1..Len(c.tray), j \in 1..Len(c.ideas) :
           c.ideas[j].held # None => c.tray[i].id # c.ideas[j].held.id
    BY <1>2 DEF Sound, Apart
  <2>4. /\ \A p, q \in c.papers : p.id = q.id => p = q
        /\ \A i, j \in 1..Len(c.ideas) :
              c.ideas[i].held # None /\ c.ideas[j].held # None
                 /\ c.ideas[i].held.id = c.ideas[j].held.id => i = j
        /\ \A p \in c.papers, i \in 1..Len(c.ideas) :
              c.ideas[i].held # None => p.id # c.ideas[i].held.id
    BY DEF Sound, Apart
  <2> QED BY <2>1, <2>2, <2>3, <2>4 DEF Apart
<1>5. Marked(c) /\ Meant(c)
  BY <1>2, <1>3 DEF Sound, Marked, Meant
<1> QED BY <1>1, <1>3, <1>4, <1>5 DEF Sound

\* The AI section has a paper more.
LEMMA TrayMore ==
  ASSUME NEW b \in Boards, Sound(b), NEW p \in Paper, p.id \notin Taken(b), p.origin = p.made,
         p.kind # "photo", NEW c \in Boards, c.papers = b.papers, c.ideas = b.ideas,
         c.tray = Append(b.tray, p)
  PROVE  Sound(c) /\ Held(c) = Held(b)
<1>1. PICK t \in Seq(Paper) : /\ t = c.tray /\ Len(t) = Len(b.tray) + 1 /\ t[Len(b.tray) + 1] = p
                              /\ \A i \in 1..Len(b.tray) : t[i] = b.tray[i]
  <2>1. b.tray \in Seq(Paper)
    BY Parts
  <2>2. /\ Append(b.tray, p) \in Seq(Paper) /\ Len(Append(b.tray, p)) = Len(b.tray) + 1
        /\ Append(b.tray, p)[Len(b.tray) + 1] = p
        /\ \A i \in 1..Len(b.tray) : Append(b.tray, p)[i] = b.tray[i]
    BY <2>1, AppendProperties
  <2> QED BY <2>2
<1>2. Len(b.tray) \in Nat /\ \A i \in 1..Len(t) : i \in 1..Len(b.tray) \/ i = Len(b.tray) + 1
  BY <1>1, Parts
<1>3. Held(c) = Held(b)
  BY DEF Held
<1>4. Everywhere(c) \subseteq Everywhere(b) \cup {p}
  <2> SUFFICES ASSUME NEW q \in Everywhere(c) PROVE q \in Everywhere(b) \cup {p}
    OBVIOUS
  <2>1. q \in b.papers \/ (\E i \in 1..Len(t) : q = t[i]) \/ q \in Held(b)
    BY <1>1, <1>3, Lying
  <2>2. (\E i \in 1..Len(t) : q = t[i]) => q = p \/ \E i \in 1..Len(b.tray) : q = b.tray[i]
    BY <1>1, <1>2
  <2> QED BY <2>1, <2>2, Lying
<1>5. Different(t)
  BY <1>1, <1>2, NotTaken DEF Sound, Apart, Different
<1>6. Apart(c)
  <2>1. \A q \in c.papers, i \in 1..Len(t) : q.id # t[i].id
    BY <1>1, <1>2, NotTaken DEF Sound, Apart
  <2>2. \A i \in 1..Len(t), j \in 1..Len(c.ideas) :
           c.ideas[j].held # None => t[i].id # c.ideas[j].held.id
    BY <1>1, <1>2, NotTaken DEF Sound, Apart
  <2> QED BY <1>1, <1>5, <2>1, <2>2 DEF Sound, Apart
<1>7. Marked(c) /\ Meant(c)
  BY <1>1, <1>2, <1>4 DEF Sound, Marked, Meant
<1> QED BY <1>3, <1>6, <1>7 DEF Sound

\* An idea is taken off the idea board; the id of the paper it held is free.
LEMMA IdeaOut ==
  ASSUME NEW b \in Boards, Sound(b), NEW i \in 1..Len(b.ideas),
         NEW c \in Boards, c.papers = b.papers, c.tray = b.tray, c.ideas = RemoveAt(b.ideas, i)
  PROVE  /\ Sound(c) /\ Held(c) \subseteq Held(b) /\ Held(b) \subseteq Held(c) \cup {b.ideas[i].held}
         /\ b.ideas[i].held # None => b.ideas[i].held.id \notin Taken(c)
<1>1. PICK s \in Seq(Idea) :
         /\ s = c.ideas /\ Len(s) = Len(b.ideas) - 1
         /\ \A k \in 1..(Len(b.ideas) - 1) : s[k] = IF k < i THEN b.ideas[k] ELSE b.ideas[k + 1]
  <2>1. b.ideas \in Seq(Idea)
    BY Parts
  <2> QED BY <2>1, RemovedAt
<1>2. Len(b.ideas) \in Nat /\ i \in Int
  BY Parts
<1>3. \A k \in 1..Len(s) : \E j \in 1..Len(b.ideas) :
         s[k] = b.ideas[j] /\ j # i /\ j = IF k < i THEN k ELSE k + 1
  <2> TAKE k \in 1..Len(s)
  <2>1. CASE k < i
    <3>1. k \in 1..Len(b.ideas) /\ k # i /\ k \in 1..(Len(b.ideas) - 1)
      BY <1>1, <1>2, <2>1
    <3>2. s[k] = b.ideas[k]
      BY <1>1, <2>1, <3>1
    <3> QED BY <2>1, <3>1, <3>2
  <2>2. CASE ~ (k < i)
    <3>1. k + 1 \in 1..Len(b.ideas) /\ k + 1 # i /\ s[k] = b.ideas[k + 1]
      BY <1>1, <1>2, <2>2
    <3> QED BY <2>2, <3>1
  <2> QED BY <2>1, <2>2
<1>4. \A j \in 1..Len(b.ideas) : j # i => \E k \in 1..Len(s) : s[k] = b.ideas[j]
  <2> SUFFICES ASSUME NEW j \in 1..Len(b.ideas), j # i PROVE \E k \in 1..Len(s) : s[k] = b.ideas[j]
    OBVIOUS
  <2>1. CASE j < i
    <3>1. j \in 1..Len(s) /\ s[j] = b.ideas[j]
      BY <1>1, <1>2, <2>1
    <3> QED BY <3>1
  <2>2. CASE ~ (j < i)
    <3>1. j - 1 \in 1..Len(s) /\ ~ (j - 1 < i) /\ (j - 1) + 1 = j
      BY <1>1, <1>2, <2>2
    <3>2. s[j - 1] = b.ideas[j]
      BY <1>1, <3>1
    <3> QED BY <3>1, <3>2
  <2> QED BY <2>1, <2>2
<1>5. Held(c) \subseteq Held(b) /\ Held(b) \subseteq Held(c) \cup {b.ideas[i].held}
  <2>1. ASSUME NEW p \in Held(c) PROVE p \in Held(b)
    <3>1. p # None /\ \E k \in 1..Len(s) : p = s[k].held
      BY <1>1, Lying
    <3>2. \E j \in 1..Len(b.ideas) : p = b.ideas[j].held
      BY <1>3, <3>1
    <3> QED BY <3>1, <3>2, Lying
  <2>2. ASSUME NEW p \in Held(b) PROVE p \in Held(c) \cup {b.ideas[i].held}
    <3>1. PICK j \in 1..Len(b.ideas) : p # None /\ p = b.ideas[j].held
      BY Lying
    <3>2. j # i => \E k \in 1..Len(s) : p = s[k].held
      BY <1>4, <3>1
    <3>3. j # i => p \in Held(c)
      BY <1>1, <3>1, <3>2, Lying
    <3> QED BY <3>1, <3>3
  <2> QED BY <2>1, <2>2
<1>6. Everywhere(c) \subseteq Everywhere(b)
  BY <1>5, Lying
<1>7. Apart(c)
  <2>1. ASSUME NEW k \in 1..Len(s), NEW l \in 1..Len(s), s[k].held # None, s[l].held # None,
               s[k].held.id = s[l].held.id
        PROVE  k = l
    <3>1. PICK j \in 1..Len(b.ideas) : s[k] = b.ideas[j] /\ j = IF k < i THEN k ELSE k + 1
      BY <1>3
    <3>2. PICK m \in 1..Len(b.ideas) : s[l] = b.ideas[m] /\ m = IF l < i THEN l ELSE l + 1
      BY <1>3
    <3>3. j = m
      <4>1. Apart(b)
        BY DEF Sound
      <4>2. \A x, y \in 1..Len(b.ideas) :
               b.ideas[x].held # None /\ b.ideas[y].held # None
                  /\ b.ideas[x].held.id = b.ideas[y].held.id => x = y
        BY <4>1, ApartIs
      <4>3. /\ b.ideas[j].held # None /\ b.ideas[m].held # None
            /\ b.ideas[j].held.id = b.ideas[m].held.id
        BY <2>1, <3>1, <3>2
      <4> QED BY <4>2, <4>3
    <3>4. k \in Int /\ l \in Int
      OBVIOUS
    <3> QED BY <1>2, <3>1, <3>2, <3>3, <3>4
  <2>2. \A k \in 1..Len(s) : \E j \in 1..Len(b.ideas) : s[k] = b.ideas[j]
    BY <1>3
  <2>3. Apart(b)
    BY DEF Sound
  <2>4. \A p \in c.papers, k \in 1..Len(s) : s[k].held # None => p.id # s[k].held.id
    <3>1. \A p \in c.papers, j \in 1..Len(b.ideas) : b.ideas[j].held # None => p.id # b.ideas[j].held.id
      BY <2>3, ApartIs
    <3> QED BY <2>2, <3>1
  <2>5. \A l \in 1..Len(c.tray), k \in 1..Len(s) : s[k].held # None => c.tray[l].id # s[k].held.id
    <3>1. \A l \in 1..Len(c.tray), j \in 1..Len(b.ideas) :
             b.ideas[j].held # None => c.tray[l].id # b.ideas[j].held.id
      BY <2>3, ApartIs
    <3> QED BY <2>2, <3>1
  <2>6. /\ \A p, q \in c.papers : p.id = q.id => p = q
        /\ Different(c.tray)
        /\ \A p \in c.papers, l \in 1..Len(c.tray) : p.id # c.tray[l].id
    BY <2>3 DEF Apart
  <2> QED BY <1>1, <2>1, <2>4, <2>5, <2>6 DEF Apart
<1>8. Marked(c) /\ Meant(c)
  BY <1>1, <1>3, <1>6 DEF Sound, Marked, Meant
<1>9. ASSUME b.ideas[i].held # None, NEW q \in Everywhere(c), b.ideas[i].held.id = q.id PROVE FALSE
  <2>1. q \notin c.papers /\ \A l \in 1..Len(c.tray) : q # c.tray[l]
    BY <1>9 DEF Sound, Apart
  <2>2. q \notin Held(c)
    <3>1. ASSUME NEW k \in 1..Len(s), s[k].held # None, q = s[k].held PROVE FALSE
      <4>1. PICK j \in 1..Len(b.ideas) : s[k] = b.ideas[j] /\ j # i
        BY <1>3
      <4> QED BY <1>9, <3>1, <4>1 DEF Sound, Apart
    <3> QED BY <1>1, <3>1, Lying
  <2> QED BY <1>9, <2>1, <2>2, Lying
<1> QED BY <1>5, <1>7, <1>8, <1>9, Lying DEF Sound

\* An idea is put on the idea board, with a paper whose id is free or without one.
LEMMA IdeaIn ==
  ASSUME NEW b \in Boards, Sound(b), NEW at \in 1..(Len(b.ideas) + 1), NEW e \in Idea,
         \A l \in e.links : l.meant,
         e.held # None => e.held.id \notin Taken(b) /\ e.held.origin = e.held.made,
         NEW c \in Boards, c.papers = b.papers, c.tray = b.tray, c.ideas = InsertAt(b.ideas, at, e)
  PROVE  /\ Sound(c) /\ Held(b) \subseteq Held(c) /\ Held(c) \subseteq Held(b) \cup {e.held}
         /\ e.held # None => e.held \in Held(c)
<1>1. PICK s \in Seq(Idea) :
         /\ s = c.ideas /\ Len(s) = Len(b.ideas) + 1
         /\ \A k \in 1..(Len(b.ideas) + 1) :
               s[k] = IF k < at THEN b.ideas[k] ELSE IF k = at THEN e ELSE b.ideas[k - 1]
  <2>1. b.ideas \in Seq(Idea)
    BY Parts
  <2>2. /\ InsertAt(b.ideas, at, e) \in Seq(Idea) /\ Len(InsertAt(b.ideas, at, e)) = Len(b.ideas) + 1
        /\ \A k \in 1..(Len(b.ideas) + 1) :
              InsertAt(b.ideas, at, e)[k] =
                 IF k < at THEN b.ideas[k] ELSE IF k = at THEN e ELSE b.ideas[k - 1]
    <3>1. PICK t \in Seq(Idea) : t = b.ideas
      BY <2>1
    <3>2. at \in 1..(Len(t) + 1)
      BY <3>1
    <3>3. /\ InsertAt(t, at, e) \in Seq(Idea) /\ Len(InsertAt(t, at, e)) = Len(t) + 1
          /\ \A k \in 1..(Len(t) + 1) :
                InsertAt(t, at, e)[k] =
                   IF k < at THEN t[k] ELSE IF k = at THEN e ELSE t[k - 1]
      BY ONLY <3>2, InsertedAt
    <3> QED BY <3>1, <3>3
  <2> QED BY <2>2
<1>2. Len(b.ideas) \in Nat /\ at \in Int
  BY Parts
<1>3. \A k \in 1..Len(s) :
         \/ k = at /\ s[k] = e
         \/ \E j \in 1..Len(b.ideas) : s[k] = b.ideas[j] /\ k # at /\ j = IF k < at THEN k ELSE k - 1
  <2> TAKE k \in 1..Len(s)
  <2>1. CASE k < at
    <3>1. k \in 1..Len(b.ideas) /\ k # at /\ s[k] = b.ideas[k]
      BY <1>1, <1>2, <2>1
    <3> QED BY <2>1, <3>1
  <2>2. CASE k = at
    BY <1>1, <1>2, <2>2
  <2>3. CASE ~ (k < at) /\ k # at
    <3>1. k - 1 \in 1..Len(b.ideas) /\ s[k] = b.ideas[k - 1]
      BY <1>1, <1>2, <2>3
    <3> QED BY <2>3, <3>1
  <2> QED BY <2>1, <2>2, <2>3
<1>4. \A j \in 1..Len(b.ideas) : \E k \in 1..Len(s) : s[k] = b.ideas[j]
  <2> TAKE j \in 1..Len(b.ideas)
  <2>1. CASE j < at
    <3>1. j \in 1..Len(s) /\ s[j] = b.ideas[j]
      BY <1>1, <1>2, <2>1
    <3> QED BY <3>1
  <2>2. CASE ~ (j < at)
    <3>1. j + 1 \in 1..Len(s) /\ ~ (j + 1 < at) /\ j + 1 # at /\ (j + 1) - 1 = j
      BY <1>1, <1>2, <2>2
    <3>2. s[j + 1] = b.ideas[j]
      BY <1>1, <3>1
    <3> QED BY <3>1, <3>2
  <2> QED BY <2>1, <2>2
<1>5. at \in 1..Len(s) /\ s[at] = e
  BY <1>1, <1>2
<1>6. Held(b) \subseteq Held(c) /\ Held(c) \subseteq Held(b) \cup {e.held}
  <2>1. ASSUME NEW p \in Held(b) PROVE p \in Held(c)
    <3>1. p # None /\ \E j \in 1..Len(b.ideas) : p = b.ideas[j].held
      BY Lying
    <3>2. \E k \in 1..Len(s) : p = s[k].held
      BY <1>4, <3>1
    <3> QED BY <1>1, <3>1, <3>2, Lying
  <2>2. ASSUME NEW p \in Held(c) PROVE p \in Held(b) \cup {e.held}
    <3>1. p # None /\ \E k \in 1..Len(s) : p = s[k].held
      BY <1>1, Lying
    <3>2. p = e.held \/ \E j \in 1..Len(b.ideas) : p = b.ideas[j].held
      BY <1>3, <3>1
    <3> QED BY <3>1, <3>2, Lying
  <2> QED BY <2>1, <2>2
<1>7. e.held # None => e.held \in Held(c)
  BY <1>1, <1>5, Lying
<1>8. Apart(c)
  <2>1. ASSUME NEW k \in 1..Len(s), NEW l \in 1..Len(s), s[k].held # None, s[l].held # None,
               s[k].held.id = s[l].held.id, k # at, l # at
        PROVE  k = l
    <3>1. PICK j \in 1..Len(b.ideas) : s[k] = b.ideas[j] /\ j = IF k < at THEN k ELSE k - 1
      BY <1>3, <2>1
    <3>2. PICK m \in 1..Len(b.ideas) : s[l] = b.ideas[m] /\ m = IF l < at THEN l ELSE l - 1
      BY <1>3, <2>1
    <3>3. j = m
      <4>1. Apart(b)
        BY DEF Sound
      <4>2. \A x, y \in 1..Len(b.ideas) :
               b.ideas[x].held # None /\ b.ideas[y].held # None
                  /\ b.ideas[x].held.id = b.ideas[y].held.id => x = y
        BY <4>1, ApartIs
      <4>3. /\ b.ideas[j].held # None /\ b.ideas[m].held # None
            /\ b.ideas[j].held.id = b.ideas[m].held.id
        BY <2>1, <3>1, <3>2
      <4> QED BY <4>2, <4>3
    <3>4. k \in Int /\ l \in Int
      OBVIOUS
    <3> QED BY <1>2, <2>1, <3>1, <3>2, <3>3, <3>4
  <2>2. ASSUME NEW k \in 1..Len(s), s[k].held # None, e.held # None, s[k].held.id = e.held.id
        PROVE  k = at
    <3>1. \A j \in 1..Len(b.ideas) : b.ideas[j].held # None => b.ideas[j].held.id # e.held.id
      BY <2>2, NotTaken
    <3> QED BY <1>3, <2>2, <3>1
  <2>3. ASSUME NEW k \in 1..Len(s), NEW l \in 1..Len(s), s[k].held # None, s[l].held # None,
               s[k].held.id = s[l].held.id
        PROVE  k = l
    BY <1>5, <2>1, <2>2, <2>3
  <2>4. \A p \in c.papers, k \in 1..Len(s) : s[k].held # None => p.id # s[k].held.id
    <3>1. ASSUME NEW p \in c.papers, e.held # None PROVE p.id # e.held.id
      BY <3>1, NotTaken
    <3>2. \A p \in c.papers, j \in 1..Len(b.ideas) : b.ideas[j].held # None => p.id # b.ideas[j].held.id
      BY DEF Sound, Apart
    <3>3. ASSUME NEW p \in c.papers, NEW k \in 1..Len(s), s[k].held # None
          PROVE  p.id # s[k].held.id
      <4>1. CASE s[k] = e
        BY <3>1, <3>3, <4>1
      <4>2. CASE \E j \in 1..Len(b.ideas) : s[k] = b.ideas[j]
        BY <3>2, <3>3, <4>2
      <4> QED BY <1>3, <4>1, <4>2
    <3> QED BY <3>3
  <2>5. \A l \in 1..Len(c.tray), k \in 1..Len(s) : s[k].held # None => c.tray[l].id # s[k].held.id
    <3>1. ASSUME NEW l \in 1..Len(c.tray), e.held # None PROVE c.tray[l].id # e.held.id
      BY <3>1, NotTaken
    <3>2. \A l \in 1..Len(c.tray), j \in 1..Len(b.ideas) :
             b.ideas[j].held # None => c.tray[l].id # b.ideas[j].held.id
      BY DEF Sound, Apart
    <3>3. ASSUME NEW l \in 1..Len(c.tray), NEW k \in 1..Len(s), s[k].held # None
          PROVE  c.tray[l].id # s[k].held.id
      <4>1. CASE s[k] = e
        BY <3>1, <3>3, <4>1
      <4>2. CASE \E j \in 1..Len(b.ideas) : s[k] = b.ideas[j]
        BY <3>2, <3>3, <4>2
      <4> QED BY <1>3, <4>1, <4>2
    <3> QED BY <3>3
  <2>6. /\ \A p, q \in c.papers : p.id = q.id => p = q
        /\ Different(c.tray)
        /\ \A p \in c.papers, l \in 1..Len(c.tray) : p.id # c.tray[l].id
    BY DEF Sound, Apart
  <2>7. \A k, l \in 1..Len(s) :
           s[k].held # None /\ s[l].held # None /\ s[k].held.id = s[l].held.id => k = l
    BY <2>3
  <2> QED BY <1>1, <2>4, <2>5, <2>6, <2>7 DEF Apart
<1>9. Marked(c) /\ Meant(c)
  <2>1. \A p \in Everywhere(c) : p \in Everywhere(b) \/ (p = e.held /\ p # None)
    BY <1>6, Lying
  <2>2. Marked(c)
    BY <2>1 DEF Sound, Marked
  <2>3. Meant(c)
    BY <1>1, <1>3 DEF Sound, Meant
  <2> QED BY <2>2, <2>3
<1> QED BY <1>6, <1>7, <1>8, <1>9 DEF Sound

\* The same papers lie in the same places.
LEMMA IdeasKept ==
  ASSUME NEW b \in Boards, NEW c \in Boards, c.papers = b.papers, c.tray = b.tray,
         Len(c.ideas) = Len(b.ideas),
         \A i \in 1..Len(b.ideas) : c.ideas[i].held = b.ideas[i].held
  PROVE  /\ Held(c) = Held(b) /\ Everywhere(c) = Everywhere(b) /\ Taken(c) = Taken(b)
         /\ Apart(b) => Apart(c)
         /\ Marked(b) => Marked(c)
<1>1. Held(c) = Held(b)
  <2>1. \A p : p \in Held(c) <=> \E i \in 1..Len(b.ideas) : p = b.ideas[i].held /\ p # None
    BY Lying
  <2>2. \A p : p \in Held(c) <=> p \in Held(b)
    BY <2>1, Lying
  <2> QED BY <2>2
<1>2. Everywhere(c) = Everywhere(b)
  BY <1>1 DEF Everywhere
<1>3. ASSUME Apart(b) PROVE Apart(c)
  <2>1. /\ \A p, q \in c.papers : p.id = q.id => p = q
        /\ Different(c.tray)
        /\ \A p \in c.papers, i \in 1..Len(c.tray) : p.id # c.tray[i].id
    BY <1>3 DEF Apart
  <2>2. \A i, j \in 1..Len(c.ideas) :
           c.ideas[i].held # None /\ c.ideas[j].held # None
              /\ c.ideas[i].held.id = c.ideas[j].held.id => i = j
    <3>1. \A i, j \in 1..Len(b.ideas) :
             b.ideas[i].held # None /\ b.ideas[j].held # None
                /\ b.ideas[i].held.id = b.ideas[j].held.id => i = j
      BY <1>3, ApartIs
    <3> TAKE i \in 1..Len(c.ideas), j \in 1..Len(c.ideas)
    <3>2. c.ideas[i].held = b.ideas[i].held /\ c.ideas[j].held = b.ideas[j].held
      OBVIOUS
    <3> QED BY <3>1, <3>2
  <2>3. \A p \in c.papers, i \in 1..Len(c.ideas) :
           c.ideas[i].held # None => p.id # c.ideas[i].held.id
    BY <1>3, ApartIs
  <2>4. \A i \in 1..Len(c.tray), j \in 1..Len(c.ideas) :
           c.ideas[j].held # None => c.tray[i].id # c.ideas[j].held.id
    BY <1>3, ApartIs
  <2> QED BY <2>1, <2>2, <2>3, <2>4 DEF Apart
<1>4. Marked(b) => Marked(c)
  BY <1>2 DEF Marked
<1>5. Taken(c) = Taken(b)
  BY <1>2 DEF Taken
<1> QED BY <1>1, <1>2, <1>3, <1>4, <1>5

\* An idea's text and links are changed.
LEMMA IdeasSame ==
  ASSUME NEW b \in Boards, Sound(b),
         NEW c \in Boards, c.papers = b.papers, c.tray = b.tray, Len(c.ideas) = Len(b.ideas),
         \A i \in 1..Len(b.ideas) : c.ideas[i].held = b.ideas[i].held, Meant(c)
  PROVE  Sound(c) /\ Held(c) = Held(b)
  BY IdeasKept DEF Sound

\* Two ideas change places.
LEMMA IdeasSwapped ==
  ASSUME NEW b \in Boards, Sound(b), NEW i \in 1..Len(b.ideas), NEW j \in 1..Len(b.ideas),
         NEW c \in Boards, c.papers = b.papers, c.tray = b.tray, Len(c.ideas) = Len(b.ideas),
         \A k \in 1..Len(b.ideas) : c.ideas[k] =
            IF k = j THEN b.ideas[i] ELSE IF k = i THEN b.ideas[j] ELSE b.ideas[k]
  PROVE  Sound(c) /\ Held(c) = Held(b)
<1> DEFINE other(k) == IF k = j THEN i ELSE IF k = i THEN j ELSE k
<1>1. \A k \in 1..Len(b.ideas) :
         other(k) \in 1..Len(b.ideas) /\ c.ideas[k] = b.ideas[other(k)] /\ other(other(k)) = k
  OBVIOUS
<1> HIDE DEF other
<1>2. Held(c) = Held(b)
  <2>1. ASSUME NEW p \in Held(c) PROVE p \in Held(b)
    <3>1. p # None /\ \E k \in 1..Len(b.ideas) : p = c.ideas[k].held
      BY Lying
    <3>2. \E k \in 1..Len(b.ideas) : p = b.ideas[k].held
      BY <1>1, <3>1
    <3> QED BY <3>1, <3>2, Lying
  <2>2. ASSUME NEW p \in Held(b) PROVE p \in Held(c)
    <3>1. PICK l \in 1..Len(b.ideas) : p # None /\ p = b.ideas[l].held
      BY Lying
    <3>2. other(l) \in 1..Len(c.ideas) /\ p = c.ideas[other(l)].held
      BY <1>1, <3>1
    <3> QED BY <3>1, <3>2, Lying
  <2> QED BY <2>1, <2>2
<1>3. Everywhere(c) = Everywhere(b)
  BY <1>2 DEF Everywhere
<1>4. Apart(c)
  <2>1. ASSUME NEW k \in 1..Len(c.ideas), NEW l \in 1..Len(c.ideas), c.ideas[k].held # None,
               c.ideas[l].held # None, c.ideas[k].held.id = c.ideas[l].held.id
        PROVE  k = l
    <3>1. other(k) = other(l)
      <4>1. Apart(b)
        BY DEF Sound
      <4>2. \A x, y \in 1..Len(b.ideas) :
               b.ideas[x].held # None /\ b.ideas[y].held # None
                  /\ b.ideas[x].held.id = b.ideas[y].held.id => x = y
        BY <4>1, ApartIs
      <4>3. PICK x \in 1..Len(b.ideas) : x = other(k) /\ c.ideas[k] = b.ideas[x]
        BY <1>1
      <4>4. PICK y \in 1..Len(b.ideas) : y = other(l) /\ c.ideas[l] = b.ideas[y]
        BY <1>1
      <4> QED BY <2>1, <4>2, <4>3, <4>4
    <3> QED BY <1>1, <3>1
  <2>2. \A p \in c.papers, k \in 1..Len(c.ideas) : c.ideas[k].held # None => p.id # c.ideas[k].held.id
    <3>1. \A p \in c.papers, k \in 1..Len(b.ideas) : b.ideas[k].held # None => p.id # b.ideas[k].held.id
      BY DEF Sound, Apart
    <3>2. \A k \in 1..Len(c.ideas) : \E x \in 1..Len(b.ideas) : c.ideas[k] = b.ideas[x]
      BY <1>1
    <3> TAKE p \in c.papers, k \in 1..Len(c.ideas)
    <3>3. PICK x \in 1..Len(b.ideas) : c.ideas[k] = b.ideas[x]
      BY <3>2
    <3> QED BY <3>1, <3>3
  <2>3. \A l \in 1..Len(c.tray), k \in 1..Len(c.ideas) :
           c.ideas[k].held # None => c.tray[l].id # c.ideas[k].held.id
    <3>1. \A l \in 1..Len(c.tray), k \in 1..Len(b.ideas) :
             b.ideas[k].held # None => c.tray[l].id # b.ideas[k].held.id
      BY DEF Sound, Apart
    <3>2. \A k \in 1..Len(c.ideas) : \E x \in 1..Len(b.ideas) : c.ideas[k] = b.ideas[x]
      BY <1>1
    <3> TAKE l \in 1..Len(c.tray), k \in 1..Len(c.ideas)
    <3>3. PICK x \in 1..Len(b.ideas) : c.ideas[k] = b.ideas[x]
      BY <3>2
    <3> QED BY <3>1, <3>3
  <2> QED BY <2>1, <2>2, <2>3 DEF Sound, Apart
<1>5. Marked(c) /\ Meant(c)
  BY <1>1, <1>3 DEF Sound, Marked, Meant
<1> QED BY <1>2, <1>4, <1>5 DEF Sound

\* What a function makes of every element of a sequence.
LEMMA Mapped ==
  ASSUME NEW S, NEW T, NEW s \in Seq(S), NEW f \in [DOMAIN s -> T]
  PROVE  f \in Seq(T) /\ Len(f) = Len(s)
<1>1. Len(s) \in Nat /\ DOMAIN s = 1..Len(s)
  BY Elements
<1>2. f \in [1..Len(s) -> T]
  BY <1>1
<1> QED BY <1>1, <1>2, SeqDef

\* An idea with other links.
LEMMA Relinked ==
  ASSUME NEW x \in Idea, NEW links \in SUBSET Link
  PROVE  LET y == [x EXCEPT !.links = links]
         IN  y \in Idea /\ y.held = x.held /\ y.links = links
  BY DEF Idea

\* Reading the board leaves the papers where they are and only the links that are meant.
LEMMA Loaded ==
  ASSUME NEW b \in Boards, Apart(b), Marked(b), Linked(b)
  PROVE  /\ Sound(Load(b)) /\ Load(b).papers = b.papers /\ Load(b).tray = b.tray
         /\ Held(Load(b)) = Held(b) /\ Taken(Load(b)) = Taken(b)
         /\ Len(Load(b).ideas) = Len(b.ideas)
         /\ \A i \in 1..Len(b.ideas) :
               /\ Load(b).ideas[i].held = b.ideas[i].held
               /\ Load(b).ideas[i].links = {l \in b.ideas[i].links : l.meant}
<1> DEFINE N(i) == [b.ideas[i] EXCEPT !.links = {l \in b.ideas[i].links : l.id \in There(b)}]
<1> DEFINE f == [i \in DOMAIN b.ideas |-> N(i)]
<1>1. \A i \in 1..Len(b.ideas) :
        /\ N(i) \in Idea /\ N(i).held = b.ideas[i].held
        /\ N(i).links = {l \in b.ideas[i].links : l.id \in There(b)}
  <2> TAKE i \in 1..Len(b.ideas)
  <2>1. b.ideas[i] \in Idea /\ {l \in b.ideas[i].links : l.id \in There(b)} \in SUBSET Link
    BY Parts
  <2> QED BY <2>1, Relinked
<1>2. b.ideas \in Seq(Idea) /\ DOMAIN b.ideas = 1..Len(b.ideas)
  BY Parts
<1>3. f \in Seq(Idea) /\ Len(f) = Len(b.ideas)
  <2> HIDE DEF N
  <2>1. f \in [DOMAIN b.ideas -> Idea]
    BY <1>1, <1>2
  <2> HIDE DEF f
  <2> QED BY <1>2, <2>1, Mapped
<1>4. Load(b) = [b EXCEPT !.ideas = f]
  BY DEF Load
<1>5. PICK c : c = Load(b)
  OBVIOUS
<1>6. c \in Boards /\ c.papers = b.papers /\ c.tray = b.tray /\ c.ideas = f
  <2> HIDE DEF f
  <2> QED BY <1>3, <1>4, <1>5 DEF Boards
<1>7. \A i \in 1..Len(b.ideas) :
        /\ c.ideas[i].held = b.ideas[i].held
        /\ c.ideas[i].links = {l \in b.ideas[i].links : l.id \in There(b)}
  <2> HIDE DEF N
  <2> QED BY <1>1, <1>2, <1>6
<1> HIDE DEF f, N
<1>8. Held(c) = Held(b) /\ Taken(c) = Taken(b) /\ Apart(c) /\ Marked(c)
  BY <1>3, <1>6, <1>7, IdeasKept
<1>9. There(b) = Taken(b)
  BY DEF There, Taken, Everywhere
<1>10. \A i \in 1..Len(b.ideas) : c.ideas[i].links = {l \in b.ideas[i].links : l.meant}
  BY <1>7, <1>9 DEF Linked
<1>11. Meant(c)
  BY <1>3, <1>6, <1>10 DEF Meant
<1> QED BY <1>3, <1>5, <1>6, <1>7, <1>8, <1>10, <1>11 DEF Sound

\* Saving the board leaves the papers where they are and marks the links to papers that are gone.
LEMMA SavedIs ==
  ASSUME NEW b \in Boards, Sound(b)
  PROVE  /\ Saved(b) \in Boards /\ Apart(Saved(b)) /\ Marked(Saved(b)) /\ Linked(Saved(b))
         /\ Saved(b).papers = b.papers /\ Held(Saved(b)) = Held(b) /\ Taken(Saved(b)) = Taken(b)
<1> DEFINE L(i) == {[l EXCEPT !.meant = l.meant /\ l.id \in Ids(Everywhere(b))] : l \in b.ideas[i].links}
<1> DEFINE N(i) == [b.ideas[i] EXCEPT !.links = L(i)]
<1> DEFINE f == [i \in DOMAIN b.ideas |-> N(i)]
<1>1. \A i \in 1..Len(b.ideas) :
         L(i) \in SUBSET Link /\ \A l \in L(i) : l.meant <=> l.id \in Taken(b)
  <2> TAKE i \in 1..Len(b.ideas)
  <2>1. b.ideas[i].links \subseteq Link /\ \A l \in b.ideas[i].links : l.meant
    BY Parts DEF Sound, Meant
  <2>2. ASSUME NEW l \in b.ideas[i].links
        PROVE  LET m == [l EXCEPT !.meant = l.meant /\ l.id \in Ids(Everywhere(b))]
               IN  m \in Link /\ (m.meant <=> m.id \in Taken(b))
    BY <2>1 DEF Link, Taken
  <2> QED BY <2>2
<1>2. \A i \in 1..Len(b.ideas) : N(i) \in Idea /\ N(i).held = b.ideas[i].held /\ N(i).links = L(i)
  <2> TAKE i \in 1..Len(b.ideas)
  <2> HIDE DEF L
  <2> QED BY <1>1, Parts, Relinked
<1>3. b.ideas \in Seq(Idea) /\ DOMAIN b.ideas = 1..Len(b.ideas)
  BY Parts
<1>4. f \in Seq(Idea) /\ Len(f) = Len(b.ideas)
  <2> HIDE DEF N
  <2>1. f \in [DOMAIN b.ideas -> Idea]
    BY <1>2, <1>3
  <2> HIDE DEF f
  <2> QED BY <1>3, <2>1, Mapped
<1>5. Saved(b) = [b EXCEPT !.ideas = f]
  BY DEF Saved
<1>6. PICK c : c = Saved(b)
  OBVIOUS
<1>7. c \in Boards /\ c.papers = b.papers /\ c.tray = b.tray /\ c.ideas = f
  <2> HIDE DEF f
  <2> QED BY <1>4, <1>5, <1>6 DEF Boards
<1>8. \A i \in 1..Len(b.ideas) : c.ideas[i].held = b.ideas[i].held /\ c.ideas[i].links = L(i)
  <2> HIDE DEF N, L
  <2> QED BY <1>2, <1>3, <1>7
<1> HIDE DEF f, N, L
<1>9. Held(c) = Held(b) /\ Taken(c) = Taken(b) /\ Apart(c) /\ Marked(c)
  BY <1>4, <1>7, <1>8, IdeasKept DEF Sound
<1>10. Linked(c)
  BY <1>1, <1>4, <1>7, <1>8, <1>9 DEF Linked
<1> QED BY <1>6, <1>7, <1>9, <1>10

------------------------------------------------------------------------------
(* The operations.                                                            *)

\* Every paper of the designer's but those in `lost` stays the designer's.
KeepsAllBut(lost) ==
    \A p \in board.papers \cup Held(board) : p \in lost \/ p \in (board.papers \cup Held(board))'

\* The board as an operation reads it.
LEMMA ReadIs ==
  ASSUME TableInv
  PROVE  /\ Read \in Boards /\ Sound(Read) /\ Read.papers = board.papers /\ Read.tray = board.tray
         /\ Held(Read) = Held(board) /\ Taken(Read) = Taken(board)
         /\ Len(Read.ideas) = Len(board.ideas)
         /\ \A i \in 1..Len(board.ideas) :
               /\ Read.ideas[i].held = board.ideas[i].held
               /\ Read.ideas[i].links = {l \in board.ideas[i].links : l.meant}
<1>1. board \in Boards /\ Apart(board) /\ Marked(board) /\ Linked(board)
  BY DEF TableInv, TypeOK, BoardInv, Boards
<1> QED BY <1>1, Loaded DEF Read, Sound

\* The board as an operation leaves it.
LEMMA Saves ==
  ASSUME NEW c \in Boards, Sound(c), Save(c)
  PROVE  /\ board' \in Boards /\ BoardInv' /\ board'.papers = c.papers /\ Held(board') = Held(c)
         /\ Taken(board') = Taken(c)
<1>1. board' = Saved(c)
  BY DEF Save
<1>2. \A b : b = Saved(c) =>
         /\ b \in Boards /\ Apart(b) /\ Marked(b) /\ Linked(b)
         /\ b.papers = c.papers /\ Held(b) = Held(c) /\ Taken(b) = Taken(c)
  BY SavedIs
<1>3. /\ board' \in Boards /\ Apart(board') /\ Marked(board') /\ Linked(board')
      /\ board'.papers = c.papers /\ Held(board') = Held(c) /\ Taken(board') = Taken(c)
  BY <1>1, <1>2
<1> QED BY <1>3 DEF BoardInv

\* An operation that only writes the board.
LEMMA BoardStep ==
  ASSUME TableInv, NEW lost, NEW c \in Boards, Sound(c), Save(c),
         busy' = None, ~Deleting, UNCHANGED <<files, removed>>,
         \A p \in c.papers \cup Held(c) :
            p \in board.papers \cup Held(board) \/ (p.kind = "photo" => p.file \in DOMAIN files),
         \A p \in board.papers \cup Held(board) : p \in lost \/ p \in c.papers \cup Held(c)
  PROVE  TableInv' /\ KeepsAllBut(lost)
<1>1. board' \in Boards /\ BoardInv' /\ board'.papers = c.papers /\ Held(board') = Held(c)
  BY Saves
<1>2. TypeOK'
  BY <1>1 DEF TableInv, TypeOK, Boards
<1>3. FilesInv'
  BY <1>1 DEF TableInv, FilesInv
<1>4. BusyInv'
  BY DEF BusyInv
<1>5. KeepsAllBut(lost)
  BY <1>1 DEF KeepsAllBut
<1> QED BY <1>1, <1>2, <1>3, <1>4, <1>5 DEF TableInv

\* A board with other papers on the table ...
LEMMA OtherPapers ==
  ASSUME NEW b \in Boards, NEW ps \in SUBSET Paper, NEW c, c = [b EXCEPT !.papers = ps]
  PROVE  c \in Boards /\ c.papers = ps /\ c.tray = b.tray /\ c.ideas = b.ideas
  BY DEF Boards

\* ... with another AI section ...
LEMMA OtherTray ==
  ASSUME NEW b \in Boards, NEW ps \in Seq(Paper), NEW c, c = [b EXCEPT !.tray = ps]
  PROVE  c \in Boards /\ c.papers = b.papers /\ c.tray = ps /\ c.ideas = b.ideas
  BY DEF Boards

\* ... with another idea board.
LEMMA OtherIdeas ==
  ASSUME NEW b \in Boards, NEW is \in Seq(Idea), NEW c, c = [b EXCEPT !.ideas = is]
  PROVE  c \in Boards /\ c.papers = b.papers /\ c.tray = b.tray /\ c.ideas = is
  BY DEF Boards

\* A paper comes onto the table: AddPaper, AddPhotoBack and the end of AddPhoto.
LEMMA NewOnTable ==
  ASSUME TableInv, NEW p \in Paper, p.id \notin Taken(Read), p.origin = p.made,
         p.kind = "photo" => p.file \in DOMAIN files,
         Save([Read EXCEPT !.papers = @ \cup {p}]), busy' = None, ~Deleting, UNCHANGED <<files, removed>>
  PROVE  TableInv' /\ KeepsAllBut({})
<1>1. PICK c : c = [Read EXCEPT !.papers = Read.papers \cup {p}]
  OBVIOUS
<1>2. Read \in Boards /\ Sound(Read) /\ Read.papers = board.papers /\ Held(Read) = Held(board)
  BY ReadIs
<1>3. c \in Boards /\ c.papers = Read.papers \cup {p} /\ c.tray = Read.tray /\ c.ideas = Read.ideas
  <2>1. Read.papers \cup {p} \in SUBSET Paper
    BY <1>2, Parts
  <2> QED BY <1>1, <1>2, <2>1, OtherPapers
<1>4. Sound(c) /\ Held(c) = Held(Read)
  BY <1>2, <1>3, Laid
<1>5. Save(c)
  BY <1>1
<1> QED BY <1>2, <1>3, <1>4, <1>5, BoardStep

\* The papers the operations make.
LEMMA NewPapers ==
  ASSUME NEW id \in Names, NEW kind \in Kinds, NEW file \in Names \cup {None},
         NEW agent \in Experts \cup {None}, NEW by \in {"ai", "designer"}
  PROVE  LET p == NewPaper(id, kind, file, agent, by)
         IN  /\ p \in Paper /\ p.id = id /\ p.kind = kind /\ p.file = file
             /\ p.origin = p.made
  BY DEF NewPaper, Paper

\* add_paper: the checked id is free.
LEMMA AddPaperKeeps ==
  ASSUME TableInv, NEW id \in Names, AddPaper(id)
  PROVE  TableInv' /\ KeepsAllBut({})
<1>1. PICK p \in Paper : /\ p = NewPaper(id, "note", None, None, "designer") /\ p.id = id
                         /\ p.kind = "note" /\ p.origin = p.made
  BY NewPapers DEF Kinds
<1>2. /\ Save([Read EXCEPT !.papers = @ \cup {p}]) /\ p.id \notin Taken(Read)
      /\ busy' = None /\ ~Deleting /\ UNCHANGED <<files, removed>>
  BY <1>1 DEF AddPaper, OnlyBoard, Deleting
<1> QED BY <1>1, <1>2, NewOnTable

\* add_paper for an undo: the removed photo's file is still there.
LEMMA AddPhotoBackKeeps ==
  ASSUME TableInv, NEW id \in Names, NEW file \in Names, AddPhotoBack(id, file)
  PROVE  TableInv' /\ KeepsAllBut({})
<1>1. PICK p \in Paper : /\ p = NewPaper(id, "photo", file, None, "designer") /\ p.id = id
                         /\ p.kind = "photo" /\ p.file = file /\ p.origin = p.made
  BY NewPapers DEF Kinds
<1>2. /\ Save([Read EXCEPT !.papers = @ \cup {p}]) /\ p.id \notin Taken(Read)
      /\ busy' = None /\ ~Deleting /\ UNCHANGED <<files, removed>> /\ p.file \in DOMAIN files
  BY <1>1 DEF AddPhotoBack, OnlyBoard, Deleting
<1> QED BY <1>1, <1>2, NewOnTable

\* add_photo's second write: the id of its paper is still free, the file still there.
LEMMA AddPhotoSavesKeeps ==
  ASSUME TableInv, AddPhotoSaves
  PROVE  TableInv' /\ KeepsAllBut({})
<1>1. /\ busy # None /\ busy.op = "upload" /\ busy.paper \in Paper
  BY NoneIsNothing DEF AddPhotoSaves, TableInv, TypeOK, Operation
<1>2. /\ busy.paper.id \notin Taken(Read) /\ busy.paper.origin = busy.paper.made
      /\ busy.paper.kind = "photo" => busy.paper.file \in DOMAIN files
  BY <1>1, ReadIs DEF TableInv, BusyInv
<1>3. /\ Save([Read EXCEPT !.papers = @ \cup {busy.paper}])
      /\ busy' = None /\ ~Deleting /\ UNCHANGED <<files, removed>>
  BY DEF AddPhotoSaves, Deleting
<1>4. PICK p \in Paper : p = busy.paper
  BY <1>1
<1> QED BY <1>2, <1>3, <1>4, NewOnTable

\* update_paper leaves what the model has of a paper.
LEMMA UpdatePaperKeeps ==
  ASSUME TableInv, NEW p, UpdatePaper(p)
  PROVE  TableInv' /\ KeepsAllBut({})
<1>1. Read \in Boards /\ Sound(Read) /\ Read.papers = board.papers /\ Held(Read) = Held(board)
  BY ReadIs
<1>2. [Read EXCEPT !.papers = (@ \ {p}) \cup {Edited(p)}] = Read
  <2>1. (Read.papers \ {p}) \cup {Edited(p)} = Read.papers
    BY DEF UpdatePaper, Edited
  <2>2. [Read EXCEPT !.papers = Read.papers] = Read
    BY <1>1 DEF Boards
  <2> QED BY <2>1, <2>2
<1>3. Save(Read) /\ busy' = None /\ ~Deleting /\ UNCHANGED <<files, removed>>
  BY <1>2 DEF UpdatePaper, OnlyBoard, Deleting
<1> QED BY <1>1, <1>3, BoardStep

\* set_hidden saves the board it read.
LEMMA SetHiddenKeeps ==
  ASSUME TableInv, SetHidden
  PROVE  TableInv' /\ KeepsAllBut({})
<1>1. Read \in Boards /\ Sound(Read) /\ Read.papers = board.papers /\ Held(Read) = Held(board)
  BY ReadIs
<1>2. Save(Read) /\ busy' = None /\ ~Deleting /\ UNCHANGED <<files, removed>>
  BY DEF SetHidden, OnlyBoard, Deleting
<1> QED BY <1>1, <1>2, BoardStep

\* A removal is noted.
LEMMA Noted ==
  ASSUME TableInv, NEW file \in Names, NEW by \in {"paper", "idea"}
  PROVE  LET r == Removal(file, by)
         IN  /\ DOMAIN r = DOMAIN removed \cup {file} /\ DOMAIN r \subseteq Names
             /\ r \in [DOMAIN r -> [age : 0 .. Day - 1, by : Ways]]
             /\ r[file] = [age |-> 0, by |-> by]
             /\ \A f \in DOMAIN removed : f # file => r[f] = removed[f]
<1>1. 0 \in 0 .. Day - 1
  BY TableConstants
<1> QED BY <1>1 DEF Removal, TableInv, TypeOK, Ways

\* delete_paper's first write: the photo's file is still there and is touched next.
LEMMA DeletePaperKeeps ==
  ASSUME TableInv, NEW p, DeletePaper(p)
  PROVE  TableInv' /\ KeepsAllBut({p})
<1>1. Read \in Boards /\ Sound(Read) /\ Read.papers = board.papers /\ Held(Read) = Held(board)
  BY ReadIs
<1>2. PICK c : c = [Read EXCEPT !.papers = Read.papers \ {p}]
  OBVIOUS
<1>3. c \in Boards /\ c.papers = Read.papers \ {p} /\ c.tray = Read.tray /\ c.ideas = Read.ideas
  <2>1. PICK ps \in SUBSET Paper : ps = Read.papers \ {p}
    BY <1>1, Parts
  <2>2. c = [Read EXCEPT !.papers = ps]
    BY <1>2, <2>1
  <2> QED BY <1>1, <2>1, <2>2, OtherPapers
<1>4. p \in Read.papers /\ Save(c) /\ UNCHANGED files /\ ~Deleting /\ p \in Paper
  BY <1>1, <1>2, Parts DEF DeletePaper, Deleting
<1>5. Sound(c) /\ Held(c) = Held(Read)
  BY <1>1, <1>3, <1>4, TakenOff
<1>6. board' \in Boards /\ BoardInv' /\ board'.papers = c.papers /\ Held(board') = Held(c)
  BY <1>3, <1>4, <1>5, Saves
<1>7. \/ busy' = None /\ UNCHANGED removed
      \/ /\ busy' = [op |-> "delete", file |-> p.file] /\ p.file \in DOMAIN files
         /\ p.file \in Names /\ removed' = Removal(p.file, "paper")
  BY DEF DeletePaper, TableInv, TypeOK
<1>8. TypeOK'
  <2>1. busy' \in {None} \cup Operation
    BY <1>7 DEF Operation
  <2>2. DOMAIN removed' \subseteq Names /\ removed' \in [DOMAIN removed' -> [age : 0 .. Day - 1, by : Ways]]
    <3>1. CASE UNCHANGED removed
      BY <3>1 DEF TableInv, TypeOK
    <3>2. CASE p.file \in Names /\ removed' = Removal(p.file, "paper")
      BY <3>2, Noted
    <3> QED BY <1>7, <3>1, <3>2
  <2> QED BY <1>4, <1>6, <2>1, <2>2 DEF TableInv, TypeOK, Boards
<1>9. FilesInv'
  <2>1. \A q \in board'.papers \cup Held(board') : q.kind = "photo" => q.file \in DOMAIN files'
    BY <1>1, <1>3, <1>4, <1>5, <1>6 DEF TableInv, FilesInv
  <2>2. ASSUME NEW f \in DOMAIN removed', removed'[f].by = "paper"
        PROVE  /\ f \in DOMAIN files
               /\ files[f] <= removed'[f].age \/ (Deleting' /\ busy'.file = f)
    <3>1. CASE busy' = None /\ UNCHANGED removed
      BY <1>4, <2>2, <3>1 DEF TableInv, FilesInv
    <3>2. CASE busy' = [op |-> "delete", file |-> p.file] /\ p.file \in DOMAIN files
               /\ p.file \in Names /\ removed' = Removal(p.file, "paper")
      <4>1. /\ DOMAIN removed' = DOMAIN removed \cup {p.file}
            /\ \A g \in DOMAIN removed : g # p.file => removed'[g] = removed[g]
        BY <3>2, Noted
      <4>2. CASE f = p.file
        <5>1. None # busy'
          BY <3>2, <4>2, <1>7, NoneIsNothing DEF Operation
        <5> QED BY <3>2, <4>2, <5>1 DEF Deleting
      <4>3. CASE f # p.file
        BY <1>4, <2>2, <4>1, <4>3 DEF TableInv, FilesInv
      <4> QED BY <4>2, <4>3
    <3> QED BY <1>7, <3>1, <3>2
  <2> QED BY <1>4, <2>1, <2>2 DEF FilesInv
<1>10. BusyInv'
  BY <1>4, <1>7 DEF BusyInv
<1>11. KeepsAllBut({p})
  BY <1>1, <1>3, <1>5, <1>6 DEF KeepsAllBut
<1> QED BY <1>6, <1>8, <1>9, <1>10, <1>11 DEF TableInv

\* delete_paper's second write: the file's day starts, the removal's did before.
LEMMA DeleteTouchesKeeps ==
  ASSUME TableInv, DeleteTouches
  PROVE  TableInv' /\ KeepsAllBut({})
<1>1. busy # None /\ busy.op = "delete" /\ busy.file \in DOMAIN files /\ busy.file \in Names
  BY DEF DeleteTouches, TableInv, BusyInv, TypeOK, Operation
<1>2. /\ DOMAIN files' = DOMAIN files /\ files'[busy.file] = 0
      /\ files' \in [DOMAIN files -> 0 .. Day]
      /\ \A f \in DOMAIN files : f # busy.file => files'[f] = files[f]
  <2>1. 0 \in 0 .. Day
    BY TableConstants
  <2> QED BY <1>1, <2>1 DEF DeleteTouches, Touched, TableInv, TypeOK
<1>3. busy' = None /\ UNCHANGED <<board, removed>>
  BY DEF DeleteTouches
<1>4. TypeOK'
  BY <1>2, <1>3 DEF TableInv, TypeOK
<1>5. FilesInv'
  <2>1. \A p \in board.papers \cup Held(board) : p.kind = "photo" => p.file \in DOMAIN files'
    BY <1>2 DEF TableInv, FilesInv
  <2>2. ASSUME NEW f \in DOMAIN removed, removed[f].by = "paper"
        PROVE  f \in DOMAIN files' /\ files'[f] <= removed[f].age
    <3>1. CASE f = busy.file
      <4>1. removed[f].age \in 0 .. Day - 1
        BY DEF TableInv, TypeOK
      <4> QED BY <1>1, <1>2, <3>1, <4>1
    <3>2. CASE f # busy.file
      BY <1>2, <2>2, <3>2 DEF TableInv, FilesInv
    <3> QED BY <3>1, <3>2
  <2>3. Held(board)' = Held(board)
    BY <1>3 DEF Held, Range
  <2> QED BY <1>3, <2>1, <2>2, <2>3 DEF FilesInv
<1>6. BoardInv' /\ BusyInv' /\ KeepsAllBut({})
  BY <1>3 DEF TableInv, BoardInv, BusyInv, KeepsAllBut
<1> QED BY <1>4, <1>5, <1>6 DEF TableInv

\* An id nothing mentions.
LEMMA FreshIs ==
  ASSUME TableInv, NEW id \in Fresh
  PROVE  id \in Names /\ id \notin Taken(board) /\ id \notin DOMAIN files /\ id \notin DOMAIN removed
  BY DEF Fresh

\* add_photo's first write: clearing old files takes none in use and none removed today.
LEMMA AddPhotoKeeps ==
  ASSUME TableInv, NEW id \in Names, AddPhoto(id)
  PROVE  TableInv' /\ KeepsAllBut({})
<1>1. Read \in Boards /\ Read.papers = board.papers /\ Held(Read) = Held(board) /\ Taken(Read) = Taken(board)
  BY ReadIs
<1>2. id \in Fresh /\ UNCHANGED <<board, removed>> /\ ~Deleting
  BY DEF AddPhoto, Deleting
<1>3. id \in Names /\ id \notin Taken(board) /\ id \notin DOMAIN files /\ id \notin DOMAIN removed
  BY <1>2, FreshIs
<1>4. /\ DOMAIN files' = Kept(Read) \cup {id} /\ files' \in [DOMAIN files' -> 0 .. Day]
      /\ DOMAIN files' \subseteq Names
      /\ \A f \in Kept(Read) : files'[f] = files[f]
  <2>1. 0 \in 0 .. Day /\ Kept(Read) \subseteq DOMAIN files
    BY TableConstants DEF Kept
  <2>2. files' = [f \in Kept(Read) \cup {id} |-> IF f = id THEN 0 ELSE files[f]]
    BY DEF AddPhoto
  <2>3. \A f \in Kept(Read) : f # id
    BY <1>3, <2>1
  <2> QED BY <1>3, <2>1, <2>2, <2>3 DEF TableInv, TypeOK
<1>5. PICK p \in Paper : /\ p = NewPaper(id, "photo", id, None, "designer") /\ p.id = id
                         /\ p.kind = "photo" /\ p.file = id /\ p.origin = p.made
  BY <1>3, NewPapers DEF Kinds
<1>6. busy' = [op |-> "upload", paper |-> p]
  BY <1>5 DEF AddPhoto
<1>7. TypeOK'
  BY <1>2, <1>4, <1>6 DEF TableInv, TypeOK, Operation
<1>8. Held(board)' = Held(board) /\ Taken(board)' = Taken(board)
  BY <1>2 DEF Held, Range, Taken, Everywhere
<1>9. FilesInv'
  <2>1. ASSUME NEW q \in board.papers \cup Held(board), q.kind = "photo" PROVE q.file \in DOMAIN files'
    BY <1>1, <1>4, <2>1 DEF TableInv, FilesInv, Kept
  <2>2. ASSUME NEW f \in DOMAIN removed, removed[f].by = "paper"
        PROVE  f \in DOMAIN files' /\ files'[f] <= removed[f].age
    <3>1. f \in DOMAIN files /\ files[f] <= removed[f].age
      BY <1>2, <2>2 DEF TableInv, FilesInv
    <3>2. removed[f].age \in 0 .. Day - 1 /\ files[f] \in 0 .. Day /\ Day \in Nat
      BY <3>1, TableConstants DEF TableInv, TypeOK
    <3>3. f \in Kept(Read)
      BY <3>1, <3>2 DEF Kept
    <3> QED BY <1>4, <3>1, <3>3
  <2> QED BY <1>2, <1>8, <2>1, <2>2 DEF FilesInv
<1>10. BusyInv'
  BY <1>3, <1>4, <1>5, <1>6, <1>8 DEF BusyInv
<1>11. BoardInv' /\ KeepsAllBut({})
  BY <1>2, <1>8 DEF TableInv, BoardInv, KeepsAllBut
<1> QED BY <1>7, <1>9, <1>10, <1>11 DEF TableInv

\* The second write of an upload never comes.
LEMMA UploadStopsKeeps ==
  ASSUME TableInv, ~Deleting, busy' = None, UNCHANGED <<board, files, removed>>
  PROVE  TableInv' /\ KeepsAllBut({})
<1>1. Held(board)' = Held(board)
  BY DEF Held, Range
<1> QED BY <1>1 DEF TableInv, TypeOK, BoardInv, FilesInv, BusyInv, KeepsAllBut

\* The second write of an upload or a removal never comes; the removal says so.
LEMMA StopsKeeps ==
  ASSUME TableInv, AddPhotoFails \/ Crash
  PROVE  TableInv' /\ KeepsAllBut({})
<1>1. CASE ~Deleting
  BY <1>1, UploadStopsKeeps DEF AddPhotoFails, Crash, Deleting
<1>2. CASE Deleting
  <2>1. /\ busy' = None /\ UNCHANGED <<board, files>>
        /\ removed' = [f \in DOMAIN removed |->
                         IF f = busy.file THEN [removed[f] EXCEPT !.by = "stopped"] ELSE removed[f]]
    BY <1>2 DEF AddPhotoFails, Crash, Deleting
  <2>2. /\ DOMAIN removed' = DOMAIN removed /\ removed' \in [DOMAIN removed' -> [age : 0 .. Day - 1, by : Ways]]
        /\ \A f \in DOMAIN removed' :
              removed'[f].by = "paper" => f # busy.file /\ removed'[f] = removed[f]
    BY <2>1 DEF TableInv, TypeOK, Ways
  <2>3. TypeOK'
    BY <2>1, <2>2 DEF TableInv, TypeOK
  <2>4. Held(board)' = Held(board)
    BY <2>1 DEF Held, Range
  <2>5. FilesInv'
    BY <2>1, <2>2, <2>4 DEF TableInv, FilesInv
  <2>6. BoardInv' /\ BusyInv' /\ KeepsAllBut({})
    BY <2>1 DEF TableInv, BoardInv, BusyInv, KeepsAllBut
  <2> QED BY <2>3, <2>5, <2>6 DEF TableInv
<1> QED BY <1>1, <1>2

\* A tick: file and removal age together, and a removal is forgotten before its file may go.
LEMMA TimePassesKeeps ==
  ASSUME TableInv, TimePasses
  PROVE  TableInv' /\ KeepsAllBut({})
<1>1. UNCHANGED <<board, busy>> /\ Day \in Nat
  BY TableConstants DEF TimePasses
<1>2. /\ DOMAIN files' = DOMAIN files /\ files' \in [DOMAIN files -> 0 .. Day]
      /\ \A f \in DOMAIN files : files'[f] = IF files[f] < Day THEN files[f] + 1 ELSE Day
  <2>1. \A f \in DOMAIN files : files[f] \in 0 .. Day
    BY DEF TableInv, TypeOK
  <2>2. \A n \in 0 .. Day : (IF n < Day THEN n + 1 ELSE Day) \in 0 .. Day
    BY <1>1
  <2> QED BY <2>1, <2>2 DEF TimePasses
<1>3. \A f \in DOMAIN removed : removed[f] \in [age : 0 .. Day - 1, by : Ways]
  BY DEF TableInv, TypeOK
<1>4. /\ DOMAIN removed' = {g \in DOMAIN removed : removed[g].age + 1 < Day}
      /\ \A f \in DOMAIN removed' : removed'[f] = [removed[f] EXCEPT !.age = removed[f].age + 1]
      /\ removed' = [f \in DOMAIN removed' |-> removed'[f]]
  BY DEF TimePasses
<1>5. ASSUME NEW f \in DOMAIN removed'
      PROVE  /\ f \in DOMAIN removed /\ removed'[f] \in [age : 0 .. Day - 1, by : Ways]
             /\ removed'[f].age = removed[f].age + 1 /\ removed'[f].by = removed[f].by
             /\ removed[f].age \in 0 .. Day - 1 /\ removed[f].age + 1 < Day
  <2>1. f \in DOMAIN removed /\ removed[f].age + 1 < Day /\ removed[f].age \in 0 .. Day - 1
    BY <1>3, <1>4
  <2>2. removed[f].age + 1 \in 0 .. Day - 1
    BY <1>1, <2>1
  <2> QED BY <1>3, <1>4, <2>1, <2>2
<1>6. TypeOK'
  <2>1. removed' \in [DOMAIN removed' -> [age : 0 .. Day - 1, by : Ways]]
    BY <1>4, <1>5
  <2>2. DOMAIN removed' \subseteq Names
    BY <1>5 DEF TableInv, TypeOK
  <2> QED BY <1>1, <1>2, <2>1, <2>2 DEF TableInv, TypeOK
<1>7. Held(board)' = Held(board) /\ Taken(board)' = Taken(board)
  BY <1>1 DEF Held, Range, Taken, Everywhere
<1>8. FilesInv'
  <2>1. \A q \in board.papers \cup Held(board) : q.kind = "photo" => q.file \in DOMAIN files'
    BY <1>2 DEF TableInv, FilesInv
  <2>2. ASSUME NEW f \in DOMAIN removed', removed'[f].by = "paper"
        PROVE  /\ f \in DOMAIN files'
               /\ files'[f] <= removed'[f].age \/ (Deleting /\ busy.file = f)
    <3>1. f \in DOMAIN files /\ (files[f] <= removed[f].age \/ (Deleting /\ busy.file = f))
      BY <1>5, <2>2 DEF TableInv, FilesInv
    <3>2. files[f] \in 0 .. Day /\ files'[f] = IF files[f] < Day THEN files[f] + 1 ELSE Day
      BY <1>2, <3>1 DEF TableInv, TypeOK
    <3> QED BY <1>1, <1>2, <1>5, <3>1, <3>2
  <2> QED BY <1>1, <1>7, <2>1, <2>2 DEF FilesInv, Deleting
<1>9. BoardInv' /\ BusyInv' /\ KeepsAllBut({})
  BY <1>1, <1>2, <1>7 DEF TableInv, BoardInv, BusyInv, KeepsAllBut
<1> QED BY <1>6, <1>8, <1>9 DEF TableInv

\* A paper comes into the AI section, whose oldest may go: ProposePaper and ExpertResult.
LEMMA IntoTray ==
  ASSUME TableInv, NEW p \in Paper, p.id \notin Taken(board), p.origin = p.made,
         p.kind # "photo", NEW t, PartOf(t, Read.tray),
         Save([Read EXCEPT !.tray = ToTray(t, p)]), busy' = None, ~Deleting, UNCHANGED <<files, removed>>
  PROVE  TableInv' /\ KeepsAllBut({})
<1>1. /\ Read \in Boards /\ Sound(Read) /\ Read.papers = board.papers /\ Held(Read) = Held(board)
      /\ Taken(Read) = Taken(board)
  BY ReadIs
<1>2. PICK b : b = [Read EXCEPT !.tray = t]
  OBVIOUS
<1>3. b \in Boards /\ b.papers = Read.papers /\ b.tray = t /\ b.ideas = Read.ideas
  <2>1. t \in Seq(Paper)
    BY DEF PartOf
  <2> QED BY <1>1, <1>2, <2>1, OtherTray
<1>4. Sound(b) /\ Held(b) = Held(Read) /\ p.id \notin Taken(b)
  <2>1. Sound(b) /\ Held(b) = Held(Read) /\ Everywhere(b) \subseteq Everywhere(Read)
    BY <1>1, <1>3, TrayLess
  <2> QED BY <1>1, <1>3, <2>1, Lying
<1>5. PICK longer \in Seq(Paper) : longer = Append(t, p)
  BY <1>3, AppendProperties DEF PartOf
<1>6. PICK d : d = [Read EXCEPT !.tray = longer]
  OBVIOUS
<1>7. d \in Boards /\ d.papers = Read.papers /\ d.tray = longer /\ d.ideas = Read.ideas
  BY <1>1, <1>6, OtherTray
<1>8. Sound(d) /\ Held(d) = Held(b)
  BY <1>3, <1>4, <1>5, <1>7, TrayMore
<1>9. PICK u \in Seq(Paper) : u = ToTray(t, p) /\ (u = longer \/ (u = Tail(longer) /\ longer # <<>>))
  <2>1. longer # <<>>
    BY <1>3, <1>5, AppendProperties DEF PartOf
  <2>2. Tail(longer) \in Seq(Paper)
    BY <2>1, HeadTailProperties
  <2> QED BY <1>5, <2>1, <2>2 DEF ToTray
<1>10. PICK c : c = [Read EXCEPT !.tray = u]
  OBVIOUS
<1>11. c \in Boards /\ c.papers = Read.papers /\ c.tray = u /\ c.ideas = Read.ideas
  BY <1>1, <1>10, OtherTray
<1>12. Sound(c) /\ Held(c) = Held(d)
  <2>1. CASE u = longer
    BY <1>6, <1>8, <1>10, <2>1
  <2>2. CASE u = Tail(longer) /\ longer # <<>>
    <3>1. Different(longer)
      BY <1>7, <1>8 DEF Sound, Apart
    <3>2. PartOf(u, longer)
      BY <2>2, <3>1, TailPart
    <3> QED BY <1>7, <1>8, <1>11, <3>2, TrayLess
  <2> QED BY <1>9, <2>1, <2>2
<1>13. Save(c)
  BY <1>9, <1>10
<1> QED BY <1>1, <1>4, <1>8, <1>11, <1>12, <1>13, BoardStep

\* propose_paper: a paper of the AI's with a new id.
LEMMA ProposePaperKeeps ==
  ASSUME TableInv, NEW id \in Names, ProposePaper(id)
  PROVE  TableInv' /\ KeepsAllBut({})
<1>1. id \in Names /\ id \notin Taken(board)
  BY FreshIs DEF ProposePaper
<1>2. PICK p \in Paper : /\ p = NewPaper(id, "note", None, None, "ai") /\ p.id = id
                         /\ p.kind = "note" /\ p.origin = p.made
  BY <1>1, NewPapers DEF Kinds
<1>3. Read \in Boards /\ Different(Read.tray)
  BY ReadIs DEF Sound, Apart
<1>4. PartOf(Read.tray, Read.tray)
  BY <1>3, Parts DEF PartOf
<1>5. Save([Read EXCEPT !.tray = ToTray(Read.tray, p)]) /\ busy' = None /\ ~Deleting /\ UNCHANGED <<files, removed>>
  BY <1>2 DEF ProposePaper, OnlyBoard, Deleting
<1> QED BY <1>1, <1>2, <1>4, <1>5, IntoTray

\* expert_result: an expert's earlier result makes way.
LEMMA ExpertResultKeeps ==
  ASSUME TableInv, NEW agent \in Experts, NEW id \in Names, ExpertResult(agent, id)
  PROVE  TableInv' /\ KeepsAllBut({})
<1>1. id \in Names /\ id \notin Taken(board)
  BY FreshIs DEF ExpertResult
<1>2. PICK p \in Paper : /\ p = NewPaper(id, "expert", None, agent, "ai") /\ p.id = id
                         /\ p.kind = "expert" /\ p.origin = p.made
  BY <1>1, NewPapers DEF Kinds
<1>3. Read.tray \in Seq(Paper) /\ Different(Read.tray)
  BY ReadIs, Parts DEF Sound, Apart
<1>4. PartOf(Earlier(Read.tray, agent), Read.tray)
  BY <1>3, EarlierPart
<1>5. /\ Save([Read EXCEPT !.tray = ToTray(Earlier(Read.tray, agent), p)])
      /\ busy' = None /\ ~Deleting /\ UNCHANGED <<files, removed>>
  BY <1>2 DEF ExpertResult, OnlyBoard, Deleting
<1> QED BY <1>1, <1>2, <1>4, <1>5, IntoTray

\* A paper leaves the AI section; its id is free.
LEMMA OutOfTray ==
  ASSUME TableInv, NEW i \in 1..Len(Read.tray),
         NEW b, b = [Read EXCEPT !.tray = RemoveAt(Read.tray, i)]
  PROVE  /\ b \in Boards /\ Sound(b) /\ b.papers = Read.papers /\ b.ideas = Read.ideas
         /\ Held(b) = Held(Read) /\ Read.tray[i].id \notin Taken(b)
<1>1. Read \in Boards /\ Sound(Read) /\ Read.tray \in Seq(Paper) /\ Different(Read.tray)
  BY ReadIs, Parts DEF Sound, Apart
<1>2. PICK t \in Seq(Paper) : /\ t = RemoveAt(Read.tray, i) /\ PartOf(t, Read.tray)
                              /\ \A k \in 1..Len(t) : t[k].id # Read.tray[i].id
  <2>1. PartOf(RemoveAt(Read.tray, i), Read.tray)
        /\ \A k \in 1..Len(RemoveAt(Read.tray, i)) : RemoveAt(Read.tray, i)[k].id # Read.tray[i].id
    BY <1>1, RemovedPart
  <2> QED BY <2>1 DEF PartOf
<1>3. b \in Boards /\ b.papers = Read.papers /\ b.tray = t /\ b.ideas = Read.ideas
  BY <1>1, <1>2, OtherTray
<1>4. Sound(b) /\ Held(b) = Held(Read)
  BY <1>1, <1>2, <1>3, TrayLess
<1>5. ASSUME NEW q \in Everywhere(b), Read.tray[i].id = q.id PROVE FALSE
  <2>1. q \notin b.papers
    BY <1>3, <1>5, <1>1 DEF Sound, Apart
  <2>2. \A k \in 1..Len(b.tray) : q # b.tray[k]
    BY <1>2, <1>3, <1>5
  <2>3. q \notin Held(b)
    <3>1. \A l \in 1..Len(Read.ideas) :
             Read.ideas[l].held # None => Read.tray[i].id # Read.ideas[l].held.id
      BY <1>1 DEF Sound, Apart
    <3> QED BY <1>1, <1>4, <1>5, <3>1, Lying
  <2> QED BY <1>3, <1>5, <2>1, <2>2, <2>3, Lying
<1> QED BY <1>3, <1>4, <1>5, Lying

\* discard_paper takes a paper of the AI's only.
LEMMA DiscardPaperKeeps ==
  ASSUME TableInv, NEW i, DiscardPaper(i)
  PROVE  TableInv' /\ KeepsAllBut({})
<1>1. /\ Read \in Boards /\ Read.papers = board.papers /\ Held(Read) = Held(board)
      /\ i \in 1..Len(Read.tray)
  BY ReadIs, Parts DEF DiscardPaper
<1>2. PICK b : b = [Read EXCEPT !.tray = RemoveAt(Read.tray, i)]
  OBVIOUS
<1>3. b \in Boards /\ Sound(b) /\ b.papers = Read.papers /\ Held(b) = Held(Read)
  BY <1>1, <1>2, OutOfTray
<1>4. Save(b) /\ busy' = None /\ ~Deleting /\ UNCHANGED <<files, removed>>
  BY <1>2 DEF DiscardPaper, OnlyBoard, Deleting
<1> QED BY <1>1, <1>3, <1>4, BoardStep

\* place_paper: the paper leaves the AI section as it comes onto the table.
LEMMA PlacePaperKeeps ==
  ASSUME TableInv, NEW i, PlacePaper(i)
  PROVE  TableInv' /\ KeepsAllBut({})
<1>1. /\ Read \in Boards /\ Sound(Read) /\ Read.papers = board.papers /\ Held(Read) = Held(board)
      /\ i \in 1..Len(Read.tray)
  BY ReadIs, Parts DEF PlacePaper
<1>2. PICK b : b = [Read EXCEPT !.tray = RemoveAt(Read.tray, i)]
  OBVIOUS
<1>3. /\ b \in Boards /\ Sound(b) /\ b.papers = Read.papers /\ b.ideas = Read.ideas
      /\ Held(b) = Held(Read) /\ Read.tray[i].id \notin Taken(b)
  BY <1>1, <1>2, OutOfTray
<1>4. PICK p \in Paper : p = Read.tray[i] /\ p.origin = p.made /\ p.kind # "photo"
  <2>1. Read.tray[i] \in Paper /\ Read.tray[i] \in Everywhere(Read)
    BY <1>1, Parts, Lying
  <2> QED BY <1>1, <2>1 DEF Sound, Marked
<1>5. PICK c : c = [b EXCEPT !.papers = b.papers \cup {p}]
  OBVIOUS
<1>6. c \in Boards /\ c.papers = b.papers \cup {p} /\ c.tray = b.tray /\ c.ideas = b.ideas
  <2>1. b.papers \cup {p} \in SUBSET Paper
    BY <1>3, Parts
  <2> QED BY <1>3, <1>5, <2>1, OtherPapers
<1>7. Sound(c) /\ Held(c) = Held(b)
  BY <1>3, <1>4, <1>6, Laid
<1>8. Save(c)
  <2>1. c = [Read EXCEPT !.tray = RemoveAt(Read.tray, i), !.papers = Read.papers \cup {p}]
    BY <1>2, <1>3, <1>5
  <2> QED BY <1>4, <2>1 DEF PlacePaper
<1>9. busy' = None /\ ~Deleting /\ UNCHANGED <<files, removed>>
  BY DEF PlacePaper, OnlyBoard, Deleting
<1> QED BY <1>1, <1>3, <1>4, <1>6, <1>7, <1>8, <1>9, BoardStep

\* The links an operation makes are meant.
LEMMA NewLinks ==
  ASSUME NEW ids, ids \subseteq Names \cup {Site}
  PROVE  LinksTo(ids) \subseteq Link /\ \A l \in LinksTo(ids) : l.meant
<1>1. \A n \in Names \cup {Site} :
        [id |-> n, meant |-> TRUE] \in Link /\ [id |-> n, meant |-> TRUE].meant
  BY DEF Link
<1>2. \A l \in LinksTo(ids) : \E n \in Names \cup {Site} : l = [id |-> n, meant |-> TRUE]
  BY DEF LinksTo
<1> QED BY <1>1, <1>2

\* The ideas the operations make.
LEMMA NewIdeas ==
  ASSUME NEW text \in BOOLEAN, NEW held \in Paper \cup {None}, NEW links \in SUBSET Link,
         NEW e, e = [text |-> text, held |-> held, links |-> links]
  PROVE  e \in Idea /\ e.held = held /\ e.links = links
  BY DEF Idea

\* add_idea: an idea with links to papers that are there.
LEMMA AddIdeaKeeps ==
  ASSUME TableInv, NEW ids \in SUBSET (Names \cup {Site}), NEW at, AddIdea(ids, at)
  PROVE  TableInv' /\ KeepsAllBut({})
<1>1. /\ Read \in Boards /\ Sound(Read) /\ Read.papers = board.papers /\ Held(Read) = Held(board)
      /\ Read.ideas \in Seq(Idea) /\ at \in 1..(Len(Read.ideas) + 1)
  BY ReadIs, Parts DEF AddIdea
<1>2. PICK e \in Idea : /\ e = [text |-> TRUE, held |-> None, links |-> LinksTo(ids)]
                        /\ e.held = None /\ \A l \in e.links : l.meant
  <2>1. PICK links \in SUBSET Link : links = LinksTo(ids) /\ \A l \in links : l.meant
    BY NewLinks
  <2>2. PICK text \in BOOLEAN : text = TRUE
    OBVIOUS
  <2>3. PICK e : e = [text |-> text, held |-> None, links |-> links]
    OBVIOUS
  <2>4. e \in Idea /\ e.held = None /\ e.links = links
    BY ONLY text \in BOOLEAN, links \in SUBSET Link, <2>3, NewIdeas
  <2>5. e = [text |-> TRUE, held |-> None, links |-> LinksTo(ids)]
    BY <2>1, <2>2, <2>3
  <2> QED BY <2>1, <2>4, <2>5
<1>3. PICK is \in Seq(Idea) : is = InsertAt(Read.ideas, at, e)
  BY <1>1, InsertedAt
<1>4. PICK c : c = [Read EXCEPT !.ideas = is]
  OBVIOUS
<1>5. c \in Boards /\ c.papers = Read.papers /\ c.tray = Read.tray /\ c.ideas = is
  BY <1>1, <1>4, OtherIdeas
<1>6. Sound(c) /\ Held(Read) \subseteq Held(c) /\ Held(c) \subseteq Held(Read) \cup {None}
  BY <1>1, <1>2, <1>3, <1>5, IdeaIn
<1>7. Held(c) = Held(Read)
  BY <1>5, <1>6, Lying
<1>8. Save(c) /\ busy' = None /\ ~Deleting /\ UNCHANGED <<files, removed>>
  BY <1>2, <1>3, <1>4 DEF AddIdea, OnlyBoard, Deleting
<1> QED BY <1>1, <1>5, <1>6, <1>7, <1>8, BoardStep

\* update_idea: the links kept and the new ones are to papers that are there.
LEMMA UpdateIdeaKeeps ==
  ASSUME TableInv, NEW i, NEW text \in BOOLEAN, NEW ids \in SUBSET (Names \cup {Site}),
         UpdateIdea(i, text, ids)
  PROVE  TableInv' /\ KeepsAllBut({})
<1>1. /\ Read \in Boards /\ Sound(Read) /\ Read.papers = board.papers /\ Held(Read) = Held(board)
      /\ Read.ideas \in Seq(Idea) /\ i \in 1..Len(Read.ideas) /\ Read.ideas[i] \in Idea
      /\ Read.ideas[i].links \subseteq Link /\ \A l \in Read.ideas[i].links : l.meant
  BY ReadIs, Parts DEF UpdateIdea, Sound, Meant
<1>2. PICK links \in SUBSET Link :
         /\ links = {l \in Read.ideas[i].links : l.id \in ids} \cup
                    LinksTo(ids \ {l.id : l \in Read.ideas[i].links})
         /\ \A l \in links : l.meant
  <2>1. ids \ {l.id : l \in Read.ideas[i].links} \subseteq Names \cup {Site}
    OBVIOUS
  <2> QED BY <1>1, <2>1, NewLinks
<1>3. PICK e \in Idea : /\ e = [text |-> text, held |-> Read.ideas[i].held, links |-> links]
                        /\ e.held = Read.ideas[i].held /\ e.links = links
  <2>1. Read.ideas[i].held \in Paper \cup {None}
    BY <1>1, Parts
  <2>2. PICK held \in Paper \cup {None} : held = Read.ideas[i].held
    BY <2>1
  <2>3. PICK e : e = [text |-> text, held |-> held, links |-> links]
    OBVIOUS
  <2>4. e \in Idea /\ e.held = held /\ e.links = links
    BY ONLY text \in BOOLEAN, held \in Paper \cup {None}, links \in SUBSET Link, <2>3, NewIdeas
  <2> QED BY <2>2, <2>3, <2>4
<1>4. PICK is \in Seq(Idea) :
         /\ is = [Read.ideas EXCEPT ![i] = e] /\ Len(is) = Len(Read.ideas)
         /\ \A k \in 1..Len(Read.ideas) : is[k] = IF k = i THEN e ELSE Read.ideas[k]
  <2>1. /\ [Read.ideas EXCEPT ![i] = e] \in Seq(Idea)
        /\ Len([Read.ideas EXCEPT ![i] = e]) = Len(Read.ideas)
        /\ \A k \in 1..Len(Read.ideas) :
              [Read.ideas EXCEPT ![i] = e][k] = IF k = i THEN e ELSE Read.ideas[k]
    BY <1>1, ExceptSeq
  <2> QED BY <2>1
<1>5. PICK c : c = [Read EXCEPT !.ideas = is]
  OBVIOUS
<1>6. c \in Boards /\ c.papers = Read.papers /\ c.tray = Read.tray /\ c.ideas = is
  BY <1>1, <1>5, OtherIdeas
<1>7. Meant(c)
  <2>1. ASSUME NEW k \in 1..Len(Read.ideas), NEW l \in is[k].links PROVE l.meant
    <3>1. CASE k = i
      BY <1>2, <1>3, <1>4, <2>1, <3>1
    <3>2. CASE k # i
      BY <1>1, <1>4, <2>1, <3>2 DEF Sound, Meant
    <3> QED BY <3>1, <3>2
  <2> QED BY <1>4, <1>6, <2>1 DEF Meant
<1>8. Sound(c) /\ Held(c) = Held(Read)
  <2>1. /\ Len(c.ideas) = Len(Read.ideas)
        /\ \A k \in 1..Len(Read.ideas) : c.ideas[k].held = Read.ideas[k].held
    BY <1>3, <1>4, <1>6
  <2> QED BY <1>1, <1>6, <1>7, <2>1, IdeasSame
<1>9. Save(c)
  <2>1. c = [Read EXCEPT !.ideas = [Read.ideas EXCEPT ![i] = e]]
    BY <1>4, <1>5
  <2> QED BY <1>2, <1>3, <2>1 DEF UpdateIdea
<1>10. busy' = None /\ ~Deleting /\ UNCHANGED <<files, removed>>
  BY DEF UpdateIdea, OnlyBoard, Deleting
<1> QED BY <1>1, <1>6, <1>8, <1>9, <1>10, BoardStep

\* order_ideas.
LEMMA OrderIdeasKeeps ==
  ASSUME TableInv, NEW i, NEW j, OrderIdeas(i, j)
  PROVE  TableInv' /\ KeepsAllBut({})
<1>1. /\ Read \in Boards /\ Sound(Read) /\ Read.papers = board.papers /\ Held(Read) = Held(board)
      /\ Read.ideas \in Seq(Idea) /\ i \in 1..Len(Read.ideas) /\ j \in 1..Len(Read.ideas)
      /\ Read.ideas[i] \in Idea /\ Read.ideas[j] \in Idea
  BY ReadIs, Parts DEF OrderIdeas
<1>2. PICK is \in Seq(Idea) :
         /\ is = [[Read.ideas EXCEPT ![i] = Read.ideas[j]] EXCEPT ![j] = Read.ideas[i]]
         /\ Len(is) = Len(Read.ideas)
         /\ \A k \in 1..Len(Read.ideas) : is[k] =
               IF k = j THEN Read.ideas[i] ELSE IF k = i THEN Read.ideas[j] ELSE Read.ideas[k]
  <2>1. PICK s \in Seq(Idea) :
           /\ s = [Read.ideas EXCEPT ![i] = Read.ideas[j]] /\ Len(s) = Len(Read.ideas)
           /\ \A k \in 1..Len(Read.ideas) : s[k] = IF k = i THEN Read.ideas[j] ELSE Read.ideas[k]
    <3>1. /\ [Read.ideas EXCEPT ![i] = Read.ideas[j]] \in Seq(Idea)
          /\ Len([Read.ideas EXCEPT ![i] = Read.ideas[j]]) = Len(Read.ideas)
          /\ \A k \in 1..Len(Read.ideas) : [Read.ideas EXCEPT ![i] = Read.ideas[j]][k] =
                IF k = i THEN Read.ideas[j] ELSE Read.ideas[k]
      BY <1>1, ExceptSeq
    <3> QED BY <3>1
  <2>2. /\ [s EXCEPT ![j] = Read.ideas[i]] \in Seq(Idea)
        /\ Len([s EXCEPT ![j] = Read.ideas[i]]) = Len(s)
        /\ \A k \in 1..Len(s) : [s EXCEPT ![j] = Read.ideas[i]][k] = IF k = j THEN Read.ideas[i] ELSE s[k]
    <3>1. PICK e \in Idea : e = Read.ideas[i]
      BY <1>1
    <3>2. j \in 1..Len(s)
      BY <1>1, <2>1
    <3>3. /\ [s EXCEPT ![j] = e] \in Seq(Idea) /\ Len([s EXCEPT ![j] = e]) = Len(s)
          /\ \A k \in 1..Len(s) : [s EXCEPT ![j] = e][k] = IF k = j THEN e ELSE s[k]
      BY ONLY s \in Seq(Idea), e \in Idea, <3>2, ExceptSeq
    <3> QED BY <3>1, <3>3
  <2>3. PICK is : is = [s EXCEPT ![j] = Read.ideas[i]]
    OBVIOUS
  <2>4. /\ is \in Seq(Idea) /\ Len(is) = Len(Read.ideas)
        /\ \A k \in 1..Len(Read.ideas) : is[k] = IF k = j THEN Read.ideas[i] ELSE s[k]
    BY <2>1, <2>2, <2>3
  <2>5. is = [[Read.ideas EXCEPT ![i] = Read.ideas[j]] EXCEPT ![j] = Read.ideas[i]]
    BY <2>1, <2>3
  <2>6. \A k \in 1..Len(Read.ideas) : is[k] =
           IF k = j THEN Read.ideas[i] ELSE IF k = i THEN Read.ideas[j] ELSE Read.ideas[k]
    BY <2>1, <2>4
  <2> QED BY <2>4, <2>5, <2>6
<1>3. PICK c : c = [Read EXCEPT !.ideas = is]
  OBVIOUS
<1>4. c \in Boards /\ c.papers = Read.papers /\ c.tray = Read.tray /\ c.ideas = is
  BY <1>1, <1>3, OtherIdeas
<1>5. Sound(c) /\ Held(c) = Held(Read)
  <2>1. /\ Len(c.ideas) = Len(Read.ideas)
        /\ \A k \in 1..Len(Read.ideas) : c.ideas[k] =
              IF k = j THEN Read.ideas[i] ELSE IF k = i THEN Read.ideas[j] ELSE Read.ideas[k]
    BY <1>2, <1>4
  <2> QED BY <1>1, <1>4, <2>1, IdeasSwapped
<1>6. Save(c)
  <2>1. c = [Read EXCEPT !.ideas[i] = Read.ideas[j], !.ideas[j] = Read.ideas[i]]
    BY <1>1, <1>2, <1>3 DEF Boards
  <2> QED BY <2>1 DEF OrderIdeas
<1>7. busy' = None /\ ~Deleting /\ UNCHANGED <<files, removed>>
  BY DEF OrderIdeas, OnlyBoard, Deleting
<1> QED BY <1>1, <1>4, <1>5, <1>6, <1>7, BoardStep

\* stow_paper: off the table, into an idea.
LEMMA StowPaperKeeps ==
  ASSUME TableInv, NEW p, NEW at, StowPaper(p, at)
  PROVE  TableInv' /\ KeepsAllBut({})
<1>1. /\ Read \in Boards /\ Sound(Read) /\ Read.papers = board.papers /\ Held(Read) = Held(board)
      /\ Read.ideas \in Seq(Idea) /\ at \in 1..(Len(Read.ideas) + 1)
      /\ p \in Read.papers /\ p \in Paper /\ p # None
  BY ReadIs, Parts, NoneIsNothing DEF StowPaper
<1>2. PICK b : b = [Read EXCEPT !.papers = Read.papers \ {p}]
  OBVIOUS
<1>3. b \in Boards /\ b.papers = Read.papers \ {p} /\ b.tray = Read.tray /\ b.ideas = Read.ideas
  <2>1. PICK ps \in SUBSET Paper : ps = Read.papers \ {p}
    BY <1>1, Parts
  <2>2. b = [Read EXCEPT !.papers = ps]
    BY <1>2, <2>1
  <2>3. b \in Boards /\ b.papers = ps /\ b.tray = Read.tray /\ b.ideas = Read.ideas
    BY ONLY <1>1, <2>2, ps \in SUBSET Paper, OtherPapers
  <2> QED BY <2>1, <2>3
<1>4. Sound(b) /\ Held(b) = Held(Read) /\ p.id \notin Taken(b)
  BY <1>1, <1>3, TakenOff
<1>5. p.origin = p.made
  BY <1>1, Lying DEF Sound, Marked
<1>6. PICK e \in Idea : /\ e = [text |-> FALSE, held |-> p, links |-> {}]
                        /\ e.held = p /\ e.links = {}
  <2>1. PICK links \in SUBSET Link : links = {}
    OBVIOUS
  <2>2. PICK text \in BOOLEAN : text = FALSE
    OBVIOUS
  <2>3. PICK e : e = [text |-> text, held |-> p, links |-> links]
    OBVIOUS
  <2>4. p \in Paper \cup {None}
    BY <1>1
  <2>5. e \in Idea /\ e.held = p /\ e.links = links
    BY ONLY <2>4, text \in BOOLEAN, links \in SUBSET Link, <2>3, NewIdeas
  <2>6. e = [text |-> FALSE, held |-> p, links |-> {}]
    BY <2>1, <2>2, <2>3
  <2> QED BY <2>1, <2>5, <2>6
<1>7. PICK is \in Seq(Idea) : is = InsertAt(Read.ideas, at, e)
  BY <1>1, InsertedAt
<1>8. PICK c : c = [b EXCEPT !.ideas = is]
  OBVIOUS
<1>9. c \in Boards /\ c.papers = b.papers /\ c.tray = b.tray /\ c.ideas = is
  BY <1>3, <1>8, OtherIdeas
<1>10. Sound(c) /\ Held(b) \subseteq Held(c) /\ Held(c) \subseteq Held(b) \cup {p} /\ p \in Held(c)
  <2>1. at \in 1..(Len(b.ideas) + 1) /\ c.ideas = InsertAt(b.ideas, at, e)
    BY <1>1, <1>3, <1>7, <1>9
  <2>2. e.held # None /\ e.held.id \notin Taken(b) /\ e.held.origin = e.held.made
    BY <1>1, <1>4, <1>5, <1>6
  <2>3. \A l \in e.links : l.meant
    BY <1>6
  <2>4. /\ Sound(c) /\ Held(b) \subseteq Held(c) /\ Held(c) \subseteq Held(b) \cup {e.held}
        /\ e.held # None => e.held \in Held(c)
    BY ONLY <1>3, <1>4, <1>9, <2>1, <2>2, <2>3, e \in Idea, IdeaIn
  <2> QED BY <1>6, <2>2, <2>4
<1>11. Save(c)
  <2>1. c = [Read EXCEPT !.papers = Read.papers \ {p}, !.ideas = is]
    BY <1>2, <1>8
  <2> QED BY <1>6, <1>7, <2>1 DEF StowPaper
<1>12. busy' = None /\ ~Deleting /\ UNCHANGED <<files, removed>>
  BY DEF StowPaper, OnlyBoard, Deleting
<1>13. \A q \in board.papers \cup Held(board) : q \in c.papers \cup Held(c)
  BY <1>1, <1>3, <1>4, <1>9, <1>10
<1>14. \A q \in c.papers \cup Held(c) : q \in board.papers \cup Held(board)
  BY <1>1, <1>3, <1>4, <1>9, <1>10
<1> QED BY <1>9, <1>10, <1>11, <1>12, <1>13, <1>14, BoardStep

\* An idea leaves the idea board; what it held has a free id.
LEMMA OutOfIdeas ==
  ASSUME TableInv, NEW i \in 1..Len(Read.ideas),
         NEW b, b = [Read EXCEPT !.ideas = RemoveAt(Read.ideas, i)]
  PROVE  /\ b \in Boards /\ Sound(b) /\ b.papers = Read.papers /\ b.tray = Read.tray
         /\ Held(b) \subseteq Held(Read) /\ Held(Read) \subseteq Held(b) \cup {Read.ideas[i].held}
         /\ Read.ideas[i].held # None => Read.ideas[i].held.id \notin Taken(b)
<1>1. Read \in Boards /\ Sound(Read) /\ Read.ideas \in Seq(Idea)
  BY ReadIs, Parts
<1>2. PICK is \in Seq(Idea) : is = RemoveAt(Read.ideas, i)
  BY <1>1, RemovedAt
<1>3. b \in Boards /\ b.papers = Read.papers /\ b.tray = Read.tray /\ b.ideas = is
  BY <1>1, <1>2, OtherIdeas
<1> QED BY <1>1, <1>2, <1>3, IdeaOut

\* place_idea: the idea's paper, or a note with a new id, comes onto the table.
LEMMA PlaceIdeaKeeps ==
  ASSUME TableInv, NEW i, NEW id \in Names, PlaceIdea(i, id)
  PROVE  TableInv' /\ KeepsAllBut({})
<1>1. /\ Read \in Boards /\ Sound(Read) /\ Read.papers = board.papers /\ Held(Read) = Held(board)
      /\ Taken(Read) = Taken(board)
      /\ i \in 1..Len(Read.ideas) /\ Read.ideas[i].held \in Paper \cup {None}
  BY ReadIs, Parts DEF PlaceIdea
<1>2. PICK b : b = [Read EXCEPT !.ideas = RemoveAt(Read.ideas, i)]
  OBVIOUS
<1>3. /\ b \in Boards /\ Sound(b) /\ b.papers = Read.papers /\ b.tray = Read.tray
      /\ Held(b) \subseteq Held(Read) /\ Held(Read) \subseteq Held(b) \cup {Read.ideas[i].held}
      /\ Read.ideas[i].held # None => Read.ideas[i].held.id \notin Taken(b)
  BY <1>1, <1>2, OutOfIdeas
<1>4. PICK p \in Paper :
         /\ p = PaperOf(Read.ideas[i], id) /\ p.origin = p.made /\ p.id \notin Taken(b)
         /\ p \in Held(Read) \/ p.kind # "photo"
         /\ Read.ideas[i].held # None => p = Read.ideas[i].held
  <2>1. CASE Read.ideas[i].held # None
    <3>1. PaperOf(Read.ideas[i], id) = Read.ideas[i].held
      BY <2>1 DEF PaperOf
    <3>2. Read.ideas[i].held \in Held(Read) /\ Read.ideas[i].held \in Paper
      BY <1>1, <2>1, Lying
    <3>3. Read.ideas[i].held.origin = Read.ideas[i].held.made
      BY <1>1, <3>2, Lying DEF Sound, Marked
    <3> QED BY <1>3, <2>1, <3>1, <3>2, <3>3
  <2>2. CASE Read.ideas[i].held = None
    <3>1. PICK p \in Paper : /\ p = NewPaper(id, "note", None, None, "designer") /\ p.id = id
                             /\ p.kind = "note" /\ p.origin = p.made
      BY NewPapers DEF Kinds
    <3>2. PaperOf(Read.ideas[i], id) = p
      BY <2>2, <3>1 DEF PaperOf
    <3>3. id \notin Taken(board)
      BY <2>2, FreshIs DEF PlaceIdea
    <3>4. id \notin Taken(b)
      <4>1. Everywhere(b) \subseteq Everywhere(Read)
        BY <1>1, <1>3, Lying
      <4> QED BY <1>1, <1>3, <3>3, <4>1, Lying
    <3> QED BY <2>2, <3>1, <3>2, <3>4
  <2> QED BY <2>1, <2>2
<1>5. PICK c : c = [b EXCEPT !.papers = b.papers \cup {p}]
  OBVIOUS
<1>6. c \in Boards /\ c.papers = b.papers \cup {p} /\ c.tray = b.tray /\ c.ideas = b.ideas
  <2>1. b.papers \cup {p} \in SUBSET Paper
    BY <1>3, Parts
  <2> QED BY <1>3, <1>5, <2>1, OtherPapers
<1>7. Sound(c) /\ Held(c) = Held(b)
  BY <1>3, <1>4, <1>6, Laid
<1>8. Save(c)
  <2>1. c = [Read EXCEPT !.ideas = RemoveAt(Read.ideas, i), !.papers = Read.papers \cup {p}]
    BY <1>2, <1>3, <1>5
  <2> QED BY <1>4, <2>1 DEF PlaceIdea
<1>9. busy' = None /\ ~Deleting /\ UNCHANGED <<files, removed>>
  BY DEF PlaceIdea, OnlyBoard, Deleting
<1>10. \A q \in board.papers \cup Held(board) : q \in c.papers \cup Held(c)
  <2>1. ASSUME NEW q \in Held(Read) PROVE q \in Held(b) \/ q = p
    <3>1. q # None
      BY <1>1, Lying
    <3> QED BY <1>3, <1>4, <3>1
  <2> QED BY <1>1, <1>3, <1>6, <1>7, <2>1
<1>11. \A q \in c.papers \cup Held(c) :
          q \in board.papers \cup Held(board) \/ (q.kind = "photo" => q.file \in DOMAIN files)
  BY <1>1, <1>3, <1>4, <1>6, <1>7
<1> QED BY <1>6, <1>7, <1>8, <1>9, <1>10, <1>11, BoardStep

\* delete_idea: what the idea held goes with it.
LEMMA DeleteIdeaKeeps ==
  ASSUME TableInv, NEW i, DeleteIdea(i)
  PROVE  TableInv' /\ KeepsAllBut({board.ideas[i].held})
<1>1. /\ Read \in Boards /\ Sound(Read) /\ Read.papers = board.papers /\ Held(Read) = Held(board)
      /\ i \in 1..Len(Read.ideas) /\ Read.ideas[i].held = board.ideas[i].held
      /\ Read.ideas[i].held # None => Read.ideas[i].held \in Held(board)
  BY ReadIs, Parts, Lying DEF DeleteIdea
<1>2. PICK c : c = [Read EXCEPT !.ideas = RemoveAt(Read.ideas, i)]
  OBVIOUS
<1>3. /\ c \in Boards /\ Sound(c) /\ c.papers = Read.papers /\ c.tray = Read.tray
      /\ Held(c) \subseteq Held(Read) /\ Held(Read) \subseteq Held(c) \cup {Read.ideas[i].held}
  BY <1>1, <1>2, OutOfIdeas
<1>4. Save(c) /\ UNCHANGED <<files, busy>> /\ busy = None /\ ~Deleting
  BY <1>2 DEF DeleteIdea, Deleting
<1>5. board' \in Boards /\ BoardInv' /\ board'.papers = c.papers /\ Held(board') = Held(c)
  BY <1>3, <1>4, Saves
<1>6. \/ UNCHANGED removed
      \/ \E file \in Names : removed' = Removal(file, "idea")
  <2>1. CASE Read.ideas[i].held # None /\ Read.ideas[i].held.kind = "photo"
    <3>1. Read.ideas[i].held.file \in Names
      BY <1>1, <2>1 DEF TableInv, FilesInv, TypeOK
    <3>2. removed' = Removal(Read.ideas[i].held.file, "idea")
      BY <2>1 DEF DeleteIdea
    <3> QED BY <3>1, <3>2
  <2>2. CASE ~ (Read.ideas[i].held # None /\ Read.ideas[i].held.kind = "photo")
    BY <2>2 DEF DeleteIdea
  <2> QED BY <2>1, <2>2
<1>7. /\ DOMAIN removed' \subseteq Names
      /\ removed' \in [DOMAIN removed' -> [age : 0 .. Day - 1, by : Ways]]
      /\ \A f \in DOMAIN removed' :
            removed'[f].by = "paper" => f \in DOMAIN removed /\ removed'[f] = removed[f]
  <2>1. CASE UNCHANGED removed
    BY <2>1 DEF TableInv, TypeOK
  <2>2. ASSUME NEW file \in Names, removed' = Removal(file, "idea")
        PROVE  /\ DOMAIN removed' \subseteq Names
               /\ removed' \in [DOMAIN removed' -> [age : 0 .. Day - 1, by : Ways]]
               /\ \A f \in DOMAIN removed' :
                     removed'[f].by = "paper" => f \in DOMAIN removed /\ removed'[f] = removed[f]
    <3>1. /\ DOMAIN removed' = DOMAIN removed \cup {file} /\ DOMAIN removed' \subseteq Names
          /\ removed' \in [DOMAIN removed' -> [age : 0 .. Day - 1, by : Ways]]
          /\ removed'[file] = [age |-> 0, by |-> "idea"]
          /\ \A f \in DOMAIN removed : f # file => removed'[f] = removed[f]
      BY <2>2, Noted
    <3>2. removed'[file].by # "paper"
      BY <3>1
    <3> QED BY <3>1, <3>2
  <2> QED BY <1>6, <2>1, <2>2
<1>8. TypeOK'
  BY <1>4, <1>5, <1>7 DEF TableInv, TypeOK, Boards
<1>9. FilesInv'
  BY <1>1, <1>3, <1>4, <1>5, <1>7 DEF TableInv, FilesInv
<1>10. BusyInv' /\ KeepsAllBut({board.ideas[i].held})
  BY <1>1, <1>3, <1>4, <1>5 DEF BusyInv, KeepsAllBut
<1> QED BY <1>5, <1>8, <1>9, <1>10 DEF TableInv

------------------------------------------------------------------------------
(* The theorems.                                                              *)

\* A new project has the site paper and nothing else.
LEMMA InitHolds ==
  ASSUME Init
  PROVE  TableInv
<1>1. PICK p : p = NewPaper(Site, "site", None, None, "designer")
  OBVIOUS
<1>2. p \in Paper /\ p.kind = "site" /\ p.origin = p.made
  BY <1>1 DEF NewPaper, Paper, Kinds
<1>3. board = [papers |-> {p}, tray |-> <<>>, ideas |-> <<>>]
  BY <1>1 DEF Init
<1>4. board \in Boards /\ board.papers = {p} /\ board.tray = <<>> /\ board.ideas = <<>>
  BY <1>2, <1>3 DEF Boards
<1>5. Len(board.tray) = 0 /\ Len(board.ideas) = 0
  BY <1>4
<1>6. Everywhere(board) = {p} /\ Held(board) = {}
  BY <1>4, <1>5, Lying
<1>7. BoardInv
  <2>1. Apart(board)
    BY <1>4, <1>5 DEF Apart, Different
  <2>2. Marked(board)
    BY <1>2, <1>5, <1>6 DEF Marked
  <2>3. Linked(board)
    BY <1>5 DEF Linked
  <2> QED BY <2>1, <2>2, <2>3 DEF BoardInv
<1>8. files = <<>> /\ busy = None /\ removed = <<>>
  BY DEF Init
<1>9. DOMAIN files = {} /\ DOMAIN removed = {}
  BY <1>8
<1>10. TypeOK
  <2>1. files \in [DOMAIN files -> 0 .. Day]
    BY <1>8
  <2>2. removed \in [DOMAIN removed -> [age : 0 .. Day - 1, by : Ways]]
    BY <1>8
  <2> QED BY <1>4, <1>8, <1>9, <2>1, <2>2 DEF TypeOK, Boards
<1>11. FilesInv
  BY <1>2, <1>4, <1>6, <1>9 DEF FilesInv
<1>12. BusyInv
  BY <1>8 DEF BusyInv
<1> QED BY <1>7, <1>10, <1>11, <1>12 DEF TableInv

\* What goes when: only deleting a paper or an idea takes a paper from the designer.
LEMMA StepHolds ==
  ASSUME TableInv, [Next]_vars
  PROVE  /\ TableInv'
         /\ \/ KeepsAllBut({})
            \/ \E p \in board.papers : DeletePaper(p) /\ KeepsAllBut({p})
            \/ \E i \in 1..MaxIdeas : DeleteIdea(i) /\ KeepsAllBut({board.ideas[i].held})
<1>1. CASE DesignerActs
  <2>1. ASSUME NEW id \in Names, AddPaper(id) \/ AddPhoto(id)
        PROVE  TableInv' /\ KeepsAllBut({})
    BY <2>1, AddPaperKeeps, AddPhotoKeeps
  <2>2. ASSUME NEW id \in Names, NEW file \in Names, AddPhotoBack(id, file)
        PROVE  TableInv' /\ KeepsAllBut({})
    BY <2>2, AddPhotoBackKeeps
  <2>3. ASSUME NEW p \in board.papers, UpdatePaper(p)
        PROVE  TableInv' /\ KeepsAllBut({})
    BY <2>3, UpdatePaperKeeps
  <2>4. ASSUME NEW p \in board.papers, DeletePaper(p)
        PROVE  TableInv' /\ KeepsAllBut({p})
    BY <2>4, DeletePaperKeeps
  <2>5. ASSUME NEW p \in board.papers, NEW at \in 1 .. MaxIdeas, StowPaper(p, at)
        PROVE  TableInv' /\ KeepsAllBut({})
    BY <2>5, StowPaperKeeps
  <2>6. ASSUME NEW i \in 1 .. MaxTray, PlacePaper(i) \/ DiscardPaper(i)
        PROVE  TableInv' /\ KeepsAllBut({})
    BY <2>6, PlacePaperKeeps, DiscardPaperKeeps
  <2>7. ASSUME NEW ids \in SUBSET (Names \cup {Site}), NEW at \in 1 .. MaxIdeas, AddIdea(ids, at)
        PROVE  TableInv' /\ KeepsAllBut({})
    BY <2>7, AddIdeaKeeps
  <2>8. ASSUME NEW i \in 1 .. MaxIdeas, NEW text \in BOOLEAN, NEW ids \in SUBSET (Names \cup {Site}),
               UpdateIdea(i, text, ids)
        PROVE  TableInv' /\ KeepsAllBut({})
    BY <2>8, UpdateIdeaKeeps
  <2>9. ASSUME NEW i \in 1 .. MaxIdeas, NEW j \in 1 .. MaxIdeas, OrderIdeas(i, j)
        PROVE  TableInv' /\ KeepsAllBut({})
    BY <2>9, OrderIdeasKeeps
  <2>10. ASSUME NEW i \in 1 .. MaxIdeas, DeleteIdea(i)
         PROVE  TableInv' /\ KeepsAllBut({board.ideas[i].held})
    BY <2>10, DeleteIdeaKeeps
  <2>11. ASSUME NEW i \in 1 .. MaxIdeas, NEW id \in Names, PlaceIdea(i, id)
         PROVE  TableInv' /\ KeepsAllBut({})
    BY <2>11, PlaceIdeaKeeps
  <2>12. ASSUME SetHidden PROVE TableInv' /\ KeepsAllBut({})
    BY <2>12, SetHiddenKeeps
  <2>13. \/ \E id \in Names : AddPaper(id) \/ AddPhoto(id)
         \/ \E id, file \in Names : AddPhotoBack(id, file)
         \/ \E p \in board.papers : UpdatePaper(p) \/ DeletePaper(p)
         \/ \E p \in board.papers, at \in 1 .. MaxIdeas : StowPaper(p, at)
         \/ \E i \in 1 .. MaxTray : PlacePaper(i) \/ DiscardPaper(i)
         \/ \E ids \in SUBSET (Names \cup {Site}), at \in 1 .. MaxIdeas : AddIdea(ids, at)
         \/ \E i \in 1 .. MaxIdeas, text \in BOOLEAN, ids \in SUBSET (Names \cup {Site}) :
               UpdateIdea(i, text, ids)
         \/ \E i, j \in 1 .. MaxIdeas : OrderIdeas(i, j)
         \/ \E i \in 1 .. MaxIdeas : DeleteIdea(i)
         \/ \E i \in 1 .. MaxIdeas, id \in Names : PlaceIdea(i, id)
         \/ SetHidden
    BY <1>1 DEF DesignerActs
  <2> HIDE DEF TableInv
  <2> QED BY <2>1, <2>2, <2>3, <2>4, <2>5, <2>6, <2>7, <2>8, <2>9, <2>10, <2>11, <2>12, <2>13
<1>2. CASE AIActs
  <2>1. TableInv' /\ KeepsAllBut({})
    BY <1>2, ProposePaperKeeps, ExpertResultKeeps DEF AIActs
  <2> QED BY <2>1
<1>3. CASE DeleteTouches \/ AddPhotoSaves \/ AddPhotoFails \/ Crash \/ TimePasses
  BY <1>3, DeleteTouchesKeeps, AddPhotoSavesKeeps, StopsKeeps, TimePassesKeeps
<1>4. CASE UNCHANGED vars
  <2>1. TableInv'
    BY <1>4 DEF vars, TableInv, TypeOK, BoardInv, FilesInv, BusyInv, Boards, Deleting
  <2>2. KeepsAllBut({})
    BY <1>4 DEF vars, KeepsAllBut
  <2> QED BY <2>1, <2>2
<1> QED BY <1>1, <1>2, <1>3, <1>4 DEF Next

\* The table is in order after every step of every operation, crashes included: no two papers have
\* one id, a link is meant exactly when its paper is there, a removed photo's file is no older than
\* its removal, and what an upload or a removal still has to write fits.
THEOREM TableInvariant == Spec => []TableInv
<1>1. Init => TableInv
  BY InitHolds
<1>2. TableInv /\ [Next]_vars => TableInv'
  BY StepHolds
<1> QED BY <1>1, <1>2, PTL DEF Spec

\* Papers apart lie in places apart.
LEMMA ApartPlaces ==
  ASSUME NEW b \in Boards, Apart(b)
  PROVE  \A x, y \in Places(b) : x.paper.id = y.paper.id => x = y
<1>1. \A x \in Places(b) :
         \/ \E p \in b.papers : x = [where |-> "table", at |-> 0, paper |-> p]
         \/ \E i \in 1..Len(b.tray) : x = [where |-> "tray", at |-> i, paper |-> b.tray[i]]
         \/ \E i \in 1..Len(b.ideas) :
               b.ideas[i].held # None /\ x = [where |-> "idea", at |-> i, paper |-> b.ideas[i].held]
  BY Parts DEF Places
<1> SUFFICES ASSUME NEW x \in Places(b), NEW y \in Places(b), x.paper.id = y.paper.id
             PROVE  x = y
  OBVIOUS
<1>2. /\ \A p, q \in b.papers : p.id = q.id => p = q
      /\ \A i, j \in 1..Len(b.tray) : b.tray[i].id = b.tray[j].id => i = j
      /\ \A i, j \in 1..Len(b.ideas) :
            b.ideas[i].held # None /\ b.ideas[j].held # None
               /\ b.ideas[i].held.id = b.ideas[j].held.id => i = j
      /\ \A p \in b.papers, i \in 1..Len(b.tray) : p.id # b.tray[i].id
      /\ \A p \in b.papers, i \in 1..Len(b.ideas) :
            b.ideas[i].held # None => p.id # b.ideas[i].held.id
      /\ \A i \in 1..Len(b.tray), j \in 1..Len(b.ideas) :
            b.ideas[j].held # None => b.tray[i].id # b.ideas[j].held.id
  BY DEF Apart, Different
<1>3. CASE \E p \in b.papers : x = [where |-> "table", at |-> 0, paper |-> p]
  BY <1>1, <1>2, <1>3
<1>4. CASE \E i \in 1..Len(b.tray) : x = [where |-> "tray", at |-> i, paper |-> b.tray[i]]
  BY <1>1, <1>2, <1>4
<1>5. CASE \E i \in 1..Len(b.ideas) :
         b.ideas[i].held # None /\ x = [where |-> "idea", at |-> i, paper |-> b.ideas[i].held]
  BY <1>1, <1>2, <1>5
<1> QED BY <1>1, <1>3, <1>4, <1>5

\* An id names one paper, wherever it lies and whatever was carried, deleted, uploaded, replaced
\* or crashed before (_taken, which add_paper asks of the ids it is given; the rest make their own).
THEOREM OnePaperPerIdHolds == Spec => []OnePaperPerId
<1>1. TableInv => OnePaperPerId
  <2> SUFFICES ASSUME TableInv PROVE OnePaperPerId
    OBVIOUS
  <2>1. board \in Boards /\ Apart(board) /\ Marked(board)
    BY DEF TableInv, TypeOK, BoardInv, Boards
  <2>2. \A x, y \in Places(board) : x.paper.id = y.paper.id => x = y
    BY <2>1, ApartPlaces
  <2> QED BY <2>1, <2>2 DEF OnePaperPerId, TableInv, Marked
<1> QED BY <1>1, TableInvariant, PTL

\* A photo on the table or in an idea has its file, and one taken off the table has it for a day
\* from the board's write on, at every moment of uploads, removals, crashes between their writes and
\* the clearing of old files; unless the server stopped between its removal's two writes
\* (delete_paper, _prune_photos).
THEOREM PhotosHaveFilesHolds == Spec => []PhotosHaveFiles
<1>1. TableInv => PhotosHaveFiles
  BY DEF TableInv, FilesInv, PhotosHaveFiles
<1> QED BY <1>1, TableInvariant, PTL

\* A link of an idea is read as long as the paper it was made for is on the board, and never as a
\* link to a later paper with the same id (load_board drops links by id alone).
THEOREM LinksKeepTheirPaperHolds == Spec => []LinksKeepTheirPaper
<1>1. TableInv => LinksKeepTheirPaper
  <2> SUFFICES ASSUME TableInv PROVE LinksKeepTheirPaper
    OBVIOUS
  <2>1. DOMAIN board.ideas = 1..Len(board.ideas)
    BY Parts DEF TableInv, TypeOK, Boards
  <2> QED BY <2>1, ReadIs DEF LinksKeepTheirPaper
<1> QED BY <1>1, TableInvariant, PTL

\* A paper of the designer's goes only when the designer deletes it or the idea that holds it:
\* carrying it between table and ideas, the AI's papers, time and crashes take none.
THEOREM DesignerKeepsPapersHolds == Spec => DesignerKeepsPapers
<1> DEFINE Stays ==
       \A p \in board.papers \cup Held(board) :
          \/ \E q \in board'.papers \cup Held(board') : q.id = p.id /\ q.kind = p.kind /\ q.file = p.file
          \/ DeletePaper(p)
          \/ \E i \in DOMAIN board.ideas : board.ideas[i].held = p /\ DeleteIdea(i)
<1>1. TableInv /\ [Next]_vars => Stays
  <2> SUFFICES ASSUME TableInv, [Next]_vars, NEW p \in board.papers \cup Held(board),
                      p \notin board'.papers \cup Held(board')
               PROVE  \/ DeletePaper(p)
                      \/ \E i \in DOMAIN board.ideas : board.ideas[i].held = p /\ DeleteIdea(i)
    OBVIOUS
  <2>1. \A lost : KeepsAllBut(lost) => p \in lost
    <3>1. Held(board') = (Held(board))'
      BY DEF Held
    <3> QED BY <3>1 DEF KeepsAllBut
  <2>2. CASE KeepsAllBut({})
    BY <2>1, <2>2
  <2>3. CASE \E q \in board.papers : DeletePaper(q) /\ KeepsAllBut({q})
    <3>1. PICK q : DeletePaper(q) /\ KeepsAllBut({q})
      BY <2>3
    <3>2. q = p
      BY <2>1, <3>1
    <3> QED BY <3>1, <3>2
  <2>4. CASE \E i \in 1..MaxIdeas : DeleteIdea(i) /\ KeepsAllBut({board.ideas[i].held})
    <3>1. PICK i : DeleteIdea(i) /\ KeepsAllBut({board.ideas[i].held})
      BY <2>4
    <3>2. board.ideas[i].held = p
      BY <2>1, <3>1
    <3>3. i \in DOMAIN board.ideas
      <4>1. board \in Boards
        BY DEF TableInv, TypeOK, Boards
      <4> QED BY <3>1, <4>1, ReadIs, Parts DEF DeleteIdea
    <3> QED BY <3>1, <3>2, <3>3
  <2> QED BY <2>2, <2>3, <2>4, StepHolds
<1>2. TableInv /\ [Next]_vars => [Stays]_vars
  BY <1>1
<1> QED BY <1>2, TableInvariant, PTL DEF Spec, DesignerKeepsPapers
=============================================================================
