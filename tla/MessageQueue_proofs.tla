------------------------ MODULE MessageQueue_proofs ------------------------
(***************************************************************************)
(* Proofs about MessageQueue, for every script of transaction messages,    *)
(* every limit of attempts and every size of the queues.                   *)
(***************************************************************************)
EXTENDS MessageQueue, SequenceTheorems, FiniteSetTheorems, WellFoundedInduction, TLAPS

(***************************************************************************)
(* The first and the last message of a deque.                              *)
(***************************************************************************)

\* A set of natural numbers has a least one.
LEMMA Least ==
  ASSUME NEW T, T \subseteq Nat, T # {}
  PROVE  \E x \in T : \A y \in T : x <= y
<1>1. PICK x \in T : \A y \in T : ~(<<y, x>> \in OpToRel(<, Nat))
  BY NatLessThanWellFounded, WFMin
<1>2. \A y \in T : ~(y < x)
  BY <1>1 DEF OpToRel
<1> QED  BY <1>2

\* A deque that is in the order of its pushes has a front and a back.
LEMMA Ends ==
  ASSUME NEW q, q # {}, NEW n \in Nat,
         \A m \in q : m.seq \in Nat /\ m.seq <= n /\ m.pos \in Int,
         \A x, y \in q : x.pos < y.pos => x.seq < y.seq
  PROVE  /\ Front(q) \in q /\ \A x \in q : Front(q).pos <= x.pos
         /\ Back(q) \in q /\ \A x \in q : Back(q).pos >= x.pos
<1>1. \E m \in q : \A x \in q : m.pos <= x.pos
  <2> DEFINE T == {m.seq : m \in q}
  <2>1. PICK t \in T : \A y \in T : t <= y
    BY Least
  <2>2. PICK m \in q : m.seq = t
    OBVIOUS
  <2>3. \A x \in q : m.pos <= x.pos
    <3> TAKE x \in q
    <3>1. m.seq <= x.seq
      BY <2>1, <2>2
    <3> QED  BY <3>1
  <2> QED  BY <2>3
<1>2. \E m \in q : \A x \in q : m.pos >= x.pos
  <2> DEFINE T == {n - m.seq : m \in q}
  <2>0. T \subseteq Nat /\ T # {}
    <3>1. \A m \in q : n - m.seq \in Nat
      OBVIOUS
    <3> QED  BY <3>1
  <2>1. PICK t \in T : \A y \in T : t <= y
    <3> HIDE DEF T
    <3> QED  BY <2>0, Least
  <2>2. PICK m \in q : n - m.seq = t
    OBVIOUS
  <2>3. \A x \in q : m.pos >= x.pos
    <3> TAKE x \in q
    <3>1. n - x.seq \in T
      OBVIOUS
    <3>2. n - m.seq <= n - x.seq
      BY <2>1, <2>2, <3>1
    <3> QED  BY <3>2
  <2> QED  BY <2>3
<1> QED  BY <1>1, <1>2 DEF Front, Back

(***************************************************************************)
(* The deque of transaction messages: in the order of the pushes, with     *)
(* nothing in it older than l, the latest that went out.                   *)
(***************************************************************************)
TxOrdered(q, p, l) ==
  /\ q \subseteq Messages /\ IsFiniteSet(q)
  /\ \A m \in q : IsTx(m) /\ m.seq \in 1 .. p /\ l <= m.seq /\ ~m.promised
  /\ \A x, y \in q : x.pos < y.pos => x.seq < y.seq
  /\ \A x, y \in q : x.pos = y.pos => x = y

LEMMA OrderedEnds ==
  ASSUME NEW q, q # {}, NEW p \in Nat, NEW l, TxOrdered(q, p, l)
  PROVE  /\ Front(q) \in q /\ \A x \in q : Front(q).pos <= x.pos
         /\ Back(q) \in q /\ \A x \in q : Back(q).pos >= x.pos
<1>1. \A m \in q : m.seq \in Nat /\ m.seq <= p /\ m.pos \in Int
  BY DEF TxOrdered, Messages
<1>2. \A x, y \in q : x.pos < y.pos => x.seq < y.seq
  BY DEF TxOrdered
<1> QED  BY <1>1, <1>2, Ends

\* What is left when messages are dropped.
LEMMA SubsetOrdered ==
  ASSUME NEW q, NEW r, r \subseteq q, NEW p, NEW l, TxOrdered(q, p, l)
  PROVE  TxOrdered(r, p, l)
BY FS_Subset DEF TxOrdered

\* A message that is pushed.
LEMMA PushBackOrdered ==
  ASSUME NEW q, NEW p \in Nat, NEW l \in 0 .. p, TxOrdered(q, p, l),
         NEW m \in Messages, IsTx(m), m.seq = p + 1, ~m.promised
  PROVE  TxOrdered(PushBack(q, m), p + 1, l)
<1> DEFINE k == IF q = {} THEN 0 ELSE Back(q).pos + 1
           e == [m EXCEPT !.pos = k]
<1>1. k \in Int /\ \A x \in q : x.pos \in Int /\ x.pos < k
  <2>1. \A x \in q : x.pos \in Int
    BY DEF TxOrdered, Messages
  <2>2. CASE q = {}
    BY <2>2
  <2>3. CASE q # {}
    BY <2>1, <2>3, OrderedEnds
  <2> QED  BY <2>2, <2>3
<1>2. e \in Messages /\ e.pos = k /\ e.seq = p + 1 /\ IsTx(e) /\ ~e.promised
  BY <1>1 DEF Messages, IsTx
<1>3. PushBack(q, m) = q \cup {e}
  BY DEF PushBack
<1>4. IsFiniteSet(q \cup {e})
  BY FS_AddElement DEF TxOrdered
<1> HIDE DEF k, e
<1> QED  BY <1>1, <1>2, <1>3, <1>4 DEF TxOrdered

\* A message that comes back, older than all that wait.
LEMMA PushFrontOrdered ==
  ASSUME NEW q, NEW p \in Nat, NEW l \in 0 .. p, TxOrdered(q, p, l),
         NEW m \in Messages, IsTx(m), m.seq \in 1 .. p, l <= m.seq, ~m.promised,
         \A x \in q : m.seq < x.seq
  PROVE  TxOrdered(PushFront(q, m), p, l)
<1> DEFINE k == IF q = {} THEN 0 ELSE Front(q).pos - 1
           e == [m EXCEPT !.pos = k]
<1>1. k \in Int /\ \A x \in q : x.pos \in Int /\ k < x.pos
  <2>1. \A x \in q : x.pos \in Int
    BY DEF TxOrdered, Messages
  <2>2. CASE q = {}
    BY <2>2
  <2>3. CASE q # {}
    BY <2>1, <2>3, OrderedEnds
  <2> QED  BY <2>2, <2>3
<1>2. e \in Messages /\ e.pos = k /\ e.seq = m.seq /\ IsTx(e) /\ ~e.promised
  BY <1>1 DEF Messages, IsTx
<1>3. PushFront(q, m) = q \cup {e}
  BY DEF PushFront
<1>4. IsFiniteSet(q \cup {e})
  BY FS_AddElement DEF TxOrdered
<1> HIDE DEF k, e
<1> QED  BY <1>1, <1>2, <1>3, <1>4 DEF TxOrdered

\* A message that changes in its place.
LEMMA ReplaceOrdered ==
  ASSUME NEW q, NEW p, NEW l, TxOrdered(q, p, l),
         NEW m \in q, NEW e \in Messages,
         e.pos = m.pos, e.seq = m.seq, e.kind = m.kind, e.promised = m.promised
  PROVE  TxOrdered((q \ {m}) \cup {e}, p, l)
<1>1. IsFiniteSet((q \ {m}) \cup {e})
  BY FS_AddElement, FS_RemoveElement DEF TxOrdered
<1> QED  BY <1>1 DEF TxOrdered, IsTx

\* The front goes out.
LEMMA SentOrdered ==
  ASSUME NEW q, NEW p, NEW l, TxOrdered(q, p, l),
         NEW m \in q, \A x \in q : m.pos <= x.pos
  PROVE  /\ TxOrdered(q, p, m.seq) /\ TxOrdered(q \ {m}, p, m.seq)
         /\ m = Front(q)
         /\ \A x \in q \ {m} : m.seq < x.seq
<1>1. \A x \in q : x.pos \in Int /\ x.seq \in Nat
  BY DEF TxOrdered, Messages
<1>2. \A x \in q \ {m} : m.pos < x.pos
  BY <1>1 DEF TxOrdered
<1>3. \A x \in q \ {m} : m.seq < x.seq
  BY <1>2 DEF TxOrdered
<1>4. TxOrdered(q, p, m.seq)
  BY <1>1, <1>3 DEF TxOrdered
<1>5. TxOrdered(q \ {m}, p, m.seq)
  BY <1>4, SubsetOrdered
<1>6. Front(q) = m
  BY <1>1, <1>2 DEF Front
<1> QED  BY <1>3, <1>4, <1>5, <1>6

(***************************************************************************)
(* The deque of the other messages: a BootNotification only at its front,  *)
(* and only a BootNotification that waits for its time.                    *)
(***************************************************************************)
Normal(m) == ~IsTx(m) /\ ~m.stall /\ (~m.due => m.kind = "Boot")
NormalOrdered(n) ==
  /\ n \in Seq(Messages)
  /\ \A i \in 1 .. Len(n) : Normal(n[i]) /\ (n[i].kind = "Boot" => i = 1)
NoBoot(n) == \A i \in 1 .. Len(n) : n[i].kind # "Boot"

LEMMA SuffixOrdered ==
  ASSUME NEW n, NormalOrdered(n), NEW r \in Seq(Messages), NEW d \in 0 .. Len(n),
         Len(r) = Len(n) - d, \A i \in 1 .. Len(r) : r[i] = n[i + d]
  PROVE  NormalOrdered(r) /\ (d > 0 => NoBoot(r))
<1>1. Len(n) \in Nat /\ Len(r) \in Nat
  BY DEF NormalOrdered
<1>2. \A i \in 1 .. Len(r) : /\ i + d \in 1 .. Len(n)
                             /\ Normal(r[i]) /\ (r[i].kind = "Boot" => i + d = 1)
  BY <1>1 DEF NormalOrdered
<1> HIDE DEF NormalOrdered
<1>3. \A i \in 1 .. Len(r) : r[i].kind = "Boot" => i = 1 /\ d = 0
  BY <1>1, <1>2
<1>4. NormalOrdered(r)
  BY <1>2, <1>3 DEF NormalOrdered
<1> QED  BY <1>3, <1>4 DEF NoBoot

\* What check_queue_sizes leaves is a suffix.
LEMMA KeptNormalIsSuffix ==
  ASSUME NEW n \in Seq(Messages), NEW t, IsFiniteSet(t)
  PROVE  /\ KeptNormal(n, t) \in Seq(Messages)
         /\ \E d \in 0 .. Len(n) :
              /\ Len(KeptNormal(n, t)) = Len(n) - d
              /\ \A i \in 1 .. Len(KeptNormal(n, t)) : KeptNormal(n, t)[i] = n[i + d]
<1> DEFINE c == Cardinality(t)
           d == Len(n) + c - SizeThreshold
<1>1. c \in Nat
  BY FS_CardinalityType
<1>2. d \in Int /\ Len(n) \in Nat
  BY <1>1, MessageQueueAssumption DEF MessageQueueAssumption
<1> HIDE DEF c
<1>3. CASE d <= 0
  <2>1. KeptNormal(n, t) = n
    BY <1>3 DEF KeptNormal, c
  <2> QED  BY <2>1, <1>2
<1>4. CASE d > 0 /\ d >= Len(n)
  <2>1. KeptNormal(n, t) = <<>>
    BY <1>2, <1>4 DEF KeptNormal, c
  <2> QED  BY <2>1, <1>2
<1>5. CASE d > 0 /\ d < Len(n)
  <2>1. KeptNormal(n, t) = SubSeq(n, d + 1, Len(n))
    BY <1>2, <1>5 DEF KeptNormal, c
  <2> HIDE DEF d
  <2>2. \A i \in d + 1 .. Len(n) : n[i] \in Messages
    BY <1>2, <1>5
  <2>3. /\ SubSeq(n, d + 1, Len(n)) \in Seq(Messages)
        /\ Len(SubSeq(n, d + 1, Len(n))) = Len(n) - d
        /\ \A i \in 1 .. Len(n) - d : SubSeq(n, d + 1, Len(n))[i] = n[i + d]
    BY <1>2, <1>5, <2>2
  <2> QED  BY <1>2, <1>5, <2>1, <2>3
<1> QED  BY <1>2, <1>3, <1>4, <1>5

(***************************************************************************)
(* What check_queue_sizes keeps.  KeptTx is a recursive function; that it  *)
(* exists, and what every one of its values satisfies, is shown by looking *)
(* at the least place where it would fail.                                 *)
(***************************************************************************)
\* One pass of check_queue_sizes over the transaction messages, and what the passes
\* leave, one after the other.
Thinned(n, q) == IF Len(n) + Cardinality(q) > SizeThreshold THEN q \ Dropped(q) ELSE q
IsPasses(f, n, t, c) == f = [k \in 0 .. c |-> IF k = 0 THEN t ELSE Thinned(n, f[k - 1])]

LEMMA KeptTxPasses ==
  ASSUME NEW n, NEW t
  PROVE KeptTx(n, t) = (CHOOSE f : IsPasses(f, n, t, Cardinality(t)))[Cardinality(t)]
BY DEF KeptTx, IsPasses, Thinned

LEMMA PassesExist ==
  ASSUME NEW n, NEW t, NEW c \in Nat
  PROVE  \E f : IsPasses(f, n, t, c)
<1> DEFINE T == {k \in Nat : ~\E f : IsPasses(f, n, t, k)}
<1> SUFFICES ASSUME T # {} PROVE FALSE
  OBVIOUS
<1>1. PICK k \in T : \A j \in T : k <= j
  BY Least
<1>2. CASE k = 0
  <2> DEFINE f == [i \in 0 .. 0 |-> t]
  <2>1. IsPasses(f, n, t, 0)
    BY DEF IsPasses
  <2> QED  BY <1>2, <2>1
<1>3. CASE k # 0
  <2>1. k - 1 \in Nat /\ k - 1 \notin T
    BY <1>1, <1>3
  <2>2. PICK f : IsPasses(f, n, t, k - 1)
    BY <2>1
  <2> DEFINE g == [i \in 0 .. k |-> IF i = k THEN Thinned(n, f[k - 1]) ELSE f[i]]
  <2>3. IsPasses(g, n, t, k)
    <3>1. \A i \in 0 .. k : g[i] = IF i = 0 THEN t ELSE Thinned(n, g[i - 1])
      <4> TAKE i \in 0 .. k
      <4>1. \A j \in 0 .. k - 1 : f[j] = IF j = 0 THEN t ELSE Thinned(n, f[j - 1])
        BY <2>2 DEF IsPasses
      <4>2. CASE i = 0
        BY <1>3, <4>1, <4>2
      <4>3. CASE i = k
        BY <1>3, <4>3
      <4>4. CASE i # 0 /\ i # k
        <5>1. i \in 0 .. k - 1 /\ i - 1 \in 0 .. k /\ i - 1 # k
          BY <4>4
        <5>2. g[i] = f[i] /\ g[i - 1] = f[i - 1]
          BY <4>4, <5>1
        <5> QED  BY <4>1, <4>4, <5>1, <5>2
      <4> QED  BY <4>2, <4>3, <4>4
    <3> QED  BY <3>1 DEF IsPasses
  <2> QED  BY <2>3
<1> QED  BY <1>2, <1>3

\* check_queue_sizes drops transaction messages, none that is not an update.
LEMMA KeptTxKeeps ==
  ASSUME NEW n, NEW t, IsFiniteSet(t)
  PROVE  KeptTx(n, t) \subseteq t /\ \A m \in t : m.kind # "Update" => m \in KeptTx(n, t)
<1> DEFINE c == Cardinality(t)
           f == CHOOSE g : IsPasses(g, n, t, c)
           Good(q) == q \subseteq t /\ \A m \in t : m.kind # "Update" => m \in q
<1>1. c \in Nat
  BY FS_CardinalityType
<1> HIDE DEF c
<1>2. IsPasses(f, n, t, c)
  BY <1>1, PassesExist
<1> HIDE DEF f
<1>3. \A k \in 0 .. c : f[k] = IF k = 0 THEN t ELSE Thinned(n, f[k - 1])
  BY <1>2 DEF IsPasses
<1>4. ASSUME NEW q, Good(q) PROVE Good(Thinned(n, q))
  BY <1>4 DEF Thinned, Dropped
<1>5. \A k \in 0 .. c : Good(f[k])
  <2> DEFINE T == {k \in 0 .. c : ~Good(f[k])}
  <2> SUFFICES ASSUME T # {} PROVE FALSE
    OBVIOUS
  <2>0. T \subseteq Nat
    OBVIOUS
  <2>1. PICK k \in T : \A j \in T : k <= j
    <3> HIDE DEF T
    <3> QED  BY <2>0, Least
  <2>2. k # 0
    BY <1>3
  <2>3. k - 1 \in 0 .. c /\ k - 1 \notin T
    BY <1>1, <2>1, <2>2
  <2>4. Good(f[k - 1])
    BY <2>3
  <2>5. Good(Thinned(n, f[k - 1]))
    BY <1>4, <2>4
  <2>6. f[k] = Thinned(n, f[k - 1])
    BY <1>3, <2>2
  <2> QED  BY <2>5, <2>6
<1>6. KeptTx(n, t) = f[c]
  BY KeptTxPasses DEF f, c
<1>7. c \in 0 .. c
  BY <1>1
<1> QED  BY <1>5, <1>6, <1>7

\* As many passes as there are messages are enough: after them the queues fit, or
\* another pass would drop nothing.  The loop of the code ends where KeptTx ends.
LEMMA KeptTxIsFinal ==
  ASSUME NEW n \in Seq(Messages), NEW t, IsFiniteSet(t)
  PROVE  Thinned(n, KeptTx(n, t)) = KeptTx(n, t)
<1> DEFINE c == Cardinality(t)
           f == CHOOSE g : IsPasses(g, n, t, c)
           Small(k) == /\ IsFiniteSet(f[k])
                       /\ Thinned(n, f[k]) # f[k] => Cardinality(f[k]) <= c - k
<1>1. c \in Nat
  BY FS_CardinalityType
<1> HIDE DEF c
<1>2. IsPasses(f, n, t, c)
  BY <1>1, PassesExist
<1> HIDE DEF f
<1>3. \A k \in 0 .. c : f[k] = IF k = 0 THEN t ELSE Thinned(n, f[k - 1])
  BY <1>2 DEF IsPasses
<1>4. \A k \in 0 .. c : Small(k)
  <2> DEFINE T == {k \in 0 .. c : ~Small(k)}
  <2> SUFFICES ASSUME T # {} PROVE FALSE
    OBVIOUS
  <2>0. T \subseteq Nat
    OBVIOUS
  <2>1. PICK k \in T : \A j \in T : k <= j
    <3> HIDE DEF T
    <3> QED  BY <2>0, Least
  <2>2. k # 0
    <3>1. f[0] = t /\ Cardinality(t) = c
      BY <1>1, <1>3 DEF c
    <3>2. Small(0)
      BY <1>1, <3>1
    <3> QED  BY <3>2
  <2>3. k - 1 \in 0 .. c /\ k - 1 \notin T
    BY <1>1, <2>1, <2>2
  <2>4. Small(k - 1)
    BY <2>3
  <2>5. f[k] = Thinned(n, f[k - 1])
    BY <1>3, <2>2
  <2>6. f[k] \subseteq f[k - 1]
    BY <2>5 DEF Thinned
  <2> DEFINE q == f[k - 1]
             r == f[k]
  <2>7. IsFiniteSet(q) /\ IsFiniteSet(r) /\ r \subseteq q
    BY <2>4, <2>6, FS_Subset
  <2>8. CASE r = q
    <3>1. Thinned(n, r) = r
      BY <2>5, <2>8
    <3> QED  BY <2>7, <3>1
  <2>9. CASE r # q
    <3>1. Cardinality(q) <= c - (k - 1)
      BY <2>4, <2>5, <2>9
    <3>2. Cardinality(r) < Cardinality(q) /\ Cardinality(r) \in Nat /\ Cardinality(q) \in Nat
      BY <2>7, <2>9, FS_Subset, FS_CardinalityType
    <3>3. Cardinality(r) <= c - k
      <4> HIDE DEF q, r
      <4> QED  BY <1>1, <3>1, <3>2
    <3> QED  BY <2>7, <3>3
  <2> QED  BY <2>8, <2>9
<1>5. Small(c)
  BY <1>1, <1>4
<1>6. KeptTx(n, t) = f[c]
  BY KeptTxPasses DEF f, c
<1> DEFINE q == f[c]
<1>7. Thinned(n, q) = q
  <2> SUFFICES ASSUME Thinned(n, q) # q  PROVE FALSE
    OBVIOUS
  <2>1. IsFiniteSet(q) /\ Cardinality(q) <= c - c
    BY <1>5
  <2>2. Cardinality(q) \in Nat
    BY <2>1, FS_CardinalityType
  <2> HIDE DEF q
  <2>3. q = {}
    BY <1>1, <2>1, <2>2, FS_EmptySet
  <2> QED  BY <2>3 DEF Thinned, Dropped
<1> QED  BY <1>6, <1>7

\* The queues after check_queue_sizes.
LEMMA Checked ==
  ASSUME NEW n, NormalOrdered(n), NEW t, NEW p, NEW l, TxOrdered(t, p, l),
         CheckQueueSizes(n, t)
  PROVE  /\ NormalOrdered(nq') /\ TxOrdered(txq', p, l) /\ txq' \subseteq t
         /\ \A m \in t : m.kind # "Update" => m \in txq'
         /\ \E d \in 0 .. Len(n) :
              /\ Len(nq') = Len(n) - d
              /\ \A i \in 1 .. Len(nq') : nq'[i] = n[i + d]
<1>1. n \in Seq(Messages) /\ IsFiniteSet(t)
  BY DEF NormalOrdered, TxOrdered
<1>2. /\ nq' \in Seq(Messages)
      /\ \E d \in 0 .. Len(n) :
           /\ Len(nq') = Len(n) - d
           /\ \A i \in 1 .. Len(nq') : nq'[i] = n[i + d]
  <2>1. nq' = KeptNormal(n, t)
    BY DEF CheckQueueSizes
  <2> DEFINE r == KeptNormal(n, t)
  <2>2. /\ r \in Seq(Messages)
        /\ \E d \in 0 .. Len(n) : Len(r) = Len(n) - d /\ \A i \in 1 .. Len(r) : r[i] = n[i + d]
    BY <1>1, KeptNormalIsSuffix
  <2> HIDE DEF r
  <2>3. nq' = r
    BY <2>1 DEF r
  <2> QED  BY <2>2, <2>3
<1>3. NormalOrdered(nq')
  BY <1>2, SuffixOrdered
<1>4. txq' \subseteq t /\ \A m \in t : m.kind # "Update" => m \in txq'
  BY <1>1, KeptTxKeeps DEF CheckQueueSizes
<1>5. TxOrdered(txq', p, l)
  BY <1>4, SubsetOrdered
<1> QED  BY <1>2, <1>3, <1>4, <1>5

\* A message that is appended.
LEMMA AppendOrdered ==
  ASSUME NEW n, NormalOrdered(n), NEW m \in Messages, Normal(m), m.kind # "Boot"
  PROVE  /\ NormalOrdered(Append(n, m)) /\ Len(Append(n, m)) = Len(n) + 1
         /\ \A i \in 1 .. Len(n) : Append(n, m)[i] = n[i]
         /\ Append(n, m)[Len(n) + 1] = m
<1>1. n \in Seq(Messages) /\ Len(n) \in Nat
  BY DEF NormalOrdered
<1>2. /\ Append(n, m) \in Seq(Messages) /\ Len(Append(n, m)) = Len(n) + 1
      /\ \A i \in 1 .. Len(n) : Append(n, m)[i] = n[i]
      /\ Append(n, m)[Len(n) + 1] = m
  BY <1>1, AppendProperties
<1> DEFINE a == Append(n, m)
<1> HIDE DEF a
<1>3. \A i \in 1 .. Len(a) : Normal(a[i]) /\ (a[i].kind = "Boot" => i = 1)
  <2> TAKE i \in 1 .. Len(a)
  <2>1. CASE i <= Len(n)
    BY <1>1, <1>2, <2>1 DEF a, NormalOrdered
  <2>2. CASE i = Len(n) + 1
    BY <1>1, <1>2, <2>2 DEF a
  <2> QED  BY <1>1, <1>2, <2>1, <2>2 DEF a
<1> QED  BY <1>2, <1>3 DEF a, NormalOrdered

\* A BootNotification that jumps the queue, where there is none.
LEMMA PrependOrdered ==
  ASSUME NEW n, NormalOrdered(n), NoBoot(n), NEW m \in Messages, Normal(m)
  PROVE  /\ NormalOrdered(<<m>> \o n) /\ Len(<<m>> \o n) = Len(n) + 1
         /\ (<<m>> \o n)[1] = m
         /\ \A i \in 2 .. Len(n) + 1 : (<<m>> \o n)[i] = n[i - 1]
<1>1. n \in Seq(Messages) /\ Len(n) \in Nat /\ <<m>> \in Seq(Messages) /\ Len(<<m>>) = 1
  BY DEF NormalOrdered
<1> DEFINE a == <<m>> \o n
<1>2. /\ a \in Seq(Messages) /\ Len(a) = Len(n) + 1
      /\ \A i \in 1 .. Len(n) + 1 : a[i] = IF i <= 1 THEN <<m>>[i] ELSE n[i - 1]
  BY <1>1, ConcatProperties
<1>3. a[1] = m /\ \A i \in 2 .. Len(n) + 1 : a[i] = n[i - 1]
  BY <1>1, <1>2
<1> HIDE DEF a
<1>4. \A i \in 1 .. Len(a) : Normal(a[i]) /\ (a[i].kind = "Boot" => i = 1)
  <2> TAKE i \in 1 .. Len(a)
  <2>1. CASE i = 1
    BY <1>3, <2>1
  <2>2. CASE i # 1
    <3>1. i \in 2 .. Len(n) + 1 /\ i - 1 \in 1 .. Len(n)
      BY <1>1, <1>2, <2>2
    <3> QED  BY <1>3, <3>1 DEF NoBoot, NormalOrdered
  <2> QED  BY <2>1, <2>2
<1> QED  BY <1>2, <1>3, <1>4 DEF a, NormalOrdered

\* A message that changes in its place.
LEMMA ExceptOrdered ==
  ASSUME NEW n, NormalOrdered(n), NEW k \in 1 .. Len(n), NEW m \in Messages,
         Normal(m), m.kind = n[k].kind
  PROVE  LET a == [n EXCEPT ![k] = m]
         IN  /\ NormalOrdered(a) /\ Len(a) = Len(n)
             /\ \A i \in 1 .. Len(n) : a[i] = IF i = k THEN m ELSE n[i]
<1> DEFINE a == [n EXCEPT ![k] = m]
<1>1. /\ a \in Seq(Messages) /\ Len(a) = Len(n)
      /\ \A i \in 1 .. Len(n) : a[i] = IF i = k THEN m ELSE n[i]
  BY ExceptSeq DEF NormalOrdered
<1> HIDE DEF a
<1> QED  BY <1>1 DEF a, NormalOrdered

\* The front is dropped.
LEMMA TailOrdered ==
  ASSUME NEW n, NormalOrdered(n), n # <<>>
  PROVE  /\ NormalOrdered(Tail(n)) /\ NoBoot(Tail(n)) /\ Len(Tail(n)) = Len(n) - 1
         /\ \A i \in 1 .. Len(Tail(n)) : Tail(n)[i] = n[i + 1]
<1>1. /\ Tail(n) \in Seq(Messages) /\ Len(Tail(n)) = Len(n) - 1
      /\ \A i \in 1 .. Len(Tail(n)) : Tail(n)[i] = n[i + 1]
      /\ Len(n) \in Nat \ {0}
  BY HeadTailProperties, EmptySeq DEF NormalOrdered
<1> DEFINE r == Tail(n)
<1> HIDE DEF r
<1>2. /\ 1 \in 0 .. Len(n) /\ r \in Seq(Messages) /\ Len(r) = Len(n) - 1
      /\ \A i \in 1 .. Len(r) : r[i] = n[i + 1]
  BY <1>1 DEF r
<1>3. NormalOrdered(r) /\ (1 > 0 => NoBoot(r))
  BY <1>2, SuffixOrdered
<1> QED  BY <1>2, <1>3 DEF r

\* The message that was sent leaves.
LEMMA RemoveOrdered ==
  ASSUME NEW n, NormalOrdered(n), NEW k \in 1 .. Len(n)
  PROVE  LET a == RemoveFrom(n, k)
         IN  /\ NormalOrdered(a) /\ Len(a) = Len(n) - 1
             /\ \A i \in 1 .. Len(a) : a[i] = IF i < k THEN n[i] ELSE n[i + 1]
<1> DEFINE a == RemoveFrom(n, k)
           b == SubSeq(n, 1, k - 1)
           c == SubSeq(n, k + 1, Len(n))
<1>1. Len(n) \in Nat /\ n \in Seq(Messages) /\ \A i \in 1 .. Len(n) : n[i] \in Messages
  BY DEF NormalOrdered
<1>2. /\ b \in Seq(Messages) /\ Len(b) = k - 1
      /\ \A i \in 1 .. k - 1 : b[i] = n[i]
  BY <1>1, SubSeqProperties
<1>3. /\ c \in Seq(Messages) /\ Len(c) = Len(n) - k
      /\ \A i \in 1 .. Len(n) - k : c[i] = n[k + i]
  BY <1>1, SubSeqProperties
<1> HIDE DEF b, c
<1>4. a = b \o c
  BY DEF RemoveFrom, b, c
<1>5. /\ a \in Seq(Messages) /\ Len(a) = Len(n) - 1
      /\ \A i \in 1 .. Len(n) - 1 : a[i] = IF i <= k - 1 THEN b[i] ELSE c[i - (k - 1)]
  <2>1. /\ b \o c \in Seq(Messages) /\ Len(b \o c) = Len(b) + Len(c)
        /\ \A i \in 1 .. Len(b) + Len(c) :
             (b \o c)[i] = IF i <= Len(b) THEN b[i] ELSE c[i - Len(b)]
    BY <1>2, <1>3, ConcatProperties
  <2> QED  BY <1>1, <1>2, <1>3, <1>4, <2>1
<1> HIDE DEF a
<1>6. \A i \in 1 .. Len(a) : a[i] = IF i < k THEN n[i] ELSE n[i + 1]
  <2> TAKE i \in 1 .. Len(a)
  <2>1. CASE i < k
    BY <1>1, <1>2, <1>5, <2>1
  <2>2. CASE i >= k
    <3>1. i - (k - 1) \in 1 .. Len(n) - k /\ k + (i - (k - 1)) = i + 1
      BY <1>1, <1>5, <2>2
    <3>2. a[i] = c[i - (k - 1)]
      BY <1>1, <1>5, <2>2
    <3> QED  BY <1>3, <2>2, <3>1, <3>2
  <2> QED  BY <1>1, <1>5, <2>1, <2>2
<1>7. \A i \in 1 .. Len(a) : Normal(a[i]) /\ (a[i].kind = "Boot" => i = 1)
  <2> TAKE i \in 1 .. Len(a)
  <2>1. CASE i < k
    BY <1>1, <1>5, <1>6, <2>1 DEF NormalOrdered
  <2>2. CASE i >= k
    <3>1. i + 1 \in 1 .. Len(n) /\ i + 1 # 1
      BY <1>1, <1>5, <2>2
    <3> QED  BY <1>6, <2>2, <3>1 DEF NormalOrdered
  <2> QED  BY <1>1, <1>5, <2>1, <2>2
<1> QED  BY <1>5, <1>6, <1>7 DEF a, NormalOrdered

(***************************************************************************)
(* The inductive invariant.                                                *)
(***************************************************************************)
Scalars ==
  /\ inFlight \in Messages \cup {None}
  /\ flags \in [paused : BOOLEAN, running : BOOLEAN,
                newMessage : BOOLEAN, accepted : BOOLEAN]
  /\ worker \in [pc : WorkerStates, at : Nat]
  /\ recv \in RecvStates
  /\ timers \in [flight : BOOLEAN, notify : BOOLEAN, boot : BOOLEAN]
  /\ expired \in BOOLEAN /\ online \in BOOLEAN
  /\ pushed \in 0 .. Len(Script)
  /\ owed \subseteq 1 .. pushed /\ lastSent \in 0 .. pushed
  /\ fault \in {"none", "null", "promise"}

TxInv     == TxOrdered(txq, pushed, lastSent)
NormalInv == NormalOrdered(nq)

\* A transaction message in flight was the front of its deque.
FlightInv ==
  inFlight # None =>
    /\ IsTx(inFlight) => /\ inFlight.seq \in 1 .. pushed /\ lastSent <= inFlight.seq
                         /\ ~inFlight.promised
                         /\ worker.pc # "sending" => \A m \in txq : inFlight.seq < m.seq
    /\ ~IsTx(inFlight) => ~inFlight.stall

\* The message that the worker sends is the one in its deque.  Another one than the
\* front of the normal messages is taken only if a BootNotification waits there.
SendInv ==
  worker.pc = "sending" =>
    /\ inFlight # None /\ inFlight.due
    /\ worker.at = 0 => inFlight \in txq /\ \A m \in txq : inFlight.pos <= m.pos
    /\ worker.at # 0 => worker.at \in 1 .. Len(nq) /\ inFlight = nq[worker.at]
    /\ worker.at > 1 => nq[1].kind = "Boot"

\* Nobody else looks at the message in flight while its answer is handled.
AnswerInv == recv = "result" => inFlight # None /\ worker.pc # "sending"

\* The BootNotification is in one place at most.
NoneBoot == ~BootQueued /\ ~BootInFlight /\ recv # "boot" /\ ~timers.boot
BootInv ==
  /\ BootQueued => ~BootInFlight /\ recv # "boot" /\ ~timers.boot
  /\ BootInFlight => recv # "boot" /\ ~timers.boot
  /\ recv = "boot" => ~timers.boot
  /\ flags.accepted => NoneBoot

\* A promise that has its value stays in a queue only where a BootNotification was
\* dropped in its place, and then the station is never accepted.
PromiseInv ==
  /\ (\E i \in 1 .. Len(nq) : nq[i].promised) => NoneBoot /\ ~flags.accepted
  /\ inFlight # None /\ inFlight.promised => NoneBoot /\ ~flags.accepted
  /\ fault = "promise" => ~flags.accepted

IInv == /\ Scalars /\ TxInv /\ NormalInv /\ FlightInv /\ SendInv /\ AnswerInv
        /\ FlightIsWatched /\ BootInv /\ PromiseInv

\* The parts of it that speak of the queues and the message in flight.
QueueInv == TxInv /\ NormalInv /\ FlightInv /\ SendInv

(***************************************************************************)
(* Steps that leave the queues alone.                                      *)
(***************************************************************************)
StaysSending == worker.pc = "sending" \/ worker'.pc = "sending" => worker' = worker

LEMMA QuietQueues ==
  ASSUME QueueInv, UNCHANGED <<queues, history>>, StaysSending
  PROVE  QueueInv'
BY DEF QueueInv, TxInv, NormalInv, FlightInv, SendInv, StaysSending, queues, history

LEMMA Woken ==
  ASSUME Scalars, Wake
  PROVE  /\ worker' \in [pc : WorkerStates, at : Nat]
         /\ worker'.pc = "sending" <=> worker.pc = "sending"
         /\ StaysSending
BY DEF Scalars, Wake, StaysSending, WorkerStates

LEMMA LoopType ==
  ASSUME Scalars, worker' = Loop
  PROVE  worker' \in [pc : WorkerStates, at : Nat] /\ worker'.pc # "sending"
BY DEF Scalars, Loop, WorkerStates

LEMMA StopStep ==
  ASSUME IInv, Stop
  PROVE  IInv'
<1>1. /\ QueueInv' /\ worker' \in [pc : WorkerStates, at : Nat]
      /\ worker'.pc = "sending" <=> worker.pc = "sending"
  BY Woken, QuietQueues DEF Stop, IInv, QueueInv
<1>2. Scalars'
  BY <1>1 DEF Stop, IInv, Scalars, queues, history
<1>3. AnswerInv' /\ FlightIsWatched'
  BY <1>1 DEF Stop, IInv, Scalars, queues, AnswerInv, FlightIsWatched
<1>4. BootInv' /\ PromiseInv'
  BY <1>1 DEF Stop, IInv, Scalars, queues, BootInv, PromiseInv, NoneBoot,
              BootQueued, BootInFlight
<1> QED  BY <1>1, <1>2, <1>3, <1>4 DEF IInv, QueueInv

LEMMA WorkerWaitsStep ==
  ASSUME IInv, WorkerWaits
  PROVE  IInv'
<1>1. /\ QueueInv' /\ worker' \in [pc : WorkerStates, at : Nat]
      /\ worker'.pc = "sending" <=> worker.pc = "sending"
  BY QuietQueues DEF WorkerWaits, IInv, QueueInv, Scalars, StaysSending, WorkerStates
<1>2. Scalars'
  BY <1>1 DEF WorkerWaits, IInv, Scalars, queues, history, LockFree, CanLock
<1>3. AnswerInv' /\ FlightIsWatched'
  BY <1>1 DEF WorkerWaits, IInv, Scalars, queues, AnswerInv, FlightIsWatched, LockFree, CanLock
<1>4. BootInv' /\ PromiseInv'
  BY <1>1 DEF WorkerWaits, IInv, Scalars, queues, BootInv, PromiseInv, NoneBoot,
              BootQueued, BootInFlight, LockFree, CanLock
<1> QED  BY <1>1, <1>2, <1>3, <1>4 DEF IInv, QueueInv

LEMMA WorkerBlocksStep ==
  ASSUME IInv, WorkerBlocks
  PROVE  IInv'
<1>1. /\ QueueInv' /\ worker' \in [pc : WorkerStates, at : Nat]
      /\ worker'.pc = "sending" <=> worker.pc = "sending"
  BY QuietQueues DEF WorkerBlocks, IInv, QueueInv, Scalars, StaysSending, WorkerStates
<1>2. Scalars'
  BY <1>1 DEF WorkerBlocks, IInv, Scalars, queues, history
<1>3. AnswerInv' /\ FlightIsWatched'
  BY <1>1 DEF WorkerBlocks, IInv, Scalars, queues, AnswerInv, FlightIsWatched
<1>4. BootInv' /\ PromiseInv'
  BY <1>1 DEF WorkerBlocks, IInv, Scalars, queues, BootInv, PromiseInv, NoneBoot,
              BootQueued, BootInFlight
<1> QED  BY <1>1, <1>2, <1>3, <1>4 DEF IInv, QueueInv

LEMMA WorkerTurnsStep ==
  ASSUME IInv, WorkerTurns
  PROVE  IInv'
<1>1. /\ QueueInv' /\ worker' \in [pc : WorkerStates, at : Nat]
      /\ worker'.pc = "sending" <=> worker.pc = "sending"
  BY LoopType, QuietQueues DEF WorkerTurns, IInv, QueueInv, StaysSending
<1>2. Scalars'
  BY <1>1 DEF WorkerTurns, IInv, Scalars, queues, history, LockFree, CanLock
<1>3. AnswerInv' /\ FlightIsWatched'
  BY <1>1 DEF WorkerTurns, IInv, Scalars, queues, AnswerInv, FlightIsWatched, LockFree, CanLock
<1>4. BootInv' /\ PromiseInv'
  BY <1>1 DEF WorkerTurns, IInv, Scalars, queues, BootInv, PromiseInv, NoneBoot,
              BootQueued, BootInFlight, LockFree, CanLock
<1> QED  BY <1>1, <1>2, <1>3, <1>4 DEF IInv, QueueInv

LEMMA TimerExpiresStep ==
  ASSUME IInv, TimerExpires
  PROVE  IInv'
<1>1. /\ QueueInv' /\ worker' \in [pc : WorkerStates, at : Nat]
      /\ worker'.pc = "sending" <=> worker.pc = "sending"
  BY QuietQueues DEF TimerExpires, IInv, QueueInv, Scalars, StaysSending
<1>2. Scalars'
  BY <1>1 DEF TimerExpires, IInv, Scalars, queues, history
<1>3. AnswerInv' /\ FlightIsWatched'
  BY <1>1 DEF TimerExpires, IInv, Scalars, queues, AnswerInv, FlightIsWatched
<1>4. BootInv' /\ PromiseInv'
  BY <1>1 DEF TimerExpires, IInv, Scalars, queues, BootInv, PromiseInv, NoneBoot,
              BootQueued, BootInFlight
<1> QED  BY <1>1, <1>2, <1>3, <1>4 DEF IInv, QueueInv

LEMMA NotifyTimerFiresStep ==
  ASSUME IInv, NotifyTimerFires
  PROVE  IInv'
<1>1. /\ QueueInv' /\ worker' \in [pc : WorkerStates, at : Nat]
      /\ worker'.pc = "sending" <=> worker.pc = "sending"
  BY Woken, QuietQueues DEF NotifyTimerFires, IInv, QueueInv
<1>2. Scalars'
  BY <1>1 DEF NotifyTimerFires, IInv, Scalars, queues, history
<1>3. AnswerInv' /\ FlightIsWatched'
  BY <1>1 DEF NotifyTimerFires, IInv, Scalars, queues, AnswerInv, FlightIsWatched
<1>4. BootInv' /\ PromiseInv'
  BY <1>1 DEF NotifyTimerFires, IInv, Scalars, queues, BootInv, PromiseInv, NoneBoot,
              BootQueued, BootInFlight
<1> QED  BY <1>1, <1>2, <1>3, <1>4 DEF IInv, QueueInv

LEMMA ReceiveAnswerStep ==
  ASSUME IInv, NEW answer \in {"result", "error"}, ReceiveAnswer(answer)
  PROVE  IInv'
<1>1. /\ QueueInv' /\ worker' \in [pc : WorkerStates, at : Nat]
      /\ worker'.pc = "sending" <=> worker.pc = "sending"
  BY QuietQueues DEF ReceiveAnswer, IInv, QueueInv, Scalars, StaysSending
<1>2. Scalars'
  BY <1>1 DEF ReceiveAnswer, IInv, Scalars, queues, history, RecvStates, LockFree, CanLock
<1>3. AnswerInv' /\ FlightIsWatched'
  BY <1>1 DEF ReceiveAnswer, IInv, Scalars, queues, AnswerInv, FlightIsWatched, RecvStates, LockFree, CanLock
<1>4. BootInv' /\ PromiseInv'
  BY <1>1 DEF ReceiveAnswer, IInv, Scalars, queues, BootInv, PromiseInv, NoneBoot,
              BootQueued, BootInFlight, RecvStates, LockFree, CanLock
<1> QED  BY <1>1, <1>2, <1>3, <1>4 DEF IInv, QueueInv

LEMMA HandleBootResponseStep ==
  ASSUME IInv, fault = "none", NEW accepted \in BOOLEAN, HandleBootResponse(accepted)
  PROVE  IInv'
<1>1. /\ QueueInv' /\ worker' \in [pc : WorkerStates, at : Nat]
      /\ worker'.pc = "sending" <=> worker.pc = "sending"
  BY Woken, QuietQueues DEF HandleBootResponse, IInv, QueueInv, Scalars, StaysSending
<1>2. Scalars'
  BY <1>1 DEF HandleBootResponse, IInv, Scalars, queues, history, RecvStates, LockFree, CanLock
<1>3. AnswerInv' /\ FlightIsWatched'
  BY <1>1 DEF HandleBootResponse, IInv, Scalars, queues, AnswerInv, FlightIsWatched, RecvStates, LockFree, CanLock
<1>4. BootInv' /\ PromiseInv'
  <2>1. ~BootQueued /\ ~BootInFlight /\ ~timers.boot /\ ~flags.accepted
    BY DEF HandleBootResponse, IInv, BootInv, NoneBoot
  <2>2. ~BootQueued' /\ ~BootInFlight' /\ recv' # "boot" /\ timers'.boot = ~accepted
        /\ flags'.accepted = accepted
    BY <1>1, <2>1 DEF HandleBootResponse, IInv, Scalars, queues, BootQueued, BootInFlight
  <2>3. /\ \A i \in 1 .. Len(nq) : ~nq[i].promised
        /\ inFlight # None => ~inFlight.promised
    BY DEF HandleBootResponse, IInv, PromiseInv, NoneBoot
  <2>4. BootInv'
    BY <2>2 DEF BootInv, NoneBoot
  <2>5. PromiseInv'
    BY <2>3 DEF HandleBootResponse, PromiseInv, queues
  <2> QED  BY <2>4, <2>5
<1> QED  BY <1>1, <1>2, <1>3, <1>4 DEF IInv, QueueInv

LEMMA ReceiveCallStep ==
  ASSUME IInv, ReceiveCall
  PROVE  IInv'
<1>1. /\ QueueInv' /\ worker' \in [pc : WorkerStates, at : Nat]
      /\ worker'.pc = "sending" <=> worker.pc = "sending"
  BY QuietQueues DEF ReceiveCall, IInv, QueueInv, Scalars, StaysSending
<1>2. Scalars'
  BY <1>1 DEF ReceiveCall, IInv, Scalars, queues, history, RecvStates
<1>3. AnswerInv' /\ FlightIsWatched'
  BY <1>1 DEF ReceiveCall, IInv, Scalars, queues, AnswerInv, FlightIsWatched, RecvStates
<1>4. BootInv' /\ PromiseInv'
  BY <1>1 DEF ReceiveCall, IInv, Scalars, queues, BootInv, PromiseInv, NoneBoot,
              BootQueued, BootInFlight, RecvStates
<1> QED  BY <1>1, <1>2, <1>3, <1>4 DEF IInv, QueueInv

LEMMA PushCallResultStep ==
  ASSUME IInv, PushCallResult
  PROVE  IInv'
<1>1. /\ QueueInv' /\ worker' \in [pc : WorkerStates, at : Nat]
      /\ worker'.pc = "sending" <=> worker.pc = "sending"
  BY Woken, QuietQueues DEF PushCallResult, IInv, QueueInv, Scalars, StaysSending
<1>2. Scalars'
  BY <1>1 DEF PushCallResult, IInv, Scalars, queues, history, RecvStates
<1>3. AnswerInv' /\ FlightIsWatched'
  BY <1>1 DEF PushCallResult, IInv, Scalars, queues, AnswerInv, FlightIsWatched, RecvStates
<1>4. BootInv' /\ PromiseInv'
  BY <1>1 DEF PushCallResult, IInv, Scalars, queues, BootInv, PromiseInv, NoneBoot,
              BootQueued, BootInFlight, RecvStates
<1> QED  BY <1>1, <1>2, <1>3, <1>4 DEF IInv, QueueInv

LEMMA ConnectStep ==
  ASSUME IInv, Connect
  PROVE  IInv'
<1>1. /\ QueueInv' /\ worker' \in [pc : WorkerStates, at : Nat]
      /\ worker'.pc = "sending" <=> worker.pc = "sending"
  BY Woken, QuietQueues DEF Connect, IInv, QueueInv
<1>2. Scalars'
  BY <1>1 DEF Connect, IInv, Scalars, queues, history
<1>3. AnswerInv' /\ FlightIsWatched'
  BY <1>1 DEF Connect, IInv, Scalars, queues, AnswerInv, FlightIsWatched
<1>4. BootInv' /\ PromiseInv'
  BY <1>1 DEF Connect, IInv, Scalars, queues, BootInv, PromiseInv, NoneBoot,
              BootQueued, BootInFlight
<1> QED  BY <1>1, <1>2, <1>3, <1>4 DEF IInv, QueueInv

LEMMA DisconnectStep ==
  ASSUME IInv, Disconnect
  PROVE  IInv'
<1>1. /\ QueueInv' /\ worker' \in [pc : WorkerStates, at : Nat]
      /\ worker'.pc = "sending" <=> worker.pc = "sending"
  BY QuietQueues DEF Disconnect, IInv, QueueInv, Scalars, StaysSending
<1>2. Scalars'
  BY <1>1 DEF Disconnect, IInv, Scalars, queues, history
<1>3. AnswerInv' /\ FlightIsWatched'
  BY <1>1 DEF Disconnect, IInv, Scalars, queues, AnswerInv, FlightIsWatched
<1>4. BootInv' /\ PromiseInv'
  BY <1>1 DEF Disconnect, IInv, Scalars, queues, BootInv, PromiseInv, NoneBoot,
              BootQueued, BootInFlight
<1> QED  BY <1>1, <1>2, <1>3, <1>4 DEF IInv, QueueInv

LEMMA PauseStep ==
  ASSUME IInv, Pause
  PROVE  IInv'
<1>1. /\ QueueInv' /\ worker' \in [pc : WorkerStates, at : Nat]
      /\ worker'.pc = "sending" <=> worker.pc = "sending"
  BY Woken, QuietQueues DEF Pause, IInv, QueueInv
<1>2. Scalars'
  BY <1>1 DEF Pause, IInv, Scalars, queues, history
<1>3. AnswerInv' /\ FlightIsWatched'
  BY <1>1 DEF Pause, IInv, Scalars, queues, AnswerInv, FlightIsWatched
<1>4. BootInv' /\ PromiseInv'
  BY <1>1 DEF Pause, IInv, Scalars, queues, BootInv, PromiseInv, NoneBoot,
              BootQueued, BootInFlight
<1> QED  BY <1>1, <1>2, <1>3, <1>4 DEF IInv, QueueInv

(***************************************************************************)
(* Pushing a message.                                                      *)
(***************************************************************************)
LEMMA BootIsFirst ==
  ASSUME NormalInv, ~BootQueued
  PROVE  NoBoot(nq)
<1> SUFFICES ASSUME NEW i \in 1 .. Len(nq), nq[i].kind = "Boot"  PROVE FALSE
  BY DEF NoBoot
<1>1. i = 1 /\ nq \in Seq(Messages)
  BY DEF NormalInv, NormalOrdered
<1> QED  BY <1>1 DEF BootQueued

LEMMA EnqueueFacts ==
  ASSUME IInv, NEW n, NormalOrdered(n), NEW t, NEW p, TxOrdered(t, p, lastSent), Enqueue(n, t)
  PROVE  /\ worker' \in [pc : WorkerStates, at : Nat]
         /\ worker.pc # "sending" /\ worker'.pc # "sending" /\ recv # "result"
         /\ NormalInv' /\ TxOrdered(txq', p, lastSent) /\ txq' \subseteq t
         /\ \A m \in t : m.kind # "Update" => m \in txq'
         /\ BootQueued' => n # <<>> /\ n[1].kind = "Boot"
         /\ \A i \in 1 .. Len(nq') : nq'[i].promised => \E k \in 1 .. Len(n) : n[k].promised
<1>1. /\ worker' \in [pc : WorkerStates, at : Nat]
      /\ worker.pc # "sending" /\ worker'.pc # "sending" /\ recv # "result"
  BY Woken DEF Enqueue, IInv, CanLock, LockFree
<1>2. /\ NormalOrdered(nq') /\ TxOrdered(txq', p, lastSent) /\ txq' \subseteq t
      /\ \A m \in t : m.kind # "Update" => m \in txq'
      /\ \E d \in 0 .. Len(n) :
           /\ Len(nq') = Len(n) - d
           /\ \A i \in 1 .. Len(nq') : nq'[i] = n[i + d]
  BY Checked DEF Enqueue
<1>3. PICK d \in 0 .. Len(n) : /\ Len(nq') = Len(n) - d
                               /\ \A i \in 1 .. Len(nq') : nq'[i] = n[i + d]
  BY <1>2
<1>4. Len(n) \in Nat /\ Len(nq') \in Nat /\ n \in Seq(Messages) /\ nq' \in Seq(Messages)
  BY <1>2 DEF NormalOrdered
<1>5. \A i \in 1 .. Len(nq') : i + d \in 1 .. Len(n)
  BY <1>3, <1>4
<1>6. ASSUME BootQueued' PROVE n # <<>> /\ n[1].kind = "Boot"
  <2>1. 1 \in 1 .. Len(nq') /\ nq'[1].kind = "Boot"
    BY <1>4, <1>6 DEF BootQueued
  <2>2. 1 + d \in 1 .. Len(n) /\ n[1 + d].kind = "Boot"
    BY <1>3, <1>5, <2>1
  <2>3. 1 + d = 1
    BY <2>2 DEF NormalOrdered
  <2> QED  BY <1>4, <2>2, <2>3
<1>7. \A i \in 1 .. Len(nq') : nq'[i].promised => \E k \in 1 .. Len(n) : n[k].promised
  BY <1>3, <1>5
<1> QED  BY <1>1, <1>2, <1>6, <1>7 DEF NormalInv

LEMMA PushTxStep ==
  ASSUME IInv, PushTx
  PROVE  IInv'
<1> DEFINE kind == Script[pushed'].kind
           m == NewMessage(kind, pushed', ~flags.accepted /\ ~Script[pushed'].triggered)
           t == PushBack(txq, m)
<1>1. /\ pushed \in Nat /\ pushed' = pushed + 1 /\ pushed' \in 1 .. Len(Script)
      /\ lastSent \in 0 .. pushed /\ lastSent' = lastSent
  BY MessageQueueAssumption DEF PushTx, Enqueue, IInv, Scalars, MessageQueueAssumption
<1>2. kind \in TxKinds
  <2> DEFINE R == [kind : {"Event", "Update"}, triggered : BOOLEAN]
  <2>1. Script \in Seq(R)
    BY MessageQueueAssumption DEF MessageQueueAssumption
  <2>2. Script[pushed'] \in R
    BY <1>1, <2>1, ElementOfSeq
  <2> QED  BY <2>2 DEF TxKinds
<1>3. m \in Messages /\ m.kind = kind /\ m.seq = pushed + 1 /\ ~m.promised
  BY <1>1, <1>2, MessageQueueAssumption
     DEF MessageQueueAssumption, NewMessage, Messages, Kinds
<1>4. IsTx(m)
  BY <1>2, <1>3 DEF IsTx
<1>5. Enqueue(nq, t) /\ owed' \subseteq owed \cup {pushed'} /\ UNCHANGED timers
  BY DEF PushTx
<1> HIDE DEF m
<1>6. TxOrdered(t, pushed', lastSent)
  BY <1>1, <1>3, <1>4, PushBackOrdered DEF IInv, TxInv
<1>7. \A x \in t : x \in txq \/ x.seq = pushed + 1
  BY <1>3 DEF PushBack, Messages
<1> HIDE DEF t, kind
<1>8. /\ worker' \in [pc : WorkerStates, at : Nat]
      /\ worker.pc # "sending" /\ worker'.pc # "sending" /\ recv # "result"
      /\ NormalInv' /\ TxOrdered(txq', pushed', lastSent) /\ txq' \subseteq t
      /\ BootQueued' => BootQueued
      /\ \A i \in 1 .. Len(nq') : nq'[i].promised => \E k \in 1 .. Len(nq) : nq[k].promised
  BY <1>5, <1>6, EnqueueFacts DEF IInv, NormalInv, BootQueued
<1>9. UNCHANGED <<inFlight, recv, expired, online, lastSent, fault, timers>>
      /\ flags' = [flags EXCEPT !.newMessage = TRUE]
  BY <1>5 DEF Enqueue
<1>10. Scalars'
  <2>1. owed' \subseteq 1 .. pushed' /\ lastSent' \in 0 .. pushed'
    BY <1>1, <1>5, <1>9 DEF IInv, Scalars
  <2>2. pushed' \in 0 .. Len(Script)
    BY <1>1, MessageQueueAssumption DEF MessageQueueAssumption
  <2> QED  BY <1>8, <1>9, <2>1, <2>2 DEF IInv, Scalars
<1>11. TxInv' /\ SendInv'
  BY <1>8, <1>9 DEF TxInv, SendInv
<1>12. FlightInv'
  <2>1. /\ inFlight # None /\ IsTx(inFlight) =>
             /\ inFlight.seq \in 1 .. pushed /\ lastSent <= inFlight.seq /\ ~inFlight.promised
             /\ \A x \in txq : inFlight.seq < x.seq
        /\ inFlight # None /\ ~IsTx(inFlight) => ~inFlight.stall
    BY <1>8 DEF IInv, FlightInv
  <2>2. inFlight # None /\ IsTx(inFlight) => \A x \in txq' : inFlight.seq < x.seq
    BY <1>1, <1>7, <1>8, <2>1
  <2> QED  BY <1>1, <1>9, <2>1, <2>2 DEF FlightInv
<1>13. AnswerInv' /\ FlightIsWatched'
  BY <1>8, <1>9 DEF IInv, AnswerInv, FlightIsWatched
<1>14. BootInv' /\ PromiseInv'
  BY <1>8, <1>9 DEF IInv, Scalars, BootInv, PromiseInv, NoneBoot, BootInFlight
<1> QED  BY <1>8, <1>10, <1>11, <1>12, <1>13, <1>14 DEF IInv

LEMMA PushNormalStep ==
  ASSUME IInv, NEW triggered \in BOOLEAN, PushNormal(triggered)
  PROVE  IInv'
<1> DEFINE m == NewMessage("Normal", 0, FALSE)
           n == Append(nq, m)
<1>1. m \in Messages /\ m.kind = "Normal" /\ ~m.stall /\ m.due /\ ~m.promised
  BY MessageQueueAssumption DEF MessageQueueAssumption, NewMessage, Messages, Kinds
<1>2. Normal(m) /\ m.kind # "Boot"
  BY <1>1 DEF Normal, IsTx, TxKinds
<1>3. Enqueue(n, txq) /\ UNCHANGED <<timers, pushed, owed>>
  BY DEF PushNormal
<1> HIDE DEF m
<1>4. /\ NormalOrdered(n) /\ Len(n) = Len(nq) + 1 /\ Len(nq) \in Nat
      /\ \A i \in 1 .. Len(nq) : n[i] = nq[i]
      /\ n[Len(nq) + 1] = m
  BY <1>1, <1>2, AppendOrdered DEF IInv, NormalInv, NormalOrdered
<1> HIDE DEF n
<1>5. n[1].kind = "Boot" => BootQueued
  <2>1. CASE Len(nq) = 0
    BY <1>2, <1>4, <2>1
  <2>2. CASE Len(nq) > 0
    BY <1>4, <2>2 DEF BootQueued
  <2> QED  BY <1>4, <2>1, <2>2
<1>6. \A k \in 1 .. Len(n) : n[k].promised => \E i \in 1 .. Len(nq) : nq[i].promised
  BY <1>1, <1>4
<1>7. /\ worker' \in [pc : WorkerStates, at : Nat]
      /\ worker.pc # "sending" /\ worker'.pc # "sending" /\ recv # "result"
      /\ NormalInv' /\ TxOrdered(txq', pushed, lastSent) /\ txq' \subseteq txq
      /\ BootQueued' => n # <<>> /\ n[1].kind = "Boot"
      /\ \A i \in 1 .. Len(nq') : nq'[i].promised => \E k \in 1 .. Len(n) : n[k].promised
  BY <1>3, <1>4, EnqueueFacts DEF IInv, TxInv
<1>8. UNCHANGED <<inFlight, recv, expired, online, lastSent, fault, timers, pushed, owed>>
      /\ flags' = [flags EXCEPT !.newMessage = TRUE]
  BY <1>3 DEF Enqueue
<1>9. Scalars'
  BY <1>7, <1>8 DEF IInv, Scalars
<1>10. TxInv' /\ SendInv' /\ FlightInv'
  BY <1>7, <1>8 DEF IInv, TxInv, SendInv, FlightInv
<1>11. AnswerInv' /\ FlightIsWatched'
  BY <1>7, <1>8 DEF IInv, AnswerInv, FlightIsWatched
<1>12. BootInv' /\ PromiseInv'
  BY <1>5, <1>6, <1>7, <1>8 DEF IInv, Scalars, BootInv, PromiseInv, NoneBoot, BootInFlight
<1> QED  BY <1>7, <1>9, <1>10, <1>11, <1>12 DEF IInv

LEMMA BootTimerStep ==
  ASSUME IInv, BootTimerFires
  PROVE  IInv'
<1> DEFINE m == NewMessage("Boot", 0, FALSE)
           n == <<m>> \o nq
<1>1. m \in Messages /\ m.kind = "Boot" /\ ~m.stall /\ m.due /\ ~m.promised
  BY MessageQueueAssumption DEF MessageQueueAssumption, NewMessage, Messages, Kinds
<1>2. Normal(m)
  BY <1>1 DEF Normal, IsTx, TxKinds
<1>3. /\ timers.boot /\ timers' = [timers EXCEPT !.boot = FALSE]
      /\ Enqueue(n, txq) /\ UNCHANGED <<pushed, owed>>
  BY DEF BootTimerFires
<1>4. ~BootQueued /\ ~BootInFlight /\ recv # "boot" /\ ~flags.accepted
  BY <1>3 DEF IInv, BootInv, NoneBoot
<1>5. NoBoot(nq) /\ NormalOrdered(nq) /\ Len(nq) \in Nat
  BY <1>4, BootIsFirst DEF IInv, NormalInv, NormalOrdered
<1> HIDE DEF m
<1>6. /\ NormalOrdered(n) /\ Len(n) = Len(nq) + 1
      /\ n[1] = m /\ \A i \in 2 .. Len(nq) + 1 : n[i] = nq[i - 1]
  BY <1>1, <1>2, <1>5, PrependOrdered
<1> HIDE DEF n
<1>7. ~\E i \in 1 .. Len(nq) : nq[i].promised
  BY <1>3 DEF IInv, PromiseInv, NoneBoot
<1>8. \A k \in 1 .. Len(n) : ~n[k].promised
  <2> TAKE k \in 1 .. Len(n)
  <2>1. CASE k = 1
    BY <1>1, <1>6, <2>1
  <2>2. CASE k # 1
    <3>1. k \in 2 .. Len(nq) + 1 /\ k - 1 \in 1 .. Len(nq)
      BY <1>5, <1>6, <2>2
    <3> QED  BY <1>6, <1>7, <3>1
  <2> QED  BY <2>1, <2>2
<1>9. /\ worker' \in [pc : WorkerStates, at : Nat]
      /\ worker.pc # "sending" /\ worker'.pc # "sending" /\ recv # "result"
      /\ NormalInv' /\ TxOrdered(txq', pushed, lastSent) /\ txq' \subseteq txq
      /\ \A i \in 1 .. Len(nq') : nq'[i].promised => \E k \in 1 .. Len(n) : n[k].promised
  BY <1>3, <1>6, EnqueueFacts DEF IInv, TxInv
<1>10. UNCHANGED <<inFlight, recv, expired, online, lastSent, fault, pushed, owed>>
      /\ flags' = [flags EXCEPT !.newMessage = TRUE]
  BY <1>3 DEF Enqueue
<1>11. Scalars'
  BY <1>3, <1>9, <1>10 DEF IInv, Scalars
<1>12. TxInv' /\ SendInv' /\ FlightInv'
  BY <1>9, <1>10 DEF IInv, TxInv, SendInv, FlightInv
<1>13. AnswerInv' /\ FlightIsWatched'
  BY <1>3, <1>9, <1>10 DEF IInv, Scalars, AnswerInv, FlightIsWatched
<1>14. BootInv' /\ PromiseInv'
  BY <1>3, <1>4, <1>8, <1>9, <1>10
     DEF IInv, Scalars, BootInv, PromiseInv, NoneBoot, BootInFlight
<1> QED  BY <1>9, <1>11, <1>12, <1>13, <1>14 DEF IInv

(***************************************************************************)
(* The worker.                                                             *)
(***************************************************************************)
LEMMA NoneIsNoMessage == \A m \in Messages : m # None
BY DEF Messages, Kinds, TxKinds, None

LEMMA FirstSendableIsFirst ==
  ASSUME NormalInv, Sendable # {}
  PROVE  FirstSendable \in Sendable /\ \A k \in Sendable : FirstSendable <= k
<1>1. Sendable \subseteq Nat
  BY DEF Sendable, NormalInv, NormalOrdered
<1> QED  BY <1>1, Least DEF FirstSendable

LEMMA AttemptedType ==
  ASSUME NEW m \in Messages
  PROVE  /\ Attempted(m) \in Messages
         /\ Attempted(m).pos = m.pos /\ Attempted(m).seq = m.seq
         /\ Attempted(m).kind = m.kind /\ Attempted(m).promised = m.promised
         /\ Attempted(m).due = m.due
         /\ ~IsTx(m) => Attempted(m) = m
BY MessageQueueAssumption DEF MessageQueueAssumption, Attempted, Messages

LEMMA WorkerTakesStep ==
  ASSUME IInv, WorkerTakes
  PROVE  IInv'
<1>1. /\ inFlight = None /\ recv # "result" /\ worker.pc # "sending"
      /\ Sendable # {} \/ TakesTx
      /\ UNCHANGED <<flags, recv, timers, expired, online, history, fault>>
  BY DEF WorkerTakes, CanLock, LockFree, Idle, Nothing
<1>2. CASE TakesTx
  <2> DEFINE m == Front(txq)
             e == Attempted(m)
  <2>1. /\ inFlight' = e /\ txq' = (txq \ {m}) \cup {e} /\ UNCHANGED nq
        /\ worker' = [pc |-> "sending", at |-> 0]
    BY <1>2 DEF WorkerTakes
  <2>2. txq # {} /\ AllowedToSend(m)
    BY <1>2 DEF TakesTx
  <2>3. pushed \in Nat /\ TxOrdered(txq, pushed, lastSent)
    BY MessageQueueAssumption DEF MessageQueueAssumption, IInv, Scalars, TxInv
  <2>4. m \in txq /\ \A x \in txq : m.pos <= x.pos
    BY <2>2, <2>3, OrderedEnds
  <2> HIDE DEF m
  <2>5. m \in Messages /\ m.due /\ IsTx(m) /\ ~m.promised
        /\ m.seq \in 1 .. pushed /\ lastSent <= m.seq
    BY <2>2, <2>3, <2>4 DEF AllowedToSend, TxOrdered
  <2>6. /\ e \in Messages /\ e.pos = m.pos /\ e.seq = m.seq /\ e.kind = m.kind
        /\ e.promised = m.promised /\ e.due = m.due /\ e # None
    BY <2>5, AttemptedType, NoneIsNoMessage
  <2> HIDE DEF e
  <2>7. TxOrdered(txq', pushed, lastSent)
    BY <2>1, <2>3, <2>4, <2>6, ReplaceOrdered
  <2>8. Scalars'
    BY <1>1, <2>1, <2>6 DEF IInv, Scalars, history, WorkerStates
  <2>9. TxInv' /\ NormalInv'
    BY <1>1, <2>1, <2>7 DEF IInv, TxInv, NormalInv, history
  <2>10. FlightInv'
    BY <1>1, <2>1, <2>5, <2>6 DEF FlightInv, history, IsTx
  <2>11. SendInv'
    BY <2>1, <2>4, <2>5, <2>6 DEF SendInv
  <2>12. AnswerInv' /\ FlightIsWatched'
    BY <1>1, <2>1, <2>6 DEF AnswerInv, FlightIsWatched
  <2>13. BootInv' /\ PromiseInv'
    BY <1>1, <2>1, <2>5, <2>6
       DEF IInv, BootInv, PromiseInv, NoneBoot, BootQueued, BootInFlight
  <2> QED  BY <2>8, <2>9, <2>10, <2>11, <2>12, <2>13 DEF IInv
<1>3. CASE ~TakesTx
  <2> DEFINE k == FirstSendable
             m == nq[k]
  <2>1. /\ inFlight' = Attempted(m) /\ nq' = [nq EXCEPT ![k] = Attempted(nq[k])]
        /\ worker' = [pc |-> "sending", at |-> k] /\ UNCHANGED txq
    BY <1>3 DEF WorkerTakes
  <2>2. NormalOrdered(nq) /\ nq \in Seq(Messages) /\ DOMAIN nq = 1 .. Len(nq)
        /\ Len(nq) \in Nat
    BY DEF IInv, NormalInv, NormalOrdered
  <2>3. k \in Sendable /\ \A i \in Sendable : k <= i
    BY <1>1, <1>3, FirstSendableIsFirst DEF IInv
  <2> HIDE DEF k
  <2>4. k \in 1 .. Len(nq) /\ m.due
    BY <2>2, <2>3 DEF Sendable, AllowedToSend
  <2>5. m \in Messages /\ Normal(m) /\ m # None
    BY <2>2, <2>4, NoneIsNoMessage DEF NormalOrdered
  <2>6. Attempted(m) = m
    BY <2>5, AttemptedType DEF Normal
  <2>7. nq' = nq /\ inFlight' = nq[k]
    <3>1. nq' = [nq EXCEPT ![k] = nq[k]]
      BY <2>1, <2>6
    <3> QED  BY <2>1, <2>2, <2>4, <2>6, <3>1
  <2>8. k > 1 => nq[1].kind = "Boot"
    <3> SUFFICES ASSUME k > 1  PROVE nq[1].kind = "Boot"
      OBVIOUS
    <3>1. 1 \in 1 .. Len(nq) /\ 1 \notin Sendable
      BY <2>2, <2>3, <2>4
    <3>2. ~AllowedToSend(nq[1])
      BY <2>2, <3>1 DEF Sendable
    <3>3. Normal(nq[1])
      BY <2>2, <3>1 DEF NormalOrdered
    <3> QED  BY <3>2, <3>3 DEF AllowedToSend, Normal
  <2>9. Scalars'
    BY <1>1, <2>1, <2>4, <2>5, <2>6 DEF IInv, Scalars, history, WorkerStates
  <2>10. TxInv' /\ NormalInv'
    BY <1>1, <2>1, <2>7 DEF IInv, TxInv, NormalInv, history
  <2>11. FlightInv'
    BY <2>5, <2>7 DEF FlightInv, Normal
  <2>12. SendInv'
    BY <2>1, <2>4, <2>5, <2>7, <2>8 DEF SendInv
  <2>13. AnswerInv' /\ FlightIsWatched'
    BY <1>1, <2>1, <2>5, <2>7 DEF AnswerInv, FlightIsWatched
  <2>14. BootInv' /\ PromiseInv'
    BY <1>1, <2>1, <2>4, <2>7
       DEF IInv, BootInv, PromiseInv, NoneBoot, BootQueued, BootInFlight
  <2> QED  BY <2>9, <2>10, <2>11, <2>12, <2>13, <2>14 DEF IInv
<1> QED  BY <1>2, <1>3

LEMMA SendSucceedsStep ==
  ASSUME IInv, SendSucceeds
  PROVE  IInv'
<1>1. /\ worker.pc = "sending" /\ inFlight # None /\ inFlight \in Messages /\ recv # "result"
      /\ worker' \in [pc : WorkerStates, at : Nat] /\ worker'.pc # "sending"
      /\ timers' = [timers EXCEPT !.flight = TRUE] /\ worker.at \in Nat
      /\ UNCHANGED <<inFlight, recv, expired, online, pushed, fault>>
      /\ flags'.accepted = flags.accepted /\ WentOut(inFlight)
      /\ flags' \in [paused : BOOLEAN, running : BOOLEAN,
                     newMessage : BOOLEAN, accepted : BOOLEAN]
  BY LoopType DEF SendSucceeds, IInv, Scalars, SendInv, AnswerInv
<1>2. AnswerInv' /\ FlightIsWatched'
  BY <1>1 DEF IInv, Scalars, AnswerInv, FlightIsWatched
<1>3. SendInv'
  BY <1>1 DEF SendInv
<1>4. CASE worker.at = 0
  <2>1. txq' = txq \ {Front(txq)} /\ UNCHANGED nq
    BY <1>4 DEF SendSucceeds
  <2>2. inFlight \in txq /\ \A m \in txq : inFlight.pos <= m.pos
    BY <1>1, <1>4 DEF IInv, SendInv
  <2>3. TxOrdered(txq, pushed, lastSent)
    BY DEF IInv, TxInv
  <2>4. /\ TxOrdered(txq \ {inFlight}, pushed, inFlight.seq) /\ inFlight = Front(txq)
        /\ \A x \in txq \ {inFlight} : inFlight.seq < x.seq
    BY <2>2, <2>3, SentOrdered
  <2>5. IsTx(inFlight) /\ inFlight.seq \in 1 .. pushed /\ ~inFlight.promised
    BY <2>2, <2>3 DEF TxOrdered
  <2>6. owed' \subseteq owed /\ lastSent' = inFlight.seq
    BY <1>1, <2>5 DEF WentOut
  <2>7. Scalars'
    <3>1. owed' \subseteq 1 .. pushed' /\ lastSent' \in 0 .. pushed'
      BY <1>1, <2>5, <2>6 DEF IInv, Scalars
    <3> QED  BY <1>1, <3>1 DEF IInv, Scalars
  <2>8. TxInv' /\ NormalInv'
    BY <1>1, <2>1, <2>4, <2>6 DEF IInv, TxInv, NormalInv
  <2>9. FlightInv'
    BY <1>1, <2>1, <2>4, <2>5, <2>6 DEF FlightInv
  <2>10. BootInv' /\ PromiseInv'
    <3>1. inFlight.kind # "Boot"
      BY <2>5 DEF IsTx, TxKinds
    <3> QED  BY <1>1, <2>1, <2>5, <3>1
             DEF IInv, Scalars, BootInv, PromiseInv, NoneBoot, BootQueued, BootInFlight
  <2> QED  BY <1>2, <1>3, <2>7, <2>8, <2>9, <2>10 DEF IInv
<1>5. CASE worker.at # 0
  <2> DEFINE k == worker.at
  <2>1. nq' = RemoveFrom(nq, k) /\ UNCHANGED txq
    BY <1>5 DEF SendSucceeds
  <2>2. /\ k \in 1 .. Len(nq) /\ inFlight = nq[k] /\ NormalOrdered(nq)
        /\ Len(nq) \in Nat /\ nq \in Seq(Messages)
    BY <1>1, <1>5 DEF IInv, SendInv, NormalInv, NormalOrdered
  <2> HIDE DEF k
  <2>3. /\ NormalOrdered(nq') /\ Len(nq') = Len(nq) - 1
        /\ \A i \in 1 .. Len(nq') : nq'[i] = IF i < k THEN nq[i] ELSE nq[i + 1]
    BY <2>1, <2>2, RemoveOrdered
  <2>4. Normal(inFlight) /\ (inFlight.kind = "Boot" => k = 1)
    BY <2>2 DEF NormalOrdered
  <2>5. UNCHANGED <<owed, lastSent>>
    BY <1>1, <2>4 DEF WentOut, Normal
  <2>6. Scalars'
    BY <1>1, <2>5 DEF IInv, Scalars
  <2>7. TxInv' /\ NormalInv' /\ FlightInv'
    BY <1>1, <2>1, <2>3, <2>4, <2>5 DEF IInv, TxInv, NormalInv, FlightInv, Normal
  <2>8. BootQueued' => BootQueued /\ k > 1
    <3> SUFFICES ASSUME BootQueued' PROVE BootQueued /\ k > 1
      OBVIOUS
    <3>1. nq' \in Seq(Messages) /\ 1 \in 1 .. Len(nq') /\ nq'[1].kind = "Boot"
      BY <2>3 DEF BootQueued, NormalOrdered
    <3>2. CASE k = 1
      <4>1. nq[2].kind = "Boot" /\ 2 \in 1 .. Len(nq)
        BY <2>2, <2>3, <3>1, <3>2
      <4> QED  BY <2>2, <4>1 DEF NormalOrdered
    <3>3. CASE k > 1
      BY <2>2, <2>3, <3>1, <3>3 DEF BootQueued
    <3> QED  BY <2>2, <3>2, <3>3
  <2>9. BootInFlight' => BootQueued /\ k = 1
    BY <1>1, <2>2, <2>4 DEF BootInFlight, BootQueued
  <2>10. BootInv'
    BY <1>1, <2>8, <2>9 DEF IInv, Scalars, BootInv, NoneBoot
  <2>11. \A i \in 1 .. Len(nq') : nq'[i].promised => \E j \in 1 .. Len(nq) : nq[j].promised
    <3> SUFFICES ASSUME NEW i \in 1 .. Len(nq'), nq'[i].promised
                 PROVE  \E j \in 1 .. Len(nq) : nq[j].promised
      OBVIOUS
    <3>1. i \in 1 .. Len(nq) /\ i + 1 \in 1 .. Len(nq)
      BY <2>2, <2>3
    <3> QED  BY <2>3, <3>1
  <2>12. PromiseInv'
    BY <1>1, <2>8, <2>9, <2>11 DEF IInv, Scalars, PromiseInv, NoneBoot
  <2> QED  BY <1>2, <1>3, <2>6, <2>7, <2>10, <2>12 DEF IInv
<1> QED  BY <1>4, <1>5

LEMMA SendFailsStep ==
  ASSUME IInv, fault = "none", NEW delivered \in BOOLEAN, SendFails(delivered)
  PROVE  IInv'
<1>1. /\ worker.pc = "sending" /\ inFlight # None /\ inFlight \in Messages /\ recv # "result"
      /\ worker' \in [pc : WorkerStates, at : Nat] /\ worker'.pc # "sending"
      /\ timers' = [timers EXCEPT !.flight = FALSE] /\ worker.at \in Nat
      /\ inFlight' = None
      /\ UNCHANGED <<txq, recv, expired, online, pushed>>
      /\ flags'.accepted = flags.accepted
      /\ WentOut(inFlight) \/ UNCHANGED <<owed, lastSent>>
      /\ flags' \in [paused : BOOLEAN, running : BOOLEAN,
                     newMessage : BOOLEAN, accepted : BOOLEAN]
  BY LoopType DEF SendFails, IInv, Scalars, SendInv, AnswerInv
<1>2. AnswerInv' /\ FlightIsWatched' /\ SendInv' /\ FlightInv' /\ ~BootInFlight'
  BY <1>1 DEF IInv, Scalars, AnswerInv, FlightIsWatched, SendInv, FlightInv, BootInFlight
<1>3. CASE worker.at = 0
  <2>1. UNCHANGED <<nq, fault>>
    BY <1>3 DEF SendFails
  <2>2. inFlight \in txq /\ \A m \in txq : inFlight.pos <= m.pos
    BY <1>1, <1>3 DEF IInv, SendInv
  <2>3. TxOrdered(txq, pushed, lastSent)
    BY DEF IInv, TxInv
  <2>4. TxOrdered(txq, pushed, inFlight.seq)
    BY <2>2, <2>3, SentOrdered
  <2>5. IsTx(inFlight) /\ inFlight.seq \in 1 .. pushed
    BY <2>2, <2>3 DEF TxOrdered
  <2>6. owed' \subseteq owed /\ lastSent' \in {lastSent, inFlight.seq}
    BY <1>1, <2>5 DEF WentOut
  <2>7. Scalars'
    <3>1. owed' \subseteq 1 .. pushed' /\ lastSent' \in 0 .. pushed'
      BY <1>1, <2>5, <2>6 DEF IInv, Scalars
    <3> QED  BY <1>1, <2>1, <3>1 DEF IInv, Scalars
  <2>8. TxInv' /\ NormalInv'
    BY <1>1, <2>1, <2>3, <2>4, <2>6 DEF IInv, TxInv, NormalInv
  <2>9. BootInv' /\ PromiseInv'
    BY <1>1, <1>2, <2>1 DEF IInv, Scalars, BootInv, PromiseInv, NoneBoot, BootQueued
  <2> QED  BY <1>2, <2>7, <2>8, <2>9 DEF IInv
<1>4. CASE worker.at # 0
  <2> DEFINE k == worker.at
             m == [nq[k] EXCEPT !.promised = TRUE]
             n == [nq EXCEPT ![k] = m]
  <2>1. nq' = Tail(n) /\ fault' = IF inFlight.promised THEN "promise" ELSE fault
    BY <1>4 DEF SendFails, SetPromise
  <2>2. /\ k \in 1 .. Len(nq) /\ inFlight = nq[k] /\ NormalOrdered(nq)
        /\ Len(nq) \in Nat /\ nq \in Seq(Messages) /\ (k > 1 => nq[1].kind = "Boot")
    BY <1>1, <1>4 DEF IInv, SendInv, NormalInv, NormalOrdered
  <2> HIDE DEF k
  <2>3. Normal(nq[k]) /\ nq[k] \in Messages
    BY <2>2 DEF NormalOrdered
  <2>4. m \in Messages /\ m.kind = nq[k].kind /\ Normal(m)
    BY <2>3 DEF Messages, Normal, IsTx
  <2> HIDE DEF m
  <2>5. /\ NormalOrdered(n) /\ Len(n) = Len(nq)
        /\ \A i \in 1 .. Len(nq) : n[i] = IF i = k THEN m ELSE nq[i]
    BY <2>2, <2>4, ExceptOrdered
  <2>6. n # <<>>
    BY <2>2, <2>5
  <2> HIDE DEF n
  <2>7. /\ NormalOrdered(nq') /\ NoBoot(nq') /\ Len(nq') = Len(nq) - 1
        /\ \A i \in 1 .. Len(nq') : nq'[i] = n[i + 1]
    BY <2>1, <2>5, <2>6, TailOrdered
  <2>8. UNCHANGED <<owed, lastSent>>
    BY <1>1, <2>2, <2>3 DEF WentOut, Normal
  <2>9. Scalars'
    BY <1>1, <2>1, <2>8 DEF IInv, Scalars
  <2>10. TxInv' /\ NormalInv'
    BY <1>1, <2>7, <2>8 DEF IInv, TxInv, NormalInv
  <2>11. ~BootQueued'
    <3>1. Len(nq') \in Nat /\ (nq' # <<>> => 1 \in 1 .. Len(nq'))
      BY <2>7 DEF NormalOrdered
    <3> QED  BY <2>7, <3>1 DEF BootQueued, NoBoot
  <2>12. BootInv'
    BY <1>1, <1>2, <2>11 DEF IInv, Scalars, BootInv, NoneBoot
  <2>13. \A i \in 1 .. Len(nq') : nq'[i].promised => NoneBoot' /\ ~flags'.accepted
    <3> SUFFICES ASSUME NEW i \in 1 .. Len(nq'), nq'[i].promised
                 PROVE  recv # "boot" /\ ~timers.boot /\ ~flags.accepted
      BY <1>1, <1>2, <2>11 DEF IInv, Scalars, NoneBoot
    <3>1. i + 1 \in 1 .. Len(nq) /\ nq'[i] = n[i + 1]
      BY <2>2, <2>7
    <3>2. CASE i + 1 = k
      <4>1. BootQueued
        BY <2>2, <3>2 DEF BootQueued
      <4> QED  BY <4>1 DEF IInv, BootInv, NoneBoot
    <3>3. CASE i + 1 # k
      <4>1. nq[i + 1].promised
        BY <2>5, <3>1, <3>3
      <4> QED  BY <3>1, <4>1 DEF IInv, PromiseInv, NoneBoot
    <3> QED  BY <3>2, <3>3
  <2>14. PromiseInv'
    BY <1>1, <2>1, <2>13 DEF IInv, PromiseInv
  <2> QED  BY <1>2, <2>9, <2>10, <2>12, <2>14 DEF IInv
<1> QED  BY <1>3, <1>4

(***************************************************************************)
(* Timeouts, answers and time.                                             *)
(***************************************************************************)
LEMMA HandleTimeoutOrCallerrorStep ==
  ASSUME IInv, fault = "none", worker.pc # "sending", recv \in RecvStates \ {"result"},
         HandleTimeoutOrCallerror, recv' \in {recv, "idle"}, expired' \in BOOLEAN
  PROVE  IInv'
<1>1. /\ worker' \in [pc : WorkerStates, at : Nat] /\ worker'.pc # "sending"
      /\ inFlight' = None
      /\ UNCHANGED <<flags, online, pushed, owed, lastSent>>
  BY Woken DEF HandleTimeoutOrCallerror, IInv, history
<1>2. FlightInv' /\ SendInv' /\ AnswerInv' /\ ~BootInFlight'
  BY <1>1 DEF FlightInv, SendInv, AnswerInv, BootInFlight
<1>3. CASE inFlight = None
  <2>1. fault' = "null" /\ UNCHANGED <<txq, nq, timers>>
    BY <1>3 DEF HandleTimeoutOrCallerror
  <2>2. Scalars' /\ TxInv' /\ NormalInv' /\ FlightIsWatched'
    BY <1>1, <1>3, <2>1 DEF IInv, Scalars, RecvStates, TxInv, NormalInv, FlightIsWatched
  <2>3. BootInv' /\ PromiseInv'
    BY <1>1, <1>2, <1>3, <2>1 DEF IInv, BootInv, PromiseInv, NoneBoot, BootQueued, BootInFlight
  <2> QED  BY <1>2, <2>2, <2>3 DEF IInv
<1>4. CASE inFlight # None /\ GiveUp(inFlight)
  <2>1. /\ timers' = [timers EXCEPT !.flight = FALSE] /\ UNCHANGED <<txq, nq>>
        /\ fault' = IF inFlight.promised THEN "promise" ELSE fault
    BY <1>4 DEF GiveUp, SetPromise
  <2>2. Scalars' /\ TxInv' /\ NormalInv' /\ FlightIsWatched'
    BY <1>1, <2>1 DEF IInv, Scalars, RecvStates, TxInv, NormalInv, FlightIsWatched
  <2>3. BootInv' /\ PromiseInv'
    BY <1>1, <1>2, <1>4, <2>1
       DEF IInv, Scalars, BootInv, PromiseInv, NoneBoot, BootQueued
  <2> QED  BY <1>2, <2>2, <2>3 DEF IInv
<1>5. CASE inFlight # None /\ (IsTx(inFlight) \/ inFlight.kind = "Boot") /\ Retry(inFlight)
  <2>1. PICK due \in BOOLEAN :
          LET again == [inFlight EXCEPT !.due = due]
          IN  /\ IF IsTx(inFlight) THEN txq' = PushFront(txq, again) /\ UNCHANGED nq
                                   ELSE nq' = <<again>> \o nq /\ UNCHANGED txq
              /\ timers' = [timers EXCEPT !.flight = FALSE, !.notify = TRUE]
              /\ UNCHANGED fault
    BY <1>5 DEF Retry
  <2> DEFINE again == [inFlight EXCEPT !.due = due]
  <2>2. /\ timers' = [timers EXCEPT !.flight = FALSE, !.notify = TRUE] /\ UNCHANGED fault
        /\ IsTx(inFlight) => txq' = PushFront(txq, again) /\ UNCHANGED nq
        /\ ~IsTx(inFlight) => nq' = <<again>> \o nq /\ UNCHANGED txq
    BY <2>1
  <2>3. inFlight \in Messages
    BY <1>5 DEF IInv, Scalars
  <2>4. /\ again \in Messages /\ again.kind = inFlight.kind /\ again.seq = inFlight.seq
        /\ again.promised = inFlight.promised /\ again.stall = inFlight.stall
    BY <2>3 DEF Messages
  <2> HIDE DEF again
  <2>5. Scalars' /\ FlightIsWatched'
    BY <1>1, <2>2 DEF IInv, Scalars, RecvStates, FlightIsWatched
  <2>6. CASE IsTx(inFlight)
    <3>1. /\ inFlight.seq \in 1 .. pushed /\ lastSent <= inFlight.seq /\ ~inFlight.promised
          /\ \A m \in txq : inFlight.seq < m.seq
      BY <1>5, <2>6 DEF IInv, FlightInv
    <3>2. IsTx(again) /\ pushed \in Nat /\ lastSent \in 0 .. pushed
      BY <2>4, <2>6, MessageQueueAssumption
         DEF MessageQueueAssumption, IsTx, IInv, Scalars
    <3>3. TxOrdered(PushFront(txq, again), pushed, lastSent)
      BY <2>4, <3>1, <3>2, PushFrontOrdered DEF IInv, TxInv
    <3>4. TxInv' /\ NormalInv'
      BY <1>1, <2>2, <2>6, <3>3 DEF IInv, TxInv, NormalInv
    <3>5. BootInv' /\ PromiseInv'
      BY <1>1, <1>2, <2>2, <2>6
         DEF IInv, Scalars, BootInv, PromiseInv, NoneBoot, BootQueued
    <3> QED  BY <1>2, <2>5, <3>4, <3>5 DEF IInv
  <2>7. CASE ~IsTx(inFlight)
    <3>1. BootInFlight
      BY <1>5, <2>7 DEF BootInFlight
    <3>2. ~BootQueued /\ recv # "boot" /\ ~timers.boot /\ ~flags.accepted
      BY <3>1 DEF IInv, BootInv, NoneBoot
    <3>3. NoBoot(nq) /\ NormalOrdered(nq) /\ Len(nq) \in Nat
      BY <3>2, BootIsFirst DEF IInv, NormalInv, NormalOrdered
    <3>4. Normal(again)
      BY <1>5, <2>4, <2>7 DEF IInv, FlightInv, Normal, IsTx
    <3>5. /\ NormalOrdered(nq') /\ Len(nq') = Len(nq) + 1
          /\ nq'[1] = again /\ \A i \in 2 .. Len(nq) + 1 : nq'[i] = nq[i - 1]
      <4> DEFINE r == <<again>> \o nq
      <4>1. /\ NormalOrdered(r) /\ Len(r) = Len(nq) + 1
            /\ r[1] = again /\ \A i \in 2 .. Len(nq) + 1 : r[i] = nq[i - 1]
        BY <2>4, <3>3, <3>4, PrependOrdered
      <4>2. nq' = r
        BY <2>2, <2>7
      <4> HIDE DEF r
      <4> QED  BY <4>1, <4>2
    <3>6. ~inFlight.promised /\ \A i \in 1 .. Len(nq) : ~nq[i].promised
      BY <1>5, <3>1 DEF IInv, PromiseInv, NoneBoot
    <3>7. \A i \in 1 .. Len(nq') : ~nq'[i].promised
      <4> TAKE i \in 1 .. Len(nq')
      <4>1. CASE i = 1
        BY <2>4, <3>5, <3>6, <4>1
      <4>2. CASE i # 1
        <5>1. i \in 2 .. Len(nq) + 1 /\ i - 1 \in 1 .. Len(nq)
          BY <3>3, <3>5, <4>2
        <5> QED  BY <3>5, <3>6, <5>1
      <4> QED  BY <4>1, <4>2
    <3>8. TxInv' /\ NormalInv'
      BY <1>1, <2>2, <2>7, <3>5 DEF IInv, TxInv, NormalInv
    <3>9. BootInv' /\ PromiseInv'
      BY <1>1, <1>2, <2>2, <3>2, <3>7 DEF IInv, Scalars, BootInv, PromiseInv, NoneBoot
    <3> QED  BY <1>2, <2>5, <3>8, <3>9 DEF IInv
  <2> QED  BY <2>6, <2>7
<1> QED  BY <1>3, <1>4, <1>5 DEF HandleTimeoutOrCallerror

LEMMA MessageTimesOutStep ==
  ASSUME IInv, fault = "none", MessageTimesOut
  PROVE  IInv'
<1>1. /\ worker.pc # "sending" /\ recv \in RecvStates \ {"result"}
      /\ HandleTimeoutOrCallerror /\ recv' \in {recv, "idle"} /\ expired' \in BOOLEAN
  BY DEF MessageTimesOut, LockFree, IInv, Scalars
<1> QED  BY <1>1, HandleTimeoutOrCallerrorStep

LEMMA HandleCallerrorStep ==
  ASSUME IInv, fault = "none", HandleCallerror
  PROVE  IInv'
<1>1. /\ worker.pc # "sending" /\ recv \in RecvStates \ {"result"}
      /\ HandleTimeoutOrCallerror /\ recv' \in {recv, "idle"} /\ expired' \in BOOLEAN
  BY DEF HandleCallerror, CanLock, LockFree, IInv, Scalars
<1> QED  BY <1>1, HandleTimeoutOrCallerrorStep

LEMMA HandleCallResultStep ==
  ASSUME IInv, fault = "none", HandleCallResult
  PROVE  IInv'
<1>1. /\ inFlight # None /\ worker.pc # "sending" /\ worker'.pc # "sending"
      /\ worker' \in [pc : WorkerStates, at : Nat]
      /\ inFlight' = None /\ timers' = [timers EXCEPT !.flight = FALSE]
      /\ recv = "result" /\ recv' = IF inFlight.kind = "Boot" THEN "boot" ELSE "idle"
      /\ fault' = IF inFlight.promised THEN "promise" ELSE fault
      /\ UNCHANGED <<txq, nq, flags, expired, online, pushed, owed, lastSent>>
  BY Woken DEF HandleCallResult, SetPromise, IInv, AnswerInv, history
<1>2. Scalars' /\ TxInv' /\ NormalInv'
  BY <1>1 DEF IInv, Scalars, RecvStates, TxInv, NormalInv
<1>3. FlightInv' /\ SendInv' /\ AnswerInv' /\ FlightIsWatched' /\ ~BootInFlight'
  BY <1>1 DEF IInv, Scalars, FlightInv, SendInv, AnswerInv, FlightIsWatched, BootInFlight
<1>4. recv' = "boot" => BootInFlight
  BY <1>1 DEF BootInFlight
<1>5. BootInv' /\ PromiseInv'
  BY <1>1, <1>3, <1>4 DEF IInv, Scalars, BootInv, PromiseInv, NoneBoot, BootQueued
<1> QED  BY <1>2, <1>3, <1>5 DEF IInv

LEMMA BecomesDueStep ==
  ASSUME IInv, BecomesDue
  PROVE  IInv'
<1>1. UNCHANGED <<inFlight, flags, worker, recv, timers, expired, online,
                  pushed, owed, lastSent, fault>>
  BY DEF BecomesDue, history
<1>2. Scalars' /\ AnswerInv' /\ FlightIsWatched' /\ (BootInFlight' <=> BootInFlight)
  BY <1>1 DEF IInv, Scalars, AnswerInv, FlightIsWatched, BootInFlight
<1>3. ASSUME NEW m \in txq, ~m.due, UNCHANGED nq,
             txq' = (txq \ {m}) \cup {[m EXCEPT !.due = TRUE]}
      PROVE  IInv'
  <2> DEFINE e == [m EXCEPT !.due = TRUE]
  <2>1. m \in Messages /\ TxOrdered(txq, pushed, lastSent)
    BY DEF IInv, TxInv, TxOrdered
  <2>2. e \in Messages /\ e.pos = m.pos /\ e.seq = m.seq /\ e.kind = m.kind
        /\ e.promised = m.promised
    BY <2>1 DEF Messages
  <2>3. txq' = (txq \ {m}) \cup {e}
    BY <1>3
  <2> HIDE DEF e
  <2>4. TxInv' /\ NormalInv'
    BY <1>1, <1>3, <2>1, <2>2, <2>3, ReplaceOrdered DEF IInv, TxInv, NormalInv
  <2>5. FlightInv' /\ SendInv'
    BY <1>1, <1>3, <2>2, <2>3 DEF IInv, FlightInv, SendInv
  <2>6. BootInv' /\ PromiseInv'
    BY <1>1, <1>2, <1>3 DEF IInv, BootInv, PromiseInv, NoneBoot, BootQueued
  <2> QED  BY <1>2, <2>4, <2>5, <2>6 DEF IInv
<1>4. ASSUME NEW i \in DOMAIN nq, ~nq[i].due, UNCHANGED txq,
             nq' = [nq EXCEPT ![i].due = TRUE]
      PROVE  IInv'
  <2> DEFINE m == [nq[i] EXCEPT !.due = TRUE]
             n == [nq EXCEPT ![i] = m]
  <2>1. NormalOrdered(nq) /\ nq \in Seq(Messages) /\ Len(nq) \in Nat /\ i \in 1 .. Len(nq)
    BY DEF IInv, NormalInv, NormalOrdered
  <2>2. nq[i] \in Messages /\ Normal(nq[i])
    BY <2>1 DEF NormalOrdered
  <2>3. /\ m \in Messages /\ m.kind = nq[i].kind /\ m.promised = nq[i].promised
        /\ Normal(m)
    BY <2>2 DEF Messages, Normal, IsTx
  <2>4. nq' = n
    BY <1>4
  <2> HIDE DEF m
  <2>5. /\ NormalOrdered(n) /\ Len(n) = Len(nq)
        /\ \A j \in 1 .. Len(nq) : n[j] = IF j = i THEN m ELSE nq[j]
    BY <2>1, <2>3, ExceptOrdered
  <2> HIDE DEF n
  <2>6. /\ NormalOrdered(nq') /\ Len(nq') = Len(nq)
        /\ \A j \in 1 .. Len(nq) : nq'[j] = IF j = i THEN m ELSE nq[j]
    BY <2>4, <2>5
  <2>7. TxInv' /\ NormalInv' /\ FlightInv'
    BY <1>1, <1>4, <2>6 DEF IInv, TxInv, NormalInv, FlightInv
  <2>8. SendInv'
    BY <1>1, <1>4, <2>1, <2>3, <2>6 DEF IInv, Scalars, SendInv
  <2>9. BootQueued' <=> BootQueued
    <3>1. (nq # <<>> <=> Len(nq) > 0) /\ (nq' # <<>> <=> Len(nq') > 0)
      BY <2>1, <2>6 DEF NormalOrdered
    <3> QED  BY <2>1, <2>3, <2>6, <3>1 DEF BootQueued
  <2>10. BootInv' /\ PromiseInv'
    BY <1>1, <1>2, <2>1, <2>3, <2>6, <2>9 DEF IInv, BootInv, PromiseInv, NoneBoot
  <2> QED  BY <1>2, <2>7, <2>8, <2>10 DEF IInv
<1> QED  BY <1>3, <1>4 DEF BecomesDue

(***************************************************************************)
(* No event is lost.  Only three kinds of steps take a message out of the  *)
(* deque: a pass of check_queue_sizes, which drops updates, a send that    *)
(* succeeds, and a change of a message in its place.                       *)
(***************************************************************************)
LEMMA PushTxKeeps ==
  ASSUME IInv, EventsKept, PushTx
  PROVE  EventsKept'
<1> DEFINE kind == Script[pushed'].kind
           m == NewMessage(kind, pushed', ~flags.accepted /\ ~Script[pushed'].triggered)
           t == PushBack(txq, m)
<1>1. /\ pushed \in Nat /\ pushed' = pushed + 1 /\ pushed' \in 1 .. Len(Script)
      /\ lastSent \in 0 .. pushed
  BY MessageQueueAssumption DEF PushTx, IInv, Scalars, MessageQueueAssumption
<1>2. kind \in TxKinds
  <2> DEFINE R == [kind : {"Event", "Update"}, triggered : BOOLEAN]
  <2>1. Script \in Seq(R)
    BY MessageQueueAssumption DEF MessageQueueAssumption
  <2>2. Script[pushed'] \in R
    BY <1>1, <2>1, ElementOfSeq
  <2> QED  BY <2>2 DEF TxKinds
<1>3. m \in Messages /\ m.kind = kind /\ m.seq = pushed + 1 /\ ~m.promised
  BY <1>1, <1>2, MessageQueueAssumption
     DEF MessageQueueAssumption, NewMessage, Messages, Kinds
<1>4. IsTx(m)
  BY <1>2, <1>3 DEF IsTx
<1>5. Enqueue(nq, t) /\ owed' = IF kind = "Event" THEN owed \cup {pushed'} ELSE owed
  BY DEF PushTx
<1> HIDE DEF m, kind
<1>6. TxOrdered(t, pushed', lastSent)
  BY <1>1, <1>3, <1>4, PushBackOrdered DEF IInv, TxInv
<1>7. txq \subseteq t /\ \E e \in t : e.seq = m.seq /\ e.kind = m.kind
  <2> DEFINE e == [m EXCEPT !.pos = IF txq = {} THEN 0 ELSE Back(txq).pos + 1]
  <2>1. e.seq = m.seq /\ e.kind = m.kind
    BY <1>3 DEF Messages
  <2>2. t = txq \cup {e}
    BY DEF PushBack
  <2> HIDE DEF e
  <2> QED  BY <2>1, <2>2
<1> HIDE DEF t
<1>8. \A x \in t : x.kind # "Update" => x \in txq'
  BY <1>5, <1>6, EnqueueFacts DEF IInv, NormalInv
<1> SUFFICES ASSUME NEW s \in owed'
             PROVE  \E x \in txq' : x.seq = s /\ x.kind = "Event"
  BY DEF EventsKept
<1>9. \E x \in t : x.seq = s /\ x.kind = "Event"
  BY <1>1, <1>3, <1>5, <1>7 DEF EventsKept
<1> QED  BY <1>8, <1>9

LEMMA EnqueueKeeps ==
  ASSUME IInv, EventsKept, NEW n, NormalOrdered(n), Enqueue(n, txq), UNCHANGED owed
  PROVE  EventsKept'
<1>1. \A x \in txq : x.kind # "Update" => x \in txq'
  BY EnqueueFacts DEF IInv, TxInv
<1> QED  BY <1>1 DEF EventsKept

LEMMA PushNormalKeeps ==
  ASSUME IInv, EventsKept, NEW triggered \in BOOLEAN, PushNormal(triggered)
  PROVE  EventsKept'
<1> DEFINE m == NewMessage("Normal", 0, FALSE)
<1>1. m \in Messages /\ Normal(m) /\ m.kind # "Boot"
  BY MessageQueueAssumption
     DEF MessageQueueAssumption, NewMessage, Messages, Kinds, Normal, IsTx, TxKinds
<1>2. Enqueue(Append(nq, m), txq) /\ UNCHANGED owed
  BY DEF PushNormal
<1> HIDE DEF m
<1>3. NormalOrdered(Append(nq, m))
  BY <1>1, AppendOrdered DEF IInv, NormalInv
<1> QED  BY <1>2, <1>3, EnqueueKeeps

LEMMA BootTimerKeeps ==
  ASSUME IInv, EventsKept, BootTimerFires
  PROVE  EventsKept'
<1> DEFINE m == NewMessage("Boot", 0, FALSE)
<1>1. m \in Messages /\ Normal(m)
  BY MessageQueueAssumption
     DEF MessageQueueAssumption, NewMessage, Messages, Kinds, Normal, IsTx, TxKinds
<1>2. Enqueue(<<m>> \o nq, txq) /\ UNCHANGED owed /\ timers.boot
  BY DEF BootTimerFires
<1> HIDE DEF m
<1>3. NoBoot(nq) /\ NormalOrdered(nq)
  BY <1>2, BootIsFirst DEF IInv, BootInv, NoneBoot, NormalInv
<1>4. NormalOrdered(<<m>> \o nq)
  BY <1>1, <1>3, PrependOrdered
<1> QED  BY <1>2, <1>4, EnqueueKeeps

\* A message that changes in its place stays the event that it is.
LEMMA ReplaceKeeps ==
  ASSUME EventsKept, UNCHANGED owed, NEW m \in txq, NEW e,
         e.seq = m.seq, e.kind = m.kind, txq' = (txq \ {m}) \cup {e}
  PROVE  EventsKept'
BY DEF EventsKept

LEMMA WorkerTakesKeeps ==
  ASSUME IInv, EventsKept, WorkerTakes
  PROVE  EventsKept'
<1>1. UNCHANGED owed
  BY DEF WorkerTakes, history
<1>2. CASE TakesTx
  <2> DEFINE m == Front(txq)
  <2>1. txq' = (txq \ {m}) \cup {Attempted(m)} /\ txq # {}
    BY <1>2 DEF WorkerTakes, TakesTx
  <2>2. pushed \in Nat /\ TxOrdered(txq, pushed, lastSent)
    BY MessageQueueAssumption DEF MessageQueueAssumption, IInv, Scalars, TxInv
  <2>3. m \in txq /\ m \in Messages
    BY <2>1, <2>2, OrderedEnds DEF TxOrdered
  <2> HIDE DEF m
  <2>4. Attempted(m).seq = m.seq /\ Attempted(m).kind = m.kind
    BY <2>3, AttemptedType
  <2> QED  BY <1>1, <2>1, <2>3, <2>4, ReplaceKeeps
<1>3. CASE ~TakesTx
  BY <1>1, <1>3 DEF WorkerTakes, EventsKept
<1> QED  BY <1>2, <1>3

\* The message that goes out is the only one that leaves.
LEMMA SendSucceedsKeeps ==
  ASSUME IInv, EventsKept, SendSucceeds
  PROVE  EventsKept'
<1>1. worker.pc = "sending" /\ WentOut(inFlight)
  BY DEF SendSucceeds
<1>2. CASE worker.at = 0
  <2>1. TxOrdered(txq, pushed, lastSent) /\ txq' = txq \ {Front(txq)}
    BY <1>2 DEF SendSucceeds, IInv, TxInv
  <2>2. inFlight \in txq /\ \A x \in txq : inFlight.pos <= x.pos
    BY <1>1, <1>2 DEF IInv, SendInv
  <2>3. inFlight = Front(txq) /\ IsTx(inFlight)
    <3>1. IsTx(inFlight)
      BY <2>1, <2>2 DEF TxOrdered
    <3>2. inFlight = Front(txq)
      BY <2>1, <2>2, SentOrdered
    <3> QED  BY <3>1, <3>2
  <2>4. owed' = owed \ {inFlight.seq}
    BY <1>1, <2>3 DEF WentOut
  <2> QED  BY <2>1, <2>3, <2>4 DEF EventsKept
<1>3. CASE worker.at # 0
  <2>1. txq' = txq /\ owed' \subseteq owed
    BY <1>1, <1>3 DEF SendSucceeds, WentOut
  <2> QED  BY <2>1 DEF EventsKept
<1> QED  BY <1>2, <1>3

\* A message that comes back, or is given up, takes nothing out of the deque.
LEMMA HandleTimeoutOrCallerrorKeeps ==
  ASSUME EventsKept, HandleTimeoutOrCallerror
  PROVE  EventsKept'
<1>1. UNCHANGED owed
  BY DEF HandleTimeoutOrCallerror, history
<1>2. txq \subseteq txq'
  BY DEF HandleTimeoutOrCallerror, Retry, GiveUp, PushFront
<1> QED  BY <1>1, <1>2 DEF EventsKept

LEMMA BecomesDueKeeps ==
  ASSUME IInv, EventsKept, BecomesDue
  PROVE  EventsKept'
<1>1. UNCHANGED owed
  BY DEF BecomesDue, history
<1>2. ASSUME NEW m \in txq, txq' = (txq \ {m}) \cup {[m EXCEPT !.due = TRUE]}
      PROVE  EventsKept'
  <2> DEFINE e == [m EXCEPT !.due = TRUE]
  <2>1. m \in Messages
    BY DEF IInv, TxInv, TxOrdered
  <2>2. e.seq = m.seq /\ e.kind = m.kind /\ txq' = (txq \ {m}) \cup {e}
    BY <1>2, <2>1 DEF Messages
  <2> HIDE DEF e
  <2> QED  BY <1>1, <2>2, ReplaceKeeps
<1>3. CASE UNCHANGED txq
  BY <1>1, <1>3 DEF EventsKept
<1> QED  BY <1>2, <1>3 DEF BecomesDue

LEMMA NextKeeps == IInv /\ EventsKept /\ [Next]_vars => EventsKept'
<1> SUFFICES ASSUME IInv, EventsKept, [Next]_vars PROVE EventsKept'
  OBVIOUS
<1>1. CASE UNCHANGED <<txq, owed>>
  BY <1>1 DEF EventsKept
<1>2. CASE UNCHANGED vars
  BY <1>1, <1>2 DEF vars, queues, history
<1>3. CASE Push \/ Stop
  BY <1>1, <1>3, PushTxKeeps, PushNormalKeeps DEF Push, Stop, queues, history
<1>4. CASE Work
  <2>1. CASE WorkerWaits \/ WorkerBlocks \/ WorkerTurns
    BY <1>1, <2>1 DEF WorkerWaits, WorkerBlocks, WorkerTurns, queues, history
  <2>2. ASSUME NEW delivered \in BOOLEAN, SendFails(delivered)  PROVE EventsKept'
    <3>1. txq' = txq /\ owed' \subseteq owed
      BY <2>2 DEF SendFails, WentOut
    <3> QED  BY <3>1 DEF EventsKept
  <2> QED  BY <1>4, <2>1, <2>2, WorkerTakesKeeps, SendSucceedsKeeps DEF Work
<1>5. CASE Daemon \/ BecomesDue
  BY <1>1, <1>5, HandleTimeoutOrCallerrorKeeps, BootTimerKeeps, BecomesDueKeeps
     DEF Daemon, TimerExpires, MessageTimesOut, NotifyTimerFires, queues, history
<1>6. CASE Receive
  BY <1>1, <1>6, HandleTimeoutOrCallerrorKeeps
     DEF Receive, ReceiveAnswer, HandleCallResult, HandleCallerror, HandleBootResponse,
         ReceiveCall, PushCallResult, queues, history
<1>7. CASE Network
  BY <1>1, <1>7 DEF Network, Connect, Disconnect, Pause, queues, history
<1> QED  BY <1>2, <1>3, <1>4, <1>5, <1>6, <1>7 DEF Next

(***************************************************************************)
(* The theorems.                                                           *)
(***************************************************************************)
LEMMA InitIInv == Init => IInv
<1> SUFFICES ASSUME Init PROVE IInv
  OBVIOUS
<1> DEFINE m == NewMessage("Boot", 0, FALSE)
<1>1. m \in Messages /\ m.kind = "Boot" /\ ~m.stall /\ m.due /\ ~m.promised
  BY MessageQueueAssumption DEF MessageQueueAssumption, NewMessage, Messages, Kinds
<1>2. Normal(m)
  BY <1>1 DEF Normal, IsTx, TxKinds
<1> HIDE DEF m
<1>3. nq = <<m>>
  BY DEF Init, m
<1>4. nq \in Seq(Messages) /\ Len(nq) = 1 /\ nq[1] = m
  BY <1>1, <1>3
<1>5. NormalInv
  BY <1>2, <1>4 DEF NormalInv, NormalOrdered
<1>6. TxInv
  BY FS_EmptySet DEF Init, TxInv, TxOrdered
<1>7. Scalars
  <2>1. 0 \in 0 .. Len(Script)
    BY MessageQueueAssumption DEF MessageQueueAssumption
  <2>2. pushed \in 0 .. Len(Script) /\ owed \subseteq 1 .. pushed /\ lastSent \in 0 .. pushed
    BY <2>1 DEF Init
  <2> QED  BY <2>2 DEF Init, Scalars, WorkerStates, RecvStates
<1>8. FlightInv /\ SendInv /\ AnswerInv /\ FlightIsWatched
  BY DEF Init, FlightInv, SendInv, AnswerInv, FlightIsWatched
<1>9. BootInv /\ PromiseInv
  <2>1. ~BootInFlight /\ recv # "boot" /\ ~timers.boot /\ ~flags.accepted
    BY DEF Init, BootInFlight
  <2>2. inFlight = None /\ fault # "promise" /\ \A i \in 1 .. Len(nq) : ~nq[i].promised
    <3>1. \A i \in 1 .. Len(nq) : nq[i] = m
      BY <1>4
    <3>2. inFlight = None /\ fault # "promise"
      BY DEF Init
    <3> QED  BY <1>1, <3>1, <3>2
  <2> QED  BY <2>1, <2>2 DEF BootInv, PromiseInv
<1> QED  BY <1>5, <1>6, <1>7, <1>8, <1>9 DEF IInv

LEMMA NextIInv == IInv /\ [Next]_vars => IInv'
<1> SUFFICES ASSUME IInv, [Next]_vars PROVE IInv'
  OBVIOUS
<1>1. CASE UNCHANGED vars
  <2>1. QueueInv'
    BY <1>1, QuietQueues DEF vars, IInv, QueueInv, StaysSending
  <2>2. Scalars' /\ AnswerInv' /\ FlightIsWatched'
    BY <1>1 DEF vars, queues, history, IInv, Scalars, AnswerInv, FlightIsWatched
  <2>3. BootInv' /\ PromiseInv'
    BY <1>1 DEF vars, queues, IInv, BootInv, PromiseInv, NoneBoot, BootQueued, BootInFlight
  <2> QED  BY <2>1, <2>2, <2>3 DEF IInv, QueueInv
<1>2. CASE fault = "none" /\ (Push \/ Stop)
  BY <1>2, PushTxStep, PushNormalStep, StopStep DEF Push
<1>3. CASE fault = "none" /\ Work
  BY <1>3, WorkerWaitsStep, WorkerBlocksStep, WorkerTurnsStep, WorkerTakesStep,
     SendSucceedsStep, SendFailsStep DEF Work
<1>4. CASE fault = "none" /\ (Daemon \/ BecomesDue)
  BY <1>4, TimerExpiresStep, MessageTimesOutStep, NotifyTimerFiresStep, BootTimerStep,
     BecomesDueStep DEF Daemon
<1>5. CASE fault = "none" /\ Receive
  BY <1>5, ReceiveAnswerStep, HandleCallResultStep, HandleCallerrorStep,
     HandleBootResponseStep, ReceiveCallStep, PushCallResultStep DEF Receive
<1>6. CASE fault = "none" /\ Network
  BY <1>6, ConnectStep, DisconnectStep, PauseStep DEF Network
<1> QED  BY <1>1, <1>2, <1>3, <1>4, <1>5, <1>6 DEF Next

\* Type correctness of the queues, the message in flight and the threads.
THEOREM QueueTypes == Spec => []TypeOK
<1>1. IInv => TypeOK
  BY DEF IInv, Scalars, TxInv, TxOrdered, NormalInv, NormalOrdered, TypeOK
<1> QED  BY <1>1, InitIInv, NextIInv, PTL DEF Spec

\* Transaction messages leave in the order they were pushed, whatever is retried,
\* thinned out by check_queue_sizes or fails to be sent.
THEOREM TransactionsInOrder == Spec => []TxInOrder
<1>1. IInv => TxInOrder
  <2> SUFFICES ASSUME IInv PROVE TxInOrder
    OBVIOUS
  <2>1. TxOrdered(txq, pushed, lastSent)
    BY DEF IInv, TxInv
  <2>2. ASSUME InFlightTx, NEW m \in txq  PROVE inFlight.seq <= m.seq
    <3>1. inFlight \in Messages /\ m \in Messages
      BY <2>1, <2>2 DEF InFlightTx, IInv, Scalars, TxOrdered
    <3>2. inFlight.seq \in Nat /\ m.seq \in Nat
      BY <3>1 DEF Messages
    <3>3. CASE worker.pc # "sending"
      BY <2>2, <3>2, <3>3 DEF InFlightTx, IInv, FlightInv
    <3>4. CASE worker.pc = "sending"
      <4>1. worker.at = 0
        <5> SUFFICES ASSUME worker.at # 0 PROVE FALSE
          OBVIOUS
        <5>1. worker.at \in 1 .. Len(nq) /\ inFlight = nq[worker.at]
          BY <3>4 DEF IInv, SendInv
        <5>2. ~IsTx(nq[worker.at])
          BY <5>1 DEF IInv, NormalInv, NormalOrdered, Normal
        <5> QED  BY <2>2, <5>1, <5>2 DEF InFlightTx
      <4>2. inFlight \in txq /\ \A x \in txq : inFlight.pos <= x.pos
        BY <3>4, <4>1 DEF IInv, SendInv
      <4>3. \A x \in txq \ {inFlight} : inFlight.seq < x.seq
        BY <2>1, <4>2, SentOrdered
      <4> QED  BY <3>2, <4>3
    <3> QED  BY <3>3, <3>4
  <2> QED  BY <2>1, <2>2 DEF TxInOrder, TxOrdered
<1> QED  BY <1>1, InitIInv, NextIInv, PTL DEF Spec

\* A Started, an Ended or a security event stays in the deque until it went out, however
\* often the deque is thinned out, the connection fails or the message is retried.
THEOREM EventsAreKept == Spec => []EventsKept
<1>1. Init => EventsKept
  BY DEF Init, EventsKept
<1> QED  BY <1>1, InitIInv, NextIInv, NextKeeps, PTL DEF Spec

\* A message in flight always has somebody who ends its flight.
THEOREM FlightsAreWatched == Spec => []FlightIsWatched
<1>1. IInv => FlightIsWatched
  BY DEF IInv
<1> QED  BY <1>1, InitIInv, NextIInv, PTL DEF Spec

\* A retry of the BootNotification and the timer that asks again never both send one,
\* and none is sent once the station is accepted.
THEOREM OneBootNotification == Spec => []OneBoot
<1>1. IInv => OneBoot
  <2> SUFFICES ASSUME IInv PROVE OneBoot
    OBVIOUS
  <2>1. \A i \in DOMAIN nq : nq[i].kind = "Boot" => i = 1
    BY DEF IInv, NormalInv, NormalOrdered
  <2>2. \A p, q \in BootPlaces : p = q
    BY DEF IInv, BootInv, BootPlaces
  <2>3. flags.accepted => BootPlaces = {}
    BY DEF IInv, BootInv, NoneBoot, BootPlaces
  <2> QED  BY <2>1, <2>2, <2>3 DEF OneBoot
<1> QED  BY <1>1, InitIInv, NextIInv, PTL DEF Spec

\* Once the station is accepted no promise gets a second value.
THEOREM PromisesAreSetOnce == Spec => []PromisesSetOnce
<1>1. IInv => PromisesSetOnce
  <2> SUFFICES ASSUME IInv PROVE PromisesSetOnce
    OBVIOUS
  <2>1. DOMAIN nq = 1 .. Len(nq)
    BY DEF IInv, NormalInv, NormalOrdered
  <2> QED  BY <2>1 DEF IInv, PromiseInv, PromisesSetOnce
<1> QED  BY <1>1, InitIInv, NextIInv, PTL DEF Spec
=============================================================================
