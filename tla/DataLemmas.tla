----------------------------- MODULE DataLemmas -----------------------------
(***************************************************************************)
(* What the data structures do, for any size and any data. The ring:       *)
(* pushing, popping and resetting do to the sequence of its elements what  *)
(* Append, Tail and <<>> say, as long as the client pushes with room left  *)
(* and pops only what is there. The hash table and the cache: what each    *)
(* operation returns and changes.                                          *)
(***************************************************************************)
EXTENDS Cache, SequenceTheorems, FiniteSetTheorems, WellFoundedInduction, TLAPS

(* NUMBERS, SEQUENCES AND STEPS *)

(* A set of natural numbers has a least element. *)
LEMMA LeastNatural ==
  ASSUME NEW T \in SUBSET Nat, T # {}
  PROVE  \E x \in T : \A y \in T : x <= y
  <1> DEFINE R == {ss \in Nat \X Nat : ss[1] < ss[2]}
  <1>1. IsWellFoundedOn(R, Nat)
    BY NatLessThanWellFounded DEF OpToRel
  <1>2. \A x, y \in Nat : y < x => <<y, x>> \in R
    OBVIOUS
  <1> HIDE DEF R
  <1>3. PICK x \in T : \A y \in T : ~ (<<y, x>> \in R)
    BY <1>1, WFMin
  <1>4. \A y \in T : ~ (y < x)
    BY <1>2, <1>3
  <1> QED  BY <1>3, <1>4

(* Quotient and remainder are unique. *)
LEMMA RemainderUnique ==
  ASSUME NEW n \in Nat \ {0}, NEW a \in Int, NEW b \in Int,
         NEW x \in 0 .. n - 1, NEW y \in 0 .. n - 1, n * a + x = n * b + y
  PROVE  x = y
  <1>1. CASE a = b  BY <1>1
  <1>2. CASE a < b
    <2>1. n * (b - a) >= n * 1  BY <1>2
    <2>2. n * (b - a) = n * b - n * a  OBVIOUS
    <2> QED  BY <2>1, <2>2
  <1>3. CASE b < a
    <2>1. n * (a - b) >= n * 1  BY <1>3
    <2>2. n * (a - b) = n * a - n * b  OBVIOUS
    <2> QED  BY <2>1, <2>2
  <1> QED  BY <1>1, <1>2, <1>3

(* What quotient and remainder are. *)
LEMMA Division ==
  ASSUME NEW n \in Nat \ {0}, NEW x \in Int
  PROVE  x = n * (x \div n) + (x % n) /\ x % n \in 0 .. n - 1 /\ x \div n \in Int
  OBVIOUS

(* The remainder is the one number that fits. *)
LEMMA RemainderIs ==
  ASSUME NEW n \in Nat \ {0}, NEW x \in Int, NEW a \in Int,
         NEW y \in 0 .. n - 1, x = n * a + y
  PROVE  x % n = y
  <1> DEFINE b == x \div n
             z == x % n
  <1>1. x = n * b + z /\ z \in 0 .. n - 1 /\ b \in Int  BY Division
  <1> HIDE DEF b, z
  <1>2. y = z  BY <1>1, RemainderUnique
  <1> QED  BY <1>2 DEF z

(* The quotient is the one number that fits.                               *)
LEMMA QuotientIs ==
  ASSUME NEW n \in Nat \ {0}, NEW x \in Int, NEW a \in Int,
         NEW y \in 0 .. n - 1, x = n * a + y
  PROVE  x \div n = a /\ x % n = y
  <1> DEFINE b == x \div n
             z == x % n
  <1>1. x = n * b + z /\ z \in 0 .. n - 1 /\ b \in Int  BY Division
  <1>2. z = y  BY RemainderIs
  <1> HIDE DEF b, z
  <1>3. n * a = n * b /\ n * a \in Int  BY <1>1, <1>2
  <1>4. ~ (a < b)
    <2> SUFFICES ASSUME a < b PROVE FALSE  OBVIOUS
    <2>1. n * (b - a) >= n * 1 /\ n * (b - a) = n * b - n * a  BY <1>1
    <2> QED  BY <1>3, <2>1
  <1>5. ~ (b < a)
    <2> SUFFICES ASSUME b < a PROVE FALSE  OBVIOUS
    <2>1. n * (a - b) >= n * 1 /\ n * (a - b) = n * a - n * b  BY <1>1
    <2> QED  BY <1>3, <2>1
  <1>6. b = a  BY <1>1, <1>4, <1>5
  <1> QED  BY <1>2, <1>6 DEF b, z

(* A sequence of fewer things is one of more.                             *)
LEMMA SeqWider ==
  ASSUME NEW S, NEW T, S \subseteq T, NEW s \in Seq(S)
  PROVE  s \in Seq(T)
  OBVIOUS

(* A function that is defined by what it was one before.                  *)
Recurs(f, S, a, h, N) == /\ f \in [0 .. N -> S]
                         /\ f[0] = a /\ \A n \in 1 .. N : f[n] = h[n][f[n - 1]]

(* There is one, for any step. *)
LEMMA Recurring ==
  ASSUME NEW S, NEW a \in S, NEW N \in Nat, NEW h \in [1 .. N -> [S -> S]]
  PROVE  \E f : Recurs(f, S, a, h, N)
  <1> DEFINE Good(m) == \E f \in [0 .. m -> S] :
                          f[0] = a /\ \A n \in 1 .. m : f[n] = h[n][f[n - 1]]
             T == {m \in 0 .. N : ~ Good(m)}
  <1>1. Good(0)
    <2> DEFINE f == [n \in 0 .. 0 |-> a]
    <2>1. f \in [0 .. 0 -> S] /\ f[0] = a /\ \A n \in 1 .. 0 : f[n] = h[n][f[n - 1]]  OBVIOUS
    <2> QED  BY <2>1
  <1>2. ASSUME NEW m \in Nat, m + 1 \in 1 .. N, Good(m)
        PROVE  Good(m + 1)
    <2>1. PICK f \in [0 .. m -> S] : f[0] = a /\ \A n \in 1 .. m : f[n] = h[n][f[n - 1]]
      BY <1>2
    <2> DEFINE v == h[m + 1][f[m]]
               e == [n \in 0 .. m + 1 |-> IF n <= m THEN f[n] ELSE v]
    <2>2. v \in S
      <3>1. h[m + 1] \in [S -> S] /\ f[m] \in S  BY <1>2, <2>1
      <3> QED  BY <3>1
    <2>3. v = h[m + 1][f[m]]  OBVIOUS
    <2> HIDE DEF v
    <2>4. e \in [0 .. m + 1 -> S]  BY <2>1, <2>2
    <2>5. e[0] = a  BY <2>1
    <2>6. ASSUME NEW n \in 1 .. m + 1
          PROVE  e[n] = h[n][e[n - 1]]
      <3>1. CASE n <= m
        <4>1. n \in 1 .. m /\ n \in 0 .. m + 1 /\ n - 1 \in 0 .. m + 1 /\ n - 1 <= m  BY <3>1
        <4> QED  BY <2>1, <3>1, <4>1
      <3>2. CASE n = m + 1
        <4>1. n \in 0 .. m + 1 /\ ~ (n <= m) /\ n - 1 = m /\ m \in 0 .. m + 1 /\ m <= m
          BY <3>2
        <4>2. e[n] = v /\ e[n - 1] = f[m]  BY <4>1
        <4> QED  BY <2>3, <3>2, <4>2
      <3> QED  BY <3>1, <3>2
    <2> HIDE DEF e
    <2> QED  BY <2>4, <2>5, <2>6
  <1> HIDE DEF Good
  <1>3. T = {}
    <2> SUFFICES ASSUME T # {} PROVE FALSE  OBVIOUS
    <2> HIDE DEF T
    <2>1. T \in SUBSET Nat  BY DEF T
    <2>2. PICK m \in T : \A y \in T : m <= y  BY <2>1, LeastNatural
    <2> USE DEF T
    <2>3. m # 0 /\ m \in 0 .. N /\ ~ Good(m)  BY <1>1, <2>2
    <2>4. m - 1 \in Nat /\ m - 1 \in 0 .. N /\ ~ (m <= m - 1) /\ (m - 1) + 1 = m /\ m \in 1 .. N
      BY <2>3
    <2>5. Good(m - 1)  BY <2>2, <2>4
    <2>6. Good((m - 1) + 1)  BY <1>2, <2>4, <2>5
    <2> QED  BY <2>3, <2>4, <2>6
  <1>4. Good(N)  BY <1>3
  <1> QED  BY <1>4 DEF Good, Recurs

(* A step taken again and again. *)
Iterates(f, S, a, g, N) == /\ f \in [0 .. N -> S]
                           /\ f[0] = a /\ \A n \in 1 .. N : f[n] = g[f[n - 1]]

(* There is such a function. *)
LEMMA Iterating ==
  ASSUME NEW S, NEW a \in S, NEW g \in [S -> S], NEW N \in Nat
  PROVE  \E f : Iterates(f, S, a, g, N)
  <1> DEFINE h == [n \in 1 .. N |-> g]
  <1>1. h \in [1 .. N -> [S -> S]] /\ \A n \in 1 .. N : h[n] = g  OBVIOUS
  <1> HIDE DEF h
  <1>2. PICK f : Recurs(f, S, a, h, N)  BY <1>1, Recurring
  <1>3. Iterates(f, S, a, g, N)  BY <1>1, <1>2 DEF Recurs, Iterates
  <1> QED  BY <1>3

(* THE RING *)

(* The values of % the indices of a ring meet: at most one wrap. *)
LEMMA ModWrap ==
  ASSUME NEW n \in Nat \ {0}, NEW x \in 0 .. n + n - 1
  PROVE  x % n = IF x < n THEN x ELSE x - n
  <1>1. CASE x < n  BY <1>1
  <1>2. CASE ~ (x < n)  BY <1>2
  <1> QED  BY <1>1, <1>2

(* The fields of a ring. *)
LEMMA RingFields ==
  ASSUME NEW D, NEW n \in Nat \ {0}, NEW r \in RingOf(D, n)
  PROVE  /\ r.buf \in [0 .. n - 1 -> D] /\ r.size = n
         /\ r.count \in 0 .. n /\ r.start \in 0 .. n - 1
  BY DEF RingOf

(* Where the i-th element sits, without the %. *)
LEMMA RingSlotValue ==
  ASSUME NEW D, NEW n \in Nat \ {0}, NEW r \in RingOf(D, n), NEW i \in 0 .. n
  PROVE  /\ r.start + i < n => RingSlot(r, i) = r.start + i
         /\ r.start + i >= n => RingSlot(r, i) = r.start + i - n
         /\ RingSlot(r, i) \in 0 .. n - 1
  <1>1. r.start \in 0 .. n - 1 /\ r.size = n  BY RingFields
  <1> DEFINE x == r.start + i
  <1>2. x \in 0 .. n + n - 1  BY <1>1
  <1>3. RingSlot(r, i) = x % n  BY <1>1 DEF RingSlot
  <1>4. x % n = IF x < n THEN x ELSE x - n
    <2> HIDE DEF x
    <2> QED  BY <1>2, ModWrap
  <1> QED  BY <1>1, <1>2, <1>3, <1>4

(* Different elements sit in different slots. *)
LEMMA RingSlotInjective ==
  ASSUME NEW D, NEW n \in Nat \ {0}, NEW r \in RingOf(D, n),
         NEW i \in 0 .. n - 1, NEW j \in 0 .. n - 1, i # j
  PROVE  RingSlot(r, i) # RingSlot(r, j)
  <1>1. r.start \in 0 .. n - 1 /\ i \in 0 .. n /\ j \in 0 .. n
    BY RingFields
  <1>2. /\ r.start + i < n => RingSlot(r, i) = r.start + i
        /\ r.start + i >= n => RingSlot(r, i) = r.start + i - n
    BY <1>1, RingSlotValue
  <1>3. /\ r.start + j < n => RingSlot(r, j) = r.start + j
        /\ r.start + j >= n => RingSlot(r, j) = r.start + j - n
    BY <1>1, RingSlotValue
  <1> QED  BY <1>1, <1>2, <1>3

(* The slots hold data, so the elements are a sequence of data. *)
LEMMA RingSeqType ==
  ASSUME NEW D, NEW n \in Nat \ {0}, NEW r \in RingOf(D, n)
  PROVE  RingSeq(r) \in Seq(D) /\ Len(RingSeq(r)) = r.count
  <1>1. r.count \in 0 .. n /\ r.buf \in [0 .. n - 1 -> D]  BY RingFields
  <1>2. ASSUME NEW i \in 1 .. r.count
        PROVE  r.buf[RingSlot(r, i - 1)] \in D
    <2>1. i - 1 \in 0 .. n  BY <1>1
    <2>2. RingSlot(r, i - 1) \in 0 .. n - 1  BY <2>1, RingSlotValue
    <2> QED  BY <1>1, <2>2
  <1> QED  BY <1>1, <1>2 DEF RingSeq

(* The elements after a push, from the fields it sets. *)
LEMMA PushedSeq ==
  ASSUME NEW D, NEW n \in Nat \ {0}, NEW r \in RingOf(D, n),
         NEW q \in RingOf(D, n), NEW d \in D, r.count < n,
         q.count = r.count + 1, q.start = r.start, q.size = r.size,
         q.buf[RingSlot(r, r.count)] = d,
         \A j \in 0 .. n - 1 : j # RingSlot(r, r.count) => q.buf[j] = r.buf[j]
  PROVE  RingSeq(q) = Append(RingSeq(r), d)
  <1>1. /\ r.count \in 0 .. n - 1 /\ r.buf \in [0 .. n - 1 -> D]
        /\ r.start \in 0 .. n - 1 /\ r.count \in 0 .. n
    BY RingFields
  <1>2. RingSlot(r, r.count) \in 0 .. n - 1
    BY <1>1, RingSlotValue
  <1>3. \A i : RingSlot(q, i) = RingSlot(r, i)
    BY DEF RingSlot
  <1>4. q.buf[RingSlot(q, r.count)] = d
    BY <1>1, <1>2, <1>3
  <1>5. ASSUME NEW i \in 0 .. r.count - 1
        PROVE  q.buf[RingSlot(q, i)] = r.buf[RingSlot(r, i)]
    <2>1. i \in 0 .. n - 1 /\ i \in 0 .. n /\ i # r.count  BY <1>1
    <2>2. RingSlot(r, i) # RingSlot(r, r.count)
      BY <1>1, <2>1, RingSlotInjective
    <2>3. RingSlot(r, i) \in 0 .. n - 1  BY <2>1, RingSlotValue
    <2> QED  BY <1>1, <1>2, <1>3, <2>2, <2>3
  <1>6. /\ RingSeq(q) \in Seq(D) /\ Len(RingSeq(q)) = r.count + 1
        /\ RingSeq(r) \in Seq(D) /\ Len(RingSeq(r)) = r.count
    BY RingSeqType
  <1>7. ASSUME NEW i \in 1 .. r.count + 1
        PROVE  RingSeq(q)[i] = Append(RingSeq(r), d)[i]
    <2>1. RingSeq(q)[i] = q.buf[RingSlot(q, i - 1)]
      BY DEF RingSeq
    <2>2. CASE i = r.count + 1
      <3>1. i - 1 = r.count  BY <1>1, <2>2
      <3>2. Append(RingSeq(r), d)[i] = d  BY <1>6, <2>2
      <3> QED  BY <1>4, <2>1, <3>1, <3>2
    <2>3. CASE i # r.count + 1
      <3>1. i - 1 \in 0 .. r.count - 1 /\ i \in 1 .. r.count  BY <1>1, <2>3
      <3>2. RingSeq(r)[i] = r.buf[RingSlot(r, i - 1)]  BY <3>1 DEF RingSeq
      <3>3. Append(RingSeq(r), d)[i] = RingSeq(r)[i]  BY <1>6, <3>1
      <3> QED  BY <1>5, <2>1, <3>1, <3>2, <3>3
    <2> QED  BY <2>2, <2>3
  <1>8. /\ Append(RingSeq(r), d) \in Seq(D)
        /\ Len(Append(RingSeq(r), d)) = r.count + 1
    BY <1>6
  <1> QED  BY <1>6, <1>7, <1>8, SeqEqual

(* A push with room left appends. *)
LEMMA PushAppends ==
  ASSUME NEW D, NEW n \in Nat \ {0}, NEW r \in RingOf(D, n), NEW d \in D,
         r.count < n
  PROVE  /\ Ring_push(r, d) \in RingOf(D, n)
         /\ RingSeq(Ring_push(r, d)) = Append(RingSeq(r), d)
  <1>1. /\ r.count \in 0 .. n /\ r.buf \in [0 .. n - 1 -> D]
        /\ r.start \in 0 .. n - 1 /\ r.size = n
    BY RingFields
  <1>2. r.count + 1 \in 0 .. n  BY <1>1
  <1>3. [r.buf EXCEPT ![RingSlot(r, r.count)] = d] \in [0 .. n - 1 -> D]
    BY <1>1
  <1>4. Ring_push(r, d) \in RingOf(D, n)
    BY <1>1, <1>2, <1>3 DEF Ring_push, RingOf
  <1>5. /\ Ring_push(r, d).count = r.count + 1
        /\ Ring_push(r, d).start = r.start
        /\ Ring_push(r, d).size = r.size
        /\ Ring_push(r, d).buf = [r.buf EXCEPT ![RingSlot(r, r.count)] = d]
    BY DEF Ring_push
  <1>6. RingSlot(r, r.count) \in 0 .. n - 1  BY <1>1, RingSlotValue
  <1>7. RingSeq(Ring_push(r, d)) = Append(RingSeq(r), d)
    <2> DEFINE q == Ring_push(r, d)
    <2>1. q \in RingOf(D, n)  BY <1>4
    <2>2. /\ q.count = r.count + 1 /\ q.start = r.start /\ q.size = r.size
          /\ q.buf[RingSlot(r, r.count)] = d
          /\ \A j \in 0 .. n - 1 :
                j # RingSlot(r, r.count) => q.buf[j] = r.buf[j]
      BY <1>1, <1>5, <1>6
    <2> HIDE DEF q
    <2>3. RingSeq(q) = Append(RingSeq(r), d)  BY <2>1, <2>2, PushedSeq
    <2> QED  BY <2>3 DEF q
  <1> QED  BY <1>4, <1>7

(* The elements after a pop, from the fields it sets. *)
LEMMA PoppedSeq ==
  ASSUME NEW D, NEW n \in Nat \ {0}, NEW r \in RingOf(D, n),
         NEW q \in RingOf(D, n), r.count > 0,
         q.count = r.count - 1, q.start = RingSlot(r, 1), q.size = r.size,
         q.buf = r.buf
  PROVE  RingSeq(q) = Tail(RingSeq(r))
  <1>1. /\ r.count \in 1 .. n /\ r.start \in 0 .. n - 1
        /\ q.start \in 0 .. n - 1 /\ 1 \in 0 .. n
    BY RingFields
  <1>2. ASSUME NEW i \in 0 .. r.count - 1
        PROVE  RingSlot(q, i) = RingSlot(r, i + 1)
    <2> DEFINE j == i + 1
    <2>1. i \in 0 .. n /\ j \in 0 .. n /\ j = i + 1  BY <1>1
    <2>2. /\ r.start + j < n => RingSlot(r, j) = r.start + j
          /\ r.start + j >= n => RingSlot(r, j) = r.start + j - n
      <3> HIDE DEF j
      <3> QED  BY <2>1, RingSlotValue
    <2>3. /\ r.start + 1 < n => q.start = r.start + 1
          /\ r.start + 1 >= n => q.start = r.start + 1 - n
      BY <1>1, RingSlotValue
    <2>4. /\ q.start + i < n => RingSlot(q, i) = q.start + i
          /\ q.start + i >= n => RingSlot(q, i) = q.start + i - n
      BY <2>1, RingSlotValue
    <2> QED  BY <1>1, <2>1, <2>2, <2>3, <2>4
  <1>3. /\ RingSeq(q) \in Seq(D) /\ Len(RingSeq(q)) = r.count - 1
        /\ RingSeq(r) \in Seq(D) /\ Len(RingSeq(r)) = r.count
    BY RingSeqType
  <1>4. /\ Tail(RingSeq(r)) \in Seq(D)
        /\ Len(Tail(RingSeq(r))) = r.count - 1
    BY <1>1, <1>3
  <1>5. ASSUME NEW i \in 1 .. r.count - 1
        PROVE  RingSeq(q)[i] = Tail(RingSeq(r))[i]
    <2>1. /\ i - 1 \in 0 .. r.count - 1 /\ i + 1 \in 1 .. r.count
          /\ i - 1 + 1 = i /\ i + 1 - 1 = i
      BY <1>1
    <2>2. RingSeq(q)[i] = q.buf[RingSlot(q, i - 1)]
      BY DEF RingSeq
    <2>3. RingSeq(r)[i + 1] = r.buf[RingSlot(r, i)]
      BY <2>1 DEF RingSeq
    <2>4. RingSlot(q, i - 1) = RingSlot(r, i)
      BY <1>2, <2>1
    <2>5. Tail(RingSeq(r))[i] = RingSeq(r)[i + 1]
      BY <1>1, <1>3
    <2> QED  BY <2>2, <2>3, <2>4, <2>5
  <1> QED  BY <1>3, <1>4, <1>5, SeqEqual

(* A pop takes the oldest element and leaves the rest. *)
LEMMA PopTakesHead ==
  ASSUME NEW D, NEW n \in Nat \ {0}, NEW r \in RingOf(D, n), r.count > 0
  PROVE  /\ Ring_pop(r) \in RingOf(D, n)
         /\ Ring_front(r) \in D
         /\ RingSeq(r) # <<>>
         /\ Ring_front(r) = Head(RingSeq(r))
         /\ RingSeq(Ring_pop(r)) = Tail(RingSeq(r))
  <1>1. /\ r.count \in 1 .. n /\ r.start \in 0 .. n - 1
        /\ r.buf \in [0 .. n - 1 -> D] /\ r.size = n
        /\ 1 \in 0 .. n /\ 0 \in 0 .. n
    BY RingFields
  <1>2. RingSlot(r, 1) \in 0 .. n - 1
    BY <1>1, RingSlotValue
  <1>3. RingSlot(r, 0) = r.start
    <2>1. r.start + 0 < n /\ r.start + 0 = r.start  BY <1>1
    <2> QED  BY <1>1, <2>1, RingSlotValue
  <1>4. r.count - 1 \in 0 .. n  BY <1>1
  <1>5. Ring_pop(r) \in RingOf(D, n)
    BY <1>1, <1>2, <1>4 DEF Ring_pop, RingOf
  <1>6. RingSeq(Ring_pop(r)) = Tail(RingSeq(r))
    <2>1. /\ Ring_pop(r).count = r.count - 1
          /\ Ring_pop(r).start = RingSlot(r, 1)
          /\ Ring_pop(r).size = r.size /\ Ring_pop(r).buf = r.buf
      BY DEF Ring_pop
    <2> QED  BY <1>5, <2>1, PoppedSeq
  <1>7. RingSeq(r) \in Seq(D) /\ Len(RingSeq(r)) = r.count
    BY RingSeqType
  <1>8. RingSeq(r) # <<>> /\ Head(RingSeq(r)) = RingSeq(r)[1]
    BY <1>1, <1>7
  <1>9. RingSeq(r)[1] = r.buf[RingSlot(r, 0)]
    BY <1>1 DEF RingSeq
  <1> QED  BY <1>1, <1>3, <1>5, <1>6, <1>8, <1>9 DEF Ring_front

(* A reset ring, whatever it held, is empty. *)
LEMMA ResetEmpties ==
  ASSUME NEW D, NEW n \in Nat \ {0}, NEW r,
         r.buf \in [0 .. n - 1 -> D], r.size = n
  PROVE  Ring_reset(r) \in RingOf(D, n) /\ RingSeq(Ring_reset(r)) = <<>>
  <1>1. Ring_reset(r) \in RingOf(D, n)  BY DEF Ring_reset, RingOf
  <1>2. Ring_reset(r).count = 0  BY DEF Ring_reset
  <1>3. RingSeq(Ring_reset(r)) \in Seq(D) /\ Len(RingSeq(Ring_reset(r))) = 0
    BY <1>1, <1>2, RingSeqType
  <1>4. RingSeq(Ring_reset(r)) = <<>>  BY <1>3
  <1> QED  BY <1>1, <1>4

-----------------------------------------------------------------------------
(* THE HASH TABLE AND THE CACHE *)

(* A remainder is a slot. *)
LEMMA ModRange ==
  ASSUME NEW n \in Nat \ {0}, NEW x \in Nat
  PROVE  x % n \in 0 .. n - 1
  OBVIOUS

(* The search ends at an entry of the table, whatever the key. *)
LEMMA FindEntryType ==
  ASSUME NEW h, h.size \in Nat \ {0}, NEW key \in Nat
  PROVE  Hash_find_entry(h, key) \in 0 .. h.size - 1
  <1>1. ASSUME NEW x \in 0 .. h.size - 1
        PROVE  HashProbe(h, key, x) \in 0 .. h.size - 1
    <2> DEFINE y == key + x
    <2>1. y \in Nat  OBVIOUS
    <2>2. y % h.size \in 0 .. h.size - 1
      <3> HIDE DEF y
      <3> QED  BY <2>1, ModRange
    <2> QED  BY <2>2 DEF HashProbe
  <1> DEFINE looks == 0 .. h.size - 1
             x == IF \E k \in looks : FirstStop(h, key, k)
                  THEN CHOOSE k \in looks : FirstStop(h, key, k)
                  ELSE h.size - 1
  <1>2. x \in looks
    <2>1. CASE \E k \in looks : FirstStop(h, key, k)
      <3> DEFINE P(k) == FirstStop(h, key, k)
      <3>1. \E k \in looks : P(k)  BY <2>1
      <3> HIDE DEF P, looks
      <3>2. (CHOOSE k \in looks : P(k)) \in looks  BY <3>1
      <3> QED  BY <2>1, <3>2 DEF P
    <2>2. CASE ~ \E k \in looks : FirstStop(h, key, k)
      <3>1. x = h.size - 1  BY <2>2
      <3> QED  BY <3>1
    <2> QED  BY <2>1, <2>2
  <1>3. Hash_find_entry(h, key) = HashProbe(h, key, x)
    BY DEF Hash_find_entry
  <1> HIDE DEF x
  <1> QED  BY <1>1, <1>2, <1>3

(* What is found is an entry's packet. *)
LEMMA GetType ==
  ASSUME NEW K, NEW V, NEW n \in Nat \ {0}, NEW h \in HashOf(K, V, n),
         NEW key \in Nat
  PROVE  LET x == Hash_find_entry(h, key)
         IN  /\ x \in 0 .. n - 1
             /\ h.entries[x] = NULL => Hash_get(h, key) = NULL
             /\ h.entries[x] # NULL => /\ x \in HashUsed(h)
                                       /\ Hash_get(h, key) = h.entries[x].v
  <1>1. h.size = n /\ DOMAIN h.entries = 0 .. n - 1  BY DEF HashOf
  <1>2. Hash_find_entry(h, key) \in 0 .. n - 1  BY <1>1, FindEntryType
  <1> QED  BY <1>1, <1>2 DEF Hash_get, HashUsed

(* A new table is a table, and empty. *)
LEMMA ResetType ==
  ASSUME NEW K, NEW V, NEW n \in Nat \ {0}
  PROVE  /\ Hash_create(n) \in HashOf(K, V, n)
         /\ HashUsed(Hash_create(n)) = {}
  BY DEF Hash_create, HashOf, HashUsed

(* Forgetting an entry leaves a table with the other entries. *)
LEMMA ResetEntryType ==
  ASSUME NEW K, NEW V, NEW n \in Nat \ {0}, NEW h \in HashOf(K, V, n), NEW i
  PROVE  /\ Hash_reset_entry(h, i) \in HashOf(K, V, n)
         /\ HashUsed(Hash_reset_entry(h, i)) = HashUsed(h) \ {i}
         /\ \A j \in HashUsed(h) \ {i} :
              Hash_reset_entry(h, i).entries[j] = h.entries[j]
  <1>1. h.size = n /\ h.entries \in [0 .. n - 1 -> {NULL} \cup [k : K, v : V]]
    BY DEF HashOf
  <1> QED  BY <1>1 DEF Hash_reset_entry, HashOf, HashUsed

-----------------------------------------------------------------------------
(* The search of a key visits every entry. *)
LEMMA ProbesAll ==
  ASSUME NEW h, h.size \in Nat \ {0}, NEW key \in Nat,
         NEW i \in 0 .. h.size - 1
  PROVE  \E j \in 0 .. h.size - 1 : HashProbe(h, key, j) = i
  <1> DEFINE n == h.size
             a == key \div n
             x == key % n
             j == IF i < x THEN i - x + n ELSE i - x
  <1>1. n \in Nat \ {0} /\ i \in 0 .. n - 1  OBVIOUS
  <1>3. h.size = n  OBVIOUS
  <1> HIDE DEF n
  <1>2. key = n * a + x /\ x \in 0 .. n - 1 /\ a \in Int  BY <1>1, Division
  <1> HIDE DEF a, x
  <1>4. j \in 0 .. n - 1  BY <1>1, <1>2
  <1>5. (key + j) % n = i
    <2>1. CASE i < x
      <3>1. n * (a + 1) = n * a + n  BY <1>1, <1>2
      <3>2. key + j = n * (a + 1) + i  BY <1>1, <1>2, <2>1, <3>1
      <3>3. a + 1 \in Int /\ key + j \in Int  BY <1>2, <1>4
      <3> HIDE DEF j
      <3> QED  BY <1>1, <3>2, <3>3, RemainderIs
    <2>2. CASE ~ (i < x)
      <3>1. key + j = n * a + i  BY <1>1, <1>2, <2>2
      <3>2. key + j \in Int  BY <1>4
      <3> HIDE DEF j
      <3> QED  BY <1>1, <1>2, <3>1, <3>2, RemainderIs
    <2> QED  BY <2>1, <2>2
  <1> QED  BY <1>3, <1>4, <1>5 DEF HashProbe

(* ... and none of them twice. *)
LEMMA ProbesOnce ==
  ASSUME NEW h, h.size \in Nat \ {0}, NEW key \in Nat,
         NEW x \in 0 .. h.size - 1, NEW y \in 0 .. h.size - 1,
         HashProbe(h, key, x) = HashProbe(h, key, y)
  PROVE  x = y
  <1> DEFINE n == h.size
             a == (key + x) \div n
             b == (key + y) \div n
             z == (key + x) % n
  <1>1. n \in Nat \ {0} /\ x \in 0 .. n - 1 /\ y \in 0 .. n - 1  OBVIOUS
  <1>2. z = (key + y) % n  BY DEF HashProbe
  <1> HIDE DEF n
  <1>3. key + x \in Int /\ key + y \in Int  BY <1>1
  <1>4. /\ key + x = n * a + z /\ key + y = n * b + z
        /\ z \in 0 .. n - 1 /\ a \in Int /\ b \in Int
    BY <1>1, <1>2, <1>3, Division
  <1> HIDE DEF a, b, z
  <1>5. n * b + x = n * a + y  BY <1>1, <1>4
  <1> QED  BY <1>1, <1>4, <1>5, RemainderUnique

(* A search that can stop has a first stop, and that is where it ends. *)
LEMMA FirstStopExists ==
  ASSUME NEW h, h.size \in Nat \ {0}, NEW key,
         NEW x \in 0 .. h.size - 1, HashStops(h, key, x)
  PROVE  \E j \in 0 .. h.size - 1 : FirstStop(h, key, j)
  <1> DEFINE T == {j \in Nat : HashStops(h, key, j)}
  <1>1. T \in SUBSET Nat /\ x \in T  OBVIOUS
  <1>2. PICK j \in T : \A y \in T : j <= y  BY <1>1, LeastNatural
  <1>3. j \in 0 .. h.size - 1  BY <1>1, <1>2
  <1>4. \A y \in 0 .. j - 1 : y \in Nat /\ ~ (j <= y)  BY <1>3
  <1>5. FirstStop(h, key, j)  BY <1>2, <1>4 DEF FirstStop
  <1> QED  BY <1>3, <1>5

(* A search finds the first entry that stops it. *)
LEMMA FirstStopFound ==
  ASSUME NEW h, h.size \in Nat \ {0}, NEW key,
         NEW j \in 0 .. h.size - 1, FirstStop(h, key, j)
  PROVE  Hash_find_entry(h, key) = HashProbe(h, key, j)
  <1> DEFINE looks == 0 .. h.size - 1
             x == CHOOSE y \in looks : FirstStop(h, key, y)
  <1>1. x \in looks /\ FirstStop(h, key, x)
    <2> DEFINE P(y) == FirstStop(h, key, y)
    <2>1. P(j) /\ j \in looks  OBVIOUS
    <2> HIDE DEF P, looks
    <2>2. (CHOOSE y \in looks : P(y)) \in looks /\ P(CHOOSE y \in looks : P(y))
      BY <2>1
    <2> QED  BY <2>2 DEF P
  <1> HIDE DEF x
  <1>2. x = j
    <2>1. ~ (x < j)
      <3> SUFFICES ASSUME x < j PROVE FALSE
        OBVIOUS
      <3>1. x \in 0 .. j - 1  BY <1>1
      <3> QED  BY <1>1, <3>1 DEF FirstStop
    <2>2. ~ (j < x)
      <3> SUFFICES ASSUME j < x PROVE FALSE
        OBVIOUS
      <3>1. j \in 0 .. x - 1  BY <1>1
      <3> QED  BY <1>1, <3>1 DEF FirstStop
    <2> QED  BY <1>1, <2>1, <2>2
  <1>3. Hash_find_entry(h, key) = HashProbe(h, key, x)
    BY DEF Hash_find_entry, x
  <1> QED  BY <1>2, <1>3

(* The search ends at its first stop, or behind n entries of other keys. *)
LEMMA FindCases ==
  ASSUME NEW h, h.size \in Nat \ {0}, NEW key
  PROVE  \/ \E j \in 0 .. h.size - 1 : /\ FirstStop(h, key, j)
                                       /\ Hash_find_entry(h, key) = HashProbe(h, key, j)
         \/ /\ \A j \in 0 .. h.size - 1 : ~ HashStops(h, key, j)
            /\ Hash_find_entry(h, key) = HashProbe(h, key, h.size - 1)
  <1>1. CASE \E x \in 0 .. h.size - 1 : HashStops(h, key, x)
    <2>1. PICK j \in 0 .. h.size - 1 : FirstStop(h, key, j)
      BY <1>1, FirstStopExists
    <2> QED  BY <2>1, FirstStopFound
  <1>2. CASE ~ \E x \in 0 .. h.size - 1 : HashStops(h, key, x)
    <2>1. ~ \E j \in 0 .. h.size - 1 : FirstStop(h, key, j)
      BY <1>2 DEF FirstStop
    <2>2. Hash_find_entry(h, key) = HashProbe(h, key, h.size - 1)
      BY <2>1 DEF Hash_find_entry
    <2> QED  BY <1>2, <2>2
  <1> QED  BY <1>1, <1>2

(* Every entry in use is reached by the search for its key, at the first   *)
(* stop: EntriesFound, without the searches that end nowhere.              *)
Reached(h) ==
  \A i \in HashUsed(h) :
    \E j \in 0 .. h.size - 1 : /\ FirstStop(h, h.entries[i].k, j)
                               /\ HashProbe(h, h.entries[i].k, j) = i

(* In a table without gaps the search for an entry's key finds the entry. *)
LEMMA ReachedFound ==
  ASSUME NEW h, h.size \in Nat \ {0}, Reached(h), NEW i \in HashUsed(h)
  PROVE  Hash_find_entry(h, h.entries[i].k) = i
  BY FirstStopFound DEF Reached

(* The fields of a table. *)
LEMMA HashFields ==
  ASSUME NEW K, NEW V, NEW n \in Nat \ {0}, NEW h \in HashOf(K, V, n)
  PROVE  /\ h.size = n /\ DOMAIN h.entries = 0 .. n - 1
         /\ h = [size |-> n, entries |-> h.entries]
         /\ HashUsed(h) \subseteq 0 .. n - 1
         /\ \A i \in HashUsed(h) : h.entries[i] \in [k : K, v : V]
         /\ \A i \in HashUsed(h) : h.entries[i].k \in K /\ h.entries[i].v \in V
  BY DEF HashOf, HashUsed

(* As long as an entry is free, the search for a key ends at a free entry  *)
(* or at the key's.                                                        *)
LEMMA RoomFinds ==
  ASSUME NEW K \in SUBSET Nat, NEW V, NEW n \in Nat \ {0},
         NEW h \in HashOf(K, V, n), NEW key \in K,
         NEW i \in 0 .. n - 1, i \notin HashUsed(h)
  PROVE  LET x == Hash_find_entry(h, key)
         IN  x \in HashUsed(h) => h.entries[x].k = key
  <1>1. h.size = n /\ h.size \in Nat \ {0} /\ i \in 0 .. h.size - 1 /\ key \in Nat
    BY HashFields
  <1>2. h.entries[i] = NULL  BY HashFields DEF HashUsed
  <1>3. PICK j \in 0 .. h.size - 1 : HashProbe(h, key, j) = i
    BY <1>1, ProbesAll
  <1>4. HashStops(h, key, j)  BY <1>2, <1>3 DEF HashStops
  <1>5. PICK x \in 0 .. h.size - 1 : FirstStop(h, key, x)
    BY <1>1, <1>3, <1>4, FirstStopExists
  <1>6. Hash_find_entry(h, key) = HashProbe(h, key, x)
    BY <1>1, <1>5, FirstStopFound
  <1> QED  BY <1>5, <1>6 DEF FirstStop, HashStops, HashUsed

(* What an insertion changes, and that no key but the one inserted is lost *)
(* to the searches.                                                        *)
LEMMA InsertEntries ==
  ASSUME NEW K \in SUBSET Nat, NEW V, NEW n \in Nat \ {0},
         NEW h \in HashOf(K, V, n), NEW key \in K, NEW value \in V,
         NULL \notin [k : K, v : V]
  PROVE  LET x == Hash_find_entry(h, key)
             g == Hash_insert(h, key, value)
         IN  /\ x \in 0 .. n - 1
             /\ g \in HashOf(K, V, n)
             /\ g.entries[x] = [k |-> key, v |-> value]
             /\ \A i \in 0 .. n - 1 : i # x => g.entries[i] = h.entries[i]
             /\ HashUsed(g) = HashUsed(h) \cup {x}
  <1> DEFINE x == Hash_find_entry(h, key)
             g == Hash_insert(h, key, value)
  <1>1. h.size = n /\ key \in Nat  BY HashFields
  <1>2. x \in 0 .. n - 1  BY <1>1, FindEntryType
  <1>3. [k |-> key, v |-> value] \in [k : K, v : V]  OBVIOUS
  <1>4. /\ g = [size |-> n, entries |-> [h.entries EXCEPT ![x] = [k |-> key, v |-> value]]]
    BY <1>1 DEF Hash_insert
  <1>5. h.entries \in [0 .. n - 1 -> {NULL} \cup [k : K, v : V]]  BY DEF HashOf
  <1> HIDE DEF x, g
  <1>6. g \in HashOf(K, V, n)  BY <1>2, <1>3, <1>4, <1>5 DEF HashOf
  <1>7. /\ g.entries[x] = [k |-> key, v |-> value]
        /\ \A i \in 0 .. n - 1 : i # x => g.entries[i] = h.entries[i]
    BY <1>2, <1>4, <1>5
  <1>8. DOMAIN g.entries = 0 .. n - 1 /\ DOMAIN h.entries = 0 .. n - 1
    BY <1>5, <1>6, HashFields
  <1>9. HashUsed(g) = HashUsed(h) \cup {x}
    BY <1>2, <1>3, <1>7, <1>8 DEF HashUsed
  <1> QED  BY <1>2, <1>6, <1>7, <1>9 DEF x, g

(* Insertion leaves no gap, and no second entry for the key. *)
LEMMA InsertReached ==
  ASSUME NEW K \in SUBSET Nat, NEW V, NEW n \in Nat \ {0},
         NEW h \in HashOf(K, V, n), NEW key \in K, NEW value \in V,
         NULL \notin [k : K, v : V], Reached(h)
  PROVE  /\ Reached(Hash_insert(h, key, value))
         /\ \A i \in HashUsed(h) : i # Hash_find_entry(h, key)
                                     => h.entries[i].k # key
  <1> DEFINE x == Hash_find_entry(h, key)
             g == Hash_insert(h, key, value)
  <1>1. /\ h.size = n /\ h.size \in Nat \ {0} /\ key \in Nat
        /\ HashUsed(h) \subseteq 0 .. n - 1
    BY HashFields
  <1>2. /\ x \in 0 .. n - 1
        /\ g \in HashOf(K, V, n)
        /\ g.entries[x] = [k |-> key, v |-> value]
        /\ \A i \in 0 .. n - 1 : i # x => g.entries[i] = h.entries[i]
        /\ HashUsed(g) = HashUsed(h) \cup {x}
    BY InsertEntries
  <1>3. \A i \in HashUsed(h) : i # x => h.entries[i].k # key
    BY <1>1, ReachedFound
  <1>5. g.size = n /\ g.size \in Nat \ {0}  BY <1>2, HashFields
  <1>6. \A y, z : HashProbe(g, y, z) = HashProbe(h, y, z)
    BY <1>1, <1>5 DEF HashProbe
  <1>7. \A y \in Nat, z \in 0 .. n - 1 : HashProbe(h, y, z) \in 0 .. n - 1
    <2> SUFFICES ASSUME NEW y \in Nat, NEW z \in 0 .. n - 1
                 PROVE  HashProbe(h, y, z) \in 0 .. n - 1
      OBVIOUS
    <2>1. y + z \in Nat  OBVIOUS
    <2> DEFINE w == y + z
    <2>2. w \in Nat  BY <2>1
    <2> HIDE DEF w
    <2>3. w % n \in 0 .. n - 1  BY <2>2, ModRange
    <2> QED  BY <1>1, <2>3 DEF HashProbe, w
  <1>8. \A j \in 0 .. n - 1 : 0 .. j - 1 \subseteq 0 .. n - 1
    OBVIOUS
  <1>14. \A j \in 0 .. n - 1 : j \in 0 .. g.size - 1  BY <1>5
  <1> HIDE DEF x, g
  (* The search for the key inserted stops where it was inserted. *)
  <1>9. ASSUME NEW j \in 0 .. n - 1, HashProbe(h, key, j) = x,
               \A y \in 0 .. j - 1 : ~ HashStops(h, key, y)
        PROVE  FirstStop(g, key, j)
    <2>1. HashStops(g, key, j)  BY <1>2, <1>6, <1>9 DEF HashStops
    <2>2. ASSUME NEW y \in 0 .. j - 1, HashStops(g, key, y)  PROVE FALSE
      <3>1. ~ HashStops(h, key, y) /\ HashProbe(h, key, y) \in 0 .. n - 1
        BY <1>1, <1>7, <1>8, <1>9
      <3>2. HashProbe(h, key, y) = x
        BY <1>2, <1>6, <2>2, <3>1 DEF HashStops
      <3>3. y = j  BY <1>1, <1>8, <1>9, <3>2, ProbesOnce
      <3> QED  BY <3>3
    <2> QED  BY <2>1, <2>2 DEF FirstStop
  <1>10. \E j \in 0 .. n - 1 : FirstStop(g, key, j) /\ HashProbe(g, key, j) = x
    <2>1. CASE \E j \in 0 .. n - 1 : FirstStop(h, key, j) /\ x = HashProbe(h, key, j)
      <3>1. PICK j \in 0 .. n - 1 : FirstStop(h, key, j) /\ x = HashProbe(h, key, j)
        BY <2>1
      <3>2. FirstStop(g, key, j)  BY <1>9, <3>1 DEF FirstStop
      <3> QED  BY <1>6, <3>1, <3>2
    <2>2. CASE /\ \A j \in 0 .. n - 1 : ~ HashStops(h, key, j)
               /\ x = HashProbe(h, key, n - 1)
      <3>1. n - 1 \in 0 .. n - 1  OBVIOUS
      <3>2. FirstStop(g, key, n - 1)  BY <1>8, <1>9, <2>2, <3>1
      <3> QED  BY <1>6, <2>2, <3>1, <3>2
    <2> QED  BY <1>1, <2>1, <2>2, FindCases DEF x
  <1>11. ASSUME NEW i \in HashUsed(h), i # x
         PROVE  \E j \in 0 .. n - 1 : /\ FirstStop(g, h.entries[i].k, j)
                                      /\ HashProbe(g, h.entries[i].k, j) = i
    <2> DEFINE k == h.entries[i].k
    <2>1. PICK j \in 0 .. n - 1 : FirstStop(h, k, j) /\ HashProbe(h, k, j) = i
      BY <1>1, <1>11 DEF Reached
    <2>2. k \in Nat /\ i \in 0 .. n - 1 /\ k # key
      BY <1>1, <1>3, <1>11, HashFields
    <2> HIDE DEF k
    <2>3. HashStops(g, k, j)
      BY <1>2, <1>6, <1>11, <2>1, <2>2 DEF FirstStop, HashStops
    <2>4. ASSUME NEW y \in 0 .. j - 1, HashStops(g, k, y)  PROVE FALSE
      <3>1. y \in 0 .. n - 1 /\ ~ HashStops(h, k, y)  BY <1>8, <2>1 DEF FirstStop
      <3>2. HashProbe(h, k, y) \in 0 .. n - 1  BY <1>7, <2>2, <3>1
      <3>3. HashProbe(h, k, y) = x
        BY <1>2, <1>6, <2>4, <3>1, <3>2 DEF HashStops
      <3>4. g.entries[HashProbe(g, k, y)] = [k |-> key, v |-> value]
        BY <1>2, <1>6, <3>3
      <3>5. [k |-> key, v |-> value] # NULL  OBVIOUS
      <3> QED  BY <2>2, <2>4, <3>4, <3>5 DEF HashStops
    <2>5. FirstStop(g, k, j)  BY <2>3, <2>4 DEF FirstStop
    <2> QED  BY <1>6, <2>1, <2>5 DEF k
  <1>12. Reached(g)
    <2> SUFFICES ASSUME NEW i \in HashUsed(g)
                 PROVE  \E j \in 0 .. g.size - 1 : /\ FirstStop(g, g.entries[i].k, j)
                               /\ HashProbe(g, g.entries[i].k, j) = i
      BY DEF Reached
    <2>1. CASE i = x
      <3>1. g.entries[i].k = key  BY <1>2, <2>1
      <3> QED  BY <1>5, <1>10, <2>1, <3>1
    <2>2. CASE i # x
      <3>1. i \in HashUsed(h) /\ g.entries[i] = h.entries[i]  BY <1>1, <1>2, <2>2
      <3> QED  BY <1>5, <1>11, <2>2, <3>1
    <2> QED  BY <2>1, <2>2
  <1> QED  BY <1>3, <1>12 DEF x, g

(* If no more locos than entries are in use, the search for a loco never   *)
(* ends at another's entry: a full table holds them all.                   *)
LEMMA FitFinds ==
  ASSUME NEW K \in SUBSET Nat, NEW V, NEW n \in Nat \ {0},
         NEW h \in HashOf(K, V, n), Reached(h),
         IsFiniteSet(K), Cardinality(K) <= n, NEW key \in K
  PROVE  LET x == Hash_find_entry(h, key)
         IN  x \in HashUsed(h) => h.entries[x].k = key
  <1>1. /\ h.size = n /\ HashUsed(h) \subseteq 0 .. n - 1
        /\ \A i \in HashUsed(h) : h.entries[i].k \in K
        /\ h.size \in Nat \ {0}
    BY HashFields
  <1>2. CASE \E i \in 0 .. n - 1 : i \notin HashUsed(h)
    BY <1>2, RoomFinds
  <1>3. CASE \A i \in 0 .. n - 1 : i \in HashUsed(h)
    <2> DEFINE f == [i \in 0 .. n - 1 |-> h.entries[i].k]
    <2>1. f \in Injection(0 .. n - 1, K)
      <3>1. f \in [0 .. n - 1 -> K]  BY <1>1, <1>3
      <3>2. \A i, j \in 0 .. n - 1 : f[i] = f[j] => i = j
        BY <1>1, <1>3, ReachedFound
      <3> QED  BY <3>1, <3>2 DEF Injection, IsInjective
    <2>2. IsFiniteSet(0 .. n - 1) /\ Cardinality(0 .. n - 1) = n
      BY FS_Interval
    <2>5. Cardinality(K) \in Nat  BY FS_CardinalityType
    <2> HIDE DEF f
    <2>3. f \in Surjection(0 .. n - 1, K)
      <3>1. Cardinality(0 .. n - 1) <= Cardinality(K)
        BY <2>1, FS_Injection
      <3>2. Cardinality(0 .. n - 1) = Cardinality(K)  BY <2>2, <2>5, <3>1
      <3> QED  BY <2>1, <3>2, FS_Injection
    <2>4. PICK i \in 0 .. n - 1 : f[i] = key
      BY <2>3 DEF Surjection
    <2> QED  BY <1>1, <1>3, <2>4, ReachedFound DEF f
  <1> QED  BY <1>2, <1>3

-----------------------------------------------------------------------------
(* The locos that have turns, and those whose packets are kept. *)
Turns(c) == {Rota(c)[i] : i \in 1 .. Len(Rota(c))}
Keys(c) == {c.packets.entries[i].k : i \in HashUsed(c.packets)}

(* What holds of a cache between calls.  A cache with a free entry has not *)
(* forgotten anything, so the locos with turns are those with packets;     *)
(* a full one may give a turn to a loco whose packet was overwritten, but  *)
(* no call adds a turn to it.                                              *)
CacheSound(c, L, P, n) ==
  /\ c \in CacheOf(L, P, n)
  /\ Reached(c.packets)
  /\ RotaCounts(c)
  /\ Turns(c) \subseteq L
  /\ Turns(c) = Keys(c) \/ HashUsed(c.packets) = 0 .. n - 1

(* The parts of a cache. *)
LEMMA CacheFields ==
  ASSUME NEW L, NEW P, NEW n \in Nat \ {0}, NEW c \in CacheOf(L, P, n)
  PROVE  /\ c.addresses \in RingOf(L \cup {0}, n)
         /\ c.packets \in HashOf(L, P, n)
         /\ c = [addresses |-> c.addresses, packets |-> c.packets]
         /\ Rota(c) \in Seq(L \cup {0})
         /\ Len(Rota(c)) = c.addresses.count
         /\ IsFiniteSet(HashUsed(c.packets))
         /\ Cardinality(HashUsed(c.packets)) \in Nat
         /\ HashUsed(c.packets) # 0 .. n - 1 => Cardinality(HashUsed(c.packets)) < n
  <1>1. /\ c.addresses \in RingOf(L \cup {0}, n)
        /\ c.packets \in HashOf(L, P, n)
        /\ c = [addresses |-> c.addresses, packets |-> c.packets]
    BY DEF CacheOf
  <1>2. Rota(c) \in Seq(L \cup {0}) /\ Len(Rota(c)) = c.addresses.count
    BY <1>1, RingSeqType DEF Rota
  <1>3. HashUsed(c.packets) \in SUBSET (0 .. n - 1)  BY <1>1, HashFields
  <1>4. IsFiniteSet(0 .. n - 1) /\ Cardinality(0 .. n - 1) = n  BY FS_Interval
  <1>5. /\ IsFiniteSet(HashUsed(c.packets))
        /\ Cardinality(HashUsed(c.packets)) <= n
        /\ Cardinality(HashUsed(c.packets)) = n => HashUsed(c.packets) = 0 .. n - 1
    BY <1>3, <1>4, FS_Subset
  <1>6. Cardinality(HashUsed(c.packets)) \in Nat  BY <1>5, FS_CardinalityType
  <1> QED  BY <1>1, <1>2, <1>5, <1>6

(* A cache without packets and turns is sound. *)
LEMMA EmptySound ==
  ASSUME NEW L \in SUBSET Nat, NEW P, NEW n \in Nat \ {0}, NEW c,
         c.addresses \in RingOf(L \cup {0}, n), c.addresses.count = 0,
         c.packets \in HashOf(L, P, n), HashUsed(c.packets) = {},
         c = [addresses |-> c.addresses, packets |-> c.packets]
  PROVE  CacheSound(c, L, P, n) /\ Turns(c) = Keys(c) /\ Rota(c) = <<>>
  <1>1. c \in CacheOf(L, P, n)  BY DEF CacheOf
  <1>2. Rota(c) \in Seq(L \cup {0}) /\ Len(Rota(c)) = 0
    BY <1>1, CacheFields
  <1>3. RotaCounts(c)  BY <1>2, FS_EmptySet DEF RotaCounts
  <1>4. Turns(c) = {} /\ Keys(c) = {}  BY <1>2 DEF Turns, Keys
  <1>5. Reached(c.packets)  BY DEF Reached
  <1> QED  BY <1>1, <1>2, <1>3, <1>4, <1>5 DEF CacheSound

(* Clearing a cache, whatever is in it, leaves a sound and empty one. *)
LEMMA ClearSound ==
  ASSUME NEW L \in SUBSET Nat, NEW P, NEW n \in Nat \ {0}, NEW c,
         c.addresses.buf \in [0 .. n - 1 -> L \cup {0}],
         c.addresses.size = n, c.packets.size = n
  PROVE  /\ CacheSound(Cache_clear(c), L, P, n)
         /\ Rota(Cache_clear(c)) = <<>>
         /\ HashUsed(Cache_clear(c).packets) = {}
  <1> DEFINE d == Cache_clear(c)
  <1>1. /\ d.addresses = Ring_reset(c.addresses) /\ d.packets = Hash_create(n)
        /\ d = [addresses |-> d.addresses, packets |-> d.packets]
    BY DEF Cache_clear, Hash_reset
  <1>2. d.addresses \in RingOf(L \cup {0}, n) /\ d.addresses.count = 0
    BY <1>1 DEF Ring_reset, RingOf
  <1>3. d.packets \in HashOf(L, P, n) /\ HashUsed(d.packets) = {}
    BY <1>1, ResetType
  <1> HIDE DEF d
  <1>4. CacheSound(d, L, P, n) /\ Rota(d) = <<>>  BY <1>1, <1>2, <1>3, EmptySound
  <1> QED  BY <1>3, <1>4 DEF d

(* A new cache is sound and empty. *)
LEMMA CreateSound ==
  ASSUME NEW L \in SUBSET Nat, NEW P, NEW n \in Nat \ {0}
  PROVE  /\ CacheSound(Cache_module_init(n), L, P, n)
         /\ Rota(Cache_module_init(n)) = <<>>
         /\ HashUsed(Cache_module_init(n).packets) = {}
  <1> DEFINE d == Cache_module_init(n)
  <1>1. /\ d.addresses = Ring_create(n, [i \in 0 .. n - 1 |-> 0])
        /\ d.packets = Hash_create(n)
        /\ d = [addresses |-> d.addresses, packets |-> d.packets]
    BY DEF Cache_module_init
  <1>2. d.addresses \in RingOf(L \cup {0}, n) /\ d.addresses.count = 0
    BY <1>1 DEF Ring_create, Ring_reset, RingOf
  <1>3. d.packets \in HashOf(L, P, n) /\ HashUsed(d.packets) = {}
    BY <1>1, ResetType
  <1> HIDE DEF d
  <1>4. CacheSound(d, L, P, n) /\ Rota(d) = <<>>  BY <1>1, <1>2, <1>3, EmptySound
  <1> QED  BY <1>3, <1>4 DEF d

(* What the table says of a loco: NULL, or the packet of the entry found.  *)
LEMMA CacheGets ==
  ASSUME NEW L \in SUBSET Nat, NEW P, NEW n \in Nat \ {0},
         NEW c \in CacheOf(L, P, n), NEW l \in L, NULL \notin P
  PROVE  LET x == Hash_find_entry(c.packets, l)
         IN  /\ x \in 0 .. n - 1
             /\ x \in HashUsed(c.packets)
                  => /\ Cache_get(c, l) = c.packets.entries[x].v
                     /\ Cache_get(c, l) \in P /\ Cache_get(c, l) # NULL
             /\ x \notin HashUsed(c.packets) => Cache_get(c, l) = NULL
  <1>1. c.packets \in HashOf(L, P, n) /\ l \in Nat  BY CacheFields
  <1> DEFINE x == Hash_find_entry(c.packets, l)
             e == c.packets.entries[x]
  <1>2. /\ x \in 0 .. n - 1
        /\ e = NULL => Hash_get(c.packets, l) = NULL
        /\ e # NULL => x \in HashUsed(c.packets) /\ Hash_get(c.packets, l) = e.v
    BY <1>1, GetType
  <1>3. x \in HashUsed(c.packets) => e # NULL /\ e.v \in P
    BY <1>1, HashFields DEF HashUsed
  <1> HIDE DEF x, e
  <1>4. x \in HashUsed(c.packets)
          => Cache_get(c, l) = e.v /\ Cache_get(c, l) \in P /\ Cache_get(c, l) # NULL
    BY <1>2, <1>3 DEF Cache_get
  <1>5. x \notin HashUsed(c.packets) => Cache_get(c, l) = NULL
    BY <1>2 DEF Cache_get
  <1> QED  BY <1>2, <1>4, <1>5 DEF x, e

(* A loco whose search ends in a free entry has no packet in the table. *)
LEMMA CacheMisses ==
  ASSUME NEW L \in SUBSET Nat, NEW P, NEW n \in Nat \ {0},
         NEW c \in CacheOf(L, P, n), NEW l \in L,
         Hash_find_entry(c.packets, l) \notin HashUsed(c.packets)
  PROVE  Cache_get(c, l) = NULL
  <1>1. c.packets \in HashOf(L, P, n) /\ l \in Nat  BY CacheFields
  <1> DEFINE x == Hash_find_entry(c.packets, l)
             e == c.packets.entries[x]
  <1>2. /\ e = NULL => Hash_get(c.packets, l) = NULL
        /\ e # NULL => x \in HashUsed(c.packets)
    BY <1>1, GetType
  <1>3. e = NULL  BY <1>2
  <1>4. Hash_get(c.packets, l) = NULL  BY <1>2, <1>3
  <1> QED  BY <1>4 DEF Cache_get

(* From c to d loco l has got a turn, unless x is an entry that was taken. *)
TurnGiven(c, d, x, l) ==
  Rota(d) = IF x \in HashUsed(c.packets) THEN Rota(c) ELSE Append(Rota(c), l)

(* A packet that is cached keeps the cache sound, and gives its loco a     *)
(* turn exactly if it takes a free entry.                                  *)
LEMMA UpdateSound ==
  ASSUME NEW L \in SUBSET Nat, NEW P, NEW n \in Nat \ {0}, NEW c,
         CacheSound(c, L, P, n), NEW l \in L, NEW p \in P,
         NULL \notin P, NULL \notin [k : L, v : P],
         NEW x, x = Hash_find_entry(c.packets, l),
         NEW d, d = Cache_update(c, l, p)
  PROVE  /\ CacheSound(d, L, P, n)
         /\ TurnGiven(c, d, x, l)
  <1> SUFFICES /\ CacheSound(d, L, P, n)
               /\ Rota(d) = IF x \in HashUsed(c.packets) THEN Rota(c)
                            ELSE Append(Rota(c), l)
    BY DEF TurnGiven
  <1> DEFINE used == HashUsed(c.packets)
  <1>1. /\ c \in CacheOf(L, P, n) /\ Reached(c.packets) /\ RotaCounts(c)
        /\ Turns(c) \subseteq L
        /\ Turns(c) = Keys(c) \/ used = 0 .. n - 1
    BY DEF CacheSound
  <1>2. /\ c.addresses \in RingOf(L \cup {0}, n)
        /\ c.packets \in HashOf(L, P, n)
        /\ Rota(c) \in Seq(L \cup {0}) /\ Len(Rota(c)) = c.addresses.count
        /\ IsFiniteSet(used) /\ Cardinality(used) \in Nat
        /\ used # 0 .. n - 1 => Cardinality(used) < n
        /\ used \subseteq 0 .. n - 1
    <2>1. /\ c.addresses \in RingOf(L \cup {0}, n)
          /\ c.packets \in HashOf(L, P, n)
          /\ Rota(c) \in Seq(L \cup {0}) /\ Len(Rota(c)) = c.addresses.count
          /\ IsFiniteSet(used) /\ Cardinality(used) \in Nat
          /\ used # 0 .. n - 1 => Cardinality(used) < n
      BY <1>1, CacheFields
    <2> QED  BY <2>1, HashFields
  <1>3. d.packets = Hash_insert(c.packets, l, p)  BY DEF Cache_update
  <1>4. /\ x \in 0 .. n - 1
        /\ d.packets \in HashOf(L, P, n)
        /\ d.packets.entries[x] = [k |-> l, v |-> p]
        /\ \A i \in 0 .. n - 1 : i # x => d.packets.entries[i] = c.packets.entries[i]
        /\ HashUsed(d.packets) = used \cup {x}
    <2> DEFINE h == c.packets
               g == d.packets
    <2>1. h \in HashOf(L, P, n) /\ g = Hash_insert(h, l, p)  BY <1>2, <1>3
    <2>2. used = HashUsed(h) /\ x = Hash_find_entry(h, l)  OBVIOUS
    <2> HIDE DEF h, g, used
    <2>3. /\ x \in 0 .. n - 1 /\ g \in HashOf(L, P, n)
          /\ g.entries[x] = [k |-> l, v |-> p]
          /\ \A i \in 0 .. n - 1 : i # x => g.entries[i] = h.entries[i]
          /\ HashUsed(g) = used \cup {x}
      BY <2>1, <2>2, InsertEntries
    <2> QED  BY <2>3 DEF g, h
  <1>5. /\ Reached(d.packets)
        /\ \A i \in used : i # x => c.packets.entries[i].k # l
    <2> DEFINE h == c.packets
    <2>1. h \in HashOf(L, P, n) /\ Reached(h)  BY <1>1, <1>2
    <2> HIDE DEF h
    <2>2. /\ Reached(Hash_insert(h, l, p))
          /\ \A i \in HashUsed(h) : i # Hash_find_entry(h, l) => h.entries[i].k # l
      BY <2>1, InsertReached
    <2> QED  BY <1>3, <2>2 DEF h
  <1>6. /\ x \in used => Cache_get(c, l) # NULL
        /\ x \notin used => Cache_get(c, l) = NULL
    <2>1. x \in used => Cache_get(c, l) # NULL
      BY <1>1, CacheGets
    <2>2. ASSUME x \notin used PROVE Cache_get(c, l) = NULL
      <3>1. Hash_find_entry(c.packets, l) \notin HashUsed(c.packets)  BY <2>2
      <3> QED  BY <1>1, <3>1, CacheMisses
    <2> QED  BY <2>1, <2>2
  <1>7. /\ x \in used => d.addresses = c.addresses
        /\ x \notin used => d.addresses = Ring_push(c.addresses, l)
        /\ d = [addresses |-> d.addresses, packets |-> d.packets]
    BY <1>6 DEF Cache_update, Cache_get
  <1>8. Cardinality(used) = Len(Rota(c))
        /\ \A i, j \in 1 .. Len(Rota(c)) : Rota(c)[i] = Rota(c)[j] => i = j
    BY <1>1 DEF RotaCounts
  <1>9. CASE x \in used
    <2>1. d \in CacheOf(L, P, n)  BY <1>2, <1>4, <1>7, <1>9 DEF CacheOf
    <2>2. Rota(d) = Rota(c)  BY <1>7, <1>9 DEF Rota
    <2>3. HashUsed(d.packets) = used  BY <1>4, <1>9
    <2>4. RotaCounts(d)  BY <1>1, <2>2, <2>3 DEF RotaCounts
    <2>5. Turns(d) = Turns(c)  BY <2>2 DEF Turns
    <2>6. CASE used = 0 .. n - 1
      BY <1>1, <1>5, <1>9, <2>1, <2>2, <2>3, <2>4, <2>5, <2>6 DEF CacheSound
    <2>7. CASE used # 0 .. n - 1
      <3>1. PICK i \in 0 .. n - 1 : i \notin used  BY <1>2, <2>7
      <3>2. c.packets.entries[x].k = l  BY <1>2, <1>9, <3>1, RoomFinds
      <3>3. \A j \in used : d.packets.entries[j].k = c.packets.entries[j].k
        BY <1>2, <1>4, <3>2
      <3>4. Keys(d) = Keys(c)  BY <2>3, <3>3 DEF Keys
      <3> QED  BY <1>1, <1>5, <1>9, <2>1, <2>2, <2>4, <2>5, <2>7, <3>4 DEF CacheSound
    <2> QED  BY <2>6, <2>7
  <1>10. CASE x \notin used
    <2>1. used # 0 .. n - 1 /\ Turns(c) = Keys(c)  BY <1>1, <1>4, <1>10
    <2>2. c.addresses.count < n  BY <1>2, <1>8, <2>1
    <2>3. /\ d.addresses \in RingOf(L \cup {0}, n)
          /\ RingSeq(d.addresses) = Append(RingSeq(c.addresses), l)
      BY <1>2, <1>7, <1>10, <2>2, PushAppends
    <2>4. Rota(d) = Append(Rota(c), l)  BY <2>3 DEF Rota
    <2>5. d \in CacheOf(L, P, n)  BY <1>4, <1>7, <2>3 DEF CacheOf
    <2>6. l \notin Turns(c)  BY <1>5, <1>10, <2>1 DEF Keys
    <2> DEFINE s == Rota(c)
               m == Len(s)
    <2>7. /\ Len(Rota(d)) = m + 1 /\ Rota(d)[m + 1] = l /\ m \in Nat
          /\ \A i \in 1 .. m : Rota(d)[i] = s[i] /\ s[i] # l
      <3> DEFINE t == Rota(d)
      <3>1. s \in Seq(L \cup {0}) /\ t = Append(s, l) /\ m = Len(s)
        BY <1>2, <2>4
      <3>2. \A i \in 1 .. m : s[i] # l  BY <2>6 DEF Turns
      <3> HIDE DEF s, t, m
      <3>3. /\ Len(t) = m + 1 /\ t[m + 1] = l /\ m \in Nat
            /\ \A i \in 1 .. m : t[i] = s[i]
        BY <3>1
      <3> QED  BY <3>2, <3>3 DEF t
    <2> HIDE DEF m
    <2>8. Cardinality(HashUsed(d.packets)) = m + 1
      <3> HIDE DEF used
      <3>1. Cardinality(used \cup {x}) = Cardinality(used) + 1
        BY <1>2, <1>10, FS_AddElement
      <3> QED  BY <1>4, <1>8, <3>1 DEF m
    <2>9. ASSUME NEW i \in 1 .. m + 1, NEW j \in 1 .. m + 1, Rota(d)[i] = Rota(d)[j]
          PROVE  i = j
      <3>1. i \in 1 .. m \/ i = m + 1  BY <2>7
      <3>2. j \in 1 .. m \/ j = m + 1  BY <2>7
      <3>3. CASE i \in 1 .. m /\ j \in 1 .. m
        <4>1. s[i] = s[j]  BY <2>7, <2>9, <3>3
        <4> QED  BY <1>8, <3>3, <4>1 DEF m
      <3> QED  BY <2>7, <2>9, <3>1, <3>2, <3>3
    <2>10. RotaCounts(d)  BY <2>7, <2>8, <2>9 DEF RotaCounts
    <2>11. Turns(d) = Turns(c) \cup {l}
      <3>1. 1 .. m + 1 = (1 .. m) \cup {m + 1}  BY <2>7
      <3>2. Turns(d) = {Rota(d)[i] : i \in 1 .. m + 1}  BY <2>7 DEF Turns
      <3>3. Turns(c) = {s[i] : i \in 1 .. m}  BY DEF Turns, m
      <3> HIDE DEF s
      <3> QED  BY <2>7, <3>1, <3>2, <3>3
    <2>12. Keys(d) = Keys(c) \cup {l}
      <3>1. \A i \in used : i # x /\ d.packets.entries[i] = c.packets.entries[i]
        BY <1>2, <1>4, <1>10
      <3>2. d.packets.entries[x].k = l  BY <1>4
      <3> QED  BY <1>4, <3>1, <3>2 DEF Keys
    <2> QED
      BY <1>1, <1>5, <1>10, <2>1, <2>4, <2>5, <2>10, <2>11, <2>12 DEF CacheSound
  <1> QED  BY <1>9, <1>10

(* The loco that was served goes to the end of the turns. *)
LEMMA RotateSound ==
  ASSUME NEW L \in SUBSET Nat, NEW P, NEW n \in Nat \ {0}, NEW c,
         CacheSound(c, L, P, n)
  PROVE  /\ CacheSound(Cache_rotated(c), L, P, n)
         /\ Cache_rotated(c).packets = c.packets
         /\ Rota(c) = <<>> => Rota(Cache_rotated(c)) = <<>>
         /\ Rota(c) # <<>>
              => /\ c.addresses.count > 0
                 /\ Head(Rota(c)) = Ring_front(c.addresses)
                 /\ Rota(Cache_rotated(c)) = Append(Tail(Rota(c)), Head(Rota(c)))
  <1> DEFINE d == Cache_rotated(c)
             r == c.addresses
             s == Rota(c)
  <1>1. /\ c \in CacheOf(L, P, n) /\ Reached(c.packets) /\ RotaCounts(c)
        /\ Turns(c) \subseteq L
        /\ Turns(c) = Keys(c) \/ HashUsed(c.packets) = 0 .. n - 1
    BY DEF CacheSound
  <1>2. /\ r \in RingOf(L \cup {0}, n) /\ r.count \in 0 .. n
        /\ c.packets \in HashOf(L, P, n)
        /\ s \in Seq(L \cup {0}) /\ Len(s) = r.count
        /\ c = [addresses |-> c.addresses, packets |-> c.packets]
    <2> HIDE DEF r, s
    <2>1. /\ c.addresses \in RingOf(L \cup {0}, n)
          /\ c.packets \in HashOf(L, P, n)
          /\ Rota(c) \in Seq(L \cup {0}) /\ Len(Rota(c)) = c.addresses.count
      BY <1>1, CacheFields
    <2> USE DEF r, s
    <2>3. c = [addresses |-> c.addresses, packets |-> c.packets]
      BY <1>1 DEF CacheOf
    <2>2. r.count \in 0 .. n  BY <2>1 DEF RingOf
    <2> QED  BY <2>1, <2>2, <2>3
  <1>3. /\ d.packets = c.packets
        /\ d = [addresses |-> d.addresses, packets |-> d.packets]
        /\ d.addresses = IF r.count <= 0 THEN r
                         ELSE Ring_push(Ring_pop(r), Ring_front(r))
    BY DEF Cache_rotated
  <1>4. CASE r.count <= 0
    <2>1. d = c /\ s = <<>>  BY <1>2, <1>3, <1>4
    <2> QED  BY <1>3, <2>1
  <1>5. CASE r.count > 0
    <2>1. /\ Ring_pop(r) \in RingOf(L \cup {0}, n) /\ Ring_front(r) \in L \cup {0}
          /\ s # <<>> /\ Ring_front(r) = Head(s) /\ RingSeq(Ring_pop(r)) = Tail(s)
      <3> HIDE DEF r
      <3>1. /\ Ring_pop(r) \in RingOf(L \cup {0}, n) /\ Ring_front(r) \in L \cup {0}
            /\ RingSeq(r) # <<>> /\ Ring_front(r) = Head(RingSeq(r))
            /\ RingSeq(Ring_pop(r)) = Tail(RingSeq(r))
        BY <1>2, <1>5, PopTakesHead
      <3> QED  BY <3>1 DEF Rota, r
    <2>2. Ring_pop(r).count < n  BY <1>2, <1>5 DEF Ring_pop
    <2> DEFINE q == Ring_pop(r)
               a == Ring_front(r)
    <2>3. /\ Ring_push(q, a) \in RingOf(L \cup {0}, n)
          /\ RingSeq(Ring_push(q, a)) = Append(RingSeq(q), a)
      <3>1. q \in RingOf(L \cup {0}, n) /\ a \in L \cup {0} /\ q.count < n
        BY <2>1, <2>2
      <3> HIDE DEF q, a
      <3> QED  BY <3>1, PushAppends
    <2>4. d.addresses = Ring_push(q, a)  BY <1>2, <1>3, <1>5
    <2>5. Rota(d) = Append(Tail(s), Head(s))  BY <2>1, <2>3, <2>4 DEF Rota
    <2>6. d \in CacheOf(L, P, n)  BY <1>2, <1>3, <2>3, <2>4 DEF CacheOf
    <2> DEFINE t == Rota(d)
               m == Len(s)
    <2>7. /\ m \in Nat \ {0} /\ Len(t) = m /\ t[m] = s[1]
          /\ \A i \in 1 .. m - 1 : t[i] = s[i + 1]
      <3>1. Tail(s) \in Seq(L \cup {0}) /\ Len(Tail(s)) = m - 1 /\ m \in Nat \ {0}
            /\ \A i \in 1 .. m - 1 : Tail(s)[i] = s[i + 1]
            /\ Head(s) = s[1] /\ Head(s) \in L \cup {0}
        BY <1>2, <2>1
      <3> HIDE DEF t, s, m, d
      <3>2. t = Append(Tail(s), Head(s))  BY <2>5 DEF t
      <3> QED  BY <3>1, <3>2
    <2>8. /\ Cardinality(HashUsed(c.packets)) = m
          /\ \A i, j \in 1 .. m : s[i] = s[j] => i = j
      BY <1>1 DEF RotaCounts
    <2>9. Turns(d) = {t[i] : i \in 1 .. m} /\ Turns(c) = {s[i] : i \in 1 .. m}
      BY <2>7 DEF Turns
    <2> HIDE DEF t, s, m
    <2>10. \A i, j \in 1 .. m : t[i] = t[j] => i = j
      <3> SUFFICES ASSUME NEW i \in 1 .. m, NEW j \in 1 .. m, t[i] = t[j] PROVE i = j
        OBVIOUS
      <3>1. t[i] = IF i = m THEN s[1] ELSE s[i + 1]  BY <2>7
      <3>2. t[j] = IF j = m THEN s[1] ELSE s[j + 1]  BY <2>7
      <3>3. 1 \in 1 .. m /\ (i # m => i + 1 \in 1 .. m) /\ (j # m => j + 1 \in 1 .. m)
        BY <2>7
      <3>4. CASE i = m /\ j = m  BY <3>4
      <3>5. CASE i = m /\ j # m
        <4>1. t[i] = s[1]  BY <3>1, <3>5
        <4>2. t[j] = s[j + 1]  BY <3>2, <3>5
        <4>3. j + 1 = 1  BY <2>8, <3>3, <3>5, <4>1, <4>2
        <4> QED  BY <4>3
      <3>6. CASE i # m /\ j = m
        <4>1. t[i] = s[i + 1]  BY <3>1, <3>6
        <4>2. t[j] = s[1]  BY <3>2, <3>6
        <4>3. i + 1 = 1  BY <2>8, <3>3, <3>6, <4>1, <4>2
        <4> QED  BY <4>3
      <3>7. CASE i # m /\ j # m
        <4>1. s[i + 1] = s[j + 1]  BY <3>1, <3>2, <3>7
        <4>2. i + 1 = j + 1  BY <2>8, <3>3, <3>7, <4>1
        <4> QED  BY <4>2
      <3> QED  BY <3>4, <3>5, <3>6, <3>7
    <2>11. Turns(d) = Turns(c)
      <3>1. \A i \in 1 .. m : \E j \in 1 .. m : t[i] = s[j]
        <4> SUFFICES ASSUME NEW i \in 1 .. m PROVE \E j \in 1 .. m : t[i] = s[j]
          OBVIOUS
        <4>1. CASE i = m  BY <2>7, <4>1
        <4>2. CASE i # m  BY <2>7, <4>2
        <4> QED  BY <4>1, <4>2
      <3>2. \A i \in 1 .. m : \E j \in 1 .. m : s[i] = t[j]
        <4> SUFFICES ASSUME NEW i \in 1 .. m PROVE \E j \in 1 .. m : s[i] = t[j]
          OBVIOUS
        <4>1. CASE i = 1
          <5>1. m \in 1 .. m /\ t[m] = s[i]  BY <2>7, <4>1
          <5> QED  BY <5>1
        <4>2. CASE i # 1
          <5>1. i - 1 \in 1 .. m - 1 /\ i - 1 \in 1 .. m /\ i - 1 + 1 = i  BY <2>7, <4>2
          <5> QED  BY <2>7, <5>1
        <4> QED  BY <4>1, <4>2
      <3>3. {t[i] : i \in 1 .. m} \subseteq {s[i] : i \in 1 .. m}  BY <3>1
      <3>4. {s[i] : i \in 1 .. m} \subseteq {t[i] : i \in 1 .. m}  BY <3>2
      <3>5. {t[i] : i \in 1 .. m} = {s[i] : i \in 1 .. m}  BY <3>3, <3>4
      <3> HIDE DEF d
      <3> QED  BY <2>9, <3>5
    <2>12. RotaCounts(d)
      BY <1>3, <2>7, <2>8, <2>10 DEF RotaCounts, t
    <2>13. Keys(d) = Keys(c)  BY <1>3 DEF Keys
    <2>14. CacheSound(d, L, P, n)
      BY <1>1, <1>3, <2>6, <2>11, <2>12, <2>13 DEF CacheSound
    <2> QED  BY <1>3, <1>5, <2>1, <2>5, <2>14 DEF s
  <1> QED  BY <1>2, <1>4, <1>5

(* A loco whose search ends in an entry in use has that entry's packet. *)
LEMMA CacheHits ==
  ASSUME NEW L \in SUBSET Nat, NEW P, NEW n \in Nat \ {0},
         NEW c \in CacheOf(L, P, n), NEW l \in L, NULL \notin P,
         NEW x, x = Hash_find_entry(c.packets, l), x \in HashUsed(c.packets)
  PROVE  Cache_get(c, l) = c.packets.entries[x].v
  <1> DEFINE h == c.packets
  <1>1. h \in HashOf(L, P, n) /\ l \in Nat  BY CacheFields
  <1>2. h.entries[x] # NULL  BY DEF HashUsed
  <1>3. x = Hash_find_entry(h, l)  OBVIOUS
  <1>4. Hash_get(h, l) = h.entries[x].v
    <2> HIDE DEF h
    <2> QED  BY <1>1, <1>2, <1>3, GetType
  <1> QED  BY <1>4 DEF Cache_get

(* What caching a packet does to the entries.  No other entry is the loco's. *)
LEMMA UpdateEntries ==
  ASSUME NEW L \in SUBSET Nat, NEW P, NEW n \in Nat \ {0},
         NEW c \in CacheOf(L, P, n), Reached(c.packets), NEW l \in L, NEW p \in P,
         NULL \notin P, NULL \notin [k : L, v : P],
         NEW x, x = Hash_find_entry(c.packets, l),
         NEW d, d = Cache_update(c, l, p).packets
  PROVE  /\ x \in 0 .. n - 1
         /\ d.entries[x].k = l /\ d.entries[x].v = p
         /\ HashUsed(d) = HashUsed(c.packets) \cup {x}
         /\ \A j \in HashUsed(c.packets) :
              j # x => /\ d.entries[j] = c.packets.entries[j]
                       /\ c.packets.entries[j].k # l
  <1> DEFINE h == c.packets
  <1>1. h \in HashOf(L, P, n) /\ Reached(h) /\ x = Hash_find_entry(h, l)
    BY CacheFields
  <1>2. d = Hash_insert(h, l, p)  BY DEF Cache_update
  <1>3. HashUsed(h) = HashUsed(c.packets) /\ h.entries = c.packets.entries  OBVIOUS
  <1> HIDE DEF h
  <1>4. /\ x \in 0 .. n - 1
        /\ d.entries[x] = [k |-> l, v |-> p]
        /\ \A j \in 0 .. n - 1 : j # x => d.entries[j] = h.entries[j]
        /\ HashUsed(d) = HashUsed(h) \cup {x}
    BY <1>1, <1>2, InsertEntries
  <1>5. \A j \in HashUsed(h) : j # x => h.entries[j].k # l
    BY <1>1, InsertReached
  <1>6. HashUsed(h) \subseteq 0 .. n - 1  BY <1>1, HashFields
  <1>7. d.entries[x].k = l /\ d.entries[x].v = p  BY <1>4
  <1>8. \A j \in HashUsed(h) : j # x => d.entries[j] = h.entries[j] /\ h.entries[j].k # l
    BY <1>4, <1>5, <1>6
  <1> QED  BY <1>3, <1>4, <1>7, <1>8

(* What it frees: the packet of the entry it overwrites. *)
LEMMA UpdateFrees ==
  ASSUME NEW L \in SUBSET Nat, NEW P, NEW n \in Nat \ {0},
         NEW c \in CacheOf(L, P, n), NEW l \in L, NULL \notin P,
         NEW x, x = Hash_find_entry(c.packets, l), NEW a
  PROVE  a \in Cache_update_frees(c, l)
           <=> x \in HashUsed(c.packets) /\ a = c.packets.entries[x].v
  <1>1. Cache_update_frees(c, l) = {Cache_get(c, l)} \ {NULL}
    BY DEF Cache_update_frees, Cache_get
  <1>2. CASE x \in HashUsed(c.packets)
    <2>1. Cache_get(c, l) = c.packets.entries[x].v  BY <1>2, CacheHits
    <2>2. Cache_get(c, l) # NULL  BY <1>2, CacheGets
    <2> QED  BY <1>1, <1>2, <2>1, <2>2
  <1>3. CASE x \notin HashUsed(c.packets)
    <2>1. Cache_get(c, l) = NULL  BY <1>3, CacheMisses
    <2> QED  BY <1>1, <1>3, <2>1
  <1> QED  BY <1>2, <1>3

(* The table has a packet for the loco of each entry: that entry's. *)
LEMMA GetsKept ==
  ASSUME NEW L \in SUBSET Nat, NEW P, NEW n \in Nat \ {0},
         NEW c \in CacheOf(L, P, n), Reached(c.packets), NULL \notin P,
         NEW j \in HashUsed(c.packets)
  PROVE  Cache_get(c, c.packets.entries[j].k) = c.packets.entries[j].v
  <1> DEFINE h == c.packets
             l == h.entries[j].k
  <1>1. h \in HashOf(L, P, n)  BY CacheFields
  <1>2. h.size \in Nat \ {0} /\ l \in L /\ j \in HashUsed(h)
    <2> HIDE DEF h
    <2>1. j \in HashUsed(h)  BY DEF h
    <2> QED  BY <1>1, <2>1, HashFields
  <1>3. Hash_find_entry(h, l) = j
    <2>1. Reached(h)  OBVIOUS
    <2> HIDE DEF h
    <2> QED  BY <1>2, <2>1, ReachedFound
  <1>4. l \in Nat /\ h.entries[j] # NULL  BY <1>2 DEF HashUsed
  <1>5. Hash_get(h, l) = h.entries[j].v
    <2> HIDE DEF h, l
    <2> QED  BY <1>1, <1>3, <1>4, GetType
  <1>6. Cache_get(c, l) = h.entries[j].v
    <2> HIDE DEF l
    <2> QED  BY <1>5 DEF Cache_get
  <1> QED  BY <1>6

(* If the locos fit, those with turns are exactly those with packets, and  *)
(* a loco without one gets none.                                           *)
LEMMA FitListed ==
  ASSUME NEW L \in SUBSET Nat, NEW P, NEW n \in Nat \ {0}, NEW c,
         CacheSound(c, L, P, n), IsFiniteSet(L), Cardinality(L) <= n
  PROVE  Turns(c) = Keys(c)
  <1> DEFINE h == c.packets
             s == Rota(c)
  <1>1. /\ c \in CacheOf(L, P, n) /\ RotaCounts(c) /\ Turns(c) \subseteq L
        /\ Turns(c) = Keys(c) \/ HashUsed(h) = 0 .. n - 1
    BY DEF CacheSound
  <1>2. h \in HashOf(L, P, n) /\ Reached(h)  BY <1>1, CacheFields DEF CacheSound
  <1>3. Cardinality(L) \in Nat  BY FS_CardinalityType
  <1>4. CASE HashUsed(h) = 0 .. n - 1
    <2>1. IsFiniteSet(0 .. n - 1) /\ Cardinality(0 .. n - 1) = n  BY FS_Interval
    <2>2. IsFiniteSet(1 .. n) /\ Cardinality(1 .. n) = n  BY FS_Interval
    <2>3. Len(s) = n /\ \A i, j \in 1 .. n : s[i] = s[j] => i = j
      BY <1>1, <1>4, <2>1 DEF RotaCounts
    <2>4. \A i \in 1 .. n : s[i] \in L  BY <1>1, <2>3 DEF Turns
    <2>5. /\ \A i \in 0 .. n - 1 : h.entries[i].k \in L
          /\ \A i \in 0 .. n - 1 : Hash_find_entry(h, h.entries[i].k) = i
      <3> HIDE DEF h
      <3> QED  BY <1>2, <1>4, HashFields, ReachedFound
    <2> DEFINE f == [i \in 1 .. n |-> s[i]]
               g == [i \in 0 .. n - 1 |-> h.entries[i].k]
    <2>6. f \in Injection(1 .. n, L)
      <3>1. f \in [1 .. n -> L]  BY <2>4
      <3>2. \A i, j \in 1 .. n : f[i] = f[j] => i = j  BY <2>3
      <3> QED  BY <3>1, <3>2 DEF Injection, IsInjective
    <2>7. g \in Injection(0 .. n - 1, L)
      <3>1. g \in [0 .. n - 1 -> L]  BY <2>5
      <3>2. \A i, j \in 0 .. n - 1 : g[i] = g[j] => i = j  BY <2>5
      <3> QED  BY <3>1, <3>2 DEF Injection, IsInjective
    <2>8. \A i \in 1 .. n : f[i] = s[i]  OBVIOUS
    <2>9. \A i \in 0 .. n - 1 : g[i] = h.entries[i].k  OBVIOUS
    <2> HIDE DEF f, g, s
    <2>10. f \in Surjection(1 .. n, L)
      <3>1. Cardinality(1 .. n) <= Cardinality(L)  BY <2>6, FS_Injection
      <3>2. Cardinality(1 .. n) = Cardinality(L)  BY <1>3, <2>2, <3>1
      <3> QED  BY <2>6, <3>2, FS_Injection
    <2>11. g \in Surjection(0 .. n - 1, L)
      <3>1. Cardinality(0 .. n - 1) <= Cardinality(L)  BY <2>7, FS_Injection
      <3>2. Cardinality(0 .. n - 1) = Cardinality(L)  BY <1>3, <2>1, <3>1
      <3> QED  BY <2>7, <3>2, FS_Injection
    <2>12. Turns(c) = L
      <3>1. \A l \in L : \E i \in 1 .. n : s[i] = l
        BY <2>8, <2>10 DEF Surjection
      <3>2. Turns(c) = {s[i] : i \in 1 .. n}  BY <2>3 DEF Turns, s
      <3> QED  BY <2>4, <3>1, <3>2
    <2>13. Keys(c) = L
      <3>1. \A l \in L : \E i \in 0 .. n - 1 : h.entries[i].k = l
        BY <2>9, <2>11 DEF Surjection
      <3>2. Keys(c) = {h.entries[i].k : i \in 0 .. n - 1}  BY <1>4 DEF Keys
      <3>3. \A i \in 0 .. n - 1 : h.entries[i].k \in L  BY <2>5
      <3> HIDE DEF h
      <3> QED  BY <3>1, <3>2, <3>3
    <2> QED  BY <2>12, <2>13
  <1> QED  BY <1>1, <1>4

(* If the keys fit, a search finds nothing for a key without a packet. *)
LEMMA FitGets ==
  ASSUME NEW L \in SUBSET Nat, NEW P, NEW n \in Nat \ {0}, NEW c,
         CacheSound(c, L, P, n), NULL \notin P,
         IsFiniteSet(L), Cardinality(L) <= n, NEW l \in L, l \notin Keys(c)
  PROVE  Cache_get(c, l) = NULL
  <1> DEFINE h == c.packets
             x == Hash_find_entry(h, l)
  <1>1. c \in CacheOf(L, P, n) /\ Reached(h)  BY DEF CacheSound
  <1>2. h \in HashOf(L, P, n)  BY <1>1, CacheFields
  <1>3. x \in HashUsed(h) => h.entries[x].k = l
    <2>1. Reached(h)  BY <1>1
    <2> HIDE DEF h
    <2> QED  BY <1>2, <2>1, FitFinds
  <1>4. Hash_find_entry(c.packets, l) \notin HashUsed(c.packets)
    BY <1>3 DEF Keys
  <1> QED  BY <1>1, <1>4, CacheMisses

(* A loco whose turn it is always has a packet to be sent: the interrupt   *)
(* idles only if no loco has a turn.                                       *)
LEMMA NextPacket ==
  ASSUME NEW L \in SUBSET Nat, NEW P, NEW n \in Nat \ {0}, NEW c,
         CacheSound(c, L, P, n), NULL \notin P
  PROVE  /\ Rota(c) = <<>> => Cache_get_next_packet(c) = NULL
         /\ Rota(c) # <<>>
              => /\ Head(Rota(c)) \in L
                 /\ Cache_get_next_packet(c) = Cache_get(c, Head(Rota(c)))
                 /\ \E j \in HashUsed(c.packets) :
                      Cache_get_next_packet(c) = c.packets.entries[j].v
  <1>1. /\ c \in CacheOf(L, P, n) /\ Reached(c.packets) /\ Turns(c) \subseteq L
        /\ Turns(c) = Keys(c) \/ HashUsed(c.packets) = 0 .. n - 1
    BY DEF CacheSound
  <1>2. /\ Rota(c) \in Seq(L \cup {0}) /\ Len(Rota(c)) = c.addresses.count
        /\ c.addresses \in RingOf(L \cup {0}, n)
    BY <1>1, CacheFields
  <1>3. CASE Rota(c) = <<>>
    BY <1>2, <1>3 DEF Cache_get_next_packet
  <1>4. CASE Rota(c) # <<>>
    <2> DEFINE a == Head(Rota(c))
    <2>1. /\ c.addresses.count > 0 /\ a = Ring_front(c.addresses)
      BY <1>4, RotateSound
    <2>2. a \in Turns(c)
      <3>1. a = Rota(c)[1] /\ 1 \in 1 .. Len(Rota(c))  BY <1>2, <1>4
      <3> QED  BY <3>1 DEF Turns
    <2>3. a \in L  BY <1>1, <2>2
    <2>4. Cache_get_next_packet(c) = Cache_get(c, a)
      <3>1. ~ (c.addresses.count <= 0)  BY <1>2, <2>1 DEF RingOf
      <3> QED  BY <2>1, <3>1 DEF Cache_get_next_packet, Cache_get
    <2>5. \E j \in HashUsed(c.packets) : Cache_get(c, a) = c.packets.entries[j].v
      <3> HIDE DEF a
      <3>1. CASE Turns(c) = Keys(c)
        <4>1. PICK j \in HashUsed(c.packets) : a = c.packets.entries[j].k
          BY <2>2, <3>1 DEF Keys
        <4>2. Cache_get(c, c.packets.entries[j].k) = c.packets.entries[j].v
          BY <1>1, <4>1, GetsKept
        <4> QED  BY <4>1, <4>2
      <3>2. CASE HashUsed(c.packets) = 0 .. n - 1
        <4>1. PICK x \in 0 .. n - 1 : x = Hash_find_entry(c.packets, a)
          BY <1>1, <2>3, CacheGets
        <4>2. x \in HashUsed(c.packets)  BY <3>2
        <4>3. Cache_get(c, a) = c.packets.entries[x].v
          BY <1>1, <2>3, <4>1, <4>2, CacheHits
        <4> QED  BY <4>2, <4>3
      <3> QED  BY <1>1, <3>1, <3>2
    <2> QED  BY <1>4, <2>3, <2>4, <2>5
  <1> QED  BY <1>3, <1>4

=============================================================================
