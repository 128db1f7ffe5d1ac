---------------------------- MODULE SegmentProofs ----------------------------
(***************************************************************************)
(* Proofs about Segment, for every page size, partition, number of entries *)
(* on an FSM and on an index page, and set of tuple sizes.  The invariant  *)
(* SegInv says which pages the three lists of a segment have, in memory or *)
(* to be found by a boot, and what is on them (Laid, Written): a page is   *)
(* in one list and once, the FSMs are linked in the order of their list,   *)
(* and every identifier ever given is that of a record.  The records of a  *)
(* page lie in order (Sound).                                              *)
(*                                                                         *)
(* Fits is the one hypothesis, where it is needed: a shutdown with more    *)
(* data pages than the index pages take writes only the first of them, and *)
(* the boot after it finds no more.                                        *)
(***************************************************************************)
EXTENDS Segment, FiniteSetTheorems, SequenceTheorems, TLAPS

-----------------------------------------------------------------------------
(* Natural numbers, and the pages a partition gives.                        *)

(* A set of natural numbers with an element has a least one.                *)
LEMMA Least ==
  ASSUME NEW T \in SUBSET Nat, NEW t \in T
  PROVE  \E x \in T : \A y \in T : x <= y
<1>1. \E R : IsWellFoundedOn(R, Nat) /\ \A i, j \in Nat : i < j => <<i, j>> \in R
  <2>1. IsWellFoundedOn(OpToRel(<, Nat), Nat)
    BY NatLessThanWellFounded
  <2>2. \A i, j \in Nat : i < j => <<i, j>> \in OpToRel(<, Nat)
    BY DEF OpToRel
  <2>3. QED
    BY <2>1, <2>2
<1>2. PICK R : IsWellFoundedOn(R, Nat) /\ \A i, j \in Nat : i < j => <<i, j>> \in R
  BY <1>1
<1>3. T # {} /\ T \subseteq Nat /\ IsWellFoundedOn(R, Nat)
  BY <1>2
<1>4. \E x \in T : \A y \in T : ~ (<<y, x>> \in R)
  BY ONLY <1>3, WFMin
<1>5. PICK x \in T : \A y \in T : ~ (<<y, x>> \in R)
  BY <1>4
<1>6. ASSUME NEW y \in T PROVE x <= y
  <2>1. x \in Nat /\ y \in Nat /\ ~ (<<y, x>> \in R)
    BY <1>3, <1>5
  <2>2. QED
    BY <1>2, <2>1
<1>7. QED
  BY <1>6

(* Induction over the natural numbers, for sets.                            *)
LEMMA Induction ==
  ASSUME NEW S \in SUBSET Nat, 0 \in S, \A n \in S : n + 1 \in S
  PROVE  S = Nat
<1> SUFFICES ASSUME S # Nat PROVE FALSE
  OBVIOUS
<1>1. PICK x \in Nat \ S : \A y \in Nat \ S : x <= y
  <2>1. PICK t : t \in Nat \ S
    OBVIOUS
  <2>2. Nat \ S \in SUBSET Nat
    OBVIOUS
  <2>3. QED
    BY <2>1, <2>2, Least
<1>2. x - 1 \in S /\ x - 1 + 1 = x
  BY <1>1
<1>3. QED
  BY <1>1, <1>2

-----------------------------------------------------------------------------
(* The greatest number of a finite set.                                     *)
LEMMA Greatest ==
  ASSUME NEW P \in SUBSET Nat, IsFiniteSet(P), P # {}
  PROVE  \E m \in P : \A p \in P : p <= m
<1> DEFINE S == {n \in Nat : \A Q \in SUBSET Nat :
                   IsFiniteSet(Q) /\ Cardinality(Q) = n /\ Q # {} => \E m \in Q : \A p \in Q : p <= m}
<1>1. 0 \in S
  <2>1. \A Q : IsFiniteSet(Q) /\ Cardinality(Q) = 0 => Q = {}
    BY FS_EmptySet
  <2>2. QED
    BY <2>1
<1>2. ASSUME NEW n \in S PROVE n + 1 \in S
  <2> SUFFICES ASSUME NEW Q \in SUBSET Nat, IsFiniteSet(Q), Cardinality(Q) = n + 1, Q # {}
               PROVE  \E m \in Q : \A p \in Q : p <= m
    OBVIOUS
  <2>1. PICK x : x \in Q
    OBVIOUS
  <2>2. IsFiniteSet(Q \ {x}) /\ Cardinality(Q \ {x}) = n
    <3>1. Cardinality(Q \ {x}) = Cardinality(Q) - 1 /\ IsFiniteSet(Q \ {x})
      BY <2>1, FS_RemoveElement
    <3>2. QED
      BY <3>1
  <2>3. CASE Q \ {x} = {}
    BY <2>1, <2>3
  <2>4. CASE Q \ {x} # {}
    <3>1. Q \ {x} \in SUBSET Nat
      OBVIOUS
    <3>2. PICK m \in Q \ {x} : \A p \in Q \ {x} : p <= m
      BY <2>2, <2>4, <3>1
    <3>3. CASE x <= m
      BY <3>2, <3>3
    <3>4. CASE ~ (x <= m)
      <4>1. x \in Nat /\ m \in Nat /\ m < x
        BY <2>1, <3>2, <3>4
      <4>2. \A p \in Q : p <= x
        BY <2>1, <3>2, <4>1
      <4>3. QED
        BY <2>1, <4>2
    <3>5. QED
      BY <3>3, <3>4
  <2>5. QED
    BY <2>3, <2>4
<1>3. S = Nat
  <2> HIDE DEF S
  <2>1. S \in SUBSET Nat
    BY DEF S
  <2>2. QED
    BY <1>1, <1>2, <2>1, Induction
<1>4. Cardinality(P) \in Nat
  BY FS_CardinalityType
<1>5. QED
  BY <1>3, <1>4

(* MaxLimit is the largest partition.                                       *)
LEMMA Limits == MaxLimit \in Nat /\ \A l \in Layouts : l.pages \in Nat /\ l.pages <= MaxLimit
<1> DEFINE P == {l.pages : l \in Layouts}
<1>1. P \in SUBSET Nat /\ P # {} /\ \A l \in Layouts : l.pages \in P
  BY SegmentAssumption
<1>2. IsFiniteSet(P)
  <2> DEFINE f == [l \in Layouts |-> l.pages]
  <2>1. P = {f[l] : l \in Layouts} /\ f \in [Layouts -> P]
    OBVIOUS
  <2>2. f \in Surjection(Layouts, P)
    BY <2>1 DEF Surjection
  <2>3. QED
    BY <2>2, SegmentAssumption, FS_Surjection
<1>3. PICK m \in P : \A p \in P : p <= m
  BY <1>1, <1>2, Greatest
<1>4. MaxLimit \in P /\ \A l \in Layouts : l.pages <= MaxLimit
  <2>1. \E n \in P : \A l \in Layouts : l.pages <= n
    BY <1>1, <1>3
  <2>2. QED
    BY <2>1 DEF MaxLimit
<1>5. QED
  BY <1>1, <1>4

-----------------------------------------------------------------------------
(* The k-th page the partition would give.                                  *)
LEMMA GrantedIs ==
  ASSUME layout \in Layouts, NEW k \in Nat \ {0}, CanAlloc(k)
  PROVE  Granted(k) \in Available /\ Cardinality({q \in Available : q <= Granted(k)}) = k
<1> DEFINE A == Available
           upto(n) == {q \in A : q <= n}
           T == {n \in Nat : Cardinality(upto(n)) >= k}
<1>1. layout.pages \in Nat /\ A \subseteq 1 .. layout.pages /\ IsFiniteSet(A) /\ Cardinality(A) >= k
  <2>1. layout.pages \in Nat
    BY Limits
  <2>2. IsFiniteSet(1 .. layout.pages)
    BY <2>1, FS_Interval
  <2>3. A \subseteq 1 .. layout.pages
    BY DEF Available
  <2>4. QED
    BY <2>1, <2>2, <2>3, FS_Subset DEF CanAlloc
<1>a. A \subseteq Nat /\ \A q \in A : q # 0 /\ q <= layout.pages
  BY <1>1
<1> HIDE DEF A
<1>2. \A n \in Nat : IsFiniteSet(upto(n)) /\ Cardinality(upto(n)) \in Nat
  <2>1. \A n \in Nat : upto(n) \subseteq A
    OBVIOUS
  <2>2. QED
    BY <1>1, <2>1, FS_Subset, FS_CardinalityType
<1>3. layout.pages \in T
  <2>1. upto(layout.pages) = A
    BY <1>a
  <2>2. QED
    BY <1>1, <2>1
<1>4. PICK x \in T : \A y \in T : x <= y
  <2>1. T \in SUBSET Nat
    OBVIOUS
  <2> HIDE DEF T
  <2>2. QED
    BY <1>3, <2>1, Least
<1>5. x \in Nat /\ x # 0
  <2>1. \A q \in A : ~ (q <= 0)
    BY <1>a
  <2>a. upto(0) = {}
    BY <2>1
  <2>2. 0 \notin T
    BY <2>a, FS_EmptySet
  <2>3. QED
    BY <2>2
<1>6. Cardinality(upto(x - 1)) < k /\ Cardinality(upto(x)) >= k
  <2>1. x - 1 \in Nat /\ x - 1 \notin T
    BY <1>4, <1>5
  <2>2. Cardinality(upto(x - 1)) \in Nat
    BY <1>2, <2>1
  <2>3. QED
    BY <2>1, <2>2
<1>7. x \in A
  <2> SUFFICES ASSUME x \notin A PROVE FALSE
    OBVIOUS
  <2>a. \A q \in A : q <= x <=> q <= x - 1
    BY <1>a, <1>5
  <2>1. upto(x) = upto(x - 1)
    BY <2>a
  <2>2. x - 1 \in Nat
    BY <1>5
  <2>3. QED
    BY <1>2, <1>6, <2>1, <2>2
<1>8. upto(x) = upto(x - 1) \cup {x} /\ x \notin upto(x - 1)
  <2>1. \A q \in A : q <= x <=> q <= x - 1 \/ q = x
    BY <1>a, <1>5
  <2>2. ~ (x <= x - 1)
    BY <1>5
  <2>3. QED
    BY <1>7, <2>1, <2>2
<1>9. Cardinality(upto(x)) = k
  <2>1. x - 1 \in Nat
    BY <1>5
  <2>2. IsFiniteSet(upto(x - 1)) /\ Cardinality(upto(x - 1)) \in Nat
    BY <1>2, <2>1
  <2> HIDE DEF upto
  <2>3. Cardinality(upto(x)) = Cardinality(upto(x - 1)) + 1
    BY <1>8, <2>2, FS_AddElement
  <2>4. QED
    BY <1>6, <2>2, <2>3
<1>10. \E p \in Available : Cardinality({q \in Available : q <= p}) = k
  BY <1>7, <1>9 DEF A
<1>11. QED
  BY <1>10 DEF Granted

(* What is given next is free, and is given once.                           *)
LEMMA Grants ==
  ASSUME layout \in Layouts, NEW k \in Nat \ {0}, CanAlloc(k), NEW j \in 1 .. k
  PROVE  /\ Granted(j) \in Pages /\ Granted(j) \notin taken /\ Granted(j) \in 1 .. layout.pages
         /\ \A i \in 1 .. k : Granted(i) = Granted(j) => i = j
<1>1. \A i \in 1 .. k : CanAlloc(i)
  <2>1. IsFiniteSet(1 .. layout.pages)
    BY Limits, FS_Interval
  <2>2. Cardinality(Available) \in Nat
    BY <2>1, FS_Subset, FS_CardinalityType DEF Available
  <2>3. QED
    BY <2>2 DEF CanAlloc
<1>2. \A i \in 1 .. k : Granted(i) \in Available /\ Cardinality({q \in Available : q <= Granted(i)}) = i
  <2>1. \A i \in 1 .. k : i \in Nat \ {0}
    OBVIOUS
  <2>2. QED
    BY <1>1, <2>1, GrantedIs
<1>3. 1 .. layout.pages \subseteq Pages
  BY Limits DEF Pages
<1>4. QED
  BY <1>2, <1>3 DEF Available

-----------------------------------------------------------------------------
(* Pages that are linked, and what is written to index pages.               *)

(* The walk of Chain, for the pages as g has them.                          *)
Walked(g, f, k) ==
  [s \in Seq(Pages) |->
     LET n == g[s[Len(s)]].next
     IN  IF k = 0 \/ n = 0 THEN s ELSE f[k - 1][Append(s, n)]]
Walks(g, n, f) == f = [k \in 0 .. n |-> Walked(g, f, k)]

(* The walk is defined, as it gets shorter with every page.                 *)
LEMMA WalksExist == ASSUME NEW g PROVE \A n \in Nat : \E f : Walks(g, n, f)
<1> DEFINE S == {n \in Nat : \E f : Walks(g, n, f)}
<1>1. 0 \in S
  <2> DEFINE f == [k \in 0 .. 0 |-> [s \in Seq(Pages) |-> s]]
  <2>1. \A k \in 0 .. 0 : f[k] = Walked(g, f, k)
    BY DEF Walked
  <2>2. f = [k \in 0 .. 0 |-> Walked(g, f, k)]
    BY <2>1
  <2>3. QED
    BY <2>2 DEF Walks
<1>2. ASSUME NEW n \in S PROVE n + 1 \in S
  <2>1. PICK f : Walks(g, n, f)
    OBVIOUS
  <2> DEFINE h == [k \in 0 .. n + 1 |-> IF k = n + 1 THEN Walked(g, f, k) ELSE f[k]]
  <2>2. ASSUME NEW k \in 0 .. n + 1 PROVE h[k] = Walked(g, h, k)
    <3>1. h[k] = Walked(g, f, k)
      BY <2>1 DEF Walks
    <3>2. k # 0 => k - 1 \in 0 .. n /\ k - 1 # n + 1
      OBVIOUS
    <3>3. k # 0 => h[k - 1] = f[k - 1]
      BY <3>2
    <3> HIDE DEF h
    <3>4. QED
      BY <3>1, <3>3 DEF Walked
  <2>3. h = [k \in 0 .. n + 1 |-> Walked(g, h, k)]
    <3> HIDE DEF Walked
    <3>1. QED
      BY <2>2
  <2> HIDE DEF h
  <2>4. QED
    BY <2>3 DEF Walks
<1>3. S = Nat
  <2> HIDE DEF S
  <2>1. S \in SUBSET Nat
    BY DEF S
  <2>2. QED
    BY <1>1, <1>2, <2>1, Induction
<1>4. QED
  BY <1>3

(* The pages of s, each of which points to the next.                        *)
Joined(g, s) == \A i \in 1 .. Len(s) : g[s[i]].next = IF i = Len(s) THEN 0 ELSE s[i + 1]
Upto(s, m) == [i \in 1 .. m |-> s[i]]

(* The first pages of a list, as many as m.                                 *)
LEMMA UptoIs ==
  ASSUME NEW s \in Seq(Pages), NEW m \in 1 .. Len(s)
  PROVE  /\ Upto(s, m) \in Seq(Pages) /\ Len(Upto(s, m)) = m /\ Upto(s, m)[m] = s[m]
         /\ m = Len(s) => Upto(s, m) = s
         /\ m # Len(s) => Append(Upto(s, m), s[m + 1]) = Upto(s, m + 1) /\ m + 1 \in 1 .. Len(s)
<1>1. Len(s) \in Nat /\ m \in Nat /\ \A i \in 1 .. Len(s) : s[i] \in Pages
  OBVIOUS
<1>2. Upto(s, m) \in [1 .. m -> Pages]
  BY <1>1 DEF Upto
<1>3. Upto(s, m) \in Seq(Pages) /\ Len(Upto(s, m)) = m
  BY <1>1, <1>2
<1>4. m = Len(s) => Upto(s, m) = s
  BY <1>1 DEF Upto
<1>5. ASSUME m # Len(s) PROVE Append(Upto(s, m), s[m + 1]) = Upto(s, m + 1)
  <2> DEFINE t == Append(Upto(s, m), s[m + 1])
  <2>1. t \in Seq(Pages) /\ Len(t) = m + 1 /\ t[m + 1] = s[m + 1]
        /\ \A i \in 1 .. m : t[i] = Upto(s, m)[i]
    BY <1>1, <1>3, <1>5
  <2>2. \A i \in 1 .. m + 1 : t[i] = s[i]
    BY <2>1 DEF Upto
  <2> HIDE DEF t
  <2>3. t = [i \in 1 .. m + 1 |-> s[i]]
    BY <2>1, <2>2
  <2>4. QED
    BY <2>3 DEF Upto, t
<1>6. QED
  BY <1>1, <1>3, <1>4, <1>5 DEF Upto

ChainOf(g, start) ==
  LET walk[k \in 0 .. MaxLimit] ==
        [s \in Seq(Pages) |->
           LET n == g[s[Len(s)]].next
           IN  IF k = 0 \/ n = 0 THEN s ELSE walk[k - 1][Append(s, n)]]
  IN  walk[MaxLimit][<<start>>]

(* A list that is joined is found from its first page on.                   *)
LEMMA ChainIs ==
  ASSUME NEW g, NEW s \in Seq(Pages), s # <<>>, Len(s) <= MaxLimit, Joined(g, s)
  PROVE  ChainOf(g, s[1]) = s
<1>1. PICK f : Walks(g, MaxLimit, f) /\ ChainOf(g, s[1]) = f[MaxLimit][<<s[1]>>]
  <2> DEFINE f == CHOOSE f : Walks(g, MaxLimit, f)
  <2>1. Walks(g, MaxLimit, f)
    BY WalksExist, Limits
  <2>2. ChainOf(g, s[1]) = f[MaxLimit][<<s[1]>>]
    BY DEF ChainOf, Walks, Walked
  <2>3. QED
    BY <2>1, <2>2
<1>2. Len(s) \in Nat /\ Len(s) >= 1 /\ MaxLimit \in Nat
  BY Limits
<1> DEFINE Found(n) == \A m \in 1 .. Len(s) : Len(s) - m <= n => f[n][Upto(s, m)] = s
           S == {n \in Nat : n <= MaxLimit => Found(n)}
<1>3. ASSUME NEW n \in 0 .. MaxLimit, NEW m \in 1 .. Len(s)
      PROVE  f[n][Upto(s, m)] = IF n = 0 \/ m = Len(s) THEN Upto(s, m) ELSE f[n - 1][Upto(s, m + 1)]
  <2>1. f[n] = Walked(g, f, n)
    <3> HIDE DEF Walked
    <3>1. QED
      BY <1>1, <1>3 DEF Walks
  <2> DEFINE u == Upto(s, m)
             x == g[u[Len(u)]].next
  <2>2. f[n][u] = IF n = 0 \/ x = 0 THEN u ELSE f[n - 1][Append(u, x)]
    BY <2>1, UptoIs DEF Walked
  <2>3. x = IF m = Len(s) THEN 0 ELSE s[m + 1]
    BY UptoIs DEF Joined
  <2>4. m # Len(s) => s[m + 1] # 0
    <3>1. \A p \in Pages : p # 0
      BY Limits DEF Pages
    <3>2. m # Len(s) => m + 1 \in 1 .. Len(s)
      OBVIOUS
    <3>3. QED
      BY <3>1, <3>2
  <2>5. m # Len(s) => Append(u, s[m + 1]) = Upto(s, m + 1)
    BY UptoIs
  <2> HIDE DEF u, x
  <2>6. QED
    BY <2>2, <2>3, <2>4, <2>5, UptoIs DEF u
<1>4. 0 \in S
  <2>1. ASSUME NEW m \in 1 .. Len(s), Len(s) - m <= 0 PROVE f[0][Upto(s, m)] = s
    <3>1. m = Len(s) /\ 0 \in 0 .. MaxLimit
      BY <1>2, <2>1
    <3>2. QED
      BY <1>3, <3>1, UptoIs
  <2>2. QED
    BY <2>1
<1>5. ASSUME NEW n \in S PROVE n + 1 \in S
  <2> SUFFICES ASSUME n + 1 <= MaxLimit, NEW m \in 1 .. Len(s), Len(s) - m <= n + 1
               PROVE  f[n + 1][Upto(s, m)] = s
    OBVIOUS
  <2>1. n + 1 \in 0 .. MaxLimit /\ n + 1 # 0 /\ (n + 1) - 1 = n /\ Found(n)
    BY <1>2
  <2>2. f[n + 1][Upto(s, m)] = IF m = Len(s) THEN Upto(s, m) ELSE f[n][Upto(s, m + 1)]
    BY <1>3, <2>1
  <2>3. m # Len(s) => m + 1 \in 1 .. Len(s) /\ Len(s) - (m + 1) <= n
    BY <1>2
  <2>4. QED
    BY <2>1, <2>2, <2>3, UptoIs
<1>6. MaxLimit \in S
  <2> HIDE DEF S
  <2>1. S = Nat
    <3>1. S \in SUBSET Nat
      BY DEF S
    <3>2. QED
      BY <1>4, <1>5, <3>1, Induction
  <2>2. QED
    BY <1>2, <2>1
<1>7. 1 \in 1 .. Len(s) /\ Len(s) - 1 <= MaxLimit /\ Upto(s, 1) = <<s[1]>>
  BY <1>2 DEF Upto
<1>8. Found(MaxLimit)
  BY <1>2, <1>6
<1>9. f[MaxLimit][Upto(s, 1)] = s
  BY <1>7, <1>8
<1>10. QED
  BY <1>1, <1>7, <1>9

-----------------------------------------------------------------------------
EntriesIn(g, chain) ==
  LET sum[k \in 0 .. Len(chain)] ==
        IF k = 0 THEN <<>> ELSE sum[k - 1] \o g[chain[k]].entries
  IN  sum[Len(chain)]

(* The definitions of Segment are these, for the contents page.             *)
LEMMA Definitions ==
  /\ \A start : Chain(start) = ChainOf(page, start)
  /\ \A chain : EntriesOf(chain) = EntriesIn(page, chain)
BY DEF Chain, ChainOf, EntriesOf, EntriesIn

(* What storeSegment writes of d to the j-th index page, e to each.         *)
Part(d, e, j) == SubSeq(d, j * e - e + 1, IF Len(d) < j * e THEN Len(d) ELSE j * e)

Lesser(a, b) == IF a < b THEN a ELSE b

(* Two parts one behind the other are a longer one.                         *)
LEMMA PartsJoin ==
  ASSUME NEW d \in Seq(Pages), NEW a \in Nat, NEW e \in Nat
  PROVE  LET m == Lesser(Len(d), a)  n == Lesser(Len(d), a + e) IN
         /\ SubSeq(d, 1, m) \o SubSeq(d, a + 1, n) = SubSeq(d, 1, n)
         /\ SubSeq(d, 1, n) \in Seq(Pages) /\ Len(SubSeq(d, 1, n)) = n
         /\ SubSeq(d, a + 1, n) \in Seq(Pages)
<1> DEFINE m == Lesser(Len(d), a)
           n == Lesser(Len(d), a + e)
<1>1. Len(d) \in Nat /\ \A i \in 1 .. Len(d) : d[i] \in Pages
  OBVIOUS
<1>2. m \in Nat /\ n \in Nat /\ m <= n /\ n <= Len(d) /\ (m # a => n = m /\ n < a + 1)
  BY <1>1 DEF Lesser
<1> HIDE DEF m, n
<1>3. SubSeq(d, 1, n) \in Seq(Pages) /\ Len(SubSeq(d, 1, n)) = n
  <2>1. \A i \in 1 .. n : d[i] \in Pages
    BY <1>1, <1>2
  <2>2. QED
    BY <1>2, <2>1, SubSeqProperties
<1>4. SubSeq(d, a + 1, n) \in Seq(Pages)
  <2>1. \A i \in a + 1 .. n : d[i] \in Pages
    BY <1>1, <1>2
  <2>2. QED
    BY <1>2, <2>1, SubSeqProperties
<1>5. SubSeq(d, 1, m) \o SubSeq(d, a + 1, n) = SubSeq(d, 1, n)
  <2>1. CASE m = a
    <3>1. 1 \in 1 .. Len(d) + 1 /\ m \in 1 - 1 .. Len(d) /\ n \in m .. Len(d)
      BY <1>1, <1>2
    <3>2. QED
      BY <2>1, <3>1, ConcatAdjacentSubSeq
  <2>2. CASE m # a
    <3>1. SubSeq(d, a + 1, n) = <<>>
      BY <1>2, <2>2, SubSeqEmpty
    <3>2. SubSeq(d, 1, n) \o <<>> = SubSeq(d, 1, n)
      BY <1>3, ConcatEmptySeq
    <3>3. QED
      BY <1>2, <2>2, <3>1, <3>2
  <2>3. QED
    BY <2>1, <2>2
<1>6. QED
  BY <1>3, <1>4, <1>5 DEF m, n

(* The parts of d on the index pages of a chain are found again.            *)
LEMMA EntriesIs ==
  ASSUME NEW g, NEW s \in Seq(Pages), NEW d \in Seq(Pages), NEW e \in Nat,
         \A j \in 1 .. Len(s) : g[s[j]].entries = Part(d, e, j)
  PROVE  EntriesIn(g, s) = SubSeq(d, 1, Lesser(Len(d), Len(s) * e))
<1> DEFINE up(k) == SubSeq(d, 1, Lesser(Len(d), k * e))
           Sum(f) == f = [k \in 0 .. Len(s) |-> IF k = 0 THEN <<>> ELSE f[k - 1] \o g[s[k]].entries]
           F == [k \in 0 .. Len(s) |-> up(k)]
<1>1. Len(s) \in Nat /\ Len(d) \in Nat
  OBVIOUS
<1>2. up(0) = <<>>
  <2>1. 0 * e = 0
    OBVIOUS
  <2>2. QED
    BY <1>1, <2>1 DEF Lesser
<1>3. ASSUME NEW k \in 1 .. Len(s) PROVE up(k) = up(k - 1) \o g[s[k]].entries
  <2>1. PICK a \in Nat : a = (k - 1) * e /\ a + e = k * e
    <3>1. (k - 1) * e \in Nat /\ (k - 1) * e + e = k * e
      <4>1. k - 1 \in Nat
        OBVIOUS
      <4>2. \A x \in Nat : x * e \in Nat /\ x * e + e = (x + 1) * e
        OBVIOUS
      <4>3. QED
        BY <4>1, <4>2
    <3>2. QED
      BY <3>1
  <2>2. Part(d, e, k) = SubSeq(d, a + 1, Lesser(Len(d), a + e))
    <3>1. k * e - e + 1 = a + 1
      BY <2>1
    <3>2. QED
      BY <2>1, <3>1 DEF Part, Lesser
  <2>a. up(k) = SubSeq(d, 1, Lesser(Len(d), a + e)) /\ up(k - 1) = SubSeq(d, 1, Lesser(Len(d), a))
    BY <2>1
  <2>b. g[s[k]].entries = Part(d, e, k)
    OBVIOUS
  <2> HIDE DEF up
  <2>c. SubSeq(d, 1, Lesser(Len(d), a)) \o SubSeq(d, a + 1, Lesser(Len(d), a + e))
          = SubSeq(d, 1, Lesser(Len(d), a + e))
    <3>1. d \in Seq(Pages) /\ a \in Nat /\ e \in Nat
      OBVIOUS
    <3>2. QED
      BY ONLY <3>1, PartsJoin
  <2>3. QED
    BY <2>2, <2>a, <2>b, <2>c
<1>4. Sum(F)
  <2> HIDE DEF up
  <2>1. \A k \in 1 .. Len(s) : F[k] = F[k - 1] \o g[s[k]].entries
    BY <1>1, <1>3
  <2>2. F[0] = <<>>
    BY <1>1, <1>2
  <2> HIDE DEF F
  <2>3. \A k \in 0 .. Len(s) : F[k] = IF k = 0 THEN <<>> ELSE F[k - 1] \o g[s[k]].entries
    <3>1. \A k \in 0 .. Len(s) : k # 0 => k \in 1 .. Len(s)
      BY <1>1
    <3>2. QED
      BY <2>1, <2>2, <3>1
  <2>4. QED
    BY <2>3 DEF F
<1>5. ASSUME NEW f, Sum(f) PROVE f[Len(s)] = up(Len(s))
  <2> DEFINE S == {n \in Nat : n <= Len(s) => f[n] = up(n)}
  <2> HIDE DEF up
  <2>0. \A k \in 0 .. Len(s) : f[k] = IF k = 0 THEN <<>> ELSE f[k - 1] \o g[s[k]].entries
    BY <1>5
  <2>1. 0 \in S
    BY <1>1, <1>2, <2>0
  <2>2. ASSUME NEW n \in S PROVE n + 1 \in S
    <3> SUFFICES ASSUME n + 1 <= Len(s) PROVE f[n + 1] = up(n + 1)
      OBVIOUS
    <3>1. n + 1 \in 1 .. Len(s) /\ (n + 1) - 1 = n /\ f[n] = up(n)
      BY <1>1
    <3>2. f[n + 1] = f[n] \o g[s[n + 1]].entries
      <4>1. n + 1 \in 0 .. Len(s) /\ n + 1 # 0
        BY <3>1
      <4>2. QED
        BY <2>0, <3>1, <4>1
    <3>3. up(n + 1) = up(n) \o g[s[n + 1]].entries
      <4>1. up(n + 1) = up((n + 1) - 1) \o g[s[n + 1]].entries
        BY <1>3, <3>1
      <4>2. QED
        BY <3>1, <4>1
    <3>4. QED
      BY <3>1, <3>2, <3>3
  <2>3. S = Nat
    <3> HIDE DEF S
    <3>1. S \in SUBSET Nat
      BY DEF S
    <3>2. QED
      BY <2>1, <2>2, <3>1, Induction
  <2>4. QED
    BY <1>1, <2>3
<1>6. EntriesIn(g, s) = (CHOOSE f : Sum(f))[Len(s)]
  BY DEF EntriesIn
<1>7. Sum(CHOOSE f : Sum(f))
  <2> HIDE DEF Sum, F
  <2>1. QED
    BY <1>4
<1>8. QED
  BY <1>5, <1>6, <1>7

-----------------------------------------------------------------------------
(* Slotted pages.                                                           *)

Records == [off : Nat, size : Nat, valid : BOOLEAN]
SpPages == [kind : {"sp"}, free : Nat, recs : Seq(Records), end : Nat]

(* A slotted page: records lie in order and end before the free space.      *)
Sound(q) ==
  /\ q \in SpPages
  /\ q.end + q.free + 6 * Len(q.recs) = PageSize - 24
  /\ \A i \in 1 .. Len(q.recs) : q.recs[i].off + q.recs[i].size <= q.end
  /\ \A i, j \in 1 .. Len(q.recs) : i < j => q.recs[i].off + q.recs[i].size <= q.recs[j].off

(* The alignment never shortens a tuple.                                    *)
LEMMA AlignEnough == ASSUME NEW n \in Nat PROVE Align(n) \in Nat /\ n <= Align(n)
  BY DEF Align

(* An empty slotted page is sound.                                          *)
LEMMA NewSpSound == Sound(NewSp)
  <1>1. PageSize \in Nat /\ PageSize - 24 \in Nat
    BY SegmentAssumption
  <1>2. NewSp \in SpPages
    BY <1>1 DEF NewSp, SpPages, SpHeader
  <1> QED
    BY <1>1, <1>2 DEF Sound, NewSp, SpHeader

(* A record that addNewRecord finds enough space for keeps the page sound.  *)
LEMMA AddRecordSound ==
  ASSUME NEW q, Sound(q), NEW n \in Nat, Enough(q, n)
  PROVE  Sound(AddRecord(q, n))
  <1> DEFINE a == Align(n)
             r == AddRecord(q, n)
             rec == [off |-> q.end, size |-> n, valid |-> TRUE]
             no == Len(q.recs)
  <1>1. a \in Nat /\ n <= a
    BY AlignEnough
  <1>2. q \in SpPages /\ q.end \in Nat /\ q.free \in Nat /\ q.recs \in Seq(Records) /\ no \in Nat
    BY DEF Sound, SpPages
  <1>3. a + 6 <= q.free
    BY DEF Enough, SlotSize
  <1>4. r.free = q.free - (a + 6) /\ r.recs = Append(q.recs, rec) /\ r.end = q.end + a
    BY <1>2 DEF AddRecord, SpPages, SlotSize
  <1>5. rec \in Records
    BY <1>2 DEF Records
  <1>6. /\ Append(q.recs, rec) \in Seq(Records)
        /\ Len(Append(q.recs, rec)) = no + 1
        /\ Append(q.recs, rec)[no + 1] = rec
        /\ \A i \in 1 .. no : Append(q.recs, rec)[i] = q.recs[i]
    BY <1>2, <1>5
  <1>7. r \in SpPages
    <2>1. q.free - (a + 6) \in Nat /\ q.end + a \in Nat
      BY <1>1, <1>2, <1>3
    <2>2. Append(q.recs, rec) \in Seq(Records)
      BY <1>6
    <2> QED
      BY <1>2, <2>1, <2>2 DEF AddRecord, SpPages, SlotSize
  <1> HIDE DEF a, r, rec
  <1>8. rec.off = q.end /\ rec.size = n
    BY DEF rec
  <1>9. r.end + r.free + 6 * Len(r.recs) = PageSize - 24
    <2>1. q.end + q.free + 6 * no = PageSize - 24
      BY DEF Sound
    <2>2. PageSize \in Nat
      BY SegmentAssumption
    <2>3. PICK e \in Nat, f \in Nat, m \in Nat : e = q.end /\ f = q.free /\ m = no
      BY <1>2
    <2>4. (e + a) + (f - (a + 6)) + 6 * (m + 1) = PageSize - 24
      <3>1. e + f + 6 * m = PageSize - 24
        BY <2>1, <2>3
      <3>2. a \in Nat
        BY <1>1
      <3> QED
        BY <2>2, <3>1, <3>2
    <2>5. Len(r.recs) = m + 1 /\ r.end = e + a /\ r.free = f - (a + 6)
      BY <1>4, <1>6, <2>3
    <2> QED
      BY <2>4, <2>5
  <1>10. \A i \in 1 .. no : q.recs[i].off \in Nat /\ q.recs[i].size \in Nat
    <2>1. \A i \in 1 .. no : q.recs[i] \in Records
      BY <1>2
    <2> QED
      BY <2>1 DEF Records
  <1>11. \A i \in 1 .. no : q.recs[i].off + q.recs[i].size <= q.end
    BY DEF Sound
  <1>12. \A i \in 1 .. Len(r.recs) : r.recs[i].off + r.recs[i].size <= r.end
    <2> SUFFICES ASSUME NEW i \in 1 .. no + 1 PROVE r.recs[i].off + r.recs[i].size <= r.end
      BY <1>4, <1>6
    <2>1. CASE i = no + 1
      BY <1>1, <1>2, <1>4, <1>6, <1>8, <2>1
    <2>2. CASE i \in 1 .. no
      <3>1. r.recs[i] = q.recs[i] /\ r.end = q.end + a
        BY <1>4, <1>6, <2>2
      <3>2. q.recs[i].off + q.recs[i].size <= q.end
        BY <1>11, <2>2
      <3>3. q.recs[i].off + q.recs[i].size \in Nat
        BY <1>10, <2>2
      <3> QED
        BY <1>1, <1>2, <3>1, <3>2, <3>3
    <2> QED
      BY <1>2, <2>1, <2>2
  <1>13. \A i, j \in 1 .. Len(r.recs) : i < j => r.recs[i].off + r.recs[i].size <= r.recs[j].off
    <2> SUFFICES ASSUME NEW i \in 1 .. no + 1, NEW j \in 1 .. no + 1, i < j
                 PROVE  r.recs[i].off + r.recs[i].size <= r.recs[j].off
      BY <1>4, <1>6
    <2>1. i \in 1 .. no /\ r.recs[i] = q.recs[i]
      BY <1>2, <1>4, <1>6
    <2>2. CASE j = no + 1
      BY <1>4, <1>6, <1>8, <1>11, <2>1, <2>2
    <2>3. CASE j \in 1 .. no
      BY <1>4, <1>6, <2>1, <2>3 DEF Sound
    <2> QED
      BY <1>2, <2>2, <2>3
  <1> QED
    BY <1>7, <1>9, <1>12, <1>13 DEF Sound, r

(* A record marked deleted stays where it is.                               *)
LEMMA DeleteSound ==
  ASSUME NEW q, Sound(q), NEW i \in 1 .. Len(q.recs)
  PROVE  Sound([q EXCEPT !.recs[i].valid = FALSE])
  <1> DEFINE r == [q EXCEPT !.recs[i].valid = FALSE]
  <1>1. Sound(q) /\ q \in SpPages /\ q.recs \in Seq(Records)
    BY DEF Sound, SpPages
  <1>2. r.end = q.end /\ r.free = q.free /\ r.recs = [q.recs EXCEPT ![i].valid = FALSE]
    BY <1>1 DEF SpPages
  <1>3. r.recs \in Seq(Records) /\ Len(r.recs) = Len(q.recs)
    <2>1. \A x \in Records : [x EXCEPT !.valid = FALSE] \in Records
      BY DEF Records
    <2>2. [q.recs EXCEPT ![i].valid = FALSE] = [q.recs EXCEPT ![i] = [q.recs[i] EXCEPT !.valid = FALSE]]
      BY <1>1
    <2>3. [q.recs[i] EXCEPT !.valid = FALSE] \in Records
      BY <1>1, <2>1
    <2> QED
      BY <1>1, <1>2, <2>2, <2>3
  <1>4. \A j \in 1 .. Len(q.recs) : r.recs[j].off = q.recs[j].off /\ r.recs[j].size = q.recs[j].size
    <2> SUFFICES ASSUME NEW j \in 1 .. Len(q.recs)
                 PROVE  r.recs[j].off = q.recs[j].off /\ r.recs[j].size = q.recs[j].size
      OBVIOUS
    <2>1. q.recs[j] \in Records
      BY <1>1
    <2>2. CASE j = i
      <3>1. r.recs[j] = [q.recs[j] EXCEPT !.valid = FALSE]
        BY <1>1, <1>2, <2>2
      <3> QED
        BY <2>1, <3>1 DEF Records
    <2>3. CASE j # i
      BY <1>1, <1>2, <2>3
    <2> QED
      BY <2>2, <2>3
  <1>5. r \in SpPages
    BY <1>1, <1>2, <1>3 DEF SpPages
  <1> HIDE DEF r
  <1> QED
    BY <1>1, <1>2, <1>3, <1>4, <1>5 DEF Sound, r

-----------------------------------------------------------------------------
(* What a page may hold, and the lists of a segment.                        *)

Fsms == [kind : {"fsm"}, status : [Entries -> 0 .. MaxStatus], next : 0 .. MaxLimit]
Indexes == [kind : {"index"}, entries : Seq(Pages), fsm : Pages, next : 0 .. MaxLimit]
Slotted == {q \in SpPages : Sound(q) /\ \A i \in 1 .. Len(q.recs) : q.recs[i].size \in Sizes}
Shapes == {Zeros} \cup Slotted \cup Fsms \cup Indexes

(* The kind of a page tells its shape.                                      *)
LEMMA ShapeIs ==
  ASSUME NEW q \in Shapes
  PROVE  /\ q.kind \in {"zeros", "sp", "fsm", "index"} /\ {"kind"} \subseteq DOMAIN q
         /\ q.kind = "zeros" => q = Zeros
         /\ q.kind = "sp" => q \in Slotted
         /\ q.kind = "fsm" => q \in Fsms
         /\ q.kind = "index" => q \in Indexes
<1>1. CASE q = Zeros
  BY <1>1 DEF Zeros
<1>2. CASE q \in Slotted
  BY <1>2 DEF Slotted, SpPages
<1>3. CASE q \in Fsms
  BY <1>3 DEF Fsms
<1>4. CASE q \in Indexes
  BY <1>4 DEF Indexes
<1>5. QED
  BY <1>1, <1>2, <1>3, <1>4 DEF Shapes

Once(s) == \A i, j \in 1 .. Len(s) : s[i] = s[j] => i = j

(* No shutdown comes upon more pages than the index pages take.             *)
Fits == "overfull" \notin Stores

(* The lists of a segment, on pages with the contents g, t of them taken:   *)
(* a page is in one list and once, and has the kind its list says.          *)
Laid(g, t, ip, dp, fp) ==
  /\ ip \in Seq(Pages) /\ dp \in Seq(Pages) /\ fp \in Seq(Pages)
  /\ Len(ip) >= 1 /\ Len(fp) >= 1
  /\ Once(ip) /\ Once(dp) /\ Once(fp)
  /\ Elements(ip) \cap Elements(dp) = {} /\ Elements(ip) \cap Elements(fp) = {}
  /\ Elements(dp) \cap Elements(fp) = {}
  /\ Elements(ip) \cup Elements(dp) \cup Elements(fp) \subseteq t
  /\ Fits => t = Elements(ip) \cup Elements(dp) \cup Elements(fp)
  /\ \A p \in Elements(ip) : g[p].kind \in {"zeros", "index"}
  /\ \A p \in Elements(dp) : g[p].kind \in {"zeros", "sp"}
  /\ \A p \in Elements(fp) : g[p].kind = "fsm"
  /\ Joined(g, fp)

(* The elements of a list are pages.                                        *)
LEMMA ElementsIn ==
  ASSUME NEW s \in Seq(Pages)
  PROVE  Elements(s) \subseteq Pages /\ \A i \in 1 .. Len(s) : s[i] \in Elements(s)
  BY DEF Elements

(* A page that is not in the list is appended to it.                        *)
LEMMA Appended ==
  ASSUME NEW s \in Seq(Pages), NEW p \in Pages, p \notin Elements(s), Once(s)
  PROVE  /\ Append(s, p) \in Seq(Pages) /\ Once(Append(s, p)) /\ Len(Append(s, p)) = Len(s) + 1
         /\ Elements(Append(s, p)) = Elements(s) \cup {p}
         /\ Append(s, p)[Len(s) + 1] = p /\ \A i \in 1 .. Len(s) : Append(s, p)[i] = s[i]
<1> DEFINE a == Append(s, p)
<1>1. /\ a \in Seq(Pages) /\ Len(a) = Len(s) + 1 /\ a[Len(s) + 1] = p
      /\ \A i \in 1 .. Len(s) : a[i] = s[i]
  BY AppendProperties
<1>2. Len(s) \in Nat /\ 1 .. Len(s) + 1 = (1 .. Len(s)) \cup {Len(s) + 1}
  OBVIOUS
<1> HIDE DEF a
<1>3. Elements(a) = Elements(s) \cup {p}
  BY <1>1, <1>2 DEF Elements
<1>4. Once(a)
  BY <1>1, <1>2 DEF Once, Elements
<1>5. QED
  BY <1>1, <1>3, <1>4 DEF a

-----------------------------------------------------------------------------
(* Contents that change within their kind, and no link of an FSM.           *)
Similar(g, h) ==
  \A p \in Pages : h[p].kind = g[p].kind /\ (g[p].kind = "fsm" => h[p].next = g[p].next)

(* Lists stay laid out when contents change within their kind.              *)
LEMMA LaidSimilar ==
  ASSUME NEW g, NEW h, NEW t, NEW ip, NEW dp, NEW fp, Laid(g, t, ip, dp, fp), Similar(g, h)
  PROVE  Laid(h, t, ip, dp, fp)
<1>1. Elements(ip) \subseteq Pages /\ Elements(dp) \subseteq Pages /\ Elements(fp) \subseteq Pages
  BY ElementsIn DEF Laid
<1>2. \A p \in Elements(ip) \cup Elements(dp) \cup Elements(fp) : h[p].kind = g[p].kind
  BY <1>1 DEF Similar
<1>3. \A i \in 1 .. Len(fp) : g[fp[i]].kind = "fsm" /\ fp[i] \in Pages
  BY ElementsIn DEF Laid
<1>4. Joined(h, fp)
  BY <1>3 DEF Laid, Similar, Joined
<1>5. QED
  BY <1>2, <1>4 DEF Laid

(* A page that was not taken becomes the last data page.                    *)
LEMMA LaidData ==
  ASSUME NEW g, NEW t, NEW ip, NEW dp, NEW fp, Laid(g, t, ip, dp, fp),
         NEW p \in Pages, p \notin t, NEW h, h[p].kind \in {"zeros", "sp"},
         \A q \in Pages \ {p} : h[q] = g[q]
  PROVE  Laid(h, t \cup {p}, ip, Append(dp, p), fp)
<1>1. \A q \in Pages \ {p} : h[q] = g[q]
  OBVIOUS
<1>2. p \notin Elements(ip) /\ p \notin Elements(dp) /\ p \notin Elements(fp)
      /\ Elements(ip) \subseteq Pages /\ Elements(dp) \subseteq Pages /\ Elements(fp) \subseteq Pages
  BY ElementsIn DEF Laid
<1>3. /\ Append(dp, p) \in Seq(Pages) /\ Once(Append(dp, p))
      /\ Elements(Append(dp, p)) = Elements(dp) \cup {p}
  BY <1>2, Appended DEF Laid
<1>4. /\ \A q \in Elements(ip) : h[q].kind \in {"zeros", "index"}
      /\ \A q \in Elements(dp) \cup {p} : h[q].kind \in {"zeros", "sp"}
      /\ \A q \in Elements(fp) : h[q].kind = "fsm"
  BY <1>1, <1>2 DEF Laid
<1>5. Joined(h, fp)
  <2>1. \A i \in 1 .. Len(fp) : h[fp[i]] = g[fp[i]]
    BY <1>1, <1>2, ElementsIn DEF Laid
  <2>2. QED
    BY <2>1 DEF Laid, Joined
<1>6. QED
  BY <1>2, <1>3, <1>4, <1>5 DEF Laid

(* A page that was not taken becomes the last index page.                   *)
LEMMA LaidIndex ==
  ASSUME NEW g, NEW t, NEW ip, NEW dp, NEW fp, Laid(g, t, ip, dp, fp),
         NEW p \in Pages, p \notin t, g[p].kind = "zeros"
  PROVE  Laid(g, t \cup {p}, Append(ip, p), dp, fp)
<1>1. p \notin Elements(ip) /\ p \notin Elements(dp) /\ p \notin Elements(fp)
  BY DEF Laid
<1>2. /\ Append(ip, p) \in Seq(Pages) /\ Once(Append(ip, p)) /\ Len(Append(ip, p)) >= 1
      /\ Elements(Append(ip, p)) = Elements(ip) \cup {p}
  BY <1>1, Appended DEF Laid
<1>3. QED
  BY <1>1, <1>2 DEF Laid

(* A page that was not taken is linked behind the last FSM.                 *)
LEMMA LaidFsm ==
  ASSUME NEW g, NEW t, NEW ip, NEW dp, NEW fp, Laid(g, t, ip, dp, fp),
         NEW p \in Pages, p \notin t, NEW f, g \in [Pages -> Shapes]
  PROVE  Laid([g EXCEPT ![fp[Len(fp)]].next = p, ![p] = NewFsm(f)], t \cup {p}, ip, dp, Append(fp, p))
<1> DEFINE last == fp[Len(fp)]
           h == [g EXCEPT ![fp[Len(fp)]].next = p, ![p] = NewFsm(f)]
<1>1. p \notin Elements(ip) /\ p \notin Elements(dp) /\ p \notin Elements(fp)
      /\ Elements(ip) \subseteq Pages /\ Elements(dp) \subseteq Pages /\ Elements(fp) \subseteq Pages
  BY ElementsIn DEF Laid
<1>2. last \in Elements(fp) /\ Len(fp) \in Nat /\ Len(fp) >= 1
  BY ElementsIn DEF Laid
<1>3. h[p] = NewFsm(f) /\ h[last] = [g[last] EXCEPT !.next = p] /\ \A q \in Pages \ {p, last} : h[q] = g[q]
  BY <1>1, <1>2
<1>4. h[last].kind = g[last].kind /\ h[last].next = p
  <2>1. g[last] \in Fsms
    BY <1>1, <1>2, ShapeIs DEF Laid
  <2>2. QED
    BY <1>3, <2>1 DEF Fsms
<1>5. NewFsm(f).kind = "fsm" /\ NewFsm(f).next = 0
  BY DEF NewFsm
<1> HIDE DEF h
<1>6. /\ Append(fp, p) \in Seq(Pages) /\ Once(Append(fp, p)) /\ Len(Append(fp, p)) = Len(fp) + 1
      /\ Elements(Append(fp, p)) = Elements(fp) \cup {p}
      /\ Append(fp, p)[Len(fp) + 1] = p /\ \A i \in 1 .. Len(fp) : Append(fp, p)[i] = fp[i]
  BY <1>1, Appended DEF Laid
<1>7. last \notin Elements(ip) /\ last \notin Elements(dp)
  BY <1>2 DEF Laid
<1>8. /\ \A q \in Elements(ip) : h[q].kind \in {"zeros", "index"}
      /\ \A q \in Elements(dp) : h[q].kind \in {"zeros", "sp"}
  BY <1>1, <1>3, <1>7 DEF Laid
<1>9. \A q \in Elements(fp) \cup {p} : h[q].kind = "fsm"
  BY <1>1, <1>2, <1>3, <1>4, <1>5 DEF Laid
<1>10. Joined(h, Append(fp, p))
  <2> SUFFICES ASSUME NEW i \in 1 .. Len(fp) + 1
               PROVE  h[Append(fp, p)[i]].next = IF i = Len(fp) + 1 THEN 0 ELSE Append(fp, p)[i + 1]
    BY <1>6 DEF Joined
  <2>1. CASE i = Len(fp) + 1
    BY <2>1, <1>3, <1>5, <1>6
  <2>2. CASE i = Len(fp)
    BY <2>2, <1>2, <1>4, <1>6
  <2>3. CASE i \in 1 .. Len(fp) - 1
    <3>1. fp[i] # last /\ i + 1 \in 1 .. Len(fp) /\ i \in 1 .. Len(fp) /\ Len(fp) \in 1 .. Len(fp) /\ i # Len(fp)
      BY <2>3, <1>2 DEF Laid, Once
    <3>2. fp[i] \in Elements(fp)
      BY <3>1, ElementsIn DEF Laid
    <3>3. h[fp[i]] = g[fp[i]]
      BY <1>1, <1>3, <3>1, <3>2
    <3>4. g[fp[i]].next = fp[i + 1]
      BY <3>1 DEF Laid, Joined
    <3>5. QED
      BY <2>3, <3>1, <3>3, <3>4, <1>6
  <2>4. QED
    BY <1>2, <2>1, <2>2, <2>3
<1>11. Laid(h, t \cup {p}, ip, dp, Append(fp, p))
  BY <1>1, <1>6, <1>8, <1>9, <1>10 DEF Laid
<1>12. QED
  BY <1>11 DEF h

-----------------------------------------------------------------------------
(* The inductive invariant.                                                 *)

(* What the index pages ip hold after storeSegment.                         *)
Written(g, ip, dp, fp) ==
  /\ Len(dp) <= Len(ip) * layout.entries
  /\ \A j \in 1 .. Len(ip) : /\ g[ip[j]].kind = "index"
                             /\ g[ip[j]].entries = Part(dp, layout.entries, j)
                             /\ g[ip[j]].fsm = fp[1]
  /\ Joined(g, ip)

(* Every identifier given is that of a record of a slotted page.            *)
Recorded(g, G) ==
  \A t \in G : t \in Pages \X Nat /\ g[t[1]].kind = "sp" /\ t[2] \in 1 .. Len(g[t[1]].recs)

Bounded ==
  /\ phase \in {"none", "open", "stored", "erased"} /\ deletes \in 0 .. MaxDeletes
  /\ layout \in Layouts /\ taken \subseteq 1 .. layout.pages /\ latched \subseteq Pages

SegInv ==
  /\ Bounded /\ page \in [Pages -> Shapes] /\ Recorded(page, given)
  /\ phase # "open" => indexPages = <<>> /\ fsmPages = <<>> /\ pages = <<>>
  /\ phase = "none" => taken = {} /\ first = 0 /\ given = {}
  /\ phase = "erased" => (Fits => taken = {}) /\ first = 0 /\ given = {}
  /\ phase # "erased" => \A p \in Pages \ taken : page[p] = Zeros
  /\ phase = "open" => Laid(page, taken, indexPages, pages, fsmPages) /\ first = indexPages[1]
  /\ phase = "stored" =>
       \E ip, dp, fp : Laid(page, taken, ip, dp, fp) /\ Written(page, ip, dp, fp) /\ first = ip[1]

(* It holds at first.                                                       *)
LEMMA InitInv == Init => SegInv
<1> SUFFICES ASSUME Init PROVE SegInv
  OBVIOUS
<1>1. Bounded
  BY SegmentAssumption DEF Init, Bounded
<1>2. page \in [Pages -> Shapes] /\ \A p \in Pages : page[p] = Zeros
  BY DEF Init, Shapes
<1>3. QED
  BY <1>1, <1>2 DEF Init, SegInv, Recorded

(* What a call on an open segment must show of the state after it.          *)
LEMMA OpenStep ==
  ASSUME SegInv, phase = "open", phase' = "open", UNCHANGED <<first, layout>>,
         page' \in [Pages -> Shapes], Recorded(page', given'), deletes' \in 0 .. MaxDeletes,
         Laid(page', taken', indexPages', pages', fsmPages'), indexPages'[1] = indexPages[1],
         taken' \subseteq 1 .. layout.pages, latched' \subseteq Pages,
         \A p \in Pages \ taken' : page'[p] = Zeros
  PROVE  SegInv'
BY DEF SegInv, Bounded

-----------------------------------------------------------------------------
(* The sizes of tuples, aligned and as a status, are numbers.               *)
LEMMA SizeIs ==
  ASSUME NEW n \in Sizes
  PROVE  n \in Nat /\ Align(n) \in Nat /\ Status(n) \in Nat
<1>1. n \in Nat /\ Align(n) \in Nat
  BY SegmentAssumption, AlignEnough
<1>2. Room \in Nat /\ Room >= 30
  BY SegmentAssumption DEF Room, SpHeader, SlotSize
<1>3. Room \div MaxStatus \in Nat /\ Room \div MaxStatus >= 1
  BY <1>2 DEF MaxStatus
<1>4. PICK r \in Nat \ {0} : r = Room \div MaxStatus
  BY <1>3
<1>5. PICK a \in Nat : a = Align(n)
  BY <1>1
<1>6. (a + r - 1) \div r \in Nat
  <2>1. a + r - 1 \in Nat /\ \A x \in Nat : \A y \in Nat \ {0} : x \div y \in Nat
    OBVIOUS
  <2>2. QED
    BY <2>1
<1>7. QED
  BY <1>1, <1>4, <1>5, <1>6 DEF Status

(* A slotted page with enough space takes a record more.                    *)
LEMMA RecordAdded ==
  ASSUME NEW q \in Slotted, NEW n \in Sizes, Enough(q, n)
  PROVE  /\ AddRecord(q, n) \in Slotted /\ AddRecord(q, n).kind = "sp"
         /\ q.recs \in Seq(Records) /\ AddRecord(q, n).recs \in Seq(Records)
         /\ Len(AddRecord(q, n).recs) = Len(q.recs) + 1
         /\ \A i \in 1 .. Len(q.recs) : AddRecord(q, n).recs[i] = q.recs[i]
         /\ AddRecord(q, n).recs[Len(q.recs) + 1] = [off |-> q.end, size |-> n, valid |-> TRUE]
<1> DEFINE r == [off |-> q.end, size |-> n, valid |-> TRUE]
           u == AddRecord(q, n)
<1>1. q \in SpPages /\ q.recs \in Seq(Records) /\ q.end \in Nat /\ Sound(q) /\ n \in Nat
      /\ \A i \in 1 .. Len(q.recs) : q.recs[i].size \in Sizes
  BY SizeIs DEF Slotted, SpPages
<1>2. r \in Records
  BY <1>1 DEF Records
<1>3. u.recs = Append(q.recs, r) /\ u.kind = "sp"
  BY <1>1 DEF AddRecord, SpPages
<1>4. /\ u.recs \in Seq(Records) /\ Len(u.recs) = Len(q.recs) + 1 /\ u.recs[Len(q.recs) + 1] = r
      /\ \A i \in 1 .. Len(q.recs) : u.recs[i] = q.recs[i]
  BY <1>1, <1>2, <1>3, AppendProperties
<1>5. Sound(u)
  BY <1>1, AddRecordSound
<1> HIDE DEF u
<1>6. \A i \in 1 .. Len(u.recs) : u.recs[i].size \in Sizes
  <2>1. Len(q.recs) \in Nat /\ \A i \in 1 .. Len(q.recs) + 1 : i \in 1 .. Len(q.recs) \/ i = Len(q.recs) + 1
    BY <1>1
  <2>2. r.size = n
    OBVIOUS
  <2>3. QED
    BY <1>1, <1>4, <2>1, <2>2
<1>7. u \in Slotted
  BY <1>5, <1>6 DEF Slotted, Sound
<1>8. QED
  BY <1>1, <1>3, <1>4, <1>7 DEF u

(* A new page has enough space for a tuple of any size.                     *)
LEMMA NewSpIs == ASSUME NEW n \in Sizes PROVE NewSp \in Slotted /\ Enough(NewSp, n)
<1>1. Sound(NewSp) /\ NewSp.recs = <<>>
  BY NewSpSound DEF NewSp
<1>2. NewSp \in Slotted
  BY <1>1 DEF Slotted, Sound
<1>3. Enough(NewSp, n)
  BY SizeIs, SegmentAssumption DEF Enough, NewSp, Room, SpHeader, SlotSize
<1>4. QED
  BY <1>2, <1>3

(* The first record of a new page.                                          *)
LEMMA FirstRecord ==
  ASSUME NEW n \in Sizes
  PROVE  /\ AddRecord(NewSp, n) \in Slotted /\ AddRecord(NewSp, n).kind = "sp"
         /\ AddRecord(NewSp, n).recs = <<[off |-> 0, size |-> n, valid |-> TRUE]>>
         /\ Len(AddRecord(NewSp, n).recs) = 1
<1>1. AddRecord(NewSp, n) \in Slotted /\ AddRecord(NewSp, n).kind = "sp"
  BY NewSpIs, RecordAdded
<1>2. AddRecord(NewSp, n).recs = <<[off |-> 0, size |-> n, valid |-> TRUE]>>
  <2> DEFINE r == [off |-> 0, size |-> n, valid |-> TRUE]
  <2>1. AddRecord(NewSp, n).recs = Append(<<>>, r)
    BY DEF AddRecord, NewSp
  <2>2. <<>> \in Seq(Records) /\ r \in Records /\ <<r>> \in Seq(Records)
    BY SizeIs DEF Records
  <2> HIDE DEF r
  <2>3. Append(<<>>, r) = <<r>>
    BY <2>2, AppendIsConcat, ConcatEmptySeq
  <2>4. QED
    BY <2>1, <2>3 DEF r
<1>3. \A x : Len(<<x>>) = 1
  OBVIOUS
<1>4. Len(AddRecord(NewSp, n).recs) = 1
  BY ONLY <1>2, <1>3
<1>5. QED
  BY <1>1, <1>2, <1>4

-----------------------------------------------------------------------------
(* The FSM with an entry that takes the status, and the entry.              *)
LEMMA ChosenIs ==
  ASSUME fsmPages \in Seq(Pages), NEW n, Fullish(n) # 1 .. Len(fsmPages)
  PROVE  Chosen(n) \in 1 .. Len(fsmPages) /\ Fitting(fsmPages[Chosen(n)], n) # {}
<1> DEFINE T == (1 .. Len(fsmPages)) \ Fullish(n)
<1>1. T \in SUBSET Nat /\ T # {} /\ Len(fsmPages) \in Nat
  BY DEF Fullish
<1>2. PICK t : t \in T
  BY <1>1
<1> HIDE DEF T
<1>3. PICK k \in T : \A j \in T : k <= j
  BY <1>1, <1>2, Least
<1>4. 1 .. k - 1 \subseteq Fullish(n)
  BY <1>1, <1>3 DEF T
<1>5. Chosen(n) \in T
  BY <1>3, <1>4 DEF Chosen, T
<1>6. QED
  BY <1>5 DEF T, Fullish

(* The entry that is taken is one that can take the status.                 *)
LEMMA EntryIs ==
  ASSUME NEW p, NEW n, Fitting(p, n) # {}
  PROVE  Entry(p, n) \in Fitting(p, n)
<1> DEFINE T == Fitting(p, n)
<1>1. T \in SUBSET Nat
  BY SegmentAssumption DEF Fitting, Entries
<1>2. PICK t : t \in T
  OBVIOUS
<1> HIDE DEF T
<1>3. PICK k \in T : \A j \in T : k <= j
  BY <1>1, <1>2, Least
<1>4. QED
  BY <1>3 DEF Entry, T

(* An FSM that is told of a tuple stays one, with its link.                 *)
LEMMA MarkedIs ==
  ASSUME NEW p, page[p] \in Fsms, NEW n \in Sizes, Fitting(p, n) # {}
  PROVE  /\ Marked(p, n) \in Fsms /\ Marked(p, n).kind = "fsm" /\ Marked(p, n).next = page[p].next
         /\ Entry(p, n) \in Nat
<1> DEFINE q == page[p]
           e == Entry(p, n)
<1>1. e \in Entries /\ q.status[e] + Status(n) <= MaxStatus /\ Status(n) \in Nat /\ Entries \subseteq Nat
  BY EntryIs, SizeIs, SegmentAssumption DEF Fitting, Entries
<1>2. q.status \in [Entries -> 0 .. MaxStatus] /\ q.status[e] \in 0 .. MaxStatus
  BY <1>1 DEF Fsms
<1>3. q.status[e] + Status(n) \in 0 .. MaxStatus
  BY <1>1, <1>2 DEF MaxStatus
<1>4. Marked(p, n) = [q EXCEPT !.status = [q.status EXCEPT ![e] = q.status[e] + Status(n)]]
  BY <1>2 DEF Marked, Fsms
<1>5. [q.status EXCEPT ![e] = q.status[e] + Status(n)] \in [Entries -> 0 .. MaxStatus]
  BY <1>2, <1>3
<1> HIDE DEF e
<1>6. QED
  BY <1>1, <1>4, <1>5 DEF Fsms, e

(* The contents after the FSM was told of n bytes more.                     *)
Told(n) == [page EXCEPT ![fsmPages[Chosen(n)]] = Marked(fsmPages[Chosen(n)], n)]

(* Only the FSM that was chosen changes.                                    *)
LEMMA ToldIs ==
  ASSUME SegInv, phase = "open", NEW n \in Sizes, Fullish(n) # 1 .. Len(fsmPages)
  PROVE  /\ Told(n) \in [Pages -> Shapes] /\ Similar(page, Told(n))
         /\ Chosen(n) \in 1 .. Len(fsmPages) /\ Entry(fsmPages[Chosen(n)], n) \in Nat
         /\ fsmPages[Chosen(n)] \in Elements(fsmPages) /\ fsmPages[Chosen(n)] \in Pages
         /\ \A p \in Pages : p # fsmPages[Chosen(n)] => Told(n)[p] = page[p]
<1> DEFINE f == fsmPages[Chosen(n)]
<1>1. fsmPages \in Seq(Pages) /\ page \in [Pages -> Shapes]
  BY DEF SegInv, Laid
<1>2. Chosen(n) \in 1 .. Len(fsmPages) /\ Fitting(f, n) # {}
  BY <1>1, ChosenIs
<1>3. f \in Elements(fsmPages) /\ f \in Pages
  BY <1>1, <1>2, ElementsIn
<1>4. page[f] \in Fsms
  BY <1>1, <1>3, ShapeIs DEF SegInv, Laid
<1>5. Marked(f, n) \in Fsms /\ Marked(f, n).kind = page[f].kind /\ Marked(f, n).next = page[f].next
      /\ Entry(f, n) \in Nat
  BY <1>2, <1>4, MarkedIs DEF Fsms
<1>6. Told(n)[f] = Marked(f, n) /\ (\A p \in Pages : p # f => Told(n)[p] = page[p])
      /\ Told(n) \in [Pages -> Shapes]
  BY <1>1, <1>3, <1>5 DEF Told, Shapes
<1>7. Similar(page, Told(n))
  BY <1>3, <1>5, <1>6 DEF Similar
<1>8. QED
  BY <1>2, <1>3, <1>5, <1>6, <1>7

(* Identifiers stay those of records when slotted pages stay.               *)
LEMMA SimilarRecorded ==
  ASSUME SegInv, NEW h, \A p \in Pages : page[p].kind = "sp" => h[p] = page[p]
  PROVE  Recorded(h, given)
<1>1. Recorded(page, given)
  BY DEF SegInv
<1>2. ASSUME NEW t \in given
      PROVE  t \in Pages \X Nat /\ h[t[1]].kind = "sp" /\ t[2] \in 1 .. Len(h[t[1]].recs)
  <2>1. t \in Pages \X Nat /\ page[t[1]].kind = "sp" /\ t[2] \in 1 .. Len(page[t[1]].recs)
    BY <1>1 DEF Recorded
  <2>2. h[t[1]] = page[t[1]]
    BY <2>1
  <2>3. QED
    BY <2>1, <2>2
<1>3. QED
  BY <1>2 DEF Recorded

-----------------------------------------------------------------------------
(* The insertion of a tuple.                                                *)

(* insertTuple on a page that it has.                                       *)
LEMMA InsertIntoInv ==
  ASSUME SegInv, NEW n \in Sizes, InsertInto(n)
  PROVE  SegInv'
<1> DEFINE k   == Chosen(n)
           pos == Entry(fsmPages[k], n) + (k - 1) * FsmEntries
           p   == pages[pos + 1]
<1>1. /\ phase = "open" /\ phase' = "open" /\ Fullish(n) # 1 .. Len(fsmPages)
      /\ UNCHANGED <<first, layout, deletes, taken, pages, fsmPages, indexPages>>
  BY DEF InsertInto, objectVars
<1>2. pos < Len(pages)
  BY DEF InsertInto
<1>3. \/ page' = Told(n) /\ latched' = latched \cup {p} /\ given' = given
      \/ /\ Enough(page[p], n) /\ page' = [Told(n) EXCEPT ![p] = AddRecord(page[p], n)]
         /\ given' = given \cup {<<p, Len(page[p].recs) + 1>>} /\ latched' = latched
  BY DEF InsertInto, Told
<1>4. /\ Told(n) \in [Pages -> Shapes] /\ Similar(page, Told(n))
      /\ k \in 1 .. Len(fsmPages) /\ Entry(fsmPages[k], n) \in Nat
      /\ fsmPages[k] \in Elements(fsmPages) /\ fsmPages[k] \in Pages
      /\ \A q \in Pages : q # fsmPages[k] => Told(n)[q] = page[q]
  BY <1>1, ToldIs
<1>5. Laid(page, taken, indexPages, pages, fsmPages) /\ page \in [Pages -> Shapes]
      /\ first = indexPages[1] /\ layout \in Layouts /\ latched \subseteq Pages /\ deletes \in 0 .. MaxDeletes
      /\ taken \subseteq 1 .. layout.pages /\ \A q \in Pages \ taken : page[q] = Zeros
  BY <1>1 DEF SegInv, Bounded
<1>6. p \in Elements(pages) /\ p \in Pages /\ page[p].kind \in {"zeros", "sp"} /\ p # fsmPages[k]
  <2>1. pos \in Nat
    <3>1. \A x, y \in Nat : x * y \in Nat
      OBVIOUS
    <3>2. k - 1 \in Nat /\ FsmEntries \in Nat
      BY <1>4, SegmentAssumption
    <3>3. (k - 1) * FsmEntries \in Nat
      BY <3>1, <3>2
    <3>4. QED
      BY <1>4, <3>3
  <2>2. pos + 1 \in 1 .. Len(pages) /\ pages \in Seq(Pages)
    BY <1>2, <1>5, <2>1 DEF Laid
  <2> HIDE DEF pos
  <2>3. p \in Elements(pages) /\ p \in Pages
    BY <2>2, ElementsIn
  <2>4. QED
    BY <1>4, <1>5, <2>3 DEF Laid
<1>7. \A q \in Pages : page[q].kind = "sp" => Told(n)[q] = page[q]
  BY <1>4, <1>5 DEF Laid
<1>8. \A q \in Pages \ taken : Told(n)[q] = Zeros /\ q # p
  BY <1>4, <1>5, <1>6 DEF Laid
<1> HIDE DEF k, pos, p
<1>9. CASE page' = Told(n) /\ latched' = latched \cup {p} /\ given' = given
  <2>1. Laid(page', taken, indexPages, pages, fsmPages)
    BY <1>4, <1>5, <1>9, LaidSimilar
  <2>2. Recorded(page', given')
    BY <1>7, <1>9, SimilarRecorded
  <2>3. QED
    BY <1>1, <1>4, <1>5, <1>6, <1>8, <1>9, <2>1, <2>2, OpenStep
<1>10. CASE /\ Enough(page[p], n) /\ page' = [Told(n) EXCEPT ![p] = AddRecord(page[p], n)]
            /\ given' = given \cup {<<p, Len(page[p].recs) + 1>>} /\ latched' = latched
  <2>1. page[p].kind # "zeros"
    <3> SUFFICES ASSUME page[p].kind = "zeros" PROVE FALSE
      OBVIOUS
    <3>1. page[p] = Zeros
      BY <1>5, <1>6, ShapeIs
    <3>2. Align(n) + 6 <= 0
      BY <1>10, <3>1 DEF Enough, Zeros, SlotSize
    <3>3. QED
      BY <3>2, SizeIs
  <2>2. page[p] \in Slotted /\ page[p].kind = "sp"
    BY <1>5, <1>6, <2>1, ShapeIs
  <2>3. /\ AddRecord(page[p], n) \in Slotted /\ AddRecord(page[p], n).kind = "sp"
        /\ Len(AddRecord(page[p], n).recs) = Len(page[p].recs) + 1 /\ Len(page[p].recs) \in Nat
    <3>1. page[p] \in Slotted /\ n \in Sizes /\ Enough(page[p], n)
      BY <1>10, <2>2
    <3> DEFINE q == page[p]
    <3>2. q \in Slotted /\ Enough(q, n)
      BY <3>1
    <3> HIDE DEF q
    <3>3. /\ AddRecord(q, n) \in Slotted /\ AddRecord(q, n).kind = "sp"
          /\ Len(AddRecord(q, n).recs) = Len(q.recs) + 1 /\ q.recs \in Seq(Records)
      BY ONLY <3>1, <3>2, RecordAdded
    <3>4. QED
      BY <3>3 DEF q
  <2>4. page'[p] = AddRecord(page[p], n) /\ (\A q \in Pages \ {p} : page'[q] = Told(n)[q])
        /\ page' \in [Pages -> Shapes]
    BY <1>4, <1>6, <1>10, <2>3 DEF Shapes
  <2>5. Similar(page, page')
    BY <1>4, <2>2, <2>3, <2>4 DEF Similar
  <2>6. Laid(page', taken, indexPages, pages, fsmPages)
    BY <1>5, <2>5, LaidSimilar
  <2>7. Recorded(page', given')
    <3>1. ASSUME NEW t \in given
          PROVE  t \in Pages \X Nat /\ page'[t[1]].kind = "sp" /\ t[2] \in 1 .. Len(page'[t[1]].recs)
      <4>1. t \in Pages \X Nat /\ page[t[1]].kind = "sp" /\ t[2] \in 1 .. Len(page[t[1]].recs)
        BY DEF SegInv, Recorded
      <4>2. CASE t[1] = p
        BY <4>1, <4>2, <2>3, <2>4
      <4>3. CASE t[1] # p
        BY <4>1, <4>3, <1>7, <2>4
      <4>4. QED
        BY <4>2, <4>3
    <3>2. <<p, Len(page[p].recs) + 1>> \in Pages \X Nat
      BY <1>6, <2>3
    <3>3. QED
      BY <1>10, <2>3, <2>4, <3>1, <3>2 DEF Recorded
  <2>8. QED
    BY <1>1, <1>5, <1>8, <1>10, <2>4, <2>6, <2>7, OpenStep
<1>11. QED
  BY <1>3, <1>9, <1>10

-----------------------------------------------------------------------------
(* The tuple on a page that was given just now.                             *)
LEMMA NewPageRecorded ==
  ASSUME SegInv, NEW n \in Sizes, NEW g, g \in [Pages -> Shapes], NEW p \in Pages,
         page[p] = Zeros, \A q \in Pages : page[q].kind = "sp" => g[q] = page[q],
         OnNewPage(p, n, g)
  PROVE  /\ page' \in [Pages -> Shapes] /\ Recorded(page', given')
         /\ page'[p].kind = "sp" /\ \A q \in Pages \ {p} : page'[q] = g[q]
<1>1. /\ AddRecord(NewSp, n) \in Slotted /\ AddRecord(NewSp, n).kind = "sp"
      /\ Len(AddRecord(NewSp, n).recs) = 1
  BY FirstRecord
<1>2. page' = [g EXCEPT ![p] = AddRecord(NewSp, n)] /\ given' = given \cup {<<p, 1>>}
  BY DEF OnNewPage
<1>3. page'[p] = AddRecord(NewSp, n) /\ (\A q \in Pages \ {p} : page'[q] = g[q])
      /\ page' \in [Pages -> Shapes]
  BY <1>1, <1>2 DEF Shapes
<1>4. page[p].kind = "zeros"
  BY DEF Zeros
<1>5. Recorded(page', given)
  BY <1>3, <1>4, SimilarRecorded
<1>6. Recorded(page', {<<p, 1>>})
  BY <1>1, <1>3 DEF Recorded
<1>7. QED
  BY <1>1, <1>2, <1>3, <1>5, <1>6 DEF Recorded

-----------------------------------------------------------------------------
(* The first index page stays the first.                                    *)
LEMMA FirstStays ==
  ASSUME NEW g, NEW t, NEW ip, NEW dp, NEW fp, Laid(g, t, ip, dp, fp), NEW p \in Pages
  PROVE  Append(ip, p)[1] = ip[1]
<1>1. ip \in Seq(Pages) /\ 1 \in 1 .. Len(ip)
  BY DEF Laid
<1>2. QED
  BY <1>1, AppendProperties

(* insertTuple on a new page, with the failures of a full partition.        *)
LEMMA InsertNewInv ==
  ASSUME SegInv, NEW n \in Sizes, InsertNew(n)
  PROVE  SegInv'
<1> DEFINE f == fsmPages[Chosen(n)]
           G == Granted(1)
           H == Granted(2)
<1>1. /\ phase = "open" /\ phase' = "open" /\ Fullish(n) # 1 .. Len(fsmPages)
      /\ UNCHANGED <<first, layout, deletes, fsmPages>>
  BY DEF InsertNew
<1>2. \/ /\ page' \in {page, Told(n)} /\ latched' = latched \cup {f}
         /\ UNCHANGED <<pages, taken, indexPages, given>>
      \/ /\ CanAlloc(1) /\ pages' = Append(pages, G) /\ taken' = taken \cup {G}
         /\ page' \in {page, Told(n)} /\ latched' = latched \cup {f} /\ UNCHANGED <<indexPages, given>>
      \/ /\ CanAlloc(1) /\ pages' = Append(pages, G) /\ OnNewPage(G, n, Told(n))
         /\ latched' = latched
         /\ \/ CanAlloc(2) /\ ReserveIndex(1)
            \/ taken' = taken \cup {G} /\ indexPages' = indexPages
  BY DEF InsertNew, Told
<1>3. /\ Told(n) \in [Pages -> Shapes] /\ Similar(page, Told(n)) /\ f \in Pages /\ f \in Elements(fsmPages)
      /\ \A q \in Pages : q # f => Told(n)[q] = page[q]
  BY <1>1, ToldIs
<1>4. Laid(page, taken, indexPages, pages, fsmPages) /\ page \in [Pages -> Shapes]
      /\ first = indexPages[1] /\ layout \in Layouts /\ latched \subseteq Pages /\ deletes \in 0 .. MaxDeletes
      /\ taken \subseteq 1 .. layout.pages /\ \A q \in Pages \ taken : page[q] = Zeros
  BY <1>1 DEF SegInv, Bounded
<1>5. \A q \in Pages : page[q].kind = "sp" => Told(n)[q] = page[q]
  BY <1>3, <1>4 DEF Laid
<1>6. \A q \in Pages \ taken : Told(n)[q] = Zeros /\ q # f
  BY <1>3, <1>4 DEF Laid
<1>7. \A g \in {page, Told(n)} :
        /\ Laid(g, taken, indexPages, pages, fsmPages) /\ Recorded(g, given)
        /\ g \in [Pages -> Shapes] /\ \A q \in Pages \ taken : g[q] = Zeros
  <2>1. Laid(Told(n), taken, indexPages, pages, fsmPages)
    BY <1>3, <1>4, LaidSimilar
  <2>2. Recorded(Told(n), given) /\ Recorded(page, given)
    BY <1>5, SimilarRecorded DEF SegInv
  <2>3. QED
    BY <1>3, <1>4, <1>6, <2>1, <2>2
<1>8. CanAlloc(1) => G \in Pages /\ G \notin taken /\ G \in 1 .. layout.pages
  BY <1>4, Grants
<1>9. CanAlloc(2) => H \in Pages /\ H \notin taken /\ H \in 1 .. layout.pages /\ H # G
  <2>1. 2 \in Nat \ {0} /\ 2 \in 1 .. 2 /\ 1 \in 1 .. 2
    OBVIOUS
  <2>2. QED
    BY <1>4, <2>1, Grants
<1>10. Zeros.kind = "zeros"
  BY DEF Zeros
<1> HIDE DEF f, G, H
<1>11. CASE /\ page' \in {page, Told(n)} /\ latched' = latched \cup {f}
            /\ UNCHANGED <<pages, taken, indexPages, given>>
  BY <1>1, <1>3, <1>4, <1>7, <1>11, OpenStep
<1>12. CASE /\ CanAlloc(1) /\ pages' = Append(pages, G) /\ taken' = taken \cup {G}
            /\ page' \in {page, Told(n)} /\ latched' = latched \cup {f} /\ UNCHANGED <<indexPages, given>>
  <2>1. Laid(page', taken, indexPages, pages, fsmPages) /\ page' \in [Pages -> Shapes]
        /\ Recorded(page', given') /\ page'[G] = Zeros /\ \A q \in Pages \ taken' : page'[q] = Zeros
    BY <1>7, <1>8, <1>12
  <2>2. Laid(page', taken', indexPages', pages', fsmPages')
    BY <1>1, <1>8, <1>10, <1>12, <2>1, LaidData
  <2>3. QED
    BY <1>1, <1>3, <1>4, <1>8, <1>12, <2>1, <2>2, OpenStep
<1>13. CASE /\ CanAlloc(1) /\ pages' = Append(pages, G) /\ OnNewPage(G, n, Told(n))
            /\ latched' = latched
            /\ \/ CanAlloc(2) /\ ReserveIndex(1)
               \/ taken' = taken \cup {G} /\ indexPages' = indexPages
  <2>1. /\ page' \in [Pages -> Shapes] /\ Recorded(page', given')
        /\ page'[G].kind = "sp" /\ \A q \in Pages \ {G} : page'[q] = Told(n)[q]
    <3>1. page[G] = Zeros
      BY <1>4, <1>8, <1>13
    <3>2. QED
      BY <1>3, <1>5, <1>8, <1>13, <3>1, NewPageRecorded
  <2>2. Laid(Told(n), taken, indexPages, pages, fsmPages)
    BY <1>7
  <2>3. Laid(page', taken \cup {G}, indexPages, pages', fsmPages)
    <3> DEFINE g == Told(n)
               h == page'
               dp == pages'
    <3>1. /\ Laid(g, taken, indexPages, pages, fsmPages) /\ G \in Pages /\ G \notin taken
          /\ \A q \in Pages \ {G} : h[q] = g[q]
          /\ h[G].kind \in {"zeros", "sp"} /\ dp = Append(pages, G)
      BY <1>8, <1>13, <2>1, <2>2
    <3> HIDE DEF g, h, dp
    <3>2. Laid(h, taken \cup {G}, indexPages, Append(pages, G), fsmPages)
      BY ONLY <3>1, LaidData
    <3>3. Laid(h, taken \cup {G}, indexPages, dp, fsmPages)
      BY ONLY <3>1, <3>2
    <3>4. QED
      BY ONLY <3>3 DEF h, dp
  <2>4. CASE CanAlloc(2) /\ ReserveIndex(1)
    <3>1. taken' = taken \cup {G} \cup {H} /\ indexPages' = Append(indexPages, H)
      <4>1. 1 .. 1 + 1 = {1, 2} /\ 1 + 1 = 2
        OBVIOUS
      <4>2. QED
        BY <2>4, <4>1 DEF ReserveIndex, G, H
    <3>2. page'[H].kind = "zeros"
      BY <1>6, <1>9, <1>10, <2>1, <2>4
    <3>3. Laid(page', taken', indexPages', pages', fsmPages') /\ indexPages'[1] = indexPages[1]
      <4>1. H \in Pages /\ H \notin taken \cup {G}
        BY <1>9, <2>4
      <4>2. Laid(page', taken \cup {G} \cup {H}, Append(indexPages, H), pages', fsmPages)
        BY ONLY <2>3, <3>2, <4>1, LaidIndex
      <4>3. Append(indexPages, H)[1] = indexPages[1]
        BY <1>4, <4>1, FirstStays
      <4>4. QED
        BY <1>1, <3>1, <4>2, <4>3
    <3>4. \A q \in Pages \ taken' : page'[q] = Zeros
      BY <1>6, <2>1, <3>1
    <3>5. taken' \subseteq 1 .. layout.pages
      BY <1>4, <1>8, <1>9, <1>13, <2>4, <3>1
    <3>6. QED
      BY <1>1, <1>4, <1>13, <2>1, <3>3, <3>4, <3>5, OpenStep
  <2>5. CASE taken' = taken \cup {G} /\ indexPages' = indexPages
    <3>1. Laid(page', taken', indexPages', pages', fsmPages') /\ indexPages'[1] = indexPages[1]
      BY <1>1, <2>3, <2>5
    <3>2. \A q \in Pages \ taken' : page'[q] = Zeros
      BY <1>6, <2>1, <2>5
    <3>3. taken' \subseteq 1 .. layout.pages
      BY <1>4, <1>8, <1>13, <2>5
    <3>4. QED
      BY <1>1, <1>4, <1>13, <2>1, <3>1, <3>2, <3>3, OpenStep
  <2>6. QED
    BY <1>13, <2>4, <2>5
<1>14. QED
  BY <1>2, <1>11, <1>12, <1>13

-----------------------------------------------------------------------------
(* insertTuple when all FSMs are full.                                      *)
LEMMA InsertFsmInv ==
  ASSUME SegInv, NEW n \in Sizes, InsertFsm(n)
  PROVE  SegInv'
<1> DEFINE last == fsmPages[Len(fsmPages)]
           F == Granted(1)
           G == Granted(2)
           H == Granted(3)
           linked(f) == [page EXCEPT ![fsmPages[Len(fsmPages)]].next = F, ![F] = NewFsm(f)]
<1>1. /\ phase = "open" /\ phase' = "open" /\ UNCHANGED <<first, layout, deletes>>
  BY DEF InsertFsm
<1>2. \/ /\ latched' = latched \cup {last}
         /\ UNCHANGED <<fsmPages, indexPages, pages, page, taken, given>>
      \/ \E f \in Leftovers :
           /\ CanAlloc(1) /\ fsmPages' = Append(fsmPages, F) /\ latched' = latched
           /\ \/ /\ page' = linked(f) /\ taken' = taken \cup {F}
                 /\ UNCHANGED <<pages, indexPages, given>>
              \/ /\ CanAlloc(2) /\ pages' = Append(pages, G)
                 /\ page' = linked(f) /\ taken' = taken \cup {F, G}
                 /\ UNCHANGED <<indexPages, given>>
              \/ /\ CanAlloc(2) /\ pages' = Append(pages, G) /\ OnNewPage(G, n, linked(f))
                 /\ \/ CanAlloc(3) /\ ReserveIndex(2)
                    \/ taken' = taken \cup {F, G} /\ indexPages' = indexPages
  BY DEF InsertFsm
<1>3. Laid(page, taken, indexPages, pages, fsmPages) /\ page \in [Pages -> Shapes]
      /\ first = indexPages[1] /\ layout \in Layouts /\ latched \subseteq Pages /\ deletes \in 0 .. MaxDeletes
      /\ taken \subseteq 1 .. layout.pages /\ \A q \in Pages \ taken : page[q] = Zeros
  BY <1>1 DEF SegInv, Bounded
<1>4. last \in Elements(fsmPages) /\ last \in Pages /\ page[last].kind = "fsm" /\ page[last] \in Fsms
      /\ last \in taken
  <2>1. fsmPages \in Seq(Pages) /\ Len(fsmPages) \in 1 .. Len(fsmPages)
    BY <1>3 DEF Laid
  <2>2. last \in Elements(fsmPages) /\ last \in Pages
    BY <2>1, ElementsIn
  <2>3. QED
    BY <1>3, <2>2, ShapeIs DEF Laid
<1>5. CanAlloc(1) => F \in Pages /\ F \notin taken /\ F \in 1 .. layout.pages
  BY <1>3, Grants
<1>6. CanAlloc(2) => G \in Pages /\ G \notin taken /\ G \in 1 .. layout.pages /\ F # G
  <2>1. 2 \in Nat \ {0} /\ 2 \in 1 .. 2 /\ 1 \in 1 .. 2
    OBVIOUS
  <2>2. QED
    BY <1>3, <2>1, Grants
<1>7. CanAlloc(3) => H \in Pages /\ H \notin taken /\ H \in 1 .. layout.pages /\ H # G /\ H # F
  <2>1. 3 \in Nat \ {0} /\ 3 \in 1 .. 3 /\ 2 \in 1 .. 3 /\ 1 \in 1 .. 3
    OBVIOUS
  <2>2. QED
    BY <1>3, <2>1, Grants
<1>8. Zeros.kind = "zeros"
  BY DEF Zeros
<1>9. ASSUME NEW f \in Leftovers, CanAlloc(1)
      PROVE  /\ linked(f) \in [Pages -> Shapes] /\ Recorded(linked(f), given)
             /\ Laid(linked(f), taken \cup {F}, indexPages, pages, Append(fsmPages, F))
             /\ \A q \in Pages : page[q].kind = "sp" => linked(f)[q] = page[q]
             /\ \A q \in Pages \ (taken \cup {F}) : linked(f)[q] = Zeros
  <2>1. F \in Pages /\ F \notin taken /\ F # last /\ F \in 0 .. MaxLimit
    BY <1>4, <1>5, <1>9, Limits DEF Pages
  <2>2. NewFsm(f) \in Fsms
    <3>1. f \in [Entries -> 0 .. MaxStatus] /\ 0 \in 0 .. MaxLimit
      BY SegmentAssumption, Limits
    <3>2. QED
      BY <3>1 DEF NewFsm, Fsms
  <2>3. [page[last] EXCEPT !.next = F] \in Fsms
    BY <1>4, <2>1 DEF Fsms
  <2>4. /\ linked(f)[F] = NewFsm(f) /\ linked(f)[last] = [page[last] EXCEPT !.next = F]
        /\ \A q \in Pages \ {F, last} : linked(f)[q] = page[q]
        /\ linked(f) \in [Pages -> Shapes]
    BY <1>3, <1>4, <2>1, <2>2, <2>3 DEF Shapes
  <2>5. Laid(linked(f), taken \cup {F}, indexPages, pages, Append(fsmPages, F))
    BY <1>3, <2>1, LaidFsm
  <2>6. \A q \in Pages : page[q].kind = "sp" => q # F /\ q # last
    BY <1>3, <1>4, <1>8, <2>1
  <2>7. \A q \in Pages : page[q].kind = "sp" => linked(f)[q] = page[q]
    BY <2>4, <2>6
  <2> HIDE DEF linked
  <2>8. Recorded(linked(f), given)
    BY <2>7, SimilarRecorded
  <2>9. \A q \in Pages \ (taken \cup {F}) : linked(f)[q] = Zeros
    BY <1>3, <1>4, <2>4
  <2>10. QED
    BY <2>4, <2>5, <2>7, <2>8, <2>9
<1>10. CASE /\ latched' = latched \cup {last}
            /\ UNCHANGED <<fsmPages, indexPages, pages, page, taken, given>>
  <2>1. Recorded(page', given')
    BY <1>10 DEF SegInv
  <2>2. QED
    BY <1>1, <1>3, <1>4, <1>10, <2>1, OpenStep
<1>11. ASSUME NEW f \in Leftovers, CanAlloc(1), fsmPages' = Append(fsmPages, F), latched' = latched,
              \/ /\ page' = linked(f) /\ taken' = taken \cup {F}
                 /\ UNCHANGED <<pages, indexPages, given>>
              \/ /\ CanAlloc(2) /\ pages' = Append(pages, G)
                 /\ page' = linked(f) /\ taken' = taken \cup {F, G}
                 /\ UNCHANGED <<indexPages, given>>
              \/ /\ CanAlloc(2) /\ pages' = Append(pages, G) /\ OnNewPage(G, n, linked(f))
                 /\ \/ CanAlloc(3) /\ ReserveIndex(2)
                    \/ taken' = taken \cup {F, G} /\ indexPages' = indexPages
       PROVE  SegInv'
  <2> DEFINE l == linked(f)
  <2>1. /\ l \in [Pages -> Shapes] /\ Recorded(l, given)
        /\ Laid(l, taken \cup {F}, indexPages, pages, fsmPages')
        /\ \A q \in Pages : page[q].kind = "sp" => l[q] = page[q]
        /\ \A q \in Pages \ (taken \cup {F}) : l[q] = Zeros
    BY <1>9, <1>11
  <2>2. F \in Pages /\ F \notin taken /\ F \in 1 .. layout.pages
    BY <1>5, <1>11
  <2> HIDE DEF l, linked, F, G, H
  <2>3. CASE /\ page' = linked(f) /\ taken' = taken \cup {F}
             /\ UNCHANGED <<pages, indexPages, given>>
    <3>1. page' = l
      BY <2>3 DEF l
    <3>2. QED
      BY <1>1, <1>3, <1>11, <2>1, <2>2, <2>3, <3>1, OpenStep
  <2>4. CASE /\ CanAlloc(2) /\ pages' = Append(pages, G)
             /\ page' = linked(f) /\ taken' = taken \cup {F, G}
             /\ UNCHANGED <<indexPages, given>>
    <3>1. page' = l /\ taken' = (taken \cup {F}) \cup {G} /\ G \in Pages /\ G \notin taken \cup {F}
          /\ G \in 1 .. layout.pages
      BY <1>6, <2>4 DEF l
    <3>2. l[G] = Zeros
      BY <2>1, <3>1
    <3>3. Laid(page', taken', indexPages', pages', fsmPages')
      BY <1>8, <2>1, <2>4, <3>1, <3>2, LaidData
    <3>4. QED
      BY <1>1, <1>3, <1>11, <2>1, <2>2, <2>4, <3>1, <3>3, OpenStep
  <2>5. CASE /\ CanAlloc(2) /\ pages' = Append(pages, G) /\ OnNewPage(G, n, linked(f))
             /\ \/ CanAlloc(3) /\ ReserveIndex(2)
                \/ taken' = taken \cup {F, G} /\ indexPages' = indexPages
    <3>1. G \in Pages /\ G \notin taken \cup {F} /\ G \in 1 .. layout.pages
      BY <1>6, <2>5
    <3>2. OnNewPage(G, n, l) /\ page[G] = Zeros
      BY <1>3, <2>5, <3>1 DEF l
    <3>3. /\ page' \in [Pages -> Shapes] /\ Recorded(page', given')
          /\ page'[G].kind = "sp" /\ \A q \in Pages \ {G} : page'[q] = l[q]
      BY <2>1, <3>1, <3>2, NewPageRecorded
    <3>4. Laid(page', taken \cup {F} \cup {G}, indexPages, pages', fsmPages')
      <4> DEFINE h == page'
                 t == taken \cup {F}
                 dp == pages'
                 fp == fsmPages'
      <4>1. /\ Laid(l, t, indexPages, pages, fp) /\ G \in Pages /\ G \notin t
            /\ \A q \in Pages \ {G} : h[q] = l[q]
            /\ h[G].kind \in {"zeros", "sp"} /\ dp = Append(pages, G)
        BY <2>1, <2>5, <3>1, <3>3
      <4> HIDE DEF h, t, dp, fp
      <4>2. Laid(h, t \cup {G}, indexPages, Append(pages, G), fp)
        BY ONLY <4>1, LaidData
      <4>3. Laid(h, t \cup {G}, indexPages, dp, fp)
        BY ONLY <4>1, <4>2
      <4>4. QED
        BY ONLY <4>3 DEF h, t, dp, fp
    <3>5. CASE CanAlloc(3) /\ ReserveIndex(2)
      <4>1. taken' = taken \cup {F} \cup {G} \cup {H} /\ indexPages' = Append(indexPages, H)
        <5>1. 1 .. 2 + 1 = {1, 2, 3} /\ 2 + 1 = 3
          OBVIOUS
        <5>2. {Granted(j) : j \in {1, 2, 3}} = {Granted(1), Granted(2), Granted(3)}
          OBVIOUS
        <5>3. QED
          BY <3>5, <5>1, <5>2 DEF ReserveIndex, F, G, H
      <4>2. H \in Pages /\ H \notin taken \cup {F} /\ H # G /\ H \in 1 .. layout.pages
        BY <1>7, <3>5
      <4>3. page'[H].kind = "zeros"
        BY <1>8, <2>1, <3>3, <4>2
      <4>4. Laid(page', taken', indexPages', pages', fsmPages') /\ indexPages'[1] = indexPages[1]
        <5>1. H \in Pages /\ H \notin taken \cup {F} \cup {G}
          BY <4>2
        <5>2. Laid(page', taken \cup {F} \cup {G} \cup {H}, Append(indexPages, H), pages', fsmPages')
          BY ONLY <3>4, <4>3, <5>1, LaidIndex
        <5>3. Append(indexPages, H)[1] = indexPages[1]
          BY <1>3, <5>1, FirstStays
        <5>4. QED
          BY <4>1, <5>2, <5>3
      <4>5. \A q \in Pages \ taken' : page'[q] = Zeros
        BY <2>1, <3>3, <4>1
      <4>6. taken' \subseteq 1 .. layout.pages
        BY <1>3, <2>2, <3>1, <4>1, <4>2
      <4>7. QED
        BY <1>1, <1>3, <1>11, <3>3, <4>4, <4>5, <4>6, OpenStep
    <3>6. CASE taken' = taken \cup {F, G} /\ indexPages' = indexPages
      <4>1. taken' = taken \cup {F} \cup {G}
        BY <3>6
      <4>2. Laid(page', taken', indexPages', pages', fsmPages') /\ indexPages'[1] = indexPages[1]
        BY <3>4, <3>6, <4>1
      <4>3. \A q \in Pages \ taken' : page'[q] = Zeros
        BY <2>1, <3>3, <4>1
      <4>4. taken' \subseteq 1 .. layout.pages
        BY <1>3, <2>2, <3>1, <4>1
      <4>5. QED
        BY <1>1, <1>3, <1>11, <3>3, <4>2, <4>3, <4>4, OpenStep
    <3>7. QED
      BY <2>5, <3>5, <3>6
  <2>6. QED
    BY <1>11, <2>3, <2>4, <2>5
<1>12. QED
  <2> HIDE DEF linked, F, G, H, last
  <2>1. QED
    BY <1>2, <1>10, <1>11

-----------------------------------------------------------------------------
(* Creation, deletion, shutdown and boot.                                   *)

(* A list without a page twice is as long as it has pages.                  *)
LEMMA OnceIs ==
  ASSUME NEW s \in Seq(Pages), Once(s)
  PROVE  /\ Len(s) <= MaxLimit /\ IsFiniteSet(Elements(s)) /\ Cardinality(Elements(s)) = Len(s)
<1>1. Len(s) \in Nat /\ MaxLimit \in Nat /\ s \in [1 .. Len(s) -> Elements(s)]
      /\ s \in [1 .. Len(s) -> Pages]
  BY Limits DEF Elements
<1>2. IsFiniteSet(1 .. Len(s)) /\ Cardinality(1 .. Len(s)) = Len(s)
      /\ IsFiniteSet(Pages) /\ Cardinality(Pages) = MaxLimit
  <2>1. ASSUME NEW n \in Nat PROVE IsFiniteSet(1 .. n) /\ Cardinality(1 .. n) = n
    <3>1. IsFiniteSet(1 .. n) /\ Cardinality(1 .. n) = IF 1 > n THEN 0 ELSE n - 1 + 1
      BY FS_Interval
    <3>2. QED
      BY <3>1
  <2>2. QED
    BY <1>1, <2>1 DEF Pages
<1>3. s \in Surjection(1 .. Len(s), Elements(s)) /\ s \in Injection(1 .. Len(s), Elements(s))
      /\ s \in Injection(1 .. Len(s), Pages)
  <2>1. \A e \in Elements(s) : \E i \in 1 .. Len(s) : s[i] = e
    BY DEF Elements
  <2>2. \A i, j \in 1 .. Len(s) : s[i] = s[j] => i = j
    BY DEF Once
  <2>3. QED
    BY <1>1, <2>1, <2>2 DEF Surjection, Injection, IsInjective
<1>4. Len(s) <= MaxLimit
  BY <1>2, <1>3, FS_Injection
<1>5. IsFiniteSet(Elements(s)) /\ Cardinality(Elements(s)) = Len(s)
  BY <1>2, <1>3, FS_Surjection
<1>6. QED
  BY <1>4, <1>5

(* What is kept of d when it has more than the index pages take.            *)
LEMMA PrefixIs ==
  ASSUME NEW d \in Seq(Pages), NEW n \in Nat, n <= Len(d), Once(d)
  PROVE  LET c == SubSeq(d, 1, n) IN
         /\ c \in Seq(Pages) /\ Len(c) = n /\ Once(c) /\ Elements(c) \subseteq Elements(d)
         /\ n = Len(d) => c = d
<1> DEFINE c == SubSeq(d, 1, n)
<1>1. Len(d) \in Nat /\ \A i \in 1 .. n : d[i] \in Pages
  OBVIOUS
<1>2. c \in Seq(Pages) /\ Len(c) = n /\ \A i \in 1 .. n : c[i] = d[i]
  <2>1. /\ c \in Seq(Pages) /\ Len(c) = IF 1 <= n THEN n - 1 + 1 ELSE 0
        /\ \A i \in 1 .. n - 1 + 1 : c[i] = d[1 + i - 1]
    BY <1>1, SubSeqProperties
  <2> HIDE DEF c
  <2>2. QED
    BY <2>1
<1>3. n = Len(d) => c = d
  BY SubSeqFull
<1> HIDE DEF c
<1>4. Once(c) /\ Elements(c) \subseteq Elements(d)
  BY <1>1, <1>2 DEF Once, Elements
<1>5. QED
  BY <1>2, <1>3, <1>4 DEF c

(* What the index pages take of d is what they take of its prefix.          *)
LEMMA PartOfPrefix ==
  ASSUME NEW d \in Seq(Pages), NEW e \in Nat, NEW m \in Nat, NEW j \in 1 .. m
  PROVE  Part(SubSeq(d, 1, Lesser(Len(d), m * e)), e, j) = Part(d, e, j)
<1> DEFINE n == Lesser(Len(d), m * e)
           c == SubSeq(d, 1, n)
           a == j * e - e + 1
           b == Lesser(Len(d), j * e)
<1>1. m * e \in Nat /\ j * e \in Nat /\ j * e <= m * e /\ Len(d) \in Nat /\ j * e - e \in Nat
  <2>1. \A x, y, z \in Nat : (x + y) * z = x * z + y * z /\ x * z \in Nat
    OBVIOUS
  <2>2. m - j \in Nat /\ j - 1 \in Nat /\ (m - j) + j = m /\ (j - 1) + 1 = j
    OBVIOUS
  <2>3. ((m - j) + j) * e = (m - j) * e + j * e /\ (m - j) * e \in Nat /\ j * e \in Nat
    BY ONLY <2>1, <2>2, j \in 1 .. m, m \in Nat, e \in Nat
  <2>4. ((j - 1) + 1) * e = (j - 1) * e + 1 * e /\ (j - 1) * e \in Nat
    BY ONLY <2>1, <2>2, e \in Nat
  <2>5. QED
    BY <2>2, <2>3, <2>4
<1>2. n \in Nat /\ n <= Len(d) /\ b \in Nat /\ b <= n /\ a \in Nat \ {0}
  BY <1>1 DEF Lesser
<1>3. c \in Seq(Pages) /\ Len(c) = n /\ \A i \in 1 .. n : c[i] = d[i]
  <2>1. \A i \in 1 .. n : d[i] \in Pages
    BY <1>2
  <2>2. /\ c \in Seq(Pages) /\ Len(c) = IF 1 <= n THEN n - 1 + 1 ELSE 0
        /\ \A i \in 1 .. n - 1 + 1 : c[i] = d[1 + i - 1]
    BY <1>2, <2>1, SubSeqProperties
  <2> HIDE DEF c, n
  <2>3. QED
    BY <1>2, <2>2
<1>4. Part(d, e, j) = SubSeq(d, a, b)
  BY DEF Part, Lesser
<1>5. Part(c, e, j) = SubSeq(c, a, b)
  <2>1. (IF n < j * e THEN n ELSE j * e) = b
    BY <1>1 DEF Lesser
  <2>2. Part(c, e, j) = SubSeq(c, a, IF Len(c) < j * e THEN Len(c) ELSE j * e)
    BY DEF Part
  <2>3. QED
    BY <1>3, <2>1, <2>2
<1>6. SubSeq(c, a, b) = SubSeq(d, a, b)
  <2> HIDE DEF a, b, c, n
  <2>1. \A i \in a .. b : c[i] = d[i]
    BY <1>2, <1>3
  <2>2. \A i \in 1 .. (1 + b - a) : c[i + a - 1] = d[i + a - 1]
    <3>1. ASSUME NEW i \in 1 .. (1 + b - a) PROVE i + a - 1 \in a .. b
      BY <1>2
    <3>2. QED
      BY <2>1, <3>1
  <2>3. \A s : SubSeq(s, a, b) = [i \in 1 .. (1 + b - a) |-> s[i + a - 1]]
    BY <1>2
  <2>4. QED
    BY <2>2, <2>3
<1>7. QED
  BY <1>4, <1>5, <1>6

-----------------------------------------------------------------------------
(* The constructor.                                                         *)
LEMMA CreateInv == ASSUME SegInv, Create PROVE SegInv'
<1> DEFINE G == Granted(1)
           H == Granted(2)
<1>1. layout \in Layouts /\ taken = {} /\ page \in [Pages -> Shapes] /\ CanAlloc(2)
      /\ \A p \in Pages : page[p] = Zeros
  BY DEF SegInv, Bounded, Create
<1>2. G \in Pages /\ H \in Pages /\ G # H /\ {G, H} \subseteq 1 .. layout.pages
  <2>1. 2 \in Nat \ {0} /\ 2 \in 1 .. 2 /\ 1 \in 1 .. 2
    OBVIOUS
  <2>2. QED
    BY <1>1, <2>1, Grants
<1>3. PICK f \in Leftovers : page' = [page EXCEPT ![H] = NewFsm(f)]
  BY DEF Create
<1> HIDE DEF G, H
<1>4. NewFsm(f) \in Fsms /\ NewFsm(f).kind = "fsm" /\ NewFsm(f).next = 0
  <2>1. f \in [Entries -> 0 .. MaxStatus] /\ 0 \in 0 .. MaxLimit
    BY SegmentAssumption, Limits
  <2>2. QED
    BY <2>1 DEF NewFsm, Fsms
<1>5. /\ page'[H] = NewFsm(f) /\ \A p \in Pages \ {H} : page'[p] = Zeros
      /\ page' \in [Pages -> Shapes]
  BY <1>1, <1>2, <1>3, <1>4 DEF Shapes
<1>6. /\ phase = "none" /\ phase' = "open" /\ first' = G /\ indexPages' = <<G>> /\ fsmPages' = <<H>>
      /\ taken' = taken \cup {G, H} /\ pages' = <<>>
      /\ UNCHANGED <<layout, latched, given, deletes>> /\ given = {} /\ pages = <<>>
  BY DEF Create, SegInv, G, H
<1>7. ASSUME NEW x \in Pages
      PROVE  <<x>> \in Seq(Pages) /\ Len(<<x>>) = 1 /\ Once(<<x>>) /\ Elements(<<x>>) = {x} /\ <<x>>[1] = x
  BY DEF Once, Elements
<1>8. <<>> \in Seq(Pages) /\ Len(<<>>) = 0 /\ Once(<<>>) /\ Elements(<<>>) = {}
  BY DEF Once, Elements
<1>9. Zeros.kind = "zeros"
  BY DEF Zeros
<1>10. Joined(page', <<H>>)
  BY <1>2, <1>4, <1>5, <1>7 DEF Joined
<1>11. Laid(page', taken', indexPages', pages', fsmPages')
  <2>1. Laid(page', {G, H}, <<G>>, <<>>, <<H>>)
    <3> DEFINE ip == <<G>>
               dp == <<>>
               fp == <<H>>
    <3>1. /\ ip \in Seq(Pages) /\ Len(ip) >= 1 /\ Once(ip) /\ Elements(ip) = {G}
          /\ dp \in Seq(Pages) /\ Once(dp) /\ Elements(dp) = {}
          /\ fp \in Seq(Pages) /\ Len(fp) >= 1 /\ Once(fp) /\ Elements(fp) = {H} /\ Joined(page', fp)
      BY <1>2, <1>7, <1>8, <1>10
    <3>2. page'[G].kind = "zeros" /\ page'[H].kind = "fsm"
      BY <1>2, <1>4, <1>5, <1>9
    <3> HIDE DEF ip, dp, fp
    <3>3. Laid(page', {G, H}, ip, dp, fp)
      BY <1>2, <3>1, <3>2 DEF Laid
    <3>4. QED
      BY <3>3 DEF ip, dp, fp
  <2>2. QED
    BY <1>1, <1>6, <2>1
<1>12. Recorded(page', given')
  BY <1>6 DEF Recorded
<1>13. Bounded'
  BY <1>1, <1>2, <1>6 DEF SegInv, Bounded
<1>14. first' = indexPages'[1]
  BY <1>2, <1>6, <1>7
<1>15. QED
  BY <1>1, <1>2, <1>5, <1>6, <1>11, <1>12, <1>13, <1>14 DEF SegInv

(* erase.                                                                   *)
LEMMA EraseInv == ASSUME SegInv, Erase PROVE SegInv'
<1>1. /\ phase = "open" /\ phase' = "erased" /\ first' = 0
      /\ indexPages' = <<>> /\ fsmPages' = <<>> /\ pages' = <<>> /\ given' = {} /\ latched' = {}
      /\ UNCHANGED <<page, layout, deletes>>
      /\ taken' = taken \ (Elements(fsmPages) \cup Elements(pages) \cup Elements(indexPages))
  BY DEF Erase
<1>2. Bounded'
  BY <1>1 DEF SegInv, Bounded
<1>3. Fits => taken' = {}
  BY <1>1 DEF SegInv, Laid
<1>4. Recorded(page', given')
  BY <1>1 DEF Recorded
<1>5. QED
  BY <1>1, <1>2, <1>3, <1>4 DEF SegInv

-----------------------------------------------------------------------------
(* A slotted page with a record that is marked deleted.                     *)
LEMMA RecordDeleted ==
  ASSUME NEW q \in Slotted, NEW i \in 1 .. Len(q.recs)
  PROVE  LET r == [q EXCEPT !.recs[i].valid = FALSE] IN
         /\ r \in Slotted /\ r.kind = "sp" /\ Len(r.recs) = Len(q.recs)
         /\ \A j \in 1 .. Len(q.recs) :
              r.recs[j].size = q.recs[j].size /\ (r.recs[j].valid <=> q.recs[j].valid /\ j # i)
<1> DEFINE r == [q EXCEPT !.recs[i].valid = FALSE]
<1>1. /\ q \in SpPages /\ q.kind = "sp" /\ q.recs \in Seq(Records) /\ Sound(q)
      /\ \A j \in 1 .. Len(q.recs) : q.recs[j].size \in Sizes
  BY DEF Slotted, SpPages
<1>2. Sound(r)
  BY <1>1, DeleteSound
<1>3. r.kind = "sp" /\ r.recs = [q.recs EXCEPT ![i] = [q.recs[i] EXCEPT !.valid = FALSE]]
  BY <1>1 DEF SpPages
<1> HIDE DEF r
<1>4. Len(r.recs) = Len(q.recs)
  BY <1>1, <1>3
<1>5. ASSUME NEW j \in 1 .. Len(q.recs)
      PROVE  r.recs[j].size = q.recs[j].size /\ (r.recs[j].valid <=> q.recs[j].valid /\ j # i)
  <2>1. q.recs[j] \in Records
    BY <1>1
  <2>2. CASE j = i
    <3>1. r.recs[j] = [q.recs[j] EXCEPT !.valid = FALSE]
      BY <1>1, <1>3, <2>2
    <3>2. QED
      BY <2>1, <2>2, <3>1 DEF Records
  <2>3. CASE j # i
    <3>1. r.recs[j] = q.recs[j]
      BY <1>1, <1>3, <2>3
    <3>2. QED
      BY <2>1, <2>3, <3>1 DEF Records
  <2>4. QED
    BY <2>2, <2>3
<1>6. r \in Slotted
  BY <1>1, <1>2, <1>4, <1>5 DEF Slotted, Sound
<1>7. QED
  BY <1>3, <1>4, <1>5, <1>6 DEF r

-----------------------------------------------------------------------------
(* The deletion of a tuple.                                                 *)
LEMMA DeleteInv ==
  ASSUME SegInv, NEW k \in 1 .. Len(pages), NEW i \in 1 .. Len(page[pages[k]].recs), Delete(k, i)
  PROVE  SegInv'
<1> DEFINE p == pages[k]
           q == page[p]
<1>1. /\ phase = "open" /\ phase' = "open" /\ deletes < MaxDeletes /\ deletes' = deletes + 1
      /\ page' = [page EXCEPT ![p].recs[i].valid = FALSE]
      /\ latched' = latched \cup {pages[j] : j \in {j \in 1 .. k : page[pages[j]].recs = <<>>}}
      /\ UNCHANGED <<first, indexPages, fsmPages, pages, layout, taken, given>>
  BY DEF Delete, objectVars
<1>2. Laid(page, taken, indexPages, pages, fsmPages) /\ page \in [Pages -> Shapes]
      /\ first = indexPages[1] /\ layout \in Layouts /\ latched \subseteq Pages /\ deletes \in 0 .. MaxDeletes
      /\ taken \subseteq 1 .. layout.pages /\ \A x \in Pages \ taken : page[x] = Zeros
  BY <1>1 DEF SegInv, Bounded
<1>3. \A j \in 1 .. Len(pages) : pages[j] \in Pages /\ pages[j] \in Elements(pages)
  BY <1>2, ElementsIn DEF Laid
<1>4. p \in Pages /\ p \in taken /\ q \in Shapes /\ q.kind \in {"zeros", "sp"}
  BY <1>2, <1>3 DEF Laid
<1>5. q \in Slotted /\ q.kind = "sp" /\ i \in 1 .. Len(q.recs)
  <2>1. q # Zeros
    BY DEF Zeros
  <2>2. QED
    BY <1>4, <2>1, ShapeIs
<1> DEFINE r == [q EXCEPT !.recs[i].valid = FALSE]
<1>6. page' = [page EXCEPT ![p] = r]
  BY <1>1
<1> HIDE DEF q, r, p
<1>7. r \in Slotted /\ r.kind = "sp" /\ Len(r.recs) = Len(q.recs)
  BY <1>5, RecordDeleted DEF r
<1>8. page'[p] = r /\ (\A x \in Pages \ {p} : page'[x] = page[x]) /\ page' \in [Pages -> Shapes]
  BY <1>2, <1>4, <1>6, <1>7 DEF Shapes
<1>9. Similar(page, page')
  BY <1>4, <1>5, <1>7, <1>8 DEF Similar, q
<1>10. Laid(page', taken, indexPages, pages, fsmPages)
  BY <1>2, <1>9, LaidSimilar
<1>11. Recorded(page', given')
  <2>1. ASSUME NEW t \in given
        PROVE  t \in Pages \X Nat /\ page'[t[1]].kind = "sp" /\ t[2] \in 1 .. Len(page'[t[1]].recs)
    <3>1. t \in Pages \X Nat /\ page[t[1]].kind = "sp" /\ t[2] \in 1 .. Len(page[t[1]].recs)
      BY DEF SegInv, Recorded
    <3>2. CASE t[1] = p
      BY <1>7, <1>8, <3>1, <3>2 DEF q
    <3>3. CASE t[1] # p
      BY <1>8, <3>1, <3>3
    <3>4. QED
      BY <3>2, <3>3
  <2>2. QED
    BY <1>1, <2>1 DEF Recorded
<1>12. latched' \subseteq Pages /\ deletes' \in 0 .. MaxDeletes
  <2>1. \A j \in 1 .. k : j \in 1 .. Len(pages)
    OBVIOUS
  <2>2. latched' \subseteq Pages
    BY <1>1, <1>2, <1>3, <2>1
  <2>3. MaxDeletes \in Nat
    BY SegmentAssumption
  <2>4. QED
    BY <1>1, <1>2, <2>2, <2>3
<1>13. QED
  BY <1>1, <1>2, <1>4, <1>8, <1>10, <1>11, <1>12, OpenStep

-----------------------------------------------------------------------------
(* The data pages that a shutdown stores.                                   *)
StoredPages == SubSeq(pages, 1, Lesser(Len(pages), Len(indexPages) * layout.entries))

(* They are a prefix of the data pages, and all of them if they fit.        *)
LEMMA StoredPagesIs ==
  ASSUME SegInv, phase = "open"
  PROVE  /\ StoredPages \in Seq(Pages) /\ Len(StoredPages) <= Len(indexPages) * layout.entries
         /\ Once(StoredPages) /\ Elements(StoredPages) \subseteq Elements(pages)
         /\ StoreKind = "fits" => StoredPages = pages
<1> DEFINE m == Len(indexPages) * layout.entries
           n == Lesser(Len(pages), m)
<1>1. pages \in Seq(Pages) /\ Once(pages) /\ Len(pages) \in Nat /\ m \in Nat
  <2>1. pages \in Seq(Pages) /\ Once(pages) /\ indexPages \in Seq(Pages) /\ layout.entries \in Nat
    BY SegmentAssumption DEF SegInv, Laid, Bounded
  <2>2. \A x, y \in Nat : x * y \in Nat
    OBVIOUS
  <2>3. QED
    BY <2>1, <2>2
<1>2. n \in Nat /\ n <= Len(pages) /\ n <= m /\ (Len(pages) <= m => n = Len(pages))
  BY <1>1 DEF Lesser
<1> HIDE DEF n
<1>3. /\ SubSeq(pages, 1, n) \in Seq(Pages) /\ Len(SubSeq(pages, 1, n)) = n /\ Once(SubSeq(pages, 1, n))
      /\ Elements(SubSeq(pages, 1, n)) \subseteq Elements(pages)
      /\ n = Len(pages) => SubSeq(pages, 1, n) = pages
  BY <1>1, <1>2, PrefixIs
<1>4. StoreKind = "fits" => Len(pages) <= m
  BY DEF StoreKind
<1>5. StoredPages = SubSeq(pages, 1, n)
  BY DEF StoredPages, n
<1>6. QED
  BY <1>2, <1>3, <1>4, <1>5

(* storeSegment writes to the index pages and to nothing else.              *)
LEMMA StoreWrites ==
  ASSUME SegInv, Store
  PROVE  /\ phase = "open" /\ page' \in [Pages -> Shapes]
         /\ \A p \in Pages \ Elements(indexPages) : page'[p] = page[p]
         /\ \A j \in 1 .. Len(indexPages) :
              page'[indexPages[j]] = IndexPage(StoredEntries(j), fsmPages[1],
                                               IF j = Len(indexPages) THEN 0 ELSE indexPages[j + 1])
<1> DEFINE next(j) == IF j = Len(indexPages) THEN 0 ELSE indexPages[j + 1]
           content(j) == IndexPage(StoredEntries(j), fsmPages[1], next(j))
<1>1. /\ phase = "open"
      /\ page' = [p \in Pages |->
                    IF \E j \in 1 .. Len(indexPages) : indexPages[j] = p
                    THEN content(CHOOSE j \in 1 .. Len(indexPages) : indexPages[j] = p)
                    ELSE page[p]]
  BY DEF Store
<1>2. Laid(page, taken, indexPages, pages, fsmPages) /\ page \in [Pages -> Shapes] /\ layout \in Layouts
  BY <1>1 DEF SegInv, Bounded
<1>3. /\ indexPages \in Seq(Pages) /\ Once(indexPages) /\ pages \in Seq(Pages) /\ fsmPages[1] \in Pages
      /\ layout.entries \in Nat \ {0}
  BY <1>2, SegmentAssumption DEF Laid
<1>4. ASSUME NEW j \in 1 .. Len(indexPages)
      PROVE  page'[indexPages[j]] = content(j)
  <2>1. \A x \in 1 .. Len(indexPages) : indexPages[x] = indexPages[j] => x = j
    BY <1>3 DEF Once
  <2>2. (CHOOSE x \in 1 .. Len(indexPages) : indexPages[x] = indexPages[j]) = j
    BY <2>1
  <2>3. indexPages[j] \in Pages
    BY <1>3
  <2> HIDE DEF content
  <2>4. QED
    BY <1>1, <2>2, <2>3
<1>5. ASSUME NEW j \in 1 .. Len(indexPages)
      PROVE  content(j) \in Indexes
  <2>1. StoredEntries(j) = Part(pages, layout.entries, j)
    BY DEF StoredEntries, Part
  <2>2. Part(pages, layout.entries, j) \in Seq(Pages)
    <3>1. PICK a \in Nat : a = j * layout.entries /\ a - layout.entries \in Nat
      <4>1. \A x, y \in Nat : x * y \in Nat /\ (x + 1) * y = x * y + y
        OBVIOUS
      <4>2. j - 1 \in Nat /\ j - 1 + 1 = j /\ layout.entries \in Nat
        BY <1>3
      <4>3. (j - 1) * layout.entries \in Nat /\ (j - 1 + 1) * layout.entries = (j - 1) * layout.entries + layout.entries
        BY ONLY <4>1, <4>2
      <4>4. QED
        BY <4>2, <4>3
    <3> DEFINE b == a - layout.entries + 1
               c == IF Len(pages) < a THEN Len(pages) ELSE a
    <3>2. b \in Int /\ c \in Int /\ \A x \in b .. c : pages[x] \in Pages
      BY <1>3, <3>1
    <3> HIDE DEF b, c
    <3>3. SubSeq(pages, b, c) \in Seq(Pages)
      BY <3>2, SubSeqProperties
    <3>4. QED
      BY <3>1, <3>3 DEF Part, b, c
  <2>3. next(j) \in 0 .. MaxLimit
    <3>1. j # Len(indexPages) => j + 1 \in 1 .. Len(indexPages)
      OBVIOUS
    <3>2. \A p \in Pages : p \in 0 .. MaxLimit
      BY Limits DEF Pages
    <3>3. QED
      BY <1>3, <3>1, <3>2, Limits
  <2> HIDE DEF next
  <2>4. QED
    BY <1>3, <2>1, <2>2, <2>3 DEF IndexPage, Indexes
<1>6. ASSUME NEW p \in Pages \ Elements(indexPages) PROVE page'[p] = page[p]
  <2>1. ~ \E j \in 1 .. Len(indexPages) : indexPages[j] = p
    BY DEF Elements
  <2> HIDE DEF content
  <2>2. QED
    BY <1>1, <2>1
<1>7. \A p \in Elements(indexPages) : \E j \in 1 .. Len(indexPages) : p = indexPages[j]
  BY DEF Elements
<1> HIDE DEF content
<1>8. page' \in [Pages -> Shapes]
  <2>1. DOMAIN page' = Pages /\ page' = [p \in Pages |-> page'[p]]
    BY <1>1
  <2>2. \A p \in Pages : page'[p] \in Shapes
    BY <1>2, <1>4, <1>5, <1>6, <1>7 DEF Shapes
  <2>3. QED
    BY <2>1, <2>2
<1>9. QED
  BY <1>1, <1>4, <1>6, <1>8 DEF content

(* What storeSegment leaves for the boot to find.                           *)
LEMMA StoreLeaves ==
  ASSUME SegInv, Store
  PROVE  /\ Laid(page', taken, indexPages, StoredPages, fsmPages)
         /\ Written(page', indexPages, StoredPages, fsmPages)
         /\ Recorded(page', given) /\ \A p \in Pages : page[p].kind = "sp" => page'[p] = page[p]
<1>1. /\ phase = "open" /\ page' \in [Pages -> Shapes]
      /\ \A p \in Pages \ Elements(indexPages) : page'[p] = page[p]
      /\ \A j \in 1 .. Len(indexPages) :
           page'[indexPages[j]] = IndexPage(StoredEntries(j), fsmPages[1],
                                            IF j = Len(indexPages) THEN 0 ELSE indexPages[j + 1])
  BY StoreWrites
<1>2. Laid(page, taken, indexPages, pages, fsmPages) /\ page \in [Pages -> Shapes] /\ layout \in Layouts
  BY <1>1 DEF SegInv, Bounded
<1>3. /\ StoredPages \in Seq(Pages) /\ Len(StoredPages) <= Len(indexPages) * layout.entries
      /\ Once(StoredPages) /\ Elements(StoredPages) \subseteq Elements(pages)
      /\ StoreKind = "fits" => StoredPages = pages
  BY <1>1, StoredPagesIs
<1>4. Fits => StoredPages = pages
  BY <1>3 DEF Store, Fits, StoreKind
<1>5. ASSUME NEW j \in 1 .. Len(indexPages)
      PROVE  /\ page'[indexPages[j]].kind = "index"
             /\ page'[indexPages[j]].entries = Part(StoredPages, layout.entries, j)
             /\ page'[indexPages[j]].fsm = fsmPages[1]
             /\ page'[indexPages[j]].next = IF j = Len(indexPages) THEN 0 ELSE indexPages[j + 1]
  <2>1. StoredEntries(j) = Part(pages, layout.entries, j)
    BY DEF StoredEntries, Part
  <2>2. Part(StoredPages, layout.entries, j) = Part(pages, layout.entries, j)
    <3>1. pages \in Seq(Pages) /\ layout.entries \in Nat /\ Len(indexPages) \in Nat
      BY <1>2, SegmentAssumption DEF Laid
    <3> DEFINE m == Len(indexPages)
               e == layout.entries
    <3>2. m \in Nat /\ e \in Nat /\ j \in 1 .. m
      BY <3>1
    <3> HIDE DEF m, e
    <3>3. Part(SubSeq(pages, 1, Lesser(Len(pages), m * e)), e, j) = Part(pages, e, j)
      BY ONLY <3>1, <3>2, PartOfPrefix
    <3>4. QED
      BY <3>3 DEF StoredPages, m, e
  <2>3. \A e, f, n : /\ IndexPage(e, f, n).kind = "index" /\ IndexPage(e, f, n).entries = e
                      /\ IndexPage(e, f, n).fsm = f /\ IndexPage(e, f, n).next = n
    BY DEF IndexPage
  <2> DEFINE next == IF j = Len(indexPages) THEN 0 ELSE indexPages[j + 1]
  <2>4. page'[indexPages[j]] = IndexPage(StoredEntries(j), fsmPages[1], next)
    BY <1>1
  <2>5. StoredEntries(j) = Part(StoredPages, layout.entries, j)
    BY <2>1, <2>2
  <2> HIDE DEF next
  <2>6. /\ page'[indexPages[j]].kind = "index" /\ page'[indexPages[j]].entries = StoredEntries(j)
        /\ page'[indexPages[j]].fsm = fsmPages[1] /\ page'[indexPages[j]].next = next
    BY ONLY <2>3, <2>4
  <2>7. QED
    BY <2>5, <2>6 DEF next
<1>6. Elements(indexPages) \subseteq Pages /\ Elements(pages) \subseteq Pages /\ Elements(fsmPages) \subseteq Pages
  BY <1>2, ElementsIn DEF Laid
<1>7. \A p \in Elements(pages) \cup Elements(fsmPages) : page'[p] = page[p]
  BY <1>1, <1>2, <1>6 DEF Laid
<1>8. Joined(page', fsmPages)
  <2>1. \A x \in 1 .. Len(fsmPages) : fsmPages[x] \in Elements(fsmPages)
    BY DEF Elements
  <2>2. Joined(page, fsmPages)
    BY <1>2 DEF Laid
  <2>3. QED
    BY <1>7, <2>1, <2>2 DEF Joined
<1>9. \A p \in Elements(indexPages) : page'[p].kind = "index"
  BY <1>5 DEF Elements
<1>10. Laid(page', taken, indexPages, StoredPages, fsmPages)
  BY <1>2, <1>3, <1>4, <1>7, <1>8, <1>9 DEF Laid
<1>11. Written(page', indexPages, StoredPages, fsmPages)
  <2>1. Joined(page', indexPages)
    BY <1>5 DEF Joined
  <2>2. QED
    BY <1>3, <1>5, <2>1 DEF Written
<1>12. \A p \in Pages : page[p].kind = "sp" => page'[p] = page[p]
  BY <1>1, <1>2 DEF Laid
<1>13. Recorded(page', given)
  BY <1>12, SimilarRecorded
<1>14. QED
  BY <1>10, <1>11, <1>12, <1>13

(* The shutdown.                                                            *)
LEMMA StoreInv == ASSUME SegInv, Store PROVE SegInv'
<1>1. /\ phase = "open" /\ phase' = "stored" /\ indexPages' = <<>> /\ fsmPages' = <<>> /\ pages' = <<>>
      /\ latched' = {} /\ UNCHANGED <<first, layout, taken, given, deletes>>
  BY DEF Store
<1>2. /\ Laid(page', taken, indexPages, StoredPages, fsmPages)
      /\ Written(page', indexPages, StoredPages, fsmPages) /\ Recorded(page', given)
  BY StoreLeaves
<1>3. page' \in [Pages -> Shapes] /\ \A p \in Pages \ Elements(indexPages) : page'[p] = page[p]
  BY StoreWrites
<1>4. first = indexPages[1] /\ Bounded /\ Elements(indexPages) \subseteq taken
      /\ \A p \in Pages \ taken : page[p] = Zeros
  BY <1>1 DEF SegInv, Laid
<1>5. \A p \in Pages \ taken : page'[p] = Zeros
  BY <1>3, <1>4
<1>6. QED
  BY <1>1, <1>2, <1>3, <1>4, <1>5 DEF SegInv, Bounded, Written

-----------------------------------------------------------------------------
(* What a boot finds on pages with the contents g, e entries on an index    *)
(* page.                                                                    *)
LEMMA FoundIn ==
  ASSUME NEW g, NEW t, NEW ip, NEW dp, NEW fp, Laid(g, t, ip, dp, fp), Joined(g, ip),
         NEW e \in Nat, Len(dp) <= Len(ip) * e,
         \A j \in 1 .. Len(ip) : g[ip[j]].entries = Part(dp, e, j)
  PROVE  ChainOf(g, ip[1]) = ip /\ EntriesIn(g, ip) = dp /\ ChainOf(g, fp[1]) = fp
<1>1. /\ ip \in Seq(Pages) /\ dp \in Seq(Pages) /\ fp \in Seq(Pages)
      /\ Len(ip) >= 1 /\ Len(fp) >= 1 /\ Once(ip) /\ Once(dp) /\ Once(fp) /\ Joined(g, fp)
  BY DEF Laid
<1>2. Len(ip) <= MaxLimit /\ Len(fp) <= MaxLimit /\ ip # <<>> /\ fp # <<>>
  BY <1>1, OnceIs
<1>3. ChainOf(g, ip[1]) = ip /\ ChainOf(g, fp[1]) = fp
  BY <1>1, <1>2, ChainIs
<1> DEFINE m == Len(ip) * e
<1>4. m \in Nat /\ Len(dp) <= m /\ Len(dp) \in Nat
  <2>1. \A x, y \in Nat : x * y \in Nat
    OBVIOUS
  <2>2. Len(ip) \in Nat /\ Len(dp) \in Nat
    BY <1>1
  <2>3. QED
    BY <2>1, <2>2
<1>5. EntriesIn(g, ip) = SubSeq(dp, 1, Lesser(Len(dp), m))
  BY <1>1, EntriesIs
<1> HIDE DEF m
<1>6. Lesser(Len(dp), m) = Len(dp)
  BY <1>4 DEF Lesser
<1>7. SubSeq(dp, 1, Len(dp)) = dp
  BY <1>1, SubSeqFull
<1>8. QED
  BY <1>3, <1>5, <1>6, <1>7

(* The same for the pages as they are.                                      *)
LEMMA FoundIs ==
  ASSUME NEW ip, NEW dp, NEW fp, Laid(page, taken, ip, dp, fp), Written(page, ip, dp, fp),
         layout \in Layouts
  PROVE  /\ Chain(ip[1]) = ip /\ EntriesOf(ip) = dp
         /\ page[ip[1]].fsm = fp[1] /\ page[ip[Len(ip)]].fsm = fp[1] /\ Chain(fp[1]) = fp
<1> DEFINE e == layout.entries
<1>1. /\ e \in Nat /\ Len(dp) <= Len(ip) * e /\ Joined(page, ip)
      /\ \A j \in 1 .. Len(ip) : page[ip[j]].entries = Part(dp, e, j)
      /\ \A j \in 1 .. Len(ip) : page[ip[j]].fsm = fp[1]
  BY SegmentAssumption DEF Written
<1> HIDE DEF e
<1>2. ChainOf(page, ip[1]) = ip /\ EntriesIn(page, ip) = dp /\ ChainOf(page, fp[1]) = fp
  BY <1>1, FoundIn
<1>3. 1 \in 1 .. Len(ip) /\ Len(ip) \in 1 .. Len(ip)
  BY DEF Laid
<1>4. QED
  BY <1>1, <1>2, <1>3, Definitions

(* loadSegment after a boot.                                                *)
LEMMA LoadInv == ASSUME SegInv, Load PROVE SegInv'
<1>1. /\ phase = "stored" /\ phase' = "open" /\ indexPages' = Chain(first)
      /\ pages' = EntriesOf(Chain(first))
      /\ fsmPages' = Chain(page[Chain(first)[Len(Chain(first))]].fsm)
      /\ UNCHANGED <<first, page, layout, taken, latched, given, deletes>>
  BY DEF Load
<1>2. layout \in Layouts /\ \E ip, dp, fp :
        Laid(page, taken, ip, dp, fp) /\ Written(page, ip, dp, fp) /\ first = ip[1]
  BY <1>1 DEF SegInv, Bounded
<1>3. PICK ip, dp, fp : Laid(page, taken, ip, dp, fp) /\ Written(page, ip, dp, fp) /\ first = ip[1]
  BY <1>2
<1>4. indexPages' = ip /\ pages' = dp /\ fsmPages' = fp
  <2>1. /\ Chain(ip[1]) = ip /\ EntriesOf(ip) = dp
        /\ page[ip[1]].fsm = fp[1] /\ page[ip[Len(ip)]].fsm = fp[1] /\ Chain(fp[1]) = fp
    BY <1>2, <1>3, FoundIs
  <2>2. QED
    BY <1>1, <1>3, <2>1
<1>5. Laid(page', taken', indexPages', pages', fsmPages') /\ first' = indexPages'[1]
  BY <1>1, <1>3, <1>4
<1>6. Recorded(page', given')
  BY <1>1 DEF SegInv
<1>7. Bounded' /\ page' \in [Pages -> Shapes] /\ \A p \in Pages \ taken' : page'[p] = Zeros
  BY <1>1 DEF SegInv, Bounded
<1>8. QED
  BY <1>1, <1>5, <1>6, <1>7 DEF SegInv

-----------------------------------------------------------------------------
(* The invariant holds after every step.                                    *)
LEMMA NextInv == SegInv /\ [Next]_vars => SegInv'
<1> SUFFICES ASSUME SegInv, [Next]_vars PROVE SegInv'
  OBVIOUS
<1>1. CASE Create
  BY <1>1, CreateInv
<1>2. CASE Store
  BY <1>2, StoreInv
<1>3. CASE Load
  BY <1>3, LoadInv
<1>4. CASE Erase
  BY <1>4, EraseInv
<1>5. ASSUME NEW n \in Sizes, InsertInto(n) PROVE SegInv'
  BY <1>5, InsertIntoInv
<1>6. ASSUME NEW n \in Sizes, InsertNew(n) PROVE SegInv'
  BY <1>6, InsertNewInv
<1>7. ASSUME NEW n \in Sizes, InsertFsm(n) PROVE SegInv'
  BY <1>7, InsertFsmInv
<1>8. ASSUME NEW k \in 1 .. Len(pages), NEW i \in 1 .. Len(page[pages[k]].recs), Delete(k, i)
      PROVE  SegInv'
  BY <1>8, DeleteInv
<1>9. CASE UNCHANGED vars
  <2>1. UNCHANGED <<phase, first, indexPages, fsmPages, pages, page, layout, taken, latched, given, deletes>>
    BY <1>9 DEF vars, objectVars
  <2>2. QED
    BY <2>1 DEF SegInv, Bounded, Recorded, Written
<1>10. QED
  BY <1>1, <1>2, <1>3, <1>4, <1>5, <1>6, <1>7, <1>8, <1>9 DEF Next

-----------------------------------------------------------------------------
(* A sound slotted page has its fields in range.                            *)
LEMMA SlottedContents == ASSUME NEW q \in Slotted PROVE q \in Contents
<1> DEFINE Recs == [off : 0 .. PageSize, size : Sizes, valid : BOOLEAN]
<1>1. /\ q \in SpPages /\ q.recs \in Seq(Records) /\ Sound(q) /\ PageSize \in Nat
      /\ \A i \in 1 .. Len(q.recs) : q.recs[i].size \in Sizes
  BY SegmentAssumption DEF Slotted, SpPages
<1>2. q.end \in Nat /\ q.free \in Nat /\ Len(q.recs) \in Nat /\ q.end + q.free + 6 * Len(q.recs) = PageSize - 24
  BY <1>1 DEF SpPages, Sound
<1>3. q.end \in 0 .. PageSize /\ q.free \in 0 .. PageSize
  <2>1. PICK e \in Nat, f \in Nat, l \in Nat : e = q.end /\ f = q.free /\ l = Len(q.recs)
    BY <1>2
  <2>2. e + f + 6 * l = PageSize - 24
    BY <1>2, <2>1
  <2>3. e \in 0 .. PageSize /\ f \in 0 .. PageSize
    BY <1>1, <2>2
  <2>4. QED
    BY <2>1, <2>3
<1>4. ASSUME NEW i \in 1 .. Len(q.recs) PROVE q.recs[i] \in Recs
  <2>1. q.recs[i] \in Records
    BY <1>1
  <2>2. q.recs[i].off + q.recs[i].size <= q.end
    BY <1>1 DEF Sound
  <2>3. q.recs[i].off \in Nat /\ q.recs[i].size \in Nat /\ q.recs[i].size \in Sizes
    BY <1>1, <2>1 DEF Records
  <2>4. q.recs[i].off \in 0 .. PageSize
    BY <1>1, <1>3, <2>2, <2>3
  <2>5. QED
    BY <2>1, <2>3, <2>4 DEF Records
<1> HIDE DEF Recs
<1>5. q.recs \in Seq(Recs)
  BY <1>1, <1>4
<1>6. q \in [kind : {"zeros", "sp"}, free : 0 .. PageSize, end : 0 .. PageSize, recs : Seq(Recs)]
  BY <1>1, <1>3, <1>5 DEF SpPages
<1>7. QED
  BY <1>6 DEF Contents, Recs

(* Every shape has its fields in range.                                     *)
LEMMA ShapesContents == Shapes \subseteq Contents
<1>1. Zeros \in Contents
  <2>1. <<>> \in Seq([off : 0 .. PageSize, size : Sizes, valid : BOOLEAN]) /\ 0 \in 0 .. PageSize
    BY SegmentAssumption
  <2>2. QED
    BY <2>1 DEF Zeros, Contents
<1>2. Fsms \subseteq Contents /\ Indexes \subseteq Contents
  BY DEF Fsms, Indexes, Contents
<1>3. QED
  BY <1>1, <1>2, SlottedContents DEF Shapes

(* The invariant has the types.                                             *)
LEMMA SegInvTypes == SegInv => TypeOK
<1> SUFFICES ASSUME SegInv PROVE TypeOK
  OBVIOUS
<1>1. page \in [Pages -> Contents]
  BY ShapesContents DEF SegInv
<1>2. given \subseteq Pages \X Nat
  BY DEF SegInv, Recorded
<1>3. \A p \in Pages : p \in 0 .. MaxLimit
  BY Limits DEF Pages
<1>4. 0 \in 0 .. MaxLimit /\ <<>> \in Seq(Pages)
  BY Limits
<1>5. CASE phase = "open"
  <2>1. indexPages \in Seq(Pages) /\ fsmPages \in Seq(Pages) /\ pages \in Seq(Pages) /\ first \in Pages
    BY <1>5 DEF SegInv, Laid
  <2>2. QED
    BY <1>1, <1>2, <1>3, <2>1 DEF SegInv, Bounded, TypeOK
<1>6. CASE phase = "stored"
  <2>1. first \in Pages
    <3>1. PICK ip, dp, fp : Laid(page, taken, ip, dp, fp) /\ first = ip[1]
      BY <1>6 DEF SegInv
    <3>2. QED
      BY <3>1 DEF Laid
  <2>2. QED
    BY <1>1, <1>2, <1>3, <1>4, <1>6, <2>1 DEF SegInv, Bounded, TypeOK
<1>7. CASE phase \in {"none", "erased"}
  BY <1>1, <1>2, <1>4, <1>7 DEF SegInv, Bounded, TypeOK
<1>8. QED
  BY <1>5, <1>6, <1>7 DEF SegInv, Bounded

(* The invariant keeps records apart.                                       *)
LEMMA SegInvApart == SegInv => RecordsApart
  <1> SUFFICES ASSUME SegInv, NEW p \in Pages, page[p].kind = "sp"
               PROVE  LET q == page[p]  no == Len(q.recs) IN
                      /\ q.end + q.free + SlotSize * no = PageSize - SpHeader
                      /\ \A i, j \in 1 .. no : i < j => q.recs[i].off + q.recs[i].size <= q.recs[j].off
                      /\ no > 0 => q.recs[no].off + q.recs[no].size <= PageSize - SpHeader - SlotSize * no
    BY DEF RecordsApart
  <1> DEFINE q == page[p]
             no == Len(q.recs)
  <1>1. Sound(q)
    BY ShapeIs DEF SegInv, Slotted
  <1>2. no \in Nat /\ q.end \in Nat /\ q.free \in Nat /\ q.recs \in Seq(Records)
    BY <1>1 DEF Sound, SpPages
  <1>3. q.end + q.free + 6 * no = PageSize - 24
    BY <1>1 DEF Sound
  <1>4. no > 0 => q.recs[no].off + q.recs[no].size <= q.end /\ q.recs[no] \in Records
    BY <1>1, <1>2 DEF Sound
  <1>5. no > 0 => q.recs[no].off + q.recs[no].size <= PageSize - 24 - 6 * no
    <2> SUFFICES ASSUME no > 0 PROVE q.recs[no].off + q.recs[no].size <= PageSize - 24 - 6 * no
      OBVIOUS
    <2>1. PICK o \in Nat, s \in Nat : o = q.recs[no].off /\ s = q.recs[no].size
      BY <1>4 DEF Records
    <2>2. PICK e \in Nat, f \in Nat, m \in Nat : e = q.end /\ f = q.free /\ m = no
      BY <1>2
    <2>3. o + s <= e /\ e + f + 6 * m = PageSize - 24
      BY <1>3, <1>4, <2>1, <2>2
    <2>4. o + s <= PageSize - 24 - 6 * m
      BY <2>3, SegmentAssumption
    <2> QED
      BY <2>1, <2>2, <2>4
  <1> QED
    BY <1>1, <1>3, <1>5 DEF Sound, SlotSize, SpHeader

(* The invariant has the FSMs linked.                                       *)
LEMMA SegInvLinked == SegInv => FsmsLinked
<1> SUFFICES ASSUME SegInv, phase = "open" PROVE fsmPages = Chain(fsmPages[1])
  BY DEF FsmsLinked
<1>1. fsmPages \in Seq(Pages) /\ Len(fsmPages) >= 1 /\ Once(fsmPages) /\ Joined(page, fsmPages)
  BY DEF SegInv, Laid
<1>2. Len(fsmPages) <= MaxLimit /\ fsmPages # <<>>
  BY <1>1, OnceIs
<1>3. ChainOf(page, fsmPages[1]) = fsmPages
  BY <1>1, <1>2, ChainIs
<1>4. QED
  BY <1>3, Definitions

-----------------------------------------------------------------------------
(* Lists that are laid out have as many pages as are taken.                 *)
LEMMA LaidCounts ==
  ASSUME Fits, NEW ip, NEW dp, NEW fp, Laid(page, taken, ip, dp, fp)
  PROVE  /\ taken = Elements(ip \o dp \o fp)
         /\ Cardinality(taken) = Len(ip) + Len(dp) + Len(fp)
<1>1. /\ ip \in Seq(Pages) /\ dp \in Seq(Pages) /\ fp \in Seq(Pages)
      /\ Once(ip) /\ Once(dp) /\ Once(fp)
      /\ Elements(ip) \cap Elements(dp) = {} /\ Elements(ip) \cap Elements(fp) = {}
      /\ Elements(dp) \cap Elements(fp) = {} /\ taken = Elements(ip) \cup Elements(dp) \cup Elements(fp)
  BY DEF Laid
<1>2. ASSUME NEW s \in Seq(Pages), NEW t \in Seq(Pages)
      PROVE  s \o t \in Seq(Pages) /\ Elements(s \o t) = Elements(s) \cup Elements(t)
  <2>1. /\ s \o t \in Seq(Pages) /\ Len(s \o t) = Len(s) + Len(t) /\ Len(s) \in Nat /\ Len(t) \in Nat
        /\ \A i \in 1 .. Len(s) : (s \o t)[i] = s[i]
        /\ \A i \in 1 .. Len(t) : (s \o t)[Len(s) + i] = t[i]
    BY ConcatProperties
  <2> DEFINE u == s \o t
  <2> HIDE DEF u
  <2>2. \A i \in 1 .. Len(u) : i \in 1 .. Len(s) \/ (i - Len(s) \in 1 .. Len(t) /\ i = Len(s) + (i - Len(s)))
    BY <2>1 DEF u
  <2>3. \A i \in 1 .. Len(s) : i \in 1 .. Len(u)
    BY <2>1 DEF u
  <2>4. \A i \in 1 .. Len(t) : Len(s) + i \in 1 .. Len(u)
    BY <2>1 DEF u
  <2>5. Elements(u) = Elements(s) \cup Elements(t)
    BY <2>1, <2>2, <2>3, <2>4 DEF Elements, u
  <2>6. QED
    BY <2>1, <2>5 DEF u
<1>3. taken = Elements(ip \o dp \o fp)
  <2> DEFINE u == ip \o dp
  <2>1. u \in Seq(Pages) /\ Elements(u) = Elements(ip) \cup Elements(dp)
    BY <1>1, <1>2
  <2> HIDE DEF u
  <2>2. Elements(u \o fp) = Elements(u) \cup Elements(fp)
    BY <1>1, <1>2, <2>1
  <2>3. QED
    BY <1>1, <2>1, <2>2 DEF u
<1>4. \A s \in {ip, dp, fp} : IsFiniteSet(Elements(s)) /\ Cardinality(Elements(s)) = Len(s) /\ Len(s) \in Nat
  BY <1>1, OnceIs
<1>5. IsFiniteSet(Elements(ip) \cup Elements(dp))
      /\ Cardinality(Elements(ip) \cup Elements(dp)) = Len(ip) + Len(dp)
  <2> DEFINE A == Elements(ip)
             B == Elements(dp)
  <2>1. /\ IsFiniteSet(A) /\ IsFiniteSet(B) /\ Cardinality(A \cap B) = 0
        /\ Cardinality(A) = Len(ip) /\ Cardinality(B) = Len(dp)
    BY <1>1, <1>4, FS_EmptySet
  <2> HIDE DEF A, B
  <2>2. /\ IsFiniteSet(A \cup B)
        /\ Cardinality(A \cup B) = Cardinality(A) + Cardinality(B) - Cardinality(A \cap B)
    BY <2>1, FS_Union
  <2>3. Len(ip) \in Nat /\ Len(dp) \in Nat
    BY <1>1
  <2>4. IsFiniteSet(A \cup B) /\ Cardinality(A \cup B) = Len(ip) + Len(dp)
    BY <2>1, <2>2, <2>3
  <2>5. QED
    BY <2>4 DEF A, B
<1>6. Cardinality(taken) = (Len(ip) + Len(dp)) + Len(fp)
  <2> DEFINE A == Elements(ip) \cup Elements(dp)
             B == Elements(fp)
  <2>1. IsFiniteSet(A) /\ IsFiniteSet(B) /\ A \cap B = {} /\ taken = A \cup B
        /\ Cardinality(A) = Len(ip) + Len(dp) /\ Cardinality(B) = Len(fp) /\ Cardinality(A \cap B) = 0
    BY <1>1, <1>4, <1>5, FS_EmptySet
  <2> HIDE DEF A, B
  <2>2. Cardinality(A \cup B) = Cardinality(A) + Cardinality(B) - Cardinality(A \cap B)
    BY <2>1, FS_Union
  <2>3. QED
    BY <1>4, <2>1, <2>2
<1>7. QED
  BY <1>3, <1>6

(* The invariant accounts for every page, if shutdowns fit.                 *)
LEMMA SegInvAccounts == ASSUME Fits PROVE SegInv => PagesAccounted
<1> SUFFICES ASSUME SegInv PROVE PagesAccounted
  OBVIOUS
<1>1. CASE phase \in {"none", "erased"}
  BY <1>1 DEF SegInv, PagesAccounted
<1>2. CASE phase = "open"
  <2>1. Laid(page, taken, indexPages, pages, fsmPages)
    BY <1>2 DEF SegInv
  <2>2. /\ taken = Elements(indexPages \o pages \o fsmPages)
        /\ Cardinality(taken) = Len(indexPages) + Len(pages) + Len(fsmPages)
    BY <2>1, LaidCounts
  <2>3. QED
    BY <1>2, <2>2 DEF PagesAccounted, IndexNow, DataNow, FsmsNow
<1>3. CASE phase = "stored"
  <2>1. PICK ip, dp, fp : Laid(page, taken, ip, dp, fp) /\ Written(page, ip, dp, fp) /\ first = ip[1]
    BY <1>3 DEF SegInv
  <2>2. layout \in Layouts
    BY DEF SegInv, Bounded
  <2>3. /\ Chain(ip[1]) = ip /\ EntriesOf(ip) = dp /\ page[ip[1]].fsm = fp[1] /\ Chain(fp[1]) = fp
    BY <2>1, <2>2, FoundIs
  <2>4. IndexNow = ip /\ DataNow = dp /\ FsmsNow = fp
    BY <1>3, <2>1, <2>3 DEF IndexNow, DataNow, FsmsNow
  <2>5. /\ taken = Elements(ip \o dp \o fp)
        /\ Cardinality(taken) = Len(ip) + Len(dp) + Len(fp)
    BY <2>1, LaidCounts
  <2>6. QED
    BY <1>3, <2>4, <2>5 DEF PagesAccounted
<1>4. QED
  BY <1>1, <1>2, <1>3 DEF SegInv, Bounded

-----------------------------------------------------------------------------
(* The tuples of the segment, as TupleStore has them.                       *)

(* The valid records of the data pages s, with the contents g.              *)
Held(g, s) ==
  {t \in Elements(s) \X Nat : t[2] \in 1 .. Len(g[t[1]].recs) /\ g[t[1]].recs[t[2]].valid}

Size(t) == page[t[1]].recs[t[2]].size

(* TuplesNow in these words.                                                *)
LEMMA HeldIs ==
  ASSUME NEW g \in [Pages -> Shapes], NEW s \in Seq(Pages),
         \A p \in Elements(s) : g[p].kind \in {"zeros", "sp"}
  PROVE  UNION {{<<p, i>> : i \in {i \in 1 .. Len(g[p].recs) : g[p].recs[i].valid}} : p \in Elements(s)}
           = Held(g, s)
<1>1. ASSUME NEW p \in Elements(s) PROVE 1 .. Len(g[p].recs) \subseteq Nat
  <2>1. p \in Pages /\ g[p] \in Shapes
    BY ElementsIn
  <2>2. g[p] = Zeros \/ g[p] \in Slotted
    BY <2>1, ShapeIs
  <2>3. g[p].recs = <<>> \/ g[p].recs \in Seq(Records)
    BY <2>2 DEF Zeros, Slotted, SpPages
  <2>4. QED
    BY <2>3
<1>2. QED
  BY <1>1 DEF Held

(* Data pages s with g become data pages t with h: none of s is touched and *)
(* those that are new are empty.                                            *)
Untouched(g, h, s, t) ==
  /\ Elements(s) \subseteq Elements(t) /\ \A q \in Elements(s) : h[q] = g[q]
  /\ \A q \in Elements(t) \ Elements(s) : h[q].recs = <<>>

SameHeld(g, h, s, t) == Held(h, t) = Held(g, s) /\ \A u \in Held(g, s) : h[u[1]] = g[u[1]]

(* The tuples stay.                                                         *)
LEMMA HeldSame ==
  ASSUME NEW g, NEW h, NEW s, NEW t, Untouched(g, h, s, t)
  PROVE  SameHeld(g, h, s, t)
<1>1. ASSUME NEW u \in Held(h, t) PROVE u \in Held(g, s)
  <2>1. u \in Elements(t) \X Nat /\ u[2] \in 1 .. Len(h[u[1]].recs) /\ h[u[1]].recs[u[2]].valid
    BY DEF Held
  <2>2. u[1] \in Elements(s)
    <3>1. 1 .. Len(<<>>) = {}
      OBVIOUS
    <3>2. QED
      BY <2>1, <3>1 DEF Untouched
  <2>3. QED
    BY <2>1, <2>2 DEF Held, Untouched
<1>2. ASSUME NEW u \in Held(g, s) PROVE u \in Held(h, t) /\ h[u[1]] = g[u[1]]
  BY DEF Held, Untouched
<1>3. QED
  BY <1>1, <1>2 DEF SameHeld

(* p, one of them or new, has a valid record more, behind its m records.    *)
Added(g, h, s, t, p, m) ==
  /\ Elements(t) = Elements(s) \cup {p} /\ \A q \in Elements(s) \ {p} : h[q] = g[q]
  /\ p \in Elements(s) \/ g[p].recs = <<>>
  /\ m \in Nat /\ Len(g[p].recs) = m /\ Len(h[p].recs) = m + 1 /\ h[p].recs[m + 1].valid
  /\ \A i \in 1 .. m : h[p].recs[i] = g[p].recs[i]

MoreHeld(g, h, s, t, p, m) ==
  /\ Held(h, t) = Held(g, s) \cup {<<p, m + 1>>}
  /\ \A u \in Held(g, s) : h[u[1]].recs[u[2]] = g[u[1]].recs[u[2]]

(* There is a tuple more.                                                   *)
LEMMA HeldAdded ==
  ASSUME NEW g, NEW h, NEW s, NEW t, NEW p, NEW m, Added(g, h, s, t, p, m)
  PROVE  MoreHeld(g, h, s, t, p, m)
<1>0. /\ Elements(t) = Elements(s) \cup {p} /\ \A q \in Elements(s) \ {p} : h[q] = g[q]
      /\ p \in Elements(s) \/ g[p].recs = <<>>
      /\ m \in Nat /\ Len(g[p].recs) = m /\ Len(h[p].recs) = m + 1 /\ h[p].recs[m + 1].valid
      /\ \A i \in 1 .. m : h[p].recs[i] = g[p].recs[i]
  BY DEF Added
<1>1. ASSUME NEW u \in Held(h, t), u # <<p, m + 1>> PROVE u \in Held(g, s)
  <2>1. u \in Elements(t) \X Nat /\ u[2] \in 1 .. Len(h[u[1]].recs) /\ h[u[1]].recs[u[2]].valid
    BY DEF Held
  <2>2. CASE u[1] = p
    <3>1. u[2] \in 1 .. m
      BY <1>0, <1>1, <2>1, <2>2
    <3>2. g[p].recs # <<>>
      <4>1. Len(<<>>) = 0
        OBVIOUS
      <4>2. QED
        BY <1>0, <3>1, <4>1
    <3>3. QED
      BY <1>0, <2>1, <2>2, <3>1, <3>2 DEF Held
  <2>3. CASE u[1] # p
    BY <1>0, <2>1, <2>3 DEF Held
  <2>4. QED
    BY <2>2, <2>3
<1>2. ASSUME NEW u \in Held(g, s)
      PROVE  u \in Held(h, t) /\ h[u[1]].recs[u[2]] = g[u[1]].recs[u[2]]
  <2>1. u \in Elements(s) \X Nat /\ u[2] \in 1 .. Len(g[u[1]].recs) /\ g[u[1]].recs[u[2]].valid
    BY DEF Held
  <2>2. CASE u[1] = p
    BY <1>0, <2>1, <2>2 DEF Held
  <2>3. CASE u[1] # p
    BY <1>0, <2>1, <2>3 DEF Held
  <2>4. QED
    BY <2>2, <2>3
<1>3. <<p, m + 1>> \in Held(h, t)
  BY <1>0 DEF Held
<1>4. QED
  BY <1>1, <1>2, <1>3 DEF MoreHeld

(* The record i of p, one of the data pages s, is marked deleted.           *)
Removed(g, h, s, p, i) ==
  /\ p \in Elements(s) /\ \A q \in Elements(s) \ {p} : h[q] = g[q]
  /\ Len(g[p].recs) \in Nat /\ Len(h[p].recs) = Len(g[p].recs)
  /\ i \in 1 .. Len(g[p].recs) /\ g[p].recs[i].valid
  /\ \A j \in 1 .. Len(g[p].recs) : /\ h[p].recs[j].size = g[p].recs[j].size
                                    /\ h[p].recs[j].valid <=> g[p].recs[j].valid /\ j # i

LessHeld(g, h, s, p, i) ==
  /\ <<p, i>> \in Held(g, s) /\ Held(h, s) = Held(g, s) \ {<<p, i>>}
  /\ \A u \in Held(h, s) : h[u[1]].recs[u[2]].size = g[u[1]].recs[u[2]].size

(* There is a tuple less.                                                   *)
LEMMA HeldLess ==
  ASSUME NEW g, NEW h, NEW s, NEW p, NEW i, Removed(g, h, s, p, i)
  PROVE  LessHeld(g, h, s, p, i)
<1>0. /\ p \in Elements(s) /\ \A q \in Elements(s) \ {p} : h[q] = g[q]
      /\ Len(g[p].recs) \in Nat /\ Len(h[p].recs) = Len(g[p].recs)
      /\ i \in 1 .. Len(g[p].recs) /\ g[p].recs[i].valid
      /\ \A j \in 1 .. Len(g[p].recs) : /\ h[p].recs[j].size = g[p].recs[j].size
                                        /\ h[p].recs[j].valid <=> g[p].recs[j].valid /\ j # i
  BY DEF Removed
<1>1. ASSUME NEW u \in Held(h, s)
      PROVE  u \in Held(g, s) /\ u # <<p, i>> /\ h[u[1]].recs[u[2]].size = g[u[1]].recs[u[2]].size
  <2>1. u \in Elements(s) \X Nat /\ u[2] \in 1 .. Len(h[u[1]].recs) /\ h[u[1]].recs[u[2]].valid
    BY DEF Held
  <2>2. CASE u[1] = p
    BY <1>0, <2>1, <2>2 DEF Held
  <2>3. CASE u[1] # p
    BY <1>0, <2>1, <2>3 DEF Held
  <2>4. QED
    BY <2>2, <2>3
<1>2. ASSUME NEW u \in Held(g, s), u # <<p, i>> PROVE u \in Held(h, s)
  <2>1. u \in Elements(s) \X Nat /\ u[2] \in 1 .. Len(g[u[1]].recs) /\ g[u[1]].recs[u[2]].valid
    BY DEF Held
  <2>2. CASE u[1] = p
    <3>1. u[2] # i
      BY <1>2, <2>1, <2>2
    <3>2. QED
      BY <1>0, <2>1, <2>2, <3>1 DEF Held
  <2>3. CASE u[1] # p
    BY <1>0, <2>1, <2>3 DEF Held
  <2>4. QED
    BY <2>2, <2>3
<1>3. <<p, i>> \in Held(g, s)
  BY <1>0 DEF Held
<1>4. QED
  BY <1>1, <1>2, <1>3 DEF LessHeld

-----------------------------------------------------------------------------
(* What the abstract store sees.                                            *)
TuplesHeld == TuplesNow = IF phase \in {"open", "stored"} THEN Held(page, DataNow) ELSE {}

(* The tuples are those held by the data pages there are.                   *)
LEMMA TuplesAre == SegInv => TuplesHeld
<1> SUFFICES ASSUME SegInv
             PROVE  TuplesNow = IF phase \in {"open", "stored"} THEN Held(page, DataNow) ELSE {}
  BY DEF TuplesHeld
<1>1. phase \in {"none", "open", "stored", "erased"} /\ layout \in Layouts /\ page \in [Pages -> Shapes]
  BY DEF SegInv, Bounded
<1>2. CASE phase \in {"open", "stored"}
  <2>1. \E ip, dp, fp : Laid(page, taken, ip, dp, fp) /\ DataNow = dp
    <3>1. CASE phase = "open"
      BY <3>1 DEF SegInv, DataNow
    <3>2. CASE phase = "stored"
      <4>1. PICK ip, dp, fp : Laid(page, taken, ip, dp, fp) /\ Written(page, ip, dp, fp) /\ first = ip[1]
        BY <3>2 DEF SegInv
      <4>2. DataNow = dp
        BY <1>1, <3>2, <4>1, FoundIs DEF DataNow
      <4>3. QED
        BY <4>1, <4>2
    <3>3. QED
      BY <1>2, <3>1, <3>2
  <2>2. DataNow \in Seq(Pages) /\ \A p \in Elements(DataNow) : page[p].kind \in {"zeros", "sp"}
    BY <2>1 DEF Laid
  <2> DEFINE d == DataNow
  <2>3. UNION {{<<p, i>> : i \in {i \in 1 .. Len(page[p].recs) : page[p].recs[i].valid}} : p \in Elements(d)}
          = Held(page, d)
    BY <1>1, <2>2, HeldIs
  <2> HIDE DEF d
  <2>4. TuplesNow
          = UNION {{<<p, i>> : i \in {i \in 1 .. Len(page[p].recs) : page[p].recs[i].valid}} : p \in Elements(d)}
    BY <1>2 DEF TuplesNow, d
  <2>5. QED
    BY <1>2, <2>3, <2>4 DEF d
<1>3. CASE phase \in {"none", "erased"}
  BY <1>3 DEF TuplesNow
<1>4. QED
  BY <1>1, <1>2, <1>3

(* The same after a step.                                                   *)
LEMMA TuplesNext == SegInv' => TuplesHeld'
BY TuplesAre, PTL

(* The same for a step of an open segment.                                  *)
LEMMA OpenTuples ==
  ASSUME SegInv, SegInv', phase = "open", phase' = "open"
  PROVE  TuplesNow = Held(page, pages) /\ TuplesNow' = Held(page', pages')
<1>1. TuplesNow = Held(page, DataNow)
  BY TuplesAre DEF TuplesHeld
<1>2. TuplesNow' = Held(page', DataNow')
  BY TuplesNext DEF TuplesHeld, Held
<1>3. QED
  BY <1>1, <1>2 DEF DataNow

(* The abstract store does nothing.                                         *)
LEMMA KeptSame ==
  ASSUME TuplesNow' = TuplesNow, given' = given, \A t \in TuplesNow : Size(t)' = Size(t)
  PROVE  UNCHANGED Kept!storeVars
BY DEF Kept!storeVars, Size

(* The abstract store inserts t.                                            *)
LEMMA KeptInsert ==
  ASSUME NEW t \in Identifiers, t \notin given, given' = given \cup {t},
         TuplesNow' = TuplesNow \cup {t}, Size(t)' \in Sizes,
         \A u \in TuplesNow : Size(u)' = Size(u)
  PROVE  Kept!Insert
<1>1. t \in given' \ given
  OBVIOUS
<1>2. QED
  BY <1>1 DEF Kept!Insert, Size

(* The abstract store deletes t.                                            *)
LEMMA KeptDelete ==
  ASSUME NEW t \in TuplesNow, given' = given, TuplesNow' = TuplesNow \ {t},
         \A u \in TuplesNow' : Size(u)' = Size(u)
  PROVE  Kept!Delete
BY DEF Kept!Delete, Size

(* The abstract store deletes all.                                          *)
LEMMA KeptErase ==
  ASSUME given' = {}, TuplesNow' = {}
  PROVE  Kept!DeleteAll
BY DEF Kept!DeleteAll

-----------------------------------------------------------------------------
(* A call that leaves the tuples of an open segment alone.                  *)
LEMMA OpenSame ==
  ASSUME SegInv, SegInv', phase = "open", phase' = "open", given' = given,
         Elements(pages) \subseteq Elements(pages'),
         \A q \in Elements(pages) : page'[q] = page[q],
         \A q \in Elements(pages') \ Elements(pages) : page'[q].recs = <<>>
  PROVE  UNCHANGED Kept!storeVars
<1>1. TuplesNow = Held(page, pages) /\ TuplesNow' = Held(page', pages')
  BY OpenTuples
<1>2. Held(page', pages') = Held(page, pages) /\ \A u \in Held(page, pages) : page'[u[1]] = page[u[1]]
  <2>1. Untouched(page, page', pages, pages')
    BY DEF Untouched
  <2>2. SameHeld(page, page', pages, pages')
    BY ONLY <2>1, HeldSame
  <2>3. QED
    BY <2>2 DEF SameHeld
<1>3. \A t \in TuplesNow : Size(t)' = Size(t)
  BY <1>1, <1>2 DEF Size
<1>4. QED
  BY <1>1, <1>2, <1>3, KeptSame

(* A call that adds a tuple, as the last record of p.                       *)
LEMMA OpenInsert ==
  ASSUME SegInv, SegInv', phase = "open", phase' = "open", NEW p \in Pages, NEW m,
         Added(page, page', pages, pages', p, m), page[p].kind = "sp" \/ (page[p].kind = "zeros" /\ m = 0),
         given' = given \cup {<<p, m + 1>>}, page'[p].kind = "sp", page'[p].recs[m + 1].size \in Sizes
  PROVE  Kept!Insert
<1>0. m \in Nat /\ Len(page[p].recs) = m /\ Len(page'[p].recs) = m + 1
  BY DEF Added
<1>1. TuplesNow = Held(page, pages) /\ TuplesNow' = Held(page', pages')
  BY OpenTuples
<1>2. /\ Held(page', pages') = Held(page, pages) \cup {<<p, m + 1>>}
      /\ \A u \in Held(page, pages) : page'[u[1]].recs[u[2]] = page[u[1]].recs[u[2]]
  BY HeldAdded DEF MoreHeld
<1>3. \A t \in TuplesNow : Size(t)' = Size(t)
  BY <1>1, <1>2 DEF Size
<1>4. <<p, m + 1>> \notin given
  <2> SUFFICES ASSUME <<p, m + 1>> \in given PROVE FALSE
    OBVIOUS
  <2>1. m + 1 \in 1 .. Len(page[p].recs)
    BY DEF SegInv, Recorded
  <2>2. QED
    BY <1>0, <2>1
<1>5. <<p, m + 1>> \in Identifiers
  <2>1. page'[p] \in Slotted
    BY ShapeIs DEF SegInv
  <2>2. PICK q : q = page'[p] /\ Sound(q) /\ Len(q.recs) = m + 1
    BY <1>0, <2>1 DEF Slotted
  <2>3. q.end \in Nat /\ q.free \in Nat /\ q.end + q.free + 6 * Len(q.recs) = PageSize - 24
    BY <2>2 DEF Sound, SpPages
  <2>4. PICK e \in Nat, f \in Nat : e + f + 6 * (m + 1) = PageSize - 24
    BY <1>0, <2>2, <2>3
  <2>5. m + 1 \in 1 .. PageSize
    BY <1>0, <2>4, SegmentAssumption
  <2>6. QED
    BY <2>5 DEF Identifiers
<1>6. Size(<<p, m + 1>>)' \in Sizes
  BY DEF Size
<1>7. QED
  BY <1>1, <1>2, <1>3, <1>4, <1>5, <1>6, KeptInsert

-----------------------------------------------------------------------------
(* insertTuple on a page that it has.                                       *)
LEMMA InsertIntoKept ==
  ASSUME SegInv, SegInv', NEW n \in Sizes, InsertInto(n)
  PROVE  Kept!Insert \/ UNCHANGED Kept!storeVars
<1> DEFINE k   == Chosen(n)
           pos == Entry(fsmPages[k], n) + (k - 1) * FsmEntries
           p   == pages[pos + 1]
<1>1. /\ phase = "open" /\ phase' = "open" /\ Fullish(n) # 1 .. Len(fsmPages)
      /\ UNCHANGED <<first, layout, deletes, taken, pages, fsmPages, indexPages>>
  BY DEF InsertInto, objectVars
<1>2. pos < Len(pages)
  BY DEF InsertInto
<1>3. \/ page' = Told(n) /\ given' = given
      \/ /\ Enough(page[p], n) /\ page' = [Told(n) EXCEPT ![p] = AddRecord(page[p], n)]
         /\ given' = given \cup {<<p, Len(page[p].recs) + 1>>}
  BY DEF InsertInto, Told
<1>4. /\ Told(n) \in [Pages -> Shapes]
      /\ k \in 1 .. Len(fsmPages) /\ Entry(fsmPages[k], n) \in Nat
      /\ fsmPages[k] \in Elements(fsmPages) /\ fsmPages[k] \in Pages
      /\ \A q \in Pages : q # fsmPages[k] => Told(n)[q] = page[q]
  BY <1>1, ToldIs
<1>5. Laid(page, taken, indexPages, pages, fsmPages) /\ page \in [Pages -> Shapes]
  BY <1>1 DEF SegInv
<1>6. p \in Elements(pages) /\ p \in Pages /\ page[p].kind \in {"zeros", "sp"}
  <2>1. pos \in Nat
    <3>1. \A x, y \in Nat : x * y \in Nat
      OBVIOUS
    <3>2. k - 1 \in Nat /\ FsmEntries \in Nat
      BY <1>4, SegmentAssumption
    <3>3. (k - 1) * FsmEntries \in Nat
      BY <3>1, <3>2
    <3>4. QED
      BY <1>4, <3>3
  <2>2. pos + 1 \in 1 .. Len(pages) /\ pages \in Seq(Pages)
    BY <1>2, <1>5, <2>1 DEF Laid
  <2> HIDE DEF pos
  <2>3. p \in Elements(pages) /\ p \in Pages
    BY <2>2, ElementsIn
  <2>4. QED
    BY <1>5, <2>3 DEF Laid
<1>7. \A q \in Elements(pages) : Told(n)[q] = page[q]
  <2>1. Elements(pages) \subseteq Pages
    BY <1>5, ElementsIn DEF Laid
  <2>2. QED
    BY <1>4, <1>5, <2>1 DEF Laid
<1> HIDE DEF k, pos, p
<1>8. CASE page' = Told(n) /\ given' = given
  BY <1>1, <1>7, <1>8, OpenSame
<1>9. CASE /\ Enough(page[p], n) /\ page' = [Told(n) EXCEPT ![p] = AddRecord(page[p], n)]
           /\ given' = given \cup {<<p, Len(page[p].recs) + 1>>}
  <2>1. page[p].kind # "zeros"
    <3> SUFFICES ASSUME page[p].kind = "zeros" PROVE FALSE
      OBVIOUS
    <3>1. page[p] = Zeros
      BY <1>5, <1>6, ShapeIs
    <3>2. Align(n) + 6 <= 0
      BY <1>9, <3>1 DEF Enough, Zeros, SlotSize
    <3>3. QED
      BY <3>2, SizeIs
  <2>2. page[p] \in Slotted /\ page[p].kind = "sp"
    BY <1>5, <1>6, <2>1, ShapeIs
  <2> DEFINE q == page[p]
             r == AddRecord(q, n)
  <2>3. q \in Slotted /\ n \in Sizes /\ Enough(q, n)
    BY <1>9, <2>2
  <2>4. page'[p] = r /\ \A x \in Elements(pages) \ {p} : page'[x] = page[x]
    <3>1. Elements(pages) \subseteq Pages
      BY <1>5, ElementsIn DEF Laid
    <3>2. QED
      BY <1>4, <1>6, <1>7, <1>9, <3>1
  <2> HIDE DEF q
  <2>5. /\ r.kind = "sp" /\ Len(r.recs) = Len(q.recs) + 1 /\ q.recs \in Seq(Records)
        /\ \A i \in 1 .. Len(q.recs) : r.recs[i] = q.recs[i]
        /\ r.recs[Len(q.recs) + 1] = [off |-> q.end, size |-> n, valid |-> TRUE]
    BY ONLY <2>3, RecordAdded
  <2> HIDE DEF r
  <2>6. PICK m \in Nat : m = Len(q.recs)
    BY <2>5
  <2>7. /\ page'[p].kind = "sp" /\ Len(page'[p].recs) = m + 1
        /\ \A i \in 1 .. m : page'[p].recs[i] = page[p].recs[i]
        /\ page'[p].recs[m + 1].valid /\ page'[p].recs[m + 1].size = n
    BY <2>4, <2>5, <2>6 DEF q
  <2>8. Added(page, page', pages, pages', p, m) /\ given' = given \cup {<<p, m + 1>>}
    BY <1>1, <1>6, <1>9, <2>4, <2>6, <2>7 DEF q, Added
  <2>9. page'[p].kind = "sp" /\ page'[p].recs[m + 1].size \in Sizes
    BY <2>7
  <2>10. Kept!Insert
    <3>1. phase = "open" /\ phase' = "open" /\ p \in Pages /\ page[p].kind = "sp"
      BY <1>1, <1>6, <2>2
    <3>2. QED
      BY ONLY SegInv, SegInv', <2>8, <2>9, <3>1, OpenInsert
  <2>11. QED
    BY <2>10
<1>10. QED
  BY <1>3, <1>8, <1>9

(* The tuple on a page that was given just now.                             *)
LEMMA NewPageKept ==
  ASSUME SegInv, SegInv', phase = "open", phase' = "open", NEW n \in Sizes, NEW g, NEW p \in Pages,
         g \in [Pages -> Shapes], page[p] = Zeros, p \notin taken,
         \A q \in Elements(pages) : g[q] = page[q],
         pages' = Append(pages, p), OnNewPage(p, n, g)
  PROVE  Kept!Insert
<1>1. AddRecord(NewSp, n).kind = "sp"
      /\ AddRecord(NewSp, n).recs = <<[off |-> 0, size |-> n, valid |-> TRUE]>>
      /\ Len(AddRecord(NewSp, n).recs) = 1
  BY FirstRecord
<1>2. page' = [g EXCEPT ![p] = AddRecord(NewSp, n)] /\ given' = given \cup {<<p, 1>>}
  BY DEF OnNewPage
<1>3. Laid(page, taken, indexPages, pages, fsmPages)
  BY DEF SegInv
<1>4. pages \in Seq(Pages) /\ Once(pages) /\ p \notin Elements(pages) /\ Elements(pages) \subseteq Pages
  BY <1>3, ElementsIn DEF Laid
<1>5. Elements(pages') = Elements(pages) \cup {p}
  BY <1>4, Appended
<1>6. page'[p] = AddRecord(NewSp, n) /\ \A q \in Elements(pages) \ {p} : page'[q] = page[q]
  BY <1>2, <1>4
<1>7. page'[p].recs[1].valid /\ page'[p].recs[1].size = n
  BY <1>1, <1>6
<1>8. page[p].kind = "zeros" /\ page[p].recs = <<>> /\ Len(page[p].recs) = 0
  BY DEF Zeros
<1>9. 0 \in Nat /\ 0 + 1 = 1 /\ 1 .. 0 = {}
  OBVIOUS
<1>10. Added(page, page', pages, pages', p, 0)
  BY <1>1, <1>5, <1>6, <1>7, <1>8, <1>9 DEF Added
<1> DEFINE m == 0
<1>11. /\ Added(page, page', pages, pages', p, m) /\ page[p].kind = "zeros" /\ m = 0
       /\ given' = given \cup {<<p, m + 1>>} /\ page'[p].kind = "sp"
       /\ page'[p].recs[m + 1].size \in Sizes
  BY <1>1, <1>2, <1>6, <1>7, <1>8, <1>9, <1>10
<1> HIDE DEF m
<1>12. QED
  BY <1>11, OpenInsert

(* insertTuple on a new page.                                               *)
LEMMA InsertNewKept ==
  ASSUME SegInv, SegInv', NEW n \in Sizes, InsertNew(n)
  PROVE  Kept!Insert \/ UNCHANGED Kept!storeVars
<1> DEFINE f == fsmPages[Chosen(n)]
           G == Granted(1)
<1>1. /\ phase = "open" /\ phase' = "open" /\ Fullish(n) # 1 .. Len(fsmPages)
  BY DEF InsertNew
<1>2. \/ page' \in {page, Told(n)} /\ given' = given /\ pages' = pages
      \/ CanAlloc(1) /\ pages' = Append(pages, G) /\ page' \in {page, Told(n)} /\ given' = given
      \/ CanAlloc(1) /\ pages' = Append(pages, G) /\ OnNewPage(G, n, Told(n))
  BY DEF InsertNew, Told
<1>3. /\ Told(n) \in [Pages -> Shapes] /\ f \in Pages /\ f \in Elements(fsmPages)
      /\ \A q \in Pages : q # f => Told(n)[q] = page[q]
  BY <1>1, ToldIs
<1>4. Laid(page, taken, indexPages, pages, fsmPages) /\ page \in [Pages -> Shapes] /\ layout \in Layouts
      /\ \A q \in Pages \ taken : page[q] = Zeros
  BY <1>1 DEF SegInv, Bounded
<1>5. Elements(pages) \subseteq Pages /\ Elements(pages) \subseteq taken /\ f \notin Elements(pages)
      /\ f \in taken /\ pages \in Seq(Pages) /\ Once(pages)
  BY <1>3, <1>4, ElementsIn DEF Laid
<1>6. \A g \in {page, Told(n)} : /\ \A q \in Elements(pages) : g[q] = page[q]
                                 /\ \A q \in Pages \ taken : g[q] = Zeros
  BY <1>3, <1>4, <1>5
<1>7. CanAlloc(1) => G \in Pages /\ G \notin taken
  BY <1>4, Grants
<1>8. Zeros.recs = <<>>
  BY DEF Zeros
<1> HIDE DEF f, G
<1>9. CASE page' \in {page, Told(n)} /\ given' = given /\ pages' = pages
  BY <1>1, <1>6, <1>9, OpenSame
<1>10. CASE CanAlloc(1) /\ pages' = Append(pages, G) /\ page' \in {page, Told(n)} /\ given' = given
  <2>1. Elements(pages') = Elements(pages) \cup {G}
    BY <1>5, <1>7, <1>10, Appended
  <2>2. page'[G].recs = <<>> /\ \A q \in Elements(pages) : page'[q] = page[q]
    BY <1>6, <1>7, <1>8, <1>10
  <2>3. QED
    BY <1>1, <1>10, <2>1, <2>2, OpenSame
<1>11. CASE CanAlloc(1) /\ pages' = Append(pages, G) /\ OnNewPage(G, n, Told(n))
  <2>1. page[G] = Zeros
    BY <1>4, <1>7, <1>11
  <2>2. QED
    BY <1>1, <1>3, <1>6, <1>7, <1>11, <2>1, NewPageKept
<1>12. QED
  BY <1>2, <1>9, <1>10, <1>11

(* insertTuple when all FSMs are full.                                      *)
LEMMA InsertFsmKept ==
  ASSUME SegInv, SegInv', NEW n \in Sizes, InsertFsm(n)
  PROVE  Kept!Insert \/ UNCHANGED Kept!storeVars
<1> DEFINE last == fsmPages[Len(fsmPages)]
           F == Granted(1)
           G == Granted(2)
           linked(f) == [page EXCEPT ![fsmPages[Len(fsmPages)]].next = F, ![F] = NewFsm(f)]
<1>1. phase = "open" /\ phase' = "open"
  BY DEF InsertFsm
<1>2. \/ UNCHANGED <<pages, page, given>>
      \/ \E f \in Leftovers :
           /\ CanAlloc(1)
           /\ \/ page' = linked(f) /\ pages' = pages /\ given' = given
              \/ CanAlloc(2) /\ pages' = Append(pages, G) /\ page' = linked(f) /\ given' = given
              \/ CanAlloc(2) /\ pages' = Append(pages, G) /\ OnNewPage(G, n, linked(f))
  BY DEF InsertFsm
<1>3. Laid(page, taken, indexPages, pages, fsmPages) /\ page \in [Pages -> Shapes] /\ layout \in Layouts
      /\ \A q \in Pages \ taken : page[q] = Zeros
  BY <1>1 DEF SegInv, Bounded
<1>4. last \in Elements(fsmPages) /\ last \in Pages /\ page[last] \in Fsms /\ last \in taken
      /\ last \notin Elements(pages)
  <2>1. fsmPages \in Seq(Pages) /\ Len(fsmPages) \in 1 .. Len(fsmPages)
    BY <1>3 DEF Laid
  <2>2. last \in Elements(fsmPages) /\ last \in Pages
    BY <2>1, ElementsIn
  <2>3. QED
    BY <1>3, <2>2, ShapeIs DEF Laid
<1>5. CanAlloc(1) => F \in Pages /\ F \notin taken
  BY <1>3, Grants
<1>6. CanAlloc(2) => G \in Pages /\ G \notin taken /\ F # G
  <2>1. 2 \in Nat \ {0} /\ 2 \in 1 .. 2 /\ 1 \in 1 .. 2
    OBVIOUS
  <2>2. QED
    BY <1>3, <2>1, Grants
<1>7. Elements(pages) \subseteq Pages /\ Elements(pages) \subseteq taken /\ pages \in Seq(Pages) /\ Once(pages)
  BY <1>3, ElementsIn DEF Laid
<1>8. Zeros.recs = <<>>
  BY DEF Zeros
<1>9. ASSUME NEW f \in Leftovers, CanAlloc(1)
      PROVE  /\ linked(f) \in [Pages -> Shapes] /\ \A q \in Pages \ {F, last} : linked(f)[q] = page[q]
  <2>1. F \in Pages /\ F # last /\ F \in 0 .. MaxLimit
    BY <1>4, <1>5, <1>9, Limits DEF Pages
  <2>2. NewFsm(f) \in Fsms
    <3>1. f \in [Entries -> 0 .. MaxStatus] /\ 0 \in 0 .. MaxLimit
      BY SegmentAssumption, Limits
    <3>2. QED
      BY <3>1 DEF NewFsm, Fsms
  <2>3. [page[last] EXCEPT !.next = F] \in Fsms
    BY <1>4, <2>1 DEF Fsms
  <2>4. QED
    BY <1>3, <1>4, <2>1, <2>2, <2>3 DEF Shapes
<1>10. CASE UNCHANGED <<pages, page, given>>
  BY <1>1, <1>10, OpenSame
<1>11. ASSUME NEW f \in Leftovers, CanAlloc(1),
              \/ page' = linked(f) /\ pages' = pages /\ given' = given
              \/ CanAlloc(2) /\ pages' = Append(pages, G) /\ page' = linked(f) /\ given' = given
              \/ CanAlloc(2) /\ pages' = Append(pages, G) /\ OnNewPage(G, n, linked(f))
       PROVE  Kept!Insert \/ UNCHANGED Kept!storeVars
  <2> DEFINE l == linked(f)
  <2>1. l \in [Pages -> Shapes] /\ \A q \in Pages \ {F, last} : l[q] = page[q]
    BY <1>9, <1>11
  <2> HIDE DEF l, linked, F, G, last
  <2>2. \A q \in Elements(pages) : l[q] = page[q]
    BY <1>4, <1>5, <1>7, <1>11, <2>1
  <2>3. CASE page' = linked(f) /\ pages' = pages /\ given' = given
    BY <1>1, <2>2, <2>3, OpenSame DEF l
  <2>4. CASE CanAlloc(2) /\ pages' = Append(pages, G) /\ page' = linked(f) /\ given' = given
    <3>1. Elements(pages') = Elements(pages) \cup {G}
      BY <1>6, <1>7, <2>4, Appended
    <3>2. l[G] = Zeros
      BY <1>3, <1>4, <1>6, <2>1, <2>4
    <3>3. page'[G].recs = <<>> /\ \A q \in Elements(pages) : page'[q] = page[q]
      BY <1>8, <2>2, <2>4, <3>2 DEF l
    <3>4. QED
      BY <1>1, <2>4, <3>1, <3>3, OpenSame
  <2>5. CASE CanAlloc(2) /\ pages' = Append(pages, G) /\ OnNewPage(G, n, linked(f))
    <3>1. page[G] = Zeros /\ G \in Pages /\ G \notin taken /\ OnNewPage(G, n, l)
      BY <1>3, <1>6, <2>5 DEF l
    <3>2. QED
      BY <1>1, <2>1, <2>2, <2>5, <3>1, NewPageKept
  <2>6. QED
    BY <1>11, <2>3, <2>4, <2>5
<1>12. QED
  <2> HIDE DEF linked, F, G, last
  <2>1. QED
    BY <1>2, <1>10, <1>11

(* The deletion of a tuple.                                                 *)
LEMMA DeleteKept ==
  ASSUME SegInv, SegInv', NEW k \in 1 .. Len(pages), NEW i \in 1 .. Len(page[pages[k]].recs), Delete(k, i)
  PROVE  Kept!Delete
<1> DEFINE p == pages[k]
           q == page[p]
           r == [q EXCEPT !.recs[i].valid = FALSE]
<1>1. /\ phase = "open" /\ phase' = "open" /\ page' = [page EXCEPT ![p] = r]
      /\ pages' = pages /\ given' = given /\ q.recs[i].valid
  BY DEF Delete, objectVars
<1>2. Laid(page, taken, indexPages, pages, fsmPages) /\ page \in [Pages -> Shapes]
  BY <1>1 DEF SegInv
<1>3. p \in Elements(pages) /\ Elements(pages) \subseteq Pages
  BY <1>2, ElementsIn DEF Laid
<1>4. q \in Slotted /\ i \in 1 .. Len(q.recs)
  <2>1. q # Zeros
    BY DEF Zeros
  <2>2. q \in Shapes /\ q.kind \in {"zeros", "sp"}
    BY <1>2, <1>3 DEF Laid
  <2>3. QED
    BY <2>1, <2>2, ShapeIs
<1> HIDE DEF q, r, p
<1>5. /\ Len(r.recs) = Len(q.recs)
      /\ \A j \in 1 .. Len(q.recs) :
           r.recs[j].size = q.recs[j].size /\ (r.recs[j].valid <=> q.recs[j].valid /\ j # i)
  BY <1>4, RecordDeleted DEF r
<1>6. page'[p] = r /\ \A x \in Elements(pages) \ {p} : page'[x] = page[x]
  BY <1>1, <1>2, <1>3
<1>7. q.recs \in Seq(Records) /\ Len(q.recs) \in Nat
  BY <1>4 DEF Slotted, SpPages
<1>8. /\ <<p, i>> \in Held(page, pages) /\ Held(page', pages) = Held(page, pages) \ {<<p, i>>}
      /\ \A u \in Held(page', pages) : page'[u[1]].recs[u[2]].size = page[u[1]].recs[u[2]].size
  <2>1. Removed(page, page', pages, p, i)
    BY <1>1, <1>3, <1>4, <1>5, <1>6, <1>7 DEF q, Removed
  <2>2. LessHeld(page, page', pages, p, i)
    BY ONLY <2>1, HeldLess
  <2>3. QED
    BY <2>2 DEF LessHeld
<1>9. TuplesNow = Held(page, pages) /\ TuplesNow' = Held(page', pages')
  BY <1>1, OpenTuples
<1>10. <<p, i>> \in TuplesNow /\ TuplesNow' = TuplesNow \ {<<p, i>>} /\ \A u \in TuplesNow' : Size(u)' = Size(u)
  BY <1>1, <1>8, <1>9 DEF Size
<1>11. QED
  BY <1>1, <1>10, KeptDelete

-----------------------------------------------------------------------------
(* The shutdown.                                                            *)
LEMMA StoreKept ==
  ASSUME Fits, SegInv, SegInv', Store
  PROVE  UNCHANGED Kept!storeVars
<1>1. phase = "open" /\ phase' = "stored" /\ first' = first /\ given' = given
  BY DEF Store
<1>2. Laid(page, taken, indexPages, pages, fsmPages) /\ first = indexPages[1] /\ layout.entries \in Nat
  BY <1>1, SegmentAssumption DEF SegInv, Bounded
<1>3. StoredPages = pages
  <2>1. StoreKind = "fits"
    BY DEF Store, Fits, StoreKind
  <2>2. QED
    BY <1>1, <2>1, StoredPagesIs
<1>4. DataNow' = pages
  <2> DEFINE e == layout.entries
             g == page'
  <2>1. /\ Laid(g, taken, indexPages, pages, fsmPages) /\ Joined(g, indexPages)
        /\ e \in Nat /\ Len(pages) <= Len(indexPages) * e
        /\ \A j \in 1 .. Len(indexPages) : g[indexPages[j]].entries = Part(pages, e, j)
    BY <1>2, <1>3, StoreLeaves DEF Written
  <2>2. DataNow' = EntriesIn(g, ChainOf(g, indexPages[1]))
    BY <1>1, <1>2 DEF DataNow, Chain, ChainOf, EntriesOf, EntriesIn
  <2> HIDE DEF e, g
  <2>3. ChainOf(g, indexPages[1]) = indexPages /\ EntriesIn(g, indexPages) = pages
    BY ONLY <2>1, FoundIn
  <2>4. QED
    BY <2>2, <2>3
<1>5. TuplesNow = Held(page, pages)
  BY <1>1, TuplesAre DEF TuplesHeld, DataNow
<1>6. TuplesNow' = Held(page', pages)
  <2>1. TuplesNow' = Held(page', DataNow')
    BY <1>1, TuplesNext DEF TuplesHeld, Held
  <2>2. QED
    BY <1>4, <2>1
<1>7. SameHeld(page, page', pages, pages)
  <2>1. \A q \in Elements(pages) : page'[q] = page[q]
    BY <1>2, StoreWrites, ElementsIn DEF Laid
  <2>2. Untouched(page, page', pages, pages)
    BY <2>1 DEF Untouched
  <2>3. QED
    BY ONLY <2>2, HeldSame
<1>8. TuplesNow' = TuplesNow /\ \A t \in TuplesNow : Size(t)' = Size(t)
  BY <1>5, <1>6, <1>7 DEF SameHeld, Size
<1>9. QED
  BY <1>1, <1>8, KeptSame

(* The boot.                                                                *)
LEMMA LoadKept ==
  ASSUME SegInv, SegInv', Load
  PROVE  UNCHANGED Kept!storeVars
<1>1. /\ phase = "stored" /\ phase' = "open" /\ pages' = EntriesOf(Chain(first))
      /\ page' = page /\ given' = given
  BY DEF Load
<1>2. TuplesNow = Held(page, DataNow) /\ DataNow = EntriesOf(Chain(first))
  BY <1>1, TuplesAre DEF TuplesHeld, DataNow
<1>3. TuplesNow' = Held(page', DataNow') /\ DataNow' = pages'
  BY <1>1, TuplesNext DEF TuplesHeld, Held, DataNow
<1>4. TuplesNow' = TuplesNow /\ \A t \in TuplesNow : Size(t)' = Size(t)
  BY <1>1, <1>2, <1>3 DEF Size
<1>5. QED
  BY <1>1, <1>4, KeptSame

(* The constructor.                                                         *)
LEMMA CreateKept ==
  ASSUME SegInv, SegInv', Create
  PROVE  UNCHANGED Kept!storeVars
<1>1. phase = "none" /\ phase' = "open" /\ pages' = <<>> /\ given' = given
  BY DEF Create, SegInv
<1>2. TuplesNow = {}
  BY <1>1, TuplesAre DEF TuplesHeld
<1>3. TuplesNow' = Held(page', DataNow') /\ DataNow' = pages'
  BY <1>1, TuplesNext DEF TuplesHeld, Held, DataNow
<1>4. TuplesNow' = {}
  <2>1. Elements(<<>>) = {}
    BY DEF Elements
  <2>2. Held(page', <<>>) = {}
    BY <2>1 DEF Held
  <2>3. QED
    BY <1>1, <1>3, <2>2
<1>5. QED
  BY <1>1, <1>2, <1>4, KeptSame

(* erase.                                                                   *)
LEMMA EraseKept ==
  ASSUME SegInv, SegInv', Erase
  PROVE  Kept!DeleteAll
<1>1. phase' = "erased" /\ given' = {}
  BY DEF Erase
<1>2. TuplesNow' = {}
  BY <1>1, TuplesNext DEF TuplesHeld
<1>3. QED
  BY <1>1, <1>2, KeptErase

(* At first the store is empty.                                             *)
LEMMA NoneKept == Init => Kept!Empty
<1> SUFFICES ASSUME Init PROVE Kept!Empty
  OBVIOUS
<1>1. TuplesNow = {} /\ given = {}
  BY DEF Init, TuplesNow
<1>2. QED
  BY <1>1 DEF Kept!Empty

(* Every step is a step of the abstract store or changes nothing of it.     *)
LEMMA StepsKept ==
  ASSUME Fits
  PROVE  SegInv /\ SegInv' /\ [Next]_vars => [Kept!Next]_(Kept!storeVars)
<1> SUFFICES ASSUME SegInv, SegInv', [Next]_vars
             PROVE  Kept!Next \/ UNCHANGED Kept!storeVars
  OBVIOUS
<1>1. CASE Create
  BY <1>1, CreateKept
<1>2. CASE Store
  BY <1>2, StoreKept
<1>3. CASE Load
  BY <1>3, LoadKept
<1>4. CASE Erase
  BY <1>4, EraseKept DEF Kept!Next
<1>5. ASSUME NEW n \in Sizes, InsertInto(n) PROVE Kept!Next \/ UNCHANGED Kept!storeVars
  BY <1>5, InsertIntoKept DEF Kept!Next
<1>6. ASSUME NEW n \in Sizes, InsertNew(n) PROVE Kept!Next \/ UNCHANGED Kept!storeVars
  BY <1>6, InsertNewKept DEF Kept!Next
<1>7. ASSUME NEW n \in Sizes, InsertFsm(n) PROVE Kept!Next \/ UNCHANGED Kept!storeVars
  BY <1>7, InsertFsmKept DEF Kept!Next
<1>8. ASSUME NEW k \in 1 .. Len(pages), NEW i \in 1 .. Len(page[pages[k]].recs), Delete(k, i)
      PROVE  Kept!Next
  BY <1>8, DeleteKept DEF Kept!Next
<1>9. CASE UNCHANGED vars
  <2>1. UNCHANGED <<phase, first, indexPages, fsmPages, pages, page, layout, given>>
    BY <1>9 DEF vars, objectVars
  <2>2. DataNow' = DataNow
    BY <2>1 DEF DataNow, EntriesOf, Chain
  <2>3. TuplesNow' = TuplesNow
    BY <2>1, <2>2, TuplesAre, TuplesNext DEF TuplesHeld, Held
  <2>4. \A t \in TuplesNow : Size(t)' = Size(t)
    BY <2>1 DEF Size
  <2>5. QED
    BY <2>1, <2>3, <2>4, KeptSame
<1>10. QED
  BY <1>1, <1>2, <1>3, <1>4, <1>5, <1>6, <1>7, <1>8, <1>9 DEF Next

-----------------------------------------------------------------------------
(* The inductive invariant of a segment, on which the rest is based.        *)
THEOREM SegmentInvariant == Spec => []SegInv
BY InitInv, NextInv, PTL DEF Spec

(* Type correctness.                                                        *)
THEOREM SegmentTypes == Spec => []TypeOK
BY SegmentInvariant, SegInvTypes, PTL

(* The records of a slotted page never overlap each other or the slots, and *)
(* the free space is what is between, whatever the sizes of pages and       *)
(* tuples and the order of the calls (addNewRecord, deleteRecordSoft).      *)
THEOREM RecordsStayApart == Spec => []RecordsApart
BY SegmentInvariant, SegInvApart, PTL

(* The FSMs in memory are always those linked on the pages, also after an   *)
(* exception of a full partition (getFreePage, loadSegment).                *)
THEOREM FsmsStayLinked == Spec => []FsmsLinked
BY SegmentInvariant, SegInvLinked, PTL

(* When no shutdown is overfull, the pages taken from the partition are the *)
(* pages of the segment, each for one purpose, and none is lost             *)
(* (getFreePage, storeSegment, loadSegment, erase).                         *)
THEOREM PagesStayAccounted == ASSUME Fits PROVE Spec => []PagesAccounted
<1>1. SegInv => PagesAccounted
  BY SegInvAccounts
<1>2. QED
  BY <1>1, SegmentInvariant, PTL

(* When no shutdown is overfull, the segment implements TupleStore: a tuple *)
(* is kept under its identifier, unchanged, through insertions, exceptions, *)
(* shutdowns and boots until it is deleted (insertTuple, storeSegment).     *)
THEOREM TuplesKept == ASSUME Fits PROVE Spec => ImplementsStore
<1>1. SegInv /\ SegInv' /\ [Next]_vars => [Kept!Next]_(Kept!storeVars)
  BY StepsKept
<1>2. QED
  BY <1>1, NoneKept, SegmentInvariant, PTL DEF Spec, ImplementsStore, Kept!Spec
=============================================================================
