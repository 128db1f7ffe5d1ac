---------------------------- MODULE PartitionProofs ----------------------------
(***************************************************************************)
(* What holds of Partition for any number of pages per FSIP, any growth    *)
(* and any number of releases.                                             *)
(*                                                                         *)
(* IInv says that the inventory is exact and where the managed pages end;  *)
(* its lemmas are first about one FSIP (NewPageExact, PutBackExact,        *)
(* GrownExact, NewFSIPExact), then about all of them, then about actions.  *)
(***************************************************************************)
EXTENDS Partition, FiniteSetTheorems, WellFoundedInduction, TLAPS

(* A bit lies in the byte that its position is divided into.                *)
LEMMA ByteOf ==
  ASSUME NEW i \in Nat, NEW b \in Nat
  PROVE  i \in Byte(b) <=> b = i \div 8
  BY SMT DEF Byte

(* The whole bytes cleared are a run of bits.                               *)
LEMMA WholeBytes ==
  ASSUME NEW s \in Nat, NEW n \in Nat, NEW i \in Nat
  PROVE  i \in UNION {Byte(b) : b \in s .. s + n - 1} <=> i \in 8 * s .. 8 * (s + n) - 1
<1>1. ASSUME i \in 8 * s .. 8 * (s + n) - 1
      PROVE  i \in UNION {Byte(b) : b \in s .. s + n - 1}
  <2>1. i \div 8 \in s .. s + n - 1 BY <1>1, SMT
  <2>2. i \in Byte(i \div 8) BY SMT DEF Byte
  <2> QED BY <2>1, <2>2
<1>2. ASSUME NEW b \in s .. s + n - 1, i \in Byte(b)
      PROVE  i \in 8 * s .. 8 * (s + n) - 1
  BY <1>2, SMT DEF Byte
<1> QED BY <1>1, <1>2

(* grow clears exactly the bits of the new pages, and no other, when the    *)
(* pages managed so far are all in use and the new ones fill the byte they  *)
(* start in: grow adds 8 or more, or all that an FSIP of whole bytes has    *)
(* left.                                                                    *)
LEMMA GrowBitsClears ==
  ASSUME NEW used \in SUBSET Nat, NEW m \in Nat, NEW r \in Nat,
         0 .. m - 1 \subseteq used, m % 8 # 0 => r >= 8 - (m % 8)
  PROVE  GrowBits(used, m, r) = used \ (m .. m + r - 1)
<1> DEFINE part  == m % 8 # 0
           start == IF part THEN m \div 8 + 1 ELSE m \div 8
           left  == IF part THEN r - (8 - (m % 8)) ELSE r
           first == IF part THEN (used \ Byte(m \div 8)) \cup (8 * (m \div 8) .. m - 1)
                    ELSE used
           whole == UNION {Byte(b) : b \in start .. start + (left \div 8) - 1}
           last  == 8 * (start + (left \div 8)) .. 8 * (start + (left \div 8)) + (left % 8) - 1
<1>1. start \in Nat /\ left \in Nat /\ left \div 8 \in Nat BY SMT
<1>2. 8 * start = m + (r - left) BY SMT
<1>3. left = 8 * (left \div 8) + (left % 8) /\ left % 8 \in 0 .. 7 BY <1>1, SMT
<1>4. ASSUME NEW i \in Nat
      PROVE  i \in whole \cup last <=> i \in m + (r - left) .. m + r - 1
  <2>1. i \in whole <=> i \in 8 * start .. 8 * (start + left \div 8) - 1
    BY <1>1, WholeBytes
  <2>2. 8 * (start + left \div 8) = 8 * start + 8 * (left \div 8) BY <1>1, SMT
  <2> HIDE DEF start, left, whole
  <2> QED BY <1>1, <1>2, <1>3, <2>1, <2>2, SMT
<1>5. ASSUME NEW i \in Nat
      PROVE  i \in first <=> i \in used /\ i \notin m .. m + (r - left) - 1
  <2>1. CASE part
    <3>1. i \in Byte(m \div 8) <=> i \in 8 * (m \div 8) .. 8 * (m \div 8) + 7 BY DEF Byte
    <3>2. m = 8 * (m \div 8) + (m % 8) /\ m % 8 \in 0 .. 7 BY SMT
    <3>3. r - left = 8 - (m % 8) BY <2>1, SMT
    <3>4. i \in 0 .. m - 1 => i \in used OBVIOUS
    <3>5. i \in first <=> \/ i \in used /\ i \notin Byte(m \div 8)
                          \/ i \in 8 * (m \div 8) .. m - 1
      BY <2>1
    <3> HIDE DEF first, left
    <3> QED BY <3>1, <3>2, <3>3, <3>4, <3>5, SMT
  <2>2. CASE ~part
    <3>1. r - left = 0 /\ first = used BY <2>2, SMT
    <3> HIDE DEF first, left
    <3> QED BY <3>1, SMT
  <2> QED BY <2>1, <2>2
<1>6. left =< r /\ r - left \in 0 .. 7 BY SMT
<1>7. GrowBits(used, m, r) = first \ (whole \cup last) BY DEF GrowBits
<1>8. first \subseteq Nat BY SMT DEF Byte
<1> HIDE DEF first, whole, last, left
<1>9. ASSUME NEW i \in Nat
      PROVE  i \in first \ (whole \cup last) <=> i \in used \ (m .. m + r - 1)
  <2>1. i \in m .. m + r - 1
          <=> \/ i \in m .. m + (r - left) - 1
              \/ i \in m + (r - left) .. m + r - 1
    BY <1>1, <1>6, SMT
  <2> QED BY <1>4, <1>5, <2>1
<1> QED BY <1>7, <1>8, <1>9

-----------------------------------------------------------------------------
(* Division with remainder, and of a multiple.                             *)
LEMMA DivMod ==
  ASSUME NEW x \in Nat, NEW k \in Nat \ {0}
  PROVE  /\ x \div k \in Nat /\ x % k \in 0 .. k - 1
         /\ x = k * (x \div k) + (x % k)
  BY SMT

LEMMA RemainderIs ==
  ASSUME NEW a \in Nat, NEW k \in Nat \ {0}, NEW b \in 0 .. k - 1
  PROVE  (k * a + b) % k = b
<1> DEFINE x == k * a + b
           q == x \div k
           r == x % k
           ka == k * a
           kq == k * q
<1>1. x \in Nat /\ k \in Nat /\ b \in Nat /\ b < k BY SMT
<1>2. q \in Nat /\ r \in 0 .. k - 1 /\ x = kq + r BY <1>1, DivMod
<1> HIDE DEF q, r
<1>3. ka \in Nat /\ kq \in Nat /\ ka + b = kq + r BY <1>1, <1>2, SMT
<1>4. ~(q < a)
  <2>1. q < a => k * (q + 1) <= k * a BY <1>1, <1>2, SMT
  <2>2. k * (q + 1) = k * q + k BY <1>1, <1>2, SMT
  <2>3. q < a => kq + k <= ka BY <2>1, <2>2
  <2> HIDE DEF ka, kq
  <2> QED BY <1>1, <1>2, <1>3, <2>3, SMT
<1>5. ~(a < q)
  <2>1. a < q => k * (a + 1) <= k * q BY <1>1, <1>2, SMT
  <2>2. k * (a + 1) = k * a + k BY <1>1, SMT
  <2>3. a < q => ka + k <= kq BY <2>1, <2>2
  <2> HIDE DEF ka, kq
  <2> QED BY <1>1, <1>2, <1>3, <2>3, SMT
<1>6. a = q BY <1>2, <1>4, <1>5, SMT
<1>7. ka = kq BY <1>6
<1>8. r = b
  <2> HIDE DEF ka, kq
  <2> QED BY <1>1, <1>2, <1>3, <1>7, SMT
<1> QED BY <1>8 DEF r

LEMMA MultipleMod ==
  ASSUME NEW a \in Nat, NEW k \in Nat \ {0}
  PROVE  (k * a) % k = 0
<1>1. 0 \in 0 .. k - 1 /\ k * a + 0 = k * a BY SMT
<1>2. (k * a + 0) % k = 0 BY <1>1, RemainderIs
<1> QED BY <1>1, <1>2

(* Multiples of M + 1 lie M + 1 apart.                                     *)
LEMMA FsipsApart ==
  ASSUME NEW p \in Fsips, NEW q \in Fsips, p < q
  PROVE  p + M + 1 <= q
<1> USE PartitionAssumption
<1> DEFINE a == p \div (M + 1)
           b == q \div (M + 1)
<1>1. p \in Nat /\ q \in Nat /\ p % (M + 1) = 0 /\ q % (M + 1) = 0 BY SMT DEF Fsips, Pages
<1>2. a \in Nat /\ p = (M + 1) * a BY <1>1, SMT
<1>3. b \in Nat /\ q = (M + 1) * b BY <1>1, SMT
<1> HIDE DEF a, b
<1>4. b >= a + 1 BY <1>2, <1>3, SMT
<1>5. (M + 1) * b >= (M + 1) * (a + 1) BY <1>2, <1>3, <1>4, SMT
<1>6. (M + 1) * (a + 1) = (M + 1) * a + (M + 1) BY <1>2, SMT
<1> QED BY <1>2, <1>3, <1>5, <1>6, SMT

(* FsipOf is the FSIP at or before a page, at most M pages away.            *)
LEMMA FsipOfPage ==
  ASSUME NEW x \in Pages
  PROVE  /\ FsipOf(x) \in Fsips
         /\ FsipOf(x) <= x /\ x <= FsipOf(x) + M
<1> USE PartitionAssumption
<1>1. x \in Nat BY DEF Pages
<1>2. x % (M + 1) \in 0 .. M BY <1>1, SMT
<1> DEFINE k == M + 1
           a == x \div k
<1>3. k \in Nat \ {0} BY SMT
<1>4. a \in Nat /\ x = k * a + (x % k) BY <1>1, <1>3, DivMod
<1>5. (k * a) % k = 0 BY <1>3, <1>4, MultipleMod
<1> HIDE DEF a
<1>6. k * a \in Nat BY <1>3, <1>4, SMT
<1>7. FsipOf(x) = k * a BY <1>1, <1>2, <1>4, <1>6, SMT DEF FsipOf
<1> QED BY <1>1, <1>2, <1>5, <1>6, <1>7, SMT DEF Fsips, Pages, FsipOf

(* It is the only one there.                                                *)
LEMMA FsipOfUnique ==
  ASSUME NEW x \in Pages, NEW p \in Fsips, p <= x, x <= p + M
  PROVE  FsipOf(x) = p
<1>1. p \in Nat /\ x \in Nat /\ M \in Nat BY PartitionAssumption DEF Fsips, Pages
<1>2. FsipOf(x) \in Nat BY FsipOfPage DEF Fsips, Pages
<1>3. ~(FsipOf(x) < p) BY <1>1, <1>2, FsipsApart, FsipOfPage, SMT
<1>4. ~(p < FsipOf(x)) BY <1>1, <1>2, FsipsApart, FsipOfPage, SMT
<1> QED BY <1>1, <1>2, <1>3, <1>4, SMT

(* The next FSIP.                                                           *)
LEMMA FsipAfter ==
  ASSUME NEW p \in Fsips, p + M + 1 <= MaxSize
  PROVE  p + M + 1 \in Fsips
<1> USE PartitionAssumption
<1> DEFINE a == p \div (M + 1)
<1>1. p \in Nat /\ p % (M + 1) = 0 BY SMT DEF Fsips, Pages
<1>2. a \in Nat /\ p = (M + 1) * a BY <1>1, SMT
<1> HIDE DEF a
<1>3. p + M + 1 = (M + 1) * (a + 1) BY <1>2, SMT
<1>4. M + 1 \in Nat \ {0} /\ a + 1 \in Nat BY <1>2, SMT
<1>5. ((M + 1) * (a + 1)) % (M + 1) = 0 BY <1>4, MultipleMod
<1> QED BY <1>1, <1>3, <1>5, SMT DEF Fsips, Pages

(* A later position is in a later word, or in the same.                     *)
LEMMA WordsInOrder ==
  ASSUME NEW i \in Nat, NEW j \in Nat, i <= j
  PROVE  i \div W <= j \div W
<1> USE PartitionAssumption
<1> DEFINE a == i \div W
           b == j \div W
<1>1. a \in Nat /\ W * a <= i BY SMT
<1>2. b \in Nat /\ j < W * b + W BY SMT
<1> HIDE DEF a, b
<1>3. SUFFICES ASSUME b < a PROVE FALSE BY <1>1, <1>2, SMT DEF a, b
<1>4. W * (b + 1) <= W * a BY <1>1, <1>2, <1>3, SMT
<1>5. W * (b + 1) = W * b + W BY <1>2, SMT
<1> QED BY <1>1, <1>2, <1>4, <1>5, SMT

(* The least of a set of positions.                                         *)
LEMMA LowestExists ==
  ASSUME NEW S \in SUBSET Nat, S # {}
  PROVE  Lowest(S) \in S /\ \A j \in S : Lowest(S) <= j
<1> DEFINE R == OpToRel(<, Nat)
<1>1. IsWellFoundedOn(R, Nat) BY NatLessThanWellFounded
<1>2. \E i \in S : \A j \in S : ~(<<j, i>> \in R)
  <2> HIDE DEF R
  <2> QED BY <1>1, WFMin
<1>3. \A i, j \in Nat : <<j, i>> \in R <=> j < i BY DEF OpToRel
<1>4. \A i, j \in S : ~(<<j, i>> \in R) => i <= j
  <2> HIDE DEF R
  <2>1. \A i, j \in Nat : ~(j < i) => i <= j BY SMT
  <2> QED BY <1>3, <2>1
<1>5. \E i \in S : \A j \in S : i <= j
  <2> HIDE DEF R
  <2> QED BY <1>2, <1>4
<1> QED BY <1>5 DEF Lowest

LEMMA LowestIs ==
  ASSUME NEW S \in SUBSET Nat, NEW i \in S, \A j \in S : i <= j
  PROVE  Lowest(S) = i
<1>1. Lowest(S) \in S /\ \A j \in S : Lowest(S) <= j BY LowestExists
<1>2. i <= Lowest(S) /\ Lowest(S) <= i BY <1>1
<1>3. i \in Nat /\ Lowest(S) \in Nat BY <1>1
<1> DEFINE l == Lowest(S)
<1> HIDE DEF l
<1>4. l = i BY <1>2, <1>3, SMT DEF l
<1> QED BY <1>4 DEF l

-----------------------------------------------------------------------------
(* The pages behind an FSIP are its own, and no FSIPs.                      *)
LEMMA PageOfFsip ==
  ASSUME NEW p \in Fsips, NEW i \in Bits, p + 1 + i \in Pages
  PROVE  FsipOf(p + 1 + i) = p /\ p + 1 + i \notin Fsips
<1> DEFINE x == p + 1 + i
<1>1. p \in Nat /\ i \in Nat /\ M \in Nat /\ i < M /\ x \in Nat
  BY PartitionAssumption, SMT DEF Fsips, Pages, Bits
<1>2. p <= x /\ x <= p + M /\ x <= x + M /\ p # x BY <1>1, SMT
<1>3. FsipOf(x) = p BY <1>2, FsipOfUnique
<1>4. x \in Fsips => FsipOf(x) = x BY <1>1, <1>2, FsipOfUnique, SMT
<1> QED BY <1>2, <1>3, <1>4

Clear(f) == Bits \ f.used

(* FsipExact of one FSIP, for any owners of the pages.                      *)
ExactAt(f, p, ow) ==
  f.managed > 0 =>
    /\ f.at = p
    /\ Clear(f) = {i \in 0 .. f.managed - 1 : ow[p + 1 + i] = 0}
    /\ f.free = Cardinality(Clear(f))
    /\ Clear(f) # {} => f.next = Lowest(Clear(f))

(* An FSIP that manages no page gives none, and all that are managed fit    *)
(* the bound.                                                               *)
RoomAt(f, p) == (f.managed = 0 => f.free = 0) /\ p + f.managed <= MaxSize

(* A page in use has one owner, is no FSIP and is managed by an FSIP of the *)
(* first n pages.                                                           *)
OwnedManaged(fs, ow, n) ==
  \A x \in Pages : ow[x] > 0 =>
    /\ ow[x] = 1 /\ x \notin Fsips
    /\ x <= FsipOf(x) + fs[FsipOf(x)].managed
    /\ FsipOf(x) < n

Inventory(fs, ow, n) ==
  /\ fs \in [Fsips -> Header] /\ ow \in [Pages -> Nat]
  /\ \A p \in Fsips : ExactAt(fs[p], p, ow) /\ RoomAt(fs[p], p)
  /\ OwnedManaged(fs, ow, n)

LEMMA BitsFinite ==
  /\ IsFiniteSet(Bits)
  /\ \A S \in SUBSET Bits : IsFiniteSet(S) /\ Cardinality(S) \in 0 .. M
<1>1. IsFiniteSet(Bits) /\ Cardinality(Bits) = M
  BY FS_Interval, PartitionAssumption, SMT DEF Bits
<1>2. ASSUME NEW S \in SUBSET Bits
      PROVE  IsFiniteSet(S) /\ Cardinality(S) \in 0 .. M
  <2>1. IsFiniteSet(S) /\ Cardinality(S) <= M BY <1>1, FS_Subset
  <2>2. Cardinality(S) \in Nat BY <2>1, FS_CardinalityType
  <2> QED BY <2>1, <2>2, PartitionAssumption, SMT
<1> QED BY <1>1, <1>2

(* An owner changed at a page of one FSIP is not seen by the others.        *)
LEMMA OthersExact ==
  ASSUME NEW fs \in [Fsips -> Header], NEW ow \in [Pages -> Nat], NEW ow2 \in [Pages -> Nat],
         NEW p \in Fsips, NEW q \in Fsips, p # q,
         \A x \in Pages : FsipOf(x) # p => ow2[x] = ow[x],
         ExactAt(fs[q], q, ow), RoomAt(fs[q], q)
  PROVE  ExactAt(fs[q], q, ow2)
<1> DEFINE f == fs[q]
<1>1. f.managed \in 0 .. M /\ q \in Nat /\ M \in Nat /\ MaxSize \in Nat
  BY PartitionAssumption DEF Header, Fsips, Pages
<1> HIDE DEF f
<1>2. ASSUME NEW i \in 0 .. f.managed - 1 PROVE ow2[q + 1 + i] = ow[q + 1 + i]
  <2>0. RoomAt(f, q) BY DEF f
  <2>1. i \in Bits /\ q + 1 + i \in Pages BY <1>1, <2>0, SMT DEF RoomAt, Bits, Pages
  <2> QED BY <2>1, PageOfFsip
<1>3. {i \in 0 .. f.managed - 1 : ow2[q + 1 + i] = 0} = {i \in 0 .. f.managed - 1 : ow[q + 1 + i] = 0}
  BY <1>2
<1>4. ExactAt(f, q, ow) BY DEF f
<1>5. ExactAt(f, q, ow2) BY <1>3, <1>4 DEF ExactAt
<1> QED BY <1>5 DEF f

(* The page that an FSIP hands out is the first that is free, and managed   *)
(* by it; afterwards the FSIP is exact again (getNewPage).                  *)
LEMMA NewPageExact ==
  ASSUME NEW f \in Header, NEW p \in Fsips, NEW ow \in [Pages -> Nat],
         ExactAt(f, p, ow), RoomAt(f, p), f.free # 0
  PROVE  /\ f.at = p /\ f.next \in 0 .. f.managed - 1
         /\ p + 1 + f.next \in Pages /\ ow[p + 1 + f.next] = 0
         /\ NewPage(f) \in Header /\ NewPage(f).managed = f.managed
         /\ ExactAt(NewPage(f), p, [ow EXCEPT ![p + 1 + f.next] = @ + 1])
         /\ RoomAt(NewPage(f), p)
<1> DEFINE c == Clear(f)
           g == NewPage(f)
           ow2 == [ow EXCEPT ![p + 1 + f.next] = @ + 1]
<1>1. f.managed \in 1 .. M /\ f.free \in 1 .. M /\ p \in Nat /\ M \in Nat /\ f.used \in SUBSET Bits
  BY PartitionAssumption, SMT DEF Header, Fsips, Pages, RoomAt
<1>2. /\ f.at = p /\ c = {i \in 0 .. f.managed - 1 : ow[p + 1 + i] = 0}
      /\ f.free = Cardinality(c) /\ (c # {} => f.next = Lowest(c))
  BY <1>1, SMT DEF ExactAt
<1>3. c \subseteq Bits /\ c \in SUBSET Nat BY DEF Clear, Bits
<1>4. c # {} BY <1>1, <1>2, FS_EmptySet
<1>5. f.next \in c /\ \A j \in c : f.next <= j BY <1>2, <1>3, <1>4, LowestExists
<1>6. f.next \in 0 .. f.managed - 1 /\ ow[p + 1 + f.next] = 0 BY <1>2, <1>5
<1>7. p + 1 + f.next \in Pages
  <2> DEFINE k == f.next
             m == f.managed
  <2>1. k \in 0 .. m - 1 /\ m \in 1 .. M /\ p + m <= MaxSize BY <1>1, <1>6 DEF RoomAt
  <2> HIDE DEF k, m
  <2>2. p + 1 + k \in Pages BY <1>1, <2>1, PartitionAssumption, SMT DEF Pages
  <2> QED BY <2>2 DEF k
<1> DEFINE h == [f EXCEPT !.used = @ \cup {f.next}]
<1>8. h \in Header /\ h.used = f.used \cup {f.next} /\ h.next = f.next /\ h.free = f.free
      /\ h.managed = f.managed /\ h.at = f.at
  BY <1>3, <1>5 DEF Header
<1>9. g = [h EXCEPT !.next = NextFree(h), !.free = @ - 1] BY DEF NewPage
<1> DEFINE c2 == c \ {f.next}
<1>10. Bits \ h.used = c2 BY <1>8 DEF Clear
<1>11. NextFree(h) = IF c2 = {} THEN 0 ELSE Lowest(c2)
  <2> DEFINE d == {i \in Bits \ h.used : i \div W >= h.next \div W}
  <2>1. \A i \in c2 : i \div W >= h.next \div W BY <1>3, <1>5, <1>8, WordsInOrder
  <2>2. d = c2 BY <1>10, <2>1
  <2>3. NextFree(h) = IF d = {} THEN 0 ELSE Lowest(d) BY DEF NextFree
  <2> QED BY <2>2, <2>3
<1>12. c2 # {} => Lowest(c2) \in c2 BY <1>3, LowestExists
<1>13. NextFree(h) \in Bits
  <2>1. 0 \in Bits BY <1>1, SMT DEF Bits
  <2> QED BY <1>3, <1>11, <1>12, <2>1
<1>14. g \in Header /\ g.next = NextFree(h) /\ g.free = f.free - 1 /\ g.used = h.used
       /\ g.managed = f.managed /\ g.at = f.at
  <2>1. f.free - 1 \in 0 .. M BY <1>1, SMT
  <2>2. [h EXCEPT !.next = NextFree(h), !.free = @ - 1] = [h EXCEPT !.next = NextFree(h), !.free = f.free - 1]
    BY <1>8
  <2> QED BY <1>8, <1>9, <1>13, <2>1, <2>2 DEF Header
<1>15. Clear(g) = c2 BY <1>10, <1>14 DEF Clear
<1>16. Cardinality(c2) = f.free - 1
  <2> HIDE DEF c
  <2>1. IsFiniteSet(c) BY <1>3, BitsFinite
  <2>2. Cardinality(c \ {f.next}) = Cardinality(c) - 1 BY <1>5, <2>1, FS_RemoveElement
  <2> QED BY <1>2, <2>2
<1>17. c2 = {i \in 0 .. g.managed - 1 : ow2[p + 1 + i] = 0}
  <2> HIDE DEF g, c, h
  <2>1. ASSUME NEW i \in 0 .. f.managed - 1
        PROVE  ow2[p + 1 + i] = 0 <=> ow[p + 1 + i] = 0 /\ i # f.next
    <3>1. p + 1 + i \in Pages BY <1>1, PartitionAssumption, SMT DEF RoomAt, Pages
    <3>2. CASE i = f.next BY <1>6, <1>7, <3>2
    <3>3. CASE i # f.next
      <4>1. p + 1 + i # p + 1 + f.next BY <1>1, <1>6, <3>3, SMT
      <4> QED BY <3>1, <3>3, <4>1
    <3> QED BY <3>2, <3>3
  <2>2. g.managed = f.managed BY <1>14
  <2> HIDE DEF ow2
  <2> QED BY <1>2, <2>1, <2>2
<1>18. ExactAt(g, p, ow2) BY <1>2, <1>11, <1>14, <1>15, <1>16, <1>17 DEF ExactAt
<1>19. RoomAt(g, p) BY <1>1, <1>14, SMT DEF RoomAt
<1> QED BY <1>2, <1>6, <1>7, <1>14, <1>18, <1>19

LEMMA HandOutKept ==
  ASSUME NEW fs, NEW ow, NEW n \in Nat, Inventory(fs, ow, n), WithRoom(fs, n) # {},
         NEW p, p = Lowest(WithRoom(fs, n)), NEW page, page = fs[p].next + 1 + fs[p].at
  PROVE  /\ Inventory([fs EXCEPT ![p] = NewPage(@)], [ow EXCEPT ![page] = @ + 1], n)
         /\ \A q \in Fsips : [fs EXCEPT ![p] = NewPage(@)][q].managed = fs[q].managed
         /\ page \in Pages /\ ow[page] = 0
<1> DEFINE fs2 == [fs EXCEPT ![p] = NewPage(@)]
           ow2 == [ow EXCEPT ![page] = @ + 1]
<1>1. WithRoom(fs, n) \in SUBSET Nat BY DEF WithRoom, Fsips, Pages
<1>2. p \in WithRoom(fs, n) BY <1>1, LowestExists
<1>3. p \in Fsips /\ p < n /\ fs[p].free # 0 BY <1>2 DEF WithRoom
<1>4. fs[p] \in Header /\ ExactAt(fs[p], p, ow) /\ RoomAt(fs[p], p) /\ ow \in [Pages -> Nat]
      /\ fs \in [Fsips -> Header]
  BY <1>3 DEF Inventory
<1>5. /\ fs[p].at = p /\ fs[p].next \in 0 .. fs[p].managed - 1
      /\ p + 1 + fs[p].next \in Pages /\ ow[p + 1 + fs[p].next] = 0
      /\ NewPage(fs[p]) \in Header /\ NewPage(fs[p]).managed = fs[p].managed
      /\ ExactAt(NewPage(fs[p]), p, [ow EXCEPT ![p + 1 + fs[p].next] = @ + 1])
      /\ RoomAt(NewPage(fs[p]), p)
  <2> DEFINE f == fs[p]
  <2>1. f \in Header /\ ExactAt(f, p, ow) /\ RoomAt(f, p) /\ f.free # 0 BY <1>3, <1>4
  <2> HIDE DEF f
  <2>2. /\ f.at = p /\ f.next \in 0 .. f.managed - 1
        /\ p + 1 + f.next \in Pages /\ ow[p + 1 + f.next] = 0
        /\ NewPage(f) \in Header /\ NewPage(f).managed = f.managed
        /\ ExactAt(NewPage(f), p, [ow EXCEPT ![p + 1 + f.next] = @ + 1])
        /\ RoomAt(NewPage(f), p)
    BY <1>3, <1>4, <2>1, NewPageExact
  <2> QED BY <2>2 DEF f
<1>6. p \in Nat /\ fs[p].managed \in 0 .. M /\ M \in Nat
  BY <1>3, <1>4, PartitionAssumption DEF Header, Fsips, Pages
<1>7. page = p + 1 + fs[p].next /\ fs[p].next \in Bits /\ page <= p + fs[p].managed
  <2> DEFINE k == fs[p].next
             m == fs[p].managed
  <2>1. k \in 0 .. m - 1 /\ m \in 0 .. M /\ page = k + 1 + p BY <1>5, <1>6
  <2> HIDE DEF k, m
  <2>2. page = p + 1 + k /\ k \in Bits /\ page <= p + m BY <1>6, <2>1, SMT DEF Bits
  <2> QED BY <2>2 DEF k, m
<1>8. page \in Pages /\ ow[page] = 0 /\ FsipOf(page) = p /\ page \notin Fsips
  BY <1>3, <1>5, <1>7, PageOfFsip
<1>9. fs2 \in [Fsips -> Header] /\ ow2 \in [Pages -> Nat] BY <1>3, <1>4, <1>5, <1>8
<1>10. ASSUME NEW q \in Fsips
       PROVE  ExactAt(fs2[q], q, ow2) /\ RoomAt(fs2[q], q) /\ fs2[q].managed = fs[q].managed
  <2>1. CASE q = p BY <1>3, <1>4, <1>5, <1>7, <2>1
  <2>2. CASE q # p
    <3>1. fs2[q] = fs[q] BY <1>4, <2>2
    <3>2. \A x \in Pages : FsipOf(x) # p => ow2[x] = ow[x] BY <1>4, <1>8
    <3>3. ExactAt(fs[q], q, ow) /\ RoomAt(fs[q], q) BY DEF Inventory
    <3>4. ExactAt(fs[q], q, ow2) BY <1>3, <1>4, <1>9, <2>2, <3>2, <3>3, OthersExact
    <3> QED BY <3>1, <3>3, <3>4
  <2> QED BY <2>1, <2>2
<1>11. ASSUME NEW x \in Pages, ow2[x] > 0
       PROVE  /\ ow2[x] = 1 /\ x \notin Fsips /\ FsipOf(x) < n
              /\ x <= FsipOf(x) + fs2[FsipOf(x)].managed
  <2>1. fs2[FsipOf(x)].managed = fs[FsipOf(x)].managed BY <1>10, FsipOfPage
  <2>2. CASE x = page BY <1>3, <1>4, <1>7, <1>8, <2>1, <2>2
  <2>3. CASE x # page
    <3>1. ow[x] = ow2[x] BY <1>4, <2>3
    <3> QED BY <1>11, <2>1, <3>1 DEF Inventory, OwnedManaged
  <2> QED BY <2>2, <2>3
<1>12. Inventory(fs2, ow2, n) BY <1>9, <1>10, <1>11 DEF Inventory, OwnedManaged
<1> QED BY <1>8, <1>10, <1>12

(* A page released is free afterwards, and the first that is free is known, *)
(* if one was free before or the page is the first of the FSIP (freePage).  *)
LEMMA PutBackExact ==
  ASSUME NEW f \in Header, NEW p \in Fsips, NEW ow \in [Pages -> Nat],
         ExactAt(f, p, ow), RoomAt(f, p),
         NEW i \in 0 .. f.managed - 1, ow[p + 1 + i] = 1, f.free # 0 \/ i = 0
  PROVE  LET g == PutBack(f, p + 1 + i)  ow2 == [ow EXCEPT ![p + 1 + i] = @ - 1] IN
         g \in Header /\ g.managed = f.managed /\ ExactAt(g, p, ow2) /\ RoomAt(g, p)
<1> DEFINE c == Clear(f)
           x == p + 1 + i
           g == PutBack(f, x)
           ow2 == [ow EXCEPT ![x] = @ - 1]
           c2 == c \cup {i}
<1>1. f.managed \in 1 .. M /\ f.free \in 0 .. M /\ p \in Nat /\ M \in Nat /\ f.used \in SUBSET Bits
      /\ f.next \in Bits /\ i \in Bits
  BY PartitionAssumption, SMT DEF Header, Fsips, Pages, Bits
<1>2. /\ f.at = p /\ c = {j \in 0 .. f.managed - 1 : ow[p + 1 + j] = 0}
      /\ f.free = Cardinality(c) /\ (c # {} => f.next = Lowest(c))
  BY <1>1, SMT DEF ExactAt
<1>3. c \subseteq Bits /\ i \notin c /\ i \in f.used BY <1>1, <1>2 DEF Clear
<1>4. x - (f.at + 1) = i BY <1>1, <1>2, SMT DEF Bits
<1>5. g = [f EXCEPT !.next = IF @ > i THEN i ELSE @, !.used = @ \ {i}, !.free = @ + 1]
  BY <1>4 DEF PutBack
<1>6. IsFiniteSet(c) /\ c2 \in SUBSET Bits /\ Cardinality(c2) = f.free + 1 /\ Cardinality(c2) \in 0 .. M
  <2> HIDE DEF c
  <2>1. IsFiniteSet(c) BY <1>3, BitsFinite
  <2>2. Cardinality(c2) = Cardinality(c) + 1 BY <1>3, <2>1, FS_AddElement
  <2>3. c2 \in SUBSET Bits BY <1>1, <1>3
  <2> QED BY <1>2, <2>1, <2>2, <2>3, BitsFinite
<1>7. /\ g \in Header /\ g.managed = f.managed /\ g.at = f.at /\ g.free = f.free + 1
      /\ g.used = f.used \ {i} /\ g.next = IF f.next > i THEN i ELSE f.next
  <2>1. f.free + 1 \in 0 .. M BY <1>6
  <2>2. (IF f.next > i THEN i ELSE f.next) \in Bits BY <1>1
  <2>3. g = [f EXCEPT !.next = IF f.next > i THEN i ELSE f.next, !.used = f.used \ {i}, !.free = f.free + 1]
    BY <1>5
  <2> HIDE DEF g
  <2> QED BY <1>1, <2>1, <2>2, <2>3 DEF Header
<1> HIDE DEF g
<1>8. Clear(g) = c2 BY <1>1, <1>3, <1>7 DEF Clear
<1>9. \A j \in c2 : g.next <= j
  <2>1. CASE c = {}
    <3>1. f.free = 0 BY <1>2, <2>1, FS_EmptySet
    <3>2. i = 0 BY <3>1
    <3> QED BY <1>1, <1>7, <2>1, <3>2, SMT DEF Bits
  <2>2. CASE c # {}
    <3>1. c \in SUBSET Nat BY <1>3 DEF Bits
    <3>2. \A j \in c : f.next <= j BY <1>2, <2>2, <3>1, LowestExists
    <3> DEFINE k == f.next
    <3>3. k \in Nat /\ i \in Nat /\ g.next = (IF k > i THEN i ELSE k) BY <1>1, <1>7 DEF Bits
    <3> HIDE DEF k
    <3>4. g.next <= i /\ g.next <= k /\ g.next \in Nat BY <3>3, SMT
    <3>5. ASSUME NEW j \in c PROVE g.next <= j
      <4>1. k <= j /\ j \in Nat BY <3>1, <3>2 DEF k
      <4> QED BY <3>3, <3>4, <4>1, SMT
    <3> QED BY <3>4, <3>5
  <2> QED BY <2>1, <2>2
<1>10. g.next \in c2
  <2>1. CASE c = {}
    <3>1. f.free = 0 BY <1>2, <2>1, FS_EmptySet
    <3>2. i = 0 /\ f.next \in Nat BY <1>1, <3>1 DEF Bits
    <3>3. g.next <= 0 /\ g.next \in Nat BY <1>7, <1>9, <3>2 DEF Header, Bits
    <3> QED BY <3>2, <3>3, SMT
  <2>2. CASE c # {}
    <3>1. f.next \in c BY <1>2, <1>3, <2>2, LowestExists DEF Bits
    <3> QED BY <1>7, <3>1
  <2> QED BY <2>1, <2>2
<1>11. g.next = Lowest(c2) BY <1>6, <1>9, <1>10, LowestIs DEF Bits
<1>12. c2 = {j \in 0 .. g.managed - 1 : ow2[p + 1 + j] = 0}
  <2> HIDE DEF c
  <2>1. ASSUME NEW j \in 0 .. f.managed - 1
        PROVE  ow2[p + 1 + j] = 0 <=> ow[p + 1 + j] = 0 \/ j = i
    <3> DEFINE m == f.managed
    <3>0. m \in Nat /\ j \in 0 .. m - 1 /\ i \in 0 .. m - 1 /\ p + m <= MaxSize
          /\ p \in Nat /\ MaxSize \in Nat
      BY <1>1, PartitionAssumption DEF RoomAt
    <3> HIDE DEF m
    <3>1. p + 1 + j \in Pages /\ x \in Pages BY <3>0, SMT DEF Pages
    <3>2. CASE j = i BY <3>1, <3>2
    <3>3. CASE j # i
      <4>1. p + 1 + j # x BY <1>1, <3>3, SMT DEF Bits
      <4> QED BY <3>1, <3>3, <4>1
    <3> QED BY <3>2, <3>3
  <2> HIDE DEF ow2
  <2> QED BY <1>2, <1>7, <2>1
<1>13. ExactAt(g, p, ow2) BY <1>2, <1>6, <1>7, <1>8, <1>11, <1>12 DEF ExactAt
<1>14. RoomAt(g, p)
  <2>1. g.managed # 0 BY <1>1, <1>7
  <2> QED BY <1>7, <2>1 DEF RoomAt
<1> QED BY <1>7, <1>13, <1>14 DEF g

(* An FSIP that gives out the pages behind those it has managed, all of     *)
(* which are in use, is exact when nobody uses the new ones (grow).         *)
LEMMA GrownExact ==
  ASSUME NEW f \in Header, NEW p \in Fsips, NEW ow \in [Pages -> Nat],
         ExactAt(f, p, ow), RoomAt(f, p), f.managed > 0, f.free = 0,
         NEW g \in Nat, g >= 8,
         g <= Room(f) => p + f.managed + g <= MaxSize,
         g > Room(f) => p + M <= MaxSize,
         \A x \in Pages : x > p + f.managed /\ x <= p + M => ow[x] = 0
  PROVE  /\ Grown(f, g) \in Header
         /\ Grown(f, g).managed = IF g <= Room(f) THEN f.managed + g ELSE M
         /\ ExactAt(Grown(f, g), p, ow) /\ RoomAt(Grown(f, g), p)
<1> DEFINE m == f.managed
           r == IF g <= Room(f) THEN g ELSE Room(f)
           h == Grown(f, g)
<1>1. m \in 1 .. M /\ p \in Nat /\ M \in Nat /\ MaxSize \in Nat /\ M % 8 = 0
  BY PartitionAssumption, SMT DEF Header, Fsips, Pages
<1>2. f.used = Bits /\ Clear(f) = {} /\ f.at = p
  <2>1. Clear(f) \in SUBSET Bits BY DEF Clear
  <2>2. Cardinality(Clear(f)) = 0 /\ f.at = p BY SMT DEF ExactAt
  <2>3. Clear(f) = {} BY <2>1, <2>2, BitsFinite, FS_EmptySet
  <2> QED BY <2>2, <2>3 DEF Clear, Header
<1>3. Room(f) = M - m BY DEF Room
<1>4. CASE Room(f) = 0
  <2>1. h = f BY <1>4 DEF Grown
  <2>2. ~(g <= Room(f)) /\ m = M BY <1>1, <1>3, <1>4, SMT
  <2> QED BY <2>1, <2>2
<1>5. CASE Room(f) # 0
  <2>1. r \in 1 .. M - m /\ m + r = IF g <= Room(f) THEN m + g ELSE M
    <3> HIDE DEF m
    <3> QED BY <1>1, <1>3, <1>5, SMT
  <2>2. m % 8 # 0 => r >= 8 - (m % 8)
    <3> HIDE DEF m
    <3> QED BY <1>1, <1>3, <2>1, SMT
  <2>3. GrowBits(f.used, m, r) = f.used \ (m .. m + r - 1)
    <3>1. f.used \in SUBSET Nat /\ 0 .. m - 1 \subseteq f.used /\ m \in Nat /\ r \in Nat
      <4>1. Bits \subseteq Nat /\ 0 .. m - 1 \subseteq Bits BY <1>1, SMT DEF Bits
      <4> QED BY <1>1, <1>2, <2>1, <4>1
    <3> HIDE DEF m, r
    <3> QED BY <2>2, <3>1, GrowBitsClears
  <2>4. h = [f EXCEPT !.used = GrowBits(f.used, m, r), !.free = 0 + r, !.next = m, !.managed = m + r]
    BY <1>5 DEF Grown
  <2> HIDE DEF h, r
  <2>5. /\ h.used = f.used \ (m .. m + r - 1) /\ h.free = r /\ h.next = m
        /\ h.managed = m + r /\ h.at = p /\ h \in Header
    <3> DEFINE u == f.used \ (m .. m + r - 1)
    <3>0. 0 + r = r
      <4> HIDE DEF m
      <4> QED BY <1>1, <2>1, SMT
    <3>1. h = [f EXCEPT !.used = u, !.free = r, !.next = m, !.managed = m + r]
      BY <2>3, <2>4, <3>0
    <3>2. m \in Bits /\ r \in 0 .. M /\ m + r \in 0 .. M
      <4> HIDE DEF m
      <4> QED BY <1>1, <2>1, SMT DEF Bits
    <3>3. u \in SUBSET Bits BY <1>2
    <3> HIDE DEF m, u
    <3>4. h.used = u /\ h.free = r /\ h.next = m /\ h.managed = m + r /\ h.at = p /\ h \in Header
      BY <1>2, <3>1, <3>2, <3>3 DEF Header
    <3> QED BY <3>4 DEF u
  <2>6. Clear(h) = m .. m + r - 1
    <3> HIDE DEF m
    <3>1. m .. m + r - 1 \subseteq Bits BY <1>1, <2>1, SMT DEF Bits
    <3> QED BY <1>2, <2>5, <3>1 DEF Clear
  <2>7. p + m + r <= MaxSize
    <3>1. p + (m + r) <= MaxSize BY <1>1, <2>1, SMT DEF Room
    <3> HIDE DEF m
    <3> QED BY <1>1, <2>1, <3>1, SMT
  <2>8. ASSUME NEW i \in 0 .. m + r - 1
        PROVE  ow[p + 1 + i] = 0 <=> i >= m
    <3>1. CASE i >= m
      <4>1. p + 1 + i \in Pages /\ p + 1 + i > p + m /\ p + 1 + i <= p + M
        <5> HIDE DEF m
        <5> QED BY <1>1, <2>1, <2>7, <3>1, SMT DEF Pages
      <4> QED BY <3>1, <4>1
    <3>2. CASE ~(i >= m)
      <4>1. i \in 0 .. m - 1
        <5> HIDE DEF m
        <5> QED BY <1>1, <2>1, <3>2, SMT
      <4>2. i \notin {j \in 0 .. m - 1 : ow[p + 1 + j] = 0} BY <1>2 DEF ExactAt
      <4> QED BY <3>2, <4>1, <4>2
    <3> QED BY <3>1, <3>2
  <2>9. m .. m + r - 1 = {i \in 0 .. h.managed - 1 : ow[p + 1 + i] = 0}
    <3>0. h.managed = m + r BY <2>5
    <3> HIDE DEF m
    <3>1. \A i : i \in m .. m + r - 1 <=> i \in 0 .. m + r - 1 /\ i >= m BY <1>1, <2>1, SMT
    <3>2. {i \in 0 .. m + r - 1 : ow[p + 1 + i] = 0} = {i \in 0 .. m + r - 1 : i >= m} BY <2>8
    <3>3. m .. m + r - 1 = {i \in 0 .. m + r - 1 : i >= m} BY <3>1
    <3>4. h.managed - 1 = m + r - 1
      <4>1. (m + r) - 1 = m + r - 1 BY <1>1, <2>1, SMT
      <4> QED BY <3>0, <4>1
    <3> QED BY <3>2, <3>3, <3>4, Zenon
  <2>10. Cardinality(m .. m + r - 1) = r
    <3> HIDE DEF m
    <3> DEFINE b == m + r - 1
    <3>1. m \in Int /\ b \in Int /\ ~(m > b) /\ b - m + 1 = r BY <1>1, <2>1, SMT
    <3> HIDE DEF b
    <3>2. Cardinality(m .. b) = r BY <3>1, FS_Interval
    <3> QED BY <3>2 DEF b
  <2>11. Lowest(m .. m + r - 1) = m
    <3> HIDE DEF m
    <3>1. m .. m + r - 1 \in SUBSET Nat /\ m \in m .. m + r - 1 BY <1>1, <2>1, SMT
    <3>2. \A j \in m .. m + r - 1 : m <= j BY <1>1, <2>1, SMT
    <3> QED BY <3>1, <3>2, LowestIs
  <2>12. ExactAt(h, p, ow) BY <2>5, <2>6, <2>9, <2>10, <2>11 DEF ExactAt
  <2>13. RoomAt(h, p)
    <3>1. h.managed = m + r /\ m + r # 0
      <4>1. m + r # 0
        <5> HIDE DEF m
        <5> QED BY <1>1, <2>1, SMT
      <4> QED BY <2>5, <4>1
    <3>2. p + (m + r) <= MaxSize
      <4> HIDE DEF m
      <4> QED BY <1>1, <2>1, <2>7, SMT
    <3> QED BY <3>1, <3>2 DEF RoomAt
  <2> QED BY <2>1, <2>5, <2>12, <2>13 DEF h
<1> QED BY <1>4, <1>5

(* A new FSIP is exact when nobody uses the pages behind it (initNewFSIP).  *)
LEMMA NewFSIPExact ==
  ASSUME NEW p \in Fsips, NEW k \in 1 .. M, NEW ow \in [Pages -> Nat],
         p + k <= MaxSize,
         \A x \in Pages : x > p /\ x <= p + M => ow[x] = 0
  PROVE  /\ NewFSIP(p, k) \in Header /\ NewFSIP(p, k).managed = k
         /\ ExactAt(NewFSIP(p, k), p, ow) /\ RoomAt(NewFSIP(p, k), p)
<1> DEFINE f == NewFSIP(p, k)
<1>1. p \in Pages /\ p \in Nat /\ M \in Nat /\ MaxSize \in Nat
  BY PartitionAssumption DEF Fsips, Pages
<1>2. f.at = p /\ f.used = k .. M - 1 /\ f.next = 0 /\ f.free = k /\ f.managed = k
  BY DEF NewFSIP
<1>3. f \in Header
  <2>1. k .. M - 1 \in SUBSET Bits /\ 0 \in Bits /\ k \in 0 .. M BY <1>1, SMT DEF Bits
  <2> QED BY <1>1, <2>1 DEF NewFSIP, Header
<1> HIDE DEF f
<1>4. Clear(f) = 0 .. k - 1 BY <1>1, <1>2, SMT DEF Clear, Bits
<1>5. \A i \in 0 .. k - 1 : p + 1 + i \in Pages /\ p + 1 + i > p /\ p + 1 + i <= p + M
  BY <1>1, SMT DEF Pages
<1>6. 0 .. k - 1 = {i \in 0 .. f.managed - 1 : ow[p + 1 + i] = 0} BY <1>2, <1>5
<1>7. Cardinality(0 .. k - 1) = k
  <2>1. 0 \in Int /\ k - 1 \in Int /\ ~(0 > k - 1) /\ k - 1 - 0 + 1 = k BY <1>1, SMT
  <2> QED BY <2>1, FS_Interval
<1>8. Lowest(0 .. k - 1) = 0
  <2>1. 0 .. k - 1 \in SUBSET Nat /\ 0 \in 0 .. k - 1 BY <1>1, SMT
  <2>2. \A j \in 0 .. k - 1 : 0 <= j BY SMT
  <2> QED BY <2>1, <2>2, LowestIs
<1>9. ExactAt(f, p, ow) BY <1>2, <1>4, <1>6, <1>7, <1>8 DEF ExactAt
<1>10. RoomAt(f, p) BY <1>2, SMT DEF RoomAt
<1> QED BY <1>2, <1>3, <1>9, <1>10 DEF f

-----------------------------------------------------------------------------
(* Of the first n pages: the FSIP of the last one manages pages up to it or *)
(* beyond, but less than a growth beyond, and the ones before are full.     *)
EndsAt(fs, n) ==
  LET l == FsipOf(n - 1) IN
  /\ fs[l].managed > 0 /\ l + fs[l].managed < MaxSize
  /\ n <= l + 1 + fs[l].managed /\ l + 1 + fs[l].managed <= n + growth
  /\ \A q \in Fsips : q < l => fs[q].managed = M

(* The inventory is exact, and size of the partition and of the file are    *)
(* where the managed pages end; between them is no page in use that a       *)
(* resize by a growth would cut off.                                        *)
IInv ==
  /\ growth \in Growths \cup {0}
  /\ size \in 1 .. MaxSize /\ fileSize \in 1 .. MaxSize /\ size <= fileSize
  /\ growth = 0 => fileSize = size
  /\ Inventory(fsip, owners, size)
  /\ EndsAt(fsip, size) /\ EndsAt(fsip, fileSize)
  /\ damaged = {} /\ releases \in 0 .. MaxReleases

(* Only what the FSIPs manage matters to the ends.                          *)
LEMMA EndsKept ==
  ASSUME NEW fs, NEW fs2, NEW n \in 1 .. MaxSize, EndsAt(fs, n),
         \A q \in Fsips : fs2[q].managed = fs[q].managed
  PROVE  EndsAt(fs2, n)
<1>1. n - 1 \in Pages BY PartitionAssumption, SMT DEF Pages
<1>2. FsipOf(n - 1) \in Fsips BY <1>1, FsipOfPage
<1> QED BY <1>2 DEF EndsAt

(* The last FSIP of the first n pages.                                      *)
LEMMA LastOf ==
  ASSUME NEW n \in 1 .. MaxSize
  PROVE  /\ FsipOf(n - 1) \in Fsips /\ FsipOf(n - 1) \in Nat
         /\ FsipOf(n - 1) <= n - 1 /\ n - 1 <= FsipOf(n - 1) + M
         /\ \A q \in Fsips : q < n => q <= FsipOf(n - 1)
<1> DEFINE l == FsipOf(n - 1)
<1>1. n - 1 \in Pages /\ M \in Nat /\ n \in Nat BY PartitionAssumption, SMT DEF Pages
<1>2. l \in Fsips /\ l <= n - 1 /\ n - 1 <= l + M BY <1>1, FsipOfPage
<1>3. l \in Nat BY <1>2 DEF Fsips, Pages
<1>4. ASSUME NEW q \in Fsips, q < n PROVE q <= l
  <2>1. q \in Nat BY DEF Fsips, Pages
  <2>2. l < q => l + M + 1 <= q BY <1>2, FsipsApart
  <2> HIDE DEF l
  <2> QED BY <1>1, <1>2, <1>3, <1>4, <2>1, <2>2, SMT
<1> QED BY <1>2, <1>3, <1>4

LEMMA LastFsipIs ==
  ASSUME size \in 1 .. MaxSize
  PROVE  LastFsip = FsipOf(size - 1)
<1> DEFINE S == {p \in Fsips : p < size}
           l == FsipOf(size - 1)
<1>1. /\ l \in Fsips /\ l \in Nat /\ l <= size - 1
      /\ \A q \in Fsips : q < size => q <= l
  BY LastOf
<1>2. l \in S /\ \A q \in S : q <= l
  <2> HIDE DEF l
  <2>1. l < size BY <1>1, SMT
  <2> QED BY <1>1, <2>1
<1>3. \A q \in S : q \in Nat BY DEF Fsips, Pages
<1>4. Highest(S) \in S /\ \A q \in S : q <= Highest(S) BY <1>2 DEF Highest
<1>5. Highest(S) \in Nat /\ l \in Nat /\ Highest(S) <= l /\ l <= Highest(S)
  BY <1>1, <1>2, <1>3, <1>4
<1> DEFINE h == Highest(S)
<1> HIDE DEF l, h, S
<1>6. h = l BY <1>5, SMT DEF h
<1> QED BY <1>6 DEF h, S, l, LastFsip

(* The pages behind the managed ones of the last FSIP, and those of FSIPs   *)
(* behind it, are nobody's.                                                 *)
LEMMA BehindLast ==
  ASSUME NEW fs, NEW ow, NEW n \in 1 .. MaxSize, Inventory(fs, ow, n),
         NEW x \in Pages, x > FsipOf(n - 1) + fs[FsipOf(n - 1)].managed
  PROVE  ow[x] = 0
<1> DEFINE l == FsipOf(n - 1)
           m == fs[l].managed
           a == FsipOf(x)
<1>1. /\ l \in Fsips /\ l \in Nat
      /\ \A q \in Fsips : q < n => q <= l
  BY LastOf
<1>2. m \in Nat BY <1>1 DEF Inventory, Header
<1>3. a \in Fsips /\ a \in Nat /\ x \in Nat /\ a <= x /\ x <= a + M BY FsipOfPage DEF Fsips, Pages
<1>4. SUFFICES ASSUME ow[x] > 0 PROVE FALSE
  <2>1. ow[x] \in Nat BY DEF Inventory
  <2> QED BY <1>4, <2>1, SMT
<1>5. a < n /\ x <= a + fs[a].managed BY <1>4 DEF Inventory, OwnedManaged
<1>6. a <= l BY <1>1, <1>3, <1>5
<1>7. a # l
  <2>1. a = l => x <= l + m BY <1>5
  <2> QED BY <1>1, <1>2, <1>3, <2>1, SMT
<1>8. a < l
  <2> HIDE DEF a, l
  <2> QED BY <1>1, <1>3, <1>6, <1>7, SMT
<1>9. a + M + 1 <= l BY <1>1, <1>3, <1>8, FsipsApart
<1> HIDE DEF a, l, m
<1>10. x > l + m BY DEF l, m
<1> QED BY <1>1, <1>2, <1>3, <1>9, <1>10, PartitionAssumption, SMT

(* Resizing the file: the FSIPs manage the new pages, the sizes stay where  *)
(* the managed pages end, and no page in use is cut off.                    *)
LEMMA ResizeKept ==
  ASSUME IInv, growth <= M, Resize
  PROVE  /\ size' = size + growth
         /\ Inventory(Extended, owners, size')
         /\ EndsAt(Extended, size') /\ EndsAt(Extended, fileSize')
         /\ size' \in 1 .. MaxSize /\ fileSize' \in 1 .. MaxSize /\ size' <= fileSize'
         /\ \A x \in Pages : owners[x] > 0 => x < fileSize'
<1> DEFINE l == FsipOf(size - 1)
           m == fsip[l].managed
           s == size
           g == growth
           N == l + M + 1
           O == Overflow
           f == fsip[l]
           E == Extended
<1>1. /\ g \in Nat /\ g >= 8 /\ g <= M /\ s \in 1 .. MaxSize /\ M \in Nat /\ MaxSize \in Nat
      /\ s + g + M + 1 <= MaxSize /\ WithRoom(fsip, s) = {}
      /\ Inventory(fsip, owners, s) /\ EndsAt(fsip, s)
  <2>1. growth # 0 BY DEF Resize
  <2>2. growth \in Growths /\ Growths \subseteq 8 .. MaxSize BY <2>1, PartitionAssumption DEF IInv
  <2>3. growth \in 8 .. MaxSize BY <2>2
  <2>4. growth \in Nat /\ growth >= 8 BY <2>3, PartitionAssumption, SMT
  <2> QED BY <2>4, PartitionAssumption DEF Resize, IInv
<1>2. /\ l \in Fsips /\ l \in Nat /\ l <= s - 1 /\ s - 1 <= l + M
      /\ \A q \in Fsips : q < s => q <= l
  BY <1>1, LastOf
<1>3. LastFsip = l /\ NewFsip = N BY <1>1, LastFsipIs DEF NewFsip
<1>4. /\ f \in Header /\ ExactAt(f, l, owners) /\ RoomAt(f, l) /\ fsip \in [Fsips -> Header]
      /\ owners \in [Pages -> Nat] /\ m \in 1 .. M
  <2>1. f \in Header /\ m > 0 BY <1>1, <1>2 DEF Inventory, EndsAt
  <2>2. m \in 0 .. M BY <2>1 DEF Header
  <2>3. m \in 1 .. M
    <3> HIDE DEF m
    <3> QED BY <1>1, <2>1, <2>2, SMT DEF m
  <2> QED BY <1>1, <1>2, <2>1, <2>3 DEF Inventory
<1>5. f.free = 0
  <2>1. l < s
    <3> HIDE DEF l
    <3> QED BY <1>1, <1>2, SMT
  <2> QED BY <1>1, <1>2, <2>1 DEF WithRoom
<1>6. Room(f) = M - m BY DEF Room
<1>7. O = IF g <= M - m THEN 0 ELSE g - (M - m) BY <1>3, <1>6 DEF Overflow, Remaining
<1>8. s <= l + 1 + m /\ l + 1 + m <= s + g /\ \A q \in Fsips : q < l => fsip[q].managed = M
  BY <1>1 DEF EndsAt
<1>9. \A x \in Pages : x > l + m => owners[x] = 0 BY <1>1, BehindLast
<1> DEFINE h == Grown(f, g)
           grown == [fsip EXCEPT ![l] = h]
<1>10. h \in Header /\ h.managed = (IF g <= M - m THEN m + g ELSE M)
       /\ ExactAt(h, l, owners) /\ RoomAt(h, l)
  <2>1. g <= Room(f) => l + f.managed + g <= MaxSize
    <3> HIDE DEF l, m
    <3>1. g <= M - m => l + m + g <= MaxSize BY <1>1, <1>2, <1>4, SMT
    <3> QED BY <1>6, <3>1 DEF m
  <2>2. g > Room(f) => l + M <= MaxSize
    <3> HIDE DEF l, m
    <3> QED BY <1>1, <1>2, SMT
  <2>3. f.managed > 0
    <3>1. m > 0
      <4> HIDE DEF m
      <4> QED BY <1>1, <1>4, SMT
    <3> QED BY <3>1
  <2>4. \A x \in Pages : x > l + f.managed /\ x <= l + M => owners[x] = 0 BY <1>9
  <2> HIDE DEF f
  <2>5. /\ h \in Header /\ ExactAt(h, l, owners) /\ RoomAt(h, l)
        /\ h.managed = IF g <= Room(f) THEN f.managed + g ELSE M
    BY <1>1, <1>2, <1>4, <1>5, <2>1, <2>2, <2>3, <2>4, GrownExact
  <2> QED BY <1>6, <2>5 DEF f
<1>11. E = IF O = 0 THEN grown
           ELSE [grown EXCEPT ![N] = NewFSIP(N, IF O > M THEN M ELSE O)]
  BY <1>3 DEF Extended
<1>12. /\ size' = s + g
       /\ fileSize' = IF O > 0 /\ N >= s + g THEN N + 1 ELSE s + g
  BY <1>3 DEF Resize
<1> HIDE DEF h, O, E, N
<1>13. grown \in [Fsips -> Header] BY <1>2, <1>4, <1>10
<1>14. \A q \in Fsips : ExactAt(grown[q], q, owners) /\ RoomAt(grown[q], q)
  BY <1>1, <1>2, <1>4, <1>10 DEF Inventory
<1>15. m <= h.managed
  <2> HIDE DEF m
  <2> QED BY <1>1, <1>4, <1>10, SMT
<1>16. ASSUME NEW x \in Pages, owners[x] > 0
       PROVE  /\ owners[x] = 1 /\ x \notin Fsips /\ FsipOf(x) < s + g /\ FsipOf(x) < s
              /\ x <= FsipOf(x) + grown[FsipOf(x)].managed
              /\ x <= l + m
  <2> DEFINE a == FsipOf(x)
             b == fsip[a].managed
             c == grown[a].managed
  <2>1. owners[x] = 1 /\ x \notin Fsips /\ a < s /\ x <= a + b
    BY <1>1, <1>16 DEF Inventory, OwnedManaged
  <2>2. a \in Fsips /\ a \in Nat /\ x \in Nat BY FsipOfPage DEF Fsips, Pages
  <2>3. b \in Nat /\ c \in Nat BY <1>4, <1>13, <2>2 DEF Header
  <2>4. b <= c
    <3>1. CASE a = l BY <1>2, <1>4, <1>15, <3>1
    <3>2. CASE a # l
      <4>1. b = c BY <1>4, <3>2
      <4> QED BY <2>3, <4>1, SMT
    <3> QED BY <3>1, <3>2
  <2>5. x <= l + m
    <3>1. ~(x > l + m) BY <1>9, <1>16
    <3> HIDE DEF l, m
    <3> QED BY <1>2, <1>4, <2>2, <3>1, SMT
  <2>6. a < s + g /\ x <= a + c
    <3> HIDE DEF a, b, c
    <3> QED BY <1>1, <2>1, <2>2, <2>3, <2>4, SMT
  <2> QED BY <2>1, <2>5, <2>6
<1>17. s + g \in 1 .. MaxSize
  BY <1>1, SMT
<1>18. CASE O = 0
  <2>1. E = grown /\ size' = s + g /\ fileSize' = s + g BY <1>11, <1>12, <1>18
  <2>2. g <= M - m /\ h.managed = m + g
    <3> HIDE DEF m
    <3> QED BY <1>1, <1>4, <1>7, <1>10, <1>18, SMT
  <2>3. Inventory(E, owners, s + g)
    BY <1>4, <1>13, <1>14, <1>16, <2>1 DEF Inventory, OwnedManaged
  <2>4. FsipOf(s + g - 1) = l
    <3>1. s + g - 1 \in Pages /\ l <= s + g - 1 /\ s + g - 1 <= l + M
      <4> HIDE DEF l, m
      <4> QED BY <1>1, <1>2, <1>4, <1>8, <2>2, SMT DEF Pages
    <3> QED BY <1>2, <3>1, FsipOfUnique
  <2>5. EndsAt(E, s + g)
    <3>1. grown[l].managed = m + g BY <1>2, <1>4, <2>2
    <3>2. \A q \in Fsips : q < l => grown[q].managed = M
      <4>1. \A q \in Fsips : q < l => q # l BY <1>2, SMT DEF Fsips, Pages
      <4> QED BY <1>4, <1>8, <4>1
    <3>3. /\ m + g > 0 /\ l + (m + g) < MaxSize
          /\ s + g <= l + 1 + (m + g) /\ l + 1 + (m + g) <= s + g + g
      <4> HIDE DEF l, m
      <4> QED BY <1>1, <1>2, <1>4, <1>8, <2>2, SMT
    <3>4. s + g - 1 = (s + g) - 1 BY <1>1, SMT
    <3> HIDE DEF l, m, grown
    <3> QED BY <2>1, <2>4, <3>1, <3>2, <3>3, <3>4 DEF EndsAt
  <2>6. ASSUME NEW x \in Pages, owners[x] > 0 PROVE x < s + g
    <3>1. x <= l + m /\ x \in Nat BY <1>16, <2>6 DEF Pages
    <3> HIDE DEF l, m
    <3> QED BY <1>1, <1>2, <1>4, <1>8, <3>1, SMT
  <2>7. s + g <= s + g BY <1>1, SMT
  <2> QED BY <1>17, <2>1, <2>3, <2>5, <2>6, <2>7 DEF E
<1>19. CASE O # 0
  <2>1. /\ O = g - (M - m) /\ O \in 1 .. M /\ O <= g /\ N = l + M + 1 /\ h.managed = M /\ N \in Nat
        /\ N <= s + M /\ N + O <= MaxSize /\ N + O < MaxSize /\ N + 1 \in 1 .. MaxSize /\ N >= s /\ N >= 1
    <3>1. N = l + M + 1 BY DEF N
    <3> HIDE DEF l, m
    <3> QED BY <1>1, <1>2, <1>4, <1>7, <1>10, <1>19, <3>1, SMT
  <2>2. N \in Fsips
    <3>1. l + M + 1 <= MaxSize
      <4> HIDE DEF l, m
      <4> QED BY <1>1, <1>2, SMT
    <3> QED BY <1>2, <2>1, <3>1, FsipAfter
  <2>3. l < N
    <3> HIDE DEF l, m
    <3> QED BY <1>1, <1>2, <2>1, SMT
  <2>4. E = [grown EXCEPT ![N] = NewFSIP(N, O)]
    <3>1. ~(O > M) BY <1>1, <2>1, SMT
    <3> QED BY <1>11, <1>19, <3>1
  <2>5. \A x \in Pages : x > N => owners[x] = 0
    <3>1. ASSUME NEW x \in Pages, x > N PROVE x > l + m
      <4>1. x \in Nat BY DEF Pages
      <4> HIDE DEF l, m
      <4> QED BY <1>1, <1>2, <1>4, <2>1, <3>1, <4>1, SMT
    <3> QED BY <1>9, <3>1
  <2>6. /\ NewFSIP(N, O) \in Header /\ NewFSIP(N, O).managed = O
        /\ ExactAt(NewFSIP(N, O), N, owners) /\ RoomAt(NewFSIP(N, O), N)
    BY <1>4, <2>1, <2>2, <2>5, NewFSIPExact
  <2>7. E \in [Fsips -> Header] BY <1>13, <2>2, <2>4, <2>6
  <2>8. /\ E[l].managed = M /\ E[N].managed = O
        /\ \A q \in Fsips : q # N => E[q] = grown[q]
    BY <1>2, <1>4, <1>13, <2>1, <2>2, <2>3, <2>4, <2>6, SMT
  <2>9. \A q \in Fsips : ExactAt(E[q], q, owners) /\ RoomAt(E[q], q)
    BY <1>14, <2>2, <2>4, <2>6, <2>8, <1>13
  <2>10. ASSUME NEW x \in Pages, owners[x] > 0
         PROVE  /\ owners[x] = 1 /\ x \notin Fsips /\ FsipOf(x) < s + g
                /\ x <= FsipOf(x) + E[FsipOf(x)].managed
    <3>1. FsipOf(x) \in Fsips /\ FsipOf(x) \in Nat BY FsipOfPage DEF Fsips, Pages
    <3>2. FsipOf(x) # N
      <4> DEFINE a == FsipOf(x)
      <4>1. a < s /\ a \in Nat BY <1>16, <2>10, <3>1
      <4> HIDE DEF a
      <4> QED BY <1>1, <2>1, <4>1, SMT DEF a
    <3> QED BY <1>16, <2>8, <2>10, <3>1, <3>2
  <2>11. Inventory(E, owners, s + g)
    BY <1>4, <2>7, <2>9, <2>10 DEF Inventory, OwnedManaged
  <2>12. \A q \in Fsips : q < N => E[q].managed = M
    <3>1. ASSUME NEW q \in Fsips, q < N PROVE E[q].managed = M
      <4>1. q \in Nat BY DEF Fsips, Pages
      <4>2. q # N BY <2>1, <3>1, <4>1, SMT
      <4>3. CASE q = l BY <2>8, <4>3
      <4>4. CASE q # l
        <5>1. q < l
          <6>1. l < q => l + M + 1 <= q BY <1>2, FsipsApart
          <6> HIDE DEF l, m
          <6> QED BY <1>1, <1>2, <2>1, <3>1, <4>1, <4>4, <6>1, SMT
        <5>2. E[q] = fsip[q] BY <1>4, <2>8, <4>2, <4>4
        <5> QED BY <1>8, <5>1, <5>2
      <4> QED BY <4>3, <4>4
    <3> QED BY <3>1
  <2>13. ASSUME NEW x \in Pages, owners[x] > 0 PROVE x < s + g
    <3>1. x <= l + m /\ x \in Nat BY <1>16, <2>13 DEF Pages
    <3> HIDE DEF l, m
    <3> QED BY <1>1, <1>2, <1>4, <1>7, <1>8, <1>19, <3>1, SMT
  <2>14. CASE N >= s + g
    <3>1. size' = s + g /\ fileSize' = N + 1
      <4>1. O > 0 BY <2>1, SMT
      <4> QED BY <1>12, <2>14, <4>1
    <3>2. FsipOf(s + g - 1) = l
      <4>1. s + g - 1 \in Pages /\ l <= s + g - 1 /\ s + g - 1 <= l + M
        <5> HIDE DEF l, m
        <5> QED BY <1>1, <1>2, <1>4, <1>8, <2>1, <2>14, SMT DEF Pages
      <4> QED BY <1>2, <4>1, FsipOfUnique
    <3>3. EndsAt(E, s + g)
      <4>1. \A q \in Fsips : q < l => E[q].managed = M
        <5>1. \A q \in Fsips : q < l => q < N
          <6> HIDE DEF l, m
          <6> QED BY <1>1, <1>2, <2>1, SMT DEF Fsips, Pages
        <5> QED BY <2>12, <5>1
      <4>2. M > 0 /\ l + M < MaxSize /\ s + g <= l + 1 + M /\ l + 1 + M <= s + g + g
        <5> HIDE DEF l, m
        <5> QED BY <1>1, <1>2, <1>4, <1>8, <2>1, <2>14, SMT
      <4>3. s + g - 1 = (s + g) - 1 BY <1>1, SMT
      <4> HIDE DEF l, m, grown
      <4> QED BY <2>8, <3>2, <4>1, <4>2, <4>3 DEF EndsAt
    <3>4. FsipOf(N) = N
      <4>1. N \in Pages BY <2>2 DEF Fsips
      <4>2. N <= N /\ N <= N + M BY <1>1, <2>1, SMT
      <4> QED BY <2>2, <4>1, <4>2, FsipOfUnique
    <3>5. EndsAt(E, N + 1)
      <4>1. (N + 1) - 1 = N BY <2>1, SMT
      <4>2. O > 0 /\ N + O < MaxSize /\ N + 1 <= N + 1 + O /\ N + 1 + O <= N + 1 + g BY <1>1, <2>1, SMT
      <4> QED BY <2>8, <2>12, <3>4, <4>1, <4>2 DEF EndsAt
    <3>6. s + g <= N + 1 BY <1>1, <2>1, <2>14, SMT
    <3>7. \A x \in Pages : owners[x] > 0 => x < N + 1
      <4>1. ASSUME NEW x \in Pages, owners[x] > 0 PROVE x < N + 1
        <5>1. x < s + g /\ x \in Nat BY <2>13, <4>1 DEF Pages
        <5> QED BY <1>1, <2>1, <3>6, <5>1, SMT
      <4> QED BY <4>1
    <3> QED BY <1>17, <2>1, <2>11, <3>1, <3>3, <3>5, <3>6, <3>7 DEF E
  <2>15. CASE ~(N >= s + g)
    <3>1. size' = s + g /\ fileSize' = s + g BY <1>12, <2>15
    <3>2. FsipOf(s + g - 1) = N
      <4>1. s + g - 1 \in Pages /\ N <= s + g - 1 /\ s + g - 1 <= N + M
        <5> HIDE DEF l, m
        <5> QED BY <1>1, <1>2, <1>4, <1>8, <2>1, <2>15, SMT DEF Pages
      <4> QED BY <2>2, <4>1, FsipOfUnique
    <3>3. EndsAt(E, s + g)
      <4>1. O > 0 /\ N + O < MaxSize /\ s + g <= N + 1 + O /\ N + 1 + O <= s + g + g
        <5> HIDE DEF l, m
        <5> QED BY <1>1, <1>2, <1>4, <1>8, <2>1, <2>15, SMT
      <4>2. s + g - 1 = (s + g) - 1 BY <1>1, SMT
      <4> QED BY <2>8, <2>12, <3>2, <4>1, <4>2 DEF EndsAt
    <3>4. s + g <= s + g BY <1>1, SMT
    <3> QED BY <1>17, <2>11, <2>13, <3>1, <3>3, <3>4 DEF E
  <2> QED BY <2>14, <2>15
<1> QED BY <1>18, <1>19

-----------------------------------------------------------------------------
(* A partition that does not end with an FSIP is exact and ends with its    *)
(* managed pages when it is formatted.                                      *)
LEMMA FormattedInventory ==
  ASSUME NEW n \in 1 .. MaxSize, n - 1 \notin Fsips, growth \in Nat
  PROVE  Inventory(Formatted(n), [p \in Pages |-> 0], n) /\ EndsAt(Formatted(n), n)
<1> DEFINE fs == Formatted(n)
           ow == [p \in Pages |-> 0]
           k(p) == IF n - p - 1 > M THEN M ELSE n - p - 1
           l == FsipOf(n - 1)
<1>1. M \in Nat \ {0} /\ MaxSize \in Nat BY PartitionAssumption
<1>2. ow \in [Pages -> Nat] /\ \A x \in Pages : ow[x] = 0 OBVIOUS
<1>3. ASSUME NEW p \in Fsips
      PROVE  /\ fs[p] \in Header /\ ExactAt(fs[p], p, ow) /\ RoomAt(fs[p], p)
             /\ n - p > 1 => fs[p].managed = k(p)
  <2>1. p \in Nat /\ p <= MaxSize BY DEF Fsips, Pages
  <2>2. CASE n - p > 1
    <3>1. k(p) \in 1 .. M /\ p + k(p) <= MaxSize BY <1>1, <2>1, <2>2, SMT
    <3>2. fs[p] = NewFSIP(p, k(p)) BY <2>2 DEF Formatted
    <3> HIDE DEF k, fs, ow
    <3> QED BY <1>2, <3>1, <3>2, NewFSIPExact
  <2>3. CASE ~(n - p > 1)
    <3>1. fs[p] = Zeroed BY <2>3 DEF Formatted
    <3>2. Zeroed \in Header BY <1>1, SMT DEF Zeroed, Header, Pages, Bits
    <3>3. Zeroed.managed = 0 /\ Zeroed.free = 0 BY DEF Zeroed
    <3>4. p + 0 <= MaxSize /\ ~(0 > 0) BY <2>1, SMT
    <3> QED BY <2>3, <3>1, <3>2, <3>3, <3>4 DEF ExactAt, RoomAt
  <2> QED BY <2>2, <2>3
<1>4. fs \in [Fsips -> Header]
  <2>1. fs = [p \in Fsips |-> fs[p]] BY DEF Formatted
  <2> QED BY <1>3, <2>1
<1>5. \A x \in Pages : ~(ow[x] > 0) BY SMT
<1>6. Inventory(fs, ow, n) BY <1>2, <1>3, <1>4, <1>5 DEF Inventory, OwnedManaged
<1>7. /\ l \in Fsips /\ l \in Nat /\ l <= n - 1 /\ n - 1 <= l + M BY LastOf
<1> HIDE DEF l, fs
<1>8. n - l > 1 /\ l + 1 + k(l) = n /\ k(l) \in Nat /\ k(l) > 0 /\ n \in Nat BY <1>1, <1>7, SMT
<1>9. fs[l].managed = k(l) BY <1>3, <1>7, <1>8
<1>10. ASSUME NEW q \in Fsips, q < l PROVE fs[q].managed = M
  <2>1. q \in Nat /\ q + M + 1 <= l BY <1>7, <1>10, FsipsApart DEF Fsips, Pages
  <2>2. n - q > 1 /\ k(q) = M BY <1>1, <1>7, <2>1, SMT
  <2> QED BY <1>3, <2>2
<1>11. n <= l + 1 + k(l) /\ l + 1 + k(l) <= n + growth /\ l + k(l) < MaxSize
  <2> HIDE DEF k
  <2> QED BY <1>1, <1>7, <1>8, SMT
<1>12. EndsAt(fs, n) BY <1>8, <1>9, <1>10, <1>11 DEF EndsAt, l
<1> QED BY <1>6, <1>12 DEF fs

(* The sizes partitions are created with do not end with an FSIP.           *)
LEMMA CreatedEnds ==
  ASSUME NEW n \in 1 .. MaxSize, n \in 8 .. M \/ n \in Devices
  PROVE  n - 1 \notin Fsips
<1> USE PartitionAssumption
<1>1. SUFFICES ASSUME n - 1 \in Fsips PROVE FALSE OBVIOUS
<1>2. CASE n \in Devices
  <2> DEFINE k == M + 1
             a == (n - 1) \div k
  <2>1. k \in Nat \ {0} /\ 1 \in 0 .. k - 1 /\ n - 1 \in Nat BY SMT
  <2>2. (n - 1) % k = 0 BY <1>1 DEF Fsips
  <2>3. a \in Nat /\ n - 1 = k * a + ((n - 1) % k) BY <2>1, DivMod
  <2> HIDE DEF a
  <2>4. n - 1 = k * a
    <3>1. k * a \in Nat BY <2>1, <2>3, SMT
    <3> DEFINE ka == k * a
    <3> HIDE DEF ka
    <3>2. n - 1 = ka + 0 BY <2>2, <2>3 DEF ka
    <3>3. ka \in Nat BY <3>1 DEF ka
    <3>4. n - 1 = ka BY <3>2, <3>3, SMT
    <3> QED BY <3>4 DEF ka
  <2>5. n = k * a + 1 BY <2>4, SMT
  <2>6. n % k = 1 BY <2>1, <2>3, <2>5, RemainderIs
  <2> QED BY <1>2, <2>6
<1>3. CASE n \in 8 .. M
  <2>1. n - 1 \in Nat /\ n - 1 > 0 /\ n - 1 < M + 1 BY <1>3, SMT
  <2>2. (n - 1) % (M + 1) = 0 BY <1>1 DEF Fsips
  <2> QED BY <2>1, <2>2, SMT
<1> QED BY <1>2, <1>3

LEMMA FreeKept ==
  ASSUME Inventory(fsip, owners, size), NEW x \in Pages, owners[x] > 0, x <= M,
         fsip[0].free # 0 \/ ~(x > 1)
  PROVE  LET fs2 == [fsip EXCEPT ![0] = PutBack(@, x)]
             ow2 == [owners EXCEPT ![x] = @ - 1]
         IN  Inventory(fs2, ow2, size) /\ \A q \in Fsips : fs2[q].managed = fsip[q].managed
<1> DEFINE f == fsip[0]
           i == x - 1
           fs2 == [fsip EXCEPT ![0] = PutBack(@, x)]
           ow2 == [owners EXCEPT ![x] = @ - 1]
<1>1. 0 \in Fsips /\ x \in Nat /\ M \in Nat BY PartitionAssumption, SMT DEF Fsips, Pages
<1>2. fsip \in [Fsips -> Header] /\ owners \in [Pages -> Nat] /\ f \in Header
      /\ ExactAt(f, 0, owners) /\ RoomAt(f, 0)
  BY <1>1 DEF Inventory
<1>3. FsipOf(x) = 0 BY <1>1, FsipOfUnique, SMT
<1>4. owners[x] = 1 /\ x # 0 /\ x <= 0 + f.managed
  BY <1>1, <1>3 DEF Inventory, OwnedManaged
<1>5. f.managed \in Nat BY <1>2 DEF Header
<1>6. i \in 0 .. f.managed - 1 /\ x = 0 + 1 + i
  <2> DEFINE m == f.managed
  <2>1. m \in Nat /\ x <= 0 + m BY <1>4, <1>5
  <2> HIDE DEF m
  <2>2. i \in 0 .. m - 1 /\ x = 0 + 1 + i BY <1>1, <1>4, <2>1, SMT
  <2> QED BY <2>2 DEF m
<1>7. f.free # 0 \/ i = 0 BY <1>1, <1>4, SMT
<1> HIDE DEF f, i
<1>8. owners[0 + 1 + i] = 1 BY <1>4, <1>6
<1>9. /\ PutBack(f, 0 + 1 + i) \in Header /\ PutBack(f, 0 + 1 + i).managed = f.managed
      /\ ExactAt(PutBack(f, 0 + 1 + i), 0, [owners EXCEPT ![0 + 1 + i] = @ - 1])
      /\ RoomAt(PutBack(f, 0 + 1 + i), 0)
  BY <1>1, <1>2, <1>6, <1>7, <1>8, PutBackExact
<1>10. /\ PutBack(f, x) \in Header /\ PutBack(f, x).managed = f.managed
       /\ ExactAt(PutBack(f, x), 0, ow2) /\ RoomAt(PutBack(f, x), 0)
  BY <1>6, <1>9
<1>11. fs2 \in [Fsips -> Header] /\ fs2[0] = PutBack(f, x) BY <1>1, <1>2, <1>10 DEF f
<1>12. ow2 \in [Pages -> Nat] /\ ow2[x] = 0
  <2>1. owners[x] - 1 = 0 BY <1>4
  <2> QED BY <1>2, <2>1
<1>13. ASSUME NEW q \in Fsips
       PROVE  ExactAt(fs2[q], q, ow2) /\ RoomAt(fs2[q], q) /\ fs2[q].managed = fsip[q].managed
  <2>1. CASE q = 0 BY <1>10, <1>11, <2>1 DEF f
  <2>2. CASE q # 0
    <3>1. fs2[q] = fsip[q] BY <1>2, <2>2
    <3>2. \A y \in Pages : FsipOf(y) # 0 => ow2[y] = owners[y] BY <1>2, <1>3
    <3>3. ExactAt(fsip[q], q, owners) /\ RoomAt(fsip[q], q) BY DEF Inventory
    <3>4. ExactAt(fsip[q], q, ow2) BY <1>1, <1>2, <1>12, <2>2, <3>2, <3>3, OthersExact
    <3> QED BY <3>1, <3>3, <3>4
  <2> QED BY <2>1, <2>2
<1>14. ASSUME NEW y \in Pages, ow2[y] > 0
       PROVE  /\ ow2[y] = 1 /\ y \notin Fsips /\ FsipOf(y) < size
              /\ y <= FsipOf(y) + fs2[FsipOf(y)].managed
  <2>1. y # x BY <1>12, <1>14, SMT
  <2>2. ow2[y] = owners[y] BY <1>2, <2>1
  <2>3. fs2[FsipOf(y)].managed = fsip[FsipOf(y)].managed BY <1>13, FsipOfPage
  <2> QED BY <1>14, <2>2, <2>3 DEF Inventory, OwnedManaged
<1>15. Inventory(fs2, ow2, size) BY <1>11, <1>12, <1>13, <1>14 DEF Inventory, OwnedManaged
<1> QED BY <1>13, <1>15

-----------------------------------------------------------------------------
(* The segments release nothing but pages that the first FSIP manages and   *)
(* finds its next free page for, and no growth exceeds an FSIP.             *)
Benign == Releases \subseteq {"open"} /\ \A g \in Growths : g <= M

LEMMA InitIInv ==
  ASSUME Benign, Init
  PROVE  IInv
<1>1. M \in Nat \ {0} /\ MaxSize \in Nat /\ MaxReleases \in Nat BY PartitionAssumption
<1>2. size \in 1 .. MaxSize /\ (size \in 8 .. M \/ size \in Devices) /\ growth \in Growths \cup {0}
      /\ growth \in Nat
  <2>1. CASE InitFile
    <3>1. growth \in Growths /\ size = growth /\ growth <= M BY <2>1 DEF InitFile, Benign
    <3>2. growth \in 8 .. MaxSize BY <3>1, PartitionAssumption
    <3> QED BY <1>1, <3>1, <3>2, SMT
  <2>2. CASE InitRaw
    <3>1. growth = 0 /\ size \in Devices BY <2>2 DEF InitRaw
    <3> QED BY <3>1, PartitionAssumption
  <2> QED BY <2>1, <2>2 DEF Init
<1>3. size - 1 \notin Fsips BY <1>2, CreatedEnds
<1>4. Inventory(fsip, owners, size) /\ EndsAt(fsip, size)
  BY <1>2, <1>3, FormattedInventory DEF Init
<1>5. size <= fileSize /\ fileSize = size /\ 0 \in 0 .. MaxReleases BY <1>1, <1>2, SMT DEF Init
<1> QED BY <1>2, <1>4, <1>5 DEF Init, IInv

LEMMA AllocKept ==
  ASSUME IInv, Alloc
  PROVE  IInv'
<1> DEFINE p == Lowest(WithRoom(fsip, size))
           page == fsip[p].next + 1 + fsip[p].at
<1>1. Inventory(fsip, owners, size) /\ WithRoom(fsip, size) # {} /\ size \in Nat /\ size \in 1 .. MaxSize
      /\ fileSize \in 1 .. MaxSize
  BY DEF IInv, Alloc
<1>2. fsip' = [fsip EXCEPT ![p] = NewPage(@)] /\ owners' = [owners EXCEPT ![page] = @ + 1]
      /\ UNCHANGED <<growth, size, fileSize, damaged, releases>>
  BY DEF Alloc, HandOut
<1>3. Inventory(fsip', owners', size) /\ \A q \in Fsips : fsip'[q].managed = fsip[q].managed
  <2>1. p = Lowest(WithRoom(fsip, size)) /\ page = fsip[p].next + 1 + fsip[p].at OBVIOUS
  <2> HIDE DEF p, page
  <2>2. /\ Inventory([fsip EXCEPT ![p] = NewPage(@)], [owners EXCEPT ![page] = @ + 1], size)
        /\ \A q \in Fsips : [fsip EXCEPT ![p] = NewPage(@)][q].managed = fsip[q].managed
    BY <1>1, <2>1, HandOutKept
  <2> QED BY <1>2, <2>2
<1>4. EndsAt(fsip', size) /\ EndsAt(fsip', fileSize) BY <1>1, <1>3, EndsKept DEF IInv
<1>5. EndsAt(fsip, size)' /\ EndsAt(fsip, fileSize)' BY <1>2, <1>4 DEF EndsAt
<1>6. Inventory(fsip, owners, size)' BY <1>2, <1>3 DEF Inventory, OwnedManaged
<1> QED BY <1>2, <1>5, <1>6 DEF IInv

LEMMA GrowingKept ==
  ASSUME Benign, IInv, AllocGrowing
  PROVE  IInv'
<1> DEFINE E == Extended
           p == Lowest(WithRoom(E, size + growth))
           page == E[p].next + 1 + E[p].at
<1>1. growth <= M
  <2>1. growth \in Growths BY DEF AllocGrowing, Resize, IInv
  <2> QED BY <2>1 DEF Benign
<1>2. /\ size' = size + growth /\ Inventory(E, owners, size')
      /\ EndsAt(E, size') /\ EndsAt(E, fileSize')
      /\ size' \in 1 .. MaxSize /\ fileSize' \in 1 .. MaxSize /\ size' <= fileSize'
  BY <1>1, ResizeKept DEF AllocGrowing
<1>3. UNCHANGED <<growth, damaged, releases>> /\ growth # 0 BY DEF AllocGrowing, HandOut, Resize
<1>4. Inventory(fsip', owners', size') /\ \A q \in Fsips : fsip'[q].managed = E[q].managed
  <2>1. CASE WithRoom(E, size + growth) # {}
    <3>1. fsip' = [E EXCEPT ![p] = NewPage(@)] /\ owners' = [owners EXCEPT ![page] = @ + 1]
      BY <2>1 DEF AllocGrowing, HandOut
    <3>2. WithRoom(E, size') # {} /\ p = Lowest(WithRoom(E, size')) /\ size' \in Nat BY <1>2, <2>1
    <3>3. page = E[p].next + 1 + E[p].at OBVIOUS
    <3> HIDE DEF E, p, page
    <3>4. /\ Inventory([E EXCEPT ![p] = NewPage(@)], [owners EXCEPT ![page] = @ + 1], size')
          /\ \A q \in Fsips : [E EXCEPT ![p] = NewPage(@)][q].managed = E[q].managed
      BY <1>2, <3>2, <3>3, HandOutKept
    <3> QED BY <3>1, <3>4
  <2>2. CASE WithRoom(E, size + growth) = {}
    <3>1. fsip' = E /\ owners' = owners BY <2>2 DEF AllocGrowing
    <3> QED BY <1>2, <3>1
  <2> QED BY <2>1, <2>2
<1>5. EndsAt(fsip', size') /\ EndsAt(fsip', fileSize') BY <1>2, <1>4, EndsKept
<1>6. EndsAt(fsip, size)' /\ EndsAt(fsip, fileSize)' BY <1>3, <1>5 DEF EndsAt
<1>7. Inventory(fsip, owners, size)' BY <1>4 DEF Inventory, OwnedManaged
<1> QED BY <1>2, <1>3, <1>6, <1>7 DEF IInv

LEMMA RemoveKept ==
  ASSUME IInv, Remove
  PROVE  IInv'
<1> DEFINE l == FsipOf(size - 1)
           m == fsip[l].managed
<1>1. /\ growth = 0 /\ size \in 1 .. MaxSize /\ fileSize = size /\ growth \in Nat
      /\ fsip' = Formatted(size) /\ owners' = [p \in Pages |-> 0]
      /\ UNCHANGED <<growth, size, fileSize, damaged, releases>>
  BY DEF IInv, Remove
<1>2. size - 1 \notin Fsips
  <2>1. SUFFICES ASSUME size - 1 \in Fsips PROVE FALSE OBVIOUS
  <2>2. l \in Fsips /\ l \in Nat BY <1>1, LastOf
  <2>3. m \in Nat /\ m > 0 /\ l + 1 + m <= size + growth
    BY <2>2 DEF IInv, EndsAt, Inventory, Header
  <2>4. size - 1 \in Pages /\ size - 1 <= size - 1 /\ size - 1 <= size - 1 + M
    BY <1>1, PartitionAssumption, SMT DEF Pages
  <2>5. l = size - 1 BY <2>1, <2>4, FsipOfUnique
  <2> HIDE DEF l, m
  <2> QED BY <1>1, <2>2, <2>3, <2>5, SMT
<1>3. Inventory(fsip', owners', size) /\ EndsAt(fsip', size) BY <1>1, <1>2, FormattedInventory
<1>4. Inventory(fsip, owners, size)' BY <1>1, <1>3 DEF Inventory, OwnedManaged
<1>5. EndsAt(fsip, size)' /\ EndsAt(fsip, fileSize)' BY <1>1, <1>3 DEF EndsAt
<1> QED BY <1>1, <1>4, <1>5 DEF IInv

LEMMA WriteKept ==
  ASSUME IInv, NEW x \in Pages, WriteBehindEnd(x)
  PROVE  IInv'
<1> DEFINE l == FsipOf(size - 1)
           m == fsip[l].managed
           a == FsipOf(x)
<1>1. /\ owners[x] > 0 /\ x >= fileSize /\ fileSize' = x + 1
      /\ UNCHANGED <<growth, size, fsip, owners, damaged, releases>>
      /\ size \in 1 .. MaxSize /\ fileSize \in 1 .. MaxSize /\ size <= fileSize /\ x \in Nat
      /\ M \in Nat /\ MaxSize \in Nat /\ growth \in Nat /\ growth >= 0
  <2>1. growth \in Nat /\ growth >= 0
    <3>1. growth \in (8 .. MaxSize) \cup {0} BY PartitionAssumption DEF IInv
    <3> QED BY <3>1, PartitionAssumption, SMT
  <2> QED BY <2>1, PartitionAssumption DEF IInv, WriteBehindEnd, Pages
<1>2. l \in Fsips /\ l \in Nat /\ l <= size - 1 /\ size - 1 <= l + M BY <1>1, LastOf
<1>3. m \in Nat /\ m <= M /\ m > 0 /\ l + m < MaxSize /\ size <= l + 1 + m
      /\ l + 1 + m <= size + growth /\ \A q \in Fsips : q < l => fsip[q].managed = M
  BY <1>2, SMT DEF IInv, EndsAt, Inventory, Header
<1>4. x <= l + m
  <2>1. ~(x > l + m) BY <1>1, BehindLast, SMT DEF IInv
  <2> HIDE DEF l, m
  <2> QED BY <1>1, <1>2, <1>3, <2>1, SMT
<1>5. a = l
  <2>1. l <= x /\ x <= l + M
    <3> HIDE DEF l, m
    <3> QED BY <1>1, <1>2, <1>3, <1>4, SMT
  <2> QED BY <1>2, <2>1, FsipOfUnique
<1>6. EndsAt(fsip, x + 1)
  <2>1. (x + 1) - 1 = x BY <1>1, SMT
  <2>2. x + 1 <= l + 1 + m /\ l + 1 + m <= x + 1 + growth
    <3> HIDE DEF l, m
    <3> QED BY <1>1, <1>2, <1>3, <1>4, SMT
  <2>3. FsipOf((x + 1) - 1) = l BY <1>5, <2>1
  <2> HIDE DEF l
  <2> QED BY <1>3, <2>2, <2>3 DEF EndsAt
<1>7. x + 1 \in 1 .. MaxSize /\ size <= x + 1
  <2> HIDE DEF l, m
  <2> QED BY <1>1, <1>2, <1>3, <1>4, SMT
<1>8. growth # 0
  <2>1. growth = 0 => fileSize = size BY DEF IInv
  <2> HIDE DEF l, m
  <2> QED BY <1>1, <1>2, <1>3, <1>4, <2>1, SMT
<1>9. EndsAt(fsip, size)' /\ EndsAt(fsip, fileSize)' BY <1>1, <1>6 DEF EndsAt, IInv
<1>10. Inventory(fsip, owners, size)' BY <1>1 DEF Inventory, OwnedManaged, IInv
<1> QED BY <1>1, <1>7, <1>8, <1>9, <1>10 DEF IInv

LEMMA ReopenKept ==
  ASSUME IInv, Reopen
  PROVE  IInv'
<1>1. /\ size' = fileSize /\ UNCHANGED <<growth, fileSize, fsip, owners, damaged, releases>>
      /\ size \in 1 .. MaxSize /\ fileSize \in 1 .. MaxSize /\ size <= fileSize
  BY DEF IInv, Reopen
<1>2. OwnedManaged(fsip, owners, fileSize)
  <2>1. ASSUME NEW x \in Pages, owners[x] > 0, FsipOf(x) < size PROVE FsipOf(x) < fileSize
    <3>1. FsipOf(x) \in Nat BY FsipOfPage DEF Fsips, Pages
    <3> QED BY <1>1, <2>1, <3>1, PartitionAssumption, SMT
  <2> QED BY <2>1 DEF IInv, Inventory, OwnedManaged
<1>3. Inventory(fsip, owners, size)' BY <1>1, <1>2 DEF Inventory, OwnedManaged, IInv
<1>4. EndsAt(fsip, size)' /\ EndsAt(fsip, fileSize)' BY <1>1 DEF EndsAt, IInv
<1>5. fileSize <= fileSize BY <1>1, SMT
<1> QED BY <1>1, <1>3, <1>4, <1>5 DEF IInv

LEMMA ReleaseKept ==
  ASSUME Benign, IInv, NEW x \in Pages, Free(x)
  PROVE  IInv'
<1>1. /\ owners[x] > 0 /\ releases < MaxReleases /\ ReleaseKind(x) = "open"
      /\ releases' = releases + 1 /\ owners' = [owners EXCEPT ![x] = @ - 1]
      /\ UNCHANGED <<growth, size, fileSize>>
  BY DEF Free, Benign
<1>2. x <= M /\ (fsip[0].free # 0 \/ ~(x > 1))
  <2>1. x \in Nat /\ M \in Nat BY PartitionAssumption DEF Pages
  <2>2. ~(x > M) /\ ~(fsip[0].free = 0 /\ x > 1) BY <1>1 DEF ReleaseKind
  <2> QED BY <2>1, <2>2, SMT
<1>3. (x \div (M + 1)) * M = 0 /\ 0 \in Fsips
  <2>1. x \in Nat /\ x < M + 1 /\ M \in Nat BY <1>2, PartitionAssumption, SMT DEF Pages
  <2>2. x \div (M + 1) = 0 BY <2>1, SMT
  <2>3. 0 \in Fsips BY <2>1, PartitionAssumption, SMT DEF Fsips, Pages
  <2> QED BY <2>1, <2>2, <2>3, SMT
<1>4. fsip' = [fsip EXCEPT ![0] = PutBack(@, x)] /\ UNCHANGED damaged BY <1>3 DEF Free
<1>5. Inventory(fsip', owners', size) /\ \A q \in Fsips : fsip'[q].managed = fsip[q].managed
  BY <1>1, <1>2, <1>4, FreeKept DEF IInv
<1>6. size \in 1 .. MaxSize /\ fileSize \in 1 .. MaxSize BY DEF IInv
<1>7. EndsAt(fsip', size) /\ EndsAt(fsip', fileSize) BY <1>5, <1>6, EndsKept DEF IInv
<1>8. EndsAt(fsip, size)' /\ EndsAt(fsip, fileSize)' BY <1>1, <1>7 DEF EndsAt
<1>9. Inventory(fsip, owners, size)' BY <1>1, <1>5 DEF Inventory, OwnedManaged
<1>10. releases' \in 0 .. MaxReleases BY <1>1, PartitionAssumption, SMT DEF IInv
<1> QED BY <1>1, <1>4, <1>8, <1>9, <1>10 DEF IInv

(* The inventory stays exact and the sizes stay where it ends, whatever is  *)
(* allocated, released, written behind the end, reopened or removed.        *)
LEMMA IInvariant ==
  ASSUME Benign
  PROVE  Spec => []IInv
<1>1. Init => IInv BY InitIInv
<1>2. IInv /\ [Next]_vars => IInv'
  <2> SUFFICES ASSUME IInv, [Next]_vars PROVE IInv' OBVIOUS
  <2>1. CASE Alloc BY <2>1, AllocKept
  <2>2. CASE AllocGrowing BY <2>2, GrowingKept
  <2>3. CASE Remove BY <2>3, RemoveKept
  <2>4. CASE Reopen BY <2>4, ReopenKept
  <2>5. ASSUME NEW x \in Pages, WriteBehindEnd(x) PROVE IInv' BY <2>5, WriteKept
  <2>6. ASSUME NEW x \in Pages, Free(x) PROVE IInv' BY <2>6, ReleaseKept
  <2>7. CASE UNCHANGED vars
    <3>1. UNCHANGED <<growth, size, fileSize, fsip, owners, damaged, releases>> BY <2>7 DEF vars
    <3>2. EndsAt(fsip, size)' /\ EndsAt(fsip, fileSize)' BY <3>1 DEF EndsAt, IInv
    <3>3. Inventory(fsip, owners, size)' BY <3>1 DEF Inventory, OwnedManaged, IInv
    <3> QED BY <3>1, <3>2, <3>3 DEF IInv
  <2> QED BY <2>1, <2>2, <2>3, <2>4, <2>5, <2>6, <2>7 DEF Next, AtBound, Refused
<1> QED BY <1>1, <1>2, PTL DEF Spec

-----------------------------------------------------------------------------
(* The state of a partition has its type; sizes stay within the bound.      *)
THEOREM PartitionTypeOK ==
  ASSUME Benign
  PROVE  Spec => []TypeOK
<1>1. IInv => TypeOK
  <2>1. 1 .. MaxSize \subseteq Pages BY PartitionAssumption, SMT DEF Pages
  <2> QED BY <2>1 DEF IInv, TypeOK, Inventory
<1> QED BY <1>1, IInvariant, PTL

(* A page is handed out to one owner at a time, and no FSIP is (allocPage,  *)
(* getNewPage, freePage, grow).                                             *)
THEOREM PartitionOwners ==
  ASSUME Benign
  PROVE  Spec => []HandedOutOnce
<1>1. IInv => HandedOutOnce
  <2> SUFFICES ASSUME IInv, NEW x \in Pages
               PROVE  owners[x] <= IF x \in Fsips THEN 0 ELSE 1
    BY DEF HandedOutOnce
  <2>1. owners[x] \in Nat /\ (owners[x] > 0 => owners[x] = 1 /\ x \notin Fsips)
    BY DEF IInv, Inventory, OwnedManaged
  <2> QED BY <2>1, SMT
<1> QED BY <1>1, IInvariant, PTL

(* The bits of an FSIP, its count and its next free page say what is in use *)
(* (initNewFSIP, getNewPage, freePage, grow).                               *)
THEOREM PartitionFsips ==
  ASSUME Benign
  PROVE  Spec => []FsipExact
<1>1. IInv => FsipExact BY DEF IInv, Inventory, ExactAt, Clear, FsipExact
<1> QED BY <1>1, IInvariant, PTL

(* Growing a file loses no page of it (create, format, allocPage, grow).    *)
THEOREM PartitionManaged ==
  ASSUME Benign
  PROVE  Spec => []PagesManaged
<1>1. IInv => PagesManaged
  <2> SUFFICES ASSUME IInv, NEW x \in 0 .. size - 1
               PROVE  x <= FsipOf(x) + fsip[FsipOf(x)].managed
    BY DEF PagesManaged
  <2> DEFINE l == FsipOf(size - 1)
             m == fsip[l].managed
             a == FsipOf(x)
  <2>1. size \in 1 .. MaxSize /\ M \in Nat /\ MaxSize \in Nat BY PartitionAssumption DEF IInv
  <2>2. x \in Pages /\ x \in Nat /\ x < size BY <2>1, SMT DEF Pages
  <2>3. l \in Fsips /\ l \in Nat /\ \A q \in Fsips : q < size => q <= l BY <2>1, LastOf
  <2>4. a \in Fsips /\ a \in Nat /\ a <= x /\ x <= a + M BY <2>2, FsipOfPage DEF Fsips, Pages
  <2>5. a <= l
    <3>1. a < size
      <4> HIDE DEF a
      <4> QED BY <2>1, <2>2, <2>4, SMT
    <3> QED BY <2>3, <2>4, <3>1
  <2>6. size <= l + 1 + m /\ m \in Nat /\ \A q \in Fsips : q < l => fsip[q].managed = M
    BY <2>3 DEF IInv, EndsAt, Inventory, Header
  <2>7. CASE a = l
    <3>1. x <= l + m
      <4> HIDE DEF l, m
      <4> QED BY <2>1, <2>2, <2>3, <2>6, SMT
    <3> QED BY <2>7, <3>1
  <2>8. CASE a # l
    <3>1. a < l
      <4> HIDE DEF a, l
      <4> QED BY <2>3, <2>4, <2>5, <2>8, SMT
    <3> QED BY <2>4, <2>6, <3>1
  <2> QED BY <2>7, <2>8
<1> QED BY <1>1, IInvariant, PTL

(* Growing a file cuts off no page in use, however often it grew and        *)
(* however far its pages lie behind _sizeInPages by then (allocPage).       *)
THEOREM PartitionGrowth ==
  ASSUME Benign
  PROVE  Spec => GrowthKeepsPages
<1> DEFINE Kept == \A p \in Pages : owners[p] > 0 /\ p < fileSize => p < fileSize'
<1>1. IInv /\ [Next]_vars => [Kept]_vars
  <2> SUFFICES ASSUME IInv, Next PROVE Kept BY DEF vars
  <2>1. CASE Alloc \/ Refused \/ AtBound \/ Remove \/ Reopen
    <3>1. fileSize' = fileSize BY <2>1 DEF Alloc, Refused, AtBound, Remove, Reopen, vars
    <3> QED BY <3>1
  <2>2. CASE AllocGrowing
    <3>1. growth \in Growths BY <2>2 DEF AllocGrowing, Resize, IInv
    <3>2. growth <= M /\ Resize BY <2>2, <3>1 DEF Benign, AllocGrowing
    <3> QED BY <3>2, ResizeKept
  <2>3. ASSUME NEW x \in Pages, WriteBehindEnd(x) PROVE Kept
    <3>1. fileSize' = x + 1 /\ x >= fileSize /\ x \in Nat /\ fileSize \in 1 .. MaxSize
      BY <2>3 DEF WriteBehindEnd, IInv, Pages
    <3> QED BY <3>1, PartitionAssumption, SMT DEF Pages
  <2>4. ASSUME NEW x \in Pages, Free(x) PROVE Kept
    <3>1. fileSize' = fileSize BY <2>4 DEF Free
    <3> QED BY <3>1
  <2> QED BY <2>1, <2>2, <2>3, <2>4 DEF Next
<1>2. Spec => [][Kept]_vars BY <1>1, IInvariant, PTL DEF Spec
<1> QED BY <1>2 DEF GrowthKeepsPages
=============================================================================
