------------------------ MODULE BufferManagerProofs -------------------------
(***************************************************************************)
(* Proofs about BufferManager for any number of clients, pages, frames and *)
(* control blocks: its lists, its types and its latches.                   *)
(***************************************************************************)
EXTENDS BufferManager, FiniteSetTheorems, TLAPS

-----------------------------------------------------------------------------
(***************************************************************************)
(* Lists of control blocks.  What Reached computes is the least set that   *)
(* is closed under _nextInChain; and what putting a block in front of a    *)
(* list, taking the first one off and taking one out of its middle do to   *)
(* that set.                                                               *)
(***************************************************************************)

(* Induction over the natural numbers, for sets. *)
LEMMA Smaller ==
  \E R : IsWellFoundedOn(R, Nat) /\ \A i, j \in Nat : i < j => <<i, j>> \in R
<1>1. IsWellFoundedOn(OpToRel(<, Nat), Nat)
  BY NatLessThanWellFounded
<1>2. \A i, j \in Nat : i < j => <<i, j>> \in OpToRel(<, Nat)
  BY DEF OpToRel
<1>3. QED
  BY <1>1, <1>2

LEMMA Least ==
  ASSUME NEW T \in SUBSET Nat, NEW t \in T
  PROVE  \E x \in T : \A y \in T : x <= y
<1>1. PICK R : IsWellFoundedOn(R, Nat) /\ \A i, j \in Nat : i < j => <<i, j>> \in R
  BY Smaller
<1>2. T # {} /\ T \subseteq Nat
  OBVIOUS
<1>3. IsWellFoundedOn(R, Nat)
  BY <1>1
<1>4. \E x \in T : \A y \in T : ~ (<<y, x>> \in R)
  BY ONLY <1>2, <1>3, WFMin
<1>5. PICK x \in T : \A y \in T : ~ (<<y, x>> \in R)
  BY <1>4
<1>6. ASSUME NEW y \in T PROVE x <= y
  <2>1. x \in Nat /\ y \in Nat /\ ~ (<<y, x>> \in R)
    BY <1>2, <1>5
  <2>2. QED
    BY <1>1, <2>1
<1>7. QED
  BY <1>6

LEMMA Induction ==
  ASSUME NEW S \in SUBSET Nat, 0 \in S, \A n \in S : n + 1 \in S
  PROVE  S = Nat
<1> SUFFICES ASSUME S # Nat PROVE FALSE
  OBVIOUS
<1>1. PICK x \in Nat \ S : \A y \in Nat \ S : x <= y
  <2>1. PICK t : t \in Nat \ S
    OBVIOUS
  <2>2. Nat \ S \in SUBSET Nat
    OBVIOUS
  <2>3. QED
    BY <2>1, <2>2, Least
<1>2. x - 1 \in S /\ x - 1 + 1 = x
  BY <1>1
<1>3. QED
  BY <1>1, <1>2

-----------------------------------------------------------------------------
Ends  == BCBs \cup {NoBCB}
Links == [BCBs -> Ends]

(* The recursion of Reached, for any links. *)
Walked(nx, f, k) ==
  [d \in Ends |-> IF k = 0 \/ d = NoBCB THEN {} ELSE {d} \cup f[k - 1][nx[d]]]
Walks(nx, n, f) == f = [k \in 0 .. n |-> Walked(nx, f, k)]

LEMMA WalksExist == ASSUME NEW nx \in Links PROVE \A n \in Nat : \E f : Walks(nx, n, f)
<1> DEFINE S == {n \in Nat : \E f : Walks(nx, n, f)}
<1>1. 0 \in S
  <2> DEFINE f == [k \in 0 .. 0 |-> [d \in Ends |-> {}]]
  <2>1. \A k \in 0 .. 0 : f[k] = Walked(nx, f, k)
    BY DEF Walked
  <2>2. f = [k \in 0 .. 0 |-> Walked(nx, f, k)]
    BY <2>1
  <2>3. QED
    BY <2>2 DEF Walks
<1>2. ASSUME NEW n \in S PROVE n + 1 \in S
  <2>1. PICK f : Walks(nx, n, f)
    OBVIOUS
  <2> DEFINE g == [k \in 0 .. n + 1 |-> IF k = n + 1 THEN Walked(nx, f, k) ELSE f[k]]
  <2>2. ASSUME NEW k \in 0 .. n + 1 PROVE g[k] = Walked(nx, g, k)
    <3>1. g[k] = Walked(nx, f, k)
      BY <2>1 DEF Walks
    <3>2. k # 0 => k - 1 \in 0 .. n /\ k - 1 # n + 1
      OBVIOUS
    <3>3. k # 0 => g[k - 1] = f[k - 1]
      BY <3>2
    <3> HIDE DEF g
    <3>4. QED
      BY <3>1, <3>3 DEF Walked
  <2>3. g = [k \in 0 .. n + 1 |-> Walked(nx, g, k)]
    <3> HIDE DEF Walked
    <3>1. QED
      BY <2>2
  <2> HIDE DEF g
  <2>4. QED
    BY <2>3 DEF Walks
<1>3. S = Nat
  <2> HIDE DEF S
  <2>1. S \in SUBSET Nat
    BY DEF S
  <2>2. QED
    BY <1>1, <1>2, <2>1, Induction
<1>4. QED
  BY <1>3

LEMMA ReachedWalks == next \in Links => Walks(next, NoBCBs, Reached)
<1> SUFFICES ASSUME next \in Links PROVE Walks(next, NoBCBs, Reached)
  OBVIOUS
<1>1. \E f : Walks(next, NoBCBs, f)
  BY WalksExist, BufferAssumption
<1>2. Reached = CHOOSE f : Walks(next, NoBCBs, f)
  BY DEF Reached, Walks, Walked, Ends
<1>3. QED
  BY <1>1, <1>2

-----------------------------------------------------------------------------
(* A set of BCBs that no pointer leaves, and the least one with b in it.    *)
Closed(nx, S) == \A d \in S : nx[d] \in S \cup {NoBCB}
Members(nx, b) ==
  {d \in BCBs : b # NoBCB /\ \A S \in SUBSET BCBs : b \in S /\ Closed(nx, S) => d \in S}

(* S is d and what follows it, k BCBs, all different. *)
Line(nx, d, k, S) ==
  \E s \in [1 .. k -> BCBs] :
    /\ s[1] = d /\ S = {s[i] : i \in 1 .. k}
    /\ \A i \in 1 .. k - 1 : nx[s[i]] = s[i + 1]
    /\ \A i, j \in 1 .. k : s[i] = s[j] => i = j

LEMMA LineGrows ==
  ASSUME NEW nx \in Links, NEW k \in Nat \ {0}, NEW d \in BCBs, NEW e \in BCBs, nx[d] = e,
         NEW T, Line(nx, e, k, T)
  PROVE  Closed(nx, {d} \cup T) \/ Line(nx, d, k + 1, {d} \cup T)
<1>1. PICK s \in [1 .. k -> BCBs] :
        /\ s[1] = e /\ T = {s[i] : i \in 1 .. k}
        /\ \A i \in 1 .. k - 1 : nx[s[i]] = s[i + 1]
        /\ \A i, j \in 1 .. k : s[i] = s[j] => i = j
  BY DEF Line
<1>2. CASE d \notin T
  <2> DEFINE t == [i \in 1 .. k + 1 |-> IF i = 1 THEN d ELSE s[i - 1]]
  <2>1. t \in [1 .. k + 1 -> BCBs] /\ t[1] = d
    OBVIOUS
  <2>2. \A i \in 1 .. k : t[i + 1] = s[i]
    OBVIOUS
  <2>3. {d} \cup T = {t[i] : i \in 1 .. k + 1}
    <3>1. ASSUME NEW x \in {d} \cup T PROVE \E i \in 1 .. k + 1 : x = t[i]
      <4>1. CASE x = d
        BY <4>1, <2>1
      <4>2. CASE x \in T
        <5>1. PICK i \in 1 .. k : x = s[i]
          BY <4>2, <1>1
        <5>2. i + 1 \in 1 .. k + 1 /\ t[i + 1] = x
          BY <5>1, <2>2
        <5>3. QED
          BY <5>2
      <4>3. QED
        BY <4>1, <4>2
    <3>2. ASSUME NEW i \in 1 .. k + 1 PROVE t[i] \in {d} \cup T
      <4>1. i # 1 => i - 1 \in 1 .. k
        OBVIOUS
      <4>2. QED
        BY <4>1, <1>1
    <3>3. QED
      BY <3>1, <3>2
  <2>4. ASSUME NEW i \in 1 .. (k + 1) - 1 PROVE nx[t[i]] = t[i + 1]
    <3>1. CASE i = 1
      BY <3>1, <2>1, <2>2, <1>1
    <3>2. CASE i # 1
      <4>1. i - 1 \in 1 .. k - 1 /\ t[i] = s[i - 1] /\ t[i + 1] = s[i] /\ (i - 1) + 1 = i
        BY <3>2, <2>2
      <4>2. QED
        BY <4>1, <1>1
    <3>3. QED
      BY <3>1, <3>2
  <2>5. ASSUME NEW i \in 1 .. k + 1, NEW j \in 1 .. k + 1, t[i] = t[j] PROVE i = j
    <3>1. i # 1 => i - 1 \in 1 .. k /\ t[i] = s[i - 1]
      OBVIOUS
    <3>2. j # 1 => j - 1 \in 1 .. k /\ t[j] = s[j - 1]
      OBVIOUS
    <3>3. \A x \in 1 .. k : s[x] # d
      BY <1>1, <1>2
    <3> HIDE DEF t
    <3>4. i # 1 /\ j # 1 => i - 1 = j - 1
      BY <1>1, <2>5, <3>1, <3>2
    <3>5. QED
      BY <2>1, <2>5, <3>1, <3>2, <3>3, <3>4
  <2>6. QED
    <3> HIDE DEF t
    <3>1. QED
      BY <2>1, <2>3, <2>4, <2>5 DEF Line
<1>3. CASE d \in T
  <2>1. PICK j \in 1 .. k : d = s[j]
    BY <1>1, <1>3
  <2>2. j = k
    <3> SUFFICES ASSUME j # k PROVE FALSE
      OBVIOUS
    <3>1. j \in 1 .. k - 1 /\ j + 1 \in 1 .. k /\ 1 \in 1 .. k
      OBVIOUS
    <3>2. s[j + 1] = s[1]
      BY <3>1, <1>1, <2>1
    <3>3. j + 1 = 1
      BY <3>1, <3>2, <1>1
    <3>4. QED
      BY <3>3
  <2>3. ASSUME NEW x \in T PROVE nx[x] \in T
    <3>1. PICK i \in 1 .. k : x = s[i]
      BY <1>1
    <3>2. CASE i = k
      <4>1. x = d /\ e = s[1] /\ 1 \in 1 .. k
        BY <3>1, <3>2, <2>1, <2>2, <1>1
      <4>2. QED
        BY <4>1, <1>1
    <3>3. CASE i # k
      <4>1. i \in 1 .. k - 1 /\ i + 1 \in 1 .. k
        BY <3>3
      <4>2. QED
        BY <4>1, <3>1, <1>1
    <3>4. QED
      BY <3>2, <3>3
  <2>4. QED
    BY <1>3, <2>3 DEF Closed
<1>4. QED
  BY <1>2, <1>3

(* The values of a walk, one pointer at a time.                             *)
Grows(nx, f) ==
  /\ \A d \in Ends : f[0][d] = {}
  /\ \A k \in 0 .. NoBCBs : f[k][NoBCB] = {}
  /\ \A n \in Nat : n + 1 \in 0 .. NoBCBs =>
       \A d \in BCBs : f[n + 1][d] = {d} \cup f[n][nx[d]]

LEMMA WalkStep ==
  ASSUME NEW nx \in Links, NEW f, Walks(nx, NoBCBs, f)
  PROVE  Grows(nx, f)
<1>1. ASSUME NEW k \in 0 .. NoBCBs PROVE f[k] = Walked(nx, f, k)
  <2> HIDE DEF Walked
  <2>1. QED
    BY DEF Walks
<1>2. 0 \in 0 .. NoBCBs
  BY BufferAssumption
<1>3. NoBCB \in Ends /\ \A d \in BCBs : d \in Ends /\ d # NoBCB
  BY DEF Ends, BCBs, NoBCB
<1>4. ASSUME NEW n \in Nat, n + 1 \in 0 .. NoBCBs, NEW d \in BCBs
      PROVE  f[n + 1][d] = {d} \cup f[n][nx[d]]
  <2>1. n + 1 # 0 /\ (n + 1) - 1 = n
    OBVIOUS
  <2>2. f[n + 1][d] = Walked(nx, f, n + 1)[d]
    BY <1>1, <1>4
  <2>3. Walked(nx, f, n + 1)[d] = {d} \cup f[(n + 1) - 1][nx[d]]
    BY <1>3, <2>1 DEF Walked
  <2>4. QED
    BY <2>1, <2>2, <2>3
<1>5. QED
  BY <1>1, <1>2, <1>3, <1>4 DEF Walked, Grows

LEMMA WalkClosedOrLine ==
  ASSUME NEW nx \in Links, NEW f, Walks(nx, NoBCBs, f)
  PROVE  \A k \in 1 .. NoBCBs : \A d \in BCBs : Closed(nx, f[k][d]) \/ Line(nx, d, k, f[k][d])
<1> DEFINE Good(k) == \A d \in BCBs : Closed(nx, f[k][d]) \/ Line(nx, d, k, f[k][d])
           S == {n \in Nat : n \in 1 .. NoBCBs => Good(n)}
<1>0. Grows(nx, f)
  BY WalkStep
<1>1. /\ \A d \in Ends : f[0][d] = {}
      /\ \A k \in 0 .. NoBCBs : f[k][NoBCB] = {}
      /\ \A n \in Nat : n + 1 \in 0 .. NoBCBs =>
           \A d \in BCBs : f[n + 1][d] = {d} \cup f[n][nx[d]]
  BY <1>0 DEF Grows
<1>2. 0 \in S
  OBVIOUS
<1>3. ASSUME NEW n \in S PROVE n + 1 \in S
  <2> SUFFICES ASSUME n + 1 \in 1 .. NoBCBs, NEW d \in BCBs
               PROVE  Closed(nx, f[n + 1][d]) \/ Line(nx, d, n + 1, f[n + 1][d])
    OBVIOUS
  <2>1. f[n + 1][d] = {d} \cup f[n][nx[d]] /\ n \in 0 .. NoBCBs /\ nx[d] \in Ends
    <3>1. n \in Nat /\ n + 1 \in 0 .. NoBCBs /\ n \in 0 .. NoBCBs
      BY BufferAssumption
    <3>2. nx[d] \in Ends
      BY DEF Links
    <3>3. QED
      BY <1>1, <3>1, <3>2
  <2>2. CASE nx[d] = NoBCB
    <3>1. f[n][nx[d]] = {}
      BY <1>1, <2>1, <2>2
    <3>2. QED
      BY <2>1, <2>2, <3>1 DEF Closed
  <2>3. CASE n = 0
    <3>1. f[n + 1][d] = {d}
      BY <1>1, <2>1, <2>3
    <3> DEFINE s == [i \in 1 .. 1 |-> d]
    <3>2. s \in [1 .. 1 -> BCBs] /\ s[1] = d /\ {s[i] : i \in 1 .. 1} = {d}
          /\ (\A i \in 1 .. 1 - 1 : nx[s[i]] = s[i + 1]) /\ (\A i, j \in 1 .. 1 : i = j)
      OBVIOUS
    <3> HIDE DEF s
    <3>3. Line(nx, d, 1, {d})
      BY <3>2 DEF Line
    <3>4. QED
      BY <2>3, <3>1, <3>3
  <2>4. CASE n # 0 /\ nx[d] # NoBCB
    <3>1. nx[d] \in BCBs /\ n \in 1 .. NoBCBs /\ n \in Nat \ {0}
      BY <2>1, <2>4 DEF Ends
    <3>2. Good(n)
      BY <3>1
    <3>3. CASE Closed(nx, f[n][nx[d]])
      <4>1. nx[d] \in f[n][nx[d]]
        <5>1. n - 1 \in Nat /\ (n - 1) + 1 = n
          BY <3>1
        <5>2. f[(n - 1) + 1][nx[d]] = {nx[d]} \cup f[n - 1][nx[nx[d]]]
          BY <1>1, <3>1, <5>1
        <5>3. QED
          BY <5>1, <5>2
      <4>2. QED
        BY <2>1, <3>3, <4>1 DEF Closed
    <3>4. CASE Line(nx, nx[d], n, f[n][nx[d]])
      BY <2>1, <3>1, <3>4, LineGrows
    <3>5. QED
      BY <3>1, <3>2, <3>3, <3>4
  <2>5. QED
    BY <2>2, <2>3, <2>4
<1>4. S = Nat
  <2> HIDE DEF S
  <2>1. S \in SUBSET Nat
    BY DEF S
  <2>2. QED
    BY <1>2, <1>3, <2>1, Induction
<1>5. QED
  BY <1>4

LEMMA WalkClosed ==
  ASSUME NEW nx \in Links, NEW f, Walks(nx, NoBCBs, f), NEW d \in BCBs
  PROVE  Closed(nx, f[NoBCBs][d])
<1> SUFFICES ASSUME Line(nx, d, NoBCBs, f[NoBCBs][d]) PROVE Closed(nx, f[NoBCBs][d])
  BY WalkClosedOrLine, BufferAssumption
<1>1. PICK s \in [1 .. NoBCBs -> BCBs] :
        /\ f[NoBCBs][d] = {s[i] : i \in 1 .. NoBCBs}
        /\ \A i, j \in 1 .. NoBCBs : s[i] = s[j] => i = j
  BY DEF Line
<1>2. s \in Injection(BCBs, BCBs)
  BY <1>1 DEF Injection, IsInjective, BCBs
<1>5. IsFiniteSet(BCBs)
  BY FS_Interval, BufferAssumption DEF BCBs
<1>3. s \in Surjection(BCBs, BCBs)
  BY <1>2, <1>5, FS_Injection
<1>4. f[NoBCBs][d] = BCBs
  <2>1. \A t \in BCBs : \E i \in BCBs : s[i] = t
    BY <1>3 DEF Surjection
  <2>2. QED
    BY <1>1, <2>1 DEF BCBs
<1>6. QED
  BY <1>4 DEF Closed, Links, Ends

LEMMA WalkLeast ==
  ASSUME NEW nx \in Links, NEW f, Walks(nx, NoBCBs, f), NEW T, Closed(nx, T)
  PROVE  \A k \in 0 .. NoBCBs : \A d \in Ends : d \in T \cup {NoBCB} => f[k][d] \subseteq T
<1> DEFINE S == {n \in Nat : n \in 0 .. NoBCBs =>
                   \A d \in Ends : d \in T \cup {NoBCB} => f[n][d] \subseteq T}
<1>0. Grows(nx, f)
  BY WalkStep
<1>1. /\ \A d \in Ends : f[0][d] = {}
      /\ \A k \in 0 .. NoBCBs : f[k][NoBCB] = {}
      /\ \A n \in Nat : n + 1 \in 0 .. NoBCBs =>
           \A d \in BCBs : f[n + 1][d] = {d} \cup f[n][nx[d]]
  BY <1>0 DEF Grows
<1>2. 0 \in S
  BY <1>1
<1>3. ASSUME NEW n \in S PROVE n + 1 \in S
  <2> SUFFICES ASSUME n + 1 \in 0 .. NoBCBs, NEW d \in Ends, d \in T \cup {NoBCB}
               PROVE  f[n + 1][d] \subseteq T
    OBVIOUS
  <2>1. CASE d = NoBCB
    BY <1>1, <2>1
  <2>2. CASE d # NoBCB
    <3>1. d \in BCBs /\ d \in T /\ nx[d] \in Ends /\ nx[d] \in T \cup {NoBCB}
      BY <2>2 DEF Ends, Links, Closed
    <3>2. f[n][nx[d]] \subseteq T
      <4>1. n \in 0 .. NoBCBs
        BY BufferAssumption
      <4>2. QED
        BY <3>1, <4>1
    <3>3. f[n + 1][d] = {d} \cup f[n][nx[d]]
      BY <1>1, <3>1
    <3>4. QED
      BY <3>1, <3>2, <3>3
  <2>3. QED
    BY <2>1, <2>2
<1>4. S = Nat
  <2> HIDE DEF S
  <2>1. S \in SUBSET Nat
    BY DEF S
  <2>2. QED
    BY <1>2, <1>3, <2>1, Induction
<1>5. QED
  BY <1>4

LEMMA WalkMembers ==
  ASSUME NEW nx \in Links, NEW f, Walks(nx, NoBCBs, f), NEW b \in Ends
  PROVE  f[NoBCBs][b] = Members(nx, b)
<1> DEFINE W == f[NoBCBs][b]
<1>1. NoBCBs \in 0 .. NoBCBs /\ NoBCBs # 0
  BY BufferAssumption
<1>2. IF b = NoBCB THEN W = {} ELSE b \in W
  <2>1. NoBCBs - 1 \in Nat /\ (NoBCBs - 1) + 1 = NoBCBs
    BY BufferAssumption
  <2>2. b # NoBCB => f[(NoBCBs - 1) + 1][b] = {b} \cup f[NoBCBs - 1][nx[b]]
    BY <1>1, <2>1, WalkStep DEF Ends, Grows
  <2>3. b = NoBCB => W = {}
    BY <1>1, WalkStep DEF Grows
  <2>4. QED
    BY <2>1, <2>2, <2>3
<1>3. CASE b = NoBCB
  BY <1>2, <1>3 DEF Members
<1>4. CASE b # NoBCB
  <2>1. b \in BCBs
    BY <1>4 DEF Ends
  <2>2. W \subseteq BCBs
    <3>1. Closed(nx, BCBs)
      BY DEF Closed, Links, Ends
    <3>2. QED
      BY <3>1, <2>1, <1>1, WalkLeast
  <2>3. b \in W /\ Closed(nx, W)
    BY <1>2, <1>4, <2>1, WalkClosed
  <2>4. ASSUME NEW S \in SUBSET BCBs, b \in S, Closed(nx, S) PROVE W \subseteq S
    BY <2>4, <1>1, WalkLeast
  <2> HIDE DEF W
  <2>5. W \in SUBSET BCBs
    BY <2>2
  <2>6. ASSUME NEW d \in W PROVE d \in Members(nx, b)
    BY <2>4, <2>2, <1>4 DEF Members
  <2>7. ASSUME NEW d \in Members(nx, b) PROVE d \in W
    BY <2>3, <2>5 DEF Members
  <2>8. W = Members(nx, b)
    BY <2>6, <2>7
  <2>9. QED
    BY <2>8 DEF W
<1>5. QED
  BY <1>3, <1>4

(* The chain the code walks from b is the least set with b that is closed   *)
(* under _nextInChain.                                                      *)
LEMMA ChainIsMembers == next \in Links => \A b \in Ends : ChainFrom(b) = Members(next, b)
  BY ReachedWalks, WalkMembers DEF ChainFrom

LEMMA ChainIsMembersNext ==
  next' \in Links => \A b \in Ends : ChainFrom(b)' = Members(next', b)
<1>1. (next \in Links => \A b \in Ends : ChainFrom(b) = Members(next, b))'
  BY ChainIsMembers, PTL
<1>2. QED
  BY <1>1

-----------------------------------------------------------------------------
LEMMA MembersOf ==
  ASSUME NEW nx \in Links, NEW b \in Ends
  PROVE  /\ Members(nx, b) \in SUBSET BCBs /\ Closed(nx, Members(nx, b))
         /\ b \in Members(nx, b) \cup {NoBCB}
         /\ b = NoBCB => Members(nx, b) = {}
<1>1. ASSUME NEW d \in Members(nx, b) PROVE nx[d] \in Members(nx, b) \cup {NoBCB}
  <2>1. nx[d] \in Ends
    BY DEF Members, Links
  <2>2. ASSUME nx[d] # NoBCB, NEW S \in SUBSET BCBs, b \in S, Closed(nx, S)
        PROVE  nx[d] \in S
    BY <2>2 DEF Members, Closed
  <2>3. QED
    BY <2>1, <2>2 DEF Members, Ends
<1>2. b # NoBCB => b \in Members(nx, b)
  BY DEF Members, Ends
<1>3. QED
  BY <1>1, <1>2 DEF Members, Closed

LEMMA MembersLeast ==
  ASSUME NEW nx \in Links, NEW b \in Ends, NEW S, Closed(nx, S), b \in S \cup {NoBCB}
  PROVE  Members(nx, b) \subseteq S
<1>1. S \cap BCBs \in SUBSET BCBs /\ Closed(nx, S \cap BCBs)
  BY DEF Closed, Links, Ends
<1>2. b # NoBCB => b \in S \cap BCBs
  BY DEF Ends
<1>3. QED
  BY <1>1, <1>2 DEF Members

LEMMA MembersFirst ==
  ASSUME NEW nx \in Links, NEW b \in BCBs
  PROVE  Members(nx, b) = {b} \cup Members(nx, nx[b])
<1>1. b \in Ends /\ b # NoBCB /\ nx[b] \in Ends
  BY DEF Links, Ends, BCBs, NoBCB
<1>2. Members(nx, b) \subseteq {b} \cup Members(nx, nx[b])
  <2>1. Closed(nx, {b} \cup Members(nx, nx[b]))
    BY <1>1, MembersOf DEF Closed
  <2>2. QED
    BY <1>1, <2>1, MembersLeast
<1>3. Members(nx, nx[b]) \subseteq Members(nx, b) /\ b \in Members(nx, b)
  <2>1. Closed(nx, Members(nx, b)) /\ b \in Members(nx, b)
    BY <1>1, MembersOf
  <2>2. nx[b] \in Members(nx, b) \cup {NoBCB}
    BY <2>1 DEF Closed
  <2>3. QED
    BY <1>1, <2>1, <2>2, MembersLeast
<1>4. QED
  BY <1>2, <1>3

(* A list whose pointers are not touched stays the same. *)
LEMMA MembersKept ==
  ASSUME NEW nx \in Links, NEW ny \in Links, NEW b \in Ends,
         \A d \in Members(nx, b) : ny[d] = nx[d]
  PROVE  Members(ny, b) = Members(nx, b)
<1>1. Members(ny, b) \subseteq Members(nx, b)
  <2>1. Closed(ny, Members(nx, b)) /\ b \in Members(nx, b) \cup {NoBCB}
    BY MembersOf DEF Closed
  <2>2. QED
    BY <2>1, MembersLeast
<1>2. Members(nx, b) \subseteq Members(ny, b)
  <2>1. Closed(nx, Members(ny, b)) /\ b \in Members(ny, b) \cup {NoBCB}
    BY <1>1, MembersOf DEF Closed
  <2>2. QED
    BY <2>1, MembersLeast
<1>3. QED
  BY <1>1, <1>2

-----------------------------------------------------------------------------
(* No two members have the same successor, and nothing points to the first: *)
(* the list ends.                                                           *)
Ending(nx, b) ==
  \A d \in Members(nx, b) :
    /\ nx[d] # b
    /\ \A e \in Members(nx, b) : nx[d] = nx[e] /\ nx[d] # NoBCB => d = e

LEMMA EndingKept ==
  ASSUME NEW nx \in Links, NEW ny \in Links, NEW b \in Ends,
         \A d \in Members(nx, b) : ny[d] = nx[d], Ending(nx, b)
  PROVE  Members(ny, b) = Members(nx, b) /\ Ending(ny, b)
  BY MembersKept DEF Ending

LEMMA PushFront ==
  ASSUME NEW nx \in Links, NEW ny \in Links, NEW b \in Ends, Ending(nx, b),
         NEW n \in BCBs, n \notin Members(nx, b), ny[n] = b,
         \A d \in Members(nx, b) : ny[d] = nx[d]
  PROVE  Members(ny, n) = {n} \cup Members(nx, b) /\ Ending(ny, n)
<1>1. Members(ny, b) = Members(nx, b)
  BY MembersKept
<1>2. Members(ny, n) = {n} \cup Members(nx, b)
  BY <1>1, MembersFirst
<1>3. \A d \in Members(nx, b) : nx[d] # n
  BY MembersOf DEF Closed, BCBs, NoBCB
<1>4. b # n
  BY MembersOf DEF BCBs, NoBCB
<1>5. QED
  BY <1>2, <1>3, <1>4 DEF Ending

LEMMA PopFront ==
  ASSUME NEW nx \in Links, NEW b \in BCBs, Ending(nx, b)
  PROVE  Members(nx, nx[b]) = Members(nx, b) \ {b} /\ Ending(nx, nx[b])
<1> DEFINE M == Members(nx, b)
<1>1. b \in Ends /\ nx[b] \in Ends /\ b # NoBCB
  BY DEF Links, Ends, BCBs, NoBCB
<1>2. M = {b} \cup Members(nx, nx[b]) /\ Closed(nx, M) /\ b \in M
  BY <1>1, MembersFirst, MembersOf
<1>3. Closed(nx, M \ {b}) /\ nx[b] \in (M \ {b}) \cup {NoBCB}
  <2> HIDE DEF M
  <2>1. \A d \in M : nx[d] # b
    BY DEF Ending, M
  <2>2. QED
    BY <1>2, <2>1 DEF Closed
<1>4. Members(nx, nx[b]) \subseteq M \ {b}
  BY <1>1, <1>3, MembersLeast
<1>5. Members(nx, nx[b]) = M \ {b}
  BY <1>2, <1>4
<1>6. Ending(nx, nx[b])
  <2>1. nx[b] = NoBCB => Members(nx, nx[b]) = {}
    BY <1>1, MembersOf
  <2>2. QED
    BY <1>2, <1>5, <2>1 DEF Ending
<1>7. QED
  BY <1>5, <1>6

LEMMA CutMiddle ==
  ASSUME NEW nx \in Links, NEW ny \in Links, NEW b \in Ends, Ending(nx, b),
         NEW p \in Members(nx, b), nx[p] # NoBCB, ny[p] = nx[nx[p]],
         \A d \in Members(nx, b) \ {p, nx[p]} : ny[d] = nx[d]
  PROVE  /\ nx[p] \in Members(nx, b) /\ nx[p] # b /\ nx[p] # p
         /\ Members(ny, b) = Members(nx, b) \ {nx[p]} /\ Ending(ny, b)
<1> DEFINE M == Members(nx, b)
           v == nx[p]
<1>1. M \in SUBSET BCBs /\ Closed(nx, M) /\ b \in M
  BY MembersOf
<1>2. v \in M /\ v # b /\ nx[v] \in M \cup {NoBCB}
  BY <1>1 DEF Closed, Ending
<1>3. \A d, e \in M : nx[d] = nx[e] /\ nx[d] # NoBCB => d = e
  BY DEF Ending
<1>4. \A d \in M : nx[d] # b
  BY DEF Ending
<1> HIDE DEF M
<1>5. v # p
  <2> SUFFICES ASSUME v = p PROVE FALSE
    OBVIOUS
  <2>1. b # p
    BY <1>2
  <2>2. Closed(nx, M \ {p})
    BY <1>1, <1>3 DEF Closed
  <2>3. M \subseteq M \ {p}
    BY <1>1, <2>1, <2>2, MembersLeast DEF M
  <2>4. QED
    BY <2>3 DEF M
<1>6. nx[v] # v
  BY <1>2, <1>3, <1>5 DEF M
<1>7. \A d \in M \ {v} : ny[d] = IF d = p THEN nx[v] ELSE nx[d]
  BY DEF M
<1>8. Members(ny, b) \subseteq M \ {v}
  <2>1. Closed(ny, M \ {v})
    <3>1. ASSUME NEW d \in M \ {v} PROVE ny[d] \in (M \ {v}) \cup {NoBCB}
      <4>1. CASE d = p
        BY <4>1, <1>7, <1>2, <1>6
      <4>2. CASE d # p
        <5>1. ny[d] = nx[d] /\ nx[d] \in M \cup {NoBCB}
          BY <4>2, <1>7, <1>1 DEF Closed
        <5>2. nx[d] # v
          BY <4>2, <1>3, <5>1 DEF M
        <5>3. QED
          BY <5>1, <5>2
      <4>3. QED
        BY <4>1, <4>2
    <3>2. QED
      BY <3>1 DEF Closed
  <2>2. QED
    BY <1>1, <1>2, <2>1, MembersLeast
<1>9. M \ {v} \subseteq Members(ny, b)
  <2> DEFINE K == Members(ny, b)
  <2>1. Closed(ny, K) /\ b \in K
    BY <1>1, MembersOf
  <2>2. K \subseteq M \ {v}
    BY <1>8
  <2> HIDE DEF K
  <2>3. p \in K
    <3> SUFFICES ASSUME p \notin K PROVE FALSE
      OBVIOUS
    <3>1. \A d \in K : ny[d] = nx[d]
      BY <2>2, <1>7
    <3>2. Closed(nx, K)
      BY <2>1, <3>1 DEF Closed
    <3>3. M \subseteq K
      BY <2>1, <3>2, MembersLeast DEF M
    <3>4. QED
      BY <3>3 DEF M
  <2>4. nx[v] \in K \cup {NoBCB}
    BY <2>1, <2>2, <2>3, <1>7 DEF Closed
  <2>5. Closed(nx, K \cup {v})
    <3>1. ASSUME NEW d \in K \cup {v} PROVE nx[d] \in (K \cup {v}) \cup {NoBCB}
      <4>1. CASE d = v
        BY <4>1, <2>4
      <4>2. CASE d = p
        BY <4>2
      <4>3. CASE d \in K /\ d # p
        BY <4>3, <2>1, <2>2, <1>7 DEF Closed
      <4>4. QED
        BY <4>1, <4>2, <4>3
    <3>2. QED
      BY <3>1 DEF Closed
  <2>6. M \subseteq K \cup {v}
    BY <2>1, <2>5, MembersLeast DEF M
  <2>7. QED
    BY <2>6 DEF K
<1>10. Members(ny, b) = M \ {v}
  BY <1>8, <1>9
<1>11. Ending(ny, b)
  <2>1. ASSUME NEW d \in M \ {v} PROVE ny[d] # b
    BY <1>7, <1>4, <1>2
  <2>2. ASSUME NEW d \in M \ {v}, NEW e \in M \ {v}, ny[d] = ny[e], ny[d] # NoBCB
        PROVE  d = e
    <3>1. CASE d = p /\ e # p
      BY <3>1, <2>2, <1>7, <1>3, <1>2
    <3>2. CASE d # p /\ e = p
      BY <3>2, <2>2, <1>7, <1>3, <1>2
    <3>3. CASE d # p /\ e # p
      BY <3>3, <2>2, <1>7, <1>3
    <3>4. QED
      BY <3>1, <3>2, <3>3
  <2>3. QED
    BY <1>10, <2>1, <2>2 DEF Ending
<1>12. QED
  BY <1>2, <1>5, <1>10, <1>11 DEF M

-----------------------------------------------------------------------------
(***************************************************************************)
(* Types: no step dereferences a control block or a page it was not given. *)
(***************************************************************************)

(* The local variables a step dereferences are set when it is reached.     *)
PageSet == {"lookup", "walk", "latch", "popCheck", "pop", "claim", "readLatch", "read",
            "emptyLatch", "upgrade", "reset", "resetWalk"} \cup Locating
NewSet  == {"claim", "readLatch", "read", "emptyLatch"} \cup Locating
PtrSet  == {"latch", "tryBucket", "tryHead", "tryNext", "lockHead", "lockNext",
            "evictHead", "evictNext", "upgrade", "resetWalk", "resetNext"}
VictimSet == {"lockHead", "lockNext", "evictHead", "evictNext", "resetHead", "resetNext"}

LocalsOK ==
  \A c \in Clients :
    /\ pc[c] \in PageSet => call[c].page \in Pages
    /\ pc[c] \in NewSet => newBCB[c] \in BCBs
    /\ pc[c] \in PtrSet => ptr[c] \in BCBs
    /\ pc[c] \in VictimSet => victim[c] \in BCBs

TypeInv == TypeOK /\ LocalsOK

LEMMA Constants ==
  /\ 1 \in BCBs /\ NoBCB \notin BCBs
  /\ INVALID \notin Frames
  /\ NoPage \notin Pages
  /\ \A p \in Pages : Hash(p) \in Buckets
  /\ InitialChain \in [BCBs -> BCBs \cup {NoBCB}]
  /\ [i \in 1 .. NoFrames |-> i - 1] \in Seq(Frames \cup {INVALID})
<1>1. InitialChain \in [BCBs -> BCBs \cup {NoBCB}]
  BY BufferAssumption DEF InitialChain, BCBs, NoBCB
<1>2. [i \in 1 .. NoFrames |-> i - 1] \in Seq(Frames \cup {INVALID})
  BY BufferAssumption DEF Frames, INVALID
<1>3. QED
  BY <1>1, <1>2, BufferAssumption
  DEF BCBs, NoBCB, INVALID, Frames, Buckets, NoPage, Hash

LEMMA InitType == Init => TypeInv
<1> SUFFICES ASSUME Init PROVE TypeInv
  OBVIOUS
<1>1. TypeOK
  BY Constants, BufferAssumption
  DEF Init, TypeOK, TableOK, ListOK, BCBOK, LatchOK, ContentOK, ClientOK, Labels, Calls, NoCall, Buckets, NoPage
<1>2. LocalsOK
  BY DEF Init, LocalsOK, PageSet, NewSet, PtrSet, VictimSet, Locating
<1>3. QED
  BY <1>1, <1>2 DEF TypeInv

LEMMA RestartType == Restart /\ TypeInv => TypeInv'
<1> SUFFICES ASSUME Restart, TypeInv PROVE TypeInv'
  OBVIOUS
<1>1. TypeOK'
  BY Constants, BufferAssumption
  DEF Restart, TypeInv, TypeOK, TableOK, ListOK, BCBOK, LatchOK, ContentOK, ClientOK, Labels, Calls, NoCall, Buckets, NoPage
<1>2. LocalsOK'
  BY DEF Restart, LocalsOK, PageSet, NewSet, PtrSet, VictimSet, Locating
<1>3. QED
  BY <1>1, <1>2 DEF TypeInv

LEMMA HashOK == ASSUME NEW p \in Pages PROVE Hash(p) \in Buckets
  BY Constants

LEMMA NoCallOK == NoCall \in Calls /\ 0 \in Buckets
  BY BufferAssumption DEF NoCall, Calls, Buckets

(* What the operations on a latch and the end of a call keep. *)
LEMMA LockXOK ==
  ASSUME NEW b \in BCBs, NEW c \in Clients, LatchOK, LockX(b, c)
  PROVE  LatchOK'
  BY DEF LatchOK, LockX

LEMMA LockSOK ==
  ASSUME NEW b \in BCBs, NEW c \in Clients, LatchOK, LockS(b, c)
  PROVE  LatchOK'
  BY DEF LatchOK, LockS

LEMMA UnlockOK ==
  ASSUME NEW b \in BCBs, NEW c \in Clients, LatchOK, Unlock(b, c)
  PROVE  LatchOK'
<1>1. CASE mode[b] = "NOLOCK"
  BY <1>1 DEF LatchOK, Unlock, latchVars
<1>2. CASE mode[b] = "S"
  BY <1>2 DEF LatchOK, Unlock
<1>3. CASE mode[b] = "X"
  BY <1>3 DEF LatchOK, Unlock
<1>4. QED
  BY <1>1, <1>2, <1>3 DEF Unlock

LEMMA HoldOK ==
  ASSUME NEW c \in Clients, NEW b \in BCBs, NEW m \in {"S", "X"},
         ClientOK, Page(c) \in Pages, Hold(c, b, m)
  PROVE  held' \in [Clients -> SUBSET Handles]
  BY DEF ClientOK, Hold, Handles

LEMMA ReturnOK ==
  ASSUME NEW c \in Clients, ClientOK, LocalsOK, Return(c),
         todo' = todo, held' \in [Clients -> SUBSET Handles]
  PROVE  ClientOK' /\ LocalsOK'
<1>1. ClientOK'
  BY NoCallOK DEF ClientOK, Return, Goto, Labels
<1>2. \A d \in Clients \ {c} :
        pc'[d] = pc[d] /\ call'[d] = call[d] /\ newBCB'[d] = newBCB[d]
        /\ ptr'[d] = ptr[d] /\ victim'[d] = victim[d]
  BY DEF ClientOK, Return, Goto
<1>3. pc'[c] = "idle"
  BY DEF ClientOK, Return, Goto
<1>4. LocalsOK'
  BY <1>2, <1>3 DEF LocalsOK, PageSet, NewSet, PtrSet, VictimSet, Locating
<1>5. QED
  BY <1>1, <1>4

LEMMA PushFrameOK ==
  ASSUME NEW b \in BCBs, ListOK, BCBOK, PushFrame(b)
  PROVE  freeFrames' \in Seq(Frames \cup {INVALID})
  BY DEF ListOK, BCBOK, PushFrame

LEMMA PopFrameOK ==
  ASSUME ListOK, Len(freeFrames) > 0
  PROVE  /\ freeFrames[Len(freeFrames)] \in Frames \cup {INVALID}
         /\ SubSeq(freeFrames, 1, Len(freeFrames) - 1) \in Seq(Frames \cup {INVALID})
  BY DEF ListOK

(* One step of a call that was made. *)
LEMMA ProceedType ==
  ASSUME NEW c \in Clients, TypeInv, Proceed(c)
  PROVE  TypeInv'
<1> USE DEF TypeInv, TypeOK
<1>1. CASE FixLookup(c)
  <2>1. ListOK' /\ BCBOK' /\ LatchOK' /\ ContentOK'
    BY <1>1
    DEF FixLookup, ListOK, BCBOK, LatchOK, ContentOK, listVars, bcbVars, latchVars
  <2>2. TableOK'
    BY <1>1 DEF FixLookup, TableOK, ClientOK, tableVars
  <2>3. ClientOK'
    BY <1>1, HashOK
    DEF FixLookup, ClientOK, Goto, Labels, TableOK, LocalsOK, PageSet, Page
  <2>4. LocalsOK'
    BY <1>1, HashOK
    DEF FixLookup, ClientOK, Goto, LocalsOK, PageSet, NewSet, PtrSet, VictimSet,
        Locating, TableOK, Page
  <2>5. QED
    BY <2>1, <2>2, <2>3, <2>4
<1>2. CASE FixWalk(c)
  <2>1. ListOK' /\ BCBOK' /\ LatchOK' /\ ContentOK'
    BY <1>2 DEF FixWalk, ListOK, BCBOK, LatchOK, ContentOK, listVars, bcbVars, latchVars
  <2>2. TableOK'
    BY <1>2 DEF FixWalk, TableOK, ClientOK, tableVars
  <2>3. ClientOK'
    BY <1>2 DEF FixWalk, ClientOK, Goto, Labels, ListOK
  <2>4. LocalsOK'
    BY <1>2
    DEF FixWalk, ClientOK, Goto, LocalsOK, PageSet, NewSet, PtrSet, VictimSet,
        Locating, ListOK
  <2>5. QED
    BY <2>1, <2>2, <2>3, <2>4
<1>3. CASE PopCheck(c)
  <2>1. TableOK' /\ ListOK' /\ BCBOK' /\ LatchOK' /\ ContentOK'
    BY <1>3
    DEF PopCheck, TableOK, ListOK, BCBOK, LatchOK, ContentOK, tableVars, listVars,
        bcbVars, latchVars
  <2>2. ClientOK'
    BY <1>3 DEF PopCheck, ClientOK, Goto, Labels, localVars
  <2>3. LocalsOK'
    BY <1>3
    DEF PopCheck, ClientOK, Goto, LocalsOK, PageSet, NewSet, PtrSet, VictimSet,
        Locating, localVars
  <2>4. QED
    BY <2>1, <2>2, <2>3
<1>4. CASE Pop(c)
  <2>1. TableOK' /\ BCBOK' /\ LatchOK' /\ ContentOK'
    BY <1>4 DEF Pop, TableOK, BCBOK, LatchOK, ContentOK, tableVars, bcbVars, latchVars
  <2>2. ListOK'
    BY <1>4 DEF Pop, ListOK, listVars
  <2>3. ClientOK'
    BY <1>4 DEF Pop, ClientOK, Goto, Labels, ListOK
  <2>4. LocalsOK'
    BY <1>4
    DEF Pop, ClientOK, Goto, LocalsOK, PageSet, NewSet, PtrSet, VictimSet, Locating,
        ListOK
  <2>5. QED
    BY <2>1, <2>2, <2>3, <2>4
<1>5. CASE Claim(c)
  <2>1. TableOK' /\ ContentOK'
    BY <1>5 DEF Claim, TableOK, ContentOK, tableVars
  <2>2. ListOK'
    BY <1>5 DEF Claim, ListOK, listVars
  <2>3. BCBOK'
    BY <1>5 DEF Claim, BCBOK, Page, ClientOK, LocalsOK, PageSet, Locating, bcbVars
  <2>4. LatchOK'
    BY <1>5, LockXOK DEF Claim, LatchOK, ClientOK, LocalsOK, NewSet, Locating, latchVars
  <2>5. ClientOK'
    BY <1>5 DEF Claim, ClientOK, Goto, Labels, localVars
  <2>6. LocalsOK'
    BY <1>5
    DEF Claim, ClientOK, Goto, LocalsOK, PageSet, NewSet, PtrSet, VictimSet, Locating,
        localVars
  <2>7. QED
    BY <2>1, <2>2, <2>3, <2>4, <2>5, <2>6
<1>6. CASE Link(c)
  <2>1. BCBOK' /\ LatchOK' /\ ContentOK'
    BY <1>6 DEF Link, BCBOK, LatchOK, ContentOK, bcbVars, latchVars
  <2>2. TableOK'
    BY <1>6 DEF Link, TableOK, ClientOK, LocalsOK, NewSet, Locating, tableVars
  <2>3. ListOK'
    BY <1>6, HashOK
    DEF Link, ListOK, TableOK, Page, ClientOK, LocalsOK, PageSet, Locating, listVars
  <2>4. ClientOK'
    BY <1>6 DEF Link, ClientOK, Goto, Labels, localVars
  <2>5. LocalsOK'
    BY <1>6
    DEF Link, ClientOK, Goto, LocalsOK, PageSet, NewSet, PtrSet, VictimSet, Locating,
        localVars
  <2>6. QED
    BY <2>1, <2>2, <2>3, <2>4, <2>5
<1>7. CASE PopFrame(c)
  <2>1. TableOK' /\ BCBOK' /\ LatchOK' /\ ContentOK'
    BY <1>7
    DEF PopFrame, TableOK, BCBOK, LatchOK, ContentOK, tableVars, bcbVars, latchVars
  <2>2. ListOK'
    BY <1>7, PopFrameOK DEF PopFrame, ListOK, listVars
  <2>3. ClientOK'
    BY <1>7, PopFrameOK DEF PopFrame, ClientOK, Goto, Labels
  <2>4. LocalsOK'
    BY <1>7, PopFrameOK
    DEF PopFrame, ClientOK, Goto, LocalsOK, PageSet, NewSet, PtrSet, VictimSet, Locating
  <2>5. QED
    BY <2>1, <2>2, <2>3, <2>4
<1>8. CASE TryBucket(c)
  <2>1. ListOK' /\ BCBOK' /\ LatchOK' /\ ContentOK'
    BY <1>8
    DEF TryBucket, ListOK, BCBOK, LatchOK, ContentOK, listVars, bcbVars, latchVars
  <2>2. TableOK'
    BY <1>8 DEF TryBucket, TableOK, ClientOK, tableVars
  <2>3. ClientOK'
    BY <1>8 DEF TryBucket, ClientOK, Goto, Labels, localVars
  <2>4. LocalsOK'
    BY <1>8
    DEF TryBucket, ClientOK, Goto, LocalsOK, PageSet, NewSet, PtrSet, VictimSet,
        Locating, localVars
  <2>5. QED
    BY <2>1, <2>2, <2>3, <2>4
<1>9. CASE TryHead(c)
  <2>1. TableOK' /\ ListOK' /\ BCBOK' /\ LatchOK' /\ ContentOK'
    BY <1>9
    DEF TryHead, TableOK, ListOK, BCBOK, LatchOK, ContentOK, tableVars, listVars, bcbVars,
        latchVars
  <2>2. ClientOK'
    BY <1>9 DEF TryHead, ClientOK, Goto, Labels, LocalsOK, PtrSet
  <2>3. LocalsOK'
    BY <1>9
    DEF TryHead, ClientOK, Goto, LocalsOK, PageSet, NewSet, PtrSet, VictimSet, Locating
  <2>4. QED
    BY <2>1, <2>2, <2>3
<1>10. CASE TryNext(c)
  <2>1. ListOK' /\ BCBOK' /\ LatchOK' /\ ContentOK'
    BY <1>10 DEF TryNext, ListOK, BCBOK, LatchOK, ContentOK, listVars, bcbVars, latchVars
  <2>2. TableOK'
    BY <1>10 DEF TryNext, TableOK, ClientOK, tableVars
  <2>3. ClientOK'
    BY <1>10 DEF TryNext, ClientOK, Goto, Labels, ListOK, LocalsOK, PtrSet
  <2>4. LocalsOK'
    BY <1>10
    DEF TryNext, ClientOK, Goto, LocalsOK, PageSet, NewSet, PtrSet, VictimSet,
        Locating, ListOK
  <2>5. QED
    BY <2>1, <2>2, <2>3, <2>4
<1>24. CASE TryVictim(c)
  <2>1. TableOK' /\ ListOK' /\ BCBOK' /\ ContentOK'
    BY <1>24 DEF TryVictim, TableOK, ListOK, BCBOK, ContentOK, tableVars, listVars, bcbVars
  <2>2. LatchOK'
    BY <1>24, LockXOK DEF TryVictim, LatchOK, LocalsOK, VictimSet, latchVars
  <2>3. ClientOK'
    BY <1>24 DEF TryVictim, ClientOK, Goto, Labels, LocalsOK, PtrSet, VictimSet
  <2>4. LocalsOK'
    BY <1>24
    DEF TryVictim, ClientOK, Goto, LocalsOK, PageSet, NewSet, PtrSet, VictimSet, Locating
  <2>5. QED
    BY <2>1, <2>2, <2>3, <2>4
<1>11. CASE Evict(c)
  <2>1. BCBOK'
    BY <1>11 DEF Evict, BCBOK, bcbVars
  <2>2. TableOK'
    BY <1>11 DEF Evict, TableOK, ListOK, ClientOK, LocalsOK, VictimSet, tableVars
  <2>3. ListOK'
    BY <1>11 DEF Evict, ListOK, ClientOK, LocalsOK, VictimSet, listVars
  <2>4. LatchOK'
    BY <1>11, UnlockOK DEF Evict, LatchOK, ClientOK, LocalsOK, VictimSet, latchVars
  <2>5. ContentOK'
    BY <1>11
    DEF Evict, ContentOK, WriteBack, BCBOK, FrameValid, ClientOK, LocalsOK, VictimSet
  <2>6. ClientOK'
    BY <1>11 DEF Evict, ClientOK, Goto, Labels, BCBOK, LocalsOK, VictimSet
  <2>7. LocalsOK'
    BY <1>11
    DEF Evict, ClientOK, Goto, LocalsOK, PageSet, NewSet, PtrSet, VictimSet, Locating,
        BCBOK
  <2>8. QED
    BY <2>1, <2>2, <2>3, <2>4, <2>5, <2>6, <2>7
<1>12. CASE Place(c)
  <2>1. TableOK' /\ ListOK' /\ ContentOK'
    BY <1>12 DEF Place, TableOK, ListOK, ContentOK, tableVars, listVars
  <2>2. BCBOK'
    BY <1>12 DEF Place, BCBOK, ClientOK, bcbVars
  <2>3. LatchOK'
    BY <1>12, UnlockOK
    DEF Place, LatchOK, ClientOK, LocalsOK, NewSet, Locating, latchVars
  <2>4. ClientOK'
    BY <1>12 DEF Place, ClientOK, Goto, Labels, localVars
  <2>5. LocalsOK'
    BY <1>12
    DEF Place, ClientOK, Goto, LocalsOK, PageSet, NewSet, PtrSet, VictimSet, Locating,
        localVars
  <2>6. QED
    BY <2>1, <2>2, <2>3, <2>4, <2>5
<1>13. CASE ReadLatch(c)
  <2>1. TableOK' /\ ListOK' /\ BCBOK' /\ ContentOK'
    BY <1>13
    DEF ReadLatch, TableOK, ListOK, BCBOK, ContentOK, tableVars, listVars, bcbVars
  <2>2. LatchOK'
    BY <1>13, LockSOK
    DEF ReadLatch, LatchOK, ClientOK, LocalsOK, NewSet, Locating, latchVars
  <2>3. ClientOK'
    BY <1>13 DEF ReadLatch, ClientOK, Goto, Labels, localVars
  <2>4. LocalsOK'
    BY <1>13
    DEF ReadLatch, ClientOK, Goto, LocalsOK, PageSet, NewSet, PtrSet, VictimSet,
        Locating, localVars
  <2>5. QED
    BY <2>1, <2>2, <2>3, <2>4
<1>14. CASE Read(c)
  <2>1. TableOK' /\ ListOK' /\ BCBOK'
    BY <1>14 DEF Read, TableOK, ListOK, BCBOK, tableVars, listVars, bcbVars
  <2>2. LatchOK'
    BY <1>14, UnlockOK
    DEF Read, LatchOK, ClientOK, LocalsOK, NewSet, Locating, latchVars
  <2>3. ContentOK'
    BY <1>14 DEF Read, ContentOK, Page, ClientOK, LocalsOK, PageSet, Locating
  <2>4. ClientOK'
    BY <1>14 DEF Read, ClientOK, Goto, Labels, LocalsOK, NewSet, Locating
  <2>5. LocalsOK'
    BY <1>14
    DEF Read, ClientOK, Goto, LocalsOK, PageSet, NewSet, PtrSet, VictimSet, Locating
  <2>6. QED
    BY <2>1, <2>2, <2>3, <2>4, <2>5
<1>15. CASE Latch(c)
  <2>1. TableOK' /\ ListOK' /\ BCBOK' /\ ContentOK'
    BY <1>15 DEF Latch, TableOK, ListOK, BCBOK, ContentOK, tableVars, listVars, bcbVars
  <2>2. LatchOK'
    BY <1>15, LockXOK, LockSOK
    DEF Latch, LatchOK, Lock, ClientOK, LocalsOK, PtrSet, latchVars
  <2>3. ptr[c] \in BCBs /\ Page(c) \in Pages
    BY <1>15 DEF Latch, LocalsOK, Locating, PageSet, Page, PtrSet
  <2>4. held' \in [Clients -> SUBSET Handles]
    BY <1>15, <2>3, HoldOK DEF Latch, ClientOK, Calls
  <2>5. ClientOK' /\ LocalsOK'
    BY <1>15, <2>4, ReturnOK DEF Latch
  <2>6. QED
    BY <2>1, <2>2, <2>3, <2>4, <2>5
<1>16. CASE EmptyLatch(c)
  <2>1. TableOK' /\ ListOK' /\ ContentOK'
    BY <1>16 DEF EmptyLatch, TableOK, ListOK, ContentOK, tableVars, listVars
  <2>2. BCBOK'
    BY <1>16 DEF EmptyLatch, BCBOK, bcbVars
  <2>3. LatchOK'
    BY <1>16, LockXOK
    DEF EmptyLatch, LatchOK, ClientOK, LocalsOK, NewSet, Locating, latchVars
  <2>4. newBCB[c] \in BCBs /\ Page(c) \in Pages
    BY <1>16 DEF EmptyLatch, LocalsOK, Locating, PageSet, Page, NewSet
  <2>5. held' \in [Clients -> SUBSET Handles]
    BY <1>16, <2>4, HoldOK DEF EmptyLatch
  <2>6. ClientOK' /\ LocalsOK'
    BY <1>16, <2>5, ReturnOK DEF EmptyLatch
  <2>7. QED
    BY <2>1, <2>2, <2>3, <2>4, <2>5, <2>6
<1>17. CASE AssertFails(c)
  <2>1. TableOK' /\ ListOK' /\ BCBOK' /\ LatchOK' /\ ContentOK'
    BY <1>17
    DEF AssertFails, TableOK, ListOK, BCBOK, LatchOK, ContentOK, tableVars, listVars,
        bcbVars, latchVars
  <2>2. ClientOK'
    BY <1>17 DEF AssertFails, ClientOK, Goto, Labels, localVars
  <2>3. LocalsOK'
    BY <1>17
    DEF AssertFails, ClientOK, Goto, LocalsOK, PageSet, NewSet, PtrSet, VictimSet,
        Locating, localVars
  <2>4. QED
    BY <2>1, <2>2, <2>3
<1>18. CASE UpgradeAcquire(c)
  <2>1. TableOK' /\ ListOK' /\ BCBOK' /\ ContentOK'
    BY <1>18
    DEF UpgradeAcquire, TableOK, ListOK, BCBOK, ContentOK, tableVars, listVars, bcbVars
  <2>2. LatchOK'
    BY <1>18, LockXOK DEF UpgradeAcquire, LatchOK, ClientOK, LocalsOK, PtrSet, latchVars
  <2>3. ptr[c] \in BCBs /\ Page(c) \in Pages
    BY <1>18 DEF UpgradeAcquire, LocalsOK, Locating, PageSet, Page, PtrSet
  <2>4. held' \in [Clients -> SUBSET Handles]
    BY <1>18, <2>3, HoldOK DEF UpgradeAcquire
  <2>5. ClientOK' /\ LocalsOK'
    BY <1>18, <2>4, ReturnOK DEF UpgradeAcquire
  <2>6. QED
    BY <2>1, <2>2, <2>3, <2>4, <2>5
<1>19. CASE \E b \in todo[c] : FlushNext(c, b)
  <2> PICK b \in todo[c] : FlushNext(c, b)
    BY <1>19
  <2>1. TableOK' /\ ListOK' /\ BCBOK' /\ LatchOK'
    BY TypeInv
    DEF FlushNext, TableOK, ListOK, BCBOK, LatchOK, tableVars, listVars, bcbVars,
        latchVars
  <2>2. ContentOK'
    BY TypeInv DEF FlushNext, ContentOK, WriteBack, BCBOK, ClientOK, FrameValid
  <2>3. ClientOK'
    BY TypeInv DEF FlushNext, ClientOK, Goto, Labels
  <2>4. LocalsOK'
    BY TypeInv
    DEF FlushNext, ClientOK, Goto, LocalsOK, PageSet, NewSet, PtrSet, VictimSet,
        Locating
  <2>5. QED
    BY <2>1, <2>2, <2>3, <2>4
<1>20. CASE FlushDone(c)
  <2>1. TableOK' /\ ListOK' /\ BCBOK' /\ LatchOK' /\ ContentOK'
    BY <1>20
    DEF FlushDone, TableOK, ListOK, BCBOK, LatchOK, ContentOK, tableVars, listVars,
        bcbVars, latchVars
  <2>2. held' \in [Clients -> SUBSET Handles]
    BY <1>20 DEF FlushDone, ClientOK
  <2>3. ClientOK' /\ LocalsOK'
    BY <1>20, <2>2, ReturnOK DEF FlushDone
  <2>4. QED
    BY <2>1, <2>2, <2>3
<1>21. CASE ResetHead(c)
  <2>1. BCBOK' /\ LatchOK' /\ ContentOK'
    BY <1>21 DEF ResetHead, BCBOK, LatchOK, ContentOK, bcbVars, latchVars
  <2>2. TableOK'
    BY <1>21 DEF ResetHead, TableOK, ListOK, tableVars
  <2>3. ListOK'
    BY <1>21, HashOK, PushFrameOK
    DEF ResetHead, ListOK, TableOK, Page, ClientOK, LocalsOK, PageSet, Locating,
        listVars
  <2>4. Page(c) \in Pages /\ Hash(Page(c)) \in Buckets
    BY <1>21, HashOK DEF ResetHead, LocalsOK, PageSet, Page
  <2>5. ClientOK' /\ LocalsOK'
    <3>1. CASE bucket[Hash(Page(c))] = NoBCB
      BY <1>21, <3>1, ReturnOK DEF ResetHead, ClientOK
    <3>2. CASE bucket[Hash(Page(c))] # NoBCB
      <4>1. ClientOK'
        <5>1. pc'[c] \in {"resetHead", "resetWalk"} /\ pc' \in [Clients -> Labels]
          BY <1>21, <3>2 DEF ResetHead, ClientOK, Goto, Labels
        <5>2. QED
          BY <1>21, <3>2, <2>4, <5>1 DEF ResetHead, ClientOK, TableOK
      <4>2. LocalsOK'
        BY <1>21, <3>2, <2>4
        DEF ResetHead, ClientOK, TableOK, Goto, LocalsOK, PageSet, NewSet, PtrSet,
            VictimSet, Locating, Page
      <4>3. QED
        BY <4>1, <4>2
    <3>3. QED
      BY <3>1, <3>2
  <2>6. QED
    BY <2>1, <2>2, <2>3, <2>4, <2>5
<1>22. CASE ResetWalk(c)
  <2>1. BCBOK' /\ LatchOK' /\ ContentOK'
    BY <1>22 DEF ResetWalk, BCBOK, LatchOK, ContentOK, bcbVars, latchVars
  <2>2. TableOK'
    BY <1>22 DEF ResetWalk, TableOK, tableVars
  <2>3. ListOK'
    BY <1>22, PushFrameOK DEF ResetWalk, ListOK, ClientOK, LocalsOK, PtrSet, listVars
  <2>4. ptr[c] \in BCBs
    BY <1>22 DEF ResetWalk, LocalsOK, PtrSet
  <2>5. ClientOK' /\ LocalsOK'
    <3>1. CASE next[ptr[c]] = NoBCB
      BY <1>22, <3>1, ReturnOK DEF ResetWalk, ClientOK
    <3>2. CASE next[ptr[c]] # NoBCB
      <4>1. ClientOK'
        BY <1>22, <3>2, <2>4 DEF ResetWalk, ClientOK, ListOK, Goto, Labels
      <4>2. LocalsOK'
        BY <1>22, <3>2, <2>4
        DEF ResetWalk, ClientOK, ListOK, Goto, LocalsOK, PageSet, NewSet, PtrSet,
            VictimSet, Locating
      <4>3. QED
        BY <4>1, <4>2
    <3>3. QED
      BY <3>1, <3>2
  <2>6. QED
    BY <2>1, <2>2, <2>3, <2>4, <2>5
<1>23. CASE ResetFree(c)
  <2>1. BCBOK' /\ ContentOK'
    BY <1>23 DEF ResetFree, BCBOK, ContentOK, bcbVars
  <2>2. TableOK'
    BY <1>23 DEF ResetFree, TableOK, tableVars
  <2>3. ListOK'
    BY <1>23 DEF ResetFree, ListOK, ClientOK, LocalsOK, VictimSet, listVars
  <2>4. LatchOK'
    BY <1>23 DEF ResetFree, LatchOK, ClientOK, LocalsOK, VictimSet, latchVars
  <2>5. held' \in [Clients -> SUBSET Handles]
    BY <1>23 DEF ResetFree, ClientOK
  <2>6. ClientOK' /\ LocalsOK'
    BY <1>23, <2>5, ReturnOK DEF ResetFree
  <2>7. QED
    BY <2>1, <2>2, <2>3, <2>4, <2>5, <2>6
<1>25. QED
  BY <1>1, <1>2, <1>3, <1>4, <1>5, <1>6, <1>7, <1>8, <1>9, <1>10, <1>11, <1>12, <1>13, <1>14, <1>15, <1>16, <1>17, <1>18, <1>19, <1>20, <1>21, <1>22, <1>23, <1>24
  DEF Proceed

(* What a client does with a page it holds. *)
LEMMA UseType ==
  ASSUME NEW c \in Clients, TypeInv, Use(c)
  PROVE  TypeInv'
<1> USE DEF TypeInv, TypeOK
<1> PICK h \in held[c] : \/ \E v \in Versions : Write(c, h, v)
                         \/ Unfix(c, h) \/ FlushPage(c, h) \/ UpgradeRelease(c, h)
  BY DEF Use
<1>1. h.bcb \in BCBs /\ h.page \in Pages
  BY DEF ClientOK, Handles
<1>2. CASE \E v \in Versions : Write(c, h, v)
  <2> PICK v \in Versions : Write(c, h, v)
    BY <1>2
  <2>1. TableOK' /\ ListOK' /\ LatchOK'
    BY TypeInv DEF Write, TableOK, ListOK, LatchOK, tableVars, listVars, latchVars
  <2>2. BCBOK' /\ ContentOK'
    BY <1>1 DEF Write, BCBOK, ContentOK, FrameValid
  <2>3. ClientOK' /\ LocalsOK'
    BY TypeInv DEF Write, ClientOK, LocalsOK, localVars
  <2>4. QED
    BY <2>1, <2>2, <2>3
<1>3. CASE Unfix(c, h)
  <2>1. TableOK' /\ ListOK' /\ BCBOK' /\ ContentOK'
    BY <1>3 DEF Unfix, TableOK, ListOK, BCBOK, ContentOK, tableVars, listVars, bcbVars
  <2>2. LatchOK'
    BY <1>3, <1>1, UnlockOK DEF Unfix
  <2>3. ClientOK' /\ LocalsOK'
    BY <1>3 DEF Unfix, ClientOK, LocalsOK
  <2>4. QED
    BY <2>1, <2>2, <2>3
<1>4. CASE FlushPage(c, h)
  <2>1. TableOK' /\ ListOK' /\ BCBOK' /\ LatchOK'
    BY <1>4 DEF FlushPage, TableOK, ListOK, BCBOK, LatchOK,
                tableVars, listVars, bcbVars, latchVars
  <2>2. ContentOK'
    BY <1>4, <1>1 DEF FlushPage, WriteBack, FrameValid, BCBOK, ContentOK
  <2>3. ClientOK' /\ LocalsOK'
    BY <1>4 DEF FlushPage, ClientOK, LocalsOK, localVars
  <2>4. QED
    BY <2>1, <2>2, <2>3
<1>5. CASE UpgradeRelease(c, h)
  <2>1. TableOK' /\ ListOK' /\ BCBOK' /\ LatchOK' /\ ContentOK'
    BY <1>5 DEF UpgradeRelease, TableOK, ListOK, BCBOK, LatchOK, ContentOK,
                tableVars, listVars, bcbVars
  <2>2. [kind |-> "fix", page |-> h.page, mode |-> "X"] \in Calls
    BY <1>1 DEF Calls
  <2>3. ClientOK'
    BY <1>5, <1>1, <2>2 DEF UpgradeRelease, Begin, Goto, ClientOK, Labels
  <2>4. LocalsOK'
    BY <1>5, <1>1 DEF UpgradeRelease, Begin, Goto, ClientOK, LocalsOK, PageSet, NewSet,
                      PtrSet, VictimSet, Locating
  <2>5. QED
    BY <2>1, <2>3, <2>4
<1>6. QED
  BY <1>2, <1>3, <1>4, <1>5

LEMMA BeginOK ==
  ASSUME NEW c \in Clients, ClientOK, LocalsOK, NEW kind, NEW p, NEW m \in {"S", "X"}, NEW l,
         [kind |-> kind, page |-> p, mode |-> m] \in Calls,
         (p \in Pages /\ l \in {"lookup", "popCheck", "reset"}) \/ l = "flushAll",
         Begin(c, kind, p, m, l), todo' \in [Clients -> SUBSET BCBs],
         UNCHANGED <<ptr, newBCB, victim, home, got, held>>
  PROVE  ClientOK' /\ LocalsOK'
<1>1. ClientOK'
  BY DEF Begin, Goto, ClientOK, Labels
<1>2. LocalsOK'
  BY DEF Begin, Goto, ClientOK, LocalsOK, PageSet, NewSet, PtrSet, VictimSet, Locating
<1>3. QED
  BY <1>1, <1>2

LEMMA LinkedOK == ASSUME ListOK, TableOK PROVE Linked \in SUBSET BCBs
<1>1. \A b \in Ends : ChainFrom(b) \in SUBSET BCBs
  BY ChainIsMembers, MembersOf DEF ListOK, Links, Ends
<1>2. \A h \in Buckets : bucket[h] \in Ends
  BY DEF TableOK, Ends
<1>3. QED
  BY <1>1, <1>2 DEF Linked

(* A client makes a call. *)
LEMMA RequestType ==
  ASSUME NEW c \in Clients, TypeInv, Request(c)
  PROVE  TypeInv'
<1> USE DEF TypeInv, TypeOK
<1>1. CASE CallFlushAll(c)
  <2>1. TableOK' /\ ListOK' /\ BCBOK' /\ LatchOK' /\ ContentOK'
    BY <1>1 DEF CallFlushAll, TableOK, ListOK, BCBOK, LatchOK, ContentOK,
                tableVars, listVars, bcbVars, latchVars
  <2>2. todo' \in [Clients -> SUBSET BCBs]
    BY <1>1, LinkedOK DEF CallFlushAll, ClientOK
  <2>3. [kind |-> "flushAll", page |-> NoPage, mode |-> "S"] \in Calls
    BY DEF Calls
  <2>4. ClientOK' /\ LocalsOK'
    BY <1>1, <2>2, <2>3, BeginOK DEF CallFlushAll
  <2>5. QED
    BY <2>1, <2>4
<1>2. ASSUME NEW p \in Pages, CallEmptyFix(c, p) PROVE TypeInv'
  <2>1. TableOK' /\ ListOK' /\ BCBOK' /\ LatchOK' /\ ContentOK'
    BY <1>2 DEF CallEmptyFix, TableOK, ListOK, BCBOK, LatchOK, ContentOK,
                tableVars, listVars, bcbVars, latchVars
  <2>2. [kind |-> "emptyfix", page |-> p, mode |-> "X"] \in Calls
    BY DEF Calls
  <2>3. ClientOK' /\ LocalsOK'
    BY <1>2, <2>2, BeginOK DEF CallEmptyFix, ClientOK
  <2>4. QED
    BY <2>1, <2>3
<1>3. ASSUME NEW p \in Pages, CallReset(c, p) PROVE TypeInv'
  <2>1. TableOK' /\ ListOK' /\ BCBOK' /\ LatchOK' /\ ContentOK'
    BY <1>3 DEF CallReset, TableOK, ListOK, BCBOK, LatchOK, ContentOK,
                tableVars, listVars, bcbVars, latchVars
  <2>2. [kind |-> "reset", page |-> p, mode |-> "X"] \in Calls
    BY DEF Calls
  <2>3. ClientOK' /\ LocalsOK'
    BY <1>3, <2>2, BeginOK DEF CallReset, ClientOK
  <2>4. QED
    BY <2>1, <2>3
<1>4. ASSUME NEW p \in Pages, NEW m \in {"S", "X"}, CallFix(c, p, m) PROVE TypeInv'
  <2>1. TableOK' /\ ListOK' /\ BCBOK' /\ LatchOK' /\ ContentOK'
    BY <1>4 DEF CallFix, TableOK, ListOK, BCBOK, LatchOK, ContentOK,
                tableVars, listVars, bcbVars, latchVars
  <2>2. [kind |-> "fix", page |-> p, mode |-> m] \in Calls
    BY DEF Calls
  <2>3. ClientOK' /\ LocalsOK'
    BY <1>4, <2>2, BeginOK DEF CallFix, ClientOK
  <2>4. QED
    BY <2>1, <2>3
<1>5. QED
  BY <1>1, <1>2, <1>3, <1>4 DEF Request

LEMMA PickType ==
  ASSUME NEW c \in Clients, NEW h \in Buckets, TypeInv, PickBucket(c, h)
  PROVE  TypeInv'
<1> USE DEF TypeInv, TypeOK
<1>1. TableOK' /\ ListOK' /\ BCBOK' /\ LatchOK' /\ ContentOK'
  BY DEF PickBucket, TableOK, ListOK, BCBOK, LatchOK, ContentOK,
         tableVars, listVars, bcbVars, latchVars
<1>2. ClientOK'
  BY DEF PickBucket, ClientOK, TableOK, Goto, Labels
<1>3. LocalsOK'
  BY DEF PickBucket, ClientOK, TableOK, Goto, LocalsOK, PageSet, NewSet, PtrSet, VictimSet,
         Locating
<1>4. QED
  BY <1>1, <1>2, <1>3

LEMMA NextType == TypeInv /\ [Next]_vars => TypeInv'
<1> SUFFICES ASSUME TypeInv, [Next]_vars PROVE TypeInv'
  OBVIOUS
<1>1. CASE UNCHANGED vars
  BY <1>1 DEF TypeInv, TypeOK, TableOK, ListOK, BCBOK, LatchOK, ContentOK, ClientOK, LocalsOK,
              vars, tableVars, listVars, bcbVars, latchVars, localVars
<1>2. ASSUME NEW c \in Clients, Step(c) PROVE TypeInv'
  BY <1>2, ProceedType, UseType, RequestType, PickType DEF Step
<1>3. QED
  BY <1>1, <1>2, RestartType DEF Next

(* In every reachable state of every buffer manager every field and local  *)
(* variable holds a value of its type: no step stores an index outside the *)
(* pool, or drops a pointer it still needs.                                *)
THEOREM TypeCorrect == Spec => []TypeOK
<1>1. TypeInv => TypeOK
  BY DEF TypeInv
<1>2. QED
  BY InitType, NextType, <1>1, PTL DEF Spec

-----------------------------------------------------------------------------
(***************************************************************************)
(* The latches of the buffer manager exclude its clients from each other:  *)
(* the inductive invariant LatchInv, and what follows from it.             *)
(***************************************************************************)

(* What a step of c leaves alone: the call and the pages of the others.    *)
Others(c) ==
  \A d \in Clients \ {c} :
    pc'[d] = pc[d] /\ newBCB'[d] = newBCB[d] /\ victim'[d] = victim[d] /\ held'[d] = held[d]

(* A step of c takes no latch away from another client.                    *)
LatchesKept(c) ==
  \A d \in Clients \ {c} : \A b \in BCBs :
    (d \in latchX[b] => d \in latchX'[b]) /\ (d \in latchS[b] => d \in latchS'[b])

LEMMA OthersOwn ==
  ASSUME NEW c \in Clients, NEW d \in Clients \ {c}, TypeInv,
         Others(c), LatchesKept(c), Owns(d)
  PROVE  Owns(d)'
<1> USE DEF TypeInv, TypeOK
<1>1. \A h \in held[d] : h.bcb \in BCBs
  BY DEF ClientOK, Handles
<1>2. pc[d] \in Locating \cup {"read"} => newBCB[d] \in BCBs
  BY DEF LocalsOK, NewSet, Locating
<1>3. pc[d] \in {"evictHead", "evictNext"} => victim[d] \in BCBs
  BY DEF LocalsOK, VictimSet
<1>4. QED
  BY <1>1, <1>2, <1>3 DEF Others, LatchesKept, Owns

LEMMA LockXExcludes ==
  ASSUME NEW c \in Clients, NEW b \in BCBs, LatchOK, LatchExclusion, LockX(b, c)
  PROVE  /\ LatchExclusion' /\ LatchesKept(c)
         /\ latchX'[b] = {c} /\ latchS' = latchS
         /\ \A x \in BCBs \ {b} : latchX'[x] = latchX[x]
  BY DEF LatchOK, LatchExclusion, LatchesKept, LockX, LatchFree

LEMMA LockSExcludes ==
  ASSUME NEW c \in Clients, NEW b \in BCBs, LatchOK, LatchExclusion, LockS(b, c)
  PROVE  /\ LatchExclusion' /\ LatchesKept(c)
         /\ c \in latchS'[b] /\ latchX' = latchX
         /\ \A x \in BCBs \ {b} : latchS'[x] = latchS[x]
  BY DEF LatchOK, LatchExclusion, LatchesKept, LockS

LEMMA UnlockExcludes ==
  ASSUME NEW c \in Clients, NEW b \in BCBs, LatchOK, LatchExclusion, Unlock(b, c),
         c \in latchX[b] \cup latchS[b]
  PROVE  /\ LatchExclusion' /\ LatchesKept(c)
         /\ \A x \in BCBs \ {b} : latchX'[x] = latchX[x] /\ latchS'[x] = latchS[x]
<1>1. CASE mode[b] = "NOLOCK"
  BY <1>1 DEF LatchOK, LatchExclusion, LatchesKept, Unlock, latchVars
<1>2. CASE mode[b] = "S"
  BY <1>2 DEF LatchOK, LatchExclusion, LatchesKept, Unlock
<1>3. CASE mode[b] = "X"
  <2>1. latchX[b] = {c}
    BY <1>3 DEF LatchOK, LatchExclusion
  <2>2. QED
    BY <1>3, <2>1 DEF LatchOK, LatchExclusion, LatchesKept, Unlock
<1>4. QED
  BY <1>1, <1>2, <1>3 DEF Unlock

(* A step that leaves the latches alone and begins no work on a BCB.       *)
LEMMA QuietLatch ==
  ASSUME NEW c \in Clients, TypeInv, LatchInv, Others(c),
         UNCHANGED <<mode, latchX, latchS>>, held'[c] = held[c],
         pc'[c] \notin {"evictHead", "evictNext", "read"},
         pc'[c] \in Locating => pc[c] \in Locating /\ newBCB'[c] = newBCB[c]
  PROVE  LatchInv'
<1>1. LatchExclusion' /\ LatchesKept(c)
  BY DEF LatchInv, LatchExclusion, LatchesKept
<1>2. Owns(c)'
  BY DEF LatchInv, Owns
<1>3. QED
  BY <1>1, <1>2, OthersOwn DEF LatchInv

LEMMA InitLatch == Init => LatchInv
  BY DEF Init, LatchInv, LatchExclusion, Owns, Locating

LEMMA RestartLatch == Restart => LatchInv'
  BY DEF Restart, LatchInv, LatchExclusion, Owns, Locating

LEMMA RequestLatch ==
  ASSUME NEW c \in Clients, TypeInv, LatchInv, Request(c)
  PROVE  LatchInv'
<1> USE DEF TypeInv, TypeOK
<1>1. CASE CallFlushAll(c)
  BY <1>1, QuietLatch DEF CallFlushAll, Begin, Goto, ClientOK, Others, Locating, latchVars
<1>2. ASSUME NEW p \in Pages, CallEmptyFix(c, p) PROVE LatchInv'
  BY <1>2, QuietLatch DEF CallEmptyFix, Begin, Goto, ClientOK, Others, Locating, latchVars
<1>3. ASSUME NEW p \in Pages, CallReset(c, p) PROVE LatchInv'
  BY <1>3, QuietLatch DEF CallReset, Begin, Goto, ClientOK, Others, Locating, latchVars
<1>4. ASSUME NEW p \in Pages, NEW m \in {"S", "X"}, CallFix(c, p, m) PROVE LatchInv'
  BY <1>4, QuietLatch DEF CallFix, Begin, Goto, ClientOK, Others, Locating, latchVars
<1>5. QED
  BY <1>1, <1>2, <1>3, <1>4 DEF Request

LEMMA UseLatch ==
  ASSUME NEW c \in Clients, TypeInv, LatchInv, Use(c)
  PROVE  LatchInv'
<1> USE DEF TypeInv, TypeOK
<1> PICK h \in held[c] : \/ \E v \in Versions : Write(c, h, v)
                         \/ Unfix(c, h) \/ FlushPage(c, h) \/ UpgradeRelease(c, h)
  BY DEF Use
<1>1. h.bcb \in BCBs /\ pc[c] = "idle" /\ c \in latchX[h.bcb] \cup latchS[h.bcb]
  BY DEF ClientOK, Handles, Write, Unfix, FlushPage, UpgradeRelease, Idle, LatchInv, Owns
<1>2. CASE \E v \in Versions : Write(c, h, v)
  BY <1>1, <1>2, QuietLatch DEF Write, localVars, latchVars, Others, Locating
<1>3. CASE Unfix(c, h)
  <2>1. /\ LatchExclusion' /\ LatchesKept(c)
        /\ \A x \in BCBs \ {h.bcb} : latchX'[x] = latchX[x] /\ latchS'[x] = latchS[x]
    BY <1>1, <1>3, UnlockExcludes DEF Unfix, LatchInv
  <2>2. Others(c) /\ pc'[c] = "idle" /\ held'[c] = held[c] \ {h}
    BY <1>1, <1>3 DEF Unfix, Others, ClientOK
  <2>3. \A g \in held'[c] : g.bcb \in BCBs \ {h.bcb}
    BY <2>2 DEF LatchInv, Owns, ClientOK, Handles
  <2>4. Owns(c)'
    BY <2>1, <2>2, <2>3 DEF LatchInv, Owns, Locating
  <2>5. QED
    BY <2>1, <2>2, <2>4, OthersOwn DEF LatchInv
<1>4. CASE FlushPage(c, h)
  BY <1>1, <1>4, QuietLatch DEF FlushPage, localVars, latchVars, Others, Locating
<1>5. CASE UpgradeRelease(c, h)
  <2>1. latchX[h.bcb] = {}
    BY <1>1, <1>5 DEF UpgradeRelease, LatchInv, LatchExclusion, Owns
  <2>2. /\ LatchExclusion' /\ LatchesKept(c)
        /\ \A x \in BCBs \ {h.bcb} : latchX'[x] = latchX[x] /\ latchS'[x] = latchS[x]
    BY <1>1, <1>5, <2>1
    DEF UpgradeRelease, LatchInv, LatchExclusion, LatchesKept, LatchOK
  <2>3. Others(c) /\ pc'[c] = "upgrade" /\ held'[c] = held[c] \ {h}
    BY <1>1, <1>5 DEF UpgradeRelease, Begin, Goto, Others, ClientOK
  <2>4. \A g \in held'[c] : g.bcb \in BCBs \ {h.bcb}
    BY <2>3 DEF LatchInv, Owns, ClientOK, Handles
  <2>5. Owns(c)'
    BY <2>2, <2>3, <2>4 DEF LatchInv, Owns, Locating
  <2>6. QED
    BY <2>2, <2>3, <2>5, OthersOwn DEF LatchInv
<1>6. QED
  BY <1>2, <1>3, <1>4, <1>5

(* The steps of a call that leave the latches alone. *)
LEMMA ProceedQuiet ==
  ASSUME NEW c \in Clients, TypeInv, LatchInv,
         \/ FixLookup(c) \/ FixWalk(c) \/ PopCheck(c) \/ Pop(c) \/ Link(c) \/ PopFrame(c)
         \/ TryBucket(c) \/ AssertFails(c) \/ (\E b \in todo[c] : FlushNext(c, b))
         \/ FlushDone(c) \/ ResetHead(c) \/ ResetWalk(c)
         \/ (\E h \in Buckets : PickBucket(c, h))
  PROVE  LatchInv'
<1> USE DEF TypeInv, TypeOK, ClientOK, Goto, Others, Locating, latchVars
<1>1. CASE FixLookup(c)
  BY <1>1, QuietLatch DEF FixLookup
<1>2. CASE FixWalk(c)
  BY <1>2, QuietLatch DEF FixWalk
<1>3. CASE PopCheck(c)
  BY <1>3, QuietLatch DEF PopCheck, localVars
<1>4. CASE Pop(c)
  BY <1>4, QuietLatch DEF Pop
<1>5. CASE Link(c)
  BY <1>5, QuietLatch DEF Link, localVars
<1>6. CASE PopFrame(c)
  BY <1>6, QuietLatch DEF PopFrame
<1>7. CASE TryBucket(c)
  BY <1>7, QuietLatch DEF TryBucket, localVars
<1>8. CASE AssertFails(c)
  BY <1>8, QuietLatch DEF AssertFails, localVars
<1>9. CASE FlushDone(c)
  BY <1>9, QuietLatch DEF FlushDone, Return
<1>10. CASE ResetHead(c)
  BY <1>10, QuietLatch DEF ResetHead, Return
<1>11. CASE ResetWalk(c)
  BY <1>11, QuietLatch DEF ResetWalk, Return
<1>12. CASE \E b \in todo[c] : FlushNext(c, b)
  BY <1>12, QuietLatch DEF FlushNext
<1>13. CASE \E h \in Buckets : PickBucket(c, h)
  BY <1>13, QuietLatch DEF PickBucket
<1>14. QED
  BY <1>1, <1>2, <1>3, <1>4, <1>5, <1>6, <1>7, <1>8, <1>9, <1>10, <1>11, <1>12, <1>13

(* The steps of a call that take or give back the latch of a BCB. *)
LEMMA ProceedLatch ==
  ASSUME NEW c \in Clients, TypeInv, LatchInv, Proceed(c)
  PROVE  LatchInv'
<1> USE DEF TypeInv, TypeOK
<1>1. CASE Claim(c)
  <2>1. newBCB[c] \in BCBs /\ LatchFree(newBCB[c])
    BY <1>1 DEF Claim, LockX, LocalsOK, NewSet
  <2>2. LatchExclusion' /\ LatchesKept(c) /\ latchX'[newBCB[c]] = {c} /\ latchS' = latchS
        /\ \A x \in BCBs \ {newBCB[c]} : latchX'[x] = latchX[x]
    BY <1>1, <2>1, LockXExcludes DEF Claim, LatchInv
  <2>3. Others(c) /\ pc'[c] = "link" /\ newBCB' = newBCB /\ held' = held
    BY <1>1 DEF Claim, Goto, localVars, Others, ClientOK
  <2>4. \A h \in held[c] : h.bcb \in BCBs \ {newBCB[c]}
    BY <2>1 DEF LatchInv, Owns, LatchFree, ClientOK, Handles
  <2>5. Owns(c)'
    BY <2>1, <2>2, <2>3, <2>4 DEF LatchInv, Owns, Locating
  <2>6. QED
    BY <2>2, <2>3, <2>5, OthersOwn DEF LatchInv

<1>2. CASE TryHead(c) \/ TryNext(c)
  BY <1>2, QuietLatch DEF TryHead, TryNext, latchVars, Goto, ClientOK, Others, Locating
<1>3. CASE TryVictim(c)
  <2> DEFINE b == victim[c]
  <2>1. CASE ~LatchFree(b)
    BY <1>3, <2>1, QuietLatch
    DEF TryVictim, LockX, latchVars, Goto, ClientOK, Others, Locating
  <2>2. CASE LatchFree(b)
    <3>1. b \in BCBs /\ newBCB[c] \in BCBs /\ LockX(b, c)
      BY <1>3, <2>2 DEF TryVictim, LocalsOK, VictimSet, NewSet, Locating
    <3>2. LatchExclusion' /\ LatchesKept(c) /\ latchX'[b] = {c} /\ latchS' = latchS
          /\ \A x \in BCBs \ {b} : latchX'[x] = latchX[x]
      BY <2>2, <3>1, LockXExcludes DEF LatchInv
    <3>3. /\ Others(c) /\ pc'[c] \in {"evictHead", "evictNext"} /\ victim'[c] = b
          /\ newBCB' = newBCB /\ held' = held
      BY <1>3, <2>2 DEF TryVictim, Goto, Others, ClientOK
    <3>4. \A h \in held[c] : h.bcb \in BCBs \ {b}
      <4>1. \A h \in held[c] : h.bcb \in BCBs /\ c \in latchX[h.bcb] \cup latchS[h.bcb]
        BY DEF LatchInv, Owns, ClientOK, Handles
      <4>2. QED
        BY <2>2, <4>1 DEF LatchFree
    <3>5. c \in latchX[newBCB[c]] /\ b # newBCB[c] /\ \A h \in held[c] : h.bcb # newBCB[c]
      BY <1>3, <2>2 DEF TryVictim, LatchInv, Owns, Locating, LatchFree
    <3>6. Owns(c)'
      BY <3>1, <3>2, <3>3, <3>4, <3>5 DEF LatchInv, Owns, Locating
    <3>7. QED
      BY <3>2, <3>3, <3>6, OthersOwn DEF LatchInv
  <2>3. QED
    BY <2>1, <2>2
<1>4. CASE Evict(c)
  <2>1. victim[c] \in BCBs /\ c \in latchX[victim[c]] \cup latchS[victim[c]]
    BY <1>4 DEF Evict, LocalsOK, LatchInv, Owns, Locating, NewSet, VictimSet
  <2>2. LatchExclusion' /\ LatchesKept(c)
        /\ \A x \in BCBs \ {victim[c]} : latchX'[x] = latchX[x] /\ latchS'[x] = latchS[x]
    BY <1>4, <2>1, UnlockExcludes DEF Evict, LatchInv
  <2>3. Others(c) /\ pc'[c] \in {"place"} /\ newBCB' = newBCB /\ held' = held
    BY <1>4 DEF Evict, Goto, localVars, Others, ClientOK
  <2>4. \A h \in held[c] : h.bcb \in BCBs \ {victim[c]}
    BY <1>4 DEF Evict, LatchInv, Owns, Locating, ClientOK, Handles
  <2>5. newBCB[c] \in BCBs \ {victim[c]} /\ c \in latchX[newBCB[c]]
        /\ \A h \in held[c] : h.bcb # newBCB[c]
    BY <1>4 DEF Evict, LatchInv, Owns, Locating, LocalsOK, NewSet
  <2>6. Owns(c)'
    BY <2>2, <2>3, <2>4, <2>5 DEF LatchInv, Owns, Locating
  <2>7. QED
    BY <2>2, <2>3, <2>6, OthersOwn DEF LatchInv
<1>5. CASE Place(c)
  <2>1. newBCB[c] \in BCBs /\ c \in latchX[newBCB[c]] \cup latchS[newBCB[c]]
    BY <1>5 DEF Place, LocalsOK, LatchInv, Owns, Locating, NewSet, VictimSet
  <2>2. LatchExclusion' /\ LatchesKept(c)
        /\ \A x \in BCBs \ {newBCB[c]} : latchX'[x] = latchX[x] /\ latchS'[x] = latchS[x]
    BY <1>5, <2>1, UnlockExcludes DEF Place, LatchInv
  <2>3. Others(c) /\ pc'[c] \in {"readLatch", "emptyLatch"} /\ newBCB' = newBCB /\ held' = held
    BY <1>5 DEF Place, Goto, localVars, Others, ClientOK
  <2>4. \A h \in held[c] : h.bcb \in BCBs \ {newBCB[c]}
    BY <1>5 DEF Place, LatchInv, Owns, Locating, ClientOK, Handles
  <2>5. Owns(c)'
    BY <2>2, <2>3, <2>4 DEF LatchInv, Owns, Locating
  <2>6. QED
    BY <2>2, <2>3, <2>5, OthersOwn DEF LatchInv
<1>6. CASE Read(c)
  <2>1. newBCB[c] \in BCBs /\ c \in latchX[newBCB[c]] \cup latchS[newBCB[c]]
    BY <1>6 DEF Read, LocalsOK, LatchInv, Owns, Locating, NewSet, VictimSet
  <2>2. LatchExclusion' /\ LatchesKept(c)
        /\ \A x \in BCBs \ {newBCB[c]} : latchX'[x] = latchX[x] /\ latchS'[x] = latchS[x]
    BY <1>6, <2>1, UnlockExcludes DEF Read, LatchInv
  <2>3. Others(c) /\ pc'[c] \in {"latch"} /\ newBCB' = newBCB /\ held' = held
    BY <1>6 DEF Read, Goto, localVars, Others, ClientOK
  <2>4. \A h \in held[c] : h.bcb \in BCBs \ {newBCB[c]}
    BY <1>6 DEF Read, LatchInv, Owns, Locating, ClientOK, Handles
  <2>5. Owns(c)'
    BY <2>2, <2>3, <2>4 DEF LatchInv, Owns, Locating
  <2>6. QED
    BY <2>2, <2>3, <2>5, OthersOwn DEF LatchInv
<1>7. CASE ReadLatch(c)
  <2>1. newBCB[c] \in BCBs /\ c \notin latchX[newBCB[c]] \cup latchS[newBCB[c]]
    BY <1>7 DEF ReadLatch, LockS, LocalsOK, NewSet
  <2>2. LatchExclusion' /\ LatchesKept(c) /\ c \in latchS'[newBCB[c]] /\ latchX' = latchX
        /\ \A x \in BCBs \ {newBCB[c]} : latchS'[x] = latchS[x]
    BY <1>7, <2>1, LockSExcludes DEF ReadLatch, LatchInv
  <2>3. Others(c) /\ pc'[c] = "read" /\ newBCB' = newBCB /\ held' = held
    BY <1>7 DEF ReadLatch, Goto, localVars, Others, ClientOK
  <2>4. \A h \in held[c] : h.bcb \in BCBs \ {newBCB[c]}
    BY <2>1 DEF LatchInv, Owns, ClientOK, Handles
  <2>5. Owns(c)'
    BY <2>2, <2>3, <2>4 DEF LatchInv, Owns, Locating
  <2>6. QED
    BY <2>2, <2>3, <2>5, OthersOwn DEF LatchInv
<1>8. CASE Latch(c)
  <2> DEFINE b == ptr[c]
             m == call[c].mode
  <2>1. b \in BCBs /\ c \notin latchX[b] \cup latchS[b]
    BY <1>8 DEF Latch, Lock, LockS, LockX, LatchFree, LocalsOK, PtrSet
  <2>2. LatchExclusion' /\ LatchesKept(c)
        /\ c \in (IF m = "X" THEN latchX'[b] ELSE latchS'[b])
        /\ \A x \in BCBs \ {b} : latchX'[x] = latchX[x] /\ latchS'[x] = latchS[x]
    BY <1>8, <2>1, LockXExcludes, LockSExcludes DEF Latch, Lock, LatchInv
  <2>3. Others(c) /\ pc'[c] = "idle"
        /\ held'[c] = held[c] \cup {[bcb |-> b, page |-> Page(c), mode |-> m]}
    BY <1>8 DEF Latch, Return, Goto, Hold, Others, ClientOK
  <2>4. \A h \in held[c] : h.bcb \in BCBs \ {b}
    BY <2>1 DEF LatchInv, Owns, ClientOK, Handles
  <2>5. Owns(c)'
    BY <2>2, <2>3, <2>4 DEF LatchInv, Owns, Locating
  <2>6. QED
    BY <2>2, <2>3, <2>5, OthersOwn DEF LatchInv
<1>9. CASE EmptyLatch(c)
  <2> DEFINE b == newBCB[c]
  <2>1. b \in BCBs /\ c \notin latchX[b] \cup latchS[b]
    BY <1>9 DEF EmptyLatch, LockX, LatchFree, LocalsOK, NewSet
  <2>2. LatchExclusion' /\ LatchesKept(c)
        /\ c \in latchX'[b]
        /\ \A x \in BCBs \ {b} : latchX'[x] = latchX[x] /\ latchS'[x] = latchS[x]
    BY <1>9, <2>1, LockXExcludes DEF EmptyLatch, LatchInv
  <2>3. Others(c) /\ pc'[c] = "idle"
        /\ held'[c] = held[c] \cup {[bcb |-> b, page |-> Page(c), mode |-> "X"]}
    BY <1>9 DEF EmptyLatch, Return, Goto, Hold, Others, ClientOK
  <2>4. \A h \in held[c] : h.bcb \in BCBs \ {b}
    BY <2>1 DEF LatchInv, Owns, ClientOK, Handles
  <2>5. Owns(c)'
    BY <2>2, <2>3, <2>4 DEF LatchInv, Owns, Locating
  <2>6. QED
    BY <2>2, <2>3, <2>5, OthersOwn DEF LatchInv
<1>10. CASE UpgradeAcquire(c)
  <2> DEFINE b == ptr[c]
  <2>1. b \in BCBs /\ c \notin latchX[b] \cup latchS[b]
    BY <1>10 DEF UpgradeAcquire, LockX, LatchFree, LocalsOK, PtrSet
  <2>2. LatchExclusion' /\ LatchesKept(c)
        /\ c \in latchX'[b]
        /\ \A x \in BCBs \ {b} : latchX'[x] = latchX[x] /\ latchS'[x] = latchS[x]
    BY <1>10, <2>1, LockXExcludes DEF UpgradeAcquire, LatchInv
  <2>3. Others(c) /\ pc'[c] = "idle"
        /\ held'[c] = held[c] \cup {[bcb |-> b, page |-> Page(c), mode |-> "X"]}
    BY <1>10 DEF UpgradeAcquire, Return, Goto, Hold, Others, ClientOK
  <2>4. \A h \in held[c] : h.bcb \in BCBs \ {b}
    BY <2>1 DEF LatchInv, Owns, ClientOK, Handles
  <2>5. Owns(c)'
    BY <2>2, <2>3, <2>4 DEF LatchInv, Owns, Locating
  <2>6. QED
    BY <2>2, <2>3, <2>5, OthersOwn DEF LatchInv
<1>11. CASE ResetFree(c)
  <2>1. victim[c] \in BCBs /\ LatchFree(victim[c])
    BY <1>11 DEF ResetFree, LocalsOK, VictimSet
  <2>2. LatchExclusion' /\ LatchesKept(c)
    BY <1>11, <2>1
    DEF ResetFree, LatchInv, LatchExclusion, LatchesKept, LatchOK, LatchFree
  <2>3. Others(c) /\ pc'[c] = "idle" /\ held' = held
    BY <1>11 DEF ResetFree, Return, Goto, Others, ClientOK
  <2>4. Owns(c)'
    BY <1>11, <2>3 DEF ResetFree, LatchInv, Owns, Locating
  <2>5. QED
    BY <2>2, <2>3, <2>4, OthersOwn DEF LatchInv
<1>12. QED
  BY ProceedQuiet, <1>1, <1>2, <1>3, <1>4, <1>5, <1>6, <1>7, <1>8, <1>9, <1>10, <1>11
  DEF Proceed

LEMMA NextLatch == TypeInv /\ LatchInv /\ [Next]_vars => LatchInv'
<1> SUFFICES ASSUME TypeInv, LatchInv, [Next]_vars PROVE LatchInv'
  OBVIOUS
<1>1. CASE UNCHANGED vars
  BY <1>1 DEF LatchInv, LatchExclusion, Owns, vars, latchVars, localVars
<1>2. ASSUME NEW c \in Clients, Step(c) PROVE LatchInv'
  BY <1>2, ProceedLatch, ProceedQuiet, UseLatch, RequestLatch DEF Step
<1>3. QED
  BY <1>1, <1>2, RestartLatch DEF Next

LEMMA Invariant == Spec => [](TypeInv /\ LatchInv)
  BY InitType, NextType, InitLatch, NextLatch, PTL DEF Spec

(* However many clients call the buffer manager in whatever order: the     *)
(* invariant of the latches, one exclusive or several shared owners of a   *)
(* page, and every handed out page really latched for the one who holds it.*)
THEOREM LatchesOwned == Spec => []LatchInv
  BY Invariant, PTL

THEOREM LatchesExclude == Spec => []LatchExclusion
<1>1. LatchInv => LatchExclusion
  BY DEF LatchInv
<1>2. QED
  BY Invariant, <1>1, PTL

THEOREM HeldPagesLatched == Spec => []HandlesLatched
<1>1. LatchInv => HandlesLatched
  BY DEF LatchInv, HandlesLatched, Owns
<1>2. QED
  BY Invariant, <1>1, PTL

LEMMA ProceedStable ==
  ASSUME NEW c \in Clients, TypeInv, LatchInv, Proceed(c),
         NEW d \in Clients, NEW h \in held[d]
  PROVE  pid'[h.bcb] = pid[h.bcb] /\ frameIndex'[h.bcb] = frameIndex[h.bcb]
<1> USE DEF TypeInv, TypeOK
<1>1. h.bcb \in BCBs /\ d \in latchX[h.bcb] \cup latchS[h.bcb]
  BY DEF LatchInv, Owns, ClientOK, Handles
<1>2. CASE Claim(c)
  BY <1>1, <1>2 DEF Claim, LockX, LatchFree, BCBOK
<1>3. CASE Place(c)
  <2>1. newBCB[c] \in BCBs /\ c \in latchX[newBCB[c]]
        /\ \A g \in held[c] : g.bcb # newBCB[c]
    BY <1>3 DEF Place, LatchInv, Owns, Locating, LocalsOK, NewSet
  <2>2. h.bcb # newBCB[c]
    BY <1>1, <2>1 DEF LatchInv, LatchExclusion, LatchOK
  <2>3. QED
    BY <1>3, <1>1, <2>2 DEF Place, BCBOK
<1>4. CASE pid' = pid /\ frameIndex' = frameIndex
  BY <1>4
<1>5. (pid' = pid /\ frameIndex' = frameIndex) \/ Claim(c) \/ Place(c)
  BY DEF Proceed, FixLookup, FixWalk, PopCheck, Pop, Link, PopFrame, TryBucket, TryHead,
         TryNext, TryVictim, Evict, ReadLatch, Read, Latch, EmptyLatch, AssertFails, UpgradeAcquire,
         FlushNext, FlushDone, ResetHead, ResetWalk, ResetFree, bcbVars
<1>6. QED
  BY <1>2, <1>3, <1>4, <1>5

(* No client's page is taken away: no step of any client changes the page  *)
(* or the frame of a control block somebody keeps fixed.                   *)
THEOREM HeldPagesStable == Spec => HandleStable
<1>1. TypeInv /\ LatchInv /\ [Next]_vars => [HandlesKept]_vars
  <2> SUFFICES ASSUME TypeInv, LatchInv, Next PROVE HandlesKept
    OBVIOUS
  <2>1. CASE Restart
    BY <2>1 DEF Restart, HandlesKept
  <2>2. ASSUME NEW c \in Clients, Proceed(c) PROVE HandlesKept
    BY <2>2, ProceedStable DEF HandlesKept
  <2>3. ASSUME NEW c \in Clients, Use(c) \/ Request(c) \/ \E h \in Buckets : PickBucket(c, h)
        PROVE  HandlesKept
    BY <2>3
    DEF HandlesKept, Use, Write, Unfix, FlushPage, UpgradeRelease, Request, CallFlushAll, CallEmptyFix,
        CallReset, CallFix, PickBucket, bcbVars
  <2>4. QED
    BY <2>1, <2>2, <2>3 DEF Next, Step
<1>2. QED
  BY Invariant, <1>1, PTL DEF Spec, HandleStable
=============================================================================
