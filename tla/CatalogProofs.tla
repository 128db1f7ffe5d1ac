----------------------------- MODULE CatalogProofs -----------------------------
(***************************************************************************)
(* What holds of Catalog for any names, files, devices and rows, and any   *)
(* number of identifiers below the wrap of the counters, when there is one *)
(* master partition: a process that boots a second one runs on a mixture   *)
(* of both (MasterInUse).  And as long as no page is taken from a FSIP     *)
(* that a second shutdown, or a drop after a first one, has spoilt         *)
(* (SoundAllocs): with such a page segments overlap (SegmentsHavePages).   *)
(*                                                                         *)
(* P and S are the tuples of the two master segments, wherever they are:   *)
(* in the file of the master partition, or in a segment object.  Sound is  *)
(* about these tuples and the files they name, Mapped about the managers'  *)
(* maps, Objects about their objects, Kept about where P and S are.        *)
(***************************************************************************)
EXTENDS Catalog, WellFoundedInduction, TLAPS

Home == CHOOSE m \in Masters : TRUE
OneMaster == Masters = {Home}

(* No page is taken from a FSIP on which an object was stored or erased     *)
(* again (torn).                                                            *)
SoundAllocs == "torn" \notin Allocs

(* A path without a file is told from one with a file: None is no function. *)
NoneApart == \A f : f = [i \in DOMAIN f |-> f[i]] => f # None

PartTuples ==
  [id : 0 .. MaxPartID - 1, name : PartNames \cup {MasterPart}, path : Paths,
   type : {FileType, RawType}]
SegTuples ==
  [id : 0 .. MaxSegID - 1, name : SegNames \cup {PartSeg, SegSeg},
   part : 0 .. MaxPartID - 1, first : FirstPages]

UniqueIDs(T) == \A t, u \in T : t.id = u.id => t = u
UniqueNames(T) == \A t, u \in T : t.name = u.name => t = u

(* Files and formatted devices hold segments at the pages they start at.    *)
FilesOK(d) ==
  /\ DOMAIN d = Paths
  /\ \A p \in Paths : d[p] # None => DOMAIN d[p] \subseteq FirstPages
  /\ \A p \in Devices : d[p] # None

Located(S, s, i, f) == \E t \in S : t.name = s /\ t.part = i /\ t.first = f

(* Identifiers, names and paths of partitions are apart, and so are those   *)
(* of segments and the pages where these start; every partition has a file, *)
(* every segment a page there; the master partition and its two segments    *)
(* are among them.                                                          *)
Sound(P, S, d) ==
  /\ P \subseteq PartTuples /\ UniqueIDs(P) /\ UniqueNames(P)
  /\ \A t, u \in P : t.path = u.path => t = u
  /\ \A t \in P : d[t.path] # None
  /\ S \subseteq SegTuples /\ UniqueIDs(S) /\ UniqueNames(S)
  /\ \A t, u \in S : t.part = u.part /\ t.first = u.first => t = u
  /\ \A t \in S : \E u \in P : u.id = t.part /\ t.first \in DOMAIN d[u.path]
  /\ \E t \in P : /\ t.name = MasterPart /\ t.path = Home
                  /\ Located(S, PartSeg, t.id, PartIndex) /\ Located(S, SegSeg, t.id, SegIndex)

Mapped(P, S) ==
  /\ partsByID = ByID(P) /\ partsByName = ByName(P)
  /\ segsByID = ByID(S) /\ segsByName = ByName(S)

(* The objects are those of the tuples with their identifiers.              *)
Objects ==
  /\ \A i \in DOMAIN partObjs : i \in DOMAIN partsByID /\ partObjs[i] = partsByID[i].path
  /\ \A i \in DOMAIN segObjs :
       /\ i \in DOMAIN segsByID
       /\ segObjs[i] = [path |-> partsByID[segsByID[i].part].path,
                        first |-> segsByID[i].first, rows |-> segObjs[i].rows]

(* The rows of segment i, which starts at page f of the master partition.   *)
Kept(i, f, T) ==
  IF i \in DOMAIN segObjs THEN segObjs[i].rows = T ELSE disk[Home][f] = T

Live(P, S) ==
  /\ Sound(P, S, disk) /\ Mapped(P, S) /\ Objects
  /\ Kept(segsByName[PartSeg], PartIndex, P) /\ Kept(segsByName[SegSeg], SegIndex, S)

Beyond(T, c) == \A t \in T : t.id < c

(* A process that has not yet installed or booted.                          *)
Blank ==
  /\ partObjs = Nowhere /\ partsByID = Nowhere /\ partsByName = Nowhere
  /\ segObjs = Nowhere /\ segsByID = Nowhere /\ segsByName = Nowhere

Uninstalled ==
  /\ mode = "idle" /\ Blank /\ disk[Home] = None /\ partCounter = 1 /\ segCounter = 0
Unbooted ==
  /\ mode = "idle" /\ Blank /\ disk[Home] # None
  /\ Sound(disk[Home][PartIndex], disk[Home][SegIndex], disk)
Booted ==
  \E P, S :
    /\ Live(P, S)
    /\ IF mode = "idle" THEN disk[Home][PartIndex] = P /\ disk[Home][SegIndex] = S
       ELSE Beyond(P, partCounter) /\ Beyond(S, segCounter) /\ master = Home

Typed ==
  /\ mode \in {"idle", "running", "aborted"}
  /\ master \in Masters \cup {None}
  /\ partCounter \in 0 .. Width8 - 1 /\ segCounter \in 0 .. Width16 - 1

IInv == Typed /\ FilesOK(disk) /\ (Uninstalled \/ Unbooted \/ Booted)

-----------------------------------------------------------------------------
(* The maps that load makes of tuples, and how they change with them.       *)
LEMMA ByIDIs ==
  ASSUME NEW T, UniqueIDs(T)
  PROVE  /\ DOMAIN ByID(T) = {t.id : t \in T}
         /\ \A t \in T : ByID(T)[t.id] = t
         /\ \A i \in DOMAIN ByID(T) : ByID(T)[i] \in T /\ ByID(T)[i].id = i
<1> DEFINE c(i) == CHOOSE t \in T : t.id = i
<1>1. ASSUME NEW t \in T PROVE c(t.id) = t
  <2>1. c(t.id) \in T /\ c(t.id).id = t.id OBVIOUS
  <2> QED BY <2>1 DEF UniqueIDs
<1> QED BY <1>1 DEF ByID

LEMMA ByNameIs ==
  ASSUME NEW T, UniqueNames(T)
  PROVE  /\ DOMAIN ByName(T) = {t.name : t \in T}
         /\ \A t \in T : ByName(T)[t.name] = t.id
<1> DEFINE c(n) == CHOOSE t \in T : t.name = n
<1>1. ASSUME NEW t \in T PROVE c(t.name) = t
  <2>1. c(t.name) \in T /\ c(t.name).name = t.name OBVIOUS
  <2> QED BY <2>1 DEF UniqueNames
<1> QED BY <1>1 DEF ByName

LEMMA ByIDAdd ==
  ASSUME NEW T, UniqueIDs(T), NEW t, \A u \in T : u.id # t.id
  PROVE  UniqueIDs(T \cup {t}) /\ ByID(T \cup {t}) = Put(ByID(T), t.id, t)
<1> DEFINE U == T \cup {t}
<1>1. UniqueIDs(U) BY DEF UniqueIDs
<1> HIDE DEF U
<1>2. DOMAIN ByID(U) = {u.id : u \in U} /\ \A u \in U : ByID(U)[u.id] = u BY <1>1, ByIDIs
<1>3. DOMAIN ByID(T) = {u.id : u \in T} /\ \A u \in T : ByID(T)[u.id] = u BY ByIDIs
<1>4. DOMAIN ByID(U) = DOMAIN ByID(T) \cup {t.id} BY <1>2, <1>3 DEF U
<1>5. ASSUME NEW i \in DOMAIN ByID(U)
      PROVE  ByID(U)[i] = IF i = t.id THEN t ELSE ByID(T)[i]
  <2>1. PICK u \in U : u.id = i BY <1>2, <1>5
  <2> QED BY <1>2, <1>3, <2>1 DEF U
<1>6. ByID(U) = [i \in DOMAIN ByID(U) |-> ByID(U)[i]] BY DEF ByID
<1> QED BY <1>1, <1>4, <1>5, <1>6 DEF Put, U

LEMMA ByNameAdd ==
  ASSUME NEW T, UniqueNames(T), NEW t, \A u \in T : u.name # t.name
  PROVE  UniqueNames(T \cup {t}) /\ ByName(T \cup {t}) = Put(ByName(T), t.name, t.id)
<1> DEFINE U == T \cup {t}
<1>1. UniqueNames(U) BY DEF UniqueNames
<1> HIDE DEF U
<1>2. DOMAIN ByName(U) = {u.name : u \in U} /\ \A u \in U : ByName(U)[u.name] = u.id
  BY <1>1, ByNameIs
<1>3. DOMAIN ByName(T) = {u.name : u \in T} /\ \A u \in T : ByName(T)[u.name] = u.id
  BY ByNameIs
<1>4. DOMAIN ByName(U) = DOMAIN ByName(T) \cup {t.name} BY <1>2, <1>3 DEF U
<1>5. ASSUME NEW n \in DOMAIN ByName(U)
      PROVE  ByName(U)[n] = IF n = t.name THEN t.id ELSE ByName(T)[n]
  <2>1. PICK u \in U : u.name = n BY <1>2, <1>5
  <2> QED BY <1>2, <1>3, <2>1 DEF U
<1>6. ByName(U) = [n \in DOMAIN ByName(U) |-> ByName(U)[n]] BY DEF ByName
<1> QED BY <1>1, <1>4, <1>5, <1>6 DEF Put, U

LEMMA ByIDRemove ==
  ASSUME NEW T, UniqueIDs(T), NEW R \in SUBSET T
  PROVE  UniqueIDs(T \ R) /\ ByID(T \ R) = Without(ByID(T), {t.id : t \in R})
<1> DEFINE U == T \ R
           I == {t.id : t \in R}
<1>1. UniqueIDs(U) BY DEF UniqueIDs
<1> HIDE DEF U
<1>2. DOMAIN ByID(U) = {u.id : u \in U} /\ \A u \in U : ByID(U)[u.id] = u BY <1>1, ByIDIs
<1>3. DOMAIN ByID(T) = {u.id : u \in T} /\ \A u \in T : ByID(T)[u.id] = u BY ByIDIs
<1>4. ASSUME NEW u \in T PROVE u.id \in I <=> u \in R BY DEF UniqueIDs
<1>5. DOMAIN ByID(U) = DOMAIN ByID(T) \ I BY <1>2, <1>3, <1>4 DEF U
<1>6. ASSUME NEW i \in DOMAIN ByID(U) PROVE ByID(U)[i] = ByID(T)[i]
  <2>1. PICK u \in U : u.id = i BY <1>2, <1>6
  <2> QED BY <1>2, <1>3, <2>1 DEF U
<1>7. ByID(U) = [i \in DOMAIN ByID(U) |-> ByID(U)[i]] BY DEF ByID
<1> HIDE DEF I
<1>8. ByID(U) = Without(ByID(T), I) BY <1>5, <1>6, <1>7 DEF Without, Restrict
<1> QED BY <1>1, <1>8 DEF U, I

LEMMA ByNameRemove ==
  ASSUME NEW T, UniqueNames(T), NEW R \in SUBSET T
  PROVE  UniqueNames(T \ R) /\ ByName(T \ R) = Without(ByName(T), {t.name : t \in R})
<1> DEFINE U == T \ R
           I == {t.name : t \in R}
<1>1. UniqueNames(U) BY DEF UniqueNames
<1> HIDE DEF U
<1>2. DOMAIN ByName(U) = {u.name : u \in U} /\ \A u \in U : ByName(U)[u.name] = u.id
  BY <1>1, ByNameIs
<1>3. DOMAIN ByName(T) = {u.name : u \in T} /\ \A u \in T : ByName(T)[u.name] = u.id
  BY ByNameIs
<1>4. ASSUME NEW u \in T PROVE u.name \in I <=> u \in R BY DEF UniqueNames
<1>5. DOMAIN ByName(U) = DOMAIN ByName(T) \ I BY <1>2, <1>3, <1>4 DEF U
<1>6. ASSUME NEW n \in DOMAIN ByName(U) PROVE ByName(U)[n] = ByName(T)[n]
  <2>1. PICK u \in U : u.name = n BY <1>2, <1>6
  <2> QED BY <1>2, <1>3, <2>1 DEF U
<1>7. ByName(U) = [n \in DOMAIN ByName(U) |-> ByName(U)[n]] BY DEF ByName
<1> HIDE DEF I
<1>8. ByName(U) = Without(ByName(T), I) BY <1>5, <1>6, <1>7 DEF Without, Restrict
<1> QED BY <1>1, <1>8 DEF U, I

(* The counter that load computes is beyond all identifiers.                *)
LEMMA LeastExists ==
  ASSUME NEW D \in SUBSET Nat, D # {}
  PROVE  \E i \in D : \A j \in D : i <= j
<1> DEFINE R == OpToRel(<, Nat)
<1>1. IsWellFoundedOn(R, Nat) BY NatLessThanWellFounded
<1>2. \A i, j \in Nat : <<j, i>> \in R <=> j < i BY DEF OpToRel
<1> HIDE DEF R
<1>3. \E i \in D : \A j \in D : ~(<<j, i>> \in R) BY <1>1, WFMin
<1>4. \A i, j \in Nat : ~(j < i) => i <= j BY SMT
<1> QED BY <1>2, <1>3, <1>4

LEMMA NextIDBeyond ==
  ASSUME NEW N \in Nat, NEW T, \A t \in T : t.id \in 0 .. N - 1, T # {}
  PROVE  NextID(T) \in 1 .. N /\ Beyond(T, NextID(T))
<1> DEFINE I == {t.id : t \in T}
           D == {N - i : i \in I}
           c == CHOOSE i \in I : \A t \in T : t.id <= i
<1>1. \A i \in I : i \in 0 .. N - 1 OBVIOUS
<1>2. I # {} /\ \A t \in T : t.id \in I OBVIOUS
<1> HIDE DEF I
<1>3. D # {} /\ D \in SUBSET Nat
  <2>1. \A i \in I : N - i \in Nat BY <1>1, SMT
  <2> QED BY <1>2, <2>1
<1>4. PICK d \in D : \A j \in D : d <= j BY <1>3, LeastExists
<1>5. PICK i \in I : d = N - i BY <1>4
<1>6. \A j \in I : j <= i
  <2> SUFFICES ASSUME NEW j \in I PROVE j <= i OBVIOUS
  <2>1. N - i <= N - j BY <1>4, <1>5
  <2> QED BY <1>1, <2>1, SMT
<1>7. \A t \in T : t.id <= i BY <1>2, <1>6
<1>8. c \in I /\ \A t \in T : t.id <= c BY <1>7
<1>9. NextID(T) = 1 + c BY DEF NextID, I
<1> HIDE DEF c
<1>10. 1 + c \in 1 .. N /\ \A j \in I : j <= c => j < 1 + c BY <1>1, <1>8, SMT
<1> QED BY <1>2, <1>8, <1>9, <1>10 DEF Beyond

-----------------------------------------------------------------------------
LEMMA Paths0 ==
  ASSUME OneMaster
  PROVE  /\ Home \in Masters /\ Home \in Paths /\ Home # None
         /\ Home \notin Files /\ Home \notin Devices
         /\ \A m \in Masters : m = Home
<1>1. Home \in Masters /\ \A m \in Masters : m = Home BY DEF OneMaster
<1>2. /\ None \notin Masters \cup Files \cup Devices
      /\ Masters \cap Files = {} /\ Devices \cap (Masters \cup Files) = {}
  BY CatalogAssumption
<1> QED BY <1>1, <1>2 DEF Paths

LEMMA TupleTypes ==
  /\ \A t \in PartTuples : /\ t.id \in 0 .. MaxPartID - 1 /\ t.name \in PartNames \cup {MasterPart}
                           /\ t.path \in Paths
  /\ \A t \in SegTuples : /\ t.id \in 0 .. MaxSegID - 1 /\ t.name \in SegNames \cup {PartSeg, SegSeg}
                          /\ t.part \in 0 .. MaxPartID - 1 /\ t.first \in FirstPages
BY DEF PartTuples, SegTuples

(* What the maps of a live catalog find.                                    *)
LEMMA Lookups ==
  ASSUME NEW P, NEW S, Sound(P, S, disk), Mapped(P, S)
  PROVE  /\ \A i \in DOMAIN partsByID : partsByID[i] \in P /\ partsByID[i].id = i
         /\ \A t \in P : t.id \in DOMAIN partsByID /\ partsByID[t.id] = t
         /\ DOMAIN partsByName = {t.name : t \in P}
         /\ \A t \in P : partsByName[t.name] = t.id
         /\ \A i \in DOMAIN segsByID : segsByID[i] \in S /\ segsByID[i].id = i
         /\ \A t \in S : t.id \in DOMAIN segsByID /\ segsByID[t.id] = t
         /\ DOMAIN segsByName = {t.name : t \in S}
         /\ \A t \in S : segsByName[t.name] = t.id
<1>1. UniqueIDs(P) /\ UniqueNames(P) /\ UniqueIDs(S) /\ UniqueNames(S) BY DEF Sound
<1>2. /\ DOMAIN ByID(P) = {t.id : t \in P} /\ \A t \in P : ByID(P)[t.id] = t
      /\ \A i \in DOMAIN ByID(P) : ByID(P)[i] \in P /\ ByID(P)[i].id = i
  BY <1>1, ByIDIs
<1>3. /\ DOMAIN ByID(S) = {t.id : t \in S} /\ \A t \in S : ByID(S)[t.id] = t
      /\ \A i \in DOMAIN ByID(S) : ByID(S)[i] \in S /\ ByID(S)[i].id = i
  BY <1>1, ByIDIs
<1>4. /\ DOMAIN ByName(P) = {t.name : t \in P} /\ \A t \in P : ByName(P)[t.name] = t.id
      /\ DOMAIN ByName(S) = {t.name : t \in S} /\ \A t \in S : ByName(S)[t.name] = t.id
  BY <1>1, ByNameIs
<1> QED BY <1>2, <1>3, <1>4 DEF Mapped

(* Where partitions and segments are, and what the objects hold.            *)
LEMMA PartitionFacts ==
  ASSUME OneMaster, NEW P, NEW S, Live(P, S)
  PROVE  \A i \in DOMAIN partsByID :
           /\ partsByID[i] \in P /\ partsByID[i].id = i
           /\ PathOf(i) = partsByID[i].path /\ PathOf(i) \in Paths /\ disk[PathOf(i)] # None
           /\ \A j \in DOMAIN partsByID : PathOf(i) = PathOf(j) => i = j
<1>1. Sound(P, S, disk) /\ Mapped(P, S) /\ Objects BY DEF Live
<1>2. \A i \in DOMAIN partsByID : partsByID[i] \in P /\ partsByID[i].id = i BY <1>1, Lookups
<1>3. \A i \in DOMAIN partsByID : PathOf(i) = partsByID[i].path BY <1>1 DEF Objects, PathOf
<1>4. \A t \in P : t.path \in Paths /\ disk[t.path] # None BY <1>1, TupleTypes DEF Sound
<1>5. \A t, u \in P : t.path = u.path => t = u BY <1>1 DEF Sound
<1>6. ASSUME NEW i \in DOMAIN partsByID, NEW j \in DOMAIN partsByID, PathOf(i) = PathOf(j)
      PROVE  i = j
  <2>1. partsByID[i] = partsByID[j] BY <1>2, <1>3, <1>5, <1>6
  <2> QED BY <1>2, <2>1
<1> QED BY <1>2, <1>3, <1>4, <1>6

SegPath(i) == partsByID[segsByID[i].part].path

LEMMA SegmentFacts ==
  ASSUME OneMaster, NEW P, NEW S, Live(P, S)
  PROVE  \A i \in DOMAIN segsByID :
           /\ segsByID[i] \in S /\ segsByID[i].id = i
           /\ segsByID[i].part \in DOMAIN partsByID
           /\ SegPath(i) \in Paths /\ disk[SegPath(i)] # None
           /\ segsByID[i].first \in DOMAIN disk[SegPath(i)] /\ segsByID[i].first \in FirstPages
           /\ Opened(i) = [path |-> SegPath(i), first |-> segsByID[i].first,
                           rows |-> Opened(i).rows]
           /\ \A j \in DOMAIN segsByID :
                SegPath(i) = SegPath(j) /\ segsByID[i].first = segsByID[j].first => i = j
<1>1. Sound(P, S, disk) /\ Mapped(P, S) /\ Objects BY DEF Live
<1>2. \A i \in DOMAIN segsByID : segsByID[i] \in S /\ segsByID[i].id = i BY <1>1, Lookups
<1>3. \A t \in P : t.id \in DOMAIN partsByID /\ partsByID[t.id] = t BY <1>1, Lookups
<1>4. \A t \in S : /\ t.part \in DOMAIN partsByID /\ t.first \in FirstPages
                   /\ t.first \in DOMAIN disk[partsByID[t.part].path]
  <2>1. ASSUME NEW t \in S
        PROVE  t.part \in DOMAIN partsByID /\ t.first \in DOMAIN disk[partsByID[t.part].path]
    <3>1. PICK u \in P : u.id = t.part /\ t.first \in DOMAIN disk[u.path] BY <1>1 DEF Sound
    <3> QED BY <1>3, <3>1
  <2>2. \A t \in S : t.first \in FirstPages BY <1>1, TupleTypes DEF Sound
  <2> QED BY <2>1, <2>2
<1>5. \A i \in DOMAIN partsByID : PathOf(i) = partsByID[i].path /\ PathOf(i) \in Paths
                                  /\ disk[PathOf(i)] # None
                                  /\ \A j \in DOMAIN partsByID : PathOf(i) = PathOf(j) => i = j
  BY PartitionFacts
<1>6. ASSUME NEW i \in DOMAIN segsByID
      PROVE  Opened(i) = [path |-> SegPath(i), first |-> segsByID[i].first, rows |-> Opened(i).rows]
  <2>1. CASE i \in DOMAIN segObjs
    <3>1. segObjs[i] = [path |-> SegPath(i), first |-> segsByID[i].first, rows |-> segObjs[i].rows]
      BY <1>1, <2>1 DEF Objects, SegPath
    <3>2. Opened(i) = segObjs[i] BY <2>1 DEF Opened
    <3> QED BY <3>1, <3>2
  <2>2. CASE i \notin DOMAIN segObjs
    <3>1. PathOf(segsByID[i].part) = SegPath(i) BY <1>2, <1>4, <1>5 DEF SegPath
    <3>2. Opened(i) = [path |-> SegPath(i), first |-> segsByID[i].first,
                       rows |-> StoredRows(SegPath(i), segsByID[i].first)]
      BY <2>2, <3>1 DEF Opened
    <3> QED BY <3>2
  <2> QED BY <2>1, <2>2
<1>7. ASSUME NEW i \in DOMAIN segsByID, NEW j \in DOMAIN segsByID,
             SegPath(i) = SegPath(j), segsByID[i].first = segsByID[j].first
      PROVE  i = j
  <2>1. segsByID[i].part = segsByID[j].part BY <1>2, <1>4, <1>5, <1>7 DEF SegPath
  <2>2. segsByID[i] = segsByID[j] BY <1>1, <1>2, <1>7, <2>1 DEF Sound
  <2> QED BY <1>2, <2>2
<1>8. \A i \in DOMAIN segsByID : SegPath(i) \in Paths /\ disk[SegPath(i)] # None
  BY <1>2, <1>4, <1>5 DEF SegPath
<1> QED BY <1>2, <1>4, <1>6, <1>7, <1>8 DEF SegPath

(* The master segments, and the rows that the managers see in them.         *)
LEMMA MasterFacts ==
  ASSUME OneMaster, NEW P, NEW S, Live(P, S)
  PROVE  LET p == segsByName[PartSeg]  s == segsByName[SegSeg]  h == partsByName[MasterPart] IN
         /\ p \in DOMAIN segsByID /\ s \in DOMAIN segsByID /\ p # s
         /\ segsByID[p].name = PartSeg /\ segsByID[s].name = SegSeg
         /\ segsByID[p].first = PartIndex /\ segsByID[s].first = SegIndex
         /\ h \in DOMAIN partsByID /\ partsByID[h].name = MasterPart /\ partsByID[h].path = Home
         /\ segsByID[p].part = h /\ segsByID[s].part = h
         /\ SegPath(p) = Home /\ SegPath(s) = Home
         /\ disk[Home] # None /\ PartIndex \in DOMAIN disk[Home] /\ SegIndex \in DOMAIN disk[Home]
         /\ Opened(p).rows = P /\ Opened(s).rows = S
<1> DEFINE p == segsByName[PartSeg]
           s == segsByName[SegSeg]
           h == partsByName[MasterPart]
<1>1. Sound(P, S, disk) /\ Mapped(P, S) /\ Objects BY DEF Live
<1>2. PICK t \in P : /\ t.name = MasterPart /\ t.path = Home
                     /\ Located(S, PartSeg, t.id, PartIndex) /\ Located(S, SegSeg, t.id, SegIndex)
  BY <1>1 DEF Sound
<1>3. h = t.id /\ h \in DOMAIN partsByID /\ partsByID[h] = t
  <2>1. partsByName[t.name] = t.id /\ t.id \in DOMAIN partsByID /\ partsByID[t.id] = t
    BY <1>1, Lookups
  <2> QED BY <1>2, <2>1
<1>4. PICK u \in S : u.name = PartSeg /\ u.part = t.id /\ u.first = PartIndex
  BY <1>2 DEF Located
<1>5. PICK v \in S : v.name = SegSeg /\ v.part = t.id /\ v.first = SegIndex
  BY <1>2 DEF Located
<1>6. p = u.id /\ p \in DOMAIN segsByID /\ segsByID[p] = u
  <2>1. segsByName[u.name] = u.id /\ u.id \in DOMAIN segsByID /\ segsByID[u.id] = u
    BY <1>1, Lookups
  <2> QED BY <1>4, <2>1
<1>7. s = v.id /\ s \in DOMAIN segsByID /\ segsByID[s] = v
  <2>1. segsByName[v.name] = v.id /\ v.id \in DOMAIN segsByID /\ segsByID[v.id] = v
    BY <1>1, Lookups
  <2> QED BY <1>5, <2>1
<1>8. p # s BY <1>4, <1>5, <1>6, <1>7 DEF PartIndex, SegIndex
<1>9. SegPath(p) = Home /\ SegPath(s) = Home BY <1>2, <1>3, <1>4, <1>5, <1>6, <1>7 DEF SegPath
<1>10. /\ disk[Home] # None /\ PartIndex \in DOMAIN disk[Home] /\ SegIndex \in DOMAIN disk[Home]
       /\ Opened(p).path = Home /\ Opened(p).first = PartIndex
       /\ Opened(s).path = Home /\ Opened(s).first = SegIndex
  BY <1>4, <1>5, <1>6, <1>7, <1>9, SegmentFacts
<1>11. PathOf(h) = Home BY <1>2, <1>3, PartitionFacts
<1>12. ASSUME NEW i, NEW f, NEW T, Kept(i, f, T), segsByID[i].part = h, segsByID[i].first = f,
              f \in DOMAIN disk[Home]
       PROVE  Opened(i).rows = T
  BY <1>10, <1>11, <1>12 DEF Kept, Opened, StoredRows
<1>13. Opened(p).rows = P /\ Opened(s).rows = S
  <2>1. Kept(p, PartIndex, P) /\ Kept(s, SegIndex, S) BY DEF Live
  <2>2. segsByID[p].part = h /\ segsByID[p].first = PartIndex BY <1>3, <1>4, <1>6
  <2>3. segsByID[s].part = h /\ segsByID[s].first = SegIndex BY <1>3, <1>5, <1>7
  <2> QED BY <1>10, <1>12, <2>1, <2>2, <2>3
<1> QED BY <1>2, <1>3, <1>4, <1>5, <1>6, <1>7, <1>8, <1>9, <1>10, <1>13

LEMMA NamesFound ==
  ASSUME NEW P, NEW S, Live(P, S)
  PROVE  /\ \A n \in DOMAIN partsByName :
              /\ partsByName[n] \in DOMAIN partsByID /\ partsByID[partsByName[n]] \in P
              /\ partsByID[partsByName[n]].name = n
         /\ \A n \in DOMAIN segsByName :
              /\ segsByName[n] \in DOMAIN segsByID /\ segsByID[segsByName[n]] \in S
              /\ segsByID[segsByName[n]].name = n
<1>1. Sound(P, S, disk) /\ Mapped(P, S) BY DEF Live
<1>2. /\ DOMAIN partsByName = {t.name : t \in P} /\ DOMAIN segsByName = {t.name : t \in S}
      /\ \A t \in P : partsByName[t.name] = t.id /\ t.id \in DOMAIN partsByID /\ partsByID[t.id] = t
      /\ \A t \in S : segsByName[t.name] = t.id /\ t.id \in DOMAIN segsByID /\ segsByID[t.id] = t
  BY <1>1, Lookups
<1> QED BY <1>2

-----------------------------------------------------------------------------
(* storeSegments and flushAll: the files stay what they are but for the     *)
(* rows, and these are the objects' where there is an object.               *)
LEMMA StoredFiles ==
  ASSUME NoneApart, NEW d, NEW o, FilesOK(d)
  PROVE  LET e == Stored(d, o) IN
         /\ FilesOK(e)
         /\ \A p \in Paths :
              /\ e[p] = None <=> d[p] = None
              /\ d[p] # None => DOMAIN e[p] = DOMAIN d[p]
<1> DEFINE e == Stored(d, o)
           At(p, f) == {i \in DOMAIN o : o[i].path = p /\ o[i].first = f}
           File(p) == [f \in DOMAIN d[p] |-> IF At(p, f) = {} THEN d[p][f]
                                             ELSE o[CHOOSE i \in At(p, f) : TRUE].rows]
<1>1. e = [p \in Paths |-> IF d[p] = None THEN None ELSE File(p)] BY DEF Stored
<1>2. \A p : DOMAIN File(p) = DOMAIN d[p] /\ File(p) = [f \in DOMAIN File(p) |-> File(p)[f]]
  OBVIOUS
<1> HIDE DEF e, File
<1>3. \A p : File(p) # None BY <1>2 DEF NoneApart
<1>4. ASSUME NEW p \in Paths
      PROVE  (e[p] = None <=> d[p] = None) /\ (d[p] # None => DOMAIN e[p] = DOMAIN d[p])
  BY <1>1, <1>2, <1>3
<1>5. DOMAIN e = Paths BY <1>1
<1>6. Devices \subseteq Paths BY DEF Paths
<1>7. FilesOK(e) BY <1>4, <1>5, <1>6 DEF FilesOK
<1> QED BY <1>4, <1>7 DEF e

LEMMA StoredRow ==
  ASSUME NEW d, NEW o, NEW p \in Paths, d[p] # None, NEW f \in DOMAIN d[p]
  PROVE  /\ (\A i \in DOMAIN o : ~(o[i].path = p /\ o[i].first = f)) => Stored(d, o)[p][f] = d[p][f]
         /\ \A i \in DOMAIN o :
              /\ o[i].path = p /\ o[i].first = f
              /\ \A j \in DOMAIN o : o[j].path = p /\ o[j].first = f => j = i
              => Stored(d, o)[p][f] = o[i].rows
<1> DEFINE A == {i \in DOMAIN o : o[i].path = p /\ o[i].first = f}
<1>1. Stored(d, o)[p][f] = IF A = {} THEN d[p][f] ELSE o[CHOOSE i \in A : TRUE].rows
  BY DEF Stored
<1>2. ASSUME NEW i \in DOMAIN o, o[i].path = p, o[i].first = f,
             \A j \in DOMAIN o : o[j].path = p /\ o[j].first = f => j = i
      PROVE  Stored(d, o)[p][f] = o[i].rows
  <2>1. A = {i} BY <1>2
  <2>2. (CHOOSE k \in {i} : TRUE) = i OBVIOUS
  <2> HIDE DEF A
  <2> QED BY <1>1, <2>1, <2>2
<1>3. ASSUME \A i \in DOMAIN o : ~(o[i].path = p /\ o[i].first = f) PROVE A = {} BY <1>3
<1> HIDE DEF A
<1> QED BY <1>1, <1>2, <1>3

LEMMA SoundKept ==
  ASSUME NEW P, NEW S, NEW d, NEW e, Sound(P, S, d),
         \A t \in P : e[t.path] # None /\ DOMAIN d[t.path] \subseteq DOMAIN e[t.path]
  PROVE  Sound(P, S, e)
<1>1. ASSUME NEW t \in S PROVE \E u \in P : u.id = t.part /\ t.first \in DOMAIN e[u.path]
  <2>1. PICK u \in P : u.id = t.part /\ t.first \in DOMAIN d[u.path] BY DEF Sound
  <2> QED BY <2>1
<1> QED BY <1>1 DEF Sound

(* Files that differ from those on disk, but have what the tuples name and  *)
(* the same rows in the master segments.                                    *)
Serves(e, P) ==
  /\ FilesOK(e)
  /\ \A t \in P : e[t.path] # None /\ DOMAIN disk[t.path] \subseteq DOMAIN e[t.path]
  /\ e[Home][PartIndex] = disk[Home][PartIndex] /\ e[Home][SegIndex] = disk[Home][SegIndex]

LEMMA StoredCatalog ==
  ASSUME OneMaster, NoneApart, NEW P, NEW S, Live(P, S), NEW e, Serves(e, P)
  PROVE  LET c == Stored(e, segObjs) IN
         /\ FilesOK(c) /\ Sound(P, S, c) /\ c[Home] # None
         /\ c[Home][PartIndex] = P /\ c[Home][SegIndex] = S
<1> DEFINE c == Stored(e, segObjs)
           p == segsByName[PartSeg]
           s == segsByName[SegSeg]
<1>1. /\ FilesOK(c)
      /\ \A q \in Paths : /\ c[q] = None <=> e[q] = None
                          /\ e[q] # None => DOMAIN c[q] = DOMAIN e[q]
  BY StoredFiles DEF Serves
<1>2. Sound(P, S, disk) /\ Objects BY DEF Live
<1>3. \A t \in P : t.path \in Paths BY <1>2, TupleTypes DEF Sound
<1> HIDE DEF c
<1>4. \A t \in P : c[t.path] # None /\ DOMAIN disk[t.path] \subseteq DOMAIN c[t.path]
  BY <1>1, <1>3 DEF Serves
<1>5. Sound(P, S, c) BY <1>2, <1>4, SoundKept
<1>6. PICK t \in P : t.path = Home BY <1>2 DEF Sound
<1>7. e[Home] # None /\ DOMAIN disk[Home] \subseteq DOMAIN e[Home] /\ c[Home] # None /\ Home \in Paths
  BY <1>3, <1>4, <1>6 DEF Serves
<1>8. ASSUME NEW i \in DOMAIN segsByID, NEW f \in DOMAIN e[Home], NEW T, Kept(i, f, T),
             SegPath(i) = Home, segsByID[i].first = f, e[Home][f] = disk[Home][f]
      PROVE  c[Home][f] = T
  <2>1. \A j \in DOMAIN segObjs :
          /\ j \in DOMAIN segsByID
          /\ segObjs[j].path = SegPath(j) /\ segObjs[j].first = segsByID[j].first
    BY <1>2 DEF Objects, SegPath
  <2>2. \A j \in DOMAIN segObjs : segObjs[j].path = Home /\ segObjs[j].first = f => j = i
    BY <1>8, <2>1, SegmentFacts
  <2>3. CASE i \in DOMAIN segObjs
    <3>1. segObjs[i].path = Home /\ segObjs[i].first = f BY <1>8, <2>1, <2>3
    <3>2. c[Home][f] = segObjs[i].rows BY <1>7, <2>2, <2>3, <3>1, StoredRow DEF c
    <3> QED BY <1>8, <2>3, <3>2 DEF Kept
  <2>4. CASE i \notin DOMAIN segObjs
    <3>1. \A j \in DOMAIN segObjs : ~(segObjs[j].path = Home /\ segObjs[j].first = f)
      BY <2>2, <2>4
    <3>2. c[Home][f] = e[Home][f] BY <1>7, <3>1, StoredRow DEF c
    <3> QED BY <1>8, <2>4, <3>2 DEF Kept
  <2> QED BY <2>3, <2>4
<1>9. /\ p \in DOMAIN segsByID /\ s \in DOMAIN segsByID
      /\ segsByID[p].first = PartIndex /\ segsByID[s].first = SegIndex
      /\ SegPath(p) = Home /\ SegPath(s) = Home
      /\ PartIndex \in DOMAIN disk[Home] /\ SegIndex \in DOMAIN disk[Home]
  BY MasterFacts
<1>10. Kept(p, PartIndex, P) /\ Kept(s, SegIndex, S) BY DEF Live
<1>11. c[Home][PartIndex] = P /\ c[Home][SegIndex] = S
  BY <1>7, <1>8, <1>9, <1>10 DEF Serves
<1> QED BY <1>1, <1>5, <1>7, <1>11 DEF c

LEMMA DiskServes ==
  ASSUME NEW P, NEW S, FilesOK(disk), Sound(P, S, disk)
  PROVE  Serves(disk, P)
BY DEF Serves, Sound

-----------------------------------------------------------------------------
LEMMA NowhereIs == NoneApart => DOMAIN Nowhere = {} /\ Nowhere # None
<1>1. Nowhere = [i \in DOMAIN Nowhere |-> Nowhere[i]] /\ DOMAIN Nowhere = {} BY DEF Nowhere
<1> QED BY <1>1 DEF NoneApart

LEMMA MergedIs ==
  ASSUME NEW f, NEW g, g = [i \in DOMAIN g |-> g[i]], f = Nowhere \/ f = g
  PROVE  Merged(f, g) = g
<1>1. DOMAIN f \cup DOMAIN g = DOMAIN g BY DEF Nowhere
<1> QED BY <1>1 DEF Merged

LEMMA RunningBooted ==
  ASSUME IInv, mode = "running"
  PROVE  Booted /\ FilesOK(disk)
<1>1. mode # "idle" OBVIOUS
<1>2. ~Uninstalled /\ ~Unbooted BY <1>1 DEF Uninstalled, Unbooted
<1>3. Uninstalled \/ Unbooted \/ Booted BY DEF IInv
<1>4. FilesOK(disk) BY DEF IInv
<1> QED BY <1>2, <1>3, <1>4

LEMMA Widths ==
  /\ Width8 \in Nat /\ Width8 > 2 /\ Width16 \in Nat /\ Width16 > 2
  /\ MaxPartID \in Nat /\ MaxPartID > 0 /\ MaxPartID < Width8 /\ MaxSegID \in Nat /\ MaxSegID < Width16
<1>1. Width8 \in Nat /\ Width8 > 2 BY DEF Width8
<1>2. Width16 \in Nat /\ Width16 > 2 BY DEF Width16
<1>3. MaxPartID \in 1 .. Width8 - 1 /\ MaxSegID \in 0 .. Width16 - 1 BY CatalogAssumption
<1> QED BY <1>1, <1>2, <1>3, SMT

LEMMA InitKept ==
  ASSUME OneMaster, NoneApart, Init
  PROVE  IInv
<1>1. Home \in Paths /\ Home \notin Devices BY Paths0
<1>2. DOMAIN Nowhere = {} /\ Nowhere # None BY NowhereIs
<1>3. disk[Home] = None BY <1>1 DEF Init
<1>4. FilesOK(disk) BY <1>2 DEF Init, FilesOK, Paths
<1>5. Uninstalled BY <1>3 DEF Init, Uninstalled, Blank
<1>6. Typed
  <2>1. 1 \in 0 .. Width8 - 1 /\ 0 \in 0 .. Width16 - 1 BY Widths, SMT
  <2> QED BY <2>1 DEF Init, Typed
<1> QED BY <1>4, <1>5, <1>6 DEF IInv

-----------------------------------------------------------------------------
(* The end of the process, and shutdown.                                    *)
LEMMA ProcessEnds ==
  ASSUME NEW d, FilesOK(d), NEW x, EndProcess(d, x),
         d[Home] = None \/ Sound(d[Home][PartIndex], d[Home][SegIndex], d)
  PROVE  IInv'
<1>1. /\ mode' = "idle" /\ master' = None /\ disk' = d /\ partCounter' = 1 /\ segCounter' = 0
      /\ Blank'
  BY DEF EndProcess, Blank
<1>2. Uninstalled' \/ Unbooted' BY <1>1 DEF Uninstalled, Unbooted
<1>3. FilesOK(disk)' BY <1>1
<1>4. Typed'
  <2>1. 1 \in 0 .. Width8 - 1 /\ 0 \in 0 .. Width16 - 1 BY Widths, SMT
  <2> QED BY <1>1, <2>1 DEF Typed
<1> QED BY <1>2, <1>3, <1>4 DEF IInv

(* What a running process does last is to store its objects.                *)
LEMMA StoresAtEnd ==
  ASSUME OneMaster, NoneApart, NEW P, NEW S, Live(P, S), NEW e, Serves(e, P),
         NEW x, EndProcess(Stored(e, segObjs), x)
  PROVE  IInv'
<1> DEFINE c == Stored(e, segObjs)
<1>1. FilesOK(c) /\ Sound(P, S, c) /\ c[Home][PartIndex] = P /\ c[Home][SegIndex] = S
  BY StoredCatalog
<1>2. EndProcess(c, x) OBVIOUS
<1> HIDE DEF c
<1> QED BY <1>1, <1>2, ProcessEnds

LEMMA ExitKept ==
  ASSUME OneMaster, NoneApart, IInv, Exit
  PROVE  IInv'
<1>1. FilesOK(disk) BY DEF IInv
<1>2. CASE mode = "running"
  <2>1. Booted BY <1>2, RunningBooted
  <2>2. PICK P, S : Live(P, S) BY <2>1 DEF Booted
  <2>3. Serves(disk, P) BY <1>1, <2>2, DiskServes DEF Live
  <2>4. EndProcess(Stored(disk, segObjs), torn \cup Tears) BY <1>2 DEF Exit
  <2> QED BY <2>2, <2>3, <2>4, StoresAtEnd
<1>3. CASE mode = "idle"
  <2>1. EndProcess(disk, torn) BY <1>3 DEF Exit
  <2>2. disk[Home] = None \/ Sound(disk[Home][PartIndex], disk[Home][SegIndex], disk)
    <3>1. CASE Booted
      <4>1. PICK P, S : Live(P, S) /\ disk[Home][PartIndex] = P /\ disk[Home][SegIndex] = S
        BY <1>3, <3>1 DEF Booted
      <4> QED BY <4>1 DEF Live
    <3> QED BY <3>1 DEF IInv, Uninstalled, Unbooted
  <2> QED BY <1>1, <2>1, <2>2, ProcessEnds
<1> QED BY <1>2, <1>3 DEF Exit

LEMMA ShutdownKept ==
  ASSUME OneMaster, NoneApart, IInv, Shutdown
  PROVE  IInv'
<1>1. mode = "running" /\ mode' = "idle" /\ disk' = Stored(disk, segObjs) BY DEF Shutdown
<1>2. UNCHANGED <<master, partVars, segVars>> BY DEF Shutdown
<1>3. Booted /\ FilesOK(disk) BY <1>1, RunningBooted
<1>4. PICK P, S : Live(P, S) BY <1>3 DEF Booted
<1>5. Serves(disk, P) BY <1>3, <1>4, DiskServes DEF Live
<1>6. /\ FilesOK(disk') /\ Sound(P, S, disk')
      /\ disk'[Home][PartIndex] = P /\ disk'[Home][SegIndex] = S
  BY <1>1, <1>4, <1>5, StoredCatalog
<1>7. Live(P, S)' BY <1>2, <1>4, <1>6 DEF Live, Mapped, Objects, Kept, partVars, segVars
<1>8. Booted' BY <1>1, <1>6, <1>7 DEF Booted
<1>9. Typed'
  <2>1. Typed BY DEF IInv
  <2> QED BY <1>1, <1>2, <2>1 DEF Typed, partVars, segVars
<1> QED BY <1>6, <1>8, <1>9 DEF IInv

-----------------------------------------------------------------------------
(* INSTALL and BOOT.                                                        *)
LEMMA InstallExistsKept ==
  ASSUME OneMaster, IInv, NEW m \in Masters, InstallExists(m)
  PROVE  IInv'
<1>1. mode = "idle" /\ disk[Home] # None /\ master' = m BY Paths0 DEF InstallExists
<1>2. UNCHANGED <<mode, partObjs, partsByID, partsByName, segVars, disk>>
  BY DEF InstallExists, fileVars
<1>3. partCounter' = (partCounter + 1) % Width8 BY DEF InstallExists, NextPartID
<1>4. Typed BY DEF IInv
<1>5. Typed'
  <2>1. partCounter' \in 0 .. Width8 - 1 BY <1>3, <1>4, Widths, SMT DEF Typed
  <2> QED BY <1>1, <1>2, <1>4, <2>1 DEF Typed, segVars
<1>6. ~Uninstalled BY <1>1 DEF Uninstalled
<1>7. Unbooted => Unbooted' BY <1>2 DEF Unbooted, Blank, segVars
<1>8. ASSUME Booted PROVE Booted'
  <2>1. PICK P, S : Live(P, S) /\ disk[Home][PartIndex] = P /\ disk[Home][SegIndex] = S
    BY <1>1, <1>8 DEF Booted
  <2>2. Live(P, S)' BY <1>2, <2>1 DEF Live, Mapped, Objects, Kept, segVars
  <2> QED BY <1>1, <1>2, <2>1, <2>2 DEF Booted
<1>9. FilesOK(disk)' BY <1>2 DEF IInv
<1> QED BY <1>5, <1>6, <1>7, <1>8, <1>9 DEF IInv

LEMMA ByNothing == ByID({}) = Nowhere /\ ByName({}) = Nowhere /\ UniqueIDs({}) /\ UniqueNames({})
<1>1. DOMAIN ByID({}) = {} /\ DOMAIN ByName({}) = {} BY DEF ByID, ByName
<1>2. ByID({}) = [i \in DOMAIN ByID({}) |-> 0] BY DEF ByID
<1>3. ByName({}) = [i \in DOMAIN ByName({}) |-> 0] BY DEF ByName
<1> QED BY <1>1, <1>2, <1>3 DEF Nowhere, UniqueIDs, UniqueNames

LEMMA InstallKept ==
  ASSUME OneMaster, NoneApart, IInv, NEW m \in Masters, Install(m)
  PROVE  IInv'
<1> DEFINE d == partCounter
           p == segCounter
           s == segCounter + 1
           part == PartTuple(d, MasterPart, m, FileType)
           pSeg == SegTuple(p, PartSeg, d, PartIndex)
           sSeg == SegTuple(s, SegSeg, d, SegIndex)
           file == [f \in {PartIndex, SegIndex} |-> {}]
<1>1. /\ mode = "idle" /\ disk[m] = None /\ segCounter + 2 <= MaxSegID
      /\ mode' = "running" /\ master' = m /\ partCounter < MaxPartID
      /\ partCounter' = (partCounter + 1) % Width8
      /\ partObjs' = Put(partObjs, d, m)
      /\ partsByID' = Put(partsByID, d, part)
      /\ partsByName' = Put(partsByName, MasterPart, d)
      /\ segCounter' = segCounter + 2
      /\ segObjs' = Put(Put(segObjs, p, [path |-> m, first |-> PartIndex, rows |-> {part}]),
                        s, [path |-> m, first |-> SegIndex, rows |-> {pSeg, sSeg}])
      /\ segsByID' = Put(Put(segsByID, p, pSeg), s, sSeg)
      /\ segsByName' = Put(Put(segsByName, PartSeg, p), SegSeg, s)
      /\ disk' = [disk EXCEPT ![m] = file]
  BY DEF Install, NextPartID
<1>2. m = Home /\ Home \in Paths BY Paths0
<1>3. Uninstalled
  <2>1. ~Unbooted BY <1>1, <1>2 DEF Unbooted
  <2>2. ~Booted
    <3> SUFFICES ASSUME NEW P0, NEW S0, Live(P0, S0) PROVE FALSE BY DEF Booted
    <3> QED BY <1>1, <1>2, MasterFacts
  <2> QED BY <2>1, <2>2 DEF IInv
<1>4. d = 1 /\ p = 0 /\ s = 1 /\ Blank BY <1>3, SMT DEF Uninstalled
<1>5. 1 < MaxPartID /\ 2 <= MaxSegID /\ MaxPartID \in Nat /\ MaxSegID \in Nat
  BY <1>1, <1>4, Widths, SMT
<1>6. /\ part.id = 1 /\ part.name = MasterPart /\ part.path = m
      /\ pSeg.id = 0 /\ pSeg.name = PartSeg /\ pSeg.part = 1 /\ pSeg.first = PartIndex
      /\ sSeg.id = 1 /\ sSeg.name = SegSeg /\ sSeg.part = 1 /\ sSeg.first = SegIndex
  BY <1>4 DEF PartTuple, SegTuple
<1>7. part \in PartTuples /\ pSeg \in SegTuples /\ sSeg \in SegTuples
  <2>1. 1 \in 0 .. MaxPartID - 1 /\ 0 \in 0 .. MaxSegID - 1 /\ 1 \in 0 .. MaxSegID - 1
    BY <1>5, SMT
  <2>2. PartIndex \in FirstPages /\ SegIndex \in FirstPages BY CatalogAssumption
  <2> QED BY <1>2, <1>4, <2>1, <2>2 DEF PartTuple, SegTuple, PartTuples, SegTuples
<1> HIDE DEF part, pSeg, sSeg
<1>0. PICK P, S : P = {part} /\ S = {pSeg, sSeg} OBVIOUS
<1>8. /\ UniqueIDs(P) /\ UniqueNames(P) /\ UniqueIDs(S) /\ UniqueNames(S)
      /\ \A t, u \in P : t.path = u.path => t = u
      /\ \A t, u \in S : t.part = u.part /\ t.first = u.first => t = u
  BY <1>0, <1>6 DEF UniqueIDs, UniqueNames, PartSeg, SegSeg, PartIndex, SegIndex
<1>9. file # None /\ DOMAIN file = {PartIndex, SegIndex}
      /\ file[PartIndex] = {} /\ file[SegIndex] = {}
  <2>1. file = [f \in DOMAIN file |-> file[f]] OBVIOUS
  <2> QED BY <2>1 DEF NoneApart
<1> HIDE DEF file
<1>10. DOMAIN disk = Paths /\ disk' = [disk EXCEPT ![Home] = file] BY <1>1, <1>2 DEF IInv, FilesOK
<1>11. disk'[Home] = file /\ \A q \in Paths : q # Home => disk'[q] = disk[q] BY <1>2, <1>10
<1>12. FilesOK(disk')
  <2>1. {PartIndex, SegIndex} \subseteq FirstPages BY CatalogAssumption
  <2>2. DOMAIN disk' = Paths BY <1>10
  <2>3. Devices \subseteq Paths BY DEF Paths
  <2> QED BY <1>9, <1>11, <2>1, <2>2, <2>3 DEF IInv, FilesOK
<1>13. Sound(P, S, disk')
  <2>1. Located(S, PartSeg, part.id, PartIndex) /\ Located(S, SegSeg, part.id, SegIndex)
    BY <1>0, <1>6 DEF Located
  <2>2. \A t \in S : part.id = t.part /\ t.first \in DOMAIN disk'[part.path]
    BY <1>0, <1>2, <1>6, <1>9, <1>11
  <2>3. disk'[part.path] # None BY <1>2, <1>6, <1>9, <1>11
  <2> QED BY <1>0, <1>2, <1>6, <1>7, <1>8, <2>1, <2>2, <2>3 DEF Sound
<1>14. Mapped(P, S)'
  <2>1. partsByID' = ByID(P) /\ partsByName' = ByName(P)
    <3>1. ByID({} \cup {part}) = Put(ByID({}), part.id, part) BY ByNothing, ByIDAdd
    <3>2. ByName({} \cup {part}) = Put(ByName({}), part.name, part.id) BY ByNothing, ByNameAdd
    <3>3. {} \cup {part} = P BY <1>0
    <3> QED BY <1>1, <1>4, <1>6, <3>1, <3>2, <3>3, ByNothing DEF Blank
  <2>2. ByID({pSeg}) = Put(Nowhere, p, pSeg) /\ ByName({pSeg}) = Put(Nowhere, PartSeg, p)
        /\ UniqueIDs({pSeg}) /\ UniqueNames({pSeg})
    <3>1. /\ ByID({} \cup {pSeg}) = Put(ByID({}), pSeg.id, pSeg)
          /\ UniqueIDs({} \cup {pSeg}) /\ UniqueNames({} \cup {pSeg})
      BY ByNothing, ByIDAdd, ByNameAdd
    <3>2. ByName({} \cup {pSeg}) = Put(ByName({}), pSeg.name, pSeg.id) BY ByNothing, ByNameAdd
    <3>3. {} \cup {pSeg} = {pSeg} OBVIOUS
    <3> QED BY <1>4, <1>6, <3>1, <3>2, <3>3, ByNothing
  <2>3. segsByID' = ByID(S) /\ segsByName' = ByName(S)
    <3>1. \A u \in {pSeg} : u.id # sSeg.id /\ u.name # sSeg.name BY <1>6 DEF PartSeg, SegSeg
    <3>2. ByID({pSeg} \cup {sSeg}) = Put(ByID({pSeg}), sSeg.id, sSeg) BY <2>2, <3>1, ByIDAdd
    <3>3. ByName({pSeg} \cup {sSeg}) = Put(ByName({pSeg}), sSeg.name, sSeg.id)
      BY <2>2, <3>1, ByNameAdd
    <3>4. {pSeg} \cup {sSeg} = S BY <1>0
    <3> QED BY <1>1, <1>4, <1>6, <2>2, <3>2, <3>3, <3>4 DEF Blank
  <2> QED BY <2>1, <2>3 DEF Mapped
<1>15. /\ DOMAIN partObjs' = {1} /\ partObjs'[1] = m
       /\ DOMAIN partsByID' = {1} /\ partsByID'[1] = part
  <2>1. /\ partObjs' = Put(Nowhere, 1, m) /\ partsByID' = Put(Nowhere, 1, part)
        /\ DOMAIN Nowhere = {}
    BY <1>1, <1>4, NowhereIs DEF Blank
  <2> QED BY <2>1 DEF Put
<1>16. /\ DOMAIN segsByID' = {0, 1} /\ segsByID'[0] = pSeg /\ segsByID'[1] = sSeg
       /\ segsByName'[PartSeg] = 0 /\ segsByName'[SegSeg] = 1
  <2> DEFINE f == Put(Nowhere, 0, pSeg)  g == Put(Nowhere, PartSeg, 0)
  <2>1. /\ segsByID' = Put(f, 1, sSeg) /\ segsByName' = Put(g, SegSeg, 1) /\ DOMAIN Nowhere = {}
    BY <1>1, <1>4, NowhereIs DEF Blank
  <2>2. DOMAIN f = {0} /\ f[0] = pSeg /\ DOMAIN g = {PartSeg} /\ g[PartSeg] = 0 BY <2>1 DEF Put
  <2> HIDE DEF f, g
  <2>3. PartSeg # SegSeg BY DEF PartSeg, SegSeg
  <2> QED BY <2>1, <2>2, <2>3 DEF Put
<1>17. /\ DOMAIN segObjs' = {0, 1}
       /\ segObjs'[0] = [path |-> m, first |-> PartIndex, rows |-> P]
       /\ segObjs'[1] = [path |-> m, first |-> SegIndex, rows |-> S]
  <2> DEFINE x == [path |-> m, first |-> PartIndex, rows |-> P]
             y == [path |-> m, first |-> SegIndex, rows |-> S]
             f == Put(Nowhere, 0, x)
  <2>1. segObjs' = Put(f, 1, y) /\ DOMAIN Nowhere = {} BY <1>0, <1>1, <1>4, NowhereIs DEF Blank
  <2> HIDE DEF x, y
  <2>2. DOMAIN f = {0} /\ f[0] = x BY <2>1 DEF Put
  <2> HIDE DEF f
  <2>3. DOMAIN segObjs' = {0, 1} /\ segObjs'[0] = x /\ segObjs'[1] = y BY <2>1, <2>2 DEF Put
  <2> QED BY <2>3 DEF x, y
<1>18. Objects' BY <1>6, <1>15, <1>16, <1>17 DEF Objects
<1>19. Kept(segsByName[PartSeg], PartIndex, P)' /\ Kept(segsByName[SegSeg], SegIndex, S)'
  BY <1>16, <1>17 DEF Kept
<1>20. Live(P, S)' BY <1>13, <1>14, <1>18, <1>19 DEF Live
<1>21. partCounter' = 2 /\ segCounter' = 2
  <2>1. partCounter' = 2 % Width8 /\ segCounter' = 2 BY <1>1, <1>4, SMT
  <2> QED BY <2>1, Widths, SMT
<1>22. Beyond(P, partCounter') /\ Beyond(S, segCounter') BY <1>0, <1>6, <1>21 DEF Beyond
<1>23. Booted' BY <1>1, <1>2, <1>20, <1>22 DEF Booted
<1>24. Typed'
  <2>1. 2 \in 0 .. Width8 - 1 /\ 2 \in 0 .. Width16 - 1 BY Widths, SMT
  <2> QED BY <1>1, <1>21, <2>1 DEF Typed
<1> QED BY <1>12, <1>23, <1>24 DEF IInv

LEMMA BootLive ==
  ASSUME OneMaster, NoneApart, IInv, NEW m \in Masters, Boot(m), NEW P, NEW S,
         P = disk[Home][PartIndex], S = disk[Home][SegIndex]
  PROVE  /\ Sound(P, S, disk) /\ Live(P, S)'
         /\ Blank \/ UNCHANGED <<partsByID, segsByID>>
<1>1. m = Home /\ Home \in Paths BY Paths0
<1>2. /\ mode = "idle" /\ disk[Home] # None /\ mode' = "running" /\ master' = Home
      /\ partsByID' = Merged(partsByID, ByID(P)) /\ partsByName' = Merged(partsByName, ByName(P))
      /\ segsByID' = Merged(segsByID, ByID(S)) /\ segsByName' = Merged(segsByName, ByName(S))
  BY <1>1 DEF Boot
<1>4. LET d == partsByName'[MasterPart] IN
      partObjs' = IF d \in DOMAIN partObjs THEN partObjs ELSE Put(partObjs, d, partsByID'[d].path)
  BY DEF Boot
<1>5. segObjs' = segObjs /\ disk' = disk BY DEF Boot, fileVars
<1>6. Unbooted \/ Booted
  <2>1. ~Uninstalled BY <1>2 DEF Uninstalled
  <2> QED BY <2>1 DEF IInv
<1>7. /\ Sound(P, S, disk)
      /\ \/ Blank
         \/ /\ Mapped(P, S) /\ Objects
            /\ Kept(segsByName[PartSeg], PartIndex, P) /\ Kept(segsByName[SegSeg], SegIndex, S)
  <2>1. CASE Booted
    <3>1. PICK P0, S0 : Live(P0, S0) /\ disk[Home][PartIndex] = P0 /\ disk[Home][SegIndex] = S0
      BY <1>2, <2>1 DEF Booted
    <3> QED BY <3>1 DEF Live
  <2>2. CASE Unbooted BY <2>2 DEF Unbooted
  <2> QED BY <1>6, <2>1, <2>2
<1>8. Mapped(P, S)'
  <2>1. /\ partsByID = Nowhere \/ partsByID = ByID(P)
        /\ partsByName = Nowhere \/ partsByName = ByName(P)
        /\ segsByID = Nowhere \/ segsByID = ByID(S)
        /\ segsByName = Nowhere \/ segsByName = ByName(S)
    BY <1>7 DEF Blank, Mapped
  <2>2. \A T : /\ ByID(T) = [i \in DOMAIN ByID(T) |-> ByID(T)[i]]
               /\ ByName(T) = [i \in DOMAIN ByName(T) |-> ByName(T)[i]]
    BY DEF ByID, ByName
  <2>3. /\ Merged(partsByID, ByID(P)) = ByID(P) /\ Merged(partsByName, ByName(P)) = ByName(P)
        /\ Merged(segsByID, ByID(S)) = ByID(S) /\ Merged(segsByName, ByName(S)) = ByName(S)
    BY <2>1, <2>2, MergedIs
  <2> QED BY <1>2, <2>3 DEF Mapped
<1>9. UniqueIDs(P) /\ UniqueNames(P) /\ UniqueIDs(S) /\ UniqueNames(S) BY <1>7 DEF Sound
<1>10. /\ DOMAIN partsByID' = {t.id : t \in P} /\ \A t \in P : partsByID'[t.id] = t
       /\ \A t \in P : partsByName'[t.name] = t.id
  BY <1>8, <1>9, ByIDIs, ByNameIs DEF Mapped
<1>11. Objects'
  <2>1. PICK t \in P : t.name = MasterPart /\ t.path = Home BY <1>7 DEF Sound
  <2>2. partsByName'[t.name] = t.id BY <1>10
  <2>3. partsByName'[MasterPart] = t.id BY <2>1, <2>2
  <2>4. t.id \in DOMAIN partsByID' /\ partsByID'[t.id] = t BY <1>10
  <2>5. partObjs' = IF t.id \in DOMAIN partObjs THEN partObjs ELSE Put(partObjs, t.id, Home)
    BY <1>4, <2>1, <2>3, <2>4
  <2>6. CASE Blank
    <3>1. DOMAIN partObjs = {} /\ DOMAIN segObjs' = {} BY <1>5, <2>6, NowhereIs DEF Blank
    <3>2. partObjs' = Put(partObjs, t.id, Home) BY <2>5, <3>1
    <3>3. DOMAIN partObjs' = {t.id} /\ partObjs'[t.id] = Home BY <3>1, <3>2 DEF Put
    <3> QED BY <2>1, <2>4, <3>1, <3>3 DEF Objects
  <2>7. CASE Mapped(P, S) /\ Objects
    <3>1. UNCHANGED <<partsByID, segsByID>> BY <1>8, <2>7 DEF Mapped
    <3>2. \A i \in DOMAIN partObjs' : i \in DOMAIN partsByID' /\ partObjs'[i] = partsByID'[i].path
      BY <2>1, <2>4, <2>5, <2>7, <3>1 DEF Put, Objects
    <3> QED BY <1>5, <2>7, <3>1, <3>2 DEF Objects
  <2> QED BY <1>7, <2>6, <2>7
<1>12. Kept(segsByName[PartSeg], PartIndex, P)' /\ Kept(segsByName[SegSeg], SegIndex, S)'
  <2>1. CASE Blank
    <3>1. DOMAIN segObjs' = {} BY <1>5, <2>1, NowhereIs DEF Blank
    <3> QED BY <1>5, <3>1 DEF Kept
  <2>2. CASE /\ Mapped(P, S)
             /\ Kept(segsByName[PartSeg], PartIndex, P) /\ Kept(segsByName[SegSeg], SegIndex, S)
    <3>1. segsByName' = segsByName BY <1>8, <2>2 DEF Mapped
    <3> QED BY <1>5, <2>2, <3>1 DEF Kept
  <2> QED BY <1>7, <2>1, <2>2
<1>13. Live(P, S)'
  <2>1. Sound(P, S, disk)' BY <1>5, <1>7
  <2> QED BY <1>8, <1>11, <1>12, <2>1 DEF Live
<1>14. Blank \/ UNCHANGED <<partsByID, segsByID>> BY <1>7, <1>8 DEF Mapped
<1> QED BY <1>7, <1>13, <1>14

LEMMA BootKept ==
  ASSUME OneMaster, NoneApart, IInv, NEW m \in Masters, Boot(m)
  PROVE  IInv'
<1>1. PICK P, S : P = disk[Home][PartIndex] /\ S = disk[Home][SegIndex] OBVIOUS
<1>2. m = Home BY Paths0
<1>3. /\ mode' = "running" /\ master' = Home /\ disk' = disk
      /\ partCounter' = NextID(P) % Width8 /\ segCounter' = NextID(S) % Width16
  BY <1>1, <1>2 DEF Boot, fileVars
<1>4. Sound(P, S, disk) /\ Live(P, S)' BY <1>1, BootLive
<1>5. /\ NextID(P) \in 1 .. MaxPartID /\ Beyond(P, NextID(P))
       /\ NextID(S) \in 1 .. MaxSegID /\ Beyond(S, NextID(S))
  <2>1. P # {} /\ S # {} BY <1>4 DEF Sound, Located
  <2>2. /\ \A t \in P : t.id \in 0 .. MaxPartID - 1
        /\ \A t \in S : t.id \in 0 .. MaxSegID - 1
    BY <1>4, TupleTypes DEF Sound
  <2> QED BY <2>1, <2>2, NextIDBeyond, Widths
<1>6. partCounter' = NextID(P) /\ segCounter' = NextID(S)
  <2>1. \A n \in 1 .. MaxPartID : n % Width8 = n BY Widths, SMT
  <2>2. \A n \in 1 .. MaxSegID : n % Width16 = n BY Widths, SMT
  <2> QED BY <1>3, <1>5, <2>1, <2>2
<1>7. Booted' BY <1>3, <1>4, <1>5, <1>6 DEF Booted
<1>8. Typed'
  <2>1. \A n \in 1 .. MaxPartID : n \in 0 .. Width8 - 1 BY Widths, SMT
  <2>2. \A n \in 1 .. MaxSegID : n \in 0 .. Width16 - 1 BY Widths, SMT
  <2>3. Home \in Masters BY Paths0
  <2> QED BY <1>3, <1>5, <1>6, <2>1, <2>2, <2>3 DEF Typed
<1>9. FilesOK(disk)' BY <1>3 DEF IInv
<1> QED BY <1>7, <1>8, <1>9 DEF IInv

-----------------------------------------------------------------------------
(* What a command of the running system starts from, and has to leave.      *)
LEMMA Running ==
  ASSUME IInv, mode = "running"
  PROVE  /\ Typed /\ FilesOK(disk) /\ master = Home
         /\ \E P, S : Live(P, S) /\ Beyond(P, partCounter) /\ Beyond(S, segCounter)
<1>1. Booted /\ FilesOK(disk) BY RunningBooted
<1>2. mode # "idle" OBVIOUS
<1>3. PICK P, S : Live(P, S) /\ Beyond(P, partCounter) /\ Beyond(S, segCounter) /\ master = Home
  BY <1>1, <1>2 DEF Booted
<1> QED BY <1>1, <1>3 DEF IInv

LEMMA Continues ==
  ASSUME NEW P, NEW S, Live(P, S)', mode' = mode, mode = "running", master' = master,
         master = Home, Typed, FilesOK(disk'),
         partCounter' \in 0 .. Width8 - 1, segCounter' \in 0 .. Width16 - 1,
         Beyond(P, partCounter'), Beyond(S, segCounter')
  PROVE  IInv'
<1>1. mode' # "idle" OBVIOUS
<1>2. Booted' BY <1>1 DEF Booted
<1>3. Typed' BY DEF Typed
<1> QED BY <1>2, <1>3 DEF IInv

LEMMA PutIsFile ==
  ASSUME NoneApart, NEW f, NEW k, NEW x
  PROVE  Put(f, k, x) # None
<1>1. Put(f, k, x) = [i \in DOMAIN Put(f, k, x) |-> Put(f, k, x)[i]] BY DEF Put
<1> QED BY <1>1 DEF NoneApart

LEMMA WithoutIsFile ==
  ASSUME NoneApart, NEW f, NEW I
  PROVE  Without(f, I) # None
<1>1. Without(f, I) = [i \in DOMAIN Without(f, I) |-> Without(f, I)[i]] BY DEF Without, Restrict
<1> QED BY <1>1 DEF NoneApart

(* An object, loaded if it was not, with other rows.                        *)
LEMMA OpenedWith ==
  ASSUME OneMaster, NEW P, NEW S, Live(P, S), NEW i \in DOMAIN segsByID, NEW R
  PROVE  [Opened(i) EXCEPT !.rows = R] =
           [path |-> SegPath(i), first |-> segsByID[i].first, rows |-> R]
<1>1. Opened(i) = [path |-> SegPath(i), first |-> segsByID[i].first, rows |-> Opened(i).rows]
  BY SegmentFacts
<1> QED BY <1>1

(* A file more, or a page more in a file, leaves the catalog what it is.    *)
LEMMA FileAdded ==
  ASSUME OneMaster, NoneApart, NEW P, NEW S, Live(P, S), FilesOK(disk),
         NEW q \in Files \cup Devices, \A t \in P : t.path # q
  PROVE  Serves([disk EXCEPT ![q] = Nowhere], P)
<1> DEFINE e == [disk EXCEPT ![q] = Nowhere]
<1>1. q \in Paths /\ q # Home /\ Home \in Paths BY Paths0 DEF Paths
<1>2. DOMAIN disk = Paths BY DEF FilesOK
<1>3. /\ DOMAIN e = Paths /\ e[q] = Nowhere /\ \A r \in Paths : r # q => e[r] = disk[r]
  BY <1>1, <1>2
<1>4. DOMAIN Nowhere = {} /\ Nowhere # None BY NowhereIs
<1> HIDE DEF e
<1>5. \A t \in P : t.path \in Paths /\ disk[t.path] # None BY TupleTypes DEF Live, Sound
<1>6. FilesOK(e) BY <1>3, <1>4 DEF FilesOK, Paths
<1>7. \A t \in P : e[t.path] = disk[t.path] BY <1>3, <1>5
<1> QED BY <1>1, <1>3, <1>5, <1>6, <1>7 DEF Serves, e

LEMMA PageAdded ==
  ASSUME OneMaster, NoneApart, NEW P, NEW S, Live(P, S), FilesOK(disk),
         NEW q \in Paths, disk[q] # None, NEW f \in FirstPages, f \notin DOMAIN disk[q]
  PROVE  LET e == [disk EXCEPT ![q] = Put(@, f, {})] IN
         /\ Serves(e, P) /\ f \in DOMAIN e[q]
         /\ \A r \in Paths : r # q => e[r] = disk[r]
<1> DEFINE x == Put(disk[q], f, {})
           e == [disk EXCEPT ![q] = x]
<1>1. DOMAIN disk = Paths BY DEF FilesOK
<1>2. DOMAIN e = Paths /\ e[q] = x /\ \A r \in Paths : r # q => e[r] = disk[r] BY <1>1
<1>3. /\ DOMAIN x = DOMAIN disk[q] \cup {f} /\ x # None
      /\ \A g \in DOMAIN disk[q] : x[g] = disk[q][g]
  <2>1. x # None BY PutIsFile
  <2> QED BY <2>1 DEF Put
<1> HIDE DEF x, e
<1>4. Home \in Paths /\ PartIndex \in DOMAIN disk[Home] /\ SegIndex \in DOMAIN disk[Home]
  BY Paths0, MasterFacts
<1>5. e[Home][PartIndex] = disk[Home][PartIndex] /\ e[Home][SegIndex] = disk[Home][SegIndex]
  BY <1>2, <1>3, <1>4
<1>6. FilesOK(e)
  <2>1. DOMAIN x \subseteq FirstPages BY <1>3 DEF FilesOK
  <2> QED BY <1>2, <1>3, <2>1 DEF FilesOK, Paths
<1>7. \A t \in P : t.path \in Paths /\ disk[t.path] # None BY TupleTypes DEF Live, Sound
<1>8. \A t \in P : e[t.path] # None /\ DOMAIN disk[t.path] \subseteq DOMAIN e[t.path]
  BY <1>2, <1>3, <1>7
<1> QED BY <1>2, <1>3, <1>5, <1>6, <1>8 DEF Serves, e, x

-----------------------------------------------------------------------------
(* Commands that change no tuple of the catalog.                            *)
LEMMA TouchKept ==
  ASSUME OneMaster, NEW P, NEW S, Live(P, S), NEW d \in DOMAIN partsByID,
         partObjs' = WithPartition(d),
         \/ segObjs' = segObjs
         \/ \E i \in DOMAIN segsByID : \E R :
              /\ i \in {segsByName[PartSeg], segsByName[SegSeg]} => R = Opened(i).rows
              /\ segObjs' = Put(segObjs, i, [Opened(i) EXCEPT !.rows = R]),
         UNCHANGED <<partsByID, partsByName, segsByID, segsByName, disk>>
  PROVE  Live(P, S)'
<1> DEFINE p == segsByName[PartSeg]
           s == segsByName[SegSeg]
<1>1. Sound(P, S, disk)' /\ Mapped(P, S)' BY DEF Live, Mapped
<1>2. Objects BY DEF Live
<1>3. \A i \in DOMAIN partObjs' : i \in DOMAIN partsByID /\ partObjs'[i] = partsByID[i].path
  <2>1. PathOf(d) = partsByID[d].path BY PartitionFacts
  <2> QED BY <1>2, <2>1 DEF Objects, WithPartition, Put
<1>4. Kept(p, PartIndex, P) /\ Kept(s, SegIndex, S) /\ p # s BY MasterFacts DEF Live
<1>5. CASE segObjs' = segObjs
  <2>1. Objects' BY <1>2, <1>3, <1>5 DEF Objects
  <2>2. Kept(segsByName[PartSeg], PartIndex, P)' /\ Kept(segsByName[SegSeg], SegIndex, S)'
    BY <1>4, <1>5 DEF Kept
  <2> QED BY <1>1, <2>1, <2>2 DEF Live
<1>6. ASSUME NEW i \in DOMAIN segsByID, NEW R, i \in {p, s} => R = Opened(i).rows,
             segObjs' = Put(segObjs, i, [Opened(i) EXCEPT !.rows = R])
      PROVE  Live(P, S)'
  <2> DEFINE o == [path |-> SegPath(i), first |-> segsByID[i].first, rows |-> R]
  <2>1. o.rows = R /\ o = [path |-> SegPath(i), first |-> segsByID[i].first, rows |-> o.rows]
    OBVIOUS
  <2>2. segObjs' = Put(segObjs, i, o) BY <1>6, OpenedWith
  <2> HIDE DEF o
  <2>3. /\ DOMAIN segObjs' = DOMAIN segObjs \cup {i} /\ segObjs'[i] = o
        /\ \A j \in DOMAIN segObjs : j # i => segObjs'[j] = segObjs[j]
    BY <2>2 DEF Put
  <2>4. Objects' BY <1>2, <1>3, <2>1, <2>3 DEF Objects, SegPath
  <2>5. Opened(p).rows = P /\ Opened(s).rows = S BY MasterFacts
  <2>6. Kept(p, PartIndex, P)' /\ Kept(s, SegIndex, S)'
    BY <1>4, <1>6, <2>1, <2>3, <2>5 DEF Kept
  <2> QED BY <1>1, <2>4, <2>6 DEF Live
<1> QED BY <1>5, <1>6

LEMMA CreateKnownKept ==
  ASSUME OneMaster, IInv, NEW i \in DOMAIN partsByID, CreateKnown(i)
  PROVE  IInv'
<1>1. mode = "running" /\ partObjs' = WithPartition(i) BY DEF CreateKnown
<1>2. UNCHANGED <<mode, master, partCounter, partsByID, partsByName, segVars, disk>>
  BY DEF CreateKnown, fileVars
<1>3. Typed /\ FilesOK(disk) /\ master = Home BY <1>1, Running
<1>4. PICK P, S : Live(P, S) /\ Beyond(P, partCounter) /\ Beyond(S, segCounter) BY <1>1, Running
<1>5. Live(P, S)' BY <1>1, <1>2, <1>4, TouchKept DEF segVars
<1> QED BY <1>1, <1>2, <1>3, <1>4, <1>5, Continues DEF segVars, Typed

LEMMA InsertTupleKept ==
  ASSUME OneMaster, IInv, NEW s \in SegNames, NEW r \in Rows, InsertTuple(s, r)
  PROVE  IInv'
<1> DEFINE i == segsByName[s]
           d == segsByID[i].part
           R == Opened(i).rows \cup {r}
<1>1. /\ mode = "running" /\ s \in DOMAIN segsByName /\ partObjs' = WithPartition(d)
      /\ segObjs' = Put(segObjs, i, [Opened(i) EXCEPT !.rows = R])
  BY DEF InsertTuple, WithRow
<1>2. UNCHANGED <<mode, master, partCounter, partsByID, partsByName, segCounter, segsByID,
                  segsByName, disk>>
  BY DEF InsertTuple, fileVars
<1>3. Typed /\ FilesOK(disk) /\ master = Home BY <1>1, Running
<1>4. PICK P, S : Live(P, S) /\ Beyond(P, partCounter) /\ Beyond(S, segCounter) BY <1>1, Running
<1>5. i \in DOMAIN segsByID /\ segsByID[i].name = s BY <1>1, <1>4, NamesFound
<1>6. i \notin {segsByName[PartSeg], segsByName[SegSeg]}
  <2>1. PartSeg \notin SegNames /\ SegSeg \notin SegNames BY CatalogAssumption
  <2> QED BY <1>4, <1>5, <2>1, MasterFacts
<1>7. d \in DOMAIN partsByID BY <1>4, <1>5, SegmentFacts
<1> HIDE DEF i, d, R
<1>8. Live(P, S)' BY <1>1, <1>2, <1>4, <1>5, <1>6, <1>7, TouchKept
<1> QED BY <1>1, <1>2, <1>3, <1>4, <1>8, Continues DEF Typed

LEMMA ShowSegmentKept ==
  ASSUME OneMaster, IInv, NEW s, ShowSegment(s)
  PROVE  IInv'
<1> DEFINE i == segsByName[s]
           d == segsByID[i].part
           R == Opened(i).rows
<1>1. /\ mode = "running" /\ s \in DOMAIN segsByName /\ partObjs' = WithPartition(d)
      /\ segObjs' = Put(segObjs, i, Opened(i))
  BY DEF ShowSegment, WithSegment
<1>2. UNCHANGED <<mode, master, partCounter, partsByID, partsByName, segCounter, segsByID,
                  segsByName, disk>>
  BY DEF ShowSegment, fileVars
<1>3. Typed /\ FilesOK(disk) /\ master = Home BY <1>1, Running
<1>4. PICK P, S : Live(P, S) /\ Beyond(P, partCounter) /\ Beyond(S, segCounter) BY <1>1, Running
<1>5. i \in DOMAIN segsByID BY <1>1, <1>4, NamesFound
<1>6. Opened(i) = [Opened(i) EXCEPT !.rows = R]
  <2>1. Opened(i) = [path |-> SegPath(i), first |-> segsByID[i].first, rows |-> R]
    BY <1>4, <1>5, SegmentFacts
  <2>2. [Opened(i) EXCEPT !.rows = R] =
          [path |-> SegPath(i), first |-> segsByID[i].first, rows |-> R]
    BY <1>4, <1>5, OpenedWith
  <2> QED BY <2>1, <2>2
<1>7. d \in DOMAIN partsByID BY <1>4, <1>5, SegmentFacts
<1>8. R = Opened(i).rows OBVIOUS
<1> HIDE DEF i, d, R
<1>9. segObjs' = Put(segObjs, i, [Opened(i) EXCEPT !.rows = R]) BY <1>1, <1>6
<1>10. Live(P, S)' BY <1>1, <1>2, <1>4, <1>5, <1>7, <1>8, <1>9, TouchKept
<1> QED BY <1>1, <1>2, <1>3, <1>4, <1>10, Continues DEF Typed

LEMMA AbortKept ==
  ASSUME IInv, NEW i, OpenRaw(i) \/ EraseAborts(i)
  PROVE  IInv'
<1>1. mode = "running" /\ mode' = "aborted" BY DEF OpenRaw, EraseAborts
<1>2. UNCHANGED <<master, partVars, segVars, disk>> BY DEF OpenRaw, EraseAborts, fileVars
<1>3. Typed /\ FilesOK(disk) /\ master = Home BY <1>1, Running
<1>4. PICK P, S : Live(P, S) /\ Beyond(P, partCounter) /\ Beyond(S, segCounter) BY <1>1, Running
<1>5. Live(P, S)' BY <1>2, <1>4 DEF Live, Mapped, Objects, Kept, partVars, segVars
<1>6. mode' # "idle" BY <1>1
<1>7. Booted' BY <1>2, <1>3, <1>4, <1>5, <1>6 DEF Booted, partVars, segVars
<1>8. Typed' BY <1>1, <1>2, <1>3 DEF Typed, partVars, segVars
<1>9. FilesOK(disk)' BY <1>2, <1>3
<1> QED BY <1>7, <1>8, <1>9 DEF IInv

-----------------------------------------------------------------------------
(* Commands that fail and end the process.                                  *)
LEMMA CreateUnknownKept ==
  ASSUME OneMaster, NoneApart, IInv, NEW q, CreateUnknown(q)
  PROVE  IInv'
<1>1. mode = "running" /\ EndProcess(Stored(disk, segObjs), torn \cup Tears)
  BY DEF CreateUnknown
<1>2. PICK P, S : Live(P, S) BY <1>1, Running
<1>3. Serves(disk, P) BY <1>1, <1>2, Running, DiskServes DEF Live
<1> QED BY <1>1, <1>2, <1>3, StoresAtEnd

LEMMA PathIsNew ==
  ASSUME NEW P, NEW S, Live(P, S), NEW q, NEW n, CanCreate(q, n)
  PROVE  /\ mode = "running" /\ q \in Files \cup Devices
         /\ \A t \in P : t.path # q /\ t.name # n
<1>1. Sound(P, S, disk) /\ Mapped(P, S) BY DEF Live
<1>2. /\ \A t \in P : t.id \in DOMAIN partsByID /\ partsByID[t.id] = t
      /\ DOMAIN partsByName = {t.name : t \in P}
  BY <1>1, Lookups
<1> QED BY <1>2 DEF CanCreate, Known

LEMMA CreatePartitionFailsKept ==
  ASSUME OneMaster, NoneApart, IInv, NEW q, NEW n, CreatePartitionFails(q, n)
  PROVE  IInv'
<1> DEFINE e == [disk EXCEPT ![q] = Nowhere]
<1>1. /\ CanCreate(q, n) /\ mode = "running"
      /\ EndProcess(Stored(e, segObjs), (torn \ {q}) \cup Tears)
  BY DEF CreatePartitionFails, Formatted, CanCreate
<1>2. FilesOK(disk) BY <1>1, Running
<1>3. PICK P, S : Live(P, S) BY <1>1, Running
<1>4. Serves(e, P) BY <1>1, <1>2, <1>3, PathIsNew, FileAdded
<1> HIDE DEF e
<1> QED BY <1>1, <1>3, <1>4, StoresAtEnd

LEMMA GivesFree ==
  ASSUME SoundAllocs, NEW q, NEW f, Gives(q, f)
  PROVE  f \notin DOMAIN disk[q]
BY DEF Gives, SoundAllocs

LEMMA CreateSegmentFailsKept ==
  ASSUME OneMaster, NoneApart, SoundAllocs, IInv, NEW n, NEW f \in FirstPages, CreateSegmentFails(n, f)
  PROVE  IInv'
<1> DEFINE d == partsByName[n]
           e == [disk EXCEPT ![PathOf(d)] = Put(@, f, {})]
<1>1. /\ mode = "running" /\ n \in DOMAIN partsByName /\ f \notin DOMAIN disk[PathOf(d)]
      /\ EndProcess(Stored(e, segObjs), torn \cup Tears)
  BY GivesFree DEF CreateSegmentFails
<1>2. FilesOK(disk) BY <1>1, Running
<1>3. PICK P, S : Live(P, S) BY <1>1, Running
<1>4. d \in DOMAIN partsByID BY <1>1, <1>3, NamesFound
<1>5. PathOf(d) \in Paths /\ disk[PathOf(d)] # None BY <1>3, <1>4, PartitionFacts
<1>6. Serves(e, P) BY <1>1, <1>2, <1>3, <1>5, PageAdded
<1> HIDE DEF e
<1> QED BY <1>1, <1>3, <1>6, StoresAtEnd

-----------------------------------------------------------------------------
(* Commands that add a tuple to the catalog.                                *)
LEMMA CreatePartitionKept ==
  ASSUME OneMaster, NoneApart, IInv, NEW q, NEW n \in PartNames, CreatePartition(q, n)
  PROVE  IInv'
<1> DEFINE d == partCounter
           p == segsByName[PartSeg]
           s == segsByName[SegSeg]
           tuple == PartTuple(d, n, q, IF q \in Files THEN FileType ELSE RawType)
<1>1. CanCreate(q, n) BY DEF CreatePartition
<1>2. d < MaxPartID /\ partCounter' = (d + 1) % Width8 BY DEF CreatePartition, NextPartID
<1>3. /\ partObjs' = Put(partObjs, d, q)
      /\ partsByID' = Put(partsByID, d, tuple) /\ partsByName' = Put(partsByName, n, d)
      /\ segObjs' = Put(segObjs, p, [Opened(p) EXCEPT !.rows = Opened(p).rows \cup {tuple}])
      /\ disk' = [disk EXCEPT ![q] = Nowhere]
  BY DEF CreatePartition, WithRow, Formatted
<1>4. UNCHANGED <<mode, master, segCounter, segsByID, segsByName>> BY DEF CreatePartition
<1>5. mode = "running" BY <1>1 DEF CanCreate
<1>6. Typed /\ FilesOK(disk) /\ master = Home BY <1>5, Running
<1>7. PICK P, S : Live(P, S) /\ Beyond(P, partCounter) /\ Beyond(S, segCounter) BY <1>5, Running
<1>8. Sound(P, S, disk) /\ Mapped(P, S) /\ Objects BY <1>7 DEF Live
<1>9. q \in Files \cup Devices /\ \A t \in P : t.path # q /\ t.name # n BY <1>1, <1>7, PathIsNew
<1>10. d \in Nat /\ \A t \in P : t.id \in Nat /\ t.id < d /\ t.id # d
  <2>1. d \in 0 .. Width8 - 1 BY <1>6 DEF Typed
  <2>2. \A t \in P : t.id \in 0 .. MaxPartID - 1 BY <1>8, TupleTypes DEF Sound
  <2>3. \A t \in P : t.id < d BY <1>7 DEF Beyond
  <2> QED BY <2>1, <2>2, <2>3, Widths, SMT
<1>11. PICK x : x = tuple OBVIOUS
<1>12. x \in PartTuples /\ x.id = d /\ x.name = n /\ x.path = q
  <2>1. d \in 0 .. MaxPartID - 1 BY <1>2, <1>10, Widths, SMT
  <2>2. q \in Paths BY <1>9 DEF Paths
  <2> QED BY <1>11, <2>1, <2>2 DEF PartTuple, PartTuples
<1>13. PICK P2 : P2 = P \cup {x} OBVIOUS
<1> HIDE DEF tuple
<1>14. Serves(disk', P) /\ disk'[q] # None /\ \A r \in Paths : r # q => disk'[r] = disk[r]
  <2>1. Serves([disk EXCEPT ![q] = Nowhere], P) BY <1>6, <1>7, <1>9, FileAdded
  <2>2. q \in DOMAIN disk BY <1>6, <1>9 DEF FilesOK, Paths
  <2>3. Nowhere # None BY NowhereIs
  <2> QED BY <1>3, <1>6, <2>1, <2>2, <2>3 DEF FilesOK
<1>15. Sound(P, S, disk') BY <1>8, <1>14, SoundKept DEF Serves
<1>16. UniqueIDs(P2) /\ ByID(P2) = Put(partsByID, d, x)
  <2>1. \A u \in P : u.id # x.id BY <1>10, <1>12
  <2>2. UniqueIDs(P) /\ partsByID = ByID(P) BY <1>8 DEF Sound, Mapped
  <2> QED BY <1>12, <1>13, <2>1, <2>2, ByIDAdd
<1>17. UniqueNames(P2) /\ ByName(P2) = Put(partsByName, n, d)
  <2>1. \A u \in P : u.name # x.name BY <1>9, <1>12
  <2>2. UniqueNames(P) /\ partsByName = ByName(P) BY <1>8 DEF Sound, Mapped
  <2> QED BY <1>12, <1>13, <2>1, <2>2, ByNameAdd
<1>18. Sound(P2, S, disk')
  <2>1. P2 \subseteq PartTuples BY <1>12, <1>13, <1>15 DEF Sound
  <2>2. \A t, u \in P2 : t.path = u.path => t = u BY <1>9, <1>12, <1>13, <1>15 DEF Sound
  <2>3. \A t \in P2 : disk'[t.path] # None BY <1>12, <1>13, <1>14, <1>15 DEF Sound
  <2>4. \A t \in S : \E u \in P2 : u.id = t.part /\ t.first \in DOMAIN disk'[u.path]
    BY <1>13, <1>15 DEF Sound
  <2>5. \E t \in P2 : /\ t.name = MasterPart /\ t.path = Home
                      /\ Located(S, PartSeg, t.id, PartIndex) /\ Located(S, SegSeg, t.id, SegIndex)
    BY <1>13, <1>15 DEF Sound
  <2> QED BY <1>15, <1>16, <1>17, <2>1, <2>2, <2>3, <2>4, <2>5 DEF Sound
<1>19. Mapped(P2, S)' BY <1>3, <1>4, <1>8, <1>11, <1>16, <1>17 DEF Mapped
<1>20. /\ p \in DOMAIN segsByID /\ s # p /\ Opened(p).rows = P
  BY <1>7, MasterFacts
<1>21. PICK o : o = [path |-> SegPath(p), first |-> segsByID[p].first, rows |-> P2] OBVIOUS
<1>22. /\ DOMAIN segObjs' = DOMAIN segObjs \cup {p} /\ segObjs'[p] = o
       /\ \A i \in DOMAIN segObjs : i # p => segObjs'[i] = segObjs[i]
  <2>1. segObjs' = Put(segObjs, p, [Opened(p) EXCEPT !.rows = P2]) BY <1>3, <1>11, <1>13, <1>20
  <2>2. segObjs' = Put(segObjs, p, o) BY <1>7, <1>20, <1>21, <2>1, OpenedWith
  <2> QED BY <2>2 DEF Put
<1>23. d \notin DOMAIN partsByID
  <2>1. \A i \in DOMAIN partsByID : partsByID[i] \in P /\ partsByID[i].id = i BY <1>8, Lookups
  <2> QED BY <1>10, <2>1
<1>24. /\ DOMAIN partsByID' = DOMAIN partsByID \cup {d} /\ partsByID'[d] = x
       /\ \A i \in DOMAIN partsByID : partsByID'[i] = partsByID[i]
  BY <1>3, <1>11, <1>23 DEF Put
<1>25. Objects'
  <2>1. \A i \in DOMAIN partObjs' : i \in DOMAIN partsByID' /\ partObjs'[i] = partsByID'[i].path
    BY <1>3, <1>8, <1>12, <1>23, <1>24 DEF Objects, Put
  <2>2. \A i \in DOMAIN segsByID : partsByID'[segsByID[i].part].path = SegPath(i)
    BY <1>7, <1>24, SegmentFacts DEF SegPath
  <2>3. ASSUME NEW i \in DOMAIN segObjs'
        PROVE  /\ i \in DOMAIN segsByID
               /\ segObjs'[i] = [path |-> SegPath(i), first |-> segsByID[i].first,
                                 rows |-> segObjs'[i].rows]
    <3>1. CASE i = p BY <1>20, <1>21, <1>22, <3>1
    <3>2. CASE i # p BY <1>8, <1>22, <3>2 DEF Objects, SegPath
    <3> QED BY <3>1, <3>2
  <2> QED BY <1>4, <2>1, <2>2, <2>3 DEF Objects
<1>26. Kept(segsByName[PartSeg], PartIndex, P2)'
  BY <1>4, <1>21, <1>22 DEF Kept
<1>27. Kept(segsByName[SegSeg], SegIndex, S)'
  <2>1. Kept(s, SegIndex, S) BY <1>7 DEF Live
  <2>2. disk'[Home][SegIndex] = disk[Home][SegIndex] BY <1>14 DEF Serves
  <2> QED BY <1>4, <1>20, <1>22, <2>1, <2>2 DEF Kept
<1>28. Live(P2, S)' BY <1>18, <1>19, <1>25, <1>26, <1>27 DEF Live
<1>29. partCounter' = d + 1 /\ d + 1 \in 0 .. Width8 - 1 BY <1>2, <1>10, Widths, SMT
<1>30. Beyond(P2, partCounter')
  <2>1. \A t \in P2 : t.id \in Nat /\ (t.id < d \/ t.id = d) BY <1>10, <1>12, <1>13
  <2>2. \A i \in Nat : i < d \/ i = d => i < d + 1 BY <1>10, SMT
  <2> QED BY <1>29, <2>1, <2>2 DEF Beyond
<1>31. FilesOK(disk') BY <1>14 DEF Serves
<1>32. Beyond(S, segCounter') /\ segCounter' \in 0 .. Width16 - 1
  BY <1>4, <1>6, <1>7 DEF Beyond, Typed
<1>33. mode' = mode /\ master' = master BY <1>4
<1> QED BY <1>5, <1>6, <1>28, <1>29, <1>30, <1>31, <1>32, <1>33, Continues

LEMMA CreateSegmentKept ==
  ASSUME OneMaster, NoneApart, SoundAllocs, IInv, NEW n, NEW sn \in SegNames, NEW f \in FirstPages,
         CreateSegment(n, sn, f)
  PROVE  IInv'
<1> DEFINE d == partsByName[n]
           i == segCounter
           p == segsByName[PartSeg]
           s == segsByName[SegSeg]
           q == PathOf(d)
           tuple == SegTuple(i, sn, d, f)
           new == [path |-> q, first |-> f, rows |-> {}]
           objs == Put(segObjs, s, [Opened(s) EXCEPT !.rows = Opened(s).rows \cup {tuple}])
<1>1. /\ mode = "running" /\ n \in DOMAIN partsByName /\ sn \notin DOMAIN segsByName
      /\ i < MaxSegID /\ f \notin DOMAIN disk[q] /\ segCounter' = (i + 1) % Width16
  BY GivesFree DEF CreateSegment
<1>2. /\ partObjs' = WithPartition(d) /\ segObjs' = Put(objs, i, new)
      /\ segsByID' = Put(segsByID, i, tuple) /\ segsByName' = Put(segsByName, sn, i)
      /\ disk' = [disk EXCEPT ![q] = Put(@, f, {})]
  BY DEF CreateSegment, WithRow
<1>3. UNCHANGED <<mode, master, partCounter, partsByID, partsByName>> BY DEF CreateSegment
<1>4. Typed /\ FilesOK(disk) /\ master = Home BY <1>1, Running
<1>5. PICK P, S : Live(P, S) /\ Beyond(P, partCounter) /\ Beyond(S, segCounter) BY <1>1, Running
<1>6. Sound(P, S, disk) /\ Mapped(P, S) /\ Objects BY <1>5 DEF Live
<1>7. d \in DOMAIN partsByID /\ partsByID[d] \in P /\ partsByID[d].id = d
  BY <1>1, <1>5, NamesFound, PartitionFacts
<1>8. q \in Paths /\ disk[q] # None /\ q = partsByID[d].path BY <1>5, <1>7, PartitionFacts
<1>9. i \in Nat /\ \A t \in S : t.id \in Nat /\ t.id < i /\ t.id # i
  <2>1. i \in 0 .. Width16 - 1 BY <1>4 DEF Typed
  <2>2. \A t \in S : t.id \in 0 .. MaxSegID - 1 BY <1>6, TupleTypes DEF Sound
  <2>3. \A t \in S : t.id < i BY <1>5 DEF Beyond
  <2> QED BY <2>1, <2>2, <2>3, Widths, SMT
<1>10. PICK x : x = tuple OBVIOUS
<1>11. x \in SegTuples /\ x.id = i /\ x.name = sn /\ x.part = d /\ x.first = f
  <2>1. i \in 0 .. MaxSegID - 1 BY <1>1, <1>9, Widths, SMT
  <2>2. d \in 0 .. MaxPartID - 1 BY <1>6, <1>7, TupleTypes DEF Sound
  <2> QED BY <1>10, <2>1, <2>2 DEF SegTuple, SegTuples
<1>12. PICK S2 : S2 = S \cup {x} OBVIOUS
<1> HIDE DEF tuple
<1>13. Serves(disk', P) /\ f \in DOMAIN disk'[q] BY <1>1, <1>2, <1>4, <1>5, <1>8, PageAdded
<1>14. Sound(P, S, disk') BY <1>6, <1>13, SoundKept DEF Serves
<1>15. UniqueIDs(S2) /\ ByID(S2) = Put(segsByID, i, x)
  <2>1. \A u \in S : u.id # x.id BY <1>9, <1>11
  <2>2. UniqueIDs(S) /\ segsByID = ByID(S) BY <1>6 DEF Sound, Mapped
  <2> QED BY <1>11, <1>12, <2>1, <2>2, ByIDAdd
<1>16. UniqueNames(S2) /\ ByName(S2) = Put(segsByName, sn, i)
  <2>1. DOMAIN segsByName = {t.name : t \in S} BY <1>6, Lookups
  <2>2. \A u \in S : u.name # x.name BY <1>1, <1>11, <2>1
  <2>3. UniqueNames(S) /\ segsByName = ByName(S) BY <1>6 DEF Sound, Mapped
  <2> QED BY <1>11, <1>12, <2>2, <2>3, ByNameAdd
<1>17. ASSUME NEW t \in S PROVE ~(t.part = d /\ t.first = f)
  <2>1. PICK u \in P : u.id = t.part /\ t.first \in DOMAIN disk[u.path] BY <1>6 DEF Sound
  <2>2. u.id = d => u = partsByID[d] BY <1>6, <1>7 DEF Sound, UniqueIDs
  <2> QED BY <1>1, <1>8, <2>1, <2>2
<1>18. Sound(P, S2, disk')
  <2>1. S2 \subseteq SegTuples BY <1>11, <1>12, <1>14 DEF Sound
  <2>2. \A t, u \in S2 : t.part = u.part /\ t.first = u.first => t = u
    BY <1>11, <1>12, <1>14, <1>17 DEF Sound
  <2>3. \A t \in S2 : \E u \in P : u.id = t.part /\ t.first \in DOMAIN disk'[u.path]
    <3>1. x.part = partsByID[d].id /\ x.first \in DOMAIN disk'[partsByID[d].path]
      BY <1>7, <1>8, <1>11, <1>13
    <3> QED BY <1>7, <1>12, <1>14, <3>1 DEF Sound
  <2>4. \E t \in P : /\ t.name = MasterPart /\ t.path = Home
                     /\ Located(S2, PartSeg, t.id, PartIndex) /\ Located(S2, SegSeg, t.id, SegIndex)
    BY <1>12, <1>14 DEF Sound, Located
  <2> QED BY <1>14, <1>15, <1>16, <2>1, <2>2, <2>3, <2>4 DEF Sound
<1>19. Mapped(P, S2)' BY <1>2, <1>3, <1>6, <1>10, <1>15, <1>16 DEF Mapped
<1>20. p \in DOMAIN segsByID /\ s \in DOMAIN segsByID /\ s # p /\ Opened(s).rows = S
  BY <1>5, MasterFacts
<1>21. i \notin DOMAIN segsByID /\ \A j \in DOMAIN segObjs : j \in DOMAIN segsByID
  <2>1. \A j \in DOMAIN segsByID : segsByID[j] \in S /\ segsByID[j].id = j BY <1>6, Lookups
  <2> QED BY <1>6, <1>9, <2>1 DEF Objects
<1>22. PICK o : o = [path |-> SegPath(s), first |-> segsByID[s].first, rows |-> S2] OBVIOUS
<1>23. PICK y : y = new OBVIOUS
<1> HIDE DEF objs, new
<1>24. /\ DOMAIN segObjs' = DOMAIN segObjs \cup {s, i} /\ segObjs'[s] = o /\ segObjs'[i] = y
       /\ \A j \in DOMAIN segObjs : j # s => segObjs'[j] = segObjs[j]
  <2>1. objs = Put(segObjs, s, [Opened(s) EXCEPT !.rows = S2]) BY <1>10, <1>12, <1>20 DEF objs
  <2>2. objs = Put(segObjs, s, o) BY <1>5, <1>20, <1>22, <2>1, OpenedWith
  <2>3. segObjs' = Put(objs, i, y) BY <1>2, <1>23
  <2>4. i # s /\ i \notin DOMAIN segObjs BY <1>20, <1>21
  <2> QED BY <2>2, <2>3, <2>4 DEF Put
<1>25. /\ DOMAIN segsByID' = DOMAIN segsByID \cup {i} /\ segsByID'[i] = x
       /\ \A j \in DOMAIN segsByID : segsByID'[j] = segsByID[j]
  BY <1>2, <1>10, <1>21 DEF Put
<1>26. /\ segsByName'[PartSeg] = p /\ segsByName'[SegSeg] = s
  <2>1. sn # PartSeg /\ sn # SegSeg BY CatalogAssumption
  <2>2. PartSeg \in DOMAIN segsByName /\ SegSeg \in DOMAIN segsByName
    <3>1. DOMAIN segsByName = {t.name : t \in S} BY <1>6, Lookups
    <3> QED BY <1>6, <3>1 DEF Sound, Located
  <2> QED BY <1>2, <2>1, <2>2 DEF Put
<1>27. Objects'
  <2>1. \A j \in DOMAIN partObjs' : j \in DOMAIN partsByID /\ partObjs'[j] = partsByID[j].path
    BY <1>2, <1>6, <1>7, <1>8 DEF Objects, WithPartition, Put
  <2>2. \A j \in DOMAIN segsByID : partsByID[segsByID'[j].part].path = SegPath(j)
    BY <1>25 DEF SegPath
  <2>3. ASSUME NEW j \in DOMAIN segObjs'
        PROVE  /\ j \in DOMAIN segsByID'
               /\ segObjs'[j] = [path |-> partsByID[segsByID'[j].part].path,
                                 first |-> segsByID'[j].first, rows |-> segObjs'[j].rows]
    <3>1. CASE j = s BY <1>20, <1>22, <1>24, <1>25, <2>2, <3>1
    <3>2. CASE j = i
      <4>1. y = [path |-> q, first |-> f, rows |-> y.rows] BY <1>23 DEF new
      <4>2. segObjs'[j] = y /\ segsByID'[j] = x /\ j \in DOMAIN segsByID' BY <1>24, <1>25, <3>2
      <4>3. partsByID[segsByID'[j].part].path = q BY <1>8, <1>11, <4>2
      <4> QED BY <1>11, <4>1, <4>2, <4>3
    <3>3. CASE j # s /\ j # i
      <4>1. j \in DOMAIN segObjs /\ segObjs'[j] = segObjs[j] BY <1>24, <3>3
      <4>2. j \in DOMAIN segsByID
            /\ segObjs[j] = [path |-> SegPath(j), first |-> segsByID[j].first, rows |-> segObjs[j].rows]
        BY <1>6, <4>1 DEF Objects, SegPath
      <4> QED BY <1>25, <2>2, <4>1, <4>2
    <3> QED BY <3>1, <3>2, <3>3
  <2> QED BY <1>3, <2>1, <2>3 DEF Objects
<1>28. Kept(segsByName[SegSeg], SegIndex, S2)' BY <1>22, <1>24, <1>26 DEF Kept
<1>29. Kept(segsByName[PartSeg], PartIndex, P)'
  <2>1. Kept(p, PartIndex, P) BY <1>5 DEF Live
  <2>2. disk'[Home][PartIndex] = disk[Home][PartIndex] BY <1>13 DEF Serves
  <2>3. p # i BY <1>20, <1>21
  <2> QED BY <1>20, <1>24, <1>26, <2>1, <2>2, <2>3 DEF Kept
<1>30. Live(P, S2)' BY <1>18, <1>19, <1>27, <1>28, <1>29 DEF Live
<1>31. segCounter' = i + 1 /\ i + 1 \in 0 .. Width16 - 1 BY <1>1, <1>9, Widths, SMT
<1>32. Beyond(S2, segCounter')
  <2>1. \A t \in S2 : t.id \in Nat /\ (t.id < i \/ t.id = i) BY <1>9, <1>11, <1>12
  <2>2. \A k \in Nat : k < i \/ k = i => k < i + 1 BY <1>9, SMT
  <2> QED BY <1>31, <2>1, <2>2 DEF Beyond
<1>33. FilesOK(disk') BY <1>13 DEF Serves
<1>34. Beyond(P, partCounter') /\ partCounter' \in 0 .. Width8 - 1
  BY <1>3, <1>4, <1>5 DEF Beyond, Typed
<1>35. mode' = mode /\ master' = master BY <1>3
<1> QED BY <1>1, <1>4, <1>30, <1>31, <1>32, <1>33, <1>34, <1>35, Continues

-----------------------------------------------------------------------------
(* Commands that remove tuples from the catalog.  The segments I go, none   *)
(* of them a master segment.                                                *)
Rest(I, S2) ==
  /\ segsByID' = ByID(S2) /\ segsByName' = ByName(S2) /\ UniqueIDs(S2) /\ UniqueNames(S2)
  /\ segsByName'[PartSeg] = segsByName[PartSeg] /\ segsByName'[SegSeg] = segsByName[SegSeg]
  /\ DOMAIN segsByID' = DOMAIN segsByID \ I
  /\ \A i \in DOMAIN segsByID' : segsByID'[i] = segsByID[i]
  /\ \A t \in S2 : t.id \in DOMAIN segsByID \ I
  /\ \A i \in DOMAIN segsByID \ I : segsByID[i] \in S2

LEMMA SegmentsRemoved ==
  ASSUME OneMaster, NEW P, NEW S, Live(P, S), NEW I, I \subseteq DOMAIN segsByID,
         segsByName[PartSeg] \notin I, segsByName[SegSeg] \notin I, DeleteTuples(I),
         NEW S2, S2 \subseteq S, \A t \in S : t \in S2 <=> t.id \notin I
  PROVE  Rest(I, S2)
<1> DEFINE D == {segsByID[i] : i \in I}
<1>1. Sound(P, S, disk) /\ Mapped(P, S) BY DEF Live
<1>2. \A i \in DOMAIN segsByID : segsByID[i] \in S /\ segsByID[i].id = i BY <1>1, Lookups
<1>3. \A t \in S : t.id \in DOMAIN segsByID /\ segsByID[t.id] = t BY <1>1, Lookups
<1>4. D \in SUBSET S /\ {t.id : t \in D} = I /\ {t.name : t \in D} = {segsByID[i].name : i \in I}
  BY <1>2
<1>5. \A i \in DOMAIN segsByID : segsByID[i] \in D <=> i \in I BY <1>2
<1> HIDE DEF D
<1>0. S \ D = S2 BY <1>3, <1>4
<1>6. UniqueIDs(S) /\ UniqueNames(S) /\ segsByID = ByID(S) /\ segsByName = ByName(S)
  BY <1>1 DEF Sound, Mapped
<1>7. UniqueIDs(S \ D) /\ ByID(S \ D) = Without(ByID(S), {t.id : t \in D})
  BY <1>4, <1>6, ByIDRemove
<1>8. UniqueNames(S \ D) /\ ByName(S \ D) = Without(ByName(S), {t.name : t \in D})
  BY <1>4, <1>6, ByNameRemove
<1>9. /\ segsByID' = Without(segsByID, I)
      /\ segsByName' = Without(segsByName, {segsByID[i].name : i \in I})
  BY DEF DeleteTuples
<1>10. segsByID' = ByID(S \ D) /\ segsByName' = ByName(S \ D) BY <1>4, <1>6, <1>7, <1>8, <1>9
<1>11. DOMAIN segsByID' = DOMAIN segsByID \ I /\ \A i \in DOMAIN segsByID' : segsByID'[i] = segsByID[i]
  BY <1>9 DEF Without, Restrict
<1>12. \A i \in DOMAIN segsByID \ I : segsByID[i] \in S \ D BY <1>2, <1>5
<1>13. \A t \in S \ D : t.id \in DOMAIN segsByID \ I BY <1>3, <1>5
<1>14. \A t \in S \ D : segsByName'[t.name] = t.id
  BY <1>8, <1>10, ByNameIs
<1>15. /\ segsByName[PartSeg] \in DOMAIN segsByID /\ segsByID[segsByName[PartSeg]].name = PartSeg
       /\ segsByName[SegSeg] \in DOMAIN segsByID /\ segsByID[segsByName[SegSeg]].name = SegSeg
  BY MasterFacts
<1>16. segsByName'[PartSeg] = segsByName[PartSeg] BY <1>2, <1>12, <1>14, <1>15
<1>17. segsByName'[SegSeg] = segsByName[SegSeg] BY <1>2, <1>12, <1>14, <1>15
<1> QED BY <1>0, <1>7, <1>8, <1>10, <1>11, <1>12, <1>13, <1>16, <1>17 DEF Rest

(* Their objects go, and their tuples from the object of their master       *)
(* segment, which leaves T.                                                 *)
Remain(objs, I, P, T) ==
  /\ \A i \in DOMAIN objs :
       /\ i \in DOMAIN segsByID \ I
       /\ objs[i] = [path |-> SegPath(i), first |-> segsByID[i].first, rows |-> objs[i].rows]
  /\ IF segsByName[SegSeg] \in DOMAIN objs THEN objs[segsByName[SegSeg]].rows = T
     ELSE disk[Home][SegIndex] = T
  /\ IF segsByName[PartSeg] \in DOMAIN objs THEN objs[segsByName[PartSeg]].rows = P
     ELSE disk[Home][PartIndex] = P

LEMMA ObjectsRemoved ==
  ASSUME OneMaster, NEW P, NEW S, Live(P, S), NEW I \in SUBSET DOMAIN segsByID,
         segsByName[PartSeg] \notin I, segsByName[SegSeg] \notin I, NEW D,
         NEW objs,
         \/ I = {} /\ D = {} /\ objs = segObjs
         \/ objs = Without(WithoutRows(segsByName[SegSeg], D), I)
  PROVE  Remain(objs, I, P, S \ D)
<1> DEFINE p == segsByName[PartSeg]
           s == segsByName[SegSeg]
<1>1. \A i \in DOMAIN segObjs :
        /\ i \in DOMAIN segsByID
        /\ segObjs[i] = [path |-> SegPath(i), first |-> segsByID[i].first, rows |-> segObjs[i].rows]
  BY DEF Live, Objects, SegPath
<1>2. Kept(p, PartIndex, P) /\ Kept(s, SegIndex, S) BY DEF Live
<1>3. s \in DOMAIN segsByID /\ p # s /\ Opened(s).rows = S BY MasterFacts
<1>4. CASE I = {} /\ D = {} /\ objs = segObjs BY <1>1, <1>2, <1>4 DEF Kept, Remain
<1>5. CASE objs = Without(WithoutRows(s, D), I)
  <2>1. PICK o : o = [path |-> SegPath(s), first |-> segsByID[s].first, rows |-> S \ D] OBVIOUS
  <2>2. WithoutRows(s, D) = Put(segObjs, s, o)
    <3>1. [Opened(s) EXCEPT !.rows = @ \ D] = [Opened(s) EXCEPT !.rows = S \ D] BY <1>3
    <3> QED BY <1>3, <2>1, <3>1, OpenedWith DEF WithoutRows
  <2>3. /\ DOMAIN objs = (DOMAIN segObjs \cup {s}) \ I /\ objs[s] = o
        /\ \A i \in DOMAIN objs : i # s => i \in DOMAIN segObjs /\ objs[i] = segObjs[i]
    BY <1>5, <2>2 DEF Put, Without, Restrict
  <2>4. ASSUME NEW i \in DOMAIN objs
        PROVE  /\ i \in DOMAIN segsByID \ I
               /\ objs[i] = [path |-> SegPath(i), first |-> segsByID[i].first, rows |-> objs[i].rows]
    <3>1. CASE i = s BY <1>3, <2>1, <2>3, <3>1
    <3>2. CASE i # s BY <1>1, <2>3, <3>2
    <3> QED BY <3>1, <3>2
  <2>5. s \in DOMAIN objs /\ objs[s].rows = S \ D BY <2>1, <2>3
  <2>6. IF p \in DOMAIN objs THEN objs[p].rows = P ELSE disk[Home][PartIndex] = P
    BY <1>2, <1>3, <2>3 DEF Kept
  <2> QED BY <2>4, <2>5, <2>6 DEF Remain
<1> QED BY <1>4, <1>5

LEMMA DropSegmentKept ==
  ASSUME OneMaster, NoneApart, IInv, NEW sn \in SegNames, DropSegment(sn)
  PROVE  IInv'
<1> DEFINE i == segsByName[sn]
           p == segsByName[PartSeg]
           s == segsByName[SegSeg]
           q == SegPath(i)
           f == segsByID[i].first
<1>1. /\ mode = "running" /\ sn \in DOMAIN segsByName /\ partObjs' = WithPartition(segsByID[i].part)
      /\ disk' = [disk EXCEPT ![Opened(i).path] = Without(@, {Opened(i).first})]
      /\ mode' = IF segsByID[i] \in Opened(s).rows THEN mode ELSE "failed"
      /\ segObjs' = Without(WithoutRows(s, {segsByID[i]}), {i})
      /\ DeleteTuples({i})
  BY DEF DropSegment
<1>2. UNCHANGED <<master, partCounter, partsByID, partsByName, segCounter>> BY DEF DropSegment
<1>3. Typed /\ FilesOK(disk) /\ master = Home BY <1>1, Running
<1>4. PICK P, S : Live(P, S) /\ Beyond(P, partCounter) /\ Beyond(S, segCounter) BY <1>1, Running
<1>5. Sound(P, S, disk) /\ Mapped(P, S) /\ Objects BY <1>4 DEF Live
<1>6. i \in DOMAIN segsByID /\ segsByID[i].name = sn /\ segsByID[i] \in S
  BY <1>1, <1>4, NamesFound
<1>7. i # p /\ i # s
  <2>1. PartSeg \notin SegNames /\ SegSeg \notin SegNames BY CatalogAssumption
  <2> QED BY <1>4, <1>6, <2>1, MasterFacts
<1>8. PICK D : D = {segsByID[i]} OBVIOUS
<1>9. PICK S2 : S2 = S \ D OBVIOUS
<1>10. /\ segsByID' = ByID(S2) /\ segsByName' = ByName(S2) /\ UniqueIDs(S2) /\ UniqueNames(S2)
       /\ segsByName'[PartSeg] = p /\ segsByName'[SegSeg] = s
       /\ DOMAIN segsByID' = DOMAIN segsByID \ {i}
       /\ \A j \in DOMAIN segsByID' : segsByID'[j] = segsByID[j]
  <2>1. S2 \subseteq S /\ \A t \in S : t \in S2 <=> t.id \notin {i}
    <3>1. \A t \in S : t.id \in DOMAIN segsByID /\ segsByID[t.id] = t BY <1>5, Lookups
    <3>2. segsByID[i].id = i BY <1>4, <1>6, SegmentFacts
    <3> QED BY <1>6, <1>8, <1>9, <3>1, <3>2
  <2>2. Rest({i}, S2) BY <1>1, <1>4, <1>6, <1>7, <2>1, SegmentsRemoved
  <2> QED BY <2>2 DEF Rest
<1>11. /\ \A j \in DOMAIN segObjs' :
            /\ j \in DOMAIN segsByID \ {i}
            /\ segObjs'[j] = [path |-> SegPath(j), first |-> segsByID[j].first,
                              rows |-> segObjs'[j].rows]
       /\ IF s \in DOMAIN segObjs' THEN segObjs'[s].rows = S2 ELSE disk[Home][SegIndex] = S2
       /\ IF p \in DOMAIN segObjs' THEN segObjs'[p].rows = P ELSE disk[Home][PartIndex] = P
  <2>1. PICK o : o = segObjs' OBVIOUS
  <2>2. PICK I : I = {i} OBVIOUS
  <2>3. o = Without(WithoutRows(s, D), I) BY <1>1, <1>8, <2>1, <2>2
  <2>4. I \in SUBSET DOMAIN segsByID /\ p \notin I /\ s \notin I BY <1>6, <1>7, <2>2
  <2>5. Remain(o, I, P, S \ D) BY <1>4, <2>3, <2>4, ObjectsRemoved
  <2> QED BY <1>9, <2>1, <2>2, <2>5 DEF Remain
<1>12. /\ q \in Paths /\ disk[q] # None /\ f \in DOMAIN disk[q]
       /\ Opened(i).path = q /\ Opened(i).first = f
  BY <1>4, <1>6, SegmentFacts
<1>13. PICK x : x = Without(disk[q], {f}) OBVIOUS
<1>14. x # None /\ DOMAIN x = DOMAIN disk[q] \ {f} /\ \A g \in DOMAIN x : x[g] = disk[q][g]
  <2>1. x # None BY <1>13, WithoutIsFile
  <2> QED BY <1>13, <2>1 DEF Without, Restrict
<1> HIDE DEF q, f
<1>15. /\ DOMAIN disk' = Paths /\ disk'[q] = x
       /\ \A r \in Paths : r # q => disk'[r] = disk[r]
  BY <1>1, <1>3, <1>12, <1>13 DEF FilesOK
<1>16. FilesOK(disk')
  <2>1. DOMAIN x \subseteq FirstPages BY <1>3, <1>12, <1>14 DEF FilesOK
  <2> QED BY <1>3, <1>14, <1>15, <2>1 DEF FilesOK, Paths
<1>17. /\ disk'[Home][PartIndex] = disk[Home][PartIndex]
       /\ disk'[Home][SegIndex] = disk[Home][SegIndex]
  <2>1. /\ SegPath(p) = Home /\ SegPath(s) = Home /\ p \in DOMAIN segsByID /\ s \in DOMAIN segsByID
        /\ segsByID[p].first = PartIndex /\ segsByID[s].first = SegIndex
        /\ PartIndex \in DOMAIN disk[Home] /\ SegIndex \in DOMAIN disk[Home]
    BY <1>4, MasterFacts
  <2>2. q = Home => f # PartIndex /\ f # SegIndex
    BY <1>4, <1>6, <1>7, <2>1, SegmentFacts DEF q, f
  <2>3. Home \in Paths BY Paths0
  <2> QED BY <1>14, <1>15, <2>1, <2>2, <2>3
<1>18. ASSUME NEW t \in S2
       PROVE  \E u \in P : u.id = t.part /\ t.first \in DOMAIN disk'[u.path]
  <2>1. t \in S /\ t # segsByID[i] BY <1>8, <1>9
  <2>2. PICK u \in P : u.id = t.part /\ t.first \in DOMAIN disk[u.path] BY <1>5, <2>1 DEF Sound
  <2>3. u.path \in Paths BY <1>5, TupleTypes DEF Sound
  <2>4. ASSUME u.path = q PROVE t.first # f
    <3>1. segsByID[i].part \in DOMAIN partsByID BY <1>4, <1>6, SegmentFacts
    <3>2. /\ partsByID[segsByID[i].part] \in P
          /\ partsByID[segsByID[i].part].id = segsByID[i].part
      BY <1>4, <3>1, PartitionFacts
    <3>3. u = partsByID[segsByID[i].part] BY <1>5, <2>4, <3>2 DEF Sound, q, SegPath
    <3>4. t.part = segsByID[i].part BY <2>2, <3>2, <3>3
    <3> QED BY <1>5, <1>6, <2>1, <3>4 DEF Sound, f
  <2> QED BY <1>14, <1>15, <2>2, <2>3, <2>4
<1>19. Sound(P, S2, disk')
  <2>1. S2 \subseteq S BY <1>9
  <2>2. \A t \in P : disk'[t.path] # None BY <1>5, <1>14, <1>15, TupleTypes DEF Sound
  <2>3. \E t \in P : /\ t.name = MasterPart /\ t.path = Home
                     /\ Located(S2, PartSeg, t.id, PartIndex) /\ Located(S2, SegSeg, t.id, SegIndex)
    <3>1. PICK t \in P : /\ t.name = MasterPart /\ t.path = Home
                         /\ Located(S, PartSeg, t.id, PartIndex) /\ Located(S, SegSeg, t.id, SegIndex)
      BY <1>5 DEF Sound
    <3>2. PartSeg \notin SegNames /\ SegSeg \notin SegNames BY CatalogAssumption
    <3>3. \A u \in S : u.name \notin SegNames => u \in S2 BY <1>6, <1>8, <1>9
    <3> QED BY <3>1, <3>2, <3>3 DEF Located
  <2>4. \A t, u \in S2 : t.part = u.part /\ t.first = u.first => t = u BY <1>5, <2>1 DEF Sound
  <2> QED BY <1>5, <1>10, <1>18, <2>1, <2>2, <2>3, <2>4 DEF Sound
<1>20. Mapped(P, S2)' BY <1>2, <1>5, <1>10 DEF Mapped
<1>21. Objects'
  <2>1. segsByID[i].part \in DOMAIN partsByID BY <1>4, <1>6, SegmentFacts
  <2>2. PathOf(segsByID[i].part) = partsByID[segsByID[i].part].path BY <1>4, <2>1, PartitionFacts
  <2>3. \A j \in DOMAIN partObjs' : j \in DOMAIN partsByID /\ partObjs'[j] = partsByID[j].path
    BY <1>1, <1>5, <2>1, <2>2 DEF Objects, WithPartition, Put
  <2> QED BY <1>2, <1>10, <1>11, <2>3 DEF Objects, SegPath
<1>22. Kept(segsByName[PartSeg], PartIndex, P)' BY <1>10, <1>11, <1>17 DEF Kept
<1>23. Kept(segsByName[SegSeg], SegIndex, S2)' BY <1>10, <1>11, <1>17 DEF Kept
<1>24. Live(P, S2)' BY <1>19, <1>20, <1>21, <1>22, <1>23 DEF Live
<1>25. mode' = mode
  <2>1. Opened(s).rows = S BY <1>4, MasterFacts
  <2> QED BY <1>1, <1>6, <2>1
<1>26. Beyond(S2, segCounter') BY <1>2, <1>4, <1>9 DEF Beyond
<1>27. Beyond(P, partCounter') BY <1>2, <1>4 DEF Beyond
<1>28. /\ partCounter' \in 0 .. Width8 - 1 /\ segCounter' \in 0 .. Width16 - 1
       /\ master' = master
  BY <1>2, <1>3 DEF Typed
<1> QED BY <1>1, <1>3, <1>16, <1>24, <1>25, <1>26, <1>27, <1>28, Continues

LEMMA DropPartitionKept ==
  ASSUME OneMaster, NoneApart, IInv, NEW n \in PartNames, DropPartition(n)
  PROVE  IInv'
<1> DEFINE d == partsByName[n]
           p == segsByName[PartSeg]
           s == segsByName[SegSeg]
           q == PathOf(d)
           rest == IF OnPartition(d) = {} THEN segObjs
                   ELSE Without(WithoutRows(s, {segsByID[i] : i \in OnPartition(d)}), OnPartition(d))
<1>1. /\ mode = "running" /\ n \in DOMAIN partsByName
      /\ mode' = IF /\ partsByID[d] \in Opened(p).rows
                    /\ {segsByID[i] : i \in OnPartition(d)} \subseteq Opened(s).rows
                 THEN mode ELSE "failed"
      /\ segObjs' = Put(rest, p, [Opened(p) EXCEPT !.rows = @ \ {partsByID[d]}])
      /\ DeleteTuples(OnPartition(d))
      /\ disk' = [disk EXCEPT ![q] = IF q \in Devices THEN Nowhere ELSE None]
      /\ partObjs' = Without(partObjs, {d})
      /\ partsByID' = Without(partsByID, {d}) /\ partsByName' = Without(partsByName, {n})
  BY DEF DropPartition, DeleteObject, Formatted
<1>2. UNCHANGED <<master, partCounter, segCounter>> BY DEF DropPartition
<1>3. Typed /\ FilesOK(disk) /\ master = Home BY <1>1, Running
<1>4. PICK P, S : Live(P, S) /\ Beyond(P, partCounter) /\ Beyond(S, segCounter) BY <1>1, Running
<1>5. Sound(P, S, disk) /\ Mapped(P, S) /\ Objects BY <1>4 DEF Live
<1>6. /\ d \in DOMAIN partsByID /\ partsByID[d] \in P /\ partsByID[d].name = n
      /\ partsByID[d].id = d /\ q = partsByID[d].path /\ q \in Paths
  BY <1>1, <1>4, NamesFound, PartitionFacts
<1>7. PICK t0 \in P : t0 = partsByID[d] BY <1>6
<1>8. PICK P2 : P2 = P \ {t0} OBVIOUS
<1>9. PICK I : I = OnPartition(d) OBVIOUS
<1>10. I \in SUBSET DOMAIN segsByID /\ \A i \in DOMAIN segsByID : i \in I <=> segsByID[i].part = d
  BY <1>9 DEF OnPartition
<1>11. p \notin I /\ s \notin I /\ p \in DOMAIN segsByID /\ Opened(p).rows = P /\ Opened(s).rows = S
  <2>1. MasterPart # n BY CatalogAssumption
  <2> QED BY <1>4, <1>6, <1>10, <2>1, MasterFacts
<1>12. PICK D : D = {segsByID[i] : i \in I} OBVIOUS
<1>13. PICK S2 : S2 = S \ D OBVIOUS
<1>14. /\ segsByID' = ByID(S2) /\ segsByName' = ByName(S2) /\ UniqueIDs(S2) /\ UniqueNames(S2)
       /\ segsByName'[PartSeg] = p /\ segsByName'[SegSeg] = s
       /\ DOMAIN segsByID' = DOMAIN segsByID \ I
       /\ \A i \in DOMAIN segsByID' : segsByID'[i] = segsByID[i]
       /\ \A t \in S2 : t.id \in DOMAIN segsByID \ I
       /\ \A i \in DOMAIN segsByID \ I : segsByID[i] \in S2
  <2>1. S2 \subseteq S /\ \A t \in S : t \in S2 <=> t.id \notin I
    <3>1. \A t \in S : t.id \in DOMAIN segsByID /\ segsByID[t.id] = t BY <1>5, Lookups
    <3>2. \A i \in DOMAIN segsByID : segsByID[i].id = i BY <1>5, Lookups
    <3> QED BY <1>10, <1>12, <1>13, <3>1, <3>2
  <2>2. DeleteTuples(I) BY <1>1, <1>9
  <2>3. Rest(I, S2) BY <1>4, <1>10, <1>11, <2>1, <2>2, SegmentsRemoved
  <2> QED BY <2>3 DEF Rest
<1>15. PICK objs : objs = rest OBVIOUS
<1>16. Remain(objs, I, P, S2)
  <2>1. \/ I = {} /\ D = {} /\ objs = segObjs
        \/ objs = Without(WithoutRows(s, D), I)
    <3>1. CASE I = {} BY <1>9, <1>12, <1>15, <3>1
    <3>2. CASE I # {} BY <1>9, <1>12, <1>15, <3>2
    <3> QED BY <3>1, <3>2
  <2> QED BY <1>4, <1>10, <1>11, <1>13, <2>1, ObjectsRemoved
<1>17. PICK o : o = [path |-> SegPath(p), first |-> segsByID[p].first, rows |-> P2] OBVIOUS
<1>18. /\ DOMAIN segObjs' = DOMAIN objs \cup {p} /\ segObjs'[p] = o
       /\ \A i \in DOMAIN objs : i # p => segObjs'[i] = objs[i]
  <2>1. [Opened(p) EXCEPT !.rows = @ \ {partsByID[d]}] = [Opened(p) EXCEPT !.rows = P2]
    BY <1>7, <1>8, <1>11
  <2>2. segObjs' = Put(objs, p, o) BY <1>1, <1>4, <1>11, <1>15, <1>17, <2>1, OpenedWith
  <2> QED BY <2>2 DEF Put
<1> HIDE DEF rest
<1>19. PICK x : x = IF q \in Devices THEN Nowhere ELSE None OBVIOUS
<1>20. /\ DOMAIN disk' = Paths /\ disk'[q] = x
       /\ \A r \in Paths : r # q => disk'[r] = disk[r]
  BY <1>1, <1>3, <1>6, <1>19 DEF FilesOK
<1>21. FilesOK(disk')
  <2>1. DOMAIN Nowhere = {} /\ Nowhere # None BY NowhereIs
  <2> QED BY <1>3, <1>19, <1>20, <2>1 DEF FilesOK, Paths
<1> HIDE DEF q
<1>22. \A t \in P2 : t \in P /\ t.id # d /\ t.path \in Paths /\ disk'[t.path] = disk[t.path]
  <2>1. \A t \in P2 : t \in P /\ t.id # d /\ t.path # q BY <1>5, <1>6, <1>7, <1>8 DEF Sound, UniqueIDs
  <2>2. \A t \in P : t.path \in Paths BY <1>5, TupleTypes DEF Sound
  <2> QED BY <1>20, <2>1, <2>2
<1>23. \A t \in S2 : t \in S /\ t.part # d
  <2>1. \A t \in S : segsByID[t.id] = t BY <1>5, Lookups
  <2> QED BY <1>10, <1>13, <1>14, <2>1
<1>24. PICK t1 \in P2 : /\ t1.name = MasterPart /\ t1.path = Home
                        /\ Located(S, PartSeg, t1.id, PartIndex) /\ Located(S, SegSeg, t1.id, SegIndex)
  <2>1. PICK t \in P : /\ t.name = MasterPart /\ t.path = Home
                       /\ Located(S, PartSeg, t.id, PartIndex) /\ Located(S, SegSeg, t.id, SegIndex)
    BY <1>5 DEF Sound
  <2>2. MasterPart # n BY CatalogAssumption
  <2> QED BY <1>6, <1>7, <1>8, <2>1, <2>2
<1>25. disk'[Home] = disk[Home] BY <1>22, <1>24
<1>26. ASSUME NEW t \in S2
       PROVE  \E u \in P2 : u.id = t.part /\ t.first \in DOMAIN disk'[u.path]
  <2>1. PICK u \in P : u.id = t.part /\ t.first \in DOMAIN disk[u.path]
    BY <1>5, <1>23 DEF Sound
  <2>2. u \in P2 BY <1>6, <1>7, <1>8, <1>23, <2>1
  <2> QED BY <1>22, <2>1, <2>2
<1>27. /\ UniqueIDs(P2) /\ ByID(P2) = Without(partsByID, {d})
       /\ UniqueNames(P2) /\ ByName(P2) = Without(partsByName, {n})
  <2>1. PICK R : R = {t0} OBVIOUS
  <2>2. R \in SUBSET P /\ P2 = P \ R /\ {t.id : t \in R} = {d} /\ {t.name : t \in R} = {n}
    BY <1>6, <1>7, <1>8, <2>1
  <2>3. UniqueIDs(P) /\ UniqueNames(P) /\ partsByID = ByID(P) /\ partsByName = ByName(P)
    BY <1>5 DEF Sound, Mapped
  <2>4. UniqueIDs(P \ R) /\ ByID(P \ R) = Without(ByID(P), {t.id : t \in R})
    BY <2>2, <2>3, ByIDRemove
  <2>5. UniqueNames(P \ R) /\ ByName(P \ R) = Without(ByName(P), {t.name : t \in R})
    BY <2>2, <2>3, ByNameRemove
  <2> QED BY <2>2, <2>3, <2>4, <2>5
<1>28. Sound(P2, S2, disk')
  <2>1. P2 \subseteq P /\ S2 \subseteq S BY <1>8, <1>13
  <2>2. \A t \in P2 : disk'[t.path] # None BY <1>5, <1>22 DEF Sound
  <2>3. ASSUME NEW m, NEW f, Located(S, m, t1.id, f) PROVE Located(S2, m, t1.id, f)
    <3>1. PICK t \in S : t.name = m /\ t.part = t1.id /\ t.first = f BY <2>3 DEF Located
    <3>2. t \in S2
      <4>1. t.id \in DOMAIN segsByID /\ segsByID[t.id] = t BY <1>5, Lookups
      <4>2. t.id \notin I BY <1>10, <1>22, <3>1, <4>1
      <4> QED BY <1>14, <4>1, <4>2
    <3> QED BY <3>1, <3>2 DEF Located
  <2>4. Located(S2, PartSeg, t1.id, PartIndex) /\ Located(S2, SegSeg, t1.id, SegIndex)
    BY <1>24, <2>3
  <2>5. P2 \subseteq PartTuples /\ S2 \subseteq SegTuples BY <1>5, <2>1 DEF Sound
  <2>6. \A t, u \in P2 : t.path = u.path => t = u BY <1>5, <2>1 DEF Sound
  <2>7. \A t, u \in S2 : t.part = u.part /\ t.first = u.first => t = u BY <1>5, <2>1 DEF Sound
  <2> QED BY <1>14, <1>24, <1>26, <1>27, <2>2, <2>4, <2>5, <2>6, <2>7 DEF Sound
<1>29. Mapped(P2, S2)' BY <1>1, <1>14, <1>27 DEF Mapped
<1>30. /\ DOMAIN partsByID' = DOMAIN partsByID \ {d}
       /\ \A i \in DOMAIN partsByID' : partsByID'[i] = partsByID[i]
       /\ DOMAIN partObjs' = DOMAIN partObjs \ {d}
       /\ \A i \in DOMAIN partObjs' : partObjs'[i] = partObjs[i]
  BY <1>1 DEF Without, Restrict
<1>31. Objects'
  <2>1. \A i \in DOMAIN partObjs' : i \in DOMAIN partsByID' /\ partObjs'[i] = partsByID'[i].path
    BY <1>5, <1>30 DEF Objects
  <2>2. \A i \in DOMAIN segsByID \ I : partsByID'[segsByID'[i].part].path = SegPath(i)
    BY <1>4, <1>10, <1>14, <1>30, SegmentFacts DEF SegPath
  <2>3. ASSUME NEW i \in DOMAIN segObjs'
        PROVE  /\ i \in DOMAIN segsByID \ I
               /\ segObjs'[i] = [path |-> SegPath(i), first |-> segsByID[i].first,
                                 rows |-> segObjs'[i].rows]
    <3>1. CASE i = p BY <1>11, <1>17, <1>18, <3>1
    <3>2. CASE i # p BY <1>16, <1>18, <3>2 DEF Remain
    <3> QED BY <3>1, <3>2
  <2> QED BY <1>14, <2>1, <2>2, <2>3 DEF Objects
<1>32. Kept(segsByName[PartSeg], PartIndex, P2)' BY <1>14, <1>17, <1>18 DEF Kept
<1>33. Kept(segsByName[SegSeg], SegIndex, S2)'
  <2>1. p # s BY <1>4, MasterFacts
  <2> QED BY <1>14, <1>16, <1>18, <1>25, <2>1 DEF Kept, Remain
<1>34. Live(P2, S2)' BY <1>28, <1>29, <1>31, <1>32, <1>33 DEF Live
<1>35. mode' = mode
  <2>1. {segsByID[i] : i \in I} \subseteq S
    <3>1. \A i \in DOMAIN segsByID : segsByID[i] \in S BY <1>5, Lookups
    <3> QED BY <1>10, <3>1
  <2> QED BY <1>1, <1>6, <1>9, <1>11, <2>1
<1>36. Beyond(P2, partCounter') /\ Beyond(S2, segCounter')
  BY <1>2, <1>4, <1>8, <1>13 DEF Beyond
<1>37. /\ partCounter' \in 0 .. Width8 - 1 /\ segCounter' \in 0 .. Width16 - 1
       /\ master' = master
  BY <1>2, <1>3 DEF Typed
<1> QED BY <1>1, <1>3, <1>21, <1>34, <1>35, <1>36, <1>37, Continues

-----------------------------------------------------------------------------
(* Every command keeps the invariant: one step per action.                  *)
LEMMA IInvariant == OneMaster /\ NoneApart /\ SoundAllocs => (Spec => []IInv)
<1> SUFFICES ASSUME OneMaster, NoneApart, SoundAllocs PROVE Spec => []IInv OBVIOUS
<1>1. Init => IInv BY InitKept
<1>2. IInv /\ [Next]_vars => IInv'
  <2> SUFFICES ASSUME IInv, [Next]_vars PROVE IInv' OBVIOUS
  <2>1. CASE Shutdown BY <2>1, ShutdownKept
  <2>2. CASE Exit BY <2>2, ExitKept
  <2>3. ASSUME NEW m \in Masters, InstallExists(m) PROVE IInv' BY <2>3, InstallExistsKept
  <2>4. ASSUME NEW m \in Masters, Install(m) PROVE IInv' BY <2>4, InstallKept
  <2>5. ASSUME NEW m \in Masters, Boot(m) PROVE IInv' BY <2>5, BootKept
  <2>6. ASSUME NEW p \in Paths, CreateUnknown(p) PROVE IInv' BY <2>6, CreateUnknownKept
  <2>7. ASSUME NEW p \in Paths, NEW n \in PartNames, CreatePartition(p, n) PROVE IInv'
    BY <2>7, CreatePartitionKept
  <2>8. ASSUME NEW p \in Paths, NEW n \in PartNames, CreatePartitionFails(p, n) PROVE IInv'
    BY <2>8, CreatePartitionFailsKept
  <2>9. ASSUME NEW i \in DOMAIN partsByID, CreateKnown(i) PROVE IInv' BY <2>9, CreateKnownKept
  <2>10. ASSUME NEW i \in DOMAIN partsByID, OpenRaw(i) PROVE IInv' BY <2>10, AbortKept
  <2>11. ASSUME NEW n \in PartNames, DropPartition(n) PROVE IInv' BY <2>11, DropPartitionKept
  <2>12. ASSUME NEW n, NEW f \in FirstPages, CreateSegmentFails(n, f) PROVE IInv'
    BY <2>12, CreateSegmentFailsKept
  <2>13. ASSUME NEW n, NEW f \in FirstPages, NEW s \in SegNames, CreateSegment(n, s, f) PROVE IInv'
    BY <2>13, CreateSegmentKept
  <2>14. ASSUME NEW s \in SegNames, DropSegment(s) PROVE IInv' BY <2>14, DropSegmentKept
  <2>15. ASSUME NEW s \in SegNames, NEW r \in Rows, InsertTuple(s, r) PROVE IInv'
    BY <2>15, InsertTupleKept
  <2>16. ASSUME NEW s, ShowSegment(s) PROVE IInv' BY <2>16, ShowSegmentKept
  <2>17. ASSUME NEW i \in stored, EraseAborts(i) PROVE IInv' BY <2>17, AbortKept
  <2>18. CASE UNCHANGED vars
    <3>1. UNCHANGED <<mode, master, partVars, segVars, disk>> BY <2>18 DEF vars, fileVars
    <3>2. /\ UNCHANGED <<mode, master, disk>>
          /\ UNCHANGED <<partCounter, partObjs, partsByID, partsByName>>
          /\ UNCHANGED <<segCounter, segObjs, segsByID, segsByName>>
      BY <3>1 DEF partVars, segVars
    <3>3. Uninstalled => Uninstalled' BY <3>2 DEF Uninstalled, Blank
    <3>4. Unbooted => Unbooted' BY <3>2 DEF Unbooted, Blank
    <3>5. ASSUME Booted PROVE Booted'
      <4>1. PICK P, S :
              /\ Live(P, S)
              /\ IF mode = "idle" THEN disk[Home][PartIndex] = P /\ disk[Home][SegIndex] = S
                 ELSE Beyond(P, partCounter) /\ Beyond(S, segCounter) /\ master = Home
        BY <3>5 DEF Booted
      <4>2. Live(P, S)' BY <3>2, <4>1 DEF Live, Mapped, Objects, Kept
      <4> QED BY <3>2, <4>1, <4>2 DEF Booted
    <3>6. Typed' /\ FilesOK(disk)' BY <3>2 DEF IInv, Typed
    <3> QED BY <3>3, <3>4, <3>5, <3>6 DEF IInv
  <2> QED
    BY <2>1, <2>2, <2>3, <2>4, <2>5, <2>6, <2>7, <2>8, <2>9, <2>10, <2>11, <2>12, <2>13,
       <2>14, <2>15, <2>16, <2>17, <2>18 DEF Next
<1> QED BY <1>1, <1>2, PTL DEF Spec

-----------------------------------------------------------------------------
(* The objects that were stored are there, and only files there are can be  *)
(* spoilt.                                                                  *)
FilesTold == stored \subseteq DOMAIN segObjs /\ torn \subseteq {p \in Paths : disk[p] # None}

LEMMA StoredIsFile ==
  ASSUME NoneApart, NEW d, NEW o, NEW q \in Paths, d[q] # None
  PROVE  Stored(d, o)[q] # None
<1> DEFINE At(f) == {i \in DOMAIN o : o[i].path = q /\ o[i].first = f}
           file == [f \in DOMAIN d[q] |-> IF At(f) = {} THEN d[q][f]
                                           ELSE o[CHOOSE i \in At(f) : TRUE].rows]
<1>1. Stored(d, o)[q] = file BY DEF Stored
<1>2. file = [f \in DOMAIN file |-> file[f]] OBVIOUS
<1> HIDE DEF file
<1> QED BY <1>1, <1>2 DEF NoneApart

LEMMA TearsAreFiles ==
  ASSUME OneMaster, IInv, FilesTold, mode = "running"
  PROVE  Tears \subseteq {p \in Paths : disk[p] # None}
<1>1. PICK P, S : Live(P, S) BY Running
<1>2. ASSUME NEW i \in stored PROVE segObjs[i].path \in Paths /\ disk[segObjs[i].path] # None
  <2>1. i \in DOMAIN segObjs BY DEF FilesTold
  <2>2. i \in DOMAIN segsByID /\ segObjs[i].path = SegPath(i)
    BY <1>1, <2>1 DEF Live, Objects, SegPath
  <2> QED BY <1>1, <2>2, SegmentFacts
<1> QED BY <1>2 DEF Tears

LEMMA EndTold ==
  ASSUME NoneApart, NEW e, NEW x, EndProcess(Stored(e, segObjs), x),
         x \subseteq {p \in Paths : e[p] # None}
  PROVE  FilesTold'
<1>1. stored' = {} /\ torn' = x /\ disk' = Stored(e, segObjs) BY DEF EndProcess
<1>2. \A p \in x : p \in Paths /\ Stored(e, segObjs)[p] # None BY StoredIsFile
<1> QED BY <1>1, <1>2 DEF FilesTold

LEMMA FilesKeptTold ==
  ASSUME FilesTold, UNCHANGED <<stored, disk, torn>>, DOMAIN segObjs \subseteq DOMAIN segObjs'
  PROVE  FilesTold'
BY DEF FilesTold

LEMMA PutDomain ==
  ASSUME NEW f, NEW k, NEW x
  PROVE  DOMAIN Put(f, k, x) = DOMAIN f \cup {k}
BY DEF Put

LEMMA FilesToldKept ==
  ASSUME OneMaster, NoneApart, IInv, FilesTold, [Next]_vars
  PROVE  FilesTold'
<1> DEFINE F == {p \in Paths : disk[p] # None}
<1>1. DOMAIN disk = Paths /\ torn \subseteq F /\ stored \subseteq DOMAIN segObjs
  BY DEF IInv, FilesOK, FilesTold
<1>2. mode = "running" => Tears \subseteq F BY TearsAreFiles
<1>3. Nowhere # None BY NowhereIs
<1>4. ASSUME NEW k, NEW x, segObjs' = Put(segObjs, k, x)
      PROVE  DOMAIN segObjs' = DOMAIN segObjs \cup {k}
  BY <1>4, PutDomain
<1>5. CASE Shutdown
  <2>1. /\ mode = "running" /\ disk' = Stored(disk, segObjs) /\ torn' = torn \cup Tears
        /\ stored' = DOMAIN segObjs /\ segObjs' = segObjs
    BY <1>5 DEF Shutdown, segVars
  <2>2. \A p \in F : Stored(disk, segObjs)[p] # None BY StoredIsFile
  <2> QED BY <1>1, <1>2, <2>1, <2>2 DEF FilesTold
<1>6. CASE Exit
  <2>1. CASE mode = "running"
    <3>1. EndProcess(Stored(disk, segObjs), torn \cup Tears) BY <1>6, <2>1 DEF Exit
    <3> QED BY <1>1, <1>2, <2>1, <3>1, EndTold
  <2>2. CASE mode # "running"
    <3>1. EndProcess(disk, torn) BY <1>6, <2>2 DEF Exit
    <3> QED BY <1>1, <3>1 DEF EndProcess, FilesTold
  <2> QED BY <2>1, <2>2
<1>7. ASSUME NEW m, InstallExists(m) PROVE FilesTold'
  BY <1>7, FilesKeptTold DEF InstallExists, segVars, fileVars
<1>8. ASSUME NEW m \in Masters, Install(m) PROVE FilesTold'
  <2>1. PICK p, t, file, x, y :
          /\ stored' = stored \ {p, t} /\ segObjs' = Put(Put(segObjs, p, x), t, y)
          /\ disk' = [disk EXCEPT ![m] = file] /\ torn' = torn \ {m}
    BY <1>8 DEF Install
  <2>2. DOMAIN segObjs' = DOMAIN segObjs \cup {p, t}
    <3>1. DOMAIN Put(segObjs, p, x) = DOMAIN segObjs \cup {p} BY PutDomain
    <3>2. DOMAIN Put(Put(segObjs, p, x), t, y) = DOMAIN Put(segObjs, p, x) \cup {t} BY PutDomain
    <3> QED BY <2>1, <3>1, <3>2
  <2>3. stored' \subseteq DOMAIN segObjs' BY <1>1, <2>1, <2>2
  <2>4. \A r \in torn' : r \in Paths /\ disk'[r] # None BY <1>1, <2>1
  <2> QED BY <2>3, <2>4 DEF FilesTold
<1>9. ASSUME NEW m, Boot(m) PROVE FilesTold' BY <1>9, FilesKeptTold DEF Boot, fileVars
<1>10. ASSUME NEW q, CreateUnknown(q) PROVE FilesTold'
  <2>1. mode = "running" /\ EndProcess(Stored(disk, segObjs), torn \cup Tears)
    BY <1>10 DEF CreateUnknown
  <2> QED BY <1>1, <1>2, <2>1, EndTold
<1>11. ASSUME NEW q, NEW n, CreatePartition(q, n) PROVE FilesTold'
  <2>1. /\ stored' = stored /\ disk' = [disk EXCEPT ![q] = Nowhere] /\ torn' = torn \ {q}
    BY <1>11 DEF CreatePartition, Formatted
  <2>2. \E k, x : segObjs' = Put(segObjs, k, x) BY <1>11 DEF CreatePartition, WithRow
  <2>3. DOMAIN segObjs \subseteq DOMAIN segObjs' BY <1>4, <2>2
  <2> QED BY <1>1, <2>1, <2>3 DEF FilesTold
<1>12. ASSUME NEW q, NEW n, CreatePartitionFails(q, n) PROVE FilesTold'
  <2> DEFINE e == [disk EXCEPT ![q] = Nowhere]
  <2>1. mode = "running" /\ EndProcess(Stored(e, segObjs), (torn \ {q}) \cup Tears)
    BY <1>12 DEF CreatePartitionFails, CanCreate, Formatted
  <2>2. (torn \ {q}) \cup Tears \subseteq {p \in Paths : e[p] # None}
    BY <1>1, <1>2, <1>3, <2>1
  <2> HIDE DEF e
  <2> QED BY <2>1, <2>2, EndTold
<1>13. ASSUME NEW i, CreateKnown(i) \/ OpenRaw(i) \/ EraseAborts(i) PROVE FilesTold'
  BY <1>13, FilesKeptTold DEF CreateKnown, OpenRaw, EraseAborts, segVars, fileVars
<1>14. ASSUME NEW n, DropPartition(n) PROVE FilesTold'
  <2>1. PICK q, B, x : /\ stored' = stored \ B /\ torn' = torn \ {q}
                       /\ disk' = [disk EXCEPT ![q] = x]
                       /\ DOMAIN segObjs \ B \subseteq DOMAIN segObjs'
    <3> DEFINE d == partsByName[n]
               B == OnPartition(d)
               R == {segsByID[i] : i \in B}
               objs == IF B = {} THEN segObjs
                       ELSE Without(WithoutRows(segsByName[SegSeg], R), B)
    <3>1. /\ stored' = stored \ B /\ torn' = torn \ {PathOf(d)}
          /\ disk' = [disk EXCEPT ![PathOf(d)] = IF PathOf(d) \in Devices THEN Formatted ELSE None]
          /\ \E k, y : segObjs' = Put(objs, k, y)
      BY <1>14 DEF DropPartition
    <3> HIDE DEF B, R, d
    <3>2. DOMAIN segObjs \ B \subseteq DOMAIN objs
      <4>1. PICK k, x : WithoutRows(segsByName[SegSeg], R) = Put(segObjs, k, x)
        BY DEF WithoutRows
      <4>2. DOMAIN Put(segObjs, k, x) = DOMAIN segObjs \cup {k} BY PutDomain
      <4>3. DOMAIN Without(Put(segObjs, k, x), B) = (DOMAIN segObjs \cup {k}) \ B
        BY <4>2 DEF Without, Restrict
      <4> QED BY <4>1, <4>3
    <3> HIDE DEF objs
    <3>3. PICK k, y : segObjs' = Put(objs, k, y) BY <3>1
    <3>4. DOMAIN segObjs' = DOMAIN objs \cup {k} BY <3>3, PutDomain
    <3>5. DOMAIN segObjs \ B \subseteq DOMAIN segObjs' BY <3>2, <3>4
    <3> QED BY <3>1, <3>5
  <2> QED BY <1>1, <2>1 DEF FilesTold
<1>15. ASSUME NEW n, NEW f, CreateSegmentFails(n, f) PROVE FilesTold'
  <2>1. PICK q : /\ mode = "running"
                 /\ EndProcess(Stored([disk EXCEPT ![q] = Put(@, f, {})], segObjs), torn \cup Tears)
    BY <1>15 DEF CreateSegmentFails
  <2> DEFINE e == [disk EXCEPT ![q] = Put(@, f, {})]
  <2>2. torn \cup Tears \subseteq {p \in Paths : e[p] # None} BY <1>1, <1>2, <2>1, PutIsFile
  <2>3. EndProcess(Stored(e, segObjs), torn \cup Tears) BY <2>1
  <2> HIDE DEF e
  <2> QED BY <2>2, <2>3, EndTold
<1>16. ASSUME NEW n, NEW s, NEW f, CreateSegment(n, s, f) PROVE FilesTold'
  <2>1. PICK q, i, k, x, y :
          /\ stored' = stored \ {i} /\ torn' = torn
          /\ disk' = [disk EXCEPT ![q] = Put(@, f, {})]
          /\ segObjs' = Put(Put(segObjs, k, x), i, y)
    BY <1>16 DEF CreateSegment, WithRow
  <2>2. DOMAIN segObjs' = DOMAIN segObjs \cup {k, i}
    <3>1. DOMAIN Put(segObjs, k, x) = DOMAIN segObjs \cup {k} BY PutDomain
    <3>2. DOMAIN Put(Put(segObjs, k, x), i, y) = DOMAIN Put(segObjs, k, x) \cup {i} BY PutDomain
    <3> QED BY <2>1, <3>1, <3>2
  <2>3. stored' \subseteq DOMAIN segObjs' BY <1>1, <2>1, <2>2
  <2>4. \A r \in torn' : r \in Paths /\ disk'[r] # None BY <1>1, <2>1, PutIsFile
  <2> QED BY <2>3, <2>4 DEF FilesTold
<1>17. ASSUME NEW s, DropSegment(s) PROVE FilesTold'
  <2>1. PICK i, q, g, k, x :
          /\ mode = "running" /\ stored' = stored \ {i}
          /\ torn' = torn \cup {segObjs[j].path : j \in stored \cap {i}}
          /\ disk' = [disk EXCEPT ![q] = Without(@, {g})]
          /\ segObjs' = Without(Put(segObjs, k, x), {i})
    BY <1>17 DEF DropSegment, WithoutRows
  <2>2. {segObjs[j].path : j \in stored \cap {i}} \subseteq F BY <1>2, <2>1 DEF Tears
  <2>3. \A f : Without(f, {g}) # None BY WithoutIsFile
  <2>4. DOMAIN segObjs' = (DOMAIN segObjs \cup {k}) \ {i} 
    BY <2>1, PutDomain DEF Without, Restrict
  <2>5. \A r \in torn' : r \in Paths /\ disk'[r] # None BY <1>1, <2>1, <2>2, <2>3
  <2>6. stored' \subseteq DOMAIN segObjs' BY <1>1, <2>1, <2>4
  <2> QED BY <2>5, <2>6 DEF FilesTold
<1>18. ASSUME NEW s, NEW r, InsertTuple(s, r) PROVE FilesTold'
  <2>1. /\ UNCHANGED <<stored, disk, torn>>
        /\ \E k, x : segObjs' = Put(segObjs, k, x)
    BY <1>18 DEF InsertTuple, WithRow, fileVars
  <2> QED BY <1>4, <2>1, FilesKeptTold
<1>19. ASSUME NEW s, ShowSegment(s) PROVE FilesTold'
  <2>1. /\ UNCHANGED <<stored, disk, torn>>
        /\ \E k, x : segObjs' = Put(segObjs, k, x)
    BY <1>19 DEF ShowSegment, WithSegment, fileVars
  <2> QED BY <1>4, <2>1, FilesKeptTold
<1>20. CASE UNCHANGED vars BY <1>20, FilesKeptTold DEF vars, segVars, fileVars
<1> QED
  BY <1>5, <1>6, <1>7, <1>8, <1>9, <1>10, <1>11, <1>12, <1>13, <1>14, <1>15, <1>16, <1>17,
     <1>18, <1>19, <1>20 DEF Next

(* Nothing is known of a partition or segment but by its own identifier,    *)
(* and the maps and objects have their types (the maps of PartitionManager  *)
(* and SegmentManager), for one master partition.                           *)
THEOREM TypeCorrect ==
  ASSUME OneMaster, NoneApart, SoundAllocs
  PROVE  Spec => []TypeOK
<1>1. IInv /\ FilesTold => TypeOK
  <2> SUFFICES ASSUME IInv, FilesTold PROVE TypeOK OBVIOUS
  <2>1. /\ mode \in {"idle", "running", "aborted", "failed"} /\ master \in Masters \cup {None}
        /\ partCounter \in 0 .. Width8 - 1 /\ segCounter \in 0 .. Width16 - 1
    BY DEF IInv, Typed
  <2>2. \A p \in Paths : disk[p] # None => DOMAIN disk[p] \subseteq FirstPages
    BY DEF IInv, FilesOK
  <2>3. stored \subseteq DOMAIN segObjs /\ torn \subseteq {p \in Paths : disk[p] # None}
    BY DEF FilesTold
  <2>4. CASE Blank
    <3>1. DOMAIN Nowhere = {} BY NowhereIs
    <3> QED BY <2>1, <2>2, <2>4, <2>3, <3>1 DEF TypeOK, Blank
  <2>5. CASE Booted
    <3>1. PICK P, S : Live(P, S) BY <2>5 DEF Booted
    <3>2. \A i \in DOMAIN partsByID : partsByID[i].id = i /\ partsByID[i].path \in Paths
      BY <3>1, PartitionFacts
    <3>3. \A i \in DOMAIN segsByID : /\ segsByID[i].id = i /\ segsByID[i].first \in FirstPages
                                     /\ SegPath(i) \in Paths
      BY <3>1, SegmentFacts
    <3>4. /\ \A i \in DOMAIN partObjs : i \in DOMAIN partsByID /\ partObjs[i] = partsByID[i].path
          /\ \A i \in DOMAIN segObjs : /\ i \in DOMAIN segsByID /\ segObjs[i].path = SegPath(i)
                                       /\ segObjs[i].first = segsByID[i].first
      BY <3>1 DEF Live, Objects, SegPath
    <3>5. /\ \A n \in DOMAIN partsByName : partsByName[n] \in DOMAIN partsByID
          /\ \A n \in DOMAIN segsByName : segsByName[n] \in DOMAIN segsByID
      BY <3>1, NamesFound
    <3> QED BY <2>1, <2>2, <2>3, <3>2, <3>3, <3>4, <3>5 DEF TypeOK
  <2> QED BY <2>4, <2>5 DEF IInv, Uninstalled, Unbooted
<1>2. Init => FilesTold BY DEF Init, FilesTold
<1>3. IInv /\ FilesTold /\ [Next]_vars => FilesTold' BY FilesToldKept
<1>4. Spec => []IInv BY IInvariant
<1> QED BY <1>1, <1>2, <1>3, <1>4, PTL DEF Spec

LEMMA AgreesIs ==
  ASSUME NEW T, UniqueIDs(T), UniqueNames(T), NEW c, Beyond(T, c)
  PROVE  Agrees(ByID(T), ByName(T), T, c)
<1>1. /\ DOMAIN ByID(T) = {t.id : t \in T} /\ \A t \in T : ByID(T)[t.id] = t
      /\ \A i \in DOMAIN ByID(T) : ByID(T)[i] \in T
  BY ByIDIs
<1>2. DOMAIN ByName(T) = {t.name : t \in T} /\ \A t \in T : ByName(T)[t.name] = t.id BY ByNameIs
<1>3. {ByID(T)[i] : i \in DOMAIN ByID(T)} = T
  <2>1. \A t \in T : t \in {ByID(T)[i] : i \in DOMAIN ByID(T)} BY <1>1
  <2> QED BY <1>1, <2>1
<1> QED BY <1>2, <1>3 DEF Agrees, Beyond

(* While the system runs, the maps of the managers hold exactly the tuples  *)
(* of the master segments, under their identifiers and names, and the       *)
(* counters are beyond them: through any sequence of creations, drops,      *)
(* shutdowns, boots and errors that end the process.                        *)
THEOREM CatalogKept ==
  ASSUME OneMaster, NoneApart, SoundAllocs
  PROVE  Spec => []CatalogAgrees
<1>1. IInv => CatalogAgrees
  <2> SUFFICES ASSUME IInv, mode = "running" PROVE CatalogAgrees BY DEF CatalogAgrees
  <2>1. PICK P, S : Live(P, S) /\ Beyond(P, partCounter) /\ Beyond(S, segCounter) BY Running
  <2>2. Opened(segsByName[PartSeg]).rows = P /\ Opened(segsByName[SegSeg]).rows = S
    BY <2>1, MasterFacts
  <2>3. UniqueIDs(P) /\ UniqueNames(P) /\ UniqueIDs(S) /\ UniqueNames(S)
    BY <2>1 DEF Live, Sound
  <2>4. /\ partsByID = ByID(P) /\ partsByName = ByName(P)
        /\ segsByID = ByID(S) /\ segsByName = ByName(S)
    BY <2>1 DEF Live, Mapped
  <2>5. Agrees(partsByID, partsByName, P, partCounter) BY <2>1, <2>3, <2>4, AgreesIs
  <2>6. Agrees(segsByID, segsByName, S, segCounter) BY <2>1, <2>3, <2>4, AgreesIs
  <2> QED BY <2>2, <2>5, <2>6 DEF CatalogAgrees
<1> QED BY <1>1, IInvariant, PTL

(* No DROP finds its tuple missing from the master segment                  *)
(* (deleteTuplePhysically), after it has deleted the file or the pages.     *)
THEOREM DropsComplete ==
  ASSUME OneMaster, NoneApart, SoundAllocs
  PROVE  Spec => []NeverHalfway
<1>1. IInv => NeverHalfway BY DEF IInv, Typed, NeverHalfway
<1> QED BY <1>1, IInvariant, PTL

(* Every segment has its partition, a file, and pages there that no other   *)
(* segment starts at, until a page is taken from a spoilt FSIP: shutdowns   *)
(* and drops alone, however many in a process, move no segment.             *)
THEOREM PagesKept ==
  ASSUME OneMaster, NoneApart, SoundAllocs
  PROVE  Spec => []SegmentsHavePages
<1>1. IInv => SegmentsHavePages
  <2> SUFFICES ASSUME IInv, mode = "running" PROVE SegmentsHavePages BY DEF SegmentsHavePages
  <2>1. PICK P, S : Live(P, S) BY Running
  <2>2. \A i \in DOMAIN segsByID :
          /\ segsByID[i].part \in DOMAIN partsByID
          /\ disk[SegPath(i)] # None /\ segsByID[i].first \in DOMAIN disk[SegPath(i)]
          /\ \A j \in DOMAIN segsByID :
               SegPath(i) = SegPath(j) /\ segsByID[i].first = segsByID[j].first => i = j
    BY <2>1, SegmentFacts
  <2> QED BY <2>2 DEF SegmentsHavePages, SegPath
<1> QED BY <1>1, IInvariant, PTL

(* An object in memory is always that of the tuple with its identifier: no  *)
(* command works on the file or pages of what was dropped.                  *)
THEOREM ObjectsKept ==
  ASSUME OneMaster, NoneApart, SoundAllocs
  PROVE  Spec => []ObjectsCurrent
<1>1. IInv => ObjectsCurrent
  <2> SUFFICES ASSUME IInv, mode = "running" PROVE ObjectsCurrent BY DEF ObjectsCurrent
  <2>1. PICK P, S : Live(P, S) BY Running
  <2>2. Objects BY <2>1 DEF Live
  <2> QED BY <2>2 DEF ObjectsCurrent, Objects
<1> QED BY <1>1, IInvariant, PTL

(* With one master partition the running system is on it, whatever was      *)
(* installed or booted before; with two it need not be.                     *)
THEOREM MasterKept ==
  ASSUME OneMaster, NoneApart, SoundAllocs
  PROVE  Spec => []MasterInUse
<1>1. IInv => MasterInUse
  <2> SUFFICES ASSUME IInv, mode = "running" PROVE MasterInUse BY DEF MasterInUse
  <2>1. PICK P, S : Live(P, S) BY Running
  <2>2. /\ partsByName[MasterPart] \in DOMAIN partsByID
        /\ partsByID[partsByName[MasterPart]].path = Home
    BY <2>1, MasterFacts
  <2>3. PathOf(partsByName[MasterPart]) = Home BY <2>1, <2>2, PartitionFacts
  <2> QED BY <2>3, Running DEF MasterInUse
<1> QED BY <1>1, IInvariant, PTL

-----------------------------------------------------------------------------
(***************************************************************************)
(* The catalog implements Database, for any names, files, devices and rows *)
(* and one master partition: what the user sees from the managers while    *)
(* the system runs, and what a boot would find while it does not.          *)
(*                                                                         *)
(* A command of the running system changes the view as Database says       *)
(* (Found says what the view is made of); a step that stores or boots      *)
(* leaves it (Sees: the view of the tuples P and S with the rows R,        *)
(* whether from the managers or from the files).                           *)
(***************************************************************************)

ShownP == ShownParts(Home)
ShownS == ShownSegs(Home)

(* While the system is idle, its objects hold what is stored.               *)
StoredObjects ==
  mode = "idle" =>
    \A i \in DOMAIN segObjs :
      i \in DOMAIN segsByID => segObjs[i].rows = disk[SegPath(i)][segsByID[i].first]

-----------------------------------------------------------------------------
(* A step of the view of the one database is a step of Database.            *)
LEMMA ViewStutters ==
  ASSUME OneMaster, ShownP' = ShownP, ShownS' = ShownS
  PROVE  UNCHANGED DB!dbVars
BY DEF OneMaster, DB!dbVars, ShownP, ShownS

LEMMA ViewSteps ==
  ASSUME OneMaster,
         \/ DB!Install(Home) \/ DB!CreatePartition(Home) \/ DB!DropPartition(Home)
         \/ DB!CreateSegment(Home) \/ DB!DropSegment(Home) \/ DB!InsertTuple(Home)
  PROVE  DB!Next
<1>1. Home \in Masters /\ Masters \ {Home} = {} BY DEF OneMaster
<1> QED BY <1>1 DEF DB!Next

LEMMA ViewIs ==
  ASSUME OneMaster
  PROVE  /\ [m \in Masters |-> ShownParts(m)][Home] = ShownP
         /\ [m \in Masters |-> ShownSegs(m)][Home] = ShownS
         /\ [m \in Masters |-> ShownParts(m)]'[Home] = ShownP'
         /\ [m \in Masters |-> ShownSegs(m)]'[Home] = ShownS'
         /\ ShownP' = ShownP => UNCHANGED [m \in Masters |-> ShownParts(m)]
         /\ ShownS' = ShownS => UNCHANGED [m \in Masters |-> ShownSegs(m)]
BY DEF OneMaster, ShownP, ShownS

-----------------------------------------------------------------------------
(* What the running system finds by name and by identifier.                 *)
Found ==
  /\ master = Home
  /\ \A n \in DOMAIN partsByName :
       /\ partsByName[n] \in DOMAIN partsByID /\ partsByID[partsByName[n]].name = n
       /\ n \in PartNames \cup {MasterPart}
  /\ \A i \in DOMAIN partsByID :
       /\ partsByID[i].name \in DOMAIN partsByName /\ partsByName[partsByID[i].name] = i
       /\ \A j \in DOMAIN partsByID : partsByID[i].path = partsByID[j].path => i = j
       /\ i # partCounter
  /\ MasterPart \in DOMAIN partsByName
  /\ \A s \in DOMAIN segsByName :
       /\ segsByName[s] \in DOMAIN segsByID /\ segsByID[segsByName[s]].name = s
       /\ s \in SegNames \cup {PartSeg, SegSeg}
  /\ \A i \in DOMAIN segsByID :
       /\ segsByID[i].name \in DOMAIN segsByName /\ segsByName[segsByID[i].name] = i
       /\ segsByID[i].part \in DOMAIN partsByID /\ i # segCounter
       /\ disk[SegPath(i)] # None /\ SegPath(i) \in Paths
       /\ segsByID[i].first \in DOMAIN disk[SegPath(i)]
       /\ Opened(i) = [path |-> SegPath(i), first |-> segsByID[i].first, rows |-> Opened(i).rows]
       /\ Opened(i).rows = IF i \in DOMAIN segObjs THEN segObjs[i].rows
                           ELSE disk[SegPath(i)][segsByID[i].first]
       /\ \A j \in DOMAIN segsByID :
            SegPath(i) = SegPath(j) /\ segsByID[i].first = segsByID[j].first => i = j
  /\ PartSeg \in DOMAIN segsByName /\ SegSeg \in DOMAIN segsByName
  /\ Objects

LEMMA LiveFound ==
  ASSUME OneMaster, NEW P, NEW S, Live(P, S), master = Home, Typed,
         Beyond(P, partCounter), Beyond(S, segCounter)
  PROVE  Found
<1>1. Sound(P, S, disk) /\ Mapped(P, S) /\ Objects BY DEF Live
<1>2. /\ \A i \in DOMAIN partsByID : partsByID[i] \in P /\ partsByID[i].id = i
      /\ DOMAIN partsByName = {t.name : t \in P}
      /\ \A t \in P : partsByName[t.name] = t.id /\ t.id \in DOMAIN partsByID /\ partsByID[t.id] = t
      /\ \A i \in DOMAIN segsByID : segsByID[i] \in S /\ segsByID[i].id = i
      /\ DOMAIN segsByName = {t.name : t \in S}
      /\ \A t \in S : segsByName[t.name] = t.id /\ t.id \in DOMAIN segsByID /\ segsByID[t.id] = t
  BY <1>1, Lookups
<1>3. /\ \A t \in P : t.name \in PartNames \cup {MasterPart}
      /\ \A t \in S : t.name \in SegNames \cup {PartSeg, SegSeg}
  BY <1>1, TupleTypes DEF Sound
<1>4. \A i, j \in DOMAIN partsByID : partsByID[i].path = partsByID[j].path => i = j
  BY <1>2, PartitionFacts
<1>5. MasterPart \in DOMAIN partsByName /\ PartSeg \in DOMAIN segsByName /\ SegSeg \in DOMAIN segsByName
  BY <1>1, <1>2 DEF Sound, Located
<1>6. \A i \in DOMAIN segsByID :
        /\ segsByID[i].part \in DOMAIN partsByID /\ disk[SegPath(i)] # None /\ SegPath(i) \in Paths
        /\ segsByID[i].first \in DOMAIN disk[SegPath(i)]
        /\ Opened(i) = [path |-> SegPath(i), first |-> segsByID[i].first, rows |-> Opened(i).rows]
        /\ \A j \in DOMAIN segsByID :
             SegPath(i) = SegPath(j) /\ segsByID[i].first = segsByID[j].first => i = j
  BY SegmentFacts
<1>7. ASSUME NEW i \in DOMAIN segsByID
      PROVE  Opened(i).rows = IF i \in DOMAIN segObjs THEN segObjs[i].rows
                              ELSE disk[SegPath(i)][segsByID[i].first]
  <2>1. PathOf(segsByID[i].part) = SegPath(i) BY <1>6, PartitionFacts DEF SegPath
  <2>2. StoredRows(SegPath(i), segsByID[i].first) = disk[SegPath(i)][segsByID[i].first]
    BY <1>6 DEF StoredRows
  <2> QED BY <2>1, <2>2 DEF Opened
<1>8. \A n \in DOMAIN partsByName :
        /\ partsByName[n] \in DOMAIN partsByID /\ partsByID[partsByName[n]].name = n
        /\ n \in PartNames \cup {MasterPart}
  BY <1>2, <1>3
<1>9. \A n \in DOMAIN segsByName :
        /\ segsByName[n] \in DOMAIN segsByID /\ segsByID[segsByName[n]].name = n
        /\ n \in SegNames \cup {PartSeg, SegSeg}
  BY <1>2, <1>3
<1>10. /\ \A i \in DOMAIN partsByID :
            partsByID[i].name \in DOMAIN partsByName /\ partsByName[partsByID[i].name] = i
       /\ \A i \in DOMAIN segsByID :
            segsByID[i].name \in DOMAIN segsByName /\ segsByName[segsByID[i].name] = i
  BY <1>2
<1>11. /\ \A i \in DOMAIN partsByID : i # partCounter
       /\ \A i \in DOMAIN segsByID : i # segCounter
  <2>1. /\ \A t \in P : t.id \in 0 .. MaxPartID - 1 /\ t.id < partCounter
        /\ \A t \in S : t.id \in 0 .. MaxSegID - 1 /\ t.id < segCounter
    BY <1>1, TupleTypes DEF Sound, Beyond
  <2>2. \A i \in DOMAIN partsByID : i \in 0 .. MaxPartID - 1 /\ i < partCounter BY <1>2, <2>1
  <2>3. \A i \in DOMAIN segsByID : i \in 0 .. MaxSegID - 1 /\ i < segCounter BY <1>2, <2>1
  <2>4. partCounter \in Nat /\ segCounter \in Nat BY Widths, SMT DEF Typed
  <2>5. \A i \in DOMAIN partsByID : i # partCounter BY <2>2, <2>4, Widths, SMT
  <2>6. \A i \in DOMAIN segsByID : i # segCounter BY <2>3, <2>4, Widths, SMT
  <2> QED BY <2>5, <2>6
<1> QED BY <1>1, <1>4, <1>5, <1>6, <1>7, <1>8, <1>9, <1>10, <1>11 DEF Found

RunningFinds == IInv /\ mode # "idle" => Found

LEMMA RunningFound == OneMaster => RunningFinds
<1> SUFFICES ASSUME OneMaster, IInv, mode # "idle" PROVE Found BY DEF RunningFinds
<1>1. Booted BY DEF IInv, Uninstalled, Unbooted
<1>2. PICK P, S : Live(P, S) /\ master = Home /\ Beyond(P, partCounter) /\ Beyond(S, segCounter)
  BY <1>1 DEF Booted
<1>3. Typed BY DEF IInv
<1> QED BY <1>2, <1>3, LiveFound

LEMMA RunningFoundNext == OneMaster => RunningFinds'
<1> DEFINE F == OneMaster => RunningFinds
<1>1. F BY RunningFound
<1> HIDE DEF F
<1>2. F' BY <1>1, PTL
<1>3. OneMaster => RunningFinds' BY <1>2 DEF F
<1> QED BY <1>3

Users == DOMAIN segsByName \ {PartSeg, SegSeg}
PartOf(s) == partsByID[segsByID[segsByName[s]].part].name
RowsOf(s) == Opened(segsByName[s]).rows

RunningShown ==
  mode # "idle" /\ master = Home =>
    /\ ShownP = [n \in DOMAIN partsByName |-> partsByID[partsByName[n]].path]
    /\ ShownS = [s \in Users |-> [part |-> PartOf(s), rows |-> RowsOf(s)]]

LEMMA RunningView == RunningShown
BY DEF RunningShown, ShownP, ShownS, ShownParts, ShownSegs, Runs, Users, PartOf, RowsOf

LEMMA RunningViewNext == RunningShown'
BY RunningView, PTL

LEMMA Before ==
  ASSUME OneMaster, IInv, mode # "idle"
  PROVE  /\ Found
         /\ ShownP = [n \in DOMAIN partsByName |-> partsByID[partsByName[n]].path]
         /\ ShownS = [s \in Users |-> [part |-> PartOf(s), rows |-> RowsOf(s)]]
<1>1. Found BY RunningFound DEF RunningFinds
<1>2. master = Home BY <1>1 DEF Found
<1> QED BY <1>1, <1>2, RunningView DEF RunningShown

LEMMA After ==
  ASSUME OneMaster, IInv', mode' # "idle"
  PROVE  /\ Found'
         /\ ShownP' = [n \in DOMAIN partsByName' |-> partsByID'[partsByName'[n]].path]
         /\ ShownS' = [s \in Users' |-> [part |-> PartOf(s)', rows |-> RowsOf(s)']]
<1>1. Found' BY RunningFoundNext DEF RunningFinds
<1>2. master' = Home BY <1>1 DEF Found
<1> QED BY <1>1, <1>2, RunningViewNext DEF RunningShown

(* The rows of a segment stay when neither its object nor its pages change. *)
LEMMA RowsStay ==
  ASSUME Found, Found', NEW i \in DOMAIN segsByID, i \in DOMAIN segsByID',
         segsByID'[i] = segsByID[i], SegPath(i)' = SegPath(i),
         IF i \in DOMAIN segObjs' THEN segObjs'[i].rows = Opened(i).rows
         ELSE /\ i \notin DOMAIN segObjs
              /\ disk'[SegPath(i)][segsByID[i].first] = disk[SegPath(i)][segsByID[i].first]
  PROVE  Opened(i).rows' = Opened(i).rows
<1>1. Opened(i).rows = IF i \in DOMAIN segObjs THEN segObjs[i].rows
                       ELSE disk[SegPath(i)][segsByID[i].first]
  BY DEF Found
<1>2. Opened(i).rows' = IF i \in DOMAIN segObjs' THEN segObjs'[i].rows
                        ELSE disk'[SegPath(i)'][segsByID'[i].first]
  BY DEF Found
<1> QED BY <1>1, <1>2

-----------------------------------------------------------------------------
(* Commands that leave the tuples of the catalog.                           *)
LEMMA RowsTouched ==
  ASSUME Found, Found', NEW k \in DOMAIN segsByID, NEW R,
         UNCHANGED <<partsByID, segsByID, disk>>,
         segObjs' = Put(segObjs, k, [Opened(k) EXCEPT !.rows = R])
  PROVE  \A i \in DOMAIN segsByID :
           Opened(i).rows' = IF i = k THEN R ELSE Opened(i).rows
<1>1. PICK o : o = [Opened(k) EXCEPT !.rows = R] OBVIOUS
<1>2. o.rows = R
  <2>1. Opened(k) = [path |-> SegPath(k), first |-> segsByID[k].first, rows |-> Opened(k).rows]
    BY DEF Found
  <2> QED BY <1>1, <2>1
<1>3. /\ DOMAIN segObjs' = DOMAIN segObjs \cup {k} /\ segObjs'[k] = o
      /\ \A i \in DOMAIN segObjs : i # k => segObjs'[i] = segObjs[i]
  BY <1>1 DEF Put
<1>4. \A i \in DOMAIN segsByID :
        /\ Opened(i).rows = IF i \in DOMAIN segObjs THEN segObjs[i].rows
                            ELSE disk[SegPath(i)][segsByID[i].first]
        /\ Opened(i).rows' = IF i \in DOMAIN segObjs' THEN segObjs'[i].rows
                             ELSE disk[SegPath(i)'][segsByID[i].first]
        /\ SegPath(i)' = SegPath(i)
  BY DEF Found, SegPath
<1> QED BY <1>2, <1>3, <1>4

LEMMA ShowSegmentViewed ==
  ASSUME OneMaster, IInv, IInv', NEW s, ShowSegment(s)
  PROVE  UNCHANGED DB!dbVars
<1>1. /\ mode = "running" /\ s \in DOMAIN segsByName /\ mode' # "idle"
      /\ segObjs' = Put(segObjs, segsByName[s], Opened(segsByName[s]))
  BY DEF ShowSegment, WithSegment
<1>2. UNCHANGED <<partsByID, partsByName, segsByID, segsByName, disk>> BY DEF ShowSegment, fileVars
<1>3. Found /\ Found' BY <1>1, Before, After
<1>4. PICK k : k = segsByName[s] OBVIOUS
<1>5. k \in DOMAIN segsByID BY <1>1, <1>3, <1>4 DEF Found
<1>6. Opened(k) = [Opened(k) EXCEPT !.rows = Opened(k).rows]
  <2>1. Opened(k) = [path |-> SegPath(k), first |-> segsByID[k].first, rows |-> Opened(k).rows]
    BY <1>3, <1>5 DEF Found
  <2> QED BY <2>1
<1>7. PICK R : R = Opened(k).rows OBVIOUS
<1>8. \A i \in DOMAIN segsByID : Opened(i).rows' = Opened(i).rows
  <2>1. segObjs' = Put(segObjs, k, [Opened(k) EXCEPT !.rows = R]) BY <1>1, <1>4, <1>6, <1>7
  <2>2. \A i \in DOMAIN segsByID : Opened(i).rows' = IF i = k THEN R ELSE Opened(i).rows
    BY <1>2, <1>3, <1>5, <2>1, RowsTouched
  <2> QED BY <1>7, <2>2
<1>9. ShownP' = ShownP BY <1>1, <1>2, Before, After
<1>10. ShownS' = ShownS
  <2>1. Users' = Users /\ \A t \in Users : PartOf(t)' = PartOf(t) BY <1>2 DEF Users, PartOf
  <2>2. \A t \in Users : RowsOf(t)' = RowsOf(t) BY <1>2, <1>3, <1>8 DEF Users, RowsOf, Found
  <2> QED BY <1>1, <2>1, <2>2, Before, After
<1> QED BY <1>9, <1>10, ViewStutters

LEMMA SameMapsViewed ==
  ASSUME OneMaster, IInv, IInv', mode # "idle", mode' # "idle",
         UNCHANGED <<partsByID, partsByName, segVars, disk>>
  PROVE  UNCHANGED DB!dbVars
<1>1. UNCHANGED <<segsByID, segsByName, segObjs>> BY DEF segVars
<1>2. Found /\ Found' BY Before, After
<1>3. \A i \in DOMAIN segsByID : Opened(i).rows' = Opened(i).rows
  <2>1. \A i \in DOMAIN segsByID : SegPath(i)' = SegPath(i) BY <1>1 DEF SegPath
  <2> QED BY <1>1, <1>2, <2>1 DEF Found
<1>4. ShownP' = ShownP BY Before, After
<1>5. ShownS' = ShownS
  <2>1. Users' = Users /\ \A t \in Users : PartOf(t)' = PartOf(t) BY <1>1 DEF Users, PartOf
  <2>2. \A t \in Users : RowsOf(t)' = RowsOf(t) BY <1>1, <1>2, <1>3 DEF Users, RowsOf, Found
  <2> QED BY <2>1, <2>2, Before, After
<1> QED BY <1>4, <1>5, ViewStutters

LEMMA CreateKnownViewed ==
  ASSUME OneMaster, IInv, IInv', NEW i \in DOMAIN partsByID, CreateKnown(i)
  PROVE  UNCHANGED DB!dbVars
<1>1. mode = "running" /\ mode' # "idle" BY DEF CreateKnown
<1>2. UNCHANGED <<partsByID, partsByName, segVars, disk>> BY DEF CreateKnown, fileVars
<1> QED BY <1>1, <1>2, SameMapsViewed

LEMMA AbortViewed ==
  ASSUME OneMaster, IInv, IInv', NEW i, OpenRaw(i) \/ EraseAborts(i)
  PROVE  UNCHANGED DB!dbVars
<1>1. mode = "running" /\ mode' # "idle" BY DEF OpenRaw, EraseAborts
<1>2. UNCHANGED <<partsByID, partsByName, segVars, disk>>
  BY DEF OpenRaw, EraseAborts, partVars, fileVars
<1> QED BY <1>1, <1>2, SameMapsViewed

-----------------------------------------------------------------------------
(* Commands that change what the user sees.                                 *)
RowAdded(f, g) ==
  \E t \in DOMAIN f, u \in Rows :
    u \notin f[t].rows /\ g = [f EXCEPT ![t].rows = @ \cup {u}]

LEMMA InsertTupleViewed ==
  ASSUME OneMaster, IInv, IInv', NEW s \in SegNames, NEW r \in Rows, InsertTuple(s, r)
  PROVE  DB!Next
<1>1. PICK k, R : k = segsByName[s] /\ R = Opened(k).rows \cup {r} OBVIOUS
<1>2. /\ mode = "running" /\ s \in DOMAIN segsByName /\ mode' # "idle"
      /\ r \notin Opened(k).rows
      /\ segObjs' = Put(segObjs, k, [Opened(k) EXCEPT !.rows = R])
  BY <1>1 DEF InsertTuple, WithRow
<1>3. UNCHANGED <<partsByID, partsByName, segsByID, segsByName, disk>> BY DEF InsertTuple, fileVars
<1>4. Found /\ Found' BY <1>2, Before, After
<1>5. k \in DOMAIN segsByID BY <1>1, <1>2, <1>4 DEF Found
<1>6. \A i \in DOMAIN segsByID : Opened(i).rows' = IF i = k THEN R ELSE Opened(i).rows
  BY <1>2, <1>3, <1>4, <1>5, RowsTouched
<1>7. ShownP' = ShownP BY <1>2, <1>3, Before, After
<1>8. Users' = Users /\ \A t \in Users : PartOf(t)' = PartOf(t) BY <1>3 DEF Users, PartOf
<1>9. s \in Users
  <2>1. PartSeg \notin SegNames /\ SegSeg \notin SegNames BY CatalogAssumption
  <2> QED BY <1>2, <2>1 DEF Users
<1>10. \A t \in Users : RowsOf(t)' = IF t = s THEN R ELSE RowsOf(t)
  <2>1. \A t \in Users : segsByName[t] \in DOMAIN segsByID /\ segsByID[segsByName[t]].name = t
    BY <1>4 DEF Users, Found
  <2>2. \A t \in Users : segsByName[t] = k <=> t = s BY <1>1, <1>9, <2>1
  <2> QED BY <1>3, <1>6, <2>1, <2>2 DEF RowsOf
<1>11. RowsOf(s) = Opened(k).rows BY <1>1 DEF RowsOf
<1>12. ShownS = [t \in Users |-> [part |-> PartOf(t), rows |-> RowsOf(t)]] BY <1>2, Before
<1>13. ShownS' = [t \in Users |-> [part |-> PartOf(t), rows |-> IF t = s THEN R ELSE RowsOf(t)]]
  BY <1>2, <1>8, <1>10, After
<1>14. ShownS' = [ShownS EXCEPT ![s].rows = @ \cup {r}]
  <2>1. ShownS[s].rows \cup {r} = R /\ ShownS[s] = [part |-> PartOf(s), rows |-> RowsOf(s)]
    BY <1>1, <1>9, <1>11, <1>12
  <2>2. [ShownS[s] EXCEPT !.rows = ShownS[s].rows \cup {r}] = [part |-> PartOf(s), rows |-> R]
    BY <2>1
  <2>3. PICK y : y = [part |-> PartOf(s), rows |-> R] OBVIOUS
  <2>4. [ShownS EXCEPT ![s].rows = @ \cup {r}] = [ShownS EXCEPT ![s] = y] BY <2>2, <2>3
  <2>5. ShownS' = [t \in Users |-> IF t = s THEN y ELSE [part |-> PartOf(t), rows |-> RowsOf(t)]]
    BY <1>13, <2>3
  <2>6. [ShownS EXCEPT ![s] = y] =
          [t \in Users |-> IF t = s THEN y ELSE [part |-> PartOf(t), rows |-> RowsOf(t)]]
    BY <1>9, <1>12
  <2> QED BY <2>4, <2>5, <2>6
<1>15. s \in DOMAIN ShownS /\ r \notin ShownS[s].rows BY <1>2, <1>9, <1>11, <1>12
<1>16. DB!InsertTuple(Home)
  <2>1. PICK f, g : f = [m \in Masters |-> ShownSegs(m)][Home] /\ g = [m \in Masters |-> ShownSegs(m)]'[Home]
    OBVIOUS
  <2>2. UNCHANGED [m \in Masters |-> ShownParts(m)] BY <1>7, ViewIs
  <2>3. f = ShownS /\ g = ShownS' BY <2>1, ViewIs
  <2>4. s \in DOMAIN f /\ r \notin f[s].rows /\ g = [f EXCEPT ![s].rows = @ \cup {r}]
    BY <1>14, <1>15, <2>3
  <2>5. \E t \in DOMAIN f, u \in Rows :
           u \notin f[t].rows /\ g = [f EXCEPT ![t].rows = @ \cup {u}]
    BY <2>4
  <2>6. RowAdded(f, g) BY <2>5 DEF RowAdded
  <2>7. RowAdded([m \in Masters |-> ShownSegs(m)][Home], [m \in Masters |-> ShownSegs(m)]'[Home])
    BY ONLY <2>1, <2>6
  <2> QED BY ONLY <2>2, <2>7 DEF DB!InsertTuple, RowAdded
<1> QED BY <1>16, ViewSteps

LEMMA CreatePartitionViewed ==
  ASSUME OneMaster, IInv, IInv', NEW q, NEW n \in PartNames, CreatePartition(q, n)
  PROVE  DB!Next
<1>1. PICK d, x, p, o :
        /\ d = partCounter /\ p = segsByName[PartSeg]
        /\ x = PartTuple(d, n, q, IF q \in Files THEN FileType ELSE RawType)
        /\ o = [Opened(p) EXCEPT !.rows = Opened(p).rows \cup {x}]
  OBVIOUS
<1>2. /\ mode = "running" /\ mode' # "idle" /\ n \notin DOMAIN partsByName
      /\ partsByID' = Put(partsByID, d, x) /\ partsByName' = Put(partsByName, n, d)
      /\ segObjs' = Put(segObjs, p, o) /\ disk' = [disk EXCEPT ![q] = Formatted]
      /\ UNCHANGED <<segsByID, segsByName>>
  BY <1>1 DEF CreatePartition, WithRow, CanCreate
<1>3. Found /\ Found' BY <1>2, Before, After
<1>4. d \notin DOMAIN partsByID BY <1>1, <1>3 DEF Found
<1>5. x.path = q BY <1>1 DEF PartTuple
<1>6. /\ DOMAIN partsByID' = DOMAIN partsByID \cup {d} /\ partsByID'[d] = x
      /\ \A i \in DOMAIN partsByID : partsByID'[i] = partsByID[i]
      /\ DOMAIN partsByName' = DOMAIN partsByName \cup {n} /\ partsByName'[n] = d
      /\ \A k \in DOMAIN partsByName : partsByName'[k] = partsByName[k]
  BY <1>2, <1>4 DEF Put
<1>7. ShownP' = DB!With(ShownP, n, q)
  <2>1. \A k \in DOMAIN partsByName : partsByName[k] \in DOMAIN partsByID BY <1>3 DEF Found
  <2>2. ShownP = [k \in DOMAIN partsByName |-> partsByID[partsByName[k]].path] BY <1>2, Before
  <2>3. ShownP' = [k \in DOMAIN partsByName' |-> partsByID'[partsByName'[k]].path] BY <1>2, After
  <2> QED BY <1>2, <1>5, <1>6, <2>1, <2>2, <2>3 DEF DB!With
<1>8. \A i \in DOMAIN segsByID :
        segsByID[i].part \in DOMAIN partsByID /\ SegPath(i)' = SegPath(i) /\ SegPath(i) # q
  <2>1. \A i \in DOMAIN segsByID : segsByID[i].part \in DOMAIN partsByID BY <1>3 DEF Found
  <2>2. \A i \in DOMAIN partsByID : partsByID'[i].path # partsByID'[d].path
    BY <1>3, <1>4, <1>6 DEF Found
  <2> QED BY <1>2, <1>5, <1>6, <2>1, <2>2 DEF SegPath
<1>9. \A i \in DOMAIN segsByID : i # p => Opened(i).rows' = Opened(i).rows
  <2> SUFFICES ASSUME NEW i \in DOMAIN segsByID, i # p PROVE Opened(i).rows' = Opened(i).rows
    OBVIOUS
  <2>1. i \in DOMAIN segObjs' <=> i \in DOMAIN segObjs BY <1>2 DEF Put
  <2>2. i \in DOMAIN segObjs => segObjs'[i] = segObjs[i] BY <1>2 DEF Put
  <2>3. i \in DOMAIN segObjs => Opened(i) = segObjs[i] BY DEF Opened
  <2>4. disk'[SegPath(i)] = disk[SegPath(i)] BY <1>2, <1>8
  <2> QED BY <1>2, <1>3, <1>8, <2>1, <2>2, <2>3, <2>4, RowsStay
<1>10. ShownS' = ShownS
  <2>1. Users' = Users BY <1>2 DEF Users
  <2>2. \A t \in Users : /\ segsByName[t] \in DOMAIN segsByID /\ segsByName[t] # p
    BY <1>1, <1>3 DEF Users, Found
  <2>3. \A t \in Users : PartOf(t)' = PartOf(t) BY <1>2, <1>6, <1>8, <2>2 DEF PartOf
  <2>4. \A t \in Users : RowsOf(t)' = RowsOf(t) BY <1>2, <1>9, <2>2 DEF RowsOf
  <2> QED BY <1>2, <2>1, <2>3, <2>4, Before, After
<1>11. DOMAIN ShownP = DOMAIN partsByName /\ DOMAIN ShownP' = DOMAIN partsByName'
  BY <1>2, Before, After
<1>12. \A k, l \in DOMAIN ShownP' : k # l => ShownP'[k] # ShownP'[l]
  <2>1. \A k \in DOMAIN partsByName' :
          partsByName'[k] \in DOMAIN partsByID' /\ partsByID'[partsByName'[k]].name = k
    BY <1>3 DEF Found
  <2>2. \A i, j \in DOMAIN partsByID' : partsByID'[i].path = partsByID'[j].path => i = j
    BY <1>3 DEF Found
  <2>3. \A k \in DOMAIN ShownP' : ShownP'[k] = partsByID'[partsByName'[k]].path BY <1>2, After
  <2> QED BY <1>11, <2>1, <2>2, <2>3
<1>13. DB!CreatePartition(Home)
  <2>1. MasterPart \in DOMAIN ShownP BY <1>3, <1>11 DEF Found
  <2>2. n \in PartNames \ DOMAIN ShownP /\ n \in DOMAIN ShownP' BY <1>2, <1>6, <1>11
  <2>3. ShownP'[n] = q BY <1>5, <1>6, <1>2, <2>2, After
  <2>4. DB!Added(ShownP, ShownP', PartNames) BY <1>7, <2>2, <2>3 DEF DB!Added
  <2> QED BY <1>10, <1>12, <2>1, <2>4, ViewIs DEF DB!CreatePartition
<1> QED BY <1>13, ViewSteps

(* A segment that a command does not touch.                                 *)
LEMMA RowsUntouched ==
  ASSUME Found, Found', NEW i \in DOMAIN segsByID, i \in DOMAIN segsByID',
         segsByID'[i] = segsByID[i], SegPath(i)' = SegPath(i),
         i \in DOMAIN segObjs' <=> i \in DOMAIN segObjs,
         i \in DOMAIN segObjs => segObjs'[i] = segObjs[i],
         disk'[SegPath(i)][segsByID[i].first] = disk[SegPath(i)][segsByID[i].first]
  PROVE  Opened(i).rows' = Opened(i).rows
<1>1. i \in DOMAIN segObjs => Opened(i) = segObjs[i] BY DEF Opened
<1> QED BY <1>1, RowsStay

LEMMA DropSegmentViewed ==
  ASSUME OneMaster, NoneApart, IInv, IInv', NEW sn \in SegNames, DropSegment(sn)
  PROVE  DB!Next
<1>1. PICK i, s, q, f : /\ i = segsByName[sn] /\ s = segsByName[SegSeg]
                        /\ q = SegPath(i) /\ f = segsByID[i].first
  OBVIOUS
<1>2. /\ mode = "running" /\ mode' # "idle" /\ sn \in DOMAIN segsByName
      /\ disk' = [disk EXCEPT ![Opened(i).path] = Without(@, {Opened(i).first})]
      /\ segObjs' = Without(WithoutRows(s, {segsByID[i]}), {i})
      /\ DeleteTuples({i}) /\ UNCHANGED <<partsByID, partsByName>>
  BY <1>1 DEF DropSegment
<1>3. Found /\ Found' BY <1>2, Before, After
<1>4. /\ i \in DOMAIN segsByID /\ segsByID[i].name = sn /\ q \in Paths /\ disk[q] # None
      /\ Opened(i).path = q /\ Opened(i).first = f
  BY <1>1, <1>2, <1>3 DEF Found
<1>5. /\ DOMAIN segsByID' = DOMAIN segsByID \ {i}
      /\ \A j \in DOMAIN segsByID' : segsByID'[j] = segsByID[j]
      /\ DOMAIN segsByName' = DOMAIN segsByName \ {sn}
      /\ \A t \in DOMAIN segsByName' : segsByName'[t] = segsByName[t]
  BY <1>2, <1>4 DEF DeleteTuples, Without, Restrict
<1>6. /\ DOMAIN segObjs' = (DOMAIN segObjs \cup {s}) \ {i}
      /\ \A j \in DOMAIN segObjs' : j # s => segObjs'[j] = segObjs[j]
  BY <1>2 DEF WithoutRows, Put, Without, Restrict
<1>7. ASSUME NEW j \in DOMAIN segsByID, j # i
      PROVE  /\ SegPath(j)' = SegPath(j)
             /\ disk'[SegPath(j)][segsByID[j].first] = disk[SegPath(j)][segsByID[j].first]
  <2>1. SegPath(j)' = SegPath(j) BY <1>2, <1>5, <1>7 DEF SegPath
  <2>2. PICK x, y : x = disk[q] /\ y = Without(x, {f}) OBVIOUS
  <2>3. disk' = [disk EXCEPT ![q] = y] BY <1>2, <1>4, <2>2
  <2>4. DOMAIN disk = Paths BY DEF IInv, FilesOK
  <2>5. disk'[q] = y /\ \A r \in Paths : r # q => disk'[r] = disk[r] BY <1>4, <2>3, <2>4
  <2>6. \A g \in DOMAIN x : g # f => y[g] = x[g] BY <2>2 DEF Without, Restrict
  <2>7. /\ SegPath(j) \in Paths /\ segsByID[j].first \in DOMAIN disk[SegPath(j)]
        /\ SegPath(j) = q => segsByID[j].first # f
    BY <1>1, <1>3, <1>4, <1>7 DEF Found
  <2> QED BY <2>1, <2>2, <2>5, <2>6, <2>7
<1>8. ASSUME NEW j \in DOMAIN segsByID, j # i, j # s PROVE Opened(j).rows' = Opened(j).rows
  BY <1>3, <1>5, <1>6, <1>7, <1>8, RowsUntouched
<1>9. sn \in Users /\ Users' = Users \ {sn}
  <2>1. PartSeg \notin SegNames /\ SegSeg \notin SegNames BY CatalogAssumption
  <2> QED BY <1>2, <1>5, <2>1 DEF Users
<1>10. ASSUME NEW t \in Users, t # sn
       PROVE  PartOf(t)' = PartOf(t) /\ RowsOf(t)' = RowsOf(t)
  <2>1. /\ segsByName[t] \in DOMAIN segsByID /\ segsByID[segsByName[t]].name = t
        /\ SegSeg \in DOMAIN segsByName /\ segsByID[s].name = SegSeg /\ t # SegSeg
    BY <1>1, <1>3 DEF Users, Found
  <2>2. segsByName[t] # i /\ segsByName[t] # s BY <1>4, <1>10, <2>1
  <2>3. segsByName'[t] = segsByName[t] BY <1>5, <1>10 DEF Users
  <2>4. PartOf(t)' = PartOf(t) BY <1>2, <1>5, <2>1, <2>2, <2>3 DEF PartOf
  <2>5. RowsOf(t)' = RowsOf(t) BY <1>8, <2>1, <2>2, <2>3 DEF RowsOf
  <2> QED BY <2>4, <2>5
<1>11. ShownP' = ShownP BY <1>2, Before, After
<1>12. ShownS = [t \in Users |-> [part |-> PartOf(t), rows |-> RowsOf(t)]] BY <1>2, Before
<1>13. ShownS' = [t \in Users' |-> [part |-> PartOf(t)', rows |-> RowsOf(t)']] BY <1>2, After
<1>14. ShownS' = DB!Keep(ShownS, DOMAIN ShownS \ {sn}) /\ sn \in SegNames \cap DOMAIN ShownS
  <2>1. DOMAIN ShownS = Users BY <1>12
  <2>2. \A t \in Users' : ShownS'[t] = ShownS[t] BY <1>9, <1>10, <1>12, <1>13
  <2>3. ShownS' = [t \in Users' |-> ShownS'[t]] BY <1>13
  <2> QED BY <1>9, <2>1, <2>2, <2>3 DEF DB!Keep
<1>15. DB!DropSegment(Home)
  <2>1. DB!Removed(ShownS, ShownS', SegNames) BY <1>14 DEF DB!Removed
  <2> QED BY <1>11, <2>1, ViewIs DEF DB!DropSegment
<1> QED BY <1>15, ViewSteps

LEMMA CreateSegmentViewed ==
  ASSUME OneMaster, NoneApart, SoundAllocs, IInv, IInv', NEW n \in PartNames \cup {MasterPart},
         NEW sn \in SegNames, NEW f \in FirstPages, CreateSegment(n, sn, f)
  PROVE  DB!Next
<1>1. PICK d, i, s, q, t, new :
        /\ d = partsByName[n] /\ i = segCounter /\ s = segsByName[SegSeg] /\ q = PathOf(d)
        /\ t = SegTuple(i, sn, d, f) /\ new = [path |-> q, first |-> f, rows |-> {}]
  OBVIOUS
<1>2. /\ mode = "running" /\ mode' # "idle" /\ n \in DOMAIN partsByName
      /\ sn \notin DOMAIN segsByName /\ f \notin DOMAIN disk[q]
      /\ segObjs' = Put(WithRow(s, t), i, new)
      /\ segsByID' = Put(segsByID, i, t) /\ segsByName' = Put(segsByName, sn, i)
      /\ disk' = [disk EXCEPT ![q] = Put(@, f, {})]
      /\ UNCHANGED <<partsByID, partsByName>>
  BY <1>1, GivesFree DEF CreateSegment
<1>3. Found /\ Found' BY <1>2, Before, After
<1>4. i \notin DOMAIN segsByID BY <1>1, <1>3 DEF Found
<1>5. /\ DOMAIN segsByID' = DOMAIN segsByID \cup {i} /\ segsByID'[i] = t
      /\ \A j \in DOMAIN segsByID : segsByID'[j] = segsByID[j]
      /\ DOMAIN segsByName' = DOMAIN segsByName \cup {sn} /\ segsByName'[sn] = i
      /\ \A u \in DOMAIN segsByName : segsByName'[u] = segsByName[u]
  BY <1>2, <1>4 DEF Put
<1>6. /\ DOMAIN segObjs' = DOMAIN segObjs \cup {s, i} /\ segObjs'[i] = new
      /\ \A j \in DOMAIN segObjs : j # s /\ j # i => segObjs'[j] = segObjs[j]
  BY <1>2 DEF WithRow, Put
<1>7. ASSUME NEW j \in DOMAIN segsByID
      PROVE  /\ SegPath(j)' = SegPath(j)
             /\ disk'[SegPath(j)][segsByID[j].first] = disk[SegPath(j)][segsByID[j].first]
  <2>1. SegPath(j)' = SegPath(j) BY <1>2, <1>5 DEF SegPath
  <2>2. PICK x, y : x = disk[q] /\ y = Put(x, f, {}) OBVIOUS
  <2>3. disk' = [disk EXCEPT ![q] = y] BY <1>2, <2>2
  <2>4. DOMAIN disk = Paths BY DEF IInv, FilesOK
  <2>5. \A r \in Paths : disk'[r] = IF r = q THEN y ELSE disk[r] BY <2>3, <2>4
  <2>6. \A g \in DOMAIN x : y[g] = x[g] BY <1>2, <2>2 DEF Put
  <2>7. SegPath(j) \in Paths /\ segsByID[j].first \in DOMAIN disk[SegPath(j)]
    BY <1>3 DEF Found
  <2> QED BY <2>1, <2>2, <2>5, <2>6, <2>7
<1>8. ASSUME NEW j \in DOMAIN segsByID, j # s PROVE Opened(j).rows' = Opened(j).rows
  <2>1. j # i BY <1>4
  <2> QED BY <1>3, <1>5, <1>6, <1>7, <1>8, <2>1, RowsUntouched
<1>9. Users' = Users \cup {sn} /\ sn \notin Users
  <2>1. PartSeg \notin SegNames /\ SegSeg \notin SegNames BY CatalogAssumption
  <2> QED BY <1>2, <1>5, <2>1 DEF Users
<1>10. ASSUME NEW u \in Users
       PROVE  PartOf(u)' = PartOf(u) /\ RowsOf(u)' = RowsOf(u)
  <2>1. /\ segsByName[u] \in DOMAIN segsByID /\ segsByID[segsByName[u]].name = u
        /\ SegSeg \in DOMAIN segsByName /\ segsByID[s].name = SegSeg /\ u # SegSeg
    BY <1>1, <1>3 DEF Users, Found
  <2>2. segsByName[u] # s BY <2>1
  <2>3. segsByName'[u] = segsByName[u] BY <1>5 DEF Users
  <2>4. PartOf(u)' = PartOf(u) BY <1>2, <1>5, <2>1, <2>3 DEF PartOf
  <2>5. RowsOf(u)' = RowsOf(u) BY <1>8, <2>1, <2>2, <2>3 DEF RowsOf
  <2> QED BY <2>4, <2>5
<1>11. PartOf(sn)' = n /\ RowsOf(sn)' = {}
  <2>1. segsByID'[segsByName'[sn]].part = d BY <1>1, <1>5 DEF SegTuple
  <2>2. partsByID[d].name = n BY <1>1, <1>2, <1>3 DEF Found
  <2>3. PartOf(sn)' = n BY <1>2, <2>1, <2>2 DEF PartOf
  <2>4. Opened(i)' = new BY <1>6 DEF Opened
  <2>5. RowsOf(sn)' = {} BY <1>1, <1>5, <2>4 DEF RowsOf
  <2> QED BY <2>3, <2>5
<1>12. ShownP' = ShownP /\ DOMAIN ShownP = DOMAIN partsByName BY <1>2, Before, After
<1>13. ShownS = [u \in Users |-> [part |-> PartOf(u), rows |-> RowsOf(u)]] BY <1>2, Before
<1>14. ShownS' = [u \in Users' |-> [part |-> PartOf(u)', rows |-> RowsOf(u)']] BY <1>2, After
<1>15. /\ ShownS' = DB!With(ShownS, sn, ShownS'[sn]) /\ sn \in SegNames \ DOMAIN ShownS
       /\ DOMAIN ShownS' \ DOMAIN ShownS = {sn} /\ sn \in DOMAIN ShownS'
       /\ ShownS'[sn].part = n /\ ShownS'[sn].rows = {}
  <2>1. DOMAIN ShownS = Users /\ DOMAIN ShownS' = Users' BY <1>13, <1>14
  <2>2. \A u \in Users : ShownS'[u] = ShownS[u] BY <1>9, <1>10, <1>13, <1>14
  <2>3. ShownS' = [u \in Users' |-> ShownS'[u]] BY <1>14
  <2>4. ShownS'[sn].part = n /\ ShownS'[sn].rows = {} BY <1>9, <1>11, <1>14
  <2> QED BY <1>9, <2>1, <2>2, <2>3, <2>4 DEF DB!With
<1>16. DB!CreateSegment(Home)
  <2>1. DB!Added(ShownS, ShownS', SegNames) BY <1>15 DEF DB!Added
  <2> QED BY <1>2, <1>12, <1>15, <2>1, ViewIs DEF DB!CreateSegment
<1> QED BY <1>16, ViewSteps

LEMMA DropPartitionViewed ==
  ASSUME OneMaster, NoneApart, IInv, IInv', NEW n \in PartNames, DropPartition(n)
  PROVE  DB!Next
<1>1. PICK d, p, s, q, I, D, objs :
        /\ d = partsByName[n] /\ p = segsByName[PartSeg] /\ s = segsByName[SegSeg]
        /\ q = PathOf(d) /\ I = OnPartition(d) /\ D = {segsByID[i] : i \in I}
        /\ objs = IF I = {} THEN segObjs ELSE Without(WithoutRows(s, D), I)
  OBVIOUS
<1>2. /\ mode = "running" /\ mode' # "idle" /\ n \in DOMAIN partsByName
      /\ \E x : segObjs' = Put(objs, p, x)
      /\ DeleteTuples(I)
      /\ disk' = [disk EXCEPT ![q] = IF q \in Devices THEN Formatted ELSE None]
      /\ partsByID' = Without(partsByID, {d}) /\ partsByName' = Without(partsByName, {n})
  BY <1>1 DEF DropPartition
<1>3. Found /\ Found' BY <1>2, Before, After
<1>4. /\ d \in DOMAIN partsByID /\ partsByID[d].name = n
      /\ q = partsByID[d].path
  <2>1. d \in DOMAIN partsByID /\ partsByID[d].name = n BY <1>1, <1>2, <1>3 DEF Found
  <2>2. Objects BY <1>3 DEF Found
  <2> QED BY <1>1, <2>1, <2>2 DEF Objects, PathOf
<1>5. /\ DOMAIN partsByID' = DOMAIN partsByID \ {d}
      /\ \A i \in DOMAIN partsByID' : partsByID'[i] = partsByID[i]
      /\ DOMAIN partsByName' = DOMAIN partsByName \ {n}
      /\ \A k \in DOMAIN partsByName' : partsByName'[k] = partsByName[k]
      /\ DOMAIN segsByID' = DOMAIN segsByID \ I
      /\ \A i \in DOMAIN segsByID' : segsByID'[i] = segsByID[i]
      /\ DOMAIN segsByName' = DOMAIN segsByName \ {segsByID[i].name : i \in I}
      /\ \A u \in DOMAIN segsByName' : segsByName'[u] = segsByName[u]
  BY <1>2 DEF DeleteTuples, Without, Restrict
<1>6. \A i \in DOMAIN segsByID : i \in I <=> segsByID[i].part = d
  BY <1>1 DEF OnPartition
<1>7. \A i : i \notin I /\ i # p /\ i # s =>
        /\ i \in DOMAIN segObjs' <=> i \in DOMAIN segObjs
        /\ i \in DOMAIN segObjs => segObjs'[i] = segObjs[i]
  <2>1. \A i : i \notin I /\ i # s =>
          (i \in DOMAIN objs <=> i \in DOMAIN segObjs) /\ (i \in DOMAIN segObjs => objs[i] = segObjs[i])
    <3>1. CASE I = {} BY <1>1, <3>1
    <3>2. CASE I # {}
      <4>1. objs = Without(WithoutRows(s, D), I) BY <1>1, <3>2
      <4> QED BY <4>1 DEF WithoutRows, Put, Without, Restrict
    <3> QED BY <3>1, <3>2
  <2> QED BY <1>2, <2>1 DEF Put
<1>8. ASSUME NEW i \in DOMAIN segsByID, i \notin I
      PROVE  /\ segsByID[i].part \in DOMAIN partsByID' /\ SegPath(i)' = SegPath(i)
             /\ disk'[SegPath(i)] = disk[SegPath(i)]
  <2>1. segsByID[i].part \in DOMAIN partsByID /\ segsByID[i].part # d BY <1>3, <1>6, <1>8 DEF Found
  <2>2. SegPath(i) # q BY <1>3, <1>4, <2>1 DEF Found, SegPath
  <2>3. DOMAIN disk = Paths /\ SegPath(i) \in Paths BY <1>3 DEF IInv, FilesOK, Found
  <2>4. disk'[SegPath(i)] = disk[SegPath(i)] BY <1>2, <2>2, <2>3
  <2>5. segsByID'[i] = segsByID[i] BY <1>5, <1>8
  <2>6. SegPath(i)' = SegPath(i) BY <1>5, <2>1, <2>5 DEF SegPath
  <2> QED BY <1>5, <2>1, <2>4, <2>6
<1>9. ASSUME NEW i \in DOMAIN segsByID, i \notin I, i # p, i # s
      PROVE  Opened(i).rows' = Opened(i).rows
  BY <1>3, <1>5, <1>7, <1>8, <1>9, RowsUntouched
<1>10. \A u \in Users : /\ segsByName[u] \in DOMAIN segsByID /\ segsByName[u] # p /\ segsByName[u] # s
                        /\ segsByID[segsByName[u]].name = u
  BY <1>1, <1>3 DEF Users, Found
<1>11. Users' \subseteq Users /\ \A u \in Users : u \in Users' <=> segsByName[u] \notin I
  <2>1. \A i \in DOMAIN segsByID : segsByName[segsByID[i].name] = i BY <1>3 DEF Found
  <2>2. I \subseteq DOMAIN segsByID BY <1>1 DEF OnPartition
  <2> QED BY <1>5, <1>10, <2>1, <2>2 DEF Users
<1>12. ASSUME NEW u \in Users'
       PROVE  PartOf(u)' = PartOf(u) /\ RowsOf(u)' = RowsOf(u)
  <2>1. /\ u \in Users /\ segsByName[u] \in DOMAIN segsByID
        /\ segsByName[u] \notin I /\ segsByName[u] # p /\ segsByName[u] # s
    BY <1>10, <1>11
  <2>2. segsByName'[u] = segsByName[u] BY <1>5 DEF Users
  <2>3. PartOf(u)' = PartOf(u) BY <1>5, <1>8, <2>1, <2>2 DEF PartOf
  <2>4. RowsOf(u)' = RowsOf(u) BY <1>9, <2>1, <2>2 DEF RowsOf
  <2> QED BY <2>3, <2>4
<1>13. ShownP = [k \in DOMAIN partsByName |-> partsByID[partsByName[k]].path] BY <1>2, Before
<1>14. ShownP' = [k \in DOMAIN partsByName' |-> partsByID'[partsByName'[k]].path] BY <1>2, After
<1>15. ShownS = [u \in Users |-> [part |-> PartOf(u), rows |-> RowsOf(u)]] BY <1>2, Before
<1>16. ShownS' = [u \in Users' |-> [part |-> PartOf(u)', rows |-> RowsOf(u)']] BY <1>2, After
<1>17. ShownP' = DB!Keep(ShownP, DOMAIN ShownP \ {n}) /\ n \in PartNames \cap DOMAIN ShownP
  <2>1. DOMAIN ShownP = DOMAIN partsByName /\ DOMAIN ShownP' = DOMAIN partsByName \ {n}
    BY <1>5, <1>13, <1>14
  <2>2. ASSUME NEW k \in DOMAIN ShownP' PROVE ShownP'[k] = ShownP[k]
    <3>1. k \in DOMAIN partsByName' /\ k \in DOMAIN partsByName /\ partsByName'[k] = partsByName[k]
      BY <1>5, <2>1
    <3>2. partsByName[k] \in DOMAIN partsByID /\ partsByID[partsByName[k]].name = k /\ k # n
      BY <1>3, <2>1, <3>1 DEF Found
    <3>3. partsByName[k] # d BY <1>4, <3>2
    <3> QED BY <1>5, <1>13, <1>14, <3>1, <3>2, <3>3
  <2>3. ShownP' = [k \in DOMAIN ShownP' |-> ShownP'[k]] BY <1>14
  <2> QED BY <1>2, <2>1, <2>2, <2>3 DEF DB!Keep
<1>18. ShownS' = DB!Keep(ShownS, {u \in DOMAIN ShownS : ShownS[u].part \in DOMAIN ShownP'})
  <2>1. DOMAIN ShownS = Users /\ DOMAIN ShownS' = Users' /\ DOMAIN ShownP' = DOMAIN partsByName'
    BY <1>14, <1>15, <1>16
  <2>2. \A u \in Users' : ShownS'[u] = ShownS[u] BY <1>11, <1>12, <1>15, <1>16
  <2>3. ASSUME NEW u \in Users PROVE u \in Users' <=> ShownS[u].part \in DOMAIN partsByName'
    <3>1. ShownS[u].part = PartOf(u) BY <1>15
    <3>2. PICK j : j = segsByID[segsByName[u]].part OBVIOUS
    <3>3. j \in DOMAIN partsByID /\ PartOf(u) = partsByID[j].name BY <1>3, <1>10, <3>2 DEF Found, PartOf
    <3>4. partsByID[j].name \in DOMAIN partsByName /\ partsByName[partsByID[j].name] = j
      BY <1>3, <3>3 DEF Found
    <3>5. PartOf(u) \in DOMAIN partsByName' <=> j # d BY <1>1, <1>4, <1>5, <3>3, <3>4
    <3> QED BY <1>6, <1>10, <1>11, <3>1, <3>2, <3>5
  <2>4. Users' = {u \in Users : ShownS[u].part \in DOMAIN partsByName'} BY <1>11, <2>3
  <2>5. ShownS' = [u \in Users' |-> ShownS'[u]] BY <1>16
  <2> QED BY <1>11, <2>1, <2>2, <2>4, <2>5 DEF DB!Keep
<1>19. DB!DropPartition(Home)
  <2>1. DB!Removed(ShownP, ShownP', PartNames) BY <1>17 DEF DB!Removed
  <2> QED BY <1>18, <2>1, ViewIs DEF DB!DropPartition
<1> QED BY <1>19, ViewSteps

-----------------------------------------------------------------------------
(* What is seen of the tuples P and S, when the rows of the segment with    *)
(* tuple t are R[t].                                                        *)
ViewP(P) == [n \in {t.name : t \in P} |-> (CHOOSE t \in P : t.name = n).path]
ViewS(P, S, R) ==
  [s \in {t.name : t \in S} \ {PartSeg, SegSeg} |->
     LET t == CHOOSE u \in S : u.name = s IN [part |-> ByID(P)[t.part].name, rows |-> R[t]]]

PageRows(P, S, d) == [t \in S |-> d[ByID(P)[t.part].path][t.first]]
ObjectRows(S) == [t \in S |-> Opened(t.id).rows]

LEMMA NamedTuple ==
  ASSUME NEW T, UniqueNames(T), NEW t \in T
  PROVE  (CHOOSE u \in T : u.name = t.name) = t
BY DEF UniqueNames

LEMMA SegmentPages ==
  ASSUME NEW P, NEW S, NEW d, Sound(P, S, d)
  PROVE  \A t \in S : /\ ByID(P)[t.part] \in P /\ ByID(P)[t.part].path \in Paths
                      /\ d[ByID(P)[t.part].path] # None
                      /\ t.first \in DOMAIN d[ByID(P)[t.part].path]
<1> SUFFICES ASSUME NEW t \in S
             PROVE  /\ ByID(P)[t.part] \in P /\ ByID(P)[t.part].path \in Paths
                    /\ d[ByID(P)[t.part].path] # None
                    /\ t.first \in DOMAIN d[ByID(P)[t.part].path]
  OBVIOUS
<1>1. PICK u \in P : u.id = t.part /\ t.first \in DOMAIN d[u.path] BY DEF Sound
<1>2. UniqueIDs(P) BY DEF Sound
<1>3. ByID(P)[u.id] = u BY <1>2, ByIDIs
<1>4. u.path \in Paths BY TupleTypes DEF Sound
<1> QED BY <1>1, <1>3, <1>4 DEF Sound

(* The running system shows its tuples with the rows of its objects.        *)
RunningSees ==
  \A P, S : OneMaster /\ Live(P, S) /\ mode # "idle" /\ master = Home =>
    ShownP = ViewP(P) /\ ShownS = ViewS(P, S, ObjectRows(S))

LEMMA RunningSeen == RunningSees
<1> SUFFICES ASSUME NEW P, NEW S, OneMaster, Live(P, S), mode # "idle", master = Home
             PROVE  ShownP = ViewP(P) /\ ShownS = ViewS(P, S, ObjectRows(S))
  BY DEF RunningSees
<1>1. Sound(P, S, disk) /\ Mapped(P, S) /\ UniqueNames(P) /\ UniqueNames(S) /\ partsByID = ByID(P)
  BY DEF Live, Sound, Mapped
<1>2. /\ ShownP = [n \in DOMAIN partsByName |-> partsByID[partsByName[n]].path]
      /\ ShownS = [s \in Users |-> [part |-> PartOf(s), rows |-> RowsOf(s)]]
  BY RunningView DEF RunningShown
<1>3. /\ DOMAIN partsByName = {t.name : t \in P} /\ DOMAIN segsByName = {t.name : t \in S}
      /\ \A t \in P : partsByName[t.name] = t.id /\ partsByID[t.id] = t
      /\ \A t \in S : segsByName[t.name] = t.id /\ segsByID[t.id] = t
  BY <1>1, Lookups
<1>4. ShownP = ViewP(P)
  <2>1. ASSUME NEW n \in {t.name : t \in P}
        PROVE  partsByID[partsByName[n]].path = (CHOOSE t \in P : t.name = n).path
    <3>1. PICK t \in P : t.name = n OBVIOUS
    <3>2. (CHOOSE u \in P : u.name = n) = t BY <1>1, <3>1, NamedTuple
    <3> QED BY <1>3, <3>1, <3>2
  <2> QED BY <1>2, <1>3, <2>1 DEF ViewP
<1>5. Users = {t.name : t \in S} \ {PartSeg, SegSeg} BY <1>3 DEF Users
<1>6. ASSUME NEW s \in {t.name : t \in S}
      PROVE  LET t == CHOOSE u \in S : u.name = s IN
             PartOf(s) = ByID(P)[t.part].name /\ RowsOf(s) = ObjectRows(S)[t]
  <2>1. PICK t \in S : t.name = s OBVIOUS
  <2>2. (CHOOSE u \in S : u.name = s) = t BY <1>1, <2>1, NamedTuple
  <2>3. PartOf(s) = ByID(P)[t.part].name BY <1>1, <1>3, <2>1 DEF PartOf
  <2>4. RowsOf(s) = ObjectRows(S)[t] BY <1>3, <2>1 DEF RowsOf, ObjectRows
  <2> QED BY <2>2, <2>3, <2>4
<1>7. ShownS = ViewS(P, S, ObjectRows(S)) BY <1>2, <1>5, <1>6 DEF ViewS
<1> QED BY <1>4, <1>7

(* A database that does not run shows its tuples with what is stored.       *)
IdleSees ==
  \A P, S :
    OneMaster /\ mode = "idle" /\ disk[Home] # None /\ Sound(P, S, disk)
    /\ disk[Home][PartIndex] = P /\ disk[Home][SegIndex] = S =>
      ShownP = ViewP(P) /\ ShownS = ViewS(P, S, PageRows(P, S, disk))

LEMMA IdleSeen == IdleSees
<1> SUFFICES ASSUME NEW P, NEW S, OneMaster, mode = "idle", disk[Home] # None, Sound(P, S, disk),
                    disk[Home][PartIndex] = P, disk[Home][SegIndex] = S
             PROVE  ShownP = ViewP(P) /\ ShownS = ViewS(P, S, PageRows(P, S, disk))
  BY DEF IdleSees
<1>1. ~Runs(Home) /\ StoredIn(Home, PartIndex) = P /\ StoredIn(Home, SegIndex) = S
  BY DEF Runs, StoredIn
<1>2. ShownP = ViewP(P) BY <1>1 DEF ShownP, ShownParts, ViewP
<1>3. ShownS = [s \in {t.name : t \in S} \ {PartSeg, SegSeg} |->
                  LET t == CHOOSE u \in S : u.name = s  d == ByID(P)[t.part] IN
                  [part |-> d.name, rows |-> StoredRows(d.path, t.first)]]
  BY <1>1 DEF ShownS, ShownSegs
<1>4. ASSUME NEW s \in {t.name : t \in S}
      PROVE  LET t == CHOOSE u \in S : u.name = s IN
             StoredRows(ByID(P)[t.part].path, t.first) = PageRows(P, S, disk)[t]
  <2>1. PICK t \in S : t.name = s OBVIOUS
  <2>2. (CHOOSE u \in S : u.name = s) = t BY <2>1, NamedTuple DEF Sound
  <2>3. StoredRows(ByID(P)[t.part].path, t.first) = PageRows(P, S, disk)[t]
    BY SegmentPages DEF StoredRows, PageRows
  <2> QED BY <2>2, <2>3
<1>5. ShownS = ViewS(P, S, PageRows(P, S, disk)) BY <1>3, <1>4 DEF ViewS
<1> QED BY <1>2, <1>5

LEMMA SeenNext == RunningSees' /\ IdleSees'
<1>1. RunningSees' BY RunningSeen, PTL
<1>2. IdleSees' BY IdleSeen, PTL
<1> QED BY <1>1, <1>2

-----------------------------------------------------------------------------
(* The running system ends: its objects are stored, and the files e it      *)
(* leaves have the pages of all its segments.                               *)
SamePages(e, S, P) ==
  \A t \in S : LET p == ByID(P)[t.part].path IN e[p][t.first] = disk[p][t.first]

LEMMA RowsStored ==
  ASSUME OneMaster, NEW P, NEW S, Live(P, S), NEW e, Serves(e, P), SamePages(e, S, P)
  PROVE  PageRows(P, S, Stored(e, segObjs)) = ObjectRows(S)
<1>1. Sound(P, S, disk) /\ Mapped(P, S) /\ Objects /\ partsByID = ByID(P)
  BY DEF Live, Mapped
<1>2. ASSUME NEW t \in S
      PROVE  Stored(e, segObjs)[ByID(P)[t.part].path][t.first] = Opened(t.id).rows
  <2>1. PICK i, q, f : i = t.id /\ q = ByID(P)[t.part].path /\ f = t.first OBVIOUS
  <2>2. i \in DOMAIN segsByID /\ segsByID[i] = t BY <1>1, <2>1, Lookups
  <2>3. q \in Paths /\ disk[q] # None /\ f \in DOMAIN disk[q] /\ ByID(P)[t.part] \in P
    BY <1>1, <2>1, SegmentPages
  <2>4. e[q] # None /\ f \in DOMAIN e[q] /\ e[q][f] = disk[q][f]
    BY <2>1, <2>3 DEF Serves, SamePages
  <2>5. SegPath(i) = q /\ segsByID[i].first = f BY <1>1, <2>1, <2>2 DEF SegPath
  <2>6. \A j \in DOMAIN segObjs :
          /\ j \in DOMAIN segsByID
          /\ segObjs[j].path = SegPath(j) /\ segObjs[j].first = segsByID[j].first
    BY <1>1 DEF Objects, SegPath
  <2>7. \A j \in DOMAIN segObjs : segObjs[j].path = q /\ segObjs[j].first = f => j = i
    BY <2>2, <2>5, <2>6, SegmentFacts
  <2>8. CASE i \in DOMAIN segObjs
    <3>1. segObjs[i].path = q /\ segObjs[i].first = f BY <2>5, <2>6, <2>8
    <3>2. Stored(e, segObjs)[q][f] = segObjs[i].rows BY <2>3, <2>4, <2>7, <2>8, <3>1, StoredRow
    <3>3. Opened(i) = segObjs[i] BY <2>8 DEF Opened
    <3> QED BY <2>1, <3>2, <3>3
  <2>9. CASE i \notin DOMAIN segObjs
    <3>1. \A j \in DOMAIN segObjs : ~(segObjs[j].path = q /\ segObjs[j].first = f)
      BY <2>7, <2>9
    <3>2. Stored(e, segObjs)[q][f] = e[q][f] BY <2>3, <2>4, <3>1, StoredRow
    <3>3. PathOf(t.part) = q
      <4>1. t.part \in DOMAIN partsByID BY <2>2, SegmentFacts
      <4> QED BY <1>1, <2>1, <4>1, PartitionFacts
    <3>4. Opened(i).rows = disk[q][f]
      BY <2>1, <2>2, <2>3, <2>9, <3>3 DEF Opened, StoredRows
    <3> QED BY <2>1, <2>4, <3>2, <3>4
  <2> QED BY <2>8, <2>9
<1> QED BY <1>2 DEF PageRows, ObjectRows

LEMMA StoringViewed ==
  ASSUME OneMaster, NoneApart, mode = "running", master = Home, mode' = "idle",
         NEW P, NEW S, Live(P, S), NEW e, Serves(e, P), SamePages(e, S, P),
         disk' = Stored(e, segObjs)
  PROVE  UNCHANGED DB!dbVars
<1>1. mode # "idle" OBVIOUS
<1>2. ShownP = ViewP(P) /\ ShownS = ViewS(P, S, ObjectRows(S)) BY <1>1, RunningSeen DEF RunningSees
<1>3. /\ Sound(P, S, disk') /\ disk'[Home] # None
      /\ disk'[Home][PartIndex] = P /\ disk'[Home][SegIndex] = S
  BY StoredCatalog
<1>4. ShownP' = ViewP(P) /\ ShownS' = ViewS(P, S, PageRows(P, S, disk'))
  BY <1>3, SeenNext DEF IdleSees
<1>5. PageRows(P, S, disk') = ObjectRows(S) BY RowsStored
<1>6. ShownP' = ShownP BY <1>2, <1>4
<1>7. ShownS' = ShownS BY <1>2, <1>4, <1>5
<1> QED BY <1>6, <1>7, ViewStutters

LEMMA DiskSamePages ==
  ASSUME NEW P, NEW S
  PROVE  SamePages(disk, S, P)
BY DEF SamePages

(* Nothing but the files decides what is seen of an idle system.            *)
IdleParts(d) ==
  LET P == IF d[Home] = None THEN {} ELSE d[Home][PartIndex] IN
  [n \in {t.name : t \in P} |-> (CHOOSE t \in P : t.name = n).path]
IdleSegs(d) ==
  LET P == ByID(IF d[Home] = None THEN {} ELSE d[Home][PartIndex])
      S == IF d[Home] = None THEN {} ELSE d[Home][SegIndex]
  IN  [s \in {t.name : t \in S} \ {PartSeg, SegSeg} |->
         LET t == CHOOSE u \in S : u.name = s  p == P[t.part] IN
         [part |-> p.name,
          rows |-> IF d[p.path] # None /\ t.first \in DOMAIN d[p.path] THEN d[p.path][t.first]
                   ELSE {}]]
IdleShown == mode = "idle" => ShownP = IdleParts(disk) /\ ShownS = IdleSegs(disk)

LEMMA IdleView == IdleShown
<1> SUFFICES ASSUME mode = "idle" PROVE ShownP = IdleParts(disk) /\ ShownS = IdleSegs(disk)
  BY DEF IdleShown
<1>1. ~Runs(Home) BY DEF Runs
<1>2. ShownP = IdleParts(disk) BY <1>1 DEF ShownP, ShownParts, StoredIn, IdleParts
<1>3. ShownS = IdleSegs(disk) BY <1>1 DEF ShownS, ShownSegs, StoredIn, StoredRows, IdleSegs
<1> QED BY <1>2, <1>3

LEMMA IdleViewed ==
  ASSUME OneMaster, mode = "idle", mode' = "idle", disk' = disk
  PROVE  UNCHANGED DB!dbVars
<1>1. IdleShown' BY IdleView, PTL
<1>2. ShownP' = IdleParts(disk') /\ ShownS' = IdleSegs(disk')
  <2>1. IdleShown' => (mode' = "idle" => ShownP' = IdleParts(disk') /\ ShownS' = IdleSegs(disk'))
    BY DEF IdleShown, IdleParts, IdleSegs
  <2> QED BY <1>1, <2>1
<1>3. ShownP = IdleParts(disk) /\ ShownS = IdleSegs(disk) BY IdleView DEF IdleShown
<1> QED BY <1>2, <1>3, ViewStutters

LEMMA ShutdownViewed ==
  ASSUME OneMaster, NoneApart, IInv, Shutdown
  PROVE  UNCHANGED DB!dbVars
<1>1. mode = "running" /\ mode' = "idle" /\ disk' = Stored(disk, segObjs) BY DEF Shutdown
<1>2. FilesOK(disk) /\ master = Home /\ \E P, S : Live(P, S) BY <1>1, Running
<1>3. PICK P, S : Live(P, S) BY <1>2
<1>4. Serves(disk, P) /\ SamePages(disk, S, P) BY <1>2, <1>3, DiskServes, DiskSamePages DEF Live
<1> QED BY <1>1, <1>2, <1>3, <1>4, StoringViewed

LEMMA ExitViewed ==
  ASSUME OneMaster, NoneApart, IInv, Exit
  PROVE  UNCHANGED DB!dbVars
<1>1. CASE mode = "running"
  <2>1. mode' = "idle" /\ disk' = Stored(disk, segObjs) BY <1>1 DEF Exit, EndProcess
  <2>2. FilesOK(disk) /\ master = Home /\ \E P, S : Live(P, S) BY <1>1, Running
  <2>3. PICK P, S : Live(P, S) BY <2>2
  <2>4. Serves(disk, P) /\ SamePages(disk, S, P) BY <2>2, <2>3, DiskServes, DiskSamePages DEF Live
  <2> QED BY <1>1, <2>1, <2>2, <2>3, <2>4, StoringViewed
<1>2. CASE mode = "idle"
  <2>1. mode' = "idle" /\ disk' = disk BY <1>2 DEF Exit, EndProcess
  <2> QED BY <1>2, <2>1, IdleViewed
<1> QED BY <1>1, <1>2 DEF Exit

LEMMA CreateUnknownViewed ==
  ASSUME OneMaster, NoneApart, IInv, NEW q, CreateUnknown(q)
  PROVE  UNCHANGED DB!dbVars
<1>1. mode = "running" /\ mode' = "idle" /\ disk' = Stored(disk, segObjs)
  BY DEF CreateUnknown, EndProcess
<1>2. FilesOK(disk) /\ master = Home /\ \E P, S : Live(P, S) BY <1>1, Running
<1>3. PICK P, S : Live(P, S) BY <1>2
<1>4. Serves(disk, P) /\ SamePages(disk, S, P) BY <1>2, <1>3, DiskServes, DiskSamePages DEF Live
<1> QED BY <1>1, <1>2, <1>3, <1>4, StoringViewed

LEMMA CreatePartitionFailsViewed ==
  ASSUME OneMaster, NoneApart, IInv, NEW q, NEW n, CreatePartitionFails(q, n)
  PROVE  UNCHANGED DB!dbVars
<1> DEFINE e == [disk EXCEPT ![q] = Nowhere]
<1>1. CanCreate(q, n) /\ mode = "running" /\ mode' = "idle" /\ disk' = Stored(e, segObjs)
  BY DEF CreatePartitionFails, EndProcess, Formatted, CanCreate
<1>2. FilesOK(disk) /\ master = Home /\ \E P, S : Live(P, S) BY <1>1, Running
<1>3. PICK P, S : Live(P, S) BY <1>2
<1>4. Serves(e, P) BY <1>1, <1>2, <1>3, PathIsNew, FileAdded
<1>5. SamePages(e, S, P)
  <2>1. q \in Paths /\ \A t \in P : t.path # q BY <1>1, <1>3, PathIsNew DEF Paths
  <2>2. \A r \in Paths : r # q => e[r] = disk[r] BY <1>2 DEF FilesOK
  <2>3. \A t \in S : ByID(P)[t.part] \in P /\ ByID(P)[t.part].path \in Paths
    BY <1>3, SegmentPages DEF Live
  <2> HIDE DEF e
  <2> QED BY <2>1, <2>2, <2>3 DEF SamePages
<1> HIDE DEF e
<1> QED BY <1>1, <1>2, <1>3, <1>4, <1>5, StoringViewed

LEMMA CreateSegmentFailsViewed ==
  ASSUME OneMaster, NoneApart, SoundAllocs, IInv, NEW n, NEW f \in FirstPages, CreateSegmentFails(n, f)
  PROVE  UNCHANGED DB!dbVars
<1>1. PICK d, q, x : d = partsByName[n] /\ q = PathOf(d) /\ x = Put(disk[q], f, {}) OBVIOUS
<1> DEFINE e == [disk EXCEPT ![q] = x]
<1>2. /\ mode = "running" /\ mode' = "idle" /\ n \in DOMAIN partsByName /\ f \notin DOMAIN disk[q]
      /\ disk' = Stored(e, segObjs)
  BY <1>1, GivesFree DEF CreateSegmentFails, EndProcess
<1>3. FilesOK(disk) /\ master = Home /\ \E P, S : Live(P, S) BY <1>2, Running
<1>4. PICK P, S : Live(P, S) BY <1>3
<1>5. d \in DOMAIN partsByID BY <1>1, <1>2, <1>4, NamesFound
<1>6. q \in Paths /\ disk[q] # None BY <1>1, <1>4, <1>5, PartitionFacts
<1>7. Serves(e, P)
  <2>1. e = [disk EXCEPT ![q] = Put(@, f, {})] BY <1>1
  <2> QED BY <1>2, <1>3, <1>4, <1>6, <2>1, PageAdded
<1>8. SamePages(e, S, P)
  <2>1. \A r \in Paths : e[r] = IF r = q THEN x ELSE disk[r] BY <1>3 DEF FilesOK
  <2>2. \A g \in DOMAIN disk[q] : x[g] = disk[q][g] BY <1>1, <1>2 DEF Put
  <2>3. \A t \in S : ByID(P)[t.part].path \in Paths /\ t.first \in DOMAIN disk[ByID(P)[t.part].path]
    BY <1>4, SegmentPages DEF Live
  <2> HIDE DEF e
  <2> QED BY <2>1, <2>2, <2>3 DEF SamePages
<1> HIDE DEF e
<1> QED BY <1>2, <1>3, <1>4, <1>7, <1>8, StoringViewed

-----------------------------------------------------------------------------
(* INSTALL and BOOT, from an idle system.                                   *)
LEMMA InstallViewed ==
  ASSUME OneMaster, NoneApart, IInv, IInv', NEW m \in Masters, Install(m)
  PROVE  DB!Next
<1>1. /\ mode = "idle" /\ disk[Home] = None /\ mode' # "idle" /\ m = Home
      /\ partsByID' = Put(partsByID, partCounter, PartTuple(partCounter, MasterPart, Home, FileType))
      /\ partsByName' = Put(partsByName, MasterPart, partCounter)
      /\ segsByName' = Put(Put(segsByName, PartSeg, segCounter), SegSeg, segCounter + 1)
  BY Paths0 DEF Install
<1>2. Blank
  <2>1. ~Booted BY MasterFacts, <1>1 DEF Booted
  <2> QED BY <1>1, <2>1 DEF IInv, Uninstalled, Unbooted
<1>3. DOMAIN Nowhere = {} BY NowhereIs
<1>4. DOMAIN partsByName' = {MasterPart} /\ partsByID'[partsByName'[MasterPart]].path = Home
  BY <1>1, <1>2, <1>3 DEF Blank, Put, PartTuple
<1>5. Users' = {} BY <1>1, <1>2, <1>3 DEF Users, Blank, Put
<1>6. ShownP = DB!Nothing /\ ShownS = DB!Nothing
  <2>1. ShownP = IdleParts(disk) /\ ShownS = IdleSegs(disk) BY <1>1, IdleView DEF IdleShown
  <2> QED BY <1>1, <2>1 DEF IdleParts, IdleSegs, DB!Nothing
<1>7. ShownP' = DB!With(DB!Nothing, MasterPart, Home)
  <2>1. ShownP' = [n \in DOMAIN partsByName' |-> partsByID'[partsByName'[n]].path] BY <1>1, After
  <2> QED BY <1>4, <2>1 DEF DB!With, DB!Nothing
<1>8. ShownS' = DB!Nothing
  <2>1. ShownS' = [s \in Users' |-> [part |-> PartOf(s)', rows |-> RowsOf(s)']] BY <1>1, After
  <2> QED BY <1>5, <2>1 DEF DB!Nothing
<1>9. DB!Install(Home)
  <2>1. [k \in Masters |-> ShownParts(k)][Home] = DB!Nothing BY <1>6, ViewIs
  <2>2. UNCHANGED [k \in Masters |-> ShownSegs(k)] BY <1>6, <1>8, ViewIs
  <2>3. [k \in Masters |-> ShownParts(k)]' =
          [[k \in Masters |-> ShownParts(k)] EXCEPT ![Home] = DB!With(DB!Nothing, MasterPart, Home)]
    BY <1>7 DEF OneMaster, ShownP
  <2> QED BY <2>1, <2>2, <2>3 DEF DB!Install
<1> QED BY <1>9, ViewSteps

LEMMA BootViewed ==
  ASSUME OneMaster, NoneApart, IInv, IInv', StoredObjects, NEW m \in Masters, Boot(m)
  PROVE  UNCHANGED DB!dbVars
<1>1. PICK P, S : P = disk[Home][PartIndex] /\ S = disk[Home][SegIndex] OBVIOUS
<1>2. /\ mode = "idle" /\ disk[Home] # None /\ mode' # "idle" /\ master' = Home
      /\ segObjs' = segObjs /\ disk' = disk
  BY Paths0 DEF Boot, fileVars
<1>3. Sound(P, S, disk) /\ Live(P, S)' /\ (Blank \/ UNCHANGED <<partsByID, segsByID>>)
  BY <1>1, BootLive
<1>4. ShownP = ViewP(P) /\ ShownS = ViewS(P, S, PageRows(P, S, disk))
  BY <1>1, <1>2, <1>3, IdleSeen DEF IdleSees
<1>5. ShownP' = ViewP(P) /\ ShownS' = ViewS(P, S, ObjectRows(S)')
  <2>1. RunningSees' BY SeenNext
  <2>2. ShownP' = ViewP(P)' /\ ShownS' = ViewS(P, S, ObjectRows(S))' BY <1>2, <1>3, <2>1 DEF RunningSees
  <2> QED BY <2>2 DEF ViewP, ViewS
<1>6. ObjectRows(S)' = PageRows(P, S, disk)
  <2>1. Found' BY <1>2, After
  <2>2. partsByID' = ByID(P) /\ segsByID' = ByID(S) BY <1>3 DEF Live, Mapped
  <2>3. UniqueIDs(S) BY <1>3 DEF Sound
  <2>4. ASSUME NEW t \in S
        PROVE  Opened(t.id)'.rows = disk[ByID(P)[t.part].path][t.first]
    <3>1. t.id \in DOMAIN segsByID' /\ segsByID'[t.id] = t
      <4>1. DOMAIN ByID(S) = {u.id : u \in S} /\ ByID(S)[t.id] = t BY <2>3, ByIDIs
      <4> QED BY <2>2, <4>1
    <3>2. SegPath(t.id)' = ByID(P)[t.part].path BY <2>2, <3>1 DEF SegPath
    <3>3. PICK i : i = t.id OBVIOUS
    <3>4. Opened(i)'.rows = IF i \in DOMAIN segObjs THEN segObjs[i].rows
                            ELSE disk[SegPath(i)'][t.first]
      BY <1>2, <2>1, <3>1, <3>3 DEF Found
    <3>5. ASSUME i \in DOMAIN segObjs PROVE segObjs[i].rows = disk[SegPath(i)'][t.first]
      <4>1. ~Blank BY <3>5, NowhereIs DEF Blank
      <4>2. UNCHANGED <<partsByID, segsByID>> BY <1>3, <4>1
      <4>3. i \in DOMAIN segsByID /\ segsByID[i] = t /\ SegPath(i)' = SegPath(i)
        BY <3>1, <3>3, <4>2 DEF SegPath
      <4> QED BY <1>2, <3>5, <4>3 DEF StoredObjects
    <3> QED BY <3>2, <3>3, <3>4, <3>5
  <2> QED BY <2>4 DEF ObjectRows, PageRows
<1>7. ShownP' = ShownP /\ ShownS' = ShownS BY <1>4, <1>5, <1>6
<1> QED BY <1>7, ViewStutters

-----------------------------------------------------------------------------
(* The objects of an idle process hold what is stored.                      *)
LEMMA ShutdownStores ==
  ASSUME OneMaster, NoneApart, IInv, Shutdown
  PROVE  StoredObjects'
<1>1. /\ mode = "running" /\ disk' = Stored(disk, segObjs)
      /\ UNCHANGED <<partsByID, segsByID, segObjs>>
  BY DEF Shutdown, partVars, segVars
<1>2. FilesOK(disk) /\ \E P, S : Live(P, S) BY <1>1, Running
<1>3. PICK P, S : Live(P, S) BY <1>2
<1>4. Sound(P, S, disk) /\ Mapped(P, S) BY <1>3 DEF Live
<1>5. PageRows(P, S, disk') = ObjectRows(S) BY <1>1, <1>2, <1>3, <1>4, DiskServes, DiskSamePages, RowsStored
<1>6. ASSUME NEW i \in DOMAIN segObjs, i \in DOMAIN segsByID
      PROVE  segObjs[i].rows = disk'[SegPath(i)][segsByID[i].first]
  <2>1. PICK t \in S : t = segsByID[i] /\ t.id = i BY <1>4, <1>6, Lookups
  <2>2. PageRows(P, S, disk')[t] = disk'[SegPath(i)][segsByID[i].first]
    BY <1>4, <2>1 DEF PageRows, SegPath, Mapped
  <2>3. ObjectRows(S)[t] = segObjs[i].rows BY <2>1 DEF ObjectRows, Opened
  <2> QED BY <1>5, <2>2, <2>3
<1>7. \A i : SegPath(i)' = SegPath(i) BY <1>1 DEF SegPath
<1> QED BY <1>1, <1>6, <1>7 DEF StoredObjects

LEMMA StoredObjectsKept ==
  ASSUME OneMaster, NoneApart, IInv, StoredObjects, [Next]_vars
  PROVE  StoredObjects'
<1> SUFFICES ASSUME mode' = "idle" PROVE StoredObjects' BY DEF StoredObjects
<1>1. ASSUME UNCHANGED <<mode, partsByID, segVars, disk>> PROVE StoredObjects'
  <2>1. UNCHANGED <<segObjs, segsByID>> BY <1>1 DEF segVars
  <2>2. \A i : SegPath(i)' = SegPath(i) BY <1>1, <2>1 DEF SegPath
  <2> QED BY <1>1, <2>1, <2>2 DEF StoredObjects
<1>2. ASSUME NEW d, NEW x, EndProcess(d, x) PROVE StoredObjects'
  <2>1. DOMAIN segObjs' = {} BY <1>2, NowhereIs DEF EndProcess
  <2> QED BY <2>1 DEF StoredObjects
<1>3. CASE Shutdown BY <1>3, ShutdownStores
<1>4. CASE Exit BY <1>2, <1>4 DEF Exit
<1>5. ASSUME NEW m, InstallExists(m) PROVE StoredObjects'
  BY <1>1, <1>5 DEF InstallExists, fileVars
<1>6. ASSUME NEW m, Install(m) \/ Boot(m) PROVE FALSE BY <1>6 DEF Install, Boot
<1>7. ASSUME NEW q, CreateUnknown(q) PROVE StoredObjects' BY <1>2, <1>7 DEF CreateUnknown
<1>8. ASSUME NEW q, NEW n, CreatePartition(q, n) PROVE FALSE BY <1>8 DEF CreatePartition, CanCreate
<1>9. ASSUME NEW q, NEW n, CreatePartitionFails(q, n) PROVE StoredObjects'
  BY <1>2, <1>9 DEF CreatePartitionFails
<1>10. ASSUME NEW i, CreateKnown(i) \/ OpenRaw(i) \/ EraseAborts(i) PROVE FALSE
  BY <1>10 DEF CreateKnown, OpenRaw, EraseAborts
<1>11. ASSUME NEW n, DropPartition(n) PROVE FALSE BY <1>11 DEF DropPartition
<1>12. ASSUME NEW n, NEW f, CreateSegmentFails(n, f) PROVE StoredObjects'
  BY <1>2, <1>12 DEF CreateSegmentFails
<1>13. ASSUME NEW n, NEW s, NEW f, CreateSegment(n, s, f) PROVE FALSE BY <1>13 DEF CreateSegment
<1>14. ASSUME NEW s, DropSegment(s) PROVE FALSE BY <1>14 DEF DropSegment
<1>15. ASSUME NEW s, NEW r, InsertTuple(s, r) PROVE FALSE BY <1>15 DEF InsertTuple
<1>16. ASSUME NEW s, ShowSegment(s) PROVE FALSE BY <1>16 DEF ShowSegment
<1>17. CASE UNCHANGED vars BY <1>1, <1>17 DEF vars, partVars, fileVars
<1> QED
  BY <1>3, <1>4, <1>5, <1>6, <1>7, <1>8, <1>9, <1>10, <1>11, <1>12, <1>13, <1>14, <1>15, <1>16,
     <1>17 DEF Next

-----------------------------------------------------------------------------
(* Whatever the commands create, insert and drop, and wherever the process  *)
(* is shut down, left or ended by an error, the user of the database finds  *)
(* what he made and nothing else, as long as no page is taken from a spoilt *)
(* FSIP: the catalog refines Database (the commands of PartitionManager and *)
(* SegmentManager; install, boot and shutdown of DatabaseInstanceManager).  *)
THEOREM CatalogImplementsDatabase ==
  ASSUME OneMaster, NoneApart, SoundAllocs
  PROVE  Spec => ImplementsDatabase
<1>1. Init => DB!Init /\ StoredObjects
  <2> SUFFICES ASSUME Init PROVE DB!Init /\ StoredObjects OBVIOUS
  <2>1. mode = "idle" /\ disk[Home] = None /\ segObjs = Nowhere BY Paths0 DEF Init
  <2>2. ShownP = DB!Nothing /\ ShownS = DB!Nothing
    <3>1. ShownP = IdleParts(disk) /\ ShownS = IdleSegs(disk) BY <2>1, IdleView DEF IdleShown
    <3> QED BY <2>1, <3>1 DEF IdleParts, IdleSegs, DB!Nothing
  <2>3. DB!Init BY <2>2 DEF DB!Init, OneMaster, ShownP, ShownS
  <2>4. StoredObjects BY <2>1, NowhereIs DEF StoredObjects
  <2> QED BY <2>3, <2>4
<1>2. IInv /\ IInv' /\ StoredObjects /\ [Next]_vars => [DB!Next]_(DB!dbVars)
  <2> SUFFICES ASSUME IInv, IInv', StoredObjects, [Next]_vars
               PROVE  DB!Next \/ UNCHANGED DB!dbVars
    OBVIOUS
  <2>1. CASE Shutdown BY <2>1, ShutdownViewed
  <2>2. CASE Exit BY <2>2, ExitViewed
  <2>3. ASSUME NEW m \in Masters, InstallExists(m) PROVE UNCHANGED DB!dbVars
    BY <2>3, IdleViewed DEF InstallExists, fileVars
  <2>4. ASSUME NEW m \in Masters, Install(m) PROVE DB!Next BY <2>4, InstallViewed
  <2>5. ASSUME NEW m \in Masters, Boot(m) PROVE UNCHANGED DB!dbVars BY <2>5, BootViewed
  <2>6. ASSUME NEW q \in Paths, CreateUnknown(q) PROVE UNCHANGED DB!dbVars
    BY <2>6, CreateUnknownViewed
  <2>7. ASSUME NEW q \in Paths, NEW n \in PartNames, CreatePartition(q, n) PROVE DB!Next
    BY <2>7, CreatePartitionViewed
  <2>8. ASSUME NEW q \in Paths, NEW n \in PartNames, CreatePartitionFails(q, n)
        PROVE  UNCHANGED DB!dbVars
    BY <2>8, CreatePartitionFailsViewed
  <2>9. ASSUME NEW i \in DOMAIN partsByID, CreateKnown(i) PROVE UNCHANGED DB!dbVars
    BY <2>9, CreateKnownViewed
  <2>10. ASSUME NEW i \in DOMAIN partsByID, OpenRaw(i) PROVE UNCHANGED DB!dbVars
    BY <2>10, AbortViewed
  <2>11. ASSUME NEW n \in PartNames, DropPartition(n) PROVE DB!Next BY <2>11, DropPartitionViewed
  <2>12. ASSUME NEW n, NEW f \in FirstPages, CreateSegmentFails(n, f) PROVE UNCHANGED DB!dbVars
    BY <2>12, CreateSegmentFailsViewed
  <2>13. ASSUME NEW n \in PartNames \cup {MasterPart}, NEW f \in FirstPages, NEW s \in SegNames,
                CreateSegment(n, s, f)
         PROVE  DB!Next
    BY <2>13, CreateSegmentViewed
  <2>14. ASSUME NEW s \in SegNames, DropSegment(s) PROVE DB!Next BY <2>14, DropSegmentViewed
  <2>15. ASSUME NEW s \in SegNames, NEW r \in Rows, InsertTuple(s, r) PROVE DB!Next
    BY <2>15, InsertTupleViewed
  <2>16. ASSUME NEW s, ShowSegment(s) PROVE UNCHANGED DB!dbVars BY <2>16, ShowSegmentViewed
  <2>17. ASSUME NEW i \in stored, EraseAborts(i) PROVE UNCHANGED DB!dbVars BY <2>17, AbortViewed
  <2>18. CASE UNCHANGED vars
    <3>1. UNCHANGED <<mode, partsByID, partsByName, segVars, disk>>
      BY <2>18 DEF vars, partVars, fileVars
    <3>2. CASE mode = "idle" BY <3>1, <3>2, IdleViewed
    <3>3. CASE mode # "idle" BY <3>1, <3>3, SameMapsViewed
    <3> QED BY <3>2, <3>3
  <2> QED
    BY <2>1, <2>2, <2>3, <2>4, <2>5, <2>6, <2>7, <2>8, <2>9, <2>10, <2>11, <2>12, <2>13, <2>14,
       <2>15, <2>16, <2>17, <2>18 DEF Next
<1>3. IInv /\ StoredObjects /\ [Next]_vars => StoredObjects' BY StoredObjectsKept
<1>4. Spec => []IInv BY IInvariant
<1> QED BY <1>1, <1>2, <1>3, <1>4, PTL DEF Spec, ImplementsDatabase, DB!Spec
=============================================================================
