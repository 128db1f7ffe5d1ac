------------------------------- MODULE Partition -------------------------------
(***************************************************************************)
(* A partition of src/src/partition, a file or a raw device, and its free  *)
(* space inventory pages (FSIPs, src/src/interpreter/interpreter_fsip):    *)
(* creation, the allocation of pages with the growth of the file, their    *)
(* release, and the removal of a raw partition.                            *)
(*                                                                         *)
(* Every FSIP is followed by the pages it manages, at most M of them.  It  *)
(* is a bit per page, set when the page is in use, and a header.  A call   *)
(* is one step: the commands that allocate pages run one after the other.  *)
(***************************************************************************)
EXTENDS Integers, FiniteSets

CONSTANTS
  M,           (* getMaxPagesPerFSIP(): bits of an FSIP                        *)
  W,           (* bits of a word of getNextFreePage: 32                        *)
  Growths,     (* the growth indicators a partition file is created with       *)
  Devices,     (* the sizes of the raw devices a partition is created on       *)
  Releases,    (* the kinds of release the segments make, see ReleaseKind      *)
  MaxSize,     (* bound: pages of the file                                     *)
  MaxReleases  (* bound: pages released                                        *)

ASSUME PartitionAssumption ==
  /\ M \in Nat \ {0} /\ M % 8 = 0 /\ W \in Nat \ {0}
  /\ MaxSize \in Nat /\ MaxReleases \in Nat
  /\ Growths \subseteq 8 .. MaxSize
  /\ Devices \subseteq {n \in 1 .. MaxSize : n % (M + 1) # 1}

Bits == 0 .. M - 1
Pages == 0 .. MaxSize
Fsips == {p \in Pages : p % (M + 1) = 0}    (* where the code puts FSIPs *)
FsipOf(p) == p - (p % (M + 1))

VARIABLES
  growth,     (* _growthIndicator of a file, 0: a raw partition                *)
  size,       (* _sizeInPages                                                  *)
  fileSize,   (* the pages the file or the device really has                   *)
  fsip,       (* the FSIPs on disk                                             *)
  owners,     (* how often a page is in use: handed out and not released       *)
  damaged,    (* pages that freePage took for an FSIP, and wrote to            *)
  releases    (* number of releases so far                                     *)

vars == <<growth, size, fileSize, fsip, owners, damaged, releases>>

Lowest(S) == CHOOSE i \in S : \A j \in S : i <= j
Highest(S) == CHOOSE i \in S : \A j \in S : j <= i

-----------------------------------------------------------------------------
(* An FSIP: _pageIndex, the bits that are 1, and the rest of its header.    *)
Header == [at : Pages, used : SUBSET Bits, next : Bits, free : 0 .. M, managed : 0 .. M]

(* What a page of the resized file holds before it is written.              *)
Zeroed == [at |-> 0, used |-> {}, next |-> 0, free |-> 0, managed |-> 0]

(* initNewFSIP: the first n bits are 0, the others 1.                         *)
NewFSIP(at, n) ==
  [at |-> at, used |-> n .. M - 1, next |-> 0, free |-> n, managed |-> n]

(* The search starts at the word that holds the old position.              *)
NextFree(f) ==
  LET clear == {i \in Bits \ f.used : i \div W >= f.next \div W}
  IN  IF clear = {} THEN 0 ELSE Lowest(clear)

NewPage(f) ==
  LET g == [f EXCEPT !.used = @ \cup {f.next}]
  IN  [g EXCEPT !.next = NextFree(g), !.free = @ - 1]

(* Mutant: the position to search from is not set back. *)
PutBackKeepsNext(f, p) ==
  LET i == p - (f.at + 1) IN [f EXCEPT !.used = @ \ {i}, !.free = @ + 1]

(* freePage of the interpreter: _nextFreePage is compared also when no page *)
(* is free and the position it holds is not that of a free page.            *)
PutBack(f, p) ==
  LET i == p - (f.at + 1)
  IN  [f EXCEPT !.next = IF @ > i THEN i ELSE @, !.used = @ \ {i}, !.free = @ + 1]

Byte(b) == 8 * b .. 8 * b + 7

(* Mutant: the byte the new pages start in is masked from the other side. *)
GrowBitsMask(used, m, r) ==
  LET part  == m % 8 # 0
      start == IF part THEN m \div 8 + 1 ELSE m \div 8
      left  == IF part THEN r - (8 - (m % 8)) ELSE r
      clear == 8 * start .. 8 * start + left - 1
  IN  (IF part THEN (used \cup Byte(m \div 8)) \ (8 * (m \div 8) .. m - 1) ELSE used) \ clear

(* Clears the bits of r pages from position m on: the rest of the byte m is *)
(* in, whole bytes, and the first bits of the byte behind them.             *)
GrowBits(used, m, r) ==
  LET part  == m % 8 # 0
      start == IF part THEN m \div 8 + 1 ELSE m \div 8
      left  == IF part THEN r - (8 - (m % 8)) ELSE r
      first == IF part THEN (used \ Byte(m \div 8)) \cup (8 * (m \div 8) .. m - 1) ELSE used
      whole == UNION {Byte(b) : b \in start .. start + (left \div 8) - 1}
      last  == 8 * (start + (left \div 8)) .. 8 * (start + (left \div 8)) + (left % 8) - 1
  IN  first \ (whole \cup last)

Room(f) == M - f.managed

(* Mutant: _nextFreePage is left as it was. *)
GrownNextKept(f, g) ==
  LET r == IF g <= Room(f) THEN g ELSE Room(f)
  IN  IF Room(f) = 0 THEN f
      ELSE [f EXCEPT !.used = GrowBits(@, f.managed, r), !.free = @ + r, !.managed = @ + r]

(* grow on this FSIP: g pages more, or as many of them as it has room for.  *)
Grown(f, g) ==
  LET r == IF g <= Room(f) THEN g ELSE Room(f)
  IN  IF Room(f) = 0 THEN f
      ELSE [f EXCEPT !.used = GrowBits(@, f.managed, r), !.free = @ + r,
                     !.next = f.managed, !.managed = @ + r]

(* The result of grow: the pages that the next FSIP must manage.            *)
Remaining(f, g) == IF g <= Room(f) THEN 0 ELSE g - Room(f)

-----------------------------------------------------------------------------
(* create, format: FSIPs as long as more than one page remains.             *)
Formatted(n) ==
  [p \in Fsips |->
     IF n - p > 1 THEN NewFSIP(p, IF n - p - 1 > M THEN M ELSE n - p - 1) ELSE Zeroed]

(* A file is created with the pages of one growth; a raw partition is as    *)
(* large as its device, which is formatted where it is.  A device that ends *)
(* with the place of an FSIP is left out: that page is never written.       *)
InitFile == growth \in Growths /\ size = growth
InitRaw == growth = 0 /\ size \in Devices

Init ==
  /\ InitFile \/ InitRaw
  /\ fileSize = size
  /\ fsip = Formatted(size)
  /\ owners = [p \in Pages |-> 0]
  /\ damaged = {} /\ releases = 0

(* Mutant: the count of free pages is not looked at. *)
WithAnyRoom(fs, n) == {p \in Fsips : p < n}

(* The FSIPs of the first n pages that still have a page to give.           *)
WithRoom(fs, n) == {p \in Fsips : p < n /\ fs[p].free # 0}

(* getNewPage on the first of them.                                         *)
HandOut(fs, n) ==
  LET p == Lowest(WithRoom(fs, n))  page == fs[p].next + 1 + fs[p].at IN
  /\ fsip' = [fs EXCEPT ![p] = NewPage(@)]
  /\ owners' = [owners EXCEPT ![page] = @ + 1]
  /\ UNCHANGED <<growth, damaged, releases>>

(* allocPage of the base class finds an FSIP with a free page.              *)
Alloc ==
  /\ WithRoom(fsip, size) # {}
  /\ HandOut(fsip, size)
  /\ UNCHANGED <<size, fileSize>>

(* The last FSIP is told of the new pages, a new one manages what it cannot.*)
LastFsip == Highest({p \in Fsips : p < size})
NewFsip == LastFsip + M + 1
Overflow == Remaining(fsip[LastFsip], growth)

(* Mutant: what does not fit the last FSIP is left out. *)
ExtendedLast == [fsip EXCEPT ![LastFsip] = Grown(@, growth)]

Extended ==
  LET grown == [fsip EXCEPT ![LastFsip] = Grown(@, growth)] IN
  IF Overflow = 0 THEN grown
  ELSE [grown EXCEPT ![NewFsip] = NewFSIP(NewFsip, IF Overflow > M THEN M ELSE Overflow)]

(* Mutant: the file grows, _sizeInPages does not. *)
ResizeForgets ==
  /\ growth # 0 /\ WithRoom(fsip, size) = {}
  /\ size + growth + M + 1 <= MaxSize
  /\ fileSize' = size + growth
  /\ UNCHANGED size

(* All FSIPs are full: the file is resized.  The number of pages left for   *)
(* the new FSIP does not count the FSIP itself, so the pages it manages end *)
(* behind the file, and later FSIPs can be written there altogether.        *)
Resize ==
  /\ growth # 0 /\ WithRoom(fsip, size) = {}
  /\ size + growth + M + 1 <= MaxSize
  /\ size' = size + growth
  /\ fileSize' = IF Overflow > 0 /\ NewFsip >= size' THEN NewFsip + 1 ELSE size'

(* The page is allocated after the growth, by the base class again; when it *)
(* finds none, its exception leaves allocPage.                              *)
AllocGrowing ==
  /\ Resize
  /\ IF WithRoom(Extended, size + growth) # {} THEN HandOut(Extended, size + growth)
     ELSE fsip' = Extended /\ UNCHANGED <<growth, owners, damaged, releases>>

(* Where the model stops: the file may not become larger than its bound.    *)
AtBound ==
  /\ growth # 0 /\ WithRoom(fsip, size) = {} /\ size + growth + M + 1 > MaxSize
  /\ UNCHANGED vars

(* A raw partition does not grow: the exception of allocPage is the answer. *)
Refused ==
  /\ growth = 0 /\ WithRoom(fsip, size) = {}
  /\ UNCHANGED vars

(* remove of a raw partition: the device is formatted again, and whoever    *)
(* used its pages is gone.                                                  *)
Remove ==
  /\ growth = 0
  /\ fsip' = Formatted(size)
  /\ owners' = [p \in Pages |-> 0]
  /\ UNCHANGED <<growth, size, fileSize, damaged, releases>>

(* The buffer manager writes a page behind the end of the file.             *)
WriteBehindEnd(p) ==
  /\ owners[p] > 0 /\ p >= fileSize
  /\ fileSize' = p + 1
  /\ UNCHANGED <<growth, size, fsip, owners, damaged, releases>>

(* The database is opened again: the size of the file counts.               *)
Reopen ==
  /\ size # fileSize
  /\ size' = fileSize
  /\ UNCHANGED <<growth, fileSize, fsip, owners, damaged, releases>>

(* Releases told apart: of a page that the first FSIP does not manage, of   *)
(* one that is not its first while it is full, and the others.              *)
ReleaseKind(p) ==
  IF p > M THEN "later" ELSE IF fsip[0].free = 0 /\ p > 1 THEN "full" ELSE "open"

(* freePage: the FSIP computed is right for the pages of the first one      *)
(* only; for the others it is a page of a segment, which is written to.     *)
Free(p) ==
  LET at == (p \div (M + 1)) * M IN
  /\ owners[p] > 0 /\ releases < MaxReleases /\ ReleaseKind(p) \in Releases
  /\ IF at \in Fsips
     THEN fsip' = [fsip EXCEPT ![at] = PutBack(@, p)] /\ UNCHANGED damaged
     ELSE damaged' = damaged \cup {at} /\ UNCHANGED fsip
  /\ owners' = [owners EXCEPT ![p] = @ - 1]
  /\ releases' = releases + 1
  /\ UNCHANGED <<growth, size, fileSize>>

Next ==
  \/ Alloc \/ AllocGrowing \/ AtBound \/ Refused \/ Remove \/ Reopen
  \/ \E p \in Pages : WriteBehindEnd(p) \/ Free(p)

Spec == Init /\ [][Next]_vars

-----------------------------------------------------------------------------
TypeOK ==
  /\ growth \in Growths \cup {0} /\ size \in Pages /\ fileSize \in Pages
  /\ fsip \in [Fsips -> Header]
  /\ owners \in [Pages -> Nat]
  /\ damaged \subseteq Pages /\ releases \in 0 .. MaxReleases

(* A page is handed out to one owner at a time, and no FSIP is (allocPage,  *)
(* getNewPage, freePage, grow).                                             *)
HandedOutOnce == \A p \in Pages : owners[p] <= IF p \in Fsips THEN 0 ELSE 1

(* The bits of an FSIP say which of its pages are in use, its count how     *)
(* many are not, and _nextFreePage is the first of them.                    *)
FsipExact ==
  \A p \in Fsips :
    LET f == fsip[p]  clear == Bits \ f.used IN
    f.managed > 0 =>
      /\ f.at = p
      /\ clear = {i \in 0 .. f.managed - 1 : owners[p + 1 + i] = 0}
      /\ f.free = Cardinality(clear)
      /\ clear # {} => f.next = Lowest(clear)

(* Every page of the file but the FSIPs is managed by an FSIP: growing the  *)
(* file loses no page (create, format, allocPage, grow).                    *)
PagesManaged ==
  \A p \in 0 .. size - 1 : p \in Fsips \/ p <= FsipOf(p) + fsip[FsipOf(p)].managed

(* Growing the file cuts off no page that is in use and was written.        *)
GrowthKeepsPages ==
  [][\A p \in Pages : owners[p] > 0 /\ p < fileSize => p < fileSize']_vars
=============================================================================
