-------------------------------- MODULE Segment --------------------------------
(***************************************************************************)
(* A segment of slotted pages (src/src/segment, segment_fsm and            *)
(* segment_fsm_sp) with its free space management pages (FSMs), its index  *)
(* pages and its data pages: creation, insertion, deletion of a tuple, the *)
(* shutdown and boot of the database, and the deletion of the segment.     *)
(*                                                                         *)
(* One thread runs the commands, so a call is a step.  The pages are what  *)
(* the buffer manager shows of them (PageStore); what matters of it is     *)
(* that a page whose latch is left behind, by an exception or by a search, *)
(* stays latched: the next call that fixes it exclusively never returns    *)
(* and takes no step.                                                      *)
(***************************************************************************)
EXTENDS Integers, Sequences, FiniteSets

CONSTANTS
  PageSize,      (* bytes of a page                                            *)
  FsmEntries,    (* getMaxPagesPerFSM(): two entries in each byte of an FSM    *)
  Leftovers,     (* what initNewFSM may leave in the entries of a new FSM      *)
  Sizes,         (* bytes of the tuples                                        *)
  Stores,        (* the kinds of shutdown, see StoreKind                       *)
  Layouts,       (* bound: the pages of the partition that the segment may use,
                    and the entries of an index page (maxPerPage): four of its
                    bytes for each                                             *)
  MaxDeletes     (* bound: tuples deleted                                      *)

SpHeader == 24   (* sizeof(sp_header_t) *)
SlotSize == 6    (* sizeof(slot_t)      *)
MaxStatus == 15  (* PageStatus::kMAX    *)

Entries == 0 .. FsmEntries - 1
MaxLimit == CHOOSE n \in {l.pages : l \in Layouts} : \A l \in Layouts : l.pages <= n
Pages == 1 .. MaxLimit

Align(n) == 8 * ((n + 7) \div 8)

(* calcPageStatus for the bytes that insertTuple asks for: as many of the   *)
(* 15 parts of a page with one slot as the tuple begins.                    *)
Room == PageSize - (SpHeader + SlotSize)
Status(n) == (Align(n) + (Room \div MaxStatus) - 1) \div (Room \div MaxStatus)

ASSUME SegmentAssumption ==
  /\ PageSize \in Nat /\ PageSize >= 64
  /\ FsmEntries \in Nat \ {0}
  /\ Leftovers \subseteq {f \in [Entries -> 0 .. MaxStatus] : \A i \in Entries : i > 15 => f[i] = 0}
  /\ \A n \in Sizes : n \in Nat \ {0} /\ Align(n) <= Room /\ Status(n) <= MaxStatus
  /\ Layouts \subseteq [pages : Nat \ {0, 1}, entries : Nat \ {0}]
  /\ Layouts # {} /\ IsFiniteSet(Layouts) /\ MaxDeletes \in Nat

VARIABLES
  phase,       (* the segment: none yet, its object open, stored, or erased    *)
  first,       (* firstPage() of its tuple in the master segment               *)
  indexPages,  (* _indexPages                                                  *)
  fsmPages,    (* _fsmPages                                                    *)
  pages,       (* _pages                                                       *)
  page,        (* the content of the pages                                     *)
  layout,      (* one of Layouts                                               *)
  taken,       (* those of them it has allocated                               *)
  latched,     (* pages whose latch an exception or a search left behind       *)
  given,       (* the identifiers (TIDs) of the tuples inserted                *)
  deletes      (* tuples deleted                                               *)

objectVars == <<phase, first, indexPages, fsmPages>>
vars == <<objectVars, pages, page, layout, taken, latched, given, deletes>>

-----------------------------------------------------------------------------
(* What a page may hold.  A page never written to reads as zeros.           *)
Zeros == [kind |-> "zeros", free |-> 0, recs |-> <<>>, end |-> 0]

NewFsm(f) == [kind |-> "fsm", status |-> f, next |-> 0]

IndexPage(entries, fsm, nextIndex) ==
  [kind |-> "index", entries |-> entries, fsm |-> fsm, next |-> nextIndex]

(* initNewPage *)
NewSp == [kind |-> "sp", free |-> PageSize - SpHeader, recs |-> <<>>, end |-> 0]

Enough(q, n) == Align(n) + SlotSize <= q.free

(* Mutant: the slot is not taken off the free space. *)
AddRecordNoSlot(q, n) ==
  [q EXCEPT !.recs = Append(@, [off |-> q.end, size |-> n, valid |-> TRUE]),
            !.end = @ + Align(n), !.free = @ - Align(n)]

(* addNewRecord, when there is enough space.                                *)
AddRecord(q, n) ==
  [q EXCEPT !.recs = Append(@, [off |-> q.end, size |-> n, valid |-> TRUE]),
            !.end = @ + Align(n), !.free = @ - (Align(n) + SlotSize)]

-----------------------------------------------------------------------------
(* The pages the partition gives next, one call of allocPage after another. *)
Available == (1 .. layout.pages) \ taken
Granted(k) == CHOOSE p \in Available : Cardinality({q \in Available : q <= p}) = k
CanAlloc(k) == Cardinality(Available) >= k

(* Mutant: kPageStatusSize itself is taken for a status. *)
FittingOneMore(p, n) == {i \in Entries : page[p].status[i] + Status(n) <= MaxStatus + 1}

(* getFreePage of an FSM: the entries that can take the status, the first   *)
(* of which is taken.                                                       *)
Fitting(p, n) == {i \in Entries : page[p].status[i] + Status(n) <= MaxStatus}
Fullish(n) == {k \in 1 .. Len(fsmPages) : Fitting(fsmPages[k], n) = {}}
Entry(p, n) == CHOOSE i \in Fitting(p, n) : \A j \in Fitting(p, n) : i <= j
Chosen(n) == CHOOSE k \in (1 .. Len(fsmPages)) \ Fullish(n) : 1 .. k - 1 \subseteq Fullish(n)

Marked(p, n) == [page[p] EXCEPT !.status[Entry(p, n)] = @ + Status(n)]

(* The FSMs that getFreePage fixes are not latched.                         *)
FsmsFree(k) == \A j \in 1 .. k : fsmPages[j] \notin latched

(* An index page is reserved by the number of bytes, not of entries.        *)
Reserve(n) == n >= Len(indexPages) * (4 * layout.entries)

-----------------------------------------------------------------------------
Init ==
  /\ phase = "none" /\ first = 0
  /\ indexPages = <<>> /\ fsmPages = <<>> /\ pages = <<>>
  /\ page = [p \in Pages |-> Zeros]
  /\ layout \in Layouts /\ taken = {} /\ latched = {} /\ given = {} /\ deletes = 0

(* The constructor: an index page, and an FSM.                              *)
Create ==
  /\ phase = "none" /\ CanAlloc(2)
  /\ phase' = "open" /\ first' = Granted(1)
  /\ indexPages' = <<Granted(1)>> /\ fsmPages' = <<Granted(2)>>
  /\ \E f \in Leftovers : page' = [page EXCEPT ![Granted(2)] = NewFsm(f)]
  /\ taken' = taken \cup {Granted(1), Granted(2)}
  /\ UNCHANGED <<pages, layout, latched, given, deletes>>

(* insertTuple on a page that getFreePage chose among those it has.         *)
InsertInto(n) ==
  /\ phase = "open" /\ Fullish(n) # 1 .. Len(fsmPages) /\ FsmsFree(Chosen(n))
  /\ LET k   == Chosen(n)
         fsm == fsmPages[k]
         pos == Entry(fsm, n) + (k - 1) * FsmEntries
         p   == pages[pos + 1]
         content == [page EXCEPT ![fsm] = Marked(fsm, n)]
     IN  /\ pos < Len(pages) /\ p \notin latched
         /\ \/ /\ Enough(page[p], n)
               /\ page' = [content EXCEPT ![p] = AddRecord(page[p], n)]
               /\ given' = given \cup {<<p, Len(page[p].recs) + 1>>}
               /\ UNCHANGED latched
            \/ /\ ~Enough(page[p], n)     (* "Not enough free space on nsm page." *)
               /\ page' = content
               /\ latched' = latched \cup {p}
               /\ UNCHANGED given
  /\ UNCHANGED <<objectVars, pages, layout, taken, deletes>>

(* The tuple on a data page that is new, and where the index pages end up.  *)
OnNewPage(p, n, content) ==
  /\ page' = [content EXCEPT ![p] = AddRecord(NewSp, n)]
  /\ given' = given \cup {<<p, 1>>}

(* Mutant: the reserved index page is not kept. *)
ReserveForgets(k) ==
  /\ taken' = taken \cup {Granted(j) : j \in 1 .. k + 1}
  /\ UNCHANGED indexPages

(* The page after the k pages allocated before becomes an index page.       *)
ReserveIndex(k) ==
  /\ taken' = taken \cup {Granted(j) : j \in 1 .. k + 1}
  /\ indexPages' = Append(indexPages, Granted(k + 1))

(* insertTuple on a new page behind those the segment has.  When the        *)
(* partition is full the exception leaves the FSM latched, and its mark not *)
(* flagged as a modification: whoever reads the FSM next, which is after    *)
(* the shutdown, may find it or not.                                        *)
InsertNew(n) ==
  /\ phase = "open" /\ Fullish(n) # 1 .. Len(fsmPages) /\ FsmsFree(Chosen(n))
  /\ LET k   == Chosen(n)
         fsm == fsmPages[k]
         content == [page EXCEPT ![fsm] = Marked(fsm, n)]
     IN  /\ Entry(fsm, n) + (k - 1) * FsmEntries >= Len(pages)
         /\ \/ /\ ~CanAlloc(1)
               /\ page' \in {page, content} /\ latched' = latched \cup {fsm}
               /\ UNCHANGED <<pages, taken, indexPages, given>>
            \/ /\ CanAlloc(1) /\ ~CanAlloc(2) /\ Reserve(Len(pages) + 1)
               /\ pages' = Append(pages, Granted(1)) /\ taken' = taken \cup {Granted(1)}
               /\ page' \in {page, content} /\ latched' = latched \cup {fsm}
               /\ UNCHANGED <<indexPages, given>>
            \/ /\ CanAlloc(1)
               /\ pages' = Append(pages, Granted(1))
               /\ OnNewPage(Granted(1), n, content)
               /\ \/ CanAlloc(2) /\ Reserve(Len(pages) + 1) /\ ReserveIndex(1)
                  \/ /\ ~Reserve(Len(pages) + 1)
                     /\ taken' = taken \cup {Granted(1)} /\ UNCHANGED indexPages
               /\ UNCHANGED latched
  /\ UNCHANGED <<phase, first, fsmPages, layout, deletes>>

(* Mutant: the last FSM does not point at the new one. *)
InsertFsmUnlinked(n) ==
  /\ phase = "open" /\ Fullish(n) = 1 .. Len(fsmPages) /\ FsmsFree(Len(fsmPages))
  /\ CanAlloc(2) /\ ~Reserve(Len(pages) + 1)
  /\ fsmPages' = Append(fsmPages, Granted(1))
  /\ pages' = Append(pages, Granted(2))
  /\ taken' = taken \cup {Granted(1), Granted(2)}
  /\ \E f \in Leftovers : OnNewPage(Granted(2), n, [page EXCEPT ![Granted(1)] = NewFsm(f)])
  /\ UNCHANGED <<phase, first, indexPages, layout, latched, deletes>>

(* All FSMs are full: a new one is linked to the last, and a new page is    *)
(* taken, of which the new FSM is told nothing.  When the partition is full *)
(* at first the last FSM stays latched.                                     *)
InsertFsm(n) ==
  /\ phase = "open" /\ Fullish(n) = 1 .. Len(fsmPages) /\ FsmsFree(Len(fsmPages))
  /\ LET last == fsmPages[Len(fsmPages)] IN
     \/ /\ ~CanAlloc(1)
        /\ latched' = latched \cup {last}
        /\ UNCHANGED <<fsmPages, indexPages, pages, page, taken, given>>
     \/ \E f \in Leftovers :
          LET content == [page EXCEPT ![last].next = Granted(1), ![Granted(1)] = NewFsm(f)] IN
          /\ CanAlloc(1)
          /\ fsmPages' = Append(fsmPages, Granted(1))
          /\ \/ /\ ~CanAlloc(2)
                /\ page' = content /\ taken' = taken \cup {Granted(1)}
                /\ UNCHANGED <<pages, indexPages, given>>
             \/ /\ CanAlloc(2) /\ ~CanAlloc(3) /\ Reserve(Len(pages) + 1)
                /\ pages' = Append(pages, Granted(2))
                /\ page' = content /\ taken' = taken \cup {Granted(1), Granted(2)}
                /\ UNCHANGED <<indexPages, given>>
             \/ /\ CanAlloc(2)
                /\ pages' = Append(pages, Granted(2))
                /\ OnNewPage(Granted(2), n, content)
                /\ \/ CanAlloc(3) /\ Reserve(Len(pages) + 1) /\ ReserveIndex(2)
                   \/ /\ ~Reserve(Len(pages) + 1)
                      /\ taken' = taken \cup {Granted(1), Granted(2)} /\ UNCHANGED indexPages
          /\ UNCHANGED latched
  /\ UNCHANGED <<phase, first, layout, deletes>>

(* deleteTuplePhysically searches the pages and marks the record deleted.   *)
(* It releases a page within the loop over its records, so a page without   *)
(* any stays fixed.  Bound: no search comes upon a page that is fixed still *)
(* (it would release it, and clear its modified flag).                      *)
Delete(k, i) ==
  /\ phase = "open" /\ deletes < MaxDeletes
  /\ \A j \in 1 .. k : pages[j] \notin latched
  /\ page[pages[k]].recs[i].valid
  /\ page' = [page EXCEPT ![pages[k]].recs[i].valid = FALSE]
  /\ latched' = latched \cup {pages[j] : j \in {j \in 1 .. k : page[pages[j]].recs = <<>>}}
  /\ deletes' = deletes + 1
  /\ UNCHANGED <<objectVars, pages, layout, taken, given>>

(* Mutant: the last entry of an index page is left unused. *)
StoredEntriesOneLess(j) ==
  LET to == j * (layout.entries - 1) IN
  SubSeq(pages, (j - 1) * (layout.entries - 1) + 1, IF Len(pages) < to THEN Len(pages) ELSE to)

(* What storeSegment writes to the j-th index page.                         *)
StoredEntries(j) ==
  LET to == j * layout.entries IN
  SubSeq(pages, to - layout.entries + 1, IF Len(pages) < to THEN Len(pages) ELSE to)

StoreKind == IF Len(pages) <= Len(indexPages) * layout.entries THEN "fits" ELSE "overfull"

(* storeSegment, with the shutdown that flushes all pages, latched or not,  *)
(* and the end of the process.  Bound: an object is stored once in its      *)
(* life.  storeSegment leaves a 0 behind the index pages, which is a page   *)
(* of the segment to every later call of this object; Catalog has those.    *)
Store ==
  /\ phase = "open" /\ StoreKind \in Stores
  /\ page' = [p \in Pages |->
       IF \E j \in 1 .. Len(indexPages) : indexPages[j] = p
       THEN LET j == CHOOSE j \in 1 .. Len(indexPages) : indexPages[j] = p
            IN  IndexPage(StoredEntries(j), fsmPages[1],
                          IF j = Len(indexPages) THEN 0 ELSE indexPages[j + 1])
       ELSE page[p]]
  /\ phase' = "stored"
  /\ indexPages' = <<>> /\ fsmPages' = <<>> /\ pages' = <<>> /\ latched' = {}
  /\ UNCHANGED <<first, layout, taken, given, deletes>>

(* The pages linked to a page, of either kind: the walk ends, as no more    *)
(* than all pages are linked.                                               *)
Chain(start) ==
  LET walk[k \in 0 .. MaxLimit] ==
        [s \in Seq(Pages) |->
           LET n == page[s[Len(s)]].next
           IN  IF k = 0 \/ n = 0 THEN s ELSE walk[k - 1][Append(s, n)]]
  IN  walk[MaxLimit][<<start>>]

(* The entries of the index pages of a chain, one page after another.       *)
EntriesOf(chain) ==
  LET sum[k \in 0 .. Len(chain)] ==
        IF k = 0 THEN <<>> ELSE sum[k - 1] \o page[chain[k]].entries
  IN  sum[Len(chain)]

(* loadSegment, at the first use of the segment after the boot.             *)
Load ==
  /\ phase = "stored"
  /\ LET chain == Chain(first) IN
     /\ indexPages' = chain
     /\ pages' = EntriesOf(chain)
     /\ fsmPages' = Chain(page[chain[Len(chain)]].fsm)
  /\ phase' = "open"
  /\ UNCHANGED <<first, page, layout, taken, latched, given, deletes>>

Elements(s) == {s[i] : i \in 1 .. Len(s)}

(* erase frees the FSMs, the data pages and the index pages.  It waits for  *)
(* no latch: resetBCB takes none.                                           *)
Erase ==
  /\ phase = "open"
  /\ taken' = taken \ (Elements(fsmPages) \cup Elements(pages) \cup Elements(indexPages))
  /\ phase' = "erased" /\ first' = 0
  /\ indexPages' = <<>> /\ fsmPages' = <<>> /\ pages' = <<>>
  /\ given' = {} /\ latched' = {}
  /\ UNCHANGED <<page, layout, deletes>>

Next ==
  \/ Create \/ Store \/ Load \/ Erase
  \/ \E n \in Sizes : InsertInto(n) \/ InsertNew(n) \/ InsertFsm(n)
  \/ \E k \in 1 .. Len(pages) : \E i \in 1 .. Len(page[pages[k]].recs) : Delete(k, i)

Spec == Init /\ [][Next]_vars

-----------------------------------------------------------------------------
Contents ==
  [kind : {"zeros", "sp"}, free : 0 .. PageSize, end : 0 .. PageSize,
   recs : Seq([off : 0 .. PageSize, size : Sizes, valid : BOOLEAN])]
  \cup [kind : {"fsm"}, status : [Entries -> 0 .. MaxStatus], next : 0 .. MaxLimit]
  \cup [kind : {"index"}, entries : Seq(Pages), fsm : Pages, next : 0 .. MaxLimit]

TypeOK ==
  /\ phase \in {"none", "open", "stored", "erased"} /\ first \in 0 .. MaxLimit
  /\ indexPages \in Seq(Pages) /\ fsmPages \in Seq(Pages) /\ pages \in Seq(Pages)
  /\ page \in [Pages -> Contents]
  /\ layout \in Layouts /\ taken \subseteq 1 .. layout.pages /\ latched \subseteq Pages
  /\ given \subseteq Pages \X Nat /\ deletes \in 0 .. MaxDeletes

(* The pages of the segment: those its object has, or those that are found  *)
(* from its first index page on.                                            *)
IndexNow == IF phase = "open" THEN indexPages ELSE Chain(first)
DataNow == IF phase = "open" THEN pages ELSE EntriesOf(Chain(first))
FsmsNow == IF phase = "open" THEN fsmPages ELSE Chain(page[first].fsm)

(* The pages of a segment are the pages it took from the partition, each    *)
(* for one purpose; none is lost, also not by a full partition or by a      *)
(* shutdown (getFreePage, storeSegment, loadSegment, erase).                *)
PagesAccounted ==
  IF phase \in {"none", "erased"} THEN taken = {}
  ELSE /\ taken = Elements(IndexNow \o DataNow \o FsmsNow)
       /\ Cardinality(taken) = Len(IndexNow) + Len(DataNow) + Len(FsmsNow)

(* The FSMs in memory are the FSMs linked on the pages, so that a boot      *)
(* finds them again (getFreePage, loadSegment).                             *)
FsmsLinked == phase = "open" => fsmPages = Chain(fsmPages[1])

(* The records of a slotted page lie one behind the other, before its       *)
(* slots, and the free space is what lies between (addNewRecord).           *)
RecordsApart ==
  \A p \in Pages : page[p].kind = "sp" =>
    LET q == page[p]  no == Len(q.recs) IN
    /\ q.end + q.free + SlotSize * no = PageSize - SpHeader
    /\ \A i, j \in 1 .. no : i < j => q.recs[i].off + q.recs[i].size <= q.recs[j].off
    /\ no > 0 => q.recs[no].off + q.recs[no].size <= PageSize - SpHeader - SlotSize * no

(* The segment implements TupleStore: its tuples are the valid records on   *)
(* its data pages.                                                          *)
Identifiers == Pages \X (1 .. PageSize)
TuplesNow ==
  IF phase \in {"none", "erased"} THEN {}
  ELSE UNION {{<<p, i>> : i \in {i \in 1 .. Len(page[p].recs) : page[p].recs[i].valid}} :
              p \in Elements(DataNow)}

Kept == INSTANCE TupleStore WITH
          tuples <- [t \in TuplesNow |-> page[t[1]].recs[t[2]].size]

ImplementsStore == Kept!Spec
=============================================================================
