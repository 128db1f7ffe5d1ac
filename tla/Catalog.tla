------------------------------- MODULE Catalog -------------------------------
(***************************************************************************)
(* The catalog: partition manager, segment manager and database instance   *)
(* manager, driven by the commands of the command line.                    *)
(*                                                                         *)
(* The partitions and segments of a database are tuples in two segments of *)
(* its master partition.  The managers keep the tuples in maps by          *)
(* identifier and by name, and the objects of the partitions and segments  *)
(* used so far.  A command changes objects, maps and master segments, one  *)
(* after the other; the master segments get durable at shutdown.           *)
(*                                                                         *)
(* The command line waits for each command, so a command is a step; what   *)
(* the pool, the buffer and the pages of a segment do meanwhile is in the  *)
(* modules ThreadPool, BufferManager and Segment.  A segment is here the   *)
(* set of its rows.  A command that returns UNKNOWN_ERROR ends the process *)
(* after a shutdown, in the same step; one that is refused and changes     *)
(* nothing takes no step.                                                  *)
(*                                                                         *)
(* An object that is stored has a 0 in its list of index pages from then   *)
(* on.  Stored or erased again in the same process, it takes the page at   *)
(* position 0 of its partition for one of its own: that page is the FSIP,  *)
(* which tells the pages in use from the free ones.                        *)
(***************************************************************************)
EXTENDS Integers, FiniteSets, Functions

CONSTANTS
  Masters,     (* paths given to INSTALL and BOOT                             *)
  Files,       (* paths given to CREATE PARTITION                             *)
  Devices,     (* paths of raw devices                                        *)
  PartNames,   (* names the user gives to partitions                          *)
  SegNames,    (* names the user gives to segments                            *)
  Rows,        (* tuples the user inserts                                     *)
  FirstPages,  (* bound: pages a segment may start at                         *)
  Allocs,      (* allocations that take place: those on a sound FSIP, and     *)
               (* those on one that storeSegment or erase has spoilt          *)
  MaxPartID,   (* bound: the partition counter stays below its 2^8            *)
  MaxSegID,    (* bound: the segment counter stays below its 2^16             *)
  None         (* no file, no path                                            *)

MasterPart == "MasterPartition"
PartSeg == "PartitionMasterSegment"
SegSeg == "SegmentMasterSegment"
PartIndex == 1   (* _partIndex *)
SegIndex == 3    (* _segIndex  *)
FileType == 1
RawType == 0
Width8 == 256      (* values of the partition counter *)
Width16 == 65536   (* values of the segment counter   *)

ASSUME CatalogAssumption ==
  /\ MaxPartID \in 1 .. Width8 - 1 /\ MaxSegID \in 0 .. Width16 - 1
  /\ FirstPages \subseteq Nat /\ {PartIndex, SegIndex} \subseteq FirstPages
  /\ Allocs \subseteq {"sound", "torn"}
  /\ MasterPart \notin PartNames /\ {PartSeg, SegSeg} \cap SegNames = {}
  /\ None \notin Masters \cup Files \cup Devices
  /\ Masters \cap Files = {} /\ Devices \cap (Masters \cup Files) = {}

VARIABLES
  mode,         (* not _running, _running, or how the process ended: by an
                   assertion, or by a tuple it did not find                   *)
  master,       (* mstrPart() of the control block                            *)
  partCounter,  (* _counterPartitionID                                        *)
  partObjs,     (* _partitions: the path of each partition object             *)
  partsByID,    (* _partitionsByID                                            *)
  partsByName,  (* _partitionsByName                                          *)
  segCounter,   (* _counterSegmentID                                          *)
  segObjs,      (* _segments: where each object has its segment, and the rows *)
  segsByID,     (* _segmentsByID                                              *)
  segsByName,   (* _segmentsByName                                            *)
  stored,       (* the objects whose lists of index pages end in a 0          *)
  disk,         (* the file at each path: the stored rows of its segments     *)
  torn          (* the paths of the files with a spoilt FSIP                  *)

partVars == <<partCounter, partObjs, partsByID, partsByName>>
segVars == <<segCounter, segObjs, segsByID, segsByName>>
fileVars == <<disk, torn>>
vars == <<mode, master, partVars, segVars, stored, fileVars>>

-----------------------------------------------------------------------------
Paths == Masters \cup Files \cup Devices

Nowhere == [i \in {} |-> 0]
Put(f, k, x) == [i \in DOMAIN f \cup {k} |-> IF i = k THEN x ELSE f[i]]
Without(f, S) == Restrict(f, DOMAIN f \ S)
Merged(f, g) == [i \in DOMAIN f \cup DOMAIN g |-> IF i \in DOMAIN g THEN g[i] ELSE f[i]]

(* What load makes of the tuples it read.                                   *)
ByID(T) == [i \in {t.id : t \in T} |-> CHOOSE t \in T : t.id = i]
ByName(T) == [n \in {t.name : t \in T} |-> (CHOOSE t \in T : t.name = n).id]

(* Mutant: the counter restarts at the largest identifier. *)
NextIDLargest(T) == IF T = {} THEN 1 ELSE CHOOSE i \in {t.id : t \in T} : \A t \in T : t.id <= i

NextID(T) == IF T = {} THEN 1 ELSE 1 + CHOOSE i \in {t.id : t \in T} : \A t \in T : t.id <= i

PartTuple(i, n, p, t) == [id |-> i, name |-> n, path |-> p, type |-> t]
SegTuple(i, n, d, f) == [id |-> i, name |-> n, part |-> d, first |-> f]

(* FileUtil::exists, and whether the manager has a tuple with that path.    *)
Exists(p) == p \in Devices \/ disk[p] # None
Known(p) == \E i \in DOMAIN partsByID : partsByID[i].path = p

-----------------------------------------------------------------------------
(* getPartition makes an object of the tuple; a raw partition was stored    *)
(* with type 0, and its switch knows types 1 and 2 only.                    *)
Openable(i) == i \in DOMAIN partObjs \/ partsByID[i].type \in {1, 2}
PathOf(i) == IF i \in DOMAIN partObjs THEN partObjs[i] ELSE partsByID[i].path
WithPartition(i) == Put(partObjs, i, PathOf(i))

(* getSegment makes an object of the tuple and loads it.                    *)
StoredRows(p, f) == IF disk[p] # None /\ f \in DOMAIN disk[p] THEN disk[p][f] ELSE {}
Opened(i) ==
  IF i \in DOMAIN segObjs THEN segObjs[i]
  ELSE LET t == segsByID[i]  p == PathOf(t.part)
       IN  [path |-> p, first |-> t.first, rows |-> StoredRows(p, t.first)]
WithSegment(i) == Put(segObjs, i, Opened(i))

(* Mutant: the tuple does not get into the segment. *)
WithRowLost(i, r) == WithSegment(i)

(* Mutant: the tuple deleted softly comes back. *)
WithoutRowsNone(i, R) == WithSegment(i)

(* The rows of a segment changed, its object loaded first.                  *)
WithRow(i, r) == Put(segObjs, i, [Opened(i) EXCEPT !.rows = @ \cup {r}])
WithoutRows(i, R) == Put(segObjs, i, [Opened(i) EXCEPT !.rows = @ \ R])

(* Mutant: the objects are not stored. *)
StoredNothing(d, objs) == d

(* storeSegments and flushAll: what the objects hold gets durable.          *)
Stored(d, objs) ==
  LET At(p, f) == {i \in DOMAIN objs : objs[i].path = p /\ objs[i].first = f} IN
  [p \in Paths |->
     IF d[p] = None THEN None
     ELSE [f \in DOMAIN d[p] |->
             IF At(p, f) = {} THEN d[p][f] ELSE objs[CHOOSE i \in At(p, f) : TRUE].rows]]

(* The paths where storing the objects again writes a segment header over   *)
(* the FSIP: it counts no free page then, and manages none.                 *)
Tears == {segObjs[i].path : i \in stored}

(* allocPage of a partition with free pages gives one that is in no         *)
(* segment.  From a spoilt FSIP it takes any: none counted as free, the     *)
(* file is grown from page 1 on, and page 1 is the first to be given.       *)
Gives(p, f) ==
  /\ (IF p \in torn THEN "torn" ELSE "sound") \in Allocs
  /\ p \notin torn => f \notin DOMAIN disk[p]

-----------------------------------------------------------------------------
(* A new process: the managers are constructed.                             *)
Init ==
  /\ mode = "idle" /\ master = None
  /\ partCounter = 1 /\ partObjs = Nowhere /\ partsByID = Nowhere /\ partsByName = Nowhere
  /\ segCounter = 0 /\ segObjs = Nowhere /\ segsByID = Nowhere /\ segsByName = Nowhere
  /\ stored = {} /\ torn = {}
  /\ disk = [p \in Paths |-> IF p \in Devices THEN Nowhere ELSE None]

(* The loop of the command line ends, and with it the process.              *)
EndProcess(d, t) ==
  /\ mode' = "idle" /\ master' = None /\ disk' = d /\ torn' = t /\ stored' = {}
  /\ partCounter' = 1 /\ segCounter' = 0
  /\ partObjs' = Nowhere /\ partsByID' = Nowhere /\ partsByName' = Nowhere
  /\ segObjs' = Nowhere /\ segsByID' = Nowhere /\ segsByName' = Nowhere

NextPartID == /\ partCounter < MaxPartID
              /\ partCounter' = (partCounter + 1) % Width8

-----------------------------------------------------------------------------
(* INSTALL at a path with a file: the identifier is used up all the same.   *)
InstallExists(m) ==
  /\ mode = "idle" /\ disk[m] # None
  /\ master' = m /\ NextPartID
  /\ UNCHANGED <<mode, partObjs, partsByID, partsByName, segVars, stored, fileVars>>

(* INSTALL: the master partition with the two master segments, which hold   *)
(* the tuples of all three.                                                 *)
Install(m) ==
  LET d == partCounter  p == segCounter  s == segCounter + 1
      part == PartTuple(d, MasterPart, m, FileType)
      pSeg == SegTuple(p, PartSeg, d, PartIndex)
      sSeg == SegTuple(s, SegSeg, d, SegIndex)
  IN
  /\ mode = "idle" /\ disk[m] = None /\ segCounter + 2 <= MaxSegID
  /\ mode' = "running" /\ master' = m /\ NextPartID
  /\ partObjs' = Put(partObjs, d, m)
  /\ partsByID' = Put(partsByID, d, part)
  /\ partsByName' = Put(partsByName, MasterPart, d)
  /\ segCounter' = segCounter + 2
  /\ segObjs' = Put(Put(segObjs, p, [path |-> m, first |-> PartIndex, rows |-> {part}]),
                    s, [path |-> m, first |-> SegIndex, rows |-> {pSeg, sSeg}])
  /\ segsByID' = Put(Put(segsByID, p, pSeg), s, sSeg)
  /\ segsByName' = Put(Put(segsByName, PartSeg, p), SegSeg, s)
  /\ stored' = stored \ {p, s}
  /\ disk' = [disk EXCEPT ![m] = [f \in {PartIndex, SegIndex} |-> {}]]
  /\ torn' = torn \ {m}

(* BOOT: the tuples are read from the file, not through the objects; the    *)
(* maps and the objects of an earlier database of the process stay.  Bound: *)
(* the path is that of a master partition.                                  *)
Boot(m) ==
  /\ mode = "idle" /\ disk[m] # None
  /\ LET P == disk[m][PartIndex]  S == disk[m][SegIndex] IN
     /\ partsByID' = Merged(partsByID, ByID(P))
     /\ partsByName' = Merged(partsByName, ByName(P))
     /\ partCounter' = NextID(P) % Width8
     /\ segsByID' = Merged(segsByID, ByID(S))
     /\ segsByName' = Merged(segsByName, ByName(S))
     /\ segCounter' = NextID(S) % Width16
  /\ LET d == partsByName'[MasterPart] IN
     partObjs' = IF d \in DOMAIN partObjs THEN partObjs ELSE Put(partObjs, d, partsByID'[d].path)
  /\ mode' = "running" /\ master' = m
  /\ UNCHANGED <<segObjs, stored, fileVars>>

(* SHUTDOWN: the objects stay.                                              *)
Shutdown ==
  /\ mode = "running" /\ mode' = "idle"
  /\ disk' = Stored(disk, segObjs) /\ torn' = torn \cup Tears
  /\ stored' = DOMAIN segObjs
  /\ UNCHANGED <<master, partVars, segVars>>

Exit ==
  /\ mode \in {"idle", "running"}
  /\ IF mode = "running" THEN EndProcess(Stored(disk, segObjs), torn \cup Tears)
     ELSE EndProcess(disk, torn)

-----------------------------------------------------------------------------
(* The partition manager.                                                   *)
CanCreate(p, n) ==
  /\ mode = "running" /\ ~Known(p) /\ n \notin DOMAIN partsByName
  /\ p \in Files \cup Devices /\ (p \in Files => disk[p] = None)

(* A new file, and a device that was formatted, hold no segment.            *)
Formatted == Nowhere

(* CREATE PARTITION and CREATE RAW PARTITION: the file is created, or the   *)
(* device formatted, before the tuple is inserted.  Bound: on a spoilt FSIP *)
(* the tuple finds room on the pages that the master segment has.           *)
CreatePartition(p, n) ==
  LET d == partCounter
      t == PartTuple(d, n, p, IF p \in Files THEN FileType ELSE RawType)
  IN
  /\ CanCreate(p, n) /\ NextPartID
  /\ partObjs' = Put(partObjs, d, p)
  /\ partsByID' = Put(partsByID, d, t)
  /\ partsByName' = Put(partsByName, n, d)
  /\ segObjs' = WithRow(segsByName[PartSeg], t)
  /\ disk' = [disk EXCEPT ![p] = Formatted] /\ torn' = torn \ {p}
  /\ UNCHANGED <<mode, master, segCounter, segsByID, segsByName, stored>>

(* The tuple finds no page in the master segment: the file stays.           *)
CreatePartitionFails(p, n) ==
  /\ CanCreate(p, n)
  /\ EndProcess(Stored([disk EXCEPT ![p] = Formatted], segObjs), (torn \ {p}) \cup Tears)

(* At the path of a partition the manager knows, that partition is opened.  *)
CreateKnown(i) ==
  /\ mode = "running" /\ i \in DOMAIN partsByID /\ Openable(i)
  /\ partObjs' = WithPartition(i)
  /\ UNCHANGED <<mode, master, partCounter, partsByID, partsByName, segVars, stored, fileVars>>

(* CREATE PARTITION at the path of a file it does not know is an error.     *)
CreateUnknown(p) ==
  /\ mode = "running" /\ Exists(p) /\ ~Known(p)
  /\ EndProcess(Stored(disk, segObjs), torn \cup Tears)

(* Mutant: the iterator is advanced twice. *)
OnPartitionSkips(d) ==
  {i \in DOMAIN segsByID :
     segsByID[i].part = d /\ \A j \in DOMAIN segsByID : segsByID[j].part = d => i <= j}

(* deleteSegments: the segments on a partition.                             *)
OnPartition(d) == {i \in DOMAIN segsByID : segsByID[i].part = d}

(* Mutant: the names stay. *)
DeleteTuplesKeepsNames(S) == segsByID' = Without(segsByID, S) /\ segsByName' = segsByName

(* The end of deleteSegment, for one segment or several.                    *)
DeleteTuples(S) ==
  /\ segsByID' = Without(segsByID, S)
  /\ segsByName' = Without(segsByName, {segsByID[i].name : i \in S})

(* Mutant: the object stays. *)
DeleteObjectLater(d) == WithPartition(d)

(* deletePartition deletes the object, which it made if there was none.     *)
DeleteObject(d) == Without(partObjs, {d})

(* DROP PARTITION: its segments, its file, its object and its tuple, one    *)
(* after the other.  A tuple that is not found ends the process halfway.    *)
(* Bound: the master partition is not dropped.                              *)
DropPartition(n) ==
  LET d == partsByName[n]
      pSeg == segsByName[PartSeg]  sSeg == segsByName[SegSeg]
      S == OnPartition(d)
      dropped == {segsByID[i] : i \in S}
      objs == IF S = {} THEN segObjs ELSE Without(WithoutRows(sSeg, dropped), S)
  IN
  /\ mode = "running" /\ n \in PartNames \cap DOMAIN partsByName /\ Openable(d)
  /\ mode' = IF partsByID[d] \in Opened(pSeg).rows /\ dropped \subseteq Opened(sSeg).rows
             THEN mode ELSE "failed"
  /\ segObjs' = Put(objs, pSeg, [Opened(pSeg) EXCEPT !.rows = @ \ {partsByID[d]}])
  /\ DeleteTuples(S) /\ stored' = stored \ S
  /\ disk' = [disk EXCEPT ![PathOf(d)] = IF PathOf(d) \in Devices THEN Formatted ELSE None]
  /\ torn' = torn \ {PathOf(d)}
  /\ partObjs' = DeleteObject(d)
  /\ partsByID' = Without(partsByID, {d})
  /\ partsByName' = Without(partsByName, {n})
  /\ UNCHANGED <<master, partCounter, segCounter>>

(* Any use of a raw partition after a boot reaches the assertion.           *)
OpenRaw(i) ==
  /\ mode = "running" /\ i \in DOMAIN partsByID /\ ~Openable(i)
  /\ mode' = "aborted"
  /\ UNCHANGED <<master, partVars, segVars, stored, fileVars>>

(* DROP SEGMENT, or DROP PARTITION, of an object stored before: freePage of *)
(* page 0 writes 2^29 bytes behind the page, which may end the process.     *)
EraseAborts(i) ==
  /\ mode = "running" /\ i \in stored /\ segsByID[i].name \in SegNames
  /\ mode' = "aborted"
  /\ UNCHANGED <<master, partVars, segVars, stored, fileVars>>

-----------------------------------------------------------------------------
(* The segment manager.                                                     *)
(* CREATE SEGMENT: the segment takes pages of the partition before its      *)
(* tuple is inserted.                                                       *)
CreateSegment(n, s, f) ==
  LET d == partsByName[n]  i == segCounter  t == SegTuple(i, s, d, f)
      sSeg == segsByName[SegSeg]
      new == [path |-> PathOf(d), first |-> f, rows |-> {}]
  IN
  /\ mode = "running" /\ n \in DOMAIN partsByName /\ Openable(d)
  /\ s \notin DOMAIN segsByName /\ segCounter < MaxSegID
  /\ Gives(PathOf(d), f)
  /\ segCounter' = (segCounter + 1) % Width16
  /\ partObjs' = WithPartition(d)
  /\ segObjs' = Put(WithRow(sSeg, t), i, new)
  /\ segsByID' = Put(segsByID, i, t)
  /\ segsByName' = Put(segsByName, s, i)
  /\ stored' = stored \ {i}
  /\ disk' = [disk EXCEPT ![PathOf(d)] = Put(@, f, {})]
  /\ UNCHANGED <<mode, master, partCounter, partsByID, partsByName, torn>>

(* The partition, or the master segment, is full: the pages it took before  *)
(* stay taken.  Bound: none of the database are lost that way yet.          *)
NoPageLost ==
  \A d \in DOMAIN partsByID :
    DOMAIN disk[partsByID[d].path] = {segsByID[i].first : i \in OnPartition(d)}

CreateSegmentFails(n, f) ==
  LET d == partsByName[n] IN
  /\ mode = "running" /\ NoPageLost
  /\ n \in DOMAIN partsByName /\ Openable(d)
  /\ Gives(PathOf(d), f)
  /\ EndProcess(Stored([disk EXCEPT ![PathOf(d)] = Put(@, f, {})], segObjs), torn \cup Tears)

(* DROP SEGMENT: its pages, its object and its tuple.  An object stored     *)
(* before frees page 0, too: the FSIP loses what was not flushed, and       *)
(* counts a page too many.  Bound: the master segments are not dropped.     *)
DropSegment(s) ==
  LET i == segsByName[s]  t == segsByID[i]  sSeg == segsByName[SegSeg] IN
  /\ mode = "running" /\ s \in SegNames \cap DOMAIN segsByName /\ Openable(t.part)
  /\ partObjs' = WithPartition(t.part)
  /\ disk' = [disk EXCEPT ![Opened(i).path] = Without(@, {Opened(i).first})]
  /\ torn' = torn \cup {segObjs[j].path : j \in stored \cap {i}}
  /\ stored' = stored \ {i}
  /\ mode' = IF t \in Opened(sSeg).rows THEN mode ELSE "failed"
  /\ segObjs' = Without(WithoutRows(sSeg, {t}), {i})
  /\ DeleteTuples({i})
  /\ UNCHANGED <<master, partCounter, partsByID, partsByName, segCounter>>

(* INSERT INTO.  Bounds: not into a master segment, and rows that differ;   *)
(* on a spoilt FSIP, a segment that has data pages, and room there.         *)
InsertTuple(s, r) ==
  LET i == segsByName[s]  d == segsByID[i].part IN
  /\ mode = "running" /\ s \in SegNames \cap DOMAIN segsByName /\ Openable(d)
  /\ r \notin Opened(i).rows
  /\ PathOf(d) \in torn => Opened(i).rows # {}
  /\ partObjs' = WithPartition(d)
  /\ segObjs' = WithRow(i, r)
  /\ UNCHANGED <<mode, master, partCounter, partsByID, partsByName>>
  /\ UNCHANGED <<segCounter, segsByID, segsByName, stored, fileVars>>

(* SHOW SEGMENT, or INSERT INTO a segment whose partition is full.          *)
ShowSegment(s) ==
  LET i == segsByName[s]  d == segsByID[i].part IN
  /\ mode = "running" /\ s \in DOMAIN segsByName /\ Openable(d)
  /\ partObjs' = WithPartition(d)
  /\ segObjs' = WithSegment(i)
  /\ UNCHANGED <<mode, master, partCounter, partsByID, partsByName>>
  /\ UNCHANGED <<segCounter, segsByID, segsByName, stored, fileVars>>

-----------------------------------------------------------------------------
Next ==
  \/ Shutdown \/ Exit
  \/ \E m \in Masters : InstallExists(m) \/ Install(m) \/ Boot(m)
  \/ \E p \in Paths :
       \/ CreateUnknown(p)
       \/ \E n \in PartNames : CreatePartition(p, n) \/ CreatePartitionFails(p, n)
  \/ \E i \in DOMAIN partsByID : CreateKnown(i) \/ OpenRaw(i)
  \/ \E i \in stored : EraseAborts(i)
  \/ \E n \in PartNames : DropPartition(n)
  \/ \E n \in PartNames \cup {MasterPart}, f \in FirstPages :
       \/ CreateSegmentFails(n, f)
       \/ \E s \in SegNames : CreateSegment(n, s, f)
  \/ \E s \in SegNames :
       \/ DropSegment(s)
       \/ \E r \in Rows : InsertTuple(s, r)
  \/ \E s \in SegNames \cup {PartSeg, SegSeg} : ShowSegment(s)

Spec == Init /\ [][Next]_vars

-----------------------------------------------------------------------------
(* The maps, the objects and the tuples keep their types, and nothing is    *)
(* known of a partition or segment but by its own identifier.               *)
TypeOK ==
  /\ mode \in {"idle", "running", "aborted", "failed"}
  /\ master \in Masters \cup {None}
  /\ partCounter \in 0 .. Width8 - 1 /\ segCounter \in 0 .. Width16 - 1
  /\ \A i \in DOMAIN partObjs : partObjs[i] \in Paths
  /\ \A i \in DOMAIN partsByID : partsByID[i].id = i /\ partsByID[i].path \in Paths
  /\ \A n \in DOMAIN partsByName : partsByName[n] \in DOMAIN partsByID
  /\ \A i \in DOMAIN segsByID : segsByID[i].id = i
  /\ \A n \in DOMAIN segsByName : segsByName[n] \in DOMAIN segsByID
  /\ \A i \in DOMAIN segObjs : segObjs[i].path \in Paths /\ segObjs[i].first \in FirstPages
  /\ stored \subseteq DOMAIN segObjs
  /\ \A p \in Paths : disk[p] # None => DOMAIN disk[p] \subseteq FirstPages
  /\ torn \subseteq {p \in Paths : disk[p] # None}

(* While the system runs, the maps are the tuples of the master segments,   *)
(* by identifier and by name, and the counters are beyond all of them: what *)
(* SHOW PARTITIONS reads from the segment is what DROP finds in the map     *)
(* (PartitionManager::load, createPartitionSub, deletePartition, and the    *)
(* same of the SegmentManager).                                             *)
Agrees(byID, byName, T, counter) ==
  /\ {byID[i] : i \in DOMAIN byID} = T
  /\ DOMAIN byName = {t.name : t \in T}
  /\ \A t \in T : byName[t.name] = t.id /\ t.id < counter

CatalogAgrees ==
  mode = "running" =>
    /\ Agrees(partsByID, partsByName, Opened(segsByName[PartSeg]).rows, partCounter)
    /\ Agrees(segsByID, segsByName, Opened(segsByName[SegSeg]).rows, segCounter)

(* No command finds maps and master segments out of step when it deletes a  *)
(* tuple (deleteTuplePhysically), which would end it halfway.               *)
NeverHalfway == mode # "failed"

(* Every segment has a partition, and on its file pages of its own: none is *)
(* left behind by DROP PARTITION, none gets the pages of another.  A spoilt *)
(* FSIP breaks that with the next page it gives.                            *)
SegmentsHavePages ==
  mode = "running" =>
    \A i \in DOMAIN segsByID :
      LET t == segsByID[i] IN
      /\ t.part \in DOMAIN partsByID
      /\ disk[partsByID[t.part].path] # None
      /\ t.first \in DOMAIN disk[partsByID[t.part].path]
      /\ \A j \in DOMAIN segsByID \ {i} : segsByID[j].part = t.part => segsByID[j].first # t.first

(* An object is that of the tuple with its identifier, also when the        *)
(* identifier was used before: a command never works on the file or the     *)
(* pages of what was dropped.                                               *)
ObjectsCurrent ==
  mode = "running" =>
    /\ \A i \in DOMAIN partObjs : i \in DOMAIN partsByID /\ partObjs[i] = partsByID[i].path
    /\ \A i \in DOMAIN segObjs :
         /\ i \in DOMAIN segsByID
         /\ segObjs[i].first = segsByID[i].first
         /\ segObjs[i].path = partsByID[segsByID[i].part].path

(* BOOT "Boots the database system using the master partition at a given    *)
(* path", also after another one: the partition the running system takes    *)
(* for its master partition is the one at that path.                        *)
MasterInUse == mode = "running" => PathOf(partsByName[MasterPart]) = master

-----------------------------------------------------------------------------
(* What a user of the database at m sees: from the managers while it runs,  *)
(* else what is stored.                                                     *)
Runs(m) == mode # "idle" /\ master = m
StoredIn(m, f) == IF disk[m] = None THEN {} ELSE disk[m][f]

ShownParts(m) ==
  IF Runs(m)
  THEN [n \in DOMAIN partsByName |-> partsByID[partsByName[n]].path]
  ELSE LET P == StoredIn(m, PartIndex) IN
       [n \in {t.name : t \in P} |-> (CHOOSE t \in P : t.name = n).path]

ShownSegs(m) ==
  IF Runs(m)
  THEN [s \in DOMAIN segsByName \ {PartSeg, SegSeg} |->
          LET i == segsByName[s] IN
          [part |-> partsByID[segsByID[i].part].name, rows |-> Opened(i).rows]]
  ELSE LET P == ByID(StoredIn(m, PartIndex))  S == StoredIn(m, SegIndex) IN
       [s \in {t.name : t \in S} \ {PartSeg, SegSeg} |->
          LET t == CHOOSE u \in S : u.name = s  d == P[t.part] IN
          [part |-> d.name, rows |-> StoredRows(d.path, t.first)]]

(* A database keeps what the user created and inserted, and nothing else,   *)
(* through shutdowns, boots and the end of the process on an error.         *)
DB == INSTANCE Database WITH
        parts <- [m \in Masters |-> ShownParts(m)],
        segs <- [m \in Masters |-> ShownSegs(m)]
ImplementsDatabase == DB!Spec
=============================================================================
