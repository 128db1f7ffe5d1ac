# A verification project for the database system of MasterTeamProjekt

The repository is a small page-based database system in C++17. A user starts
it, installs or boots a database, creates partitions (files or raw devices) and
segments on them, inserts tuples and reads them back. This directory models its
core in TLA+: TLC checks the models on small instances, TLAPS proves theorems
about them for every value of their constants.

All paths below are relative to the repository's `src/` directory of C++ code,
as in `buffer/buf_mngr.cc`; `PROJECT.json` has, for every definition that
models code, the file and the lines it stands for.

Contents: [1 The system](#1-the-system) - [2 The modules](#2-the-modules) -
[3 What the runs check](#3-what-the-runs-check) -
[4 What is proved](#4-what-is-proved) -
[5 Disagreements found](#5-disagreements-between-the-code-and-what-it-says) -
[6 Not modelled](#6-what-is-not-modelled-and-why) - [7 Plan](#7-plan) -
[8 Running it](#8-running-it)

## 1 The system

```
   user -- command line (cli/parser) -- thread pool (threading)
                 |  one job per command, waits for its future
                 v
   database instance manager (main): INSTALL, BOOT, SHUTDOWN
                 |
   segment manager  <-->  partition manager         the catalog
                 |                |
          segments (FSM, slotted pages)  -->  partitions (FSIPs)
                 |                                  |
          buffer manager: hash table, BCBs, frames, latches -- file or device
```

| part | state | operations | what makes it correct |
| --- | --- | --- | --- |
| buffer manager (`buffer/buf_mngr`, `buf_hash_table`) | hash chains of control blocks (BCBs), a list of free BCBs, a list of free frames, the frames | `fix`, `emptyfix`, `unfix`, `flush`, `flushAll`, `resetBCB` | a page is in the pool at most once; a fixed page is not replaced; `fix` returns the page asked for with what was last written; nothing modified is dropped; a call returns |
| page handles (`segment/segment_base`, `segment_fsm_sp.hh`) | per page of a segment a pointer to the BCB it was handed | `getPage`, `releasePage`, `insertTuple`, `scan`, `getTuples`, `deleteTuplePhysically` | the pointer is to the BCB of that page; rows shown are the rows inserted; what a command latches it releases |
| page latch (`buffer/buf_cntrl_block`) | a shared mutex, a recorded mode, a fix count, a modified flag | `lock`, `unlock`, `upgradeLock` | one exclusive or many shared owners, and mode and fix count say which |
| partitions and free space inventory pages (`partition/partition_base`, `partition_file`, `partition_raw`, `interpreter/interpreter_fsip`) | a file or device of pages, in each run of pages an FSIP with a bit per page | create and format, `allocPage` with growth, `freePage`, open, removal of a raw partition | a page has one owner; the bits are exact; growing loses no page |
| slotted page (`interpreter/interpreter_sp`) | records from the front, slots from the end, the free bytes | `addNewRecord`, `deleteRecordSoft` | records and slots do not overlap |
| segments (`segment/segment_base`, `segment_fsm`, `segment_fsm_sp`, `interpreter/interpreter_fsm`) | the list of data pages, a chain of free space management pages (FSMs) with a status from 0 to 15 for each, a chain of index pages | create, insert, delete a tuple, store, load, erase | tuples stay what they are under the identifier they were given; every allocated page is in exactly one list, also when the partition gets full halfway; shutdown and boot find all pages |
| catalog (`partition/partition_manager`, `segment/segment_manager`) | objects used so far, maps by identifier and by name, counters; the same as tuples in two master segments | create, drop, look up, load, store | objects, maps and master segments agree; what the user created is found, also in the next process |
| instance manager (`main/db_instance_manager`) | running flag, the master partition | `install`, `boot`, `shutdown` | commands work on the database that was booted |
| thread pool (`threading/pool`, `queue`) | a queue with one mutex and one condition variable, the workers, `_done` | construct, `submit`, worker loop, destroy | no wakeup is lost; each job is run once, in order, and answered; destruction ends |
| command line (`cli/parser`) | the command read, its arguments, its future | read a line, test it, submit the command, wait, act on its result, end | commands take effect one at a time and as they were typed; when it ends the database is shut down; after EXIT the process ends |

How they interact. The command line turns a command into a job, submits it to
the pool and blocks on its future, so the managers see one command at a time;
the buffer manager and its latches are nevertheless written for several
threads, and are modelled with several. Calls go downwards only. There are no
callbacks, but there is much shared state: the managers keep pointers to
segment and partition objects across commands and across a shutdown, a segment
keeps pointers to BCBs, and a BCB is reused for other pages.

What is hard. (a) Interleavings in the buffer manager: it gives the latch of a
bucket up before it takes that of a BCB, reads chain heads before it has the
bucket, and takes a BCB before it has a frame for it. (b) Waiting: the pool's
condition variable and its destruction, and the endless search for a frame.
(c) Several steps, one of which fails: a segment that needs up to three pages
in a partition that is full, a catalog entry whose file exists already. (d)
Arithmetic at boundaries: bit masks in an FSIP, page numbers across FSIPs,
statuses in fifteenths of a page, alignment and slots. (e) State that survives:
objects and maps after a shutdown, identifiers that are given again. (f)
Shutdown and boot, which is the only persistence the system promises; there is
no log, and no recovery from a crash is attempted, so none is modelled.
`PROJECT.json` lists these hazards line by line, with the properties that
guard against each.

## 2 The modules

| module | what it is | extended by |
| --- | --- | --- |
| `BufferManager` | buffer manager and page latches, at the grain of critical sections | `MCBuffer`, `BufferManagerProofs` (lists, types, latches), `BufferPoolProofs` (structure, contents) |
| `PageHandles` | a segment's pages on top of the buffer manager: handles, and the commands that insert, show and delete rows, over several lives of the process | `MCHandles`, `PageHandlesProofs` |
| `RowStore` | what a segment promises those commands: its rows | instantiated by `PageHandles` |
| `PageStore` | what the buffer manager promises: pages with a current and a durable content | instantiated by `BufferManager` |
| `ThreadPool` | thread pool, queue and futures | `MCPool`, `ThreadPoolProofs` |
| `JobService` | what the pool promises: a FIFO queue of jobs, each answered once | instantiated by `ThreadPool` |
| `CommandLine` | the command line as the client of the thread pool, with its commands, failures and end | `MCCommandLine`, `CommandLineProofs` |
| `CommandSession` | what the command line promises its user: a sequential session of commands | instantiated by `CommandLine` |
| `Partition` | a partition, a file or a raw device, and its FSIPs | `MCPartition`, `PartitionProofs` |
| `Segment` | one segment of slotted pages, its FSMs and index pages | `MCSegment`, `SegmentProofs` |
| `TupleStore` | what a segment promises: tuples under identifiers | instantiated by `Segment` |
| `Catalog` | partition, segment and instance manager driven by the commands | `MCCatalog`, `CatalogProofs` |
| `Database` | what the whole promises its user: named partitions, named segments, tuples | instantiated by `Catalog` |

The detailed modules are layered by what they take for granted. `Segment` takes
from `PageStore` that a page shows what was last written and from `Partition`
that an allocated page has no other owner; `Catalog` takes from `TupleStore`
that a segment is a set of tuples; both and `PageHandles` take from
`CommandSession` that commands run one at a time, because the command line
waits (`OneCommand`, proved). Two modules are compositions: `PageHandles`
EXTENDS `BufferManager` and steps it (`Manage`, `Choose`) while the command
that called it waits; `CommandLine` EXTENDS `ThreadPool` and replaces its
anonymous clients and jobs by the thread of `main` and its commands.

### BufferManager

State, as in the code: `bucket` (heads of the chains), `next` (the chain
pointer of each BCB), `bucketX`, `bucketS` (owners of the bucket latches),
`freeBCBs`, `freeFrames`; per BCB `pid`, `frameIndex`, `modified`, `mode`,
`fixCount`, and the owners `latchX`, `latchS` of its mutex; `frame` (contents
of the frames) and `disk`. A page is the number the hash function computes
from its identifier, its content a version. Per client, `pc` says where its
call is and `call`, `newBCB`, `ptr`, `victim`, `held` are its local variables
and the pages it keeps fixed.

A step is one critical section of the code, or one access to shared state made
outside of any; a `lock` that would block is a step that is not enabled.

| code | actions |
| --- | --- |
| `fix` | `CallFix`, `FixLookup` (bucket latch), `FixWalk` (chain, gives the bucket up), `Latch` (latch of the BCB, no second look at its page) |
| `locatePage`, the lists of free BCBs and frames | `PopCheck`, `Pop`, `Claim`, `Link`, `PopFrame`, `Place` |
| `getFrame` | `PickBucket` (a random one), `TryBucket`; `TryHead`, `TryNext` (the fix count of one BCB after the other), `TryVictim` (its `try_lock`, a step later), `Evict` |
| `readPageIn` | `ReadLatch`, `Read` |
| `emptyfix` | `CallEmptyFix`, then as `fix`, `EmptyLatch` |
| `unfix`, `flush`, `upgradeLock` | `Unfix`, `FlushPage`, `UpgradeRelease`, `UpgradeAcquire` |
| `flushAll` | `CallFlushAll`, `FlushNext`, `FlushDone` |
| `resetBCB` | `CallReset`, `ResetHead`, `ResetWalk`, `ResetFree` |
| assertions, `noexcept` functions that throw | `BadFrame`, `AssertFails`, and the label `abort`, after which nothing runs |
| the end of the process, at any time, and a new one | `Restart` |
| the caller writes its frame | `Write` |

Bounds and assumptions of the model. `MaxHeld` pages are kept fixed at a time
by one client. `MayAsk` is what the callers keep: a client neither fixes nor
deletes a page it keeps fixed. `PagesOf` says which pages each client asks for.
A latch and the mode and fix count recorded with it change in one step; the code
writes the two fields after it has the mutex, which for readers is shared
(`buffer/buf_cntrl_block.hh:94`), so that two readers of a page at once may lose
one another's count (section 5).
A restart may come at any moment. One constant stands apart from
the code: `NoBCBs`, the number of BCBs, which the code computes as 1.2 times
the number of frames, rounded down, so that a pool of fewer than five frames
has no spare BCB and the first replacement ends the process (a real pool has
thousands of frames). The small instances therefore get their spare BCBs from
the constant.

### ThreadPool

`queue`, `valid`, `done` are the fields of the queue and of the pool, `pool`
says how far construction and destruction are, `at` where each worker is,
`task` its local `pTask`, `ready` the jobs whose future is ready, `sent` and
`held` what each client has submitted and which futures it still holds.
Construction starts the workers one by one (`Spawn`), ends (`Built`) or fails
(`SpawnFails`, when a thread cannot be started: the destruction then meets
workers in every state). `TestDone`, `Sleep`, `Refused`, `Pop`, `Execute` are
the worker's loop with `waitPop`: the wait tests its condition, then sleeps,
and looks again when woken; `SpuriousWakeup` wakes it for nothing. `Push` adds
a job and notifies one sleeper, whichever, `Invalidate` notifies all, `Join`
waits until every worker has ended. `Submit` and `Get` are a client's.

### CommandLine

`cli` is where the thread of `main` is (reading, submitting, waiting, leaving),
`script` the commands typed so far, `running` whether the database runs,
`result` what each command came to. `ReadCommand` is a line that passes the
tests of `runcli` before the submission (`Passes`: what the state of the
database and the number of arguments allow), `EndOfInput` the end of the
input. The first submission constructs the pool (`Construct`,
`ConstructFailed`), `SubmitCommand` is `Submit` of `ThreadPool`, `RunCommand`
its `Execute` with what the command does (`Outcomes`: the statuses of
`CommandStatus`, or an exception that the future carries). `GetAnswer` acts on
the status: the next command, or the shutdown behind the loop (`Leave`), or the
end by the exception. `ExitProcess` is the end of `main`, after which the pool
is destroyed by the steps of `ThreadPool`. `Failures` names what may fail: the
arguments of an insertion, which the command reads unchecked, and the storing
of the segments at a shutdown.

### PageHandles

`pages` and `handle` are the two parts of `_pages`: the logical page and the
BCB that was handed out for it, or none. `used` counts the slots the free
space management has given. `cmd`, `step`, `at`, `prev`, `tids`, `out` are the
command that runs and its local variables. A page's content is the sequence of
its slots, a slot a row or `Gone`.

| code | actions |
| --- | --- |
| `getPage`, shared or exclusive | `GetFix` (no handle: `fix`), `GetKeep`, `GetRelatch` (a handle without a latch: latched again without a look at its page), `GetUpgrade` |
| `releasePage` | `Release`, part of the steps that call it |
| `insertTuple` | `InsertAsksFSM`, `InsertChooses` or `InsertRefused` (a full raw partition), `InsertTakes`, `InsertWrites` |
| `scan`, `getTuples` | `ScanPage`, `Scanned`; `FetchTuple`, `Fetched` |
| `deleteTuplePhysically` | `SearchPage`, `EraseRecord` |
| another segment's command, `shutdown` and `boot` | `TouchAsks`, `TouchDone`; `ShutdownAsks`, `ShutdownDone` |

Every call of the buffer manager is made of the steps of `BufferManager`, so
replacement happens between any two of them. Bounds: `Capacity` slots a page,
`DataPages` the pages handed out, `Menu` the commands given in each life of the
process, `Births` the lives that begin without a segment, `Extent` the pages
the partition has in each life. The menus exist because not everything holds
together: an insertion followed in the same life by a search, with a
replacement between, goes wrong (section 5).

### Partition

`growth`, `size` are `_growthIndicator` and `_sizeInPages`; `fileSize` is how
long the file really is, which differs from `size` when pages behind its end
have been written; `fsip` are the FSIPs on disk with their header and the set
of the bits that are 1; `owners` counts how often a page is handed out and not
given back; `damaged` are the pages that a release took for an FSIP and wrote
to. `Alloc` is `allocPage` on an FSIP with room, `AllocGrowing` the whole of
it when all are full: resize, tell the last FSIP (`Grown`, with the bit masks
of `grow` in `GrowBits`), make a new one for the rest, try again. `Free` is
`freePage`, `Reopen` an open that reads the size of the file, `WriteBehindEnd`
a page of the buffer manager written where the file has no page yet. A raw
partition is one with a `growth` of 0, as large as its device (`InitRaw`): a
full one refuses an allocation (`Refused`), and `Remove` formats the device
again. Devices that end with the place of an FSIP are left out: the loop of
`format` ends before that page, which then holds whatever the device held. A
call is one step since only the one running command allocates pages. `ReleaseKind`
names the cases of a release, so that a run can leave out those that are known
to go wrong: `later`, a page that the first FSIP does not manage, which no release
gets right (section 5), and `full`, a page other than its first while that FSIP
is full, which `partition_full` shows.

### Segment

`first`, `indexPages`, `fsmPages`, `pages` are the object; `page` the contents
of the segment's pages, as they are seen through the buffer manager; `taken`
the pages allocated; `latched` the pages whose latch was left behind. A slotted
page has `recs` (offset, size and a flag of deletion), `end` and `free`; an FSM
has `status` (an entry from 0 to 15 per page) and `next`; an index page has its
entries and the next of its chain. The sizes of headers and slots, the
alignment and the computation of statuses are those of the code, with pages of
4096 bytes.

`InsertInto`, `InsertNew` and `InsertFsm` are the three ways of `insertTuple`:
on a page with room, on a new page, and on a new page behind a new FSM. Each is
the whole call, with an index page reserved when the code does so, and with the
exception of each allocation: what was changed before it stays changed, and the
pages that were latched stay latched. `InsertInto` also fails when the page it
was told has too little room. A new FSM keeps what was in the frame in its
first word (`Leftovers`). `Delete` is the search of `deleteTuplePhysically`;
`Store` and `Load` are shutdown and boot, `Erase` the deletion of the segment.

A call that would fix a page that was left latched takes no step, as the code
would wait there for ever; `Store` and `Erase` do not wait. An FSM entry that
was raised by a failed call is not flagged as modified, so that the next
process may or may not see it: both are modelled.

Bounds: `Layouts` gives the number of pages the partition grants the segment
and the entries of an index page; `MaxDeletes`; a deletion that would come upon
a latched data page and a creation that fails are left out; tuples larger than
a page are excluded by `SegmentAssumption`. An object is stored once in its
life, and nothing is asked of it afterwards: `Store` is a shutdown with the end
of the process. What becomes of an object that is stored or erased a second
time is in `Catalog`.

### Catalog

`mode` (idle, running, aborted, failed), `master` (the path of the database),
and for each manager its counter, objects, and maps by identifier and by name.
`disk` has for each path the segments stored there, by first page, with their
rows; the rows of the two master segments are the tuples of the catalog. A
segment object has its path, its first page and the rows it holds in memory,
which `Shutdown` stores.

An object is changed by being stored: `storeSegment` appends a 0 to its list of
index pages and leaves it there (`segment/segment_fsm.cc:256`), and objects live
on after SHUTDOWN. `stored` are the objects of that kind. Storing one again
writes over page 0 of its partition, the FSIP (`Tears`); erasing one frees page
0, which changes memory far behind the page that is read: the process may end
(`EraseAborts`) or go on with a spoilt FSIP (`DropSegment`). `torn` are the paths
with such an FSIP. The rows of the segment are stored all the same, and read back
by a boot: what goes wrong is the next allocation. `Gives` is what `allocPage`
may return: a page of no segment, or, from a spoilt FSIP, any page.

A command is one step: `Install` (refused by `InstallExists` when the file is
there), `Boot`, `Shutdown`, `Exit`, `CreatePartition`, `CreatePartitionFails`,
`CreateKnown`, `CreateUnknown`, `DropPartition`, `CreateSegment`,
`CreateSegmentFails`, `DropSegment`, `InsertTuple`, `ShowSegment`. A command
that returns `UNKNOWN_ERROR` makes the command line shut the database down and
end; that is part of its step. `OpenRaw` is the assertion that ends the process
when a raw partition is first used after a boot: it is stored with the type 0
and looked up with 1 or 2. What a fresh process does after such an abort is not
modelled, since the system makes no promise for it.

Bounds: `MaxPartID` keeps the counter of partitions below the wrap of its
eight bits, `MaxSegID` that of segments; `FirstPages` are the pages a segment
may start at; inserted rows are distinct; the user does not drop the master
partition or its segments and does not insert into the latter (nothing in the
code prevents it); boot is given a file that is a master partition; a creation
of a segment that fails is modelled only while no page of the database is lost
(`NoPageLost`), because every such failure loses one. On a partition whose FSIP is
spoilt only the first page of a new segment is followed: a tuple of the catalog
finds room on the pages that the master segment has, and a row is inserted into
a segment that has data pages. `Allocs` says from which FSIPs pages are taken in
a run, from sound ones only or from spoilt ones as well.

## 3 What the runs check

Each run is a `.cfg` of an `MC` module: the `.cfg` gives small sets of model
values or numbers, the module defines what cannot be written there. Deadlock is checked in the runs of the buffer manager, the pool and the
partition. Segments and the catalog may really stop: a segment whose pages
are latched, a process that was aborted or has nothing left to create.

| run | configuration | shows |
| --- | --- | --- |
| `own` | `MCBuffer_own.cfg` | two clients with pages of their own in one bucket: chains, free lists and frames stay consistent when they fix, create and delete in any interleaving (`OneBCBPerPage`, `FramesOwnedOnce`, `BCBsConserved`), nothing aborts (`NoAbort`), and `PageStore` is implemented |
| `shared` | `MCBuffer_shared.cfg` | two clients make every call on the same pages, with one frame: every variable is of its type (`TypeOK`), the latches exclude and who was handed a page owns its latch (`LatchInv`), and what is fixed is not taken away (`HandleStable`) |
| `handles` | `MCHandles.cfg` | a segment over a pool of two frames, through four lives of the process or in one life of every command: `getPage` returns the page asked for (`GetPageReturnsPage`), only named pages stay latched between commands (`LatchesLeft`), a frame that is not marked as modified equals the disk (`CleanIsOnDisk`), `flushAll` leaves nothing behind (`FlushAllPersists`), rows are kept and shown through replacement, flush and restart (`ImplementsRows`), commands are answered (`CommandsAnswered`) |
| `handles_stale` | `MCHandles_stale.cfg` | violation: an insertion's handle, kept too long, makes `getPage` return another page |
| `pool` | `MCPool.cfg` | `NoLostWakeup`, `JobsOnce`, `ImplementsService`; every future gets ready (`Answered`); a destruction once begun ends (`DestroyReturns`) |
| `command_line` | `MCCommandLine.cfg` | one command is under way at most (`OneCommand`), `runcli` returns with the database shut down and no command left (`EndsShutDown`), the whole is a sequential session (`ImplementsSession`), EXIT ends the process (`ExitEnds`) |
| `partition` | `MCPartition.cfg` | one owner per page (`HandedOutOnce`), exact FSIPs (`FsipExact`), no page outside of every FSIP (`PagesManaged`), on files and on devices that get full or are removed; growth cuts nothing off (`GrowthKeepsPages`) |
| `partition_full` | `MCPartition_full.cfg` | violation: a page is handed out twice after a release into a full FSIP |
| `segment` | `MCSegment.cfg` | every page taken is in one list (`PagesAccounted`), the FSM chain is the list of FSMs (`FsmsLinked`), records stay apart (`RecordsApart`), and tuples are kept (`ImplementsStore`) |
| `catalog` | `MCCatalog.cfg` | objects, maps and master segments agree (`CatalogAgrees`, `ObjectsCurrent`), no command finds them out of step (`NeverHalfway`), segments have their own pages (`SegmentsHavePages`), and the user finds what was created (`ImplementsDatabase`), through any number of shutdowns and boots in a process, until a page is taken from an FSIP spoilt by them |
| `catalog_boot` | `MCCatalog_boot.cfg` | violation: a second boot in one process runs on the first database |
| `catalog_reboot` | `MCCatalog_reboot.cfg` | violation: after the second shutdown of a process a new segment gets pages of another |

### The bounds, and why they are enough

**Buffer.** `own` has two clients, the pages 0 and 2 of one bucket, and two
frames: whatever goes wrong between the two clients does so in that chain and
in the free lists. Two contents per page tell a stale frame from a fresh one.
Four BCBs give each client a spare. `shared` has one frame, so that every call
of one client must evict what the other has just used. It is checked up to a
permutation of the clients, which no definition tells apart. `MaxHeld` is 1 in
both: a client that waits for a second page while it keeps one can deadlock
with another, which the callers must avoid and the code does not promise to
prevent. What the code allows is split over the runs, because all of it
together does not hold: two clients on shared pages may be handed the wrong
page or load a page twice (section 5). `shared` checks what survives
nevertheless, and that is also what is proved for every instance; `own` checks
contents and lists with two threads where no page is replaced, and `handles`
checks contents with replacement for one thread, which is what the command
line gives the buffer manager.

**Handles.** Two frames for a page of free space management, two data pages of
two slots and a page of another segment: every command replaces pages, two
pages share a bucket, and chains have two BCBs. Three rows need both data
pages. Four lives: one fills the segment, the second adds to pages that it
finds on disk, the third shows and deletes and stores, the fourth shows what
is left. The life of every command has one data page, so that page and free
space management fit the two frames; it meets insertions after deletions, an
empty page that a search leaves latched, and the full partition.
`handles_stale` is the smallest case of what the lives keep apart; the lives of `handles` are
`Steady` in the sense of section 4.

**Pool.** Three workers and two clients with two jobs each, both ahead of
their futures: the queue gets longer than one, several workers sleep and are
woken in an order other than that of the jobs, and the pool is destroyed, or
its construction fails, with workers in every place. The command line itself
is the case of one client with one job at a time: `command_line` has two
workers, so that a job is taken by either, and up to four commands, enough for
an install, a boot, a command and an EXIT; each of them may fail in the ways of
the code, and the construction of the pool may fail as well.

**Partition.** 16 pages per FSIP and words of 8 bits stand for 32 bits and the
thousands of a real FSIP: there are two words, so that the search of
`getNextFreePage` starts in the middle, and two bytes, so that `grow` meets
each case of its masks; every growth from 8 (the least the code allows) to 16
is checked, so every remainder modulo 8 occurs. 90 pages are more than five
FSIPs; the drift between the file and what the FSIPs manage (section 5)
appears within that. The devices, of 10, 17 and 38 pages, have less than one
FSIP manages, one full FSIP, and a third FSIP with few pages. `MaxReleases` is
2, enough for a release behind and in front of `_nextFreePage`. Whether 90
pages hide a drift that gets larger the longer the partition grows is a
question no bound answers; the theorems of `PartitionProofs` do.

**Segment.** Two sizes of tuple, 1200 and 2900 bytes, one of which fits a page
three times and the other once. Three entries per FSM: the fourth data page
needs a second FSM. Partitions of 6, 7 and 9 pages with one entry per index
page, and of 7 with three, are full at each of the three allocations of an
insertion. One deletion before or after a shutdown.

**Catalog.** One database, a file, a device, two names of partitions, two of
segments, one row; the counter of partitions goes up to 3, so that beside the
master partition there is one of the user at a time, whose identifier is given a
second time after a drop and a boot (the theorems hold up to the wrap). `Allocs` is `{"sound"}`: every
command is taken through every history of shutdowns and boots, also those that
spoil an FSIP, but no segment is created on one; `catalog_reboot` shows that
nothing would hold afterwards. Names are symmetric: no command
treats one unlike another. One database is enough for everything but the change
from one to another, which `catalog_boot` shows to go wrong.

### Fairness

`FairHSpec` of `PageHandles` is weak fairness of the steps of the buffer
manager (`Manage`) and of the command that runs (`Command`), and strong
fairness of the choice of each bucket (`Choose`). The first two are what the
scheduler of an operating system gives a thread that is not blocked; the third
stands for the random generator of `getFrame`, which picks every bucket again
and again. No fairness is assumed of the user's next command. Liveness is
checked for the one thread commands run in; with several the code's mutexes
promise no fairness, and none is assumed. `CommandsAnswered` excuses a command
that waits for a page which an earlier command left latched behind it, and one
that finds all frames kept fixed. The frames may be kept by such pages or by
the running command itself: a scan keeps every page of the segment latched, so in
a pool smaller than the segment it never returns. Both happen (section 5).

`FairCSpec` of `CommandLine` is weak fairness of the pool's threads and of the
thread of `main` (`CliGoesOn`), except for reading: the user need not type.

`FairSpec` of `ThreadPool` is weak fairness of each worker's steps and of the
destructor's (`Invalidate`, `Join`), which are one thread each. Clients need
not submit or collect, the pool need not be destroyed, and wakeups need not
be spurious.

## 4 What is proved

The theorems hold for every value of the constants that the module's
assumption allows: `BufferAssumption` (pages are numbers, at least one frame
and one BCB), `PoolAssumption` (finitely many workers), `PartitionAssumption`
(FSIPs of whole bytes, a growth of at least 8 pages, which the constructor of a
partition sees to, and devices that do not end with the place of an FSIP) and `SegmentAssumption` (every tuple fits an empty page;
what a new FSM keeps is confined to the first word). `CatalogAssumption` says
that the identifiers stay below the widths of their counters, that the master
partition and its segments have names no user gives, and that paths of masters,
files and devices differ. TLC evaluates all of them in every run. The theorems
of the catalog have three hypotheses more, which they state: `OneMaster`, one
master partition; `NoneApart`, that the value for "no file" is no file; and
`SoundAllocs`, that no page is taken from an FSIP that a second store, or the
erasing of a stored object, has spoilt. A process that is shut down once, or
that creates nothing after it was shut down twice, is of that kind. Without
`OneMaster` and `SoundAllocs` the theorems are false: `catalog_boot` and
`catalog_reboot` are the counterexamples.

The theorems about the lists and the contents of the buffer manager have
hypotheses, too. `Apart`:
there is one client, or each asks for pages of its own and the pool has a frame
for all of them. `Spare`: there are more BCBs than frames. `NoFlush`: there is
one client, or none calls `flushAll`. The first half of `Apart` is what the
program does: commands run one at a time (`OneCommand`, proved), in as many
pages as one likes. The second is what several threads may do and be safe; the
run `own` is of this kind, and `handles` of the first. `Spare` holds of every
pool of five frames or more. None can be dropped: two clients that miss the
same page load it twice; a client that evicts may take a BCB that another has
found but not locked yet; a pool without a spare BCB aborts at its first
replacement; and `flushAll`, which takes no latches, may write a page while
another client deletes it (section 5).

The theorems about handles assume `Spare` again, and two things of their own.
`Contents` says only what a page's content is, a sequence of slots that is empty
at first. `Steady` excludes what `handles_stale` shows: where a life of the
process both inserts into the segment and reads it, the pages that it can come
to fix have a frame each. `HandlesAssumption` says that there is one client,
which may ask for any page, and that the pages handed out are distinct and none of
them belongs to the free space management or to another segment.

| theorem | module | says |
| --- | --- | --- |
| `TypeCorrect` | `BufferManagerProofs` | `TypeOK`, for any clients, pages, frames and BCBs |
| `LatchesOwned`, `LatchesExclude`, `HeldPagesLatched` | `BufferManagerProofs` | `LatchInv`, `LatchExclusion`, `HandlesLatched` |
| `HeldPagesStable` | `BufferManagerProofs` | `HandleStable`: a fixed page keeps its BCB and its frame |
| `PagesPooledOnce`, `BCBsKept`, `FramesOwned`, `NeverAborts` | `BufferPoolProofs` | `OneBCBPerPage`, `BCBsConserved`, `FramesOwnedOnce`, `NoAbort`, if clients are `Apart` and there is a `Spare` BCB |
| `CleanOnDisk`, `FlushedAll` | `BufferPoolProofs` | `CleanIsOnDisk`, `FlushAllPersists`, if besides `flushAll` is called by a lone client (`NoFlush`) |
| `StoreImplemented` | `BufferPoolProofs` | the buffer manager refines `PageStore`, under the same hypotheses |
| `HandlesPoint`, `LatchesReleased` | `PageHandlesProofs` | `GetPageReturnsPage`, `LatchesLeft`, if a life of the process that inserts and reads has a frame for each page it can come to fix (`Steady`) |
| `PoolTypeCorrect`, `WakeupsKept`, `JobsKeptOnce` | `ThreadPoolProofs` | `TypeOK`, `NoLostWakeup`, `JobsOnce` |
| `PoolImplementsService` | `ThreadPoolProofs` | the pool refines `JobService` |
| `OneCommandAtATime`, `ReturnsShutDown`, `CommandLineTypeCorrect` | `CommandLineProofs` | `OneCommand`, `EndsShutDown`, `CTypeOK` |
| `GateStays` | `CommandLineProofs` | `GateHolds`: what the command line tested before it submitted a command holds while a worker runs it |
| `CommandLineImplementsSession` | `CommandLineProofs` | the command line refines `CommandSession` |
| `GrowBitsClears` | `PartitionProofs` | growing an FSIP clears exactly the bits of the new pages, for any number of pages managed and any growth that fills the byte it starts in (`grow` adds 8 or more, or all that an FSIP has left) |
| `PartitionTypeOK`, `PartitionOwners`, `PartitionFsips`, `PartitionManaged` | `PartitionProofs` | `TypeOK`, `HandedOutOnce`, `FsipExact`, `PagesManaged`, if no growth is larger than what an FSIP manages and only pages of the first FSIP are released, and not when it is full (`Benign`) |
| `PartitionGrowth` | `PartitionProofs` | `GrowthKeepsPages`, under `Benign` |
| `TypeCorrect`, `CatalogKept`, `DropsComplete`, `PagesKept`, `ObjectsKept` | `CatalogProofs` | `TypeOK`, `CatalogAgrees`, `NeverHalfway`, `SegmentsHavePages`, `ObjectsCurrent`, for one master partition and allocations from sound FSIPs |
| `MasterKept` | `CatalogProofs` | `MasterInUse`, under the same hypotheses (for two master partitions it is false, section 5) |
| `CatalogImplementsDatabase` | `CatalogProofs` | the catalog refines `Database`, under the same hypotheses |
| `SegmentTypes`, `RecordsStayApart`, `FsmsStayLinked` | `SegmentProofs` | `TypeOK`, `RecordsApart` (records and slots of a slotted page never overlap), `FsmsLinked` |
| `PagesStayAccounted` | `SegmentProofs` | `PagesAccounted`, if no shutdown comes upon more pages than the index pages take (`Fits`) |
| `TuplesKept` | `SegmentProofs` | the segment refines `TupleStore`, under `Fits` |

**Types of the buffer manager.** `TypeOK` alone is not inductive: a step uses
the local variables of its client as indices of BCBs, and those are null where
the client does not need them. `TypeInv` adds `LocalsOK`: at each label, which
locals are set. One lemma per group of actions preserves it.

**Latches.** `LatchExclusion` speaks of all owners of one latch; that it is kept
when a client unlocks or upgrades depends on the client owning what it unlocks.
`LatchInv` says so by the client's position: it owns every page it was handed
(`Owns`), the BCB it is setting up while it looks for a frame, its victim while
it evicts, and these are different BCBs. Then a step that locks finds the latch
free, one that unlocks removes its own entry only, and the rest is untouched.
`HandleStable` follows from `LatchInv`: the steps that write the page or frame
of a BCB are those of a client that owns its latch exclusively, or takes it when
it is free. The fix count that `getFrame` read a step before is not needed for
that, and may be out of date by then.
These proofs need no assumption on who asks for which page: they cover shared
pages as well, where the properties about contents do not hold.

**Lists.** What is in a chain is computed by following `next` as often as there
are BCBs (`ChainFrom`). The proofs speak of `Members(nx, h)` instead, the least
set that contains the head `h` and is closed under `nx`, and of `Ending`: the
list reaches its end. `ChainIsMembers` shows that for a list that ends both are
the same; it is an induction over the length, made from the library's
well-founded order of the naturals, since a chain cannot have more members than
there are BCBs. What `Link`, `Pop`, `ResetHead`, `ResetWalk` and `ResetFree` do to a
list, a push, a pop and an unlinking, are lemmas about `Members` alone.

**Structure.** `OneBCBPerPage` and `BCBsConserved` fail to be inductive in every
direction: between two critical sections a BCB is in no list, its page is
already written and its frame is not. `Structure` says for each label of the
code what the client has in hand (`Taken`: a BCB that is in no list; `Moving`:
a client with a frame that is nobody's) and for the rest that the free list and
the chains end and are disjoint (`Lists`), that a page has one BCB in the chain
it hashes to (`PagesApart`), and that frames with an owner differ
(`FramesApart`). `HoldsBucket`, `Positions` and `Call` are about one client: which buckets it has
latched, that the BCB it looks at is in that bucket's chain, and that the page
it asks for is or is not there. That the page it missed is still missing when
it links a BCB for it is where `Apart` is needed. That the free list is never
empty when a BCB is popped is counting: every BCB in a chain has a frame of its
own, or is the one the only client is moving, and there are more BCBs than frames
(`Pigeons`). With several clients it is their pages that are counted instead.

**Contents.** `StoreInv` adds what the frames hold. A page is `Loaded` when its
BCB is in a chain and no client is still filling it or has begun to delete it;
a loaded page is `Clean`: it is marked as modified or its frame equals the disk;
`Content`, which `ImplementsStore` maps the store to, is the frame of a loaded
page and the disk for every other (`Shown`). A step is then of one of three
kinds. It leaves loaded pages, frames and disk alone (`Unseen`: walking, popping,
linking, latching); it loads or drops a clean page, so that the content moves
between frame and disk (`ReadSeen`, `Dropped`, for `Evict` after it has
written back what was modified); or it is the store's step (`WriteSeen`,
`FlushPageSeen`, `ResetSeen`). While `flushAll` is under way, `Flushing` keeps
that all pages it has passed are clean, which needs `NoFlush`. A restart makes
the disk the content and leaves the store's durable content as it is. `NextStores` puts the steps
together; what `PageStore` has as its `fixed` pages are the handles without
their BCBs (`FixedBy`).

**Handles.** A segment reads a page through the BCB it remembers, and nothing in
`getPage` looks whether the page is still there. That it is has two reasons,
and `HandlesInv` is the choice between them, for every handle of the segment while
a life of the process reads it: the page is still latched by the segment itself
(`Kept`), or every page this life can need has a frame, so that nothing is
ever replaced, and the BCB is still in its chain with its page (`Points`). The
second is counting again, on top of `Structure`: the pages in the pool are among those
needed (`KnownOnly`), each has its own BCB and frame, so a call that misses a page finds a
free frame (`FrameFree`) and the search for a victim is never entered (`NoEviction`).
The first is what the commands see to, each in its own way. `HeldFor` says of
each latched page why: the command works on it; a scan has read it and
`getTuples` will release it, which needs that every page with a valid row occurs
in the identifiers collected (`Busy`); it has no valid row; or it belongs to
the free space management. `LatchesLeft` is what remains of `HeldFor` when no
command runs. `Accounted` ties this to the latches: with one client a latched
BCB is one it was handed, or one its call works on, and the recorded mode and
the fix count are right. `Asking` says what each call that is under way was made for, so that
what it hands out is what the step after it expects.

The proof goes by who acts. A step of the buffer manager is one of three
(`Outcomes`): the call goes on, it hands out one page, or `flushAll` ends; what it
does to pages that the client keeps or the pool has is said once
(`WorkingPlaces`, `WorkingFrames`), and `WorkingSteps` concludes for all of them. A
step of a command is made while no call runs; `UnfixKeeps`, `RelatchKeeps` and
`AskKeeps` are what it may do to the buffer manager, and one lemma for each action
(`ScanKeeps`, `FetchKeeps`, `SearchKeeps`, ...) does the rest. The invariant was
checked by TLC on the instance of the run `handles` before.

**Pool.** The wakeup invariant is: while a worker sleeps, at most as many jobs
are queued as workers are about to look at the queue. Adding a job wakes a
sleeper, which pays for it; taking a job takes a looker away with it; falling
asleep needs an empty queue; so `WakeupInv` is inductive with the types alone,
and the counting rests on the library's facts about cardinalities. `JobsInv`
adds that each submitted job is in one place, from which the refinement follows
step by step: the head of the queue is what `Start` takes, what a worker leaves
is what `Finish` answers, and everything else stutters.

**Command line.** `CommandLineProofs` stands on `ThreadPoolProofs`: the steps of
the composition are steps of the pool, so `TypeOK` and `JobsInv` are taken over
as they are. `CmdInv` adds what the composition makes true: a command that is
queued or executed is the last one submitted and `main` waits for it; a result
is known exactly for the jobs whose future is ready; while a command is on its
way what was tested still holds, since nothing but a command changes `running`;
and once the loop is left nothing is queued. It is inductive only with the
pool's invariant that a job is in one place: that is what makes the future of
the last command tell that all earlier ones are over. The refinement maps the
session's log to the results of the ready futures; the step that makes a
future ready is the session's step, and every other step stutters or ends it.

**Partition.** `GrowBits` is three cases of masks; the lemma splits by where the
new pages start and end in a byte.

The other five rest on `IInv`. Its first part, `Inventory`, is exactness of
each FSIP with the owners of its pages; what `getNewPage`, `freePage`, `grow`
and `initNewFSIP` do to one FSIP are lemmas of their own (`NewPageExact`,
`PutBackExact`, `GrownExact`, `NewFSIPExact`), the third with `GrowBitsClears`.
The searches for the lowest free bit and the first FSIP with room are least
elements of sets of numbers (`LowestExists`, from the library's well-founded
order). Exactness alone is not inductive: that a new FSIP finds nobody on its
pages needs to know where the managed pages end. `EndsAt` says so, of `size`
and of the file: the FSIP of the last page manages pages up to it, or beyond
it by one growth at most, and all FSIPs before are full. This
settles what the bound of the run leaves open. An FSIP that is not counted
(section 5) moves the managed pages one further behind the end of the file,
each time; yet when a new FSIP would lie behind the end altogether, the
allocation throws, the file has grown without it, and the distance shrinks. So
it never exceeds a growth, and a resize, which sets the size of the file, cuts
no page off that somebody uses. Without `Benign` each of the theorems is false:
`partition_full` shows it for releases, and a growth of more than one FSIP
manages (32512 pages, with pages of 4096 bytes; the growth has 16 bits) leaves
an FSIP unformatted.

**Segment.** A segment is three lists of pages, and what is hard about it is that
they are in different places at different times: in memory while the segment is
open, on pages linked to one another after a shutdown. `SegInv` says what holds
in both. `Laid` is about the lists, wherever they are: a page is in one of them
and once, has the kind its list says, and the FSMs are linked in the order of
theirs. `Written` is about what a shutdown leaves for the next boot: the index
pages are linked, the entries of each are its part of the list of data pages,
and each names the first FSM. While the segment is stored the invariant is that
there are lists which are `Laid` and `Written`; a boot must find just these.
That `Chain` finds a list from the links (`ChainIs`) and `EntriesOf` the data
pages from the parts (`EntriesIs`) are lemmas about the operators, by the
library's well-founded order of the naturals. `Recorded` says that every identifier ever given is that
of a record; it is what tells a new identifier from all old ones. `Shapes`
holds what a page may contain; in it `Sound` says of a slotted page that its
end, its free bytes and its slots add up to the page, that records follow one
another, and that the last ends where the free space begins.

An insertion is one action with several ends, so the lemmas go by these: a page
with room (`InsertInto`), a new page (`InsertNew`), a new page behind a new FSM
(`InsertFsm`), each with the allocation that fails. `FsmsLinked` survives the
failures because an FSM is linked only when all its allocations have succeeded.

`Fits` is `"overfull" \notin Stores`. The code decides when to reserve an index
page by a comparison of pages with bytes (section 5), so the segment may have
more data pages than its index pages take. A shutdown then writes the first of
them and the boot after it finds no more: the others stay taken and their
tuples are gone. `PagesAccounted` and the refinement are false of that case; the
types, the records and the links of the FSMs hold in it too and are
proved without `Fits`. The run `segment` checks all five under `Fits`.

The refinement compares the tuples that are `Held`: the valid records of the
data pages, of the list in memory or of the list that a boot would find. A page's
records only grow and lose their validity, so a step adds one tuple
(`MoreHeld`), removes one (`LessHeld`), or leaves them all (`SameHeld`), which are the
steps of `TupleStore`.

**Catalog.** The tuples of the catalog are in many places: in the file of the
master partition, in the objects of its two segments, in the maps. `P` and `S`
stand for these tuples, wherever they are. `Sound` says of them what no single
map could: identifiers, names and paths are apart, every segment has a
partition among them and a page in its file, the master partition and its
segments are there. `Mapped`, `Objects` and `Kept` tie the maps, the objects
and the place where the tuples are kept to `P` and `S`. A process is
`Uninstalled` (no file yet), `Unbooted` (a sound file and empty managers) or
`Booted`; in the last case, while the system is idle, the file holds `P` and
`S`, and while it runs the counters are beyond their identifiers. That last
part is what makes a creation find a new identifier, and why a boot must
compute the counters from the tuples it reads. Why one master: a process that
boots a second database merges its tuples into the maps of the first, so that
nothing of `Mapped` is left; `catalog_boot` is the counterexample. A spoilt FSIP
does not disturb any of it, since stored rows are read by way of the first page
of a segment; only the freshness of a new first page, one part of `Sound`, needs
`SoundAllocs`.

The refinement is about what the user sees of `P` and `S` and of the rows
of each segment (`ViewP`, `ViewS`). `RunningSeen` and `IdleSeen` show that this
is what the managers show while the system runs and what the files show while
it does not. A step that stores, by a shutdown or at the end of a process,
makes the rows of the files those of the objects (`RowsStored`) and thereby
keeps the view; a boot keeps it because objects left from an earlier boot of
the process hold what is stored (`StoredObjects`, invariant with `IInv`); each
command that runs changes the view as its namesake in `Database`.

**Model-checked only.** Liveness (`CommandsAnswered`, `Answered`, `DestroyReturns`,
`ExitEnds`) and everything about `ENABLED` is out of the prover's reach. Of the
safety properties only the refinement `ImplementsRows` is left to TLC: it needs the
invariant of the handles, that of the contents and, for `Stored`, what every slot of
every page holds, together.

## 5 Disagreements between the code and what it says

Four runs end in a violation on purpose; the lines are in `PROJECT.json`.

1. `handles_stale`: `insertTuple` keeps a pointer to a BCB it has unfixed
   (`segment/segment_fsm_sp.hh:145`); after a replacement `getPage` returns the
   frame of another page through it.
2. `partition_full`: `getNextFreePage` says 0 both for position 0 and for
   "none"; after a release into a full FSIP position 0 is handed out again.
3. `catalog_boot`: a second boot in a process finds the objects of the first.
4. `catalog_reboot`: a second shutdown in a process stores each segment with a
   list of index pages that ends in the 0 of the first store
   (`segment/segment_fsm.cc:256`), and so overwrites the FSIP of the partition;
   the next segment gets pages that are in use. A boot "with another
   masterPartition without exiting" is what SHUTDOWN offers (`cli/parser.cc:28`).

Others were met while modelling. They are in the models as the code has them,
or outside of what the models cover, and have no run of their own:

- `fix` gives the bucket up before it locks the BCB and does not look again
  (`buffer/buf_mngr.cc:147`), so that with two threads on shared pages it may
  return another page than the comment at line 169 says;
- two clients that miss the same page load it twice (`buffer/buf_mngr.cc:155`),
  and with one frame and three BCBs the frames then have two owners;
- a page may be fixed before its BCB has a frame, which the assertion of
  `getFramePtr` then meets (`buffer/buf_mngr.cc:225`);
- a reader of a page updates mode and fix count under a mutex it shares with
  others (`buffer/buf_cntrl_block.hh:94`, `buf_cntrl_block.cc:43`), so that one
  of two counts may be lost;
- `getFrame` reads the fix count of a BCB and tries its latch afterwards
  (`buffer/buf_mngr.cc:424`), while `upgradeLock` gives the latch up with the fix
  count unchanged (`buffer/buf_cntrl_block.cc:79`): what keeps a page in its frame
  during an upgrade is that the count was read before or is still up, so a BCB
  that another thread fixes, and then upgrades, in between may be replaced;
- a pool of fewer than five frames has no spare BCB (`buffer/buf_mngr.cc:122`);
- `emptyfix` writes the header of the new page only (`buffer/buf_mngr.cc:181`);
- `freePage` computes the wrong FSIP for pages behind the first
  (`partition/partition_base.cc:149`);
- a new FSIP's own page is not counted among the pages that remain
  (`partition/partition_file.cc:59`), so file and FSIPs drift apart, and an
  allocation may throw although the file has just grown; a growth of more than
  an FSIP manages leaves the second FSIP unformatted;
- a status counts the aligned bytes of a tuple in fifteenths of a page shortened
  by one slot (`segment/segment_fsm_sp.cc:84`), but every record takes a slot: two
  tuples of 1896 and 2168 bytes have the statuses 7 and 8, which add up to 15, and
  need 4076 of 4072 bytes. `getFreePage` promises "a Page with sufficiently many
  free bytes" (`segment/segment_fsm.hh:58`); the insertion throws, with the page
  latched and its status raised;
- a segment object that is dropped after a shutdown and a boot of the process
  frees page 0 of its partition (`segment/segment_base.cc:41`), which makes
  `freePage` of the FSIP write far outside of the page;
- the number of index pages is decided by comparing pages with bytes
  (`segment/segment_fsm.cc:99`), so a segment with more pages than its index
  pages have entries loses the last ones at shutdown; the bound `Stores` leaves
  such shutdowns out;
- an insertion into a full raw partition leaves the page of the free space
  management latched and is answered with CONTINUE (`cli/parser.cc:477`); the
  next insertion waits for ever;
- INSERT INTO without its two arguments ends the process with the database
  running (`cli/parser.cc:445`): no shutdown is done then;
- a data page allocated behind a new FSM gets no status
  (`segment/segment_fsm.cc:140`), and the first word of a new FSM is not set to
  zero (`interpreter/interpreter_fsm.cc:33`);
- exceptions leave latches behind (`segment/segment_fsm_sp.hh:162`), and `scan`
  keeps the shared latch of a page without rows
  (`segment/segment_fsm_sp.cc:156`), for which a later insertion waits;
- a raw partition cannot be used after a boot
  (`partition/partition_manager.cc:145`);
- the file of a partition whose creation failed stays and blocks its path
  (`partition/partition_manager.cc:99`);
- partition identifiers have eight bits and wrap after 255 creations;
- commands may drop the master partition or write to the master segments.

## 6 What is not modelled, and why

- Operations without a caller: `tryPop`, `clear`, `empty`, `isValid` of the
  queue, `try_lock_shared`, `reservePage`, bulk `insertTuples`, `getNewPage`,
  `createNewSegmentFSM`, hard deletion in slotted pages, `multiexec`.
- Open, close and removal of a partition's file with its count of openings, and
  failing reads and writes: errors of the operating system end the process.
- The size of a block device, which comes from the operating system, and a
  device whose last page is the place of an FSIP.
- Console input, listings, help texts, arguments, dates and times, tracing,
  exceptions' messages: no state of the system depends on them.
- Serialisation of tuples: a tuple is its size in `Segment` and a record in
  `Catalog`.
- `util/iomeasure` and `util/memmeasure` (beside `src/src`): stand-alone
  measuring programs.
- A crash of the machine: there is no log and no recovery. `Restart` of
  `BufferManager` may come at any time and shows what is then on disk; for
  segments and catalog only orderly shutdowns are modelled.

## 7 Plan

Done, in this order: buffer manager and latches; thread pool; partitions;
segments with slotted pages; catalog and instance manager; the first theorems
about all but the last; page handles over the buffer manager; the command line
over the pool, with its proofs; raw partitions, and the exactness of the FSIPs
for every size and growth; the invariants of the catalog and its refinement of
`Database`, proved for one master partition; the contents of the buffer pool, the segment,
and what the handles of a segment point to.

Next, the models: in `Segment`, the creation that fails; in `Partition`, open
and close with their count.

Then the proofs:

1. `ImplementsRows`, on top of `StoreImplemented` and `HandlesPoint`.
2. In `Segment`, that a record's bytes, once written, stay (an action property
   beside `RecordsStayApart`).

## 8 Running it

```
tlc -workers 2 -config MCHandles.cfg MCHandles.tla
tlapm ThreadPoolProofs.tla
```

The runs `own`, `shared` and `catalog` are the longest, with some 1,145,000,
916,000 and 268,000 distinct states; none takes more than a few minutes.
