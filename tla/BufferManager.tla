---------------------------- MODULE BufferManager ----------------------------
(***************************************************************************)
(* The buffer manager of src/src/buffer: a hash table of buffer control    *)
(* blocks (BCBs) over a pool of page frames.  Every client is a thread     *)
(* running one call at a time; a step is one critical section of the code  *)
(* or one access to shared state made outside of any.  All latches are     *)
(* std::shared_mutex: a step that would block is simply not enabled.       *)
(*                                                                         *)
(* Pages stand for the sum fileID + pageNo the hash function takes.        *)
(***************************************************************************)
EXTENDS Integers, Sequences, FiniteSets

CONSTANTS
  Clients,    (* threads that call the buffer manager                          *)
  Pages,      (* pages that exist on disk                                      *)
  Versions,   (* the contents a page can have                                  *)
  Blank,      (* the content a page and a frame have at first                  *)
  NoFrames,   (* _noFrames: frames of the pool, and buckets of the hash table  *)
  NoBCBs,     (* number of buffer control blocks                               *)
  Kinds,      (* the calls the clients of this instance make                   *)
  PagesOf,    (* the pages each client asks for                                *)
  MaxHeld     (* bound: pages one client keeps fixed at a time                 *)

ASSUME BufferAssumption ==
  /\ Pages \subseteq Nat
  /\ NoFrames \in Nat \ {0}
  /\ NoBCBs \in Nat \ {0}
  /\ MaxHeld \in Nat
  /\ PagesOf \in [Clients -> SUBSET Pages]
  /\ Blank \in Versions

Frames  == 0 .. NoFrames - 1
Buckets == 0 .. NoFrames - 1
BCBs    == 1 .. NoBCBs
NoBCB   == 0             (* nullptr *)
INVALID == NoFrames      (* any index that is not a frame *)
NoPage  == -1            (* a default constructed PID *)

Hash(p) == p % NoFrames

VARIABLES
  bucket, bucketX, bucketS,    (* hash table: first BCB, latch holders         *)
  next,                        (* _nextInChain: hash chains and the free list  *)
  pid, frameIndex, modified,   (* the other fields of a BCB                    *)
  mode, fixCount,              (* _mode and _fixCount of a BCB                 *)
  latchX, latchS,              (* holders of _pageMtx                          *)
  freeBCBs, freeFrames,        (* head of the free BCBs, stack of free frames  *)
  frame, disk,                 (* page contents in the pool and on disk        *)
  pc, call,                    (* per client: next step, current call          *)
  ptr, newBCB, victim, home,   (* per client: local variables of the code      *)
  got, todo,
  held                         (* per client: the BCB* it keeps fixed          *)

tableVars  == <<bucket, bucketX, bucketS>>
listVars   == <<next, freeBCBs, freeFrames>>
bcbVars    == <<pid, frameIndex, modified>>
latchVars  == <<mode, fixCount, latchX, latchS>>
localVars  == <<call, ptr, newBCB, victim, home, got, todo, held>>
vars == <<tableVars, listVars, bcbVars, latchVars, frame, disk, pc, localVars>>

Calls   == [kind : {"none", "fix", "emptyfix", "reset", "flushAll"},
            page : Pages \cup {NoPage}, mode : {"S", "X"}]
Handles == [bcb : BCBs, page : Pages, mode : {"S", "X"}]
NoCall  == [kind |-> "none", page |-> NoPage, mode |-> "S"]

Page(c) == call[c].page
Goto(c, label) == pc' = [pc EXCEPT ![c] = label]

(***************************************************************************)
(* The BCB latch.  lock() and lock_shared() record the mode and the fix    *)
(* count after the mutex is acquired; unlock() acts on the recorded mode.  *)
(* Bound: each is one step.  The code writes both fields under a shared    *)
(* mutex, so that two readers of a page at once may lose one another's     *)
(* count; what can follow from that is left out.                           *)
(***************************************************************************)
LatchFree(b) == latchX[b] = {} /\ latchS[b] = {}

LockX(b, c) ==
  /\ LatchFree(b)
  /\ latchX'   = [latchX EXCEPT ![b] = {c}]
  /\ mode'     = [mode EXCEPT ![b] = "X"]
  /\ fixCount' = [fixCount EXCEPT ![b] = 1]
  /\ UNCHANGED latchS

LockS(b, c) ==
  /\ latchX[b] = {} /\ c \notin latchS[b]
  /\ latchS'   = [latchS EXCEPT ![b] = @ \cup {c}]
  /\ mode'     = [mode EXCEPT ![b] = "S"]
  /\ fixCount' = [fixCount EXCEPT ![b] = @ + 1]
  /\ UNCHANGED latchX

Lock(b, c, m) == IF m = "X" THEN LockX(b, c) ELSE LockS(b, c)

Unlock(b, c) ==
  \/ /\ mode[b] = "NOLOCK"
     /\ UNCHANGED latchVars
  \/ /\ mode[b] = "S"
     /\ fixCount' = [fixCount EXCEPT ![b] = @ - 1]
     /\ mode'     = [mode EXCEPT ![b] = IF fixCount[b] = 1 THEN "NOLOCK" ELSE "S"]
     /\ latchS'   = [latchS EXCEPT ![b] = @ \ {c}]
     /\ UNCHANGED latchX
  \/ /\ mode[b] = "X"
     /\ fixCount' = [fixCount EXCEPT ![b] = @ - 1]
     /\ mode'     = [mode EXCEPT ![b] = "NOLOCK"]
     /\ latchX'   = [latchX EXCEPT ![b] = @ \ {c}]
     /\ UNCHANGED latchS

BucketFree(h) == bucketX[h] = {} /\ bucketS[h] = {}

(* Mutant: the loop runs once too often.                                    *)
InitialChainTooLong == [b \in BCBs |-> b + 1]

(* Mutant: the BCBs are not linked to each other.                          *)
InitialChainShort == [b \in BCBs |-> NoBCB]

(***************************************************************************)
(* BufferManager::init: all frames free, the BCBs chained into the free    *)
(* list in order.  The loop links the first BCB to itself before it links  *)
(* it to the second, so a single BCB stays linked to itself.               *)
(***************************************************************************)
InitialChain == [b \in BCBs |-> IF b < NoBCBs THEN b + 1
                                ELSE IF NoBCBs = 1 THEN 1 ELSE NoBCB]

Init ==
  /\ bucket = [h \in Buckets |-> NoBCB]
  /\ bucketX = [h \in Buckets |-> {}]
  /\ bucketS = [h \in Buckets |-> {}]
  /\ next = InitialChain
  /\ pid = [b \in BCBs |-> NoPage]
  /\ frameIndex = [b \in BCBs |-> INVALID]
  /\ modified = [b \in BCBs |-> FALSE]
  /\ mode = [b \in BCBs |-> "NoType"]
  /\ fixCount = [b \in BCBs |-> 0]
  /\ latchX = [b \in BCBs |-> {}]
  /\ latchS = [b \in BCBs |-> {}]
  /\ freeBCBs = 1
  /\ freeFrames = [i \in 1 .. NoFrames |-> i - 1]
  /\ frame = [f \in Frames |-> Blank]
  /\ disk = [p \in Pages |-> Blank]
  /\ pc = [c \in Clients |-> "idle"]
  /\ call = [c \in Clients |-> NoCall]
  /\ ptr = [c \in Clients |-> NoBCB]
  /\ newBCB = [c \in Clients |-> NoBCB]
  /\ victim = [c \in Clients |-> NoBCB]
  /\ home = [c \in Clients |-> 0]
  /\ got = [c \in Clients |-> INVALID]
  /\ todo = [c \in Clients |-> {}]
  /\ held = [c \in Clients |-> {}]

(* Reached[k][d]: the BCBs reached from d along at most k pointers          *)
(* _nextInChain; ChainFrom(b): from b along any number of them.             *)
Reached[k \in 0 .. NoBCBs] ==
  [d \in BCBs \cup {NoBCB} |->
     IF k = 0 \/ d = NoBCB THEN {} ELSE {d} \cup Reached[k - 1][next[d]]]

ChainFrom(b) == Reached[NoBCBs][b]

Linked == UNION {ChainFrom(bucket[h]) : h \in Buckets}
FreeList == ChainFrom(freeBCBs)

(* Where a client is while the BCB it took is linked but not handed out yet. *)
Locating == {"link", "getFrame", "pick", "tryBucket", "tryHead", "tryNext",
             "lockHead", "lockNext", "evictHead", "evictNext", "place"}
Loading  == Locating \cup {"readLatch", "read", "emptyLatch"}

-----------------------------------------------------------------------------
(***************************************************************************)
(* fix, emptyfix: search the hash chain, else set up a BCB (locatePage),   *)
(* find it a frame (getFrame), read the page in, and take the latch.       *)
(***************************************************************************)
Idle(c) == pc[c] = "idle"

(* A client asks for no page it keeps fixed: a second exclusive latch in    *)
(* one thread would wait for itself.                                        *)
MayAsk(c, p) ==
  /\ p \in PagesOf[c]
  /\ Idle(c) /\ Cardinality(held[c]) < MaxHeld
  /\ \A h \in held[c] : h.page # p

Begin(c, kind, p, m, label) ==
  /\ kind \in Kinds
  /\ call' = [call EXCEPT ![c] = [kind |-> kind, page |-> p, mode |-> m]]
  /\ Goto(c, label)

CallFix(c, p, m) ==
  /\ MayAsk(c, p)
  /\ Begin(c, "fix", p, m, "lookup")
  /\ UNCHANGED <<tableVars, listVars, bcbVars, latchVars, frame, disk,
                 ptr, newBCB, victim, home, got, todo, held>>

(* The comment of emptyfix makes it the caller's duty that the page is not  *)
(* loaded: its callers pass a page the partition has just handed out.       *)
CallEmptyFix(c, p) ==
  /\ MayAsk(c, p)
  /\ \A b \in Linked : pid[b] # p
  /\ \A d \in Clients : call[d].page # p
  /\ Begin(c, "emptyfix", p, "X", "popCheck")
  /\ UNCHANGED <<tableVars, listVars, bcbVars, latchVars, frame, disk,
                 ptr, newBCB, victim, home, got, todo, held>>

FixLookup(c) ==
  LET h == Hash(Page(c)) IN
  /\ pc[c] = "lookup"
  /\ bucketX[h] = {}
  /\ bucketS' = [bucketS EXCEPT ![h] = @ \cup {c}]
  /\ ptr' = [ptr EXCEPT ![c] = bucket[h]]
  /\ Goto(c, "walk")
  /\ UNCHANGED <<bucket, bucketX, listVars, bcbVars, latchVars, frame, disk,
                 call, newBCB, victim, home, got, todo, held>>

(* One BCB of the chain.  A BCB of the page whose frame is not known yet is *)
(* spun on with the bucket latched: no disjunct is enabled.                 *)
FixWalk(c) ==
  LET b == ptr[c]
      leaveBucket == bucketS' = [bucketS EXCEPT ![Hash(Page(c))] = @ \ {c}]
  IN
  /\ pc[c] = "walk"
  /\ \/ /\ b = NoBCB
        /\ leaveBucket /\ Goto(c, "popCheck") /\ UNCHANGED ptr
     \/ /\ b # NoBCB /\ pid[b] # Page(c)
        /\ ptr' = [ptr EXCEPT ![c] = next[b]] /\ UNCHANGED <<bucketS, pc>>
     \/ /\ b # NoBCB /\ pid[b] = Page(c) /\ frameIndex[b] # INVALID
        /\ leaveBucket /\ Goto(c, "latch") /\ UNCHANGED ptr
  /\ UNCHANGED <<bucket, bucketX, listVars, bcbVars, latchVars, frame, disk,
                 call, newBCB, victim, home, got, todo, held>>

(* popFromList tests the head before it locks the list.  Its exception      *)
(* leaves the noexcept locatePage, and a null head taken after the test is  *)
(* dereferenced: both end the process.                                      *)
PopCheck(c) ==
  /\ pc[c] = "popCheck"
  /\ Goto(c, IF freeBCBs = NoBCB THEN "abort" ELSE "pop")
  /\ UNCHANGED <<tableVars, listVars, bcbVars, latchVars, frame, disk, localVars>>

Pop(c) ==
  /\ pc[c] = "pop"
  /\ \/ /\ freeBCBs = NoBCB
        /\ Goto(c, "abort") /\ UNCHANGED <<next, freeBCBs, newBCB>>
     \/ /\ freeBCBs # NoBCB
        /\ newBCB' = [newBCB EXCEPT ![c] = freeBCBs]
        /\ freeBCBs' = next[freeBCBs]
        /\ next' = [next EXCEPT ![freeBCBs] = NoBCB]
        /\ Goto(c, "claim")
  /\ UNCHANGED <<tableVars, freeFrames, bcbVars, latchVars, frame, disk,
                 call, ptr, victim, home, got, todo, held>>

(* Mutant: the new BCB is filled without its latch.                         *)
ClaimUnlatched(c) ==
  LET b == newBCB[c] IN
  /\ pc[c] = "claim"
  /\ frameIndex' = [frameIndex EXCEPT ![b] = INVALID]
  /\ pid' = [pid EXCEPT ![b] = Page(c)]
  /\ modified' = [modified EXCEPT ![b] = FALSE]
  /\ next' = [next EXCEPT ![b] = NoBCB]
  /\ Goto(c, "link")
  /\ UNCHANGED <<tableVars, freeBCBs, freeFrames, latchVars, frame, disk, localVars>>

Claim(c) ==
  LET b == newBCB[c] IN
  /\ pc[c] = "claim"
  /\ LockX(b, c)
  /\ frameIndex' = [frameIndex EXCEPT ![b] = INVALID]
  /\ pid' = [pid EXCEPT ![b] = Page(c)]
  /\ modified' = [modified EXCEPT ![b] = FALSE]
  /\ next' = [next EXCEPT ![b] = NoBCB]
  /\ Goto(c, "link")
  /\ UNCHANGED <<tableVars, freeBCBs, freeFrames, frame, disk, localVars>>

(* Mutant: the BCB is linked into the next bucket.                          *)
LinkNextBucket(c) ==
  LET b == newBCB[c]  h == Hash(Page(c) + 1) IN
  /\ pc[c] = "link"
  /\ BucketFree(h)
  /\ next' = [next EXCEPT ![b] = bucket[h]]
  /\ bucket' = [bucket EXCEPT ![h] = b]
  /\ Goto(c, "getFrame")
  /\ UNCHANGED <<bucketX, bucketS, freeBCBs, freeFrames, bcbVars, latchVars,
                 frame, disk, localVars>>

Link(c) ==
  LET b == newBCB[c]  h == Hash(Page(c)) IN
  /\ pc[c] = "link"
  /\ BucketFree(h)
  /\ next' = [next EXCEPT ![b] = bucket[h]]
  /\ bucket' = [bucket EXCEPT ![h] = b]
  /\ Goto(c, "getFrame")
  /\ UNCHANGED <<bucketX, bucketS, freeBCBs, freeFrames, bcbVars, latchVars,
                 frame, disk, localVars>>

PopFrame(c) ==
  LET n == Len(freeFrames) IN
  /\ pc[c] = "getFrame"
  /\ \/ /\ n > 0
        /\ got' = [got EXCEPT ![c] = freeFrames[n]]
        /\ freeFrames' = SubSeq(freeFrames, 1, n - 1)
        /\ Goto(c, "place")
     \/ /\ n = 0
        /\ Goto(c, "pick") /\ UNCHANGED <<got, freeFrames>>
  /\ UNCHANGED <<tableVars, next, freeBCBs, bcbVars, latchVars, frame, disk,
                 call, ptr, newBCB, victim, home, todo, held>>

(* The random bucket: its head is read before the bucket is latched.        *)
PickBucket(c, h) ==
  /\ pc[c] = "pick"
  /\ bucket[h] # NoBCB
  /\ ptr' = [ptr EXCEPT ![c] = bucket[h]]
  /\ home' = [home EXCEPT ![c] = h]
  /\ Goto(c, "tryBucket")
  /\ UNCHANGED <<tableVars, listVars, bcbVars, latchVars, frame, disk,
                 call, newBCB, victim, got, todo, held>>

TryBucket(c) ==
  /\ pc[c] = "tryBucket"
  /\ \/ /\ BucketFree(home[c])
        /\ bucketX' = [bucketX EXCEPT ![home[c]] = {c}]
        /\ Goto(c, "tryHead")
     \/ /\ ~BucketFree(home[c])
        /\ Goto(c, "pick") /\ UNCHANGED bucketX
  /\ UNCHANGED <<bucket, bucketS, listVars, bcbVars, latchVars, frame, disk, localVars>>

(* A BCB nobody has fixed is the victim to try: the fix count is read here, *)
(* its latch is tried in a step of its own.                                 *)
TryHead(c) ==
  LET b == ptr[c] IN
  /\ pc[c] = "tryHead"
  /\ \/ /\ fixCount[b] = 0
        /\ victim' = [victim EXCEPT ![c] = b] /\ Goto(c, "lockHead")
     \/ /\ fixCount[b] # 0
        /\ Goto(c, "tryNext") /\ UNCHANGED victim
  /\ UNCHANGED <<tableVars, listVars, bcbVars, latchVars, frame, disk,
                 call, ptr, newBCB, home, got, todo, held>>

(* Mutant: the bucket stays latched when none of its BCBs can be evicted.   *)
TryNextKeepsBucket(c) ==
  LET n == next[ptr[c]] IN
  /\ pc[c] = "tryNext"
  /\ \/ /\ n = NoBCB
        /\ Goto(c, "pick") /\ UNCHANGED <<victim, ptr>>
     \/ /\ n # NoBCB /\ fixCount[n] = 0
        /\ victim' = [victim EXCEPT ![c] = n] /\ Goto(c, "lockNext")
        /\ UNCHANGED ptr
     \/ /\ n # NoBCB /\ fixCount[n] # 0
        /\ ptr' = [ptr EXCEPT ![c] = n]
        /\ UNCHANGED <<pc, victim>>
  /\ UNCHANGED <<tableVars, listVars, bcbVars, latchVars, frame, disk,
                 call, newBCB, home, got, todo, held>>

TryNext(c) ==
  LET n == next[ptr[c]] IN
  /\ pc[c] = "tryNext"
  /\ \/ /\ n = NoBCB
        /\ bucketX' = [bucketX EXCEPT ![home[c]] = @ \ {c}]
        /\ Goto(c, "pick") /\ UNCHANGED <<victim, ptr>>
     \/ /\ n # NoBCB /\ fixCount[n] = 0
        /\ victim' = [victim EXCEPT ![c] = n] /\ Goto(c, "lockNext")
        /\ UNCHANGED <<bucketX, ptr>>
     \/ /\ n # NoBCB /\ fixCount[n] # 0
        /\ ptr' = [ptr EXCEPT ![c] = n]
        /\ UNCHANGED <<bucketX, pc, victim>>
  /\ UNCHANGED <<bucket, bucketS, listVars, bcbVars, latchVars, frame, disk,
                 call, newBCB, home, got, todo, held>>

(* try_lock of the victim, which another client may have latched since.     *)
TryVictim(c) ==
  LET v == victim[c] IN
  /\ pc[c] \in {"lockHead", "lockNext"}
  /\ \/ /\ LockX(v, c)
        /\ Goto(c, IF pc[c] = "lockHead" THEN "evictHead" ELSE "evictNext")
        /\ UNCHANGED ptr
     \/ /\ ~LatchFree(v)
        /\ ptr' = [ptr EXCEPT ![c] = v] /\ Goto(c, "tryNext")
        /\ UNCHANGED latchVars
  /\ UNCHANGED <<tableVars, listVars, bcbVars, frame, disk,
                 call, newBCB, victim, home, got, todo, held>>

(* flush: a modified page is written back and stays marked modified.        *)
FrameValid(b) == frameIndex[b] # INVALID      (* the assert of getFramePtr *)

(* Mutant: a modified victim is dropped as if it were clean.                *)
WriteBackNothing(b) == UNCHANGED disk

WriteBack(b) ==
  disk' = IF modified[b] THEN [disk EXCEPT ![pid[b]] = frame[frameIndex[b]]] ELSE disk

(* The victim is written back, unlinked and put into the free list, and     *)
(* its frame kept.                                                          *)
Evict(c) ==
  LET v == victim[c]
      freed(f) == [f EXCEPT ![v] = freeBCBs]
  IN
  /\ pc[c] \in {"evictHead", "evictNext"}
  /\ modified[v] => FrameValid(v)
  /\ WriteBack(v)
  /\ \/ /\ pc[c] = "evictHead"
        /\ bucket' = [bucket EXCEPT ![home[c]] = next[v]]
        /\ next' = freed(next)
     \/ /\ pc[c] = "evictNext"
        /\ next' = freed([next EXCEPT ![ptr[c]] = next[v]])
        /\ UNCHANGED bucket
  /\ freeBCBs' = v
  /\ Unlock(v, c)
  /\ bucketX' = [bucketX EXCEPT ![home[c]] = @ \ {c}]
  /\ got' = [got EXCEPT ![c] = frameIndex[v]]
  /\ Goto(c, "place")
  /\ UNCHANGED <<bucketS, freeFrames, bcbVars, frame,
                 call, ptr, newBCB, victim, home, todo, held>>

Place(c) ==
  LET b == newBCB[c] IN
  /\ pc[c] = "place"
  /\ frameIndex' = [frameIndex EXCEPT ![b] = got[c]]
  /\ Unlock(b, c)
  /\ Goto(c, IF call[c].kind = "fix" THEN "readLatch" ELSE "emptyLatch")
  /\ UNCHANGED <<tableVars, listVars, pid, modified, frame, disk, localVars>>

ReadLatch(c) ==
  /\ pc[c] = "readLatch"
  /\ LockS(newBCB[c], c)
  /\ Goto(c, "read")
  /\ UNCHANGED <<tableVars, listVars, bcbVars, frame, disk, localVars>>

Read(c) ==
  LET b == newBCB[c] IN
  /\ pc[c] = "read"
  /\ FrameValid(b)
  /\ frame' = [frame EXCEPT ![frameIndex[b]] = disk[Page(c)]]
  /\ Unlock(b, c)
  /\ ptr' = [ptr EXCEPT ![c] = b]
  /\ Goto(c, "latch")
  /\ UNCHANGED <<tableVars, listVars, bcbVars, disk,
                 call, newBCB, victim, home, got, todo, held>>

Hold(c, b, m) ==
  held' = [held EXCEPT ![c] = @ \cup {[bcb |-> b, page |-> Page(c), mode |-> m]}]

(* The call returns and its local variables go out of scope.                *)
Return(c) ==
  /\ Goto(c, "idle")
  /\ call'   = [call EXCEPT ![c] = NoCall]
  /\ ptr'    = [ptr EXCEPT ![c] = NoBCB]
  /\ newBCB' = [newBCB EXCEPT ![c] = NoBCB]
  /\ victim' = [victim EXCEPT ![c] = NoBCB]
  /\ home'   = [home EXCEPT ![c] = 0]
  /\ got'    = [got EXCEPT ![c] = INVALID]

Latch(c) ==
  /\ pc[c] = "latch"
  /\ Lock(ptr[c], c, call[c].mode)
  /\ Hold(c, ptr[c], call[c].mode)
  /\ Return(c)
  /\ UNCHANGED <<tableVars, listVars, bcbVars, frame, disk, todo>>

(* initNewPage writes the basic header only: the body of the page that was  *)
(* in the frame before stays until the caller overwrites it.                *)
EmptyLatch(c) ==
  LET b == newBCB[c] IN
  /\ pc[c] = "emptyLatch"
  /\ FrameValid(b)
  /\ LockX(b, c)
  /\ modified' = [modified EXCEPT ![b] = TRUE]
  /\ Hold(c, b, "X")
  /\ Return(c)
  /\ UNCHANGED <<tableVars, listVars, pid, frameIndex, frame, disk, todo>>

(* assert(lFrameIndex < _noFrames) in getFramePtr ends the process.         *)
BadFrame(c) ==
  \/ /\ pc[c] \in {"evictHead", "evictNext"}
     /\ modified[victim[c]] /\ ~FrameValid(victim[c])
  \/ pc[c] \in {"read", "emptyLatch"} /\ ~FrameValid(newBCB[c])
  \/ pc[c] = "flushAll" /\ \E b \in todo[c] : modified[b] /\ ~FrameValid(b)

AssertFails(c) ==
  /\ BadFrame(c)
  /\ Goto(c, "abort")
  /\ UNCHANGED <<tableVars, listVars, bcbVars, latchVars, frame, disk, localVars>>

-----------------------------------------------------------------------------
(***************************************************************************)
(* What a client does with a page it keeps fixed.                          *)
(***************************************************************************)
(* Callers write through getFramePtr under an exclusive latch and mark the  *)
(* BCB modified before they unfix it.                                       *)
Write(c, h, v) ==
  /\ Idle(c) /\ h \in held[c] /\ h.mode = "X" /\ FrameValid(h.bcb)
  /\ frame' = [frame EXCEPT ![frameIndex[h.bcb]] = v]
  /\ modified' = [modified EXCEPT ![h.bcb] = TRUE]
  /\ UNCHANGED <<tableVars, listVars, pid, frameIndex, latchVars, disk, pc, localVars>>

Unfix(c, h) ==
  /\ Idle(c) /\ h \in held[c]
  /\ Unlock(h.bcb, c)
  /\ held' = [held EXCEPT ![c] = @ \ {h}]
  /\ UNCHANGED <<tableVars, listVars, bcbVars, frame, disk, pc,
                 call, ptr, newBCB, victim, home, got, todo>>

(* flush: the page is written to disk and stays in the pool.                *)
FlushPage(c, h) ==
  /\ Idle(c) /\ h \in held[c] /\ FrameValid(h.bcb)
  /\ WriteBack(h.bcb)
  /\ UNCHANGED <<tableVars, listVars, bcbVars, latchVars, frame, pc, localVars>>

(* upgradeLock(kEXCLUSIVE) on a shared latch: the mutex is released and     *)
(* acquired again, mode and fix count stay as they are in between.          *)
UpgradeRelease(c, h) ==
  /\ Idle(c) /\ h \in held[c] /\ h.mode = "S"
  /\ latchS' = [latchS EXCEPT ![h.bcb] = @ \ {c}]
  /\ held' = [held EXCEPT ![c] = @ \ {h}]
  /\ ptr' = [ptr EXCEPT ![c] = h.bcb]
  /\ Begin(c, "fix", h.page, "X", "upgrade")
  /\ UNCHANGED <<tableVars, listVars, bcbVars, mode, fixCount, latchX, frame, disk,
                 newBCB, victim, home, got, todo>>

UpgradeAcquire(c) ==
  /\ pc[c] = "upgrade"
  /\ LockX(ptr[c], c)
  /\ Hold(c, ptr[c], "X")
  /\ Return(c)
  /\ UNCHANGED <<tableVars, listVars, bcbVars, frame, disk, todo>>

-----------------------------------------------------------------------------
(***************************************************************************)
(* flushAll: no latch is taken; the linked BCBs are collected first.       *)
(***************************************************************************)
CallFlushAll(c) ==
  /\ Idle(c)
  /\ Begin(c, "flushAll", NoPage, "S", "flushAll")
  /\ todo' = [todo EXCEPT ![c] = Linked]
  /\ UNCHANGED <<tableVars, listVars, bcbVars, latchVars, frame, disk,
                 ptr, newBCB, victim, home, got, held>>

FlushNext(c, b) ==
  /\ pc[c] = "flushAll" /\ b \in todo[c]
  /\ modified[b] => FrameValid(b)
  /\ WriteBack(b)
  /\ todo' = [todo EXCEPT ![c] = @ \ {b}]
  /\ UNCHANGED <<tableVars, listVars, bcbVars, latchVars, frame, pc,
                 call, ptr, newBCB, victim, home, got, held>>

FlushDone(c) ==
  /\ pc[c] = "flushAll" /\ todo[c] = {}
  /\ Return(c)
  /\ UNCHANGED <<tableVars, listVars, bcbVars, latchVars, frame, disk, todo, held>>

-----------------------------------------------------------------------------
(***************************************************************************)
(* resetBCB: the page was deleted.  Its BCB is unlinked, its frame pushed  *)
(* and only then its latch acquired, to put it into the free list.         *)
(***************************************************************************)
CallReset(c, p) ==
  /\ p \in PagesOf[c] /\ Idle(c) /\ \A h \in held[c] : h.page # p
  /\ Begin(c, "reset", p, "X", "reset")
  /\ UNCHANGED <<tableVars, listVars, bcbVars, latchVars, frame, disk,
                 ptr, newBCB, victim, home, got, todo, held>>

(* Mutant: the frame of a deleted page is not given back.                   *)
PushNothing(b) == UNCHANGED freeFrames

PushFrame(b) == freeFrames' = Append(freeFrames, frameIndex[b])

(* Mutant: the first BCB is deleted whatever page it holds.                 *)
ResetHeadAlways(c) ==
  LET h == Hash(Page(c))  b == bucket[h] IN
  /\ pc[c] = "reset"
  /\ BucketFree(h)
  /\ \/ /\ b = NoBCB
        /\ Return(c) /\ UNCHANGED <<bucket, bucketX, freeFrames>>
     \/ /\ b # NoBCB
        /\ bucketX' = [bucketX EXCEPT ![h] = {c}]
        /\ bucket' = [bucket EXCEPT ![h] = next[b]]
        /\ PushFrame(b)
        /\ victim' = [victim EXCEPT ![c] = b]
        /\ home' = [home EXCEPT ![c] = h]
        /\ Goto(c, "resetHead") /\ UNCHANGED <<call, ptr, newBCB, got>>
  /\ UNCHANGED <<bucketS, next, freeBCBs, bcbVars, latchVars, frame, disk, todo, held>>

ResetHead(c) ==
  LET h == Hash(Page(c))  b == bucket[h] IN
  /\ pc[c] = "reset"
  /\ BucketFree(h)
  /\ \/ /\ b = NoBCB
        /\ Return(c) /\ UNCHANGED <<bucket, bucketX, freeFrames>>
     \/ /\ b # NoBCB /\ pid[b] = Page(c)
        /\ bucketX' = [bucketX EXCEPT ![h] = {c}]
        /\ bucket' = [bucket EXCEPT ![h] = next[b]]
        /\ PushFrame(b)
        /\ victim' = [victim EXCEPT ![c] = b]
        /\ home' = [home EXCEPT ![c] = h]
        /\ Goto(c, "resetHead") /\ UNCHANGED <<call, ptr, newBCB, got>>
     \/ /\ b # NoBCB /\ pid[b] # Page(c)
        /\ bucketX' = [bucketX EXCEPT ![h] = {c}]
        /\ ptr' = [ptr EXCEPT ![c] = b]
        /\ home' = [home EXCEPT ![c] = h]
        /\ Goto(c, "resetWalk")
        /\ UNCHANGED <<bucket, freeFrames, call, newBCB, victim, got>>
  /\ UNCHANGED <<bucketS, next, freeBCBs, bcbVars, latchVars, frame, disk, todo, held>>

ResetWalk(c) ==
  LET n == next[ptr[c]] IN
  /\ pc[c] = "resetWalk"
  /\ \/ /\ n = NoBCB
        /\ bucketX' = [bucketX EXCEPT ![home[c]] = @ \ {c}]
        /\ Return(c) /\ UNCHANGED freeFrames
     \/ /\ n # NoBCB /\ pid[n] = Page(c)
        /\ PushFrame(n)
        /\ victim' = [victim EXCEPT ![c] = n]
        /\ Goto(c, "resetNext")
        /\ UNCHANGED <<bucketX, call, ptr, newBCB, home, got>>
     \/ /\ n # NoBCB /\ pid[n] # Page(c)
        /\ ptr' = [ptr EXCEPT ![c] = n]
        /\ UNCHANGED <<bucketX, freeFrames, pc, call, newBCB, victim, home, got>>
  /\ UNCHANGED <<bucket, bucketS, next, freeBCBs, bcbVars, latchVars, frame, disk,
                 todo, held>>

(* Mutant: the BCB of the deleted page is not put into the free list.       *)
ResetForgets(c) ==
  LET v == victim[c] IN
  /\ pc[c] \in {"resetHead", "resetNext"}
  /\ LatchFree(v)
  /\ next' = IF pc[c] = "resetHead" THEN next ELSE [next EXCEPT ![ptr[c]] = next[v]]
  /\ bucketX' = [bucketX EXCEPT ![home[c]] = @ \ {c}]
  /\ Return(c)
  /\ UNCHANGED <<bucket, bucketS, freeBCBs, freeFrames, bcbVars, latchVars, frame, disk,
                 todo, held>>

(* FreeBCBs::resetBCB locks the BCB, inserts it and unlocks it again.       *)
ResetFree(c) ==
  LET v == victim[c]  freed(f) == [f EXCEPT ![v] = freeBCBs] IN
  /\ pc[c] \in {"resetHead", "resetNext"}
  /\ LatchFree(v)
  /\ next' = IF pc[c] = "resetHead" THEN freed(next)
             ELSE freed([next EXCEPT ![ptr[c]] = next[v]])
  /\ freeBCBs' = v
  /\ mode' = [mode EXCEPT ![v] = "NOLOCK"]
  /\ fixCount' = [fixCount EXCEPT ![v] = 0]
  /\ bucketX' = [bucketX EXCEPT ![home[c]] = @ \ {c}]
  /\ Return(c)
  /\ UNCHANGED <<bucket, bucketS, freeFrames, bcbVars, latchX, latchS, frame, disk,
                 todo, held>>

-----------------------------------------------------------------------------
(* The process ends and is started again: only the disk stays.              *)
Restart ==
  /\ bucket' = [h \in Buckets |-> NoBCB]
  /\ bucketX' = [h \in Buckets |-> {}] /\ bucketS' = [h \in Buckets |-> {}]
  /\ next' = InitialChain
  /\ pid' = [b \in BCBs |-> NoPage]
  /\ frameIndex' = [b \in BCBs |-> INVALID]
  /\ modified' = [b \in BCBs |-> FALSE]
  /\ mode' = [b \in BCBs |-> "NoType"]
  /\ fixCount' = [b \in BCBs |-> 0]
  /\ latchX' = [b \in BCBs |-> {}] /\ latchS' = [b \in BCBs |-> {}]
  /\ freeBCBs' = 1
  /\ freeFrames' = [i \in 1 .. NoFrames |-> i - 1]
  /\ frame' = [f \in Frames |-> Blank]
  /\ pc' = [c \in Clients |-> "idle"]
  /\ call' = [c \in Clients |-> NoCall]
  /\ ptr' = [c \in Clients |-> NoBCB] /\ newBCB' = [c \in Clients |-> NoBCB]
  /\ victim' = [c \in Clients |-> NoBCB] /\ home' = [c \in Clients |-> 0]
  /\ got' = [c \in Clients |-> INVALID] /\ todo' = [c \in Clients |-> {}]
  /\ held' = [c \in Clients |-> {}]
  /\ UNCHANGED disk

(* The steps of a call that was made; they need no decision of the client.  *)
Proceed(c) ==
  \/ FixLookup(c) \/ FixWalk(c) \/ PopCheck(c) \/ Pop(c) \/ Claim(c) \/ Link(c)
  \/ PopFrame(c) \/ TryBucket(c) \/ TryHead(c) \/ TryNext(c) \/ TryVictim(c)
  \/ Evict(c) \/ Place(c)
  \/ ReadLatch(c) \/ Read(c) \/ Latch(c) \/ EmptyLatch(c) \/ AssertFails(c)
  \/ UpgradeAcquire(c)
  \/ (\E b \in todo[c] : FlushNext(c, b)) \/ FlushDone(c)
  \/ ResetHead(c) \/ ResetWalk(c) \/ ResetFree(c)

Use(c) ==
  \E h \in held[c] :
    \/ \E v \in Versions : Write(c, h, v)
    \/ Unfix(c, h) \/ FlushPage(c, h) \/ UpgradeRelease(c, h)

Request(c) ==
  \/ CallFlushAll(c)
  \/ \E p \in Pages : \/ CallEmptyFix(c, p) \/ CallReset(c, p)
                      \/ \E m \in {"S", "X"} : CallFix(c, p, m)

Step(c) ==
  \/ Proceed(c) \/ Use(c) \/ Request(c)
  \/ \E h \in Buckets : PickBucket(c, h)

Running == \A c \in Clients : pc[c] # "abort"

Next == (Running /\ \E c \in Clients : Step(c)) \/ Restart

Spec == Init /\ [][Next]_vars

-----------------------------------------------------------------------------
(***************************************************************************)
(* Properties.                                                             *)
(***************************************************************************)
Labels == {"idle", "lookup", "walk", "latch", "popCheck", "pop", "claim", "link",
  "getFrame", "pick", "tryBucket", "tryHead", "tryNext", "lockHead", "lockNext",
  "evictHead", "evictNext", "place", "readLatch", "read", "emptyLatch", "upgrade", "flushAll",
  "reset", "resetHead", "resetWalk", "resetNext", "abort"}

TableOK ==
  /\ bucket \in [Buckets -> BCBs \cup {NoBCB}]
  /\ bucketX \in [Buckets -> SUBSET Clients]
  /\ bucketS \in [Buckets -> SUBSET Clients]

ListOK ==
  /\ next \in [BCBs -> BCBs \cup {NoBCB}]
  /\ freeBCBs \in BCBs \cup {NoBCB}
  /\ freeFrames \in Seq(Frames \cup {INVALID})

BCBOK ==
  /\ pid \in [BCBs -> Pages \cup {NoPage}]
  /\ frameIndex \in [BCBs -> Frames \cup {INVALID}]
  /\ modified \in [BCBs -> BOOLEAN]

LatchOK ==
  /\ mode \in [BCBs -> {"NoType", "NOLOCK", "S", "X"}]
  /\ fixCount \in [BCBs -> Int]
  /\ latchX \in [BCBs -> SUBSET Clients]
  /\ latchS \in [BCBs -> SUBSET Clients]

ContentOK ==
  /\ frame \in [Frames -> Versions]
  /\ disk \in [Pages -> Versions]

ClientOK ==
  /\ pc \in [Clients -> Labels]
  /\ call \in [Clients -> Calls]
  /\ ptr \in [Clients -> BCBs \cup {NoBCB}]
  /\ newBCB \in [Clients -> BCBs \cup {NoBCB}]
  /\ victim \in [Clients -> BCBs \cup {NoBCB}]
  /\ home \in [Clients -> Buckets]
  /\ got \in [Clients -> Frames \cup {INVALID}]
  /\ todo \in [Clients -> SUBSET BCBs]
  /\ held \in [Clients -> SUBSET Handles]

(* Every field and local variable holds a value of its type.               *)
TypeOK == TableOK /\ ListOK /\ BCBOK /\ LatchOK /\ ContentOK /\ ClientOK

(* At most one client has a page latched exclusively, and then nobody has  *)
(* it latched shared; the recorded mode says which of the two it is; and a *)
(* client that was handed a BCB really owns its latch in the mode it asked *)
(* for.  (BufferControlBlock::lock, unlock, upgradeLock)                   *)
LatchExclusion ==
  \A b \in BCBs :
    /\ latchX[b] # {} => latchS[b] = {} /\ mode[b] = "X"
    /\ \A c, d \in latchX[b] : c = d
    /\ mode[b] = "X" => latchX[b] # {}

HandlesLatched ==
  \A c \in Clients : \A h \in held[c] :
    c \in (IF h.mode = "X" THEN latchX[h.bcb] ELSE latchS[h.bcb])

(* The latches a client owns on the BCBs it was handed and on those its    *)
(* call is working on, each by one way only.  With LatchExclusion this is  *)
(* the inductive invariant behind the exclusion of the clients.            *)
Owns(c) ==
  LET apart(b) == \A h \in held[c] : h.bcb # b IN
  /\ \A h \in held[c] : c \in (IF h.mode = "X" THEN latchX[h.bcb] ELSE latchS[h.bcb])
  /\ \A g, h \in held[c] : g.bcb = h.bcb => g = h
  /\ pc[c] \in Locating => c \in latchX[newBCB[c]] /\ apart(newBCB[c])
  /\ pc[c] \in {"evictHead", "evictNext"} =>
       c \in latchX[victim[c]] /\ apart(victim[c]) /\ victim[c] # newBCB[c]
  /\ pc[c] = "read" => c \in latchS[newBCB[c]] /\ apart(newBCB[c])

LatchInv == LatchExclusion /\ \A c \in Clients : Owns(c)

HandlesKept ==
  \A c \in Clients : \A h \in held[c] \cap held'[c] :
    pid'[h.bcb] = pid[h.bcb] /\ frameIndex'[h.bcb] = frameIndex[h.bcb]

(* A latched page is not taken away: while a client keeps a BCB fixed,     *)
(* neither its page nor its frame changes, whatever the other clients      *)
(* replace, delete or load meanwhile.  (getFrame, locatePage, resetBCB)    *)
HandleStable == [][HandlesKept]_vars

(* No process ends in std::terminate, a null dereference or an assertion.  *)
NoAbort == Running

(* A page is in the pool at most once, under the bucket it hashes to.      *)
OneBCBPerPage ==
  /\ \A b, d \in Linked : pid[b] = pid[d] => b = d
  /\ \A h \in Buckets : \A b \in ChainFrom(bucket[h]) : Hash(pid[b]) = h

(* The BCBs a call is still filling, and those it is taking out.           *)
BeingLoaded  == {newBCB[c] : c \in {d \in Clients : pc[d] \in Loading}}
BeingDeleted == {victim[c] : c \in {d \in Clients : pc[d] = "resetNext"}}

(* No frame has two owners: the frames of linked BCBs, the free frames and *)
(* the frames a client is moving are all different; and when no call runs  *)
(* none is lost.                                                           *)
FramesOwnedOnce ==
  LET placed == {b \in Linked \ BeingDeleted : FrameValid(b)}
      free == {freeFrames[i] : i \in DOMAIN freeFrames}
      moving == {c \in Clients : pc[c] = "place"}
  IN
  /\ \A b, d \in placed : frameIndex[b] = frameIndex[d] => b = d
  /\ \A i, j \in DOMAIN freeFrames : freeFrames[i] = freeFrames[j] => i = j
  /\ \A b \in placed : frameIndex[b] \notin free
  /\ \A c \in moving : /\ got[c] \in Frames \ free
                       /\ \A b \in placed : frameIndex[b] # got[c]
                       /\ \A d \in moving : got[c] = got[d] => c = d
  /\ (\A c \in Clients : Idle(c)) =>
       Frames = free \cup {frameIndex[b] : b \in placed}

(* Every BCB is in the free list or in one hash chain, never in both; one  *)
(* is in neither only while a client moves it.                             *)
BCBsConserved ==
  LET moved == {newBCB[c] : c \in {d \in Clients : pc[d] \in {"claim", "link"}}}
          \cup {victim[c] : c \in {d \in Clients : pc[d] = "resetHead"}}
  IN  /\ Linked \cap FreeList = {}
      /\ BCBs \ moved = Linked \cup FreeList
      /\ moved \cap (Linked \cup FreeList) \subseteq {NoBCB}
      /\ \A g, h \in Buckets :
            g # h => ChainFrom(bucket[g]) \cap ChainFrom(bucket[h]) = {}

(* An unmodified page in the pool equals the page on disk, so dropping it  *)
(* without writing it back loses nothing.  (getFrame)                      *)
CleanIsOnDisk ==
  \A b \in Linked \ (BeingLoaded \cup BeingDeleted) :
    ~modified[b] => frame[frameIndex[b]] = disk[pid[b]]

(* After flushAll every page on disk has the content the pool has for it.  *)
Content ==
  LET placed == Linked \ (BeingLoaded \cup BeingDeleted) IN
  [p \in Pages |->
     LET at == {b \in placed : pid[b] = p}
     IN  IF at = {} THEN disk[p] ELSE frame[frameIndex[CHOOSE b \in at : TRUE]]]

FlushAllPersists ==
  [][\A c \in Clients :
       pc[c] = "flushAll" /\ todo[c] = {} /\ pc'[c] = "idle"
         => disk = Content]_vars

(* The buffer manager implements a PageStore: its clients see each page    *)
(* with the content last written to it, wherever that content is now.      *)
Store == INSTANCE PageStore WITH
  content <- Content,
  durable <- disk,
  fixed   <- [c \in Clients |-> {[page |-> h.page, mode |-> h.mode] : h \in held[c]}],
  asked   <- call

ImplementsStore == Store!Spec

(* All frames are taken by pages clients keep fixed: getFrame finds no page *)
(* to replace.                                                              *)
AllFixed ==
  Cardinality({frameIndex[h.bcb] : h \in UNION {held[c] : c \in Clients}}) >= NoFrames
=============================================================================
