-------------------------- MODULE PageHandlesProofs --------------------------
(***************************************************************************)
(* What the handles of a segment point to, for every pool, segment and     *)
(* series of commands, on the invariants of the buffer manager: getPage     *)
(* returns the frame its page is in, and only the pages a scan or a refused *)
(* insertion leaves latched stay so.  The hypothesis is that a life of the *)
(* process that inserts into a segment and reads it has a frame for each of *)
(* its pages; without it the theorem is false.                             *)
(***************************************************************************)
EXTENDS PageHandles, BufferPoolProofs, SequenceTheorems

-----------------------------------------------------------------------------
(***************************************************************************)
(* The hypotheses, and the parts of the invariant.                         *)
(***************************************************************************)
W == Worker
USE DEF W

(* The pages a life of the process can come to fix: the data pages handed   *)
(* out until then, and those of the other commands it gives.                *)
DataOf(s) == UNION {{DataPages[i] : i \in 1 .. Extent[t]} : t \in {u \in Sessions : u <= s}}
Needed(s) == {FSMPage} \cup DataOf(s) \cup (IF "touch" \in Menu[s] THEN OtherPages ELSE {})
Roomy(s) == IsFiniteSet(Needed(s)) /\ Cardinality(Needed(s)) <= NoFrames

(* A life that inserts into a segment and reads it too has a frame for each *)
(* page it can come to fix.                                                 *)
Reading(s) == Menu[s] \cap {"show", "delete"} # {}
Steady == \A s \in Sessions : "insert" \in Menu[s] /\ Reading(s) => Roomy(s)

(* A page holds any sequence of slots, none at first.                       *)
Contents == Versions = Seq(Rows \cup {Gone}) /\ Blank = <<>>

(* The segment and the command that runs. *)
SegmentOK ==
  /\ pages \in Seq(Pages) /\ handle \in Seq(BCBs \cup {NoBCB}) /\ used \in Seq(Nat \ {0})
  /\ Len(handle) = Len(pages) /\ Len(used) = Len(pages)
  /\ \A i \in DOMAIN pages :
       i \in DOMAIN DataPages /\ pages[i] = DataPages[i] /\ pages[i] \in DataOf(session)
  /\ session \in Sessions

Using == {"scan", "fetch", "search", "erase"}

StepOf ==
  \/ step = "ready"
  \/ cmd.op = "insert" /\ step \in {"fsm", "choose", "take", "write"}
  \/ cmd.op = "show" /\ step \in {"scan", "fetch"}
  \/ cmd.op = "delete" /\ step \in {"search", "erase"}
  \/ cmd.op = "touch" /\ step \in {"touch", "touched"}
  \/ cmd.op = "shutdown" /\ step \in {"flush", "flushed"} /\ session + 1 \in Sessions

CommandOK ==
  /\ StepOf
  /\ step # "ready" => cmd.row \in Rows /\ cmd.op \in Menu[session]
  /\ at \in Nat /\ prev \in 0 .. Len(pages)
  /\ \E K : tids \in Seq((1 .. Len(pages)) \X K)
  /\ step \in {"take", "write", "erase"} => at \in DOMAIN pages
  /\ step = "scan" => prev = 0
  /\ step = "fetch" => at = IF tids = <<>> THEN prev ELSE tids[1][1]

(* What the command asks the buffer manager for, and why. *)
Purpose ==
  \/ step = "choose" /\ Page(W) = FSMPage
  \/ step = "write" /\ Page(W) = pages[at]
  \/ /\ step \in Using /\ at \in DOMAIN pages
     /\ call[W] = [kind |-> "fix", page |-> pages[at], mode |-> Wanted]
     /\ IF pc[W] = "upgrade" THEN step = "erase" /\ ptr[W] = handle[at]
        ELSE handle[at] = NoBCB /\ HandedOut(pages[at]) = {}
  \/ step = "touched" /\ Page(W) \in OtherPages /\ \A h \in held[W] : h.page \notin OtherPages
  \/ step = "flushed" /\ pc[W] = "flushAll"

Asking ==
  /\ pc[W] \notin {"reset", "resetHead", "resetWalk", "resetNext"}
  /\ pc[W] = "emptyLatch" => call[W].kind # "fix"
  /\ pc[W] = "flushAll" => step = "flushed"
  /\ pc[W] = "upgrade" => step = "erase"
  /\ pc[W] # "idle" => Purpose

(* The pool holds no page that the partition has not handed out, or that    *)
(* the segment has not set up.                                              *)
Known == {FSMPage, NoPage} \cup {pages[i] : i \in DOMAIN pages}
         \cup (IF "touch" \in Menu[session] THEN OtherPages ELSE {})
KnownOnly ==
  /\ \A b \in BCBs : pid[b] \in Known
  /\ step = "take" /\ New(at) => \A b \in BCBs : pid[b] # pages[at]

(* A latched block is one the client was handed, or one its call works on;  *)
(* mode and fix count say how it is latched.                                *)
Worked == IF pc[W] \in Locating \cup {"read"} THEN {newBCB[W]} ELSE {}
Hunted == IF pc[W] \in {"evictHead", "evictNext"} THEN {victim[W]} ELSE {}
Upgraded == IF pc[W] = "upgrade" THEN {ptr[W]} ELSE {}
Accounted ==
  \A b \in BCBs :
    /\ fixCount[b] = IF mode[b] \in {"S", "X"} THEN 1 ELSE 0
    /\ mode[b] = "S" <=> latchS[b] # {} \/ b \in Upgraded
    /\ ~LatchFree(b) => b \in Worked \cup Hunted \/ \E h \in held[W] : h.bcb = b

(* What a handle of the segment points to, while the segment is read.       *)
Points(i) == handle[i] \in Pool /\ pid[handle[i]] = pages[i] /\ frameIndex[handle[i]] # INVALID
Kept(i)   == \E h \in held[W] : h.bcb = handle[i] /\ h.page = pages[i]
HandlesInv ==
  Reading(session) => \A i \in DOMAIN pages : handle[i] # NoBCB =>
    \/ Roomy(session) /\ Points(i)
    \/ Kept(i)
    \/ pc[W] = "upgrade" /\ i = at

(* Why a page of the segment is latched.                                    *)
PagesOfTids == {tids[k][1] : k \in DOMAIN tids}
Busy == CASE step = "scan"  -> {at} \cup PagesOfTids
          [] step = "fetch" -> {at, prev} \cup PagesOfTids
          [] step \in {"search", "erase"} -> {at}
          [] OTHER -> {}
Empty(i) == Valid(i) = {}
Because(i, h) ==
  \/ step = "write" /\ i = at
  \/ step \in Using /\ i = at /\ handle[i] = NoBCB /\ h.mode = Wanted
  \/ handle[i] = h.bcb /\ h.mode = "S" /\ Empty(i)
  \/ handle[i] = h.bcb /\ (h.mode = "S" \/ step = "erase") /\ i \in Busy
For(h) ==
  \/ h.page = FSMPage
  \/ h.page \in OtherPages /\ step = "touched"
  \/ \E i \in DOMAIN pages : h.page = pages[i] /\ Because(i, h)
HeldFor ==
  /\ \A h \in held[W] : For(h)
  /\ \A g, h \in held[W] : g.page \in OtherPages /\ h.page \in OtherPages => g = h
  /\ step = "fetch" /\ prev # 0 => handle[prev] # NoBCB /\ Kept(prev)

NoEviction == Roomy(session) => pc[W] \notin Evicting

-----------------------------------------------------------------------------
(***************************************************************************)
(* The buffer manager with its one client.                                 *)
(***************************************************************************)
BInv == TypeInv /\ LatchInv /\ Structure /\ Accounted

LEMMA One ==
  /\ W \in Clients /\ Clients = {W} /\ PagesOf[W] = Pages
  /\ OneClient /\ NoSharing /\ Apart
  BY HandlesAssumption DEF W, OneClient, NoSharing, Apart

LEMMA Mine ==
  ASSUME TypeInv, NEW b \in BCBs
  PROVE  latchX[b] \in SUBSET {W} /\ latchS[b] \in SUBSET {W}
  BY One DEF TypeInv, TypeOK, LatchOK

(* A page that is kept fixed is in the pool, under its block, and latched.  *)
LEMMA HeldPlaced ==
  ASSUME TypeInv, Structure, NEW h \in held[W]
  PROVE  /\ h.bcb \in BCBs /\ h.bcb \in Pool /\ pid[h.bcb] = h.page
         /\ h.page \in Pages /\ h.mode \in {"S", "X"}
         /\ frameIndex[h.bcb] \in Frames /\ frameIndex[h.bcb] # INVALID
<1>1. h.bcb \in BCBs /\ h.page \in Pages /\ h.mode \in {"S", "X"}
  BY One DEF TypeInv, TypeOK, ClientOK, Handles
<1>2. h.bcb \in Pool /\ pid[h.bcb] = h.page /\ frameIndex[h.bcb] # INVALID
  BY One DEF Structure, At, Call
<1>3. QED
  BY <1>1, <1>2 DEF TypeInv, TypeOK, BCBOK

LEMMA HeldOnce ==
  ASSUME TypeInv, LatchInv, Structure, NEW g \in held[W], NEW h \in held[W],
         g.bcb = h.bcb \/ g.page = h.page
  PROVE  g = h
<1>1. g.bcb \in Pool /\ h.bcb \in Pool /\ pid[g.bcb] = g.page /\ pid[h.bcb] = h.page
  BY HeldPlaced
<1>2. g.bcb = h.bcb
  BY <1>1 DEF Structure, PagesApart
<1>3. QED
  BY <1>2, One DEF LatchInv, Owns

LEMMA HeldLatched ==
  ASSUME BInv, NEW h \in held[W]
  PROVE  /\ W \in latchX[h.bcb] \cup latchS[h.bcb] /\ ~LatchFree(h.bcb)
         /\ mode[h.bcb] = h.mode /\ fixCount[h.bcb] = 1
         /\ h.mode = "S" => latchX[h.bcb] = {}
<1>1. h.bcb \in BCBs /\ h.mode \in {"S", "X"}
  BY HeldPlaced DEF BInv
<1>2. W \in (IF h.mode = "X" THEN latchX[h.bcb] ELSE latchS[h.bcb])
  BY One DEF BInv, LatchInv, Owns
<1>3. mode[h.bcb] = h.mode
  BY <1>1, <1>2 DEF BInv, LatchInv, LatchExclusion, Accounted
<1>4. h.mode = "S" => latchX[h.bcb] = {}
  BY <1>1, <1>2 DEF BInv, LatchInv, LatchExclusion
<1>5. QED
  BY <1>1, <1>2, <1>3, <1>4 DEF BInv, Accounted, LatchFree

(* The frames of two pages that are kept fixed are two.                     *)
LEMMA HeldFrames ==
  ASSUME TypeInv, Structure, pc[W] # "resetNext", NEW b \in Pool, NEW d \in Pool,
         frameIndex[b] # INVALID, frameIndex[b] = frameIndex[d]
  PROVE  b = d
<1>1. BeingDeleted = {}
  BY One DEF BeingDeleted
<1>2. QED
  BY <1>1 DEF Structure, FramesApart, Placed, FrameValid

(* Steps made while no call runs: what the buffer manager keeps in them.    *)
LEMMA RestType ==
  ASSUME TypeInv, Rest, LatchOK', frame' \in [Frames -> Versions],
         modified' \in [BCBs -> BOOLEAN], held' \in [Clients -> SUBSET Handles]
  PROVE  TypeInv'
<1> USE DEF TypeInv, TypeOK, Rest
<1>1. TableOK' /\ ListOK'
  BY DEF TableOK, ListOK, tableVars, listVars
<1>2. BCBOK' /\ ContentOK'
  BY DEF BCBOK, ContentOK
<1>3. ClientOK' /\ LocalsOK'
  BY DEF ClientOK, LocalsOK
<1>4. QED
  BY <1>1, <1>2, <1>3

LEMMA RestStructure ==
  ASSUME TypeInv, TypeInv', Structure, Idle(W), Rest,
         \A b \in BCBs : modified'[b] => modified[b] \/ FrameValid(b),
         \A h \in held'[W] : /\ h.bcb \in Pool /\ pid[h.bcb] = h.page
                             /\ frameIndex[h.bcb] # INVALID
  PROVE  Structure' /\ Pool' = Pool
<1>1. OnlyFor(W)
  BY One DEF OnlyFor
<1>2. BucketsKept(W) /\ BucketLatches'
  BY BucketsSame, One DEF Rest, tableVars
<1>3. Still(W)
  BY <1>1, <1>2 DEF Still, Rest, tableVars, listVars, Idle, Searching, Locating
<1>4. Pool' = Pool
  BY <1>3, StillLists, One
<1>5. \A h \in held'[W] : h.page \in PagesOf[W]
  BY One DEF TypeInv, TypeOK, ClientOK, Handles
<1>6. At(W)'
  BY <1>4, <1>5, AtRest, One DEF Rest, Idle
<1>7. QED
  BY <1>3, <1>4, <1>6, StillStructure, One

LEMMA QuietKeeps ==
  ASSUME BInv, Idle(W), UNCHANGED vars
  PROVE  BInv' /\ Pool' = Pool
<1> USE DEF BInv
<1>1. TypeInv' /\ LatchInv'
  BY NextType, NextLatch
<1>2. Rest
  BY DEF Rest, vars, tableVars, listVars, bcbVars, latchVars, localVars
<1>3. modified' = modified /\ held' = held
  BY DEF vars, bcbVars, localVars
<1>4. Structure' /\ Pool' = Pool
  BY <1>1, <1>2, <1>3, HeldPlaced, RestStructure
<1>5. Accounted'
  BY DEF Accounted, LatchFree, Worked, Hunted, Upgraded, vars, latchVars, localVars
<1>6. QED
  BY <1>1, <1>4, <1>5

LEMMA UnfixKeeps ==
  ASSUME BInv, Idle(W), Rest, NEW h \in held[W], UnfixBCB(h.bcb),
         frame' \in [Frames -> Versions], modified' \in [BCBs -> BOOLEAN],
         \A b \in BCBs : modified'[b] => modified[b] \/ FrameValid(b)
  PROVE  BInv' /\ Pool' = Pool /\ held'[W] = held[W] \ {h}
<1> USE DEF BInv
<1>1. held \in [Clients -> SUBSET Handles] /\ LatchOK /\ LatchExclusion
  BY DEF TypeInv, TypeOK, ClientOK, LatchInv
<1>2. h.bcb \in BCBs /\ Unlock(h.bcb, W) /\ W \in latchX[h.bcb] \cup latchS[h.bcb]
  BY HeldPlaced, HeldLatched DEF UnfixBCB
<1>3. held'[W] = held[W] \ {h}
  <2>1. held'[W] = {g \in held[W] : g.bcb # h.bcb}
    BY <1>1, One DEF UnfixBCB, W
  <2>2. \A g \in held[W] : g.bcb = h.bcb => g = h
    BY HeldOnce
  <2>3. QED
    BY <2>1, <2>2
<1>4. held' \in [Clients -> SUBSET Handles]
  BY <1>1, One DEF UnfixBCB, W
<1>5. LatchOK'
  BY <1>1, <1>2, UnlockOK, One
<1>6. TypeInv'
  BY <1>4, <1>5, RestType
<1>7. Structure' /\ Pool' = Pool
  BY <1>3, <1>6, HeldPlaced, RestStructure
<1>8. LatchExclusion' /\ \A x \in BCBs \ {h.bcb} : latchX'[x] = latchX[x] /\ latchS'[x] = latchS[x]
  BY <1>1, <1>2, UnlockExcludes, One
<1>9. pc'[W] = "idle" /\ pc[W] = "idle"
  BY DEF Rest, Idle
<1>10. LatchInv'
  <2>1. \A g \in held'[W] : g \in held[W] /\ g.bcb \in BCBs \ {h.bcb}
    BY <1>3, HeldOnce, HeldPlaced
  <2>2. Owns(W)'
    BY <1>8, <1>9, <2>1, One DEF LatchInv, Owns, Locating
  <2>3. QED
    BY <1>8, <2>2, One DEF LatchInv
<1>11. Accounted'
  <2> USE DEF Worked, Hunted, Upgraded, Locating
  <2>1. ASSUME NEW b \in BCBs, b # h.bcb
        PROVE  /\ fixCount'[b] = fixCount[b] /\ mode'[b] = mode[b]
               /\ latchX'[b] = latchX[b] /\ latchS'[b] = latchS[b]
               /\ ~LatchFree(b) => \E g \in held'[W] : g.bcb = b
    <3>1. fixCount'[b] = fixCount[b] /\ mode'[b] = mode[b]
      BY <1>1, <1>2, <2>1 DEF Unlock, LatchOK, latchVars
    <3>2. ~LatchFree(b) => \E g \in held[W] : g.bcb = b
      BY <1>9 DEF Accounted
    <3>3. QED
      BY <1>3, <1>8, <2>1, <3>1, <3>2
  <2>2. /\ fixCount'[h.bcb] = 0 /\ mode'[h.bcb] = "NOLOCK"
        /\ latchX'[h.bcb] = {} /\ latchS'[h.bcb] = {}
    <3>1. fixCount[h.bcb] = 1 /\ mode[h.bcb] \in {"S", "X"}
      BY HeldLatched, HeldPlaced
    <3>2. mode[h.bcb] = "S" => latchX[h.bcb] = {}
      BY <1>1, <1>2 DEF LatchExclusion
    <3>3. mode[h.bcb] = "X" => latchS[h.bcb] = {}
      BY <1>2, <1>1 DEF LatchExclusion
    <3>4. latchX[h.bcb] \in SUBSET {W} /\ latchS[h.bcb] \in SUBSET {W}
      BY <1>2, Mine
    <3>5. CASE mode[h.bcb] = "S"
      BY <1>1, <1>2, <3>1, <3>2, <3>4, <3>5 DEF Unlock, LatchOK
    <3>6. CASE mode[h.bcb] = "X"
      BY <1>1, <1>2, <3>1, <3>3, <3>4, <3>6 DEF Unlock, LatchOK
    <3>7. QED
      BY <3>1, <3>5, <3>6
  <2>3. QED
    BY <1>9, <2>1, <2>2 DEF Accounted, LatchFree
<1>12. QED
  BY <1>3, <1>6, <1>7, <1>10, <1>11

LEMMA RelatchKeeps ==
  ASSUME BInv, Idle(W), Rest, NEW b \in Pool, frameIndex[b] # INVALID, LockS(b, W),
         held' = [held EXCEPT ![W] = @ \cup {[bcb |-> b, page |-> pid[b], mode |-> "S"]}],
         frame' = frame, modified' = modified
  PROVE  /\ BInv' /\ Pool' = Pool
         /\ held'[W] = held[W] \cup {[bcb |-> b, page |-> pid[b], mode |-> "S"]}
<1> USE DEF BInv
<1> DEFINE n == [bcb |-> b, page |-> pid[b], mode |-> "S"]
<1>1. held \in [Clients -> SUBSET Handles] /\ LatchOK /\ LatchExclusion
  BY DEF TypeInv, TypeOK, ClientOK, LatchInv
<1>2. b \in BCBs /\ pid[b] \in Pages
  BY PoolBCBs DEF Structure, PagesApart, Pool
<1>3. held'[W] = held[W] \cup {n} /\ held' \in [Clients -> SUBSET Handles]
  BY <1>1, <1>2, One DEF Handles
<1>4. LatchExclusion' /\ W \in latchS'[b] /\ latchX' = latchX
      /\ \A x \in BCBs \ {b} : latchS'[x] = latchS[x]
  BY <1>1, <1>2, LockSExcludes, One
<1>5. TypeInv'
  <2>1. LatchOK'
    BY <1>1, <1>2, LockSOK, One
  <2>2. frame \in [Frames -> Versions] /\ modified \in [BCBs -> BOOLEAN]
    BY DEF TypeInv, TypeOK, ContentOK, BCBOK
  <2>3. QED
    BY <1>3, <2>1, <2>2, RestType
<1>6. Structure' /\ Pool' = Pool
  BY <1>3, <1>5, HeldPlaced, RestStructure
<1>7. pc'[W] = "idle" /\ pc[W] = "idle"
  BY DEF Rest, Idle
<1>8. latchX[b] = {} /\ latchS[b] = {}
  BY <1>2, Mine DEF LockS
<1>9. \A h \in held[W] : h.bcb # b
  BY <1>8, HeldLatched DEF LatchFree
<1>10. Owns(W)'
  <2>1. \A h \in held[W] : h.bcb \in BCBs \ {b}
    BY <1>9, HeldPlaced
  <2>2. QED
    BY <1>3, <1>4, <1>7, <2>1, One DEF LatchInv, Owns, Locating
<1>11. Accounted'
  <2> USE DEF Worked, Hunted, Upgraded, Locating
  <2>1. fixCount'[b] = 1 /\ mode'[b] = "S"
    <3>1. fixCount[b] = 0
      BY <1>2, <1>7, <1>8 DEF Accounted, LatchInv, LatchExclusion
    <3>2. QED
      BY <1>1, <1>2, <3>1 DEF LockS, LatchOK
  <2>2. ASSUME NEW x \in BCBs, x # b
        PROVE  fixCount'[x] = fixCount[x] /\ mode'[x] = mode[x]
    BY <1>1, <2>2 DEF LockS, LatchOK
  <2>3. \A x \in BCBs : ~LatchFree(x) => \E h \in held[W] : h.bcb = x
    BY <1>7 DEF Accounted
  <2>4. \A x \in BCBs : ~LatchFree(x)' => \E h \in held'[W] : h.bcb = x
    <3>1. n \in held'[W] /\ n.bcb = b
      BY <1>3
    <3>2. \A x \in BCBs \ {b} : LatchFree(x)' = LatchFree(x)
      BY <1>4 DEF LatchFree
    <3>3. \A x \in BCBs \ {b} : ~LatchFree(x)' => \E h \in held'[W] : h.bcb = x
      BY <1>3, <2>3, <3>2
    <3>4. QED
      BY <3>1, <3>3
  <2>5. \A x \in BCBs : mode'[x] = "S" <=> latchS'[x] # {}
    BY <1>4, <1>7, <2>1, <2>2 DEF Accounted
  <2>6. \A x \in BCBs : fixCount'[x] = IF mode'[x] \in {"S", "X"} THEN 1 ELSE 0
    BY <2>1, <2>2 DEF Accounted
  <2>7. QED
    BY <1>7, <2>4, <2>5, <2>6 DEF Accounted
<1>12. QED
  BY <1>3, <1>4, <1>5, <1>6, <1>10, <1>11, One DEF LatchInv

LEMMA AskKeeps ==
  ASSUME BInv, NEW kind \in {"fix", "emptyfix"}, NEW p \in Pages, NEW m \in {"S", "X"},
         Ask(kind, p, m), kind = "emptyfix" => \A b \in BCBs : pid[b] # p
  PROVE  /\ BInv' /\ Pool' = Pool
         /\ pc'[W] = IF kind = "fix" THEN "lookup" ELSE "popCheck"
         /\ call'[W] = [kind |-> kind, page |-> p, mode |-> m]
         /\ UNCHANGED <<pid, frameIndex, frame, held, ptr>>
<1> USE DEF BInv
<1> DEFINE l == IF kind = "fix" THEN "lookup" ELSE "popCheck"
<1>1. /\ pc[W] = "idle" /\ Begin(W, kind, p, m, l)
      /\ todo' = [todo EXCEPT ![W] = {}]
      /\ UNCHANGED <<tableVars, listVars, bcbVars, latchVars, frame, disk,
                     ptr, newBCB, victim, home, got, held>>
  BY DEF Ask, Waits, Idle
<1>2. TypeInv'
  <2> USE DEF TypeInv, TypeOK
  <2>1. TableOK' /\ ListOK' /\ BCBOK' /\ LatchOK' /\ ContentOK'
    BY <1>1 DEF TableOK, ListOK, BCBOK, LatchOK, ContentOK, tableVars, listVars, bcbVars, latchVars
  <2>2. [kind |-> kind, page |-> p, mode |-> m] \in Calls
    BY DEF Calls
  <2>3. todo' \in [Clients -> SUBSET BCBs]
    BY <1>1 DEF ClientOK
  <2>4. ClientOK' /\ LocalsOK'
    BY <1>1, <2>2, <2>3, BeginOK, One
  <2>5. QED
    BY <2>1, <2>4
<1>3. /\ pc'[W] = l /\ call'[W] = [kind |-> kind, page |-> p, mode |-> m]
      /\ l \in {"lookup", "popCheck"}
  BY <1>1, One DEF Begin, Goto, TypeInv, TypeOK, ClientOK
<1>4. LatchInv'
  BY <1>1, <1>3, One, QuietLatch DEF Others, Locating, latchVars
<1>5. Still(W)
  <2>1. BucketsKept(W) /\ BucketLatches'
    BY <1>1, BucketsSame, One DEF tableVars
  <2>2. QED
    BY <1>1, <1>3, <2>1, One
    DEF Still, OnlyFor, tableVars, listVars, bcbVars, Searching, Locating
<1>6. Pool' = Pool
  BY <1>5, StillLists, One
<1>7. kind = "emptyfix" => /\ \A h \in held[W] : h.page # p
                           /\ \A b \in Pool : pid[b] # p
  BY HeldPlaced, PoolBCBs
<1>8. Structure'
  BY <1>1, <1>2, <1>3, <1>5, <1>7, One, Begun DEF Idle
<1>9. Accounted'
  BY <1>1, <1>3
  DEF Accounted, LatchFree, Worked, Hunted, Upgraded, Locating, latchVars
<1>10. QED
  BY <1>1, <1>2, <1>3, <1>4, <1>6, <1>8, <1>9 DEF bcbVars

LEMMA AskFlushKeeps ==
  ASSUME BInv, Ask("flushAll", NoPage, "S")
  PROVE  /\ BInv' /\ Pool' = Pool /\ pc'[W] = "flushAll"
         /\ UNCHANGED <<pid, frameIndex, frame, held, ptr>>
<1> USE DEF BInv
<1>1. CallFlushAll(W)
  BY One DEF Ask, CallFlushAll, Waits, Idle
<1>2. Request(W)
  BY <1>1 DEF Request
<1>3. TypeInv' /\ LatchInv' /\ Structure' /\ Still(W)
  BY <1>2, RequestType, RequestLatch, RequestStructure, One
<1>4. pc'[W] = "flushAll" /\ pc[W] = "idle" /\ UNCHANGED <<latchVars, bcbVars, frame, held, ptr>>
  BY <1>1, One DEF CallFlushAll, Begin, Goto, Idle, TypeInv, TypeOK, ClientOK
<1>5. Accounted'
  BY <1>4 DEF Accounted, LatchFree, Worked, Hunted, Upgraded, Locating, latchVars
<1>6. QED
  BY <1>3, <1>4, <1>5, StillLists, One DEF bcbVars

LEMMA UpgradeKeeps ==
  ASSUME BInv, NEW h \in held[W], UpgradeRelease(W, h)
  PROVE  /\ BInv' /\ Pool' = Pool /\ pc'[W] = "upgrade" /\ ptr'[W] = h.bcb
         /\ call'[W] = [kind |-> "fix", page |-> h.page, mode |-> "X"]
         /\ held'[W] = held[W] \ {h}
         /\ UNCHANGED <<pid, frameIndex, frame>>
<1> USE DEF BInv
<1>1. Use(W)
  BY DEF Use
<1>2. TypeInv' /\ LatchInv' /\ Structure' /\ Still(W)
  BY <1>1, UseType, UseLatch, UseStructure, One
<1>3. /\ pc'[W] = "upgrade" /\ pc[W] = "idle" /\ ptr'[W] = h.bcb
      /\ call'[W] = [kind |-> "fix", page |-> h.page, mode |-> "X"]
      /\ held'[W] = held[W] \ {h} /\ UNCHANGED <<bcbVars, frame, mode, fixCount, latchX>>
  BY One DEF UpgradeRelease, Begin, Goto, Idle, TypeInv, TypeOK, ClientOK
<1>4. h.bcb \in BCBs /\ h.mode = "S"
  BY HeldPlaced DEF UpgradeRelease
<1>5. /\ \A b \in BCBs \ {h.bcb} : latchS'[b] = latchS[b]
      /\ latchS'[h.bcb] = {} /\ latchX'[h.bcb] = {} /\ mode[h.bcb] = "S"
  BY <1>3, <1>4, HeldLatched, Mine DEF UpgradeRelease, TypeInv, TypeOK, LatchOK
<1>6. Accounted'
  <2> USE DEF Worked, Hunted, Upgraded, Locating
  <2>1. ASSUME NEW b \in BCBs, ~LatchFree(b)' PROVE \E g \in held'[W] : g.bcb = b
    <3>1. b # h.bcb /\ ~LatchFree(b)
      BY <1>3, <1>5, <2>1 DEF LatchFree
    <3>2. PICK g \in held[W] : g.bcb = b
      BY <1>3, <3>1 DEF Accounted
    <3>3. QED
      BY <1>3, <3>1, <3>2
  <2>2. ASSUME NEW b \in BCBs PROVE mode'[b] = "S" <=> latchS'[b] # {} \/ b = h.bcb
    BY <1>3, <1>5 DEF Accounted
  <2>3. \A b \in BCBs : fixCount'[b] = IF mode'[b] \in {"S", "X"} THEN 1 ELSE 0
    BY <1>3 DEF Accounted
  <2>4. QED
    BY <1>3, <2>1, <2>2, <2>3 DEF Accounted
<1>7. QED
  BY <1>2, <1>3, <1>6, StillLists, One DEF bcbVars

-----------------------------------------------------------------------------
(***************************************************************************)
(* The steps of a call.                                                    *)
(***************************************************************************)
SameLatch(x) == /\ mode'[x] = mode[x] /\ fixCount'[x] = fixCount[x]
                /\ latchX'[x] = latchX[x] /\ latchS'[x] = latchS[x]
Mentioned(x) == x \in Worked \cup Hunted \/ \E h \in held[W] : h.bcb = x

LEMMA LockedX ==
  ASSUME TypeInv, NEW b \in BCBs, LockX(b, W)
  PROVE  /\ mode'[b] = "X" /\ fixCount'[b] = 1 /\ latchX'[b] = {W} /\ latchS'[b] = {}
         /\ \A x \in BCBs \ {b} : SameLatch(x)
  BY DEF TypeInv, TypeOK, LatchOK, LockX, LatchFree, SameLatch

LEMMA LockedS ==
  ASSUME TypeInv, LatchInv, Accounted, NEW b \in BCBs, b \notin Upgraded, LockS(b, W)
  PROVE  /\ mode'[b] = "S" /\ fixCount'[b] = 1 /\ latchX'[b] = {} /\ latchS'[b] = {W}
         /\ \A x \in BCBs \ {b} : SameLatch(x)
<1>1. latchX[b] = {} /\ latchS[b] = {}
  BY Mine DEF LockS
<1>2. fixCount[b] = 0
  BY <1>1 DEF Accounted, LatchInv, LatchExclusion
<1>3. QED
  BY <1>1, <1>2 DEF TypeInv, TypeOK, LatchOK, LockS, SameLatch

LEMMA Unlocked ==
  ASSUME TypeInv, LatchInv, Accounted, NEW b \in BCBs, Unlock(b, W),
         W \in latchX[b] \cup latchS[b]
  PROVE  /\ mode'[b] = "NOLOCK" /\ fixCount'[b] = 0 /\ latchX'[b] = {} /\ latchS'[b] = {}
         /\ \A x \in BCBs \ {b} : SameLatch(x)
<1>1. latchX[b] \in SUBSET {W} /\ latchS[b] \in SUBSET {W}
  BY Mine
<1>2. fixCount[b] = 1 /\ mode[b] \in {"S", "X"}
  BY DEF Accounted, LatchInv, LatchExclusion
<1>3. CASE mode[b] = "S"
  <2>1. latchX[b] = {}
    BY <1>3 DEF LatchInv, LatchExclusion
  <2>2. QED
    BY <1>1, <1>2, <1>3, <2>1 DEF Unlock, TypeInv, TypeOK, LatchOK, SameLatch
<1>4. CASE mode[b] = "X"
  <2>1. latchS[b] = {}
    BY <1>4 DEF LatchInv, LatchExclusion
  <2>2. QED
    BY <1>1, <1>2, <1>4, <2>1 DEF Unlock, TypeInv, TypeOK, LatchOK, SameLatch
<1>5. QED
  BY <1>2, <1>3, <1>4

LEMMA AccountedQuiet ==
  ASSUME Accounted, UNCHANGED latchVars, \A x \in BCBs : Mentioned(x) => Mentioned(x)',
         Upgraded' = Upgraded
  PROVE  Accounted'
  BY DEF Accounted, Mentioned, LatchFree, latchVars

LEMMA AccountedBut ==
  ASSUME Accounted, NEW b \in BCBs, \A x \in BCBs \ {b} : SameLatch(x),
         \A x \in BCBs \ {b} : Mentioned(x) => Mentioned(x)',
         \A x \in BCBs \ {b} : x \in Upgraded' <=> x \in Upgraded,
         fixCount'[b] = (IF mode'[b] \in {"S", "X"} THEN 1 ELSE 0),
         mode'[b] = "S" <=> latchS'[b] # {} \/ b \in Upgraded',
         LatchFree(b)' \/ Mentioned(b)'
  PROVE  Accounted'
<1>1. ASSUME NEW x \in BCBs, x # b
      PROVE  /\ fixCount'[x] = IF mode'[x] \in {"S", "X"} THEN 1 ELSE 0
             /\ mode'[x] = "S" <=> latchS'[x] # {} \/ x \in Upgraded'
             /\ ~LatchFree(x)' => Mentioned(x)'
  BY <1>1 DEF Accounted, SameLatch, LatchFree, Mentioned
<1>2. QED
  BY <1>1 DEF Accounted, Mentioned

LEMMA ProceedAccounted ==
  ASSUME BInv, Proceed(W), pc[W] \notin {"reset", "resetHead", "resetWalk", "resetNext"}
  PROVE  Accounted'
<1> USE DEF BInv, TypeInv, TypeOK, ClientOK, Goto, Locating, Worked, Hunted, Upgraded, Mentioned
<1> USE One
<1>1. CASE FixLookup(W) \/ FixWalk(W) \/ PopCheck(W)
  BY <1>1, AccountedQuiet DEF FixLookup, FixWalk, PopCheck, localVars
<1>2. CASE Pop(W) \/ Link(W)
  BY <1>2, AccountedQuiet DEF Pop, Link, localVars
<1>3. CASE PopFrame(W) \/ TryBucket(W)
  BY <1>3, AccountedQuiet DEF PopFrame, TryBucket, localVars
<1>4. CASE AssertFails(W)
  BY <1>4, NoBadFrame DEF AssertFails
<1>5. CASE (\E b \in todo[W] : FlushNext(W, b)) \/ FlushDone(W)
  BY <1>5, AccountedQuiet DEF FlushNext, FlushDone, Return
<1>6. CASE Claim(W)
  <2>1. newBCB[W] \in BCBs /\ LockX(newBCB[W], W)
    BY <1>6 DEF Claim, LocalsOK, NewSet
  <2>2. pc'[W] = "link" /\ pc[W] = "claim" /\ UNCHANGED localVars
    BY <1>6 DEF Claim
  <2>3. QED
    BY <2>1, <2>2, LockedX, AccountedBut DEF localVars
<1>7. CASE TryHead(W) \/ TryNext(W)
  BY <1>7, AccountedQuiet DEF TryHead, TryNext
<1>8. CASE TryVictim(W)
  <2>1. CASE LatchFree(victim[W])
    <3>1. /\ victim[W] \in BCBs /\ LockX(victim[W], W) /\ victim' = victim
          /\ pc'[W] \in {"evictHead", "evictNext"} /\ pc[W] \in {"lockHead", "lockNext"}
          /\ newBCB' = newBCB /\ held' = held
      BY <1>8, <2>1 DEF TryVictim, LocalsOK, VictimSet
    <3>2. QED
      BY <3>1, LockedX, AccountedBut
  <2>2. CASE ~LatchFree(victim[W])
    BY <1>8, <2>2, AccountedQuiet DEF TryVictim, LockX
  <2>3. QED
    BY <2>1, <2>2
<1>9. CASE Evict(W)
  <2>1. /\ victim[W] \in BCBs /\ Unlock(victim[W], W) /\ W \in latchX[victim[W]]
        /\ pc[W] \in {"evictHead", "evictNext"} /\ pc'[W] = "place"
        /\ newBCB' = newBCB /\ held' = held
    BY <1>9 DEF Evict, LocalsOK, VictimSet, LatchInv, Owns
  <2>2. QED
    BY <2>1, Unlocked, AccountedBut DEF LatchFree
<1>10. CASE Place(W)
  <2>1. /\ newBCB[W] \in BCBs /\ Unlock(newBCB[W], W) /\ W \in latchX[newBCB[W]]
        /\ pc[W] = "place" /\ pc'[W] \in {"readLatch", "emptyLatch"} /\ held' = held
    BY <1>10 DEF Place, LocalsOK, NewSet, LatchInv, Owns, localVars
  <2>2. QED
    BY <2>1, Unlocked, AccountedBut DEF LatchFree
<1>11. CASE ReadLatch(W)
  <2>1. /\ newBCB[W] \in BCBs /\ LockS(newBCB[W], W)
        /\ pc[W] = "readLatch" /\ pc'[W] = "read" /\ held' = held /\ newBCB' = newBCB
    BY <1>11 DEF ReadLatch, LocalsOK, NewSet, localVars
  <2>2. QED
    BY <2>1, LockedS, AccountedBut
<1>12. CASE Read(W)
  <2>1. /\ newBCB[W] \in BCBs /\ Unlock(newBCB[W], W) /\ W \in latchS[newBCB[W]]
        /\ pc[W] = "read" /\ pc'[W] = "latch" /\ held' = held
    BY <1>12 DEF Read, LocalsOK, NewSet, LatchInv, Owns
  <2>2. QED
    BY <2>1, Unlocked, AccountedBut DEF LatchFree
<1>13. CASE Latch(W) \/ UpgradeAcquire(W)
  <2> DEFINE b == ptr[W]
             m == IF pc[W] = "upgrade" THEN "X" ELSE call[W].mode
  <2>1. /\ b \in BCBs /\ pc[W] \in {"latch", "upgrade"} /\ pc'[W] = "idle"
        /\ Lock(b, W, m) /\ Hold(W, b, m)
    BY <1>13 DEF Latch, UpgradeAcquire, LocalsOK, PtrSet, Return, Lock
  <2>2. \E h \in held'[W] : h.bcb = b
    <3> DEFINE n == [bcb |-> b, page |-> Page(W), mode |-> m]
    <3>1. n \in held'[W]
      BY <2>1 DEF Hold
    <3>2. n.bcb = b
      OBVIOUS
    <3>3. QED
      BY <3>1, <3>2
  <2>3. \A h \in held[W] : h \in held'[W]
    BY <2>1 DEF Hold
  <2>4. CASE m = "X"
    <3>1. LockX(b, W)
      BY <2>1, <2>4 DEF Lock
    <3>2. QED
      BY <2>1, <2>2, <2>3, <3>1, LockedX, AccountedBut
  <2>5. CASE m # "X"
    <3>1. LockS(b, W) /\ pc[W] = "latch"
      BY <2>1, <2>5 DEF Lock
    <3>2. QED
      BY <2>1, <2>2, <2>3, <3>1, LockedS, AccountedBut
  <2>6. QED
    BY <2>4, <2>5
<1>14. CASE EmptyLatch(W)
  <2> DEFINE b == newBCB[W]
  <2>1. /\ b \in BCBs /\ pc[W] = "emptyLatch" /\ pc'[W] = "idle"
        /\ LockX(b, W) /\ Hold(W, b, "X")
    BY <1>14 DEF EmptyLatch, LocalsOK, NewSet, Return
  <2>2. \E h \in held'[W] : h.bcb = b
    <3> DEFINE n == [bcb |-> b, page |-> Page(W), mode |-> "X"]
    <3>1. n \in held'[W]
      BY <2>1 DEF Hold
    <3>2. n.bcb = b
      OBVIOUS
    <3>3. QED
      BY <3>1, <3>2
  <2>3. \A h \in held[W] : h \in held'[W]
    BY <2>1 DEF Hold
  <2>4. QED
    BY <2>1, <2>2, <2>3, LockedX, AccountedBut
<1>15. CASE ResetHead(W) \/ ResetWalk(W) \/ ResetFree(W)
  BY <1>15 DEF ResetHead, ResetWalk, ResetFree
<1>16. QED
  BY <1>1, <1>2, <1>3, <1>4, <1>5, <1>6, <1>7, <1>8, <1>9, <1>10, <1>11, <1>12, <1>13, <1>14,
     <1>15 DEF Proceed

(* A step of a call, made by the one client.                                *)
Working == Proceed(W) \/ \E h \in Buckets : PickBucket(W, h)
Resets == {"reset", "resetHead", "resetWalk", "resetNext"}

(* It goes on, or hands out a block, or ends flushAll.                      *)
Goes ==
  /\ pc'[W] \notin {"idle", "upgrade"} \cup Resets /\ pc[W] \notin {"idle", "upgrade"}
  /\ held' = held /\ call' = call
  /\ pc'[W] = "flushAll" <=> pc[W] = "flushAll"
  /\ pc'[W] = "emptyLatch" => call[W].kind # "fix"
  /\ pc'[W] \in Evicting => pc[W] \in Evicting \/ (pc[W] = "getFrame" /\ Len(freeFrames) = 0)

HandsOut(n) ==
  /\ pc'[W] = "idle" /\ held'[W] = held[W] \cup {n} /\ n.page = Page(W)
  /\ \/ pc[W] = "latch" /\ n.mode = call[W].mode
     \/ pc[W] = "upgrade" /\ n.mode = "X" /\ n.bcb = ptr[W]
     \/ pc[W] = "emptyLatch" /\ n.mode = "X"

Flushed == pc[W] = "flushAll" /\ pc'[W] = "idle" /\ held' = held

LEMMA WorkingKeeps ==
  ASSUME BInv, Spare, pc[W] \notin Resets, Working
  PROVE  BInv'
<1> USE DEF BInv
<1>1. CASE Proceed(W)
  <2>1. TypeInv' /\ LatchInv' /\ Accounted'
    BY <1>1, One, ProceedType, ProceedLatch, ProceedAccounted DEF Resets
  <2>2. QED
    BY <1>1, <2>1, One, StepStructure DEF Step
<1>2. CASE \E h \in Buckets : PickBucket(W, h)
  <2>1. TypeInv' /\ LatchInv'
    BY <1>2, One, PickType, ProceedQuiet
  <2>2. pc[W] = "pick" /\ pc'[W] = "tryBucket" /\ newBCB' = newBCB /\ held' = held
        /\ UNCHANGED latchVars
    BY <1>2, One DEF PickBucket, Goto, TypeInv, TypeOK, ClientOK
  <2>3. Accounted'
    BY <2>2, AccountedQuiet DEF Mentioned, Worked, Hunted, Upgraded, Locating
  <2>4. QED
    BY <1>2, <2>1, <2>3, One, StepStructure DEF Step
<1>3. QED
  BY <1>1, <1>2 DEF Working

LEMMA Outcomes ==
  ASSUME BInv, pc[W] \notin Resets, Working
  PROVE  Goes \/ (\E n : HandsOut(n)) \/ Flushed
<1> USE DEF BInv, TypeInv, TypeOK, ClientOK, Goto, Resets, Evicting
<1> USE One
<1>1. CASE FixLookup(W) \/ FixWalk(W) \/ PopCheck(W) \/ Pop(W) \/ Claim(W) \/ Link(W)
  BY <1>1 DEF FixLookup, FixWalk, PopCheck, Pop, Claim, Link, Goes, localVars
<1>2. CASE PopFrame(W)
  BY <1>2 DEF PopFrame, Goes, ListOK
<1>3. CASE TryBucket(W) \/ TryHead(W) \/ TryNext(W) \/ TryVictim(W)
  BY <1>3 DEF TryBucket, TryHead, TryNext, TryVictim, Goes, localVars
<1>4. CASE Evict(W) \/ Place(W) \/ ReadLatch(W) \/ Read(W)
  BY <1>4 DEF Evict, Place, ReadLatch, Read, Goes, localVars
<1>5. CASE AssertFails(W)
  BY <1>5, NoBadFrame DEF AssertFails
<1>6. CASE \E h \in Buckets : PickBucket(W, h)
  BY <1>6 DEF PickBucket, Goes
<1>7. CASE \E b \in todo[W] : FlushNext(W, b)
  BY <1>7 DEF FlushNext, Goes
<1>8. CASE FlushDone(W)
  BY <1>8 DEF FlushDone, Return, Flushed
<1>9. CASE Latch(W)
  <2> DEFINE n == [bcb |-> ptr[W], page |-> Page(W), mode |-> call[W].mode]
  <2>1. HandsOut(n)
    BY <1>9 DEF Latch, Hold, Return, HandsOut
  <2>2. QED
    BY <2>1
<1>10. CASE UpgradeAcquire(W)
  <2> DEFINE n == [bcb |-> ptr[W], page |-> Page(W), mode |-> "X"]
  <2>1. HandsOut(n)
    BY <1>10 DEF UpgradeAcquire, Hold, Return, HandsOut
  <2>2. QED
    BY <2>1
<1>11. CASE EmptyLatch(W)
  <2> DEFINE n == [bcb |-> newBCB[W], page |-> Page(W), mode |-> "X"]
  <2>1. HandsOut(n)
    BY <1>11 DEF EmptyLatch, Hold, Return, HandsOut
  <2>2. QED
    BY <2>1
<1>12. CASE ResetHead(W) \/ ResetWalk(W) \/ ResetFree(W)
  BY <1>12 DEF ResetHead, ResetWalk, ResetFree
<1>13. QED
  BY <1>1, <1>2, <1>3, <1>4, <1>5, <1>6, <1>7, <1>8, <1>9, <1>10, <1>11, <1>12
  DEF Working, Proceed

(* A block of the pool that has a frame keeps page and frame, and leaves    *)
(* the pool only when getFrame looks for a page to replace.                 *)
LEMMA WorkingPlaces ==
  ASSUME BInv, BInv', Spare, pc[W] \notin Resets, Working
  PROVE  /\ \A b \in Pool : frameIndex[b] # INVALID =>
              /\ pid'[b] = pid[b] /\ frameIndex'[b] = frameIndex[b]
              /\ pc[W] \in Evicting \/ b \in Pool'
         /\ \A b \in BCBs : pid'[b] = pid[b] \/ (pc[W] = "claim" /\ pid'[b] = Page(W))
<1> USE DEF BInv
<1> USE One
<1> DEFINE Stays == UNCHANGED <<pid, frameIndex>> /\ Pool \subseteq Pool'
<1>1. Still(W) => Stays
  BY StillLists DEF Still
<1>2. CASE FixLookup(W) \/ FixWalk(W) \/ PopCheck(W)
  BY <1>1, <1>2, LookupStructure, WalkStructure, PopCheckStructure
<1>3. CASE Pop(W)
  BY <1>3, PopStructure DEF Pop, bcbVars
<1>4. CASE Link(W)
  BY <1>4, LinkStructure DEF Link, bcbVars
<1>5. CASE PopFrame(W)
  BY <1>5, PopFrameStructure DEF PopFrame, bcbVars
<1>6. CASE TryBucket(W) \/ TryHead(W) \/ TryNext(W) \/ TryVictim(W)
  BY <1>1, <1>6, TryBucketStructure, TryHeadStructure, TryNextStructure, TryVictimStructure
<1>7. CASE \E h \in Buckets : PickBucket(W, h)
  BY <1>1, <1>7, PickStructure
<1>8. CASE ReadLatch(W) \/ Read(W) \/ Latch(W)
  BY <1>1, <1>8, ReadLatchStructure, ReadStructure, LatchStructure
<1>9. CASE EmptyLatch(W) \/ UpgradeAcquire(W)
  BY <1>1, <1>9, EmptyLatchStructure, UpgradeStructure
<1>10. CASE (\E b \in todo[W] : FlushNext(W, b)) \/ FlushDone(W)
  BY <1>1, <1>10, FlushStructure
<1>11. CASE AssertFails(W)
  BY <1>11, NoBadFrame DEF AssertFails
<1>12. CASE Evict(W)
  BY <1>12 DEF Evict, bcbVars, Evicting
<1>13. CASE Claim(W)
  <2>1. pc[W] = "claim" /\ newBCB[W] \in BCBs
    BY <1>13 DEF Claim, TypeInv, LocalsOK, NewSet
  <2>2. newBCB[W] \notin Pool
    BY <2>1 DEF Structure, Lists, ListsApart, Taken, Pool
  <2>3. Pool' = Pool
    BY <1>13, ClaimStructure
  <2>4. /\ pid' = [pid EXCEPT ![newBCB[W]] = Page(W)]
        /\ frameIndex' = [frameIndex EXCEPT ![newBCB[W]] = INVALID]
        /\ pid \in [BCBs -> Pages \cup {NoPage}] /\ frameIndex \in [BCBs -> Frames \cup {INVALID}]
    BY <1>13 DEF Claim, TypeInv, TypeOK, BCBOK
  <2>5. Pool \in SUBSET BCBs
    BY PoolBCBs
  <2>6. QED
    BY <2>1, <2>2, <2>3, <2>4, <2>5
<1>14. CASE Place(W)
  <2>1. frameIndex[newBCB[W]] = INVALID
    BY <1>14 DEF Place, Structure, At, Call, Locating
  <2>2. Pool' = Pool /\ Pool \in SUBSET BCBs
    BY <1>14, PlaceStructure, PoolBCBs
  <2>3. frameIndex' = [frameIndex EXCEPT ![newBCB[W]] = got[W]] /\ pid' = pid
        /\ frameIndex \in [BCBs -> Frames \cup {INVALID}]
    BY <1>14 DEF Place, TypeInv, TypeOK, BCBOK
  <2>4. QED
    BY <2>1, <2>2, <2>3
<1>15. CASE ResetHead(W) \/ ResetWalk(W) \/ ResetFree(W)
  BY <1>15 DEF ResetHead, ResetWalk, ResetFree, Resets
<1>16. QED
  BY <1>2, <1>3, <1>4, <1>5, <1>6, <1>7, <1>8, <1>9, <1>10, <1>11, <1>12, <1>13, <1>14, <1>15
  DEF Working, Proceed

(* What a page that is kept fixed holds is not overwritten.                 *)
LEMMA WorkingFrames ==
  ASSUME BInv, pc[W] \notin Resets, Working, NEW h \in held[W]
  PROVE  frame'[frameIndex[h.bcb]] = frame[frameIndex[h.bcb]]
<1> USE DEF BInv
<1> USE One
<1>1. CASE Read(W)
  <2>1. /\ pc[W] = "read" /\ frame' = [frame EXCEPT ![frameIndex[newBCB[W]]] = disk[Page(W)]]
        /\ frame \in [Frames -> Versions]
    BY <1>1 DEF Read, TypeInv, TypeOK, ContentOK
  <2>2. /\ newBCB[W] \in Pool /\ pid[newBCB[W]] = Page(W) /\ frameIndex[newBCB[W]] # INVALID
        /\ h.page # Page(W)
    BY <2>1 DEF Structure, At, Call, Opening, Searching, Locating, Seeking
  <2>3. h.bcb \in Pool /\ pid[h.bcb] = h.page /\ frameIndex[h.bcb] # INVALID
        /\ frameIndex[h.bcb] \in Frames
    BY HeldPlaced
  <2>4. frameIndex[h.bcb] # frameIndex[newBCB[W]]
    BY <2>1, <2>2, <2>3, HeldFrames
  <2>5. QED
    BY <2>1, <2>3, <2>4
<1>2. CASE ~Read(W)
  BY <1>2 DEF Working, Proceed, PickBucket, Resets, FixLookup, FixWalk, PopCheck, Pop, Claim, Link,
     PopFrame, TryBucket, TryHead, TryNext, TryVictim, Evict, Place, ReadLatch, Latch, EmptyLatch,
     AssertFails, UpgradeAcquire, FlushNext, FlushDone, ResetHead, ResetWalk, ResetFree
<1>3. QED
  BY <1>1, <1>2

-----------------------------------------------------------------------------
(***************************************************************************)
(* The invariant of the segment.                                           *)
(***************************************************************************)
HI == SegmentOK /\ CommandOK /\ Asking /\ KnownOnly /\ HandlesInv /\ HeldFor /\ NoEviction
Same == UNCHANGED <<segVars, cmdVars>>

(* The pool holds no other pages than those the life of the process needs.  *)
LEMMA NeededPages ==
  ASSUME BInv, SegmentOK, KnownOnly, NEW b \in Pool
  PROVE  pid[b] \in Needed(session)
<1>1. b \in BCBs /\ pid[b] \in Pages
  BY PoolBCBs DEF BInv, Structure, PagesApart, Pool
<1>2. pid[b] # NoPage
  BY <1>1, BufferAssumption DEF NoPage
<1>3. pid[b] \in Known
  BY <1>1 DEF KnownOnly
<1>4. \A i \in DOMAIN pages : pages[i] \in DataOf(session)
  BY DEF SegmentOK
<1>5. QED
  BY <1>2, <1>3, <1>4 DEF Known, Needed

LEMMA HandlesType ==
  ASSUME SegmentOK, NEW i \in DOMAIN pages
  PROVE  /\ handle[i] \in BCBs \cup {NoBCB} /\ pages[i] \in Pages /\ used[i] \in Nat \ {0}
         /\ i \in Nat \ {0} /\ DOMAIN handle = DOMAIN pages /\ DOMAIN used = DOMAIN pages
         /\ DOMAIN pages = 1 .. Len(pages) /\ Len(pages) \in Nat
  BY DEF SegmentOK

LEMMA WorkingAsks ==
  ASSUME BInv, HI, Working, Same
  PROVE  SegmentOK' /\ CommandOK' /\ Asking' /\ pc[W] \notin Resets
<1>1. UNCHANGED <<pages, handle, used, cmd, step, at, prev, tids, out, session>>
  BY DEF Same, segVars, cmdVars, runVars
<1>2. SegmentOK'
  BY <1>1 DEF HI, SegmentOK
<1>3. CommandOK'
  BY <1>1 DEF HI, CommandOK, StepOf
<1>4. pc[W] \notin Resets
  BY DEF HI, Asking, Resets
<1>5. CASE Goes
  <2>1. pc[W] # "idle" /\ held' = held /\ call' = call /\ pc'[W] # "upgrade" /\ pc[W] # "upgrade"
        /\ (pc[W] = "flushAll" => pc'[W] = "flushAll")
    BY <1>5 DEF Goes
  <2>2. Purpose
    BY <2>1 DEF HI, Asking
  <2>3. Page(W)' = Page(W) /\ Wanted' = Wanted /\ \A p : HandedOut(p)' = HandedOut(p)
    BY <1>1, <2>1 DEF Page, Wanted, HandedOut
  <2>4. Purpose'
    BY <1>1, <2>1, <2>2, <2>3 DEF Purpose
  <2>5. QED
    BY <1>1, <1>2, <1>3, <1>4, <1>5, <2>1, <2>4 DEF HI, Asking, Goes, Resets
<1>6. CASE (\E n : HandsOut(n)) \/ Flushed
  BY <1>2, <1>3, <1>4, <1>6 DEF HandsOut, Flushed, Asking
<1>7. QED
  BY <1>4, <1>5, <1>6, Outcomes

LEMMA WorkingKnows ==
  ASSUME BInv, Spare, HI, Working, Same
  PROVE  KnownOnly' /\ NoEviction'
<1>1. UNCHANGED <<pages, handle, used, cmd, step, at, prev, tids, out, session>>
  BY DEF Same, segVars, cmdVars, runVars
<1>2. pc[W] \notin Resets
  BY WorkingAsks
<1>3. BInv'
  BY <1>2, WorkingKeeps
<1>4. Known' = Known
  BY <1>1 DEF Known
<1>5. pc[W] = "claim" => Page(W) \in Known
  <2> SUFFICES ASSUME pc[W] = "claim" PROVE Page(W) \in Known
    OBVIOUS
  <2>1. Purpose
    BY DEF HI, Asking
  <2>2. step = "write" => at \in DOMAIN pages
    BY DEF HI, CommandOK
  <2>3. step = "touched" => "touch" \in Menu[session]
    BY DEF HI, CommandOK, StepOf
  <2>4. call[W].page = Page(W)
    BY DEF Page
  <2>5. QED
    BY <2>1, <2>2, <2>3, <2>4 DEF Purpose, Known
<1>6. \A b \in BCBs : pid'[b] \in Known'
  BY <1>2, <1>3, <1>4, <1>5, WorkingPlaces DEF HI, KnownOnly
<1>7. step # "take"
  <2>1. pc[W] # "idle"
    BY <1>2, Outcomes DEF Goes, HandsOut, Flushed
  <2>2. QED
    BY <2>1 DEF HI, Asking, Purpose, Using
<1>8. KnownOnly'
  BY <1>1, <1>6, <1>7 DEF KnownOnly
<1>9. NoEviction'
  <2> SUFFICES ASSUME Roomy(session), pc'[W] \in Evicting PROVE FALSE
    BY <1>1 DEF NoEviction, Roomy, Needed, DataOf
  <2>1. pc[W] = "getFrame" /\ Len(freeFrames) = 0
    BY <1>2, Outcomes DEF Goes, HandsOut, Flushed, Evicting, HI, NoEviction
  <2>2. IsFiniteSet(Needed(session)) /\ Cardinality(Needed(session)) <= NoFrames
    BY DEF Roomy
  <2>3. \A b \in Pool : pid[b] \in Needed(session)
    BY NeededPages DEF HI
  <2>4. TypeInv /\ Structure
    BY DEF BInv
  <2> HIDE DEF Needed, Roomy
  <2>5. Len(freeFrames) # 0
    BY <2>1, <2>2, <2>3, <2>4, One, FrameFree
  <2>6. QED
    BY <2>1, <2>5
<1>10. QED
  BY <1>8, <1>9

(* A page the client was handed keeps its block, its frame and its content. *)
LEMMA WorkingKept ==
  ASSUME BInv, Spare, HI, Working, Same, NEW h \in held[W]
  PROVE  /\ h \in held'[W]
         /\ \A i \in DOMAIN pages : handle[i] = h.bcb => Empty(i)' = Empty(i)
<1>1. UNCHANGED <<pages, handle, used, cmd, step, at, prev, tids, out, session>>
  BY DEF Same, segVars, cmdVars, runVars
<1>2. pc[W] \notin Resets
  BY WorkingAsks
<1>3. h \in held'[W]
  BY <1>2, Outcomes DEF Goes, HandsOut, Flushed
<1>4. frame'[frameIndex[h.bcb]] = frame[frameIndex[h.bcb]]
  BY <1>2, WorkingFrames
<1>5. frameIndex'[h.bcb] = frameIndex[h.bcb]
  <2>1. h.bcb \in Pool /\ frameIndex[h.bcb] # INVALID
    BY HeldPlaced DEF BInv
  <2>2. QED
    BY <1>2, <2>1, WorkingKeeps, WorkingPlaces
<1>6. QED
  BY <1>1, <1>3, <1>4, <1>5 DEF Empty, Valid, Seen

LEMMA WorkingPoints ==
  ASSUME BInv, Spare, HI, Working, Same
  PROVE  HandlesInv'
<1>1. UNCHANGED <<pages, handle, used, cmd, step, at, prev, tids, out, session>>
  BY DEF Same, segVars, cmdVars, runVars
<1>2. pc[W] \notin Resets
  BY WorkingAsks
<1> SUFFICES ASSUME Reading(session), NEW i \in DOMAIN pages, handle[i] # NoBCB
             PROVE  \/ Roomy(session) /\ Points(i)'
                    \/ Kept(i)'
                    \/ pc'[W] = "upgrade" /\ i = at
  BY <1>1 DEF HandlesInv, Reading, Roomy, Needed, DataOf
<1>3. CASE Roomy(session) /\ Points(i)
  <2>1. pc[W] \notin Evicting
    BY <1>3 DEF HI, NoEviction
  <2>2. handle[i] \in Pool /\ frameIndex[handle[i]] # INVALID /\ pid[handle[i]] = pages[i]
    BY <1>3 DEF Points
  <2>3. BInv'
    BY <1>2, WorkingKeeps
  <2>4. Points(i)'
    BY <1>1, <1>2, <2>1, <2>2, <2>3, WorkingPlaces DEF Points
  <2>5. QED
    BY <1>3, <2>4
<1>4. CASE Kept(i)
  <2>1. PICK h \in held[W] : h.bcb = handle[i] /\ h.page = pages[i]
    BY <1>4 DEF Kept
  <2>2. h \in held'[W]
    BY WorkingKept
  <2>3. QED
    BY <1>1, <2>1, <2>2 DEF Kept
<1>5. CASE pc[W] = "upgrade" /\ i = at
  <2>1. ASSUME NEW n, HandsOut(n) PROVE Kept(i)'
    <3>1. n \in held'[W] /\ n.bcb = ptr[W] /\ n.page = Page(W)
      BY <1>5, <2>1 DEF HandsOut
    <3>2. ptr[W] = handle[i] /\ call[W].page = pages[i]
      BY <1>5 DEF HI, Asking, Purpose, Using
    <3>3. QED
      BY <1>1, <3>1, <3>2 DEF Kept, Page
  <2>2. ~Goes /\ ~Flushed
    BY <1>5 DEF Goes, Flushed
  <2>3. QED
    BY <1>2, <2>1, <2>2, Outcomes
<1>6. QED
  BY <1>3, <1>4, <1>5 DEF HI, HandlesInv

LEMMA WorkingHeld ==
  ASSUME BInv, Spare, HI, Working, Same
  PROVE  HeldFor'
<1>1. UNCHANGED <<pages, handle, used, cmd, step, at, prev, tids, out, session>>
  BY DEF Same, segVars, cmdVars, runVars
<1>2. pc[W] \notin Resets
  BY WorkingAsks
<1>3. ASSUME NEW h \in held[W] PROVE For(h)'
  <2>1. ASSUME NEW i \in DOMAIN pages, Because(i, h) PROVE Because(i, h)'
    <3>1. handle[i] = h.bcb => Empty(i)' = Empty(i)
      BY WorkingKept
    <3>2. Busy' = Busy /\ Wanted' = Wanted
      BY <1>1 DEF Busy, PagesOfTids, Wanted
    <3>3. QED
      BY <1>1, <2>1, <3>1, <3>2 DEF Because
  <2>2. For(h)
    BY DEF HI, HeldFor
  <2>3. QED
    BY <1>1, <2>1, <2>2 DEF For
<1>4. ASSUME NEW n, HandsOut(n) PROVE For(n)'
  <2>1. pc[W] \in {"latch", "upgrade", "emptyLatch"} /\ n.page = call[W].page
    BY <1>4 DEF HandsOut, Page
  <2>2. Purpose
    BY <2>1 DEF HI, Asking
  <2>3. step \in {"write", "erase"} => at \in DOMAIN pages
    BY DEF HI, CommandOK
  <2>4. CASE step = "choose" \/ step = "touched"
    BY <1>1, <2>1, <2>2, <2>4 DEF Purpose, For, Page, Using
  <2>5. CASE step = "write"
    BY <1>1, <2>1, <2>2, <2>3, <2>5 DEF Purpose, For, Because, Page, Using
  <2>6. CASE step \in Using
    <3>1. /\ at \in DOMAIN pages
          /\ call[W] = [kind |-> "fix", page |-> pages[at], mode |-> Wanted]
          /\ IF pc[W] = "upgrade" THEN step = "erase" /\ ptr[W] = handle[at]
             ELSE handle[at] = NoBCB
      BY <2>2, <2>6 DEF Purpose, Using
    <3>2. pc[W] # "emptyLatch"
      BY <3>1 DEF HI, Asking
    <3>3. IF pc[W] = "upgrade" THEN n.mode = "X" /\ n.bcb = ptr[W] ELSE n.mode = Wanted
      BY <1>4, <2>1, <3>1, <3>2 DEF HandsOut
    <3>4. Wanted' = Wanted
      BY <1>1 DEF Wanted
    <3>5. step = "erase" => at \in Busy'
      BY <1>1 DEF Busy
    <3>6. Because(at, n)'
      BY <1>1, <2>6, <3>1, <3>3, <3>4, <3>5 DEF Because
    <3>7. QED
      BY <1>1, <2>1, <3>1, <3>6 DEF For
  <2>7. QED
    BY <2>1, <2>2, <2>4, <2>5, <2>6 DEF Purpose
<1>5. ASSUME NEW g \in held'[W], NEW h \in held'[W], g.page \in OtherPages, h.page \in OtherPages
      PROVE  g = h
  <2>1. CASE Goes \/ Flushed
    BY <1>5, <2>1 DEF Goes, Flushed, HI, HeldFor
  <2>2. ASSUME NEW n, HandsOut(n) PROVE g = h
    <3>1. held'[W] = held[W] \cup {n} /\ n.page = call[W].page
          /\ pc[W] \in {"latch", "upgrade", "emptyLatch"}
      BY <2>2 DEF HandsOut, Page
    <3>2. n.page \in OtherPages => \A k \in held[W] : k.page \notin OtherPages
      <4>1. Purpose
        BY <3>1 DEF HI, Asking
      <4>2. FSMPage \notin OtherPages
        BY HandlesAssumption
      <4>3. \A i \in DOMAIN pages : pages[i] \notin OtherPages
        BY HandlesAssumption DEF HI, SegmentOK
      <4>4. step = "write" => at \in DOMAIN pages
        BY DEF HI, CommandOK
      <4>5. QED
        BY <3>1, <4>1, <4>2, <4>3, <4>4 DEF Purpose, Page
    <3>3. QED
      BY <1>5, <3>1, <3>2 DEF HI, HeldFor
  <2>3. QED
    BY <1>2, <2>1, <2>2, Outcomes
<1>6. \A h \in held'[W] : For(h)'
  BY <1>2, <1>3, <1>4, Outcomes DEF Goes, HandsOut, Flushed
<1>7. step = "fetch" /\ prev # 0 => handle[prev] # NoBCB /\ Kept(prev)'
  <2>1. ASSUME step = "fetch", prev # 0 PROVE handle[prev] # NoBCB /\ Kept(prev)'
    <3>1. handle[prev] # NoBCB /\ Kept(prev)
      BY <2>1 DEF HI, HeldFor
    <3>2. \A h \in held[W] : h \in held'[W]
      BY WorkingKept
    <3>3. QED
      BY <1>1, <3>1, <3>2 DEF Kept
  <2>2. QED
    BY <2>1
<1>8. QED
  BY <1>1, <1>5, <1>6, <1>7 DEF HeldFor

LEMMA WorkingSteps ==
  ASSUME BInv, Spare, HI, Working, Same
  PROVE  BInv' /\ HI'
  BY WorkingAsks, WorkingKeeps, WorkingKnows, WorkingPoints, WorkingHeld DEF HI

-----------------------------------------------------------------------------
(***************************************************************************)
(* The steps of a command, made while no call runs.                        *)
(***************************************************************************)
LEMMA PagesDiffer ==
  ASSUME SegmentOK, NEW i \in DOMAIN pages
  PROVE  /\ \A j \in DOMAIN pages : pages[i] = pages[j] => i = j
         /\ pages[i] \notin OtherPages /\ pages[i] # FSMPage
  BY HandlesAssumption DEF SegmentOK

LEMMA AtIdle ==
  ASSUME BInv, Idle(W)
  PROVE  /\ pc[W] \notin Evicting \cup Locating \cup {"read", "upgrade", "flushAll", "abort"}
         /\ Worked = {} /\ Hunted = {} /\ Upgraded = {}
         /\ \A b \in BCBs : mode[b] \in {"S", "X"} => \E h \in held[W] : h.bcb = b
<1>1. pc[W] = "idle"
  BY DEF Idle
<1>2. Worked = {} /\ Hunted = {} /\ Upgraded = {}
  BY <1>1 DEF Worked, Hunted, Upgraded, Locating
<1>3. \A b \in BCBs : mode[b] \in {"S", "X"} => ~LatchFree(b)
  BY <1>2 DEF BInv, Accounted, LatchInv, LatchExclusion, LatchFree
<1>4. QED
  BY <1>1, <1>2, <1>3 DEF BInv, Accounted, Evicting, Locating

LEMMA PrevKept ==
  ASSUME HI, step = "fetch", prev # 0
  PROVE  prev \in DOMAIN pages /\ handle[prev] # NoBCB /\ Kept(prev)
<1>1. prev \in 0 .. Len(pages) /\ pages \in Seq(Pages)
  BY DEF HI, CommandOK, SegmentOK
<1>2. prev \in DOMAIN pages
  BY <1>1
<1>3. QED
  BY <1>2 DEF HI, HeldFor

LEMMA ReadingStep ==
  ASSUME HI, step \in Using PROVE Reading(session)
  BY DEF HI, CommandOK, StepOf, Using, Reading

LEMMA InsertingStep ==
  ASSUME HI, step \in {"fsm", "choose", "take", "write"}
  PROVE  "insert" \in Menu[session] /\ session \in Sessions
  BY DEF HI, CommandOK, StepOf, SegmentOK

(* getPage has returned: the page is kept fixed, under the handle.          *)
LEMMA HasKept ==
  ASSUME BInv, HI, Has
  PROVE  /\ at \in DOMAIN pages /\ handle[at] # NoBCB /\ step \in Using
         /\ \E h \in held[W] : /\ h.bcb = handle[at] /\ h.page = pages[at]
                               /\ step = "erase" => h.mode = "X"
<1>1. at \in DOMAIN pages /\ handle[at] # NoBCB /\ step \in Using /\ Idle(W)
  BY DEF Has, Wants, Waits, Latched, Using
<1>2. handle[at] \in BCBs
  BY <1>1, HandlesType DEF HI
<1>3. mode[handle[at]] \in {"S", "X"} /\ (step = "erase" => mode[handle[at]] = "X")
  BY DEF Has, Latched, Wanted
<1>4. PICK h \in held[W] : h.bcb = handle[at]
  BY <1>1, <1>2, <1>3, AtIdle
<1>5. h.page = pages[at]
  <2>1. Points(at) \/ Kept(at)
    BY <1>1, ReadingStep, AtIdle DEF HI, HandlesInv
  <2>2. CASE Points(at)
    BY <1>4, <2>2, HeldPlaced DEF Points, BInv
  <2>3. CASE Kept(at)
    BY <1>4, <2>3, HeldOnce DEF Kept, BInv
  <2>4. QED
    BY <2>1, <2>2, <2>3
<1>6. h.mode = mode[handle[at]]
  BY <1>4, HeldLatched
<1>7. QED
  BY <1>1, <1>3, <1>4, <1>5, <1>6

(* What a page that is kept fixed holds. *)
LEMMA HeldContent ==
  ASSUME BInv, Contents, NEW h \in held[W]
  PROVE  frame[frameIndex[h.bcb]] \in Seq(Rows \cup {Gone})
<1>1. frameIndex[h.bcb] \in Frames
  BY HeldPlaced DEF BInv
<1>2. QED
  BY <1>1 DEF BInv, TypeInv, TypeOK, ContentOK, Contents

(* An action after which no call runs asks for nothing.                     *)
LEMMA StaysIdle ==
  ASSUME pc'[W] = "idle" PROVE Asking' /\ NoEviction'
  BY DEF Asking, NoEviction, Evicting

(* The pages the process knows stay known while none is loaded or set up.   *)
LEMMA StaysKnown ==
  ASSUME HI, pid' = pid, pages' = pages, session' = session, step' # "take"
  PROVE  KnownOnly'
  BY DEF HI, KnownOnly, Known

(* Outside the commands that read the segment only empty pages stay latched *)
(* through a handle.                                                        *)
LEMMA StaysFor ==
  ASSUME HI, NEW h \in held[W], step \notin Using \cup {"write", "touched"},
         \A i \in DOMAIN pages : i \in DOMAIN pages' /\ pages'[i] = pages[i],
         \A i \in DOMAIN pages : handle[i] = h.bcb /\ Empty(i) => handle'[i] = h.bcb /\ Empty(i)'
  PROVE  For(h)'
<1>1. For(h)
  BY DEF HI, HeldFor
<1>2. Busy = {}
  BY DEF Busy, Using
<1>3. QED
  BY <1>1, <1>2 DEF For, Because

(* A call begins: the segment stays as it is.                               *)
LEMMA Asked ==
  ASSUME BInv, HI, Idle(W), Pool' = Pool, pc'[W] \in {"lookup", "popCheck", "flushAll"},
         UNCHANGED <<pid, frameIndex, frame, held>>,
         UNCHANGED <<segVars, cmd, runVars, session>>,
         step' = step \/ step \notin Using \cup {"write", "touched"},
         step' # "take", step' = "fetch" => step = "fetch"
  PROVE  KnownOnly' /\ HandlesInv' /\ HeldFor' /\ NoEviction' /\ SegmentOK'
<1>1. UNCHANGED <<pages, handle, used, cmd, at, prev, tids, out, session>>
  BY DEF segVars, runVars
<1>2. KnownOnly' /\ SegmentOK' /\ NoEviction'
  BY <1>1, StaysKnown DEF HI, SegmentOK, NoEviction, Evicting
<1>3. \A i : Empty(i)' = Empty(i) /\ Kept(i)' = Kept(i) /\ Points(i)' = Points(i)
  BY <1>1 DEF Empty, Valid, Seen, Kept, Points
<1>4. HandlesInv'
  BY <1>1, <1>3, AtIdle DEF HI, HandlesInv, Reading, Roomy, Needed, DataOf
<1>5. \A h \in held[W] : For(h)'
  <2>1. CASE step' = step
    BY <1>1, <1>3, <2>1 DEF HI, HeldFor, For, Because, Busy, PagesOfTids, Wanted
  <2>2. CASE step \notin Using \cup {"write", "touched"}
    BY <1>1, <1>3, <2>2, StaysFor
  <2>3. QED
    BY <2>1, <2>2
<1>6. HeldFor'
  BY <1>1, <1>3, <1>5 DEF HI, HeldFor
<1>7. QED
  BY <1>2, <1>4, <1>6

(* A page is unfixed: the other handles point where they pointed.           *)
LEMMA LessHeld ==
  ASSUME BInv, HI, Idle(W), UNCHANGED <<pid, frameIndex, session>>, Pool' = Pool,
         NEW h \in held[W], held'[W] = held[W] \ {h},
         \A i \in DOMAIN pages' : handle'[i] # NoBCB =>
            /\ i \in DOMAIN pages /\ pages'[i] = pages[i] /\ handle'[i] = handle[i]
            /\ h.page # pages[i]
  PROVE  HandlesInv'
<1> SUFFICES ASSUME Reading(session), NEW i \in DOMAIN pages', handle'[i] # NoBCB
             PROVE  (Roomy(session) /\ Points(i)') \/ Kept(i)'
  BY DEF HandlesInv, Reading, Roomy, Needed, DataOf
<1>1. i \in DOMAIN pages /\ pages'[i] = pages[i] /\ handle'[i] = handle[i] /\ h.page # pages[i]
  OBVIOUS
<1>2. (Roomy(session) /\ Points(i)) \/ Kept(i)
  BY <1>1, AtIdle DEF HI, HandlesInv
<1>3. Points(i) => Points(i)'
  BY <1>1 DEF Points
<1>4. Kept(i) => Kept(i)'
  BY <1>1 DEF Kept
<1>5. QED
  BY <1>2, <1>3, <1>4

(* The command itself does not go on, or its next step is legal.            *)
LEMMA SameCommand ==
  ASSUME HI, UNCHANGED <<pages, cmd, step, at, prev, tids, session>>
  PROVE  CommandOK'
  BY DEF HI, CommandOK, StepOf

LEMMA GetFixKeeps == ASSUME BInv, HI, GetFix PROVE BInv' /\ HI'
<1>1. /\ at \in DOMAIN pages /\ handle[at] = NoBCB /\ HandedOut(pages[at]) = {}
      /\ step \in Using /\ Idle(W) /\ Ask("fix", pages[at], Wanted)
      /\ UNCHANGED <<segVars, cmdVars>>
  BY DEF GetFix, Wants, Waits, Using
<1>2. pages[at] \in Pages /\ Wanted \in {"S", "X"}
  BY <1>1, HandlesType DEF HI, Wanted
<1>3. /\ BInv' /\ Pool' = Pool /\ pc'[W] = "lookup"
      /\ call'[W] = [kind |-> "fix", page |-> pages[at], mode |-> Wanted]
      /\ UNCHANGED <<pid, frameIndex, frame, held, ptr>>
  BY <1>1, <1>2, AskKeeps
<1>4. UNCHANGED <<pages, handle, used, cmd, step, at, prev, tids, out, session>>
  BY <1>1 DEF segVars, cmdVars, runVars
<1>5. KnownOnly' /\ HandlesInv' /\ HeldFor' /\ NoEviction' /\ SegmentOK'
  BY <1>1, <1>3, <1>4, Asked DEF Using, segVars, runVars
<1>6. Asking'
  BY <1>1, <1>3, <1>4 DEF Asking, Purpose, Wanted, HandedOut
<1>7. QED
  BY <1>3, <1>4, <1>5, <1>6, SameCommand DEF HI

LEMMA GetKeepKeeps == ASSUME BInv, HI, GetKeep PROVE BInv' /\ HI'
<1>1. /\ at \in DOMAIN pages /\ handle[at] = NoBCB /\ step \in Using /\ Idle(W)
      /\ UNCHANGED vars
  BY DEF GetKeep, Wants, Waits, Using
<1>2. UNCHANGED <<pages, used, cmd, step, at, prev, tids, out, session>>
  BY DEF GetKeep, cmdVars, runVars
<1>3. PICK h \in held[W] : h.page = pages[at] /\ handle' = [handle EXCEPT ![at] = h.bcb]
  BY DEF GetKeep, HandedOut
<1>4. BInv' /\ Pool' = Pool
  BY <1>1, QuietKeeps
<1>5. UNCHANGED <<pid, frameIndex, frame, held, pc>>
  BY <1>1 DEF vars, bcbVars, localVars
<1>6. handle'[at] = h.bcb /\ h.bcb \in BCBs
      /\ \A i \in DOMAIN pages : i # at => handle'[i] = handle[i]
  BY <1>1, <1>3, HandlesType, HeldPlaced DEF HI, BInv
<1>7. SegmentOK'
  BY <1>1, <1>2, <1>3, <1>6 DEF HI, SegmentOK
<1>8. Asking' /\ NoEviction' /\ KnownOnly' /\ CommandOK'
  BY <1>1, <1>2, <1>5, StaysIdle, StaysKnown, SameCommand DEF Idle, Using
<1>9. \A i \in DOMAIN pages : i # at =>
        Empty(i)' = Empty(i) /\ Kept(i)' = Kept(i) /\ Points(i)' = Points(i)
  BY <1>2, <1>4, <1>5, <1>6 DEF Empty, Valid, Seen, Kept, Points
<1>10. Kept(at)'
  BY <1>2, <1>3, <1>5, <1>6 DEF Kept
<1>11. HandlesInv'
  BY <1>2, <1>4, <1>5, <1>6, <1>9, <1>10, AtIdle, <1>1
  DEF HI, HandlesInv, Reading, Roomy, Needed, DataOf
<1>12. ASSUME NEW g \in held[W] PROVE For(g)'
  <2>1. For(g)
    BY DEF HI, HeldFor
  <2>2. ASSUME NEW i \in DOMAIN pages, g.page = pages[i], Because(i, g) PROVE Because(i, g)'
    <3>1. Busy' = Busy /\ Wanted' = Wanted /\ at \in Busy
      BY <1>1, <1>2 DEF Busy, PagesOfTids, Wanted, Using
    <3>2. CASE i = at
      <4>1. g = h
        BY <1>3, <2>2, <3>2, HeldOnce DEF BInv
      <4>2. handle[i] # g.bcb
        BY <1>1, <1>6, <3>2, <4>1 DEF BCBs, NoBCB
      <4>3. g.mode = Wanted
        BY <1>1, <2>2, <4>2 DEF Because, Using
      <4>4. QED
        BY <1>2, <1>6, <3>1, <3>2, <4>1, <4>3 DEF Because, Wanted
    <3>3. CASE i # at
      BY <1>2, <1>6, <1>9, <2>2, <3>1, <3>3 DEF Because
    <3>4. QED
      BY <3>2, <3>3
  <2>3. QED
    BY <1>2, <2>1, <2>2 DEF For
<1>13. step = "fetch" /\ prev # 0 => handle'[prev] # NoBCB /\ Kept(prev)'
  <2> SUFFICES ASSUME step = "fetch", prev # 0 PROVE handle'[prev] # NoBCB /\ Kept(prev)'
    OBVIOUS
  <2>1. handle[prev] # NoBCB /\ Kept(prev) /\ prev \in DOMAIN pages
    BY PrevKept
  <2>2. prev # at
    BY <1>1, <2>1
  <2>3. QED
    BY <1>2, <1>6, <1>9, <2>1, <2>2
<1>14. HeldFor'
  BY <1>2, <1>5, <1>12, <1>13 DEF HI, HeldFor
<1>15. QED
  BY <1>4, <1>7, <1>8, <1>11, <1>14 DEF HI

LEMMA GetRelatchKeeps == ASSUME BInv, HI, GetRelatch PROVE BInv' /\ HI'
<1>1. /\ at \in DOMAIN pages /\ handle[at] # NoBCB /\ step \in Using /\ Idle(W) /\ Rest
      /\ Wanted = "S" /\ LockS(handle[at], W) /\ UNCHANGED <<frame, modified>>
  BY DEF GetRelatch, Wants, Waits, Using
<1>2. UNCHANGED <<pages, handle, used, cmd, step, at, prev, tids, out, session>>
  BY DEF GetRelatch, segVars, cmdVars, runVars
<1>3. handle[at] \in BCBs
  BY <1>1, HandlesType DEF HI
<1>4. Points(at)
  <2>1. ~Kept(at)
    <3> SUFFICES ASSUME Kept(at) PROVE FALSE
      OBVIOUS
    <3>1. PICK h \in held[W] : h.bcb = handle[at]
      BY DEF Kept
    <3>2. mode[h.bcb] = h.mode /\ h.mode \in {"S", "X"}
      BY HeldLatched, HeldPlaced DEF BInv
    <3>3. QED
      BY <1>1, <3>1, <3>2 DEF GetRelatch, Latched
  <2>2. QED
    BY <1>1, <2>1, ReadingStep, AtIdle DEF HI, HandlesInv
<1> DEFINE n == [bcb |-> handle[at], page |-> pages[at], mode |-> "S"]
<1>5. /\ handle[at] \in Pool /\ pid[handle[at]] = pages[at] /\ frameIndex[handle[at]] # INVALID
  BY <1>4 DEF Points
<1>6. held' = [held EXCEPT ![W] = @ \cup {n}]
  BY DEF GetRelatch
<1>7. BInv' /\ Pool' = Pool /\ held'[W] = held[W] \cup {n}
  BY <1>1, <1>5, <1>6, RelatchKeeps
<1>8. UNCHANGED <<pid, frameIndex, pc>>
  BY <1>1 DEF Rest
<1>9. SegmentOK' /\ Asking' /\ NoEviction' /\ KnownOnly' /\ CommandOK'
  BY <1>1, <1>2, <1>8, StaysIdle, StaysKnown, SameCommand DEF Idle, Using, HI, SegmentOK
<1>10. \A i \in DOMAIN pages : /\ Empty(i)' = Empty(i) /\ Points(i)' = Points(i)
                               /\ Kept(i) => Kept(i)'
  BY <1>1, <1>2, <1>7, <1>8 DEF Empty, Valid, Seen, Kept, Points
<1>11. HandlesInv'
  BY <1>2, <1>8, <1>10 DEF HI, HandlesInv, Reading, Roomy, Needed, DataOf
<1>12. Busy' = Busy /\ Wanted' = Wanted /\ at \in Busy
  BY <1>1, <1>2 DEF Busy, PagesOfTids, Wanted, Using
<1>13. \A g \in held[W] : For(g)'
  BY <1>2, <1>10, <1>12 DEF HI, HeldFor, For, Because
<1>14. \A m : m = n => For(m)'
  BY <1>1, <1>2, <1>12 DEF For, Because
<1>15. pages[at] \notin OtherPages
  BY <1>1, PagesDiffer DEF HI
<1>16. n.page = pages[at]
  OBVIOUS
<1> HIDE DEF n
<1>17. step = "fetch" /\ prev # 0 => handle[prev] # NoBCB /\ Kept(prev)'
  BY <1>2, <1>10, PrevKept
<1>18. HeldFor'
  <2>1. \A g \in held'[W] : For(g)'
    BY <1>7, <1>13, <1>14
  <2>2. \A f, g \in held'[W] : f.page \in OtherPages /\ g.page \in OtherPages => f = g
    BY <1>7, <1>15, <1>16 DEF HI, HeldFor
  <2>3. QED
    BY <1>2, <1>17, <2>1, <2>2 DEF HeldFor
<1>19. QED
  BY <1>7, <1>9, <1>11, <1>18 DEF HI

LEMMA GetUpgradeKeeps == ASSUME BInv, HI, GetUpgrade PROVE BInv' /\ HI'
<1>1. /\ at \in DOMAIN pages /\ handle[at] # NoBCB /\ step = "erase" /\ Idle(W) /\ Wanted = "X"
  BY DEF GetUpgrade, Wants, Waits, Wanted
<1>2. UNCHANGED <<pages, handle, used, cmd, step, at, prev, tids, out, session>>
  BY DEF GetUpgrade, segVars, cmdVars, runVars
<1>3. PICK h \in held[W] : h.bcb = handle[at] /\ UpgradeRelease(W, h)
  BY DEF GetUpgrade
<1>4. h.page = pages[at]
  <2>1. Points(at) \/ Kept(at)
    BY <1>1, ReadingStep, AtIdle DEF HI, HandlesInv, Using
  <2>2. CASE Points(at)
    BY <1>3, <2>2, HeldPlaced DEF Points, BInv
  <2>3. CASE Kept(at)
    BY <1>3, <2>3, HeldOnce DEF Kept, BInv
  <2>4. QED
    BY <2>1, <2>2, <2>3
<1>5. /\ BInv' /\ Pool' = Pool /\ pc'[W] = "upgrade" /\ ptr'[W] = h.bcb
      /\ call'[W] = [kind |-> "fix", page |-> pages[at], mode |-> "X"]
      /\ held'[W] = held[W] \ {h} /\ UNCHANGED <<pid, frameIndex, frame>>
  BY <1>3, <1>4, UpgradeKeeps
<1>6. SegmentOK' /\ KnownOnly' /\ CommandOK' /\ NoEviction'
  BY <1>1, <1>2, <1>5, StaysKnown, SameCommand DEF HI, SegmentOK, NoEviction, Evicting
<1>7. Asking'
  BY <1>1, <1>2, <1>3, <1>5 DEF Asking, Purpose, Using, Wanted
<1>8. \A i \in DOMAIN pages : /\ Empty(i)' = Empty(i) /\ Points(i)' = Points(i)
                              /\ i # at /\ Kept(i) => Kept(i)'
  <2>1. \A i \in DOMAIN pages : i # at => pages[i] # h.page
    BY <1>1, <1>4, PagesDiffer DEF HI
  <2>2. QED
    BY <1>2, <1>5, <2>1 DEF Empty, Valid, Seen, Kept, Points
<1>9. HandlesInv'
  BY <1>2, <1>5, <1>8, AtIdle, <1>1 DEF HI, HandlesInv, Reading, Roomy, Needed, DataOf
<1>10. \A g \in held[W] : For(g)'
  BY <1>2, <1>8 DEF HI, HeldFor, For, Because, Busy, PagesOfTids, Wanted
<1>11. HeldFor'
  BY <1>1, <1>2, <1>5, <1>10 DEF HI, HeldFor
<1>12. QED
  BY <1>5, <1>6, <1>7, <1>9, <1>11 DEF HI

LEMMA InsertAsksKeeps == ASSUME BInv, HI, InsertAsksFSM PROVE BInv' /\ HI'
<1>1. /\ step = "fsm" /\ step' = "choose" /\ Idle(W) /\ Ask("fix", FSMPage, "X")
      /\ UNCHANGED <<segVars, cmd, runVars, session>> /\ FSMPage \in Pages
  BY HandlesAssumption DEF InsertAsksFSM, Ask, Waits
<1>2. /\ BInv' /\ Pool' = Pool /\ pc'[W] = "lookup"
      /\ call'[W] = [kind |-> "fix", page |-> FSMPage, mode |-> "X"]
      /\ UNCHANGED <<pid, frameIndex, frame, held, ptr>>
  BY <1>1, AskKeeps
<1>3. UNCHANGED <<pages, handle, used, cmd, at, prev, tids, out, session>>
  BY <1>1 DEF segVars, runVars
<1>4. KnownOnly' /\ HandlesInv' /\ HeldFor' /\ NoEviction' /\ SegmentOK'
  BY <1>1, <1>2, Asked DEF Using
<1>5. Asking'
  BY <1>1, <1>2 DEF Asking, Purpose, Page
<1>6. CommandOK'
  BY <1>1, <1>3 DEF HI, CommandOK, StepOf
<1>7. QED
  BY <1>2, <1>4, <1>5, <1>6 DEF HI

LEMMA InsertTakesKeeps == ASSUME BInv, HI, InsertTakes PROVE BInv' /\ HI'
<1> DEFINE kind == IF New(at) THEN "emptyfix" ELSE "fix"
<1>1. /\ step = "take" /\ step' = "write" /\ Idle(W) /\ Ask(kind, pages[at], "X")
      /\ UNCHANGED <<segVars, cmd, runVars, session>>
  BY DEF InsertTakes, Ask, Waits
<1>2. at \in DOMAIN pages /\ pages[at] \in Pages
  BY <1>1, HandlesType DEF HI, CommandOK
<1>3. kind \in {"fix", "emptyfix"} /\ (kind = "emptyfix" => \A b \in BCBs : pid[b] # pages[at])
  BY <1>1 DEF HI, KnownOnly
<1> HIDE DEF kind
<1>4. /\ BInv' /\ Pool' = Pool /\ pc'[W] \in {"lookup", "popCheck"}
      /\ call'[W] = [kind |-> kind, page |-> pages[at], mode |-> "X"]
      /\ UNCHANGED <<pid, frameIndex, frame, held, ptr>>
  BY <1>1, <1>2, <1>3, AskKeeps
<1>5. UNCHANGED <<pages, handle, used, cmd, at, prev, tids, out, session>>
  BY <1>1 DEF segVars, runVars
<1>6. KnownOnly' /\ HandlesInv' /\ HeldFor' /\ NoEviction' /\ SegmentOK'
  BY <1>1, <1>4, Asked DEF Using
<1>7. Asking'
  BY <1>1, <1>4, <1>5 DEF Asking, Purpose, Page
<1>8. CommandOK'
  BY <1>1, <1>2, <1>5 DEF HI, CommandOK, StepOf
<1>9. QED
  BY <1>4, <1>6, <1>7, <1>8 DEF HI

LEMMA TouchAsksKeeps ==
  ASSUME BInv, HI, NEW p \in OtherPages, TouchAsks(p) PROVE BInv' /\ HI'
<1>1. /\ step = "touch" /\ step' = "touched" /\ Idle(W) /\ Ask("fix", p, "S")
      /\ UNCHANGED <<segVars, cmd, runVars, session>> /\ p \in Pages
  BY HandlesAssumption DEF TouchAsks, Ask, Waits
<1>2. /\ BInv' /\ Pool' = Pool /\ pc'[W] = "lookup"
      /\ call'[W] = [kind |-> "fix", page |-> p, mode |-> "S"]
      /\ UNCHANGED <<pid, frameIndex, frame, held, ptr>>
  BY <1>1, AskKeeps
<1>3. UNCHANGED <<pages, handle, used, cmd, at, prev, tids, out, session>>
  BY <1>1 DEF segVars, runVars
<1>4. KnownOnly' /\ HandlesInv' /\ HeldFor' /\ NoEviction' /\ SegmentOK'
  BY <1>1, <1>2, Asked DEF Using
<1>5. \A h \in held[W] : h.page \notin OtherPages
  <2>1. FSMPage \notin OtherPages /\ \A i \in DOMAIN pages : pages[i] \notin OtherPages
    BY HandlesAssumption, PagesDiffer DEF HI
  <2>2. \A h \in held[W] : For(h)
    BY DEF HI, HeldFor
  <2>3. QED
    BY <1>1, <2>1, <2>2 DEF For
<1>6. Asking'
  BY <1>1, <1>2, <1>3, <1>5 DEF Asking, Purpose, Page
<1>7. CommandOK'
  BY <1>1, <1>3 DEF HI, CommandOK, StepOf
<1>8. QED
  BY <1>2, <1>4, <1>6, <1>7 DEF HI

LEMMA ShutdownAsksKeeps == ASSUME BInv, HI, ShutdownAsks PROVE BInv' /\ HI'
<1>1. /\ step = "flush" /\ step' = "flushed" /\ Idle(W) /\ Ask("flushAll", NoPage, "S")
      /\ UNCHANGED <<segVars, cmd, runVars, session>>
  BY DEF ShutdownAsks, Ask, Waits
<1>2. /\ BInv' /\ Pool' = Pool /\ pc'[W] = "flushAll"
      /\ UNCHANGED <<pid, frameIndex, frame, held, ptr>>
  BY <1>1, AskFlushKeeps
<1>3. UNCHANGED <<pages, handle, used, cmd, at, prev, tids, out, session>>
  BY <1>1 DEF segVars, runVars
<1>4. KnownOnly' /\ HandlesInv' /\ HeldFor' /\ NoEviction' /\ SegmentOK'
  BY <1>1, <1>2, Asked DEF Using
<1>5. Asking'
  BY <1>1, <1>2 DEF Asking, Purpose
<1>6. CommandOK'
  BY <1>1, <1>3 DEF HI, CommandOK, StepOf
<1>7. QED
  BY <1>2, <1>4, <1>5, <1>6 DEF HI

(* A step that touches neither the buffer manager nor the segment, by a     *)
(* command that does not read the segment.                                  *)
LEMMA QuietSteps ==
  ASSUME BInv, HI, Idle(W), UNCHANGED <<vars, segVars, session>>, CommandOK',
         step \notin Using \cup {"write", "touched"}, step' \notin {"take", "fetch"}
  PROVE  BInv' /\ HI'
<1>1. BInv' /\ Pool' = Pool
  BY QuietKeeps
<1>2. UNCHANGED <<pages, handle, used, session, pid, frameIndex, frame, held, pc>>
  BY DEF segVars, vars, bcbVars, localVars
<1>3. SegmentOK' /\ KnownOnly' /\ Asking' /\ NoEviction'
  BY <1>2, StaysIdle, StaysKnown DEF Idle, HI, SegmentOK
<1>4. \A i : Empty(i)' = Empty(i) /\ Kept(i)' = Kept(i) /\ Points(i)' = Points(i)
  BY <1>1, <1>2 DEF Empty, Valid, Seen, Kept, Points
<1>5. HandlesInv'
  BY <1>2, <1>4, AtIdle DEF HI, HandlesInv, Reading, Roomy, Needed, DataOf
<1>6. \A h \in held[W] : For(h)'
  BY <1>2, <1>4, StaysFor
<1>7. HeldFor'
  BY <1>2, <1>6 DEF HI, HeldFor
<1>8. QED
  BY <1>1, <1>3, <1>5, <1>7 DEF HI

LEMMA InsertRefusedKeeps == ASSUME BInv, HI, InsertRefused PROVE BInv' /\ HI'
<1>1. /\ step = "choose" /\ step' = "ready" /\ Idle(W)
      /\ UNCHANGED <<vars, segVars, runVars, session>>
  BY DEF InsertRefused, Waits
<1>2. UNCHANGED <<pages, at, prev, tids>>
  BY <1>1 DEF segVars, runVars
<1>3. CommandOK'
  BY <1>1, <1>2 DEF HI, CommandOK, StepOf
<1>4. QED
  BY <1>1, <1>3, QuietSteps DEF Using

LEMMA GiveKeeps ==
  ASSUME BInv, HI, NEW op \in DOMAIN FirstStep, NEW r \in Rows, Give(op, r)
  PROVE  BInv' /\ HI'
<1>1. /\ step = "ready" /\ step' = FirstStep[op] /\ Idle(W) /\ op \in Menu[session]
      /\ op = "shutdown" => session + 1 \in Sessions
      /\ cmd' = [op |-> op, row |-> r] /\ at' = 1 /\ prev' = 0 /\ tids' = <<>>
      /\ UNCHANGED <<vars, segVars, session>>
  BY DEF Give, Waits
<1>2. UNCHANGED pages
  BY <1>1 DEF segVars
<1>3. /\ op \in {"insert", "show", "delete", "touch", "shutdown"}
      /\ FirstStep["insert"] = "fsm" /\ FirstStep["show"] = "scan"
      /\ FirstStep["delete"] = "search" /\ FirstStep["touch"] = "touch"
      /\ FirstStep["shutdown"] = "flush"
  BY DEF FirstStep
<1>4. StepOf' /\ step' \notin {"ready", "take", "write", "erase", "fetch"}
  BY <1>1, <1>3 DEF StepOf
<1>5. CommandOK'
  <2>1. tids' \in Seq((1 .. Len(pages)) \X Nat)
    BY <1>1
  <2>2. Len(pages) \in Nat
    BY DEF HI, SegmentOK
  <2>3. QED
    BY <1>1, <1>2, <1>4, <2>1, <2>2 DEF CommandOK
<1>6. QED
  BY <1>1, <1>4, <1>5, QuietSteps DEF Using

(* A block is unfixed, marked modified or not.                              *)
LEMMA Unfixed ==
  ASSUME BInv, Idle(W), Rest, NEW h \in held[W], UnfixBCB(h.bcb),
         frame' \in [Frames -> Versions],
         NEW v \in BOOLEAN, SetModified(h.bcb, v) \/ modified' = modified
  PROVE  BInv' /\ Pool' = Pool /\ held'[W] = held[W] \ {h}
<1>1. modified \in [BCBs -> BOOLEAN]
  BY DEF BInv, TypeInv, TypeOK, BCBOK
<1>2. FrameValid(h.bcb)
  BY HeldPlaced DEF BInv, FrameValid
<1>3. modified' \in [BCBs -> BOOLEAN] /\ \A b \in BCBs : modified'[b] => modified[b] \/ FrameValid(b)
  BY <1>1, <1>2 DEF SetModified
<1>4. QED
  BY <1>3, UnfixKeeps

LEMMA FramesType == BInv => frame \in [Frames -> Versions] /\ frameIndex \in [BCBs -> Frames \cup {INVALID}]
  BY DEF BInv, TypeInv, TypeOK, ContentOK, BCBOK

(* The page an insertion goes to: one with room, or the next data page.     *)
LEMMA Chosen ==
  ASSUME HI, InsertChooses
  PROVE  \/ /\ at' \in DOMAIN pages /\ used'[at'] > 1 /\ UNCHANGED <<pages, handle>>
            /\ used' \in Seq(Nat \ {0}) /\ Len(used') = Len(used)
         \/ /\ at' = Len(pages) + 1 /\ at' \in 1 .. Extent[session] /\ at' \in DOMAIN DataPages
            /\ pages' = Append(pages, DataPages[at'])
            /\ handle' = Append(handle, NoBCB) /\ used' = Append(used, 1)
<1>1. /\ pages \in Seq(Pages) /\ used \in Seq(Nat \ {0}) /\ Len(used) = Len(pages)
      /\ session \in Sessions
  BY DEF HI, SegmentOK
<1>2. CASE RoomOn # {}
  <2>1. PICK k : /\ k = at' /\ k = CHOOSE i \in RoomOn : \A j \in RoomOn : i <= j
                 /\ used' = [used EXCEPT ![k] = @ + 1]
    BY <1>2 DEF InsertChooses
  <2>2. RoomOn \in SUBSET Nat
    BY <1>1 DEF RoomOn
  <2>3. \E i \in RoomOn : \A j \in RoomOn : i <= j
    <3>1. PICK t : t \in RoomOn
      BY <1>2
    <3>2. QED
      BY <2>2, <3>1, Least
  <2>4. (CHOOSE i \in RoomOn : \A j \in RoomOn : i <= j) \in RoomOn
    BY <2>3
  <2>5. k \in DOMAIN pages
    BY <2>1, <2>4 DEF RoomOn
  <2>6. k \in DOMAIN used /\ used[k] \in Nat \ {0}
    BY <1>1, <2>5
  <2>7. used' \in Seq(Nat \ {0}) /\ Len(used') = Len(used) /\ used'[k] = used[k] + 1
    BY <1>1, <2>1, <2>6
  <2>8. used'[k] > 1 /\ UNCHANGED <<pages, handle>>
    BY <1>2, <2>6, <2>7 DEF InsertChooses
  <2>9. QED
    BY <2>1, <2>5, <2>7, <2>8
<1>3. CASE RoomOn = {}
  <2>1. /\ at' = Len(pages) + 1 /\ pages' = Append(pages, DataPages[at'])
        /\ handle' = Append(handle, NoBCB) /\ used' = Append(used, 1)
    BY <1>3 DEF InsertChooses
  <2>2. ~(Len(pages) >= Extent[session])
    BY <1>3 DEF InsertChooses, Full
  <2>3. Extent[session] \in 1 .. Len(DataPages) /\ DataPages \in Seq(Pages)
    BY <1>1, HandlesAssumption DEF Sessions
  <2>4. at' \in 1 .. Extent[session] /\ at' \in 1 .. Len(DataPages)
    BY <1>1, <2>1, <2>2, <2>3
  <2>5. QED
    BY <2>1, <2>3, <2>4
<1>4. QED
  BY <1>2, <1>3

LEMMA DataOfSession ==
  ASSUME NEW s \in Sessions, NEW i \in 1 .. Extent[s]
  PROVE  DataPages[i] \in DataOf(s)
<1>1. s <= s
  BY HandlesAssumption DEF Sessions
<1>2. QED
  BY <1>1 DEF DataOf

LEMMA InsertChoosesKeeps == ASSUME BInv, HI, InsertChooses PROVE BInv' /\ HI'
<1>1. /\ step = "choose" /\ step' = "take" /\ Idle(W) /\ Rest /\ frame' = frame
      /\ UNCHANGED <<cmd, prev, tids, out, session>>
  BY DEF InsertChooses, Waits
<1>2. PICK h \in held[W] : h.page = FSMPage /\ UnfixBCB(h.bcb) /\ SetModified(h.bcb, TRUE)
  BY DEF InsertChooses, HandedOut
<1>3. BInv' /\ Pool' = Pool /\ held'[W] = held[W] \ {h}
  BY <1>1, <1>2, FramesType, Unfixed
<1>4. UNCHANGED <<pid, frameIndex, pc>>
  BY <1>1 DEF Rest
<1> DEFINE Old == /\ at' \in DOMAIN pages /\ used'[at'] > 1 /\ UNCHANGED <<pages, handle>>
                  /\ used' \in Seq(Nat \ {0}) /\ Len(used') = Len(used)
           Fresh_ == /\ at' = Len(pages) + 1 /\ at' \in 1 .. Extent[session]
                   /\ at' \in DOMAIN DataPages
                   /\ pages' = Append(pages, DataPages[at'])
                   /\ handle' = Append(handle, NoBCB) /\ used' = Append(used, 1)
<1>5. Old \/ Fresh_
  BY Chosen
<1>6. /\ pages \in Seq(Pages) /\ handle \in Seq(BCBs \cup {NoBCB}) /\ used \in Seq(Nat \ {0})
      /\ Len(handle) = Len(pages) /\ Len(used) = Len(pages) /\ session \in Sessions
      /\ \A i \in DOMAIN pages :
           i \in DOMAIN DataPages /\ pages[i] = DataPages[i] /\ pages[i] \in DataOf(session)
  BY DEF HI, SegmentOK
<1>7. /\ SegmentOK' /\ at' \in DOMAIN pages' /\ Len(pages) <= Len(pages')
      /\ \A i \in DOMAIN pages : i \in DOMAIN pages' /\ pages'[i] = pages[i] /\ handle'[i] = handle[i]
      /\ \A i \in DOMAIN pages' \ DOMAIN pages : handle'[i] = NoBCB /\ i = at'
      /\ at' \notin DOMAIN pages \/ used'[at'] # 1
  <2>1. CASE Old
    BY <1>1, <1>6, <2>1 DEF SegmentOK
  <2>2. CASE Fresh_
    <3>1. DataPages[at'] \in DataOf(session) /\ DataPages[at'] \in Pages
      BY <1>6, <2>2, DataOfSession, HandlesAssumption
    <3>2. /\ pages' \in Seq(Pages) /\ handle' \in Seq(BCBs \cup {NoBCB}) /\ used' \in Seq(Nat \ {0})
          /\ Len(pages') = Len(pages) + 1 /\ Len(handle') = Len(pages') /\ Len(used') = Len(pages')
          /\ \A i \in DOMAIN pages : pages'[i] = pages[i] /\ handle'[i] = handle[i]
          /\ pages'[at'] = DataPages[at'] /\ handle'[at'] = NoBCB
          /\ DOMAIN pages = 1 .. Len(pages) /\ DOMAIN pages' = 1 .. Len(pages')
      BY <1>6, <2>2, <3>1
    <3>3. SegmentOK'
      BY <1>1, <1>6, <2>2, <3>1, <3>2 DEF SegmentOK
    <3>4. QED
      BY <1>6, <2>2, <3>2, <3>3
  <2>3. QED
    BY <1>5, <2>1, <2>2
<1> HIDE DEF Old, Fresh_
<1>8. Asking' /\ NoEviction'
  BY <1>1, <1>4, StaysIdle DEF Idle
<1>9. CommandOK'
  <2>1. PICK K : tids \in Seq((1 .. Len(pages)) \X K)
    BY DEF HI, CommandOK
  <2>2. tids' \in Seq((1 .. Len(pages')) \X K)
    BY <1>1, <1>6, <1>7, <2>1
  <2>3. at' \in Nat /\ prev' \in 0 .. Len(pages')
    BY <1>1, <1>6, <1>7 DEF HI, CommandOK, SegmentOK
  <2>4. StepOf' /\ cmd'.row \in Rows /\ cmd'.op \in Menu[session]
    BY <1>1 DEF HI, CommandOK, StepOf
  <2>5. QED
    BY <1>1, <1>7, <2>2, <2>3, <2>4 DEF CommandOK
<1>10. KnownOnly'
  <2>1. Known \subseteq Known'
    BY <1>1, <1>7 DEF Known
  <2>2. \A b \in BCBs : pid[b] \in Known
    BY DEF HI, KnownOnly
  <2>3. ASSUME New(at)', NEW b \in BCBs PROVE pid[b] # pages'[at']
    <3>1. at' \notin DOMAIN pages
      BY <1>7, <2>3 DEF New
    <3>2. /\ pages'[at'] = DataPages[at'] /\ at' \in DOMAIN DataPages
      BY <1>7 DEF SegmentOK
    <3>3. DataPages[at'] \in Pages /\ DataPages[at'] # NoPage
      BY <3>2, HandlesAssumption, BufferAssumption DEF NoPage
    <3>4. DataPages[at'] \notin OtherPages \cup {FSMPage}
      BY <3>2, HandlesAssumption
    <3>5. \A i \in DOMAIN pages : pages[i] # DataPages[at']
      BY <1>6, <3>1, <3>2, HandlesAssumption
    <3>6. DataPages[at'] \notin Known
      BY <3>3, <3>4, <3>5 DEF Known
    <3>7. QED
      BY <2>2, <3>2, <3>6
  <2>4. QED
    BY <1>4, <2>1, <2>2, <2>3 DEF KnownOnly
<1>11. HandlesInv'
  <2>1. \A i \in DOMAIN pages : h.page # pages[i]
    BY <1>2, PagesDiffer DEF HI
  <2>2. QED
    BY <1>1, <1>3, <1>4, <1>7, <2>1, LessHeld
<1>12. \A g \in held'[W] : g \in held[W] /\ For(g)'
  <2>1. \A i \in DOMAIN pages : Empty(i)' = Empty(i)
    BY <1>1, <1>4, <1>7 DEF Empty, Valid, Seen
  <2>2. QED
    BY <1>1, <1>3, <1>7, <2>1, StaysFor DEF Using
<1>13. HeldFor'
  BY <1>1, <1>12 DEF HI, HeldFor
<1>14. QED
  BY <1>3, <1>7, <1>8, <1>9, <1>10, <1>11, <1>13 DEF HI

(* Writing to a page that is kept fixed changes no other one.               *)
LEMMA OtherFrames ==
  ASSUME BInv, Idle(W), NEW g \in held[W], NEW h \in held[W], g # h, NEW v,
         frame' = [frame EXCEPT ![frameIndex[h.bcb]] = v]
  PROVE  frame'[frameIndex[g.bcb]] = frame[frameIndex[g.bcb]]
<1>1. /\ g.bcb \in Pool /\ h.bcb \in Pool /\ frameIndex[g.bcb] # INVALID
      /\ frameIndex[g.bcb] \in Frames
  BY HeldPlaced DEF BInv
<1>2. g.bcb # h.bcb
  BY HeldOnce DEF BInv
<1>3. pc[W] # "resetNext"
  BY DEF Idle
<1>4. frameIndex[g.bcb] # frameIndex[h.bcb]
  BY <1>1, <1>2, <1>3, HeldFrames DEF BInv
<1>5. QED
  BY <1>1, <1>4, FramesType

(* A page of the segment is written to and unfixed, and the command ends.   *)
LEMMA Written ==
  ASSUME BInv, HI, Idle(W), Rest, Finish, NEW h \in held[W], UnfixBCB(h.bcb),
         SetModified(h.bcb, TRUE), NEW v \in Versions,
         frame' = [frame EXCEPT ![frameIndex[h.bcb]] = v],
         NEW k \in DOMAIN pages, h.page = pages[k],
         UNCHANGED <<pages, used, runVars, session>>,
         handle' \in Seq(BCBs \cup {NoBCB}), Len(handle') = Len(handle),
         \A i \in DOMAIN pages : i # k => handle'[i] = handle[i],
         step \in {"write", "erase"}, step = "erase" => handle[at] # NoBCB, k = at
  PROVE  /\ BInv' /\ SegmentOK' /\ CommandOK' /\ Asking' /\ KnownOnly' /\ HeldFor' /\ NoEviction'
         /\ Pool' = Pool /\ held'[W] = held[W] \ {h}
<1>1. frame' \in [Frames -> Versions]
  BY FramesType
<1>2. BInv' /\ Pool' = Pool /\ held'[W] = held[W] \ {h}
  BY <1>1, Unfixed
<1>3. UNCHANGED <<pid, frameIndex, pc, at, prev, tids, out>> /\ step' = "ready"
  BY DEF Rest, runVars, Finish
<1>4. SegmentOK'
  BY DEF HI, SegmentOK
<1>5. CommandOK'
  BY <1>3 DEF HI, CommandOK, StepOf
<1>6. Asking' /\ NoEviction' /\ KnownOnly'
  BY <1>3, StaysIdle, StaysKnown DEF Idle
<1>7. ASSUME NEW g \in held'[W] PROVE g \in held[W] /\ For(g)'
  <2>1. g \in held[W] /\ g # h
    BY <1>2
  <2>2. For(g)
    BY <2>1 DEF HI, HeldFor
  <2>3. ASSUME NEW i \in DOMAIN pages, g.page = pages[i], Because(i, g) PROVE Because(i, g)'
    <3>1. i # k
      BY <2>1, <2>3, HeldOnce DEF BInv
    <3>2. i \notin Busy
      BY <3>1 DEF Busy
    <3>3. handle[i] = g.bcb /\ g.mode = "S" /\ Empty(i)
      BY <2>3, <3>1, <3>2 DEF Because
    <3>4. frame'[frameIndex[g.bcb]] = frame[frameIndex[g.bcb]]
      BY <2>1, OtherFrames
    <3>5. Empty(i)'
      BY <1>3, <3>1, <3>3, <3>4 DEF Empty, Valid, Seen
    <3>6. QED
      BY <3>1, <3>3, <3>5 DEF Because
  <2>4. g.page \notin OtherPages \/ step # "touched"
    OBVIOUS
  <2>5. QED
    BY <2>1, <2>2, <2>3 DEF For
<1>8. HeldFor'
  BY <1>3, <1>7 DEF HI, HeldFor
<1>9. QED
  BY <1>2, <1>4, <1>5, <1>6, <1>8

LEMMA InsertWritesKeeps ==
  ASSUME Steady, Contents, BInv, HI, InsertWrites PROVE BInv' /\ HI'
<1>1. /\ Idle(W) /\ step = "write" /\ Rest /\ Finish
      /\ UNCHANGED <<pages, used, runVars, session>>
  BY DEF InsertWrites, Waits
<1>2. at \in DOMAIN pages /\ cmd.row \in Rows
  BY <1>1 DEF HI, CommandOK
<1>3. PICK h \in held[W] : /\ h.page = pages[at] /\ handle' = [handle EXCEPT ![at] = h.bcb]
                           /\ AddRecord(h.bcb) /\ SetModified(h.bcb, TRUE) /\ UnfixBCB(h.bcb)
  BY DEF InsertWrites, HandedOut
<1>4. /\ h.bcb \in BCBs /\ h.bcb \in Pool /\ pid[h.bcb] = h.page
      /\ frameIndex[h.bcb] # INVALID /\ frameIndex[h.bcb] \in Frames
  BY HeldPlaced DEF BInv
<1> DEFINE s == IF New(at) THEN Blank ELSE frame[frameIndex[h.bcb]]
           v == Append(s, cmd.row)
<1>5. v \in Versions
  <2>1. s \in Seq(Rows \cup {Gone})
    BY HeldContent DEF Contents
  <2>2. QED
    BY <1>2, <2>1 DEF Contents
<1>6. frame' = [frame EXCEPT ![frameIndex[h.bcb]] = v]
  BY <1>3, <1>4, FramesType DEF AddRecord
<1> HIDE DEF v, s
<1>7. /\ handle' \in Seq(BCBs \cup {NoBCB}) /\ Len(handle') = Len(handle) /\ handle'[at] = h.bcb
      /\ \A i \in DOMAIN pages : i # at => handle'[i] = handle[i]
  BY <1>2, <1>3, <1>4, HandlesType DEF HI, SegmentOK
<1>8. /\ BInv' /\ SegmentOK' /\ CommandOK' /\ Asking' /\ KnownOnly' /\ HeldFor' /\ NoEviction'
      /\ Pool' = Pool /\ held'[W] = held[W] \ {h}
  BY <1>1, <1>2, <1>3, <1>5, <1>6, <1>7, Written
<1>9. HandlesInv'
  <2> SUFFICES ASSUME Reading(session), NEW i \in DOMAIN pages, handle'[i] # NoBCB
               PROVE  (Roomy(session) /\ Points(i)') \/ Kept(i)'
    BY <1>1 DEF HandlesInv, Reading, Roomy, Needed, DataOf
  <2>1. Roomy(session)
    BY <1>1, InsertingStep DEF Steady
  <2>2. UNCHANGED <<pid, frameIndex>>
    BY <1>1 DEF Rest
  <2>3. CASE i = at
    BY <1>1, <1>3, <1>4, <1>7, <1>8, <2>1, <2>2, <2>3 DEF Points
  <2>4. CASE i # at
    <3>1. handle'[i] = handle[i] /\ pages[i] # pages[at]
      BY <1>2, <1>7, <2>4, PagesDiffer DEF HI
    <3>2. Points(i) \/ Kept(i)
      BY <1>1, <3>1, AtIdle DEF HI, HandlesInv
    <3>3. QED
      BY <1>1, <1>3, <1>8, <2>1, <2>2, <3>1, <3>2 DEF Points, Kept
  <2>5. QED
    BY <2>3, <2>4
<1>10. QED
  BY <1>8, <1>9 DEF HI

LEMMA Overwritten ==
  ASSUME NEW S, NEW q \in Seq(S), NEW k, NEW x \in S
  PROVE  [q EXCEPT ![k] = x] \in Seq(S)
<1>1. q \in [1 .. Len(q) -> S] /\ Len(q) \in Nat
  OBVIOUS
<1>2. [q EXCEPT ![k] = x] \in [1 .. Len(q) -> S]
  BY <1>1
<1>3. QED
  BY <1>1, <1>2, SeqDef

LEMMA EraseKeeps == ASSUME Contents, BInv, HI, EraseRecord PROVE BInv' /\ HI'
<1>1. /\ Idle(W) /\ Has /\ step = "erase" /\ Rest /\ Finish /\ Release(at, TRUE)
      /\ UNCHANGED <<pages, used, runVars, session>>
  BY DEF EraseRecord, Has, Waits
<1>2. /\ at \in DOMAIN pages /\ handle[at] # NoBCB
      /\ \E h \in held[W] : h.bcb = handle[at] /\ h.page = pages[at] /\ h.mode = "X"
  BY <1>1, HasKept
<1>3. PICK h \in held[W] : h.bcb = handle[at] /\ h.page = pages[at] /\ h.mode = "X"
  BY <1>2
<1>4. mode[h.bcb] = "X"
  BY <1>3, HeldLatched
<1>5. UnfixBCB(h.bcb) /\ SetModified(h.bcb, TRUE) /\ handle' = [handle EXCEPT ![at] = NoBCB]
  BY <1>1, <1>2, <1>3, <1>4 DEF Release
<1> DEFINE s == frame[frameIndex[h.bcb]]
           v == [s EXCEPT ![Slot(s)] = Gone]
<1>6. v \in Versions
  <2>1. s \in Seq(Rows \cup {Gone})
    BY HeldContent
  <2>2. v \in Seq(Rows \cup {Gone})
    <3> HIDE DEF s
    <3>1. QED
      BY <2>1, Overwritten
  <2>3. QED
    BY <2>2 DEF Contents
<1>7. frame' = [frame EXCEPT ![frameIndex[h.bcb]] = v]
  <2>1. frameIndex[h.bcb] \in Frames
    BY HeldPlaced DEF BInv
  <2>2. QED
    BY <1>3, <2>1, FramesType DEF EraseRecord
<1> HIDE DEF v, s
<1>8. /\ handle' \in Seq(BCBs \cup {NoBCB}) /\ Len(handle') = Len(handle) /\ handle'[at] = NoBCB
      /\ \A i \in DOMAIN pages : i # at => handle'[i] = handle[i]
  BY <1>2, <1>5, HandlesType DEF HI, SegmentOK
<1>9. /\ BInv' /\ SegmentOK' /\ CommandOK' /\ Asking' /\ KnownOnly' /\ HeldFor' /\ NoEviction'
      /\ Pool' = Pool /\ held'[W] = held[W] \ {h}
  BY <1>1, <1>2, <1>3, <1>5, <1>6, <1>7, <1>8, Written
<1>10. HandlesInv'
  <2>1. UNCHANGED <<pid, frameIndex>>
    BY <1>1 DEF Rest
  <2>2. \A i \in DOMAIN pages : i # at => h.page # pages[i]
    BY <1>2, <1>3, PagesDiffer DEF HI
  <2>3. QED
    BY <1>1, <1>8, <1>9, <2>1, <2>2, LessHeld
<1>11. QED
  BY <1>9, <1>10 DEF HI

LEMMA TouchDoneKeeps == ASSUME BInv, HI, TouchDone PROVE BInv' /\ HI'
<1>1. /\ Idle(W) /\ step = "touched" /\ Rest /\ Finish /\ UNCHANGED <<modified, frame>>
      /\ UNCHANGED <<pages, handle, used, at, prev, tids, out, session>>
  BY DEF TouchDone, Waits, segVars, runVars
<1>2. PICK h \in held[W] : h.page \in OtherPages /\ UnfixBCB(h.bcb)
  BY DEF TouchDone, HandedOut
<1>3. BInv' /\ Pool' = Pool /\ held'[W] = held[W] \ {h}
  BY <1>1, <1>2, FramesType, Unfixed
<1>4. UNCHANGED <<pid, frameIndex, pc>> /\ step' = "ready"
  BY <1>1 DEF Rest, Finish
<1>5. SegmentOK' /\ Asking' /\ NoEviction' /\ KnownOnly'
  BY <1>1, <1>4, StaysIdle, StaysKnown DEF Idle, HI, SegmentOK
<1>6. CommandOK'
  BY <1>1, <1>4 DEF HI, CommandOK, StepOf
<1>7. HandlesInv'
  <2>1. \A i \in DOMAIN pages : h.page # pages[i]
    BY <1>2, PagesDiffer DEF HI
  <2>2. QED
    BY <1>1, <1>3, <1>4, <2>1, LessHeld
<1>8. ASSUME NEW g \in held'[W] PROVE g \in held[W] /\ For(g)'
  <2>1. g \in held[W] /\ For(g) /\ g.page \notin OtherPages
    BY <1>2, <1>3 DEF HI, HeldFor
  <2>2. \A i : Empty(i)' = Empty(i)
    BY <1>1, <1>4 DEF Empty, Valid, Seen
  <2>3. QED
    BY <1>1, <1>4, <2>1, <2>2 DEF For, Because, Using, Busy
<1>9. HeldFor'
  BY <1>4, <1>8 DEF HI, HeldFor
<1>10. QED
  BY <1>3, <1>5, <1>6, <1>7, <1>9 DEF HI

LEMMA ShutdownDoneKeeps == ASSUME Spare, BInv, HI, ShutdownDone PROVE BInv' /\ HI'
<1>1. /\ step = "flushed" /\ Restart /\ Finish /\ session' = session + 1
      /\ handle' = [i \in DOMAIN pages |-> NoBCB] /\ UNCHANGED <<pages, used, at, prev, tids, out>>
  BY DEF ShutdownDone, runVars
<1>2. /\ pc'[W] = "idle" /\ held'[W] = {} /\ \A b \in BCBs : pid'[b] = NoPage
      /\ \A b \in BCBs : mode'[b] = "NoType" /\ fixCount'[b] = 0 /\ latchX'[b] = {} /\ latchS'[b] = {}
  BY <1>1, One DEF Restart
<1>3. BInv'
  <2>1. TypeInv' /\ LatchInv' /\ Structure'
    BY <1>1, RestartType, RestartLatch, RestartStructure DEF BInv
  <2>2. Accounted'
    BY <1>2 DEF Accounted, LatchFree, Upgraded
  <2>3. QED
    BY <2>1, <2>2 DEF BInv
<1>4. session \in Sessions /\ session + 1 \in Sessions
  BY <1>1 DEF HI, SegmentOK, CommandOK, StepOf
<1>5. DataOf(session) \subseteq DataOf(session + 1)
  <2>1. \A s \in Sessions : s <= session => s <= session + 1
    BY <1>4, HandlesAssumption DEF Sessions
  <2>2. QED
    BY <2>1 DEF DataOf
<1>6. SegmentOK'
  <2>1. pages \in Seq(Pages) /\ DOMAIN pages = 1 .. Len(pages) /\ Len(pages) \in Nat
    BY DEF HI, SegmentOK
  <2>2. handle' \in Seq(BCBs \cup {NoBCB}) /\ Len(handle') = Len(pages)
    BY <1>1, <2>1
  <2>3. \A i \in DOMAIN pages : /\ i \in DOMAIN DataPages /\ pages[i] = DataPages[i]
                                /\ pages[i] \in DataOf(session + 1)
    BY <1>5 DEF HI, SegmentOK
  <2>4. QED
    BY <1>1, <1>4, <2>2, <2>3 DEF HI, SegmentOK
<1>7. Asking' /\ NoEviction'
  BY <1>2, StaysIdle
<1>8. CommandOK'
  BY <1>1 DEF HI, CommandOK, StepOf, Finish
<1>9. KnownOnly'
  BY <1>1, <1>2 DEF KnownOnly, Known, Finish
<1>10. HandlesInv' /\ HeldFor'
  BY <1>1, <1>2 DEF HandlesInv, HeldFor, Finish
<1>11. QED
  BY <1>3, <1>6, <1>7, <1>8, <1>9, <1>10 DEF HI

(* The handle of a page is given up and the page unfixed.                   *)
LEMMA Released ==
  ASSUME BInv, HI, Idle(W), Rest, frame' = frame, UNCHANGED <<pages, used, session>>,
         NEW k \in DOMAIN pages, handle[k] # NoBCB, Release(k, FALSE),
         NEW h \in held[W], h.bcb = handle[k], h.page = pages[k]
  PROVE  /\ BInv' /\ SegmentOK' /\ HandlesInv' /\ held'[W] = held[W] \ {h}
         /\ UNCHANGED <<pid, frameIndex, pc>>
         /\ handle'[k] = NoBCB /\ \A i \in DOMAIN pages : i # k => handle'[i] = handle[i]
         /\ \A g \in held'[W] : g \in held[W] /\ g.page # pages[k]
<1>1. /\ UnfixBCB(h.bcb) /\ handle' = [handle EXCEPT ![k] = NoBCB]
      /\ SetModified(h.bcb, FALSE) \/ modified' = modified
  BY DEF Release
<1>2. BInv' /\ Pool' = Pool /\ held'[W] = held[W] \ {h}
  BY <1>1, FramesType, Unfixed
<1>3. UNCHANGED <<pid, frameIndex, pc>>
  BY DEF Rest
<1>4. /\ handle' \in Seq(BCBs \cup {NoBCB}) /\ Len(handle') = Len(handle) /\ handle'[k] = NoBCB
      /\ \A i \in DOMAIN pages : i # k => handle'[i] = handle[i]
  BY <1>1, HandlesType DEF HI, SegmentOK
<1>5. SegmentOK'
  BY <1>4 DEF HI, SegmentOK
<1>6. \A i \in DOMAIN pages : i # k => h.page # pages[i]
  BY PagesDiffer DEF HI
<1>7. HandlesInv'
  BY <1>2, <1>3, <1>4, <1>6, LessHeld
<1>8. \A g \in held'[W] : g \in held[W] /\ g.page # pages[k]
  BY <1>2, HeldOnce DEF BInv
<1>9. QED
  BY <1>2, <1>3, <1>4, <1>5, <1>7, <1>8

(* Nothing is released.                                                     *)
LEMMA NotReleased ==
  ASSUME BInv, HI, Idle(W), Rest, frame' = frame, UNCHANGED <<pages, used, session>>,
         UNCHANGED <<latchVars, held, modified, handle>>
  PROVE  /\ BInv' /\ SegmentOK' /\ HandlesInv' /\ UNCHANGED <<pid, frameIndex, pc>>
<1>1. UNCHANGED vars
  BY DEF Rest, vars, tableVars, listVars, bcbVars, latchVars, localVars
<1>2. BInv' /\ Pool' = Pool
  BY <1>1, QuietKeeps
<1>3. UNCHANGED <<pid, frameIndex, pc>>
  BY DEF Rest
<1>4. SegmentOK'
  BY DEF HI, SegmentOK
<1>5. HandlesInv'
  BY <1>2, <1>3, AtIdle DEF HI, HandlesInv, Reading, Roomy, Needed, DataOf, Points, Kept
<1>6. QED
  BY <1>2, <1>3, <1>4, <1>5

LEMMA FetchedKeeps == ASSUME BInv, HI, Fetched PROVE BInv' /\ HI'
<1>1. /\ Idle(W) /\ step = "fetch" /\ tids = <<>> /\ Rest /\ Finish /\ frame' = frame
      /\ UNCHANGED <<pages, used, session, at, prev, tids, out>> /\ step' = "ready"
  BY DEF Fetched, Waits, Finish, runVars
<1>2. at = prev /\ PagesOfTids = {}
  BY <1>1 DEF HI, CommandOK, PagesOfTids
<1>3. /\ BInv' /\ SegmentOK' /\ HandlesInv' /\ UNCHANGED <<pid, frameIndex, pc>>
      /\ \A g \in held'[W] : g \in held[W]
      /\ \A i \in DOMAIN pages : i # prev => handle'[i] = handle[i]
      /\ prev # 0 => \A g \in held'[W] : g.page # pages[prev]
  <2>1. CASE prev = 0
    <3>1. UNCHANGED <<latchVars, held, modified, handle>>
      BY <2>1 DEF Fetched
    <3>2. QED
      BY <1>1, <2>1, <3>1, NotReleased
  <2>2. CASE prev # 0
    <3>1. Release(prev, FALSE)
      BY <2>2 DEF Fetched
    <3>2. prev \in DOMAIN pages /\ handle[prev] # NoBCB /\ Kept(prev)
      BY <1>1, <2>2, PrevKept
    <3>3. PICK h \in held[W] : h.bcb = handle[prev] /\ h.page = pages[prev]
      BY <3>2 DEF Kept
    <3>4. QED
      BY <1>1, <3>1, <3>2, <3>3, Released
  <2>3. QED
    BY <2>1, <2>2
<1>4. Asking' /\ NoEviction' /\ KnownOnly'
  BY <1>1, <1>3, StaysIdle, StaysKnown DEF Idle
<1>5. CommandOK'
  BY <1>1 DEF HI, CommandOK, StepOf
<1>6. ASSUME NEW g \in held'[W] PROVE For(g)'
  <2>1. g \in held[W] /\ For(g)
    BY <1>3 DEF HI, HeldFor
  <2>2. ASSUME NEW i \in DOMAIN pages, g.page = pages[i], Because(i, g) PROVE Because(i, g)'
    <3>1. i # prev /\ i # at
      <4>1. i # 0
        BY HandlesType DEF HI
      <4>2. QED
        BY <1>2, <1>3, <2>2, <4>1
    <3>2. i \notin Busy
      BY <1>1, <1>2, <3>1 DEF Busy
    <3>3. handle[i] = g.bcb /\ g.mode = "S" /\ Empty(i)
      BY <1>1, <2>2, <3>1, <3>2 DEF Because
    <3>4. Empty(i)'
      BY <1>1, <1>3, <3>1, <3>3 DEF Empty, Valid, Seen
    <3>5. QED
      BY <1>3, <3>1, <3>3, <3>4 DEF Because
  <2>3. QED
    BY <1>1, <2>1, <2>2 DEF For
<1>7. HeldFor'
  BY <1>1, <1>3, <1>6 DEF HI, HeldFor
<1>8. QED
  BY <1>3, <1>4, <1>5, <1>7 DEF HI

LEMMA FetchKeeps == ASSUME BInv, HI, FetchTuple PROVE BInv' /\ HI'
<1>1. /\ Idle(W) /\ Has /\ step = "fetch" /\ tids # <<>> /\ Rest /\ frame' = frame
      /\ UNCHANGED <<pages, used, session, cmd, step>>
      /\ prev' = at /\ tids' = Tail(tids) /\ at' = IF tids' = <<>> THEN at ELSE Head(tids')[1]
  BY DEF FetchTuple, Has, Waits
<1>2. at \in DOMAIN pages /\ handle[at] # NoBCB
      /\ \E h \in held[W] : h.bcb = handle[at] /\ h.page = pages[at]
  BY <1>1, HasKept
<1>3. PICK K : tids \in Seq((1 .. Len(pages)) \X K)
  BY DEF HI, CommandOK
<1>4. at = tids[1][1]
  BY <1>1 DEF HI, CommandOK
<1>5. /\ tids' \in Seq((1 .. Len(pages)) \X K)
      /\ \A n \in DOMAIN tids : n = 1 \/ (n - 1 \in DOMAIN tids' /\ tids'[n - 1] = tids[n])
      /\ tids' # <<>> => Head(tids') = tids'[1] /\ tids'[1] \in (1 .. Len(pages)) \X K
  BY <1>1, <1>3
<1>6. PagesOfTids \subseteq {at} \cup PagesOfTids'
  BY <1>4, <1>5 DEF PagesOfTids
<1>7. /\ BInv' /\ SegmentOK' /\ HandlesInv' /\ UNCHANGED <<pid, frameIndex, pc>>
      /\ \A g \in held'[W] : g \in held[W]
      /\ \A i \in DOMAIN pages : i # prev \/ i = at => handle'[i] = handle[i]
      /\ prev \notin {0, at} => \A g \in held'[W] : g.page # pages[prev]
      /\ \E h \in held'[W] : h.bcb = handle[at] /\ h.page = pages[at]
  <2>1. CASE prev \in {0, at}
    <3>1. UNCHANGED <<latchVars, held, modified, handle>>
      BY <2>1 DEF FetchTuple
    <3>2. QED
      BY <1>1, <1>2, <2>1, <3>1, NotReleased
  <2>2. CASE prev \notin {0, at}
    <3>1. Release(prev, FALSE)
      BY <2>2 DEF FetchTuple
    <3>2. prev \in DOMAIN pages /\ handle[prev] # NoBCB /\ Kept(prev)
      BY <1>1, <2>2, PrevKept
    <3>3. PICK h \in held[W] : h.bcb = handle[prev] /\ h.page = pages[prev]
      BY <3>2 DEF Kept
    <3>4. /\ BInv' /\ SegmentOK' /\ HandlesInv' /\ held'[W] = held[W] \ {h}
          /\ UNCHANGED <<pid, frameIndex, pc>>
          /\ \A i \in DOMAIN pages : i # prev => handle'[i] = handle[i]
          /\ \A g \in held'[W] : g \in held[W] /\ g.page # pages[prev]
      BY <1>1, <3>1, <3>2, <3>3, Released
    <3>5. pages[prev] # pages[at]
      BY <1>2, <2>2, <3>2, PagesDiffer DEF HI
    <3>6. \E f \in held'[W] : f.bcb = handle[at] /\ f.page = pages[at]
      BY <1>2, <3>3, <3>4, <3>5
    <3>7. QED
      BY <2>2, <3>4, <3>6
  <2>3. QED
    BY <2>1, <2>2
<1>8. Asking' /\ NoEviction' /\ KnownOnly'
  BY <1>1, <1>7, StaysIdle, StaysKnown DEF Idle
<1>9. CommandOK'
  <2>1. at \in 1 .. Len(pages) /\ Len(pages) \in Nat
    BY <1>2, HandlesType DEF HI
  <2>2. at' \in Nat /\ (at' = IF tids' = <<>> THEN prev' ELSE tids'[1][1])
    <3>1. CASE tids' = <<>>
      BY <1>1, <2>1, <3>1
    <3>2. CASE tids' # <<>>
      <4>1. at' = tids'[1][1] /\ tids'[1] \in (1 .. Len(pages)) \X K
        BY <1>1, <1>5, <3>2
      <4>2. tids'[1][1] \in 1 .. Len(pages)
        BY <4>1
      <4>3. QED
        BY <2>1, <3>2, <4>1, <4>2
    <3>3. QED
      BY <3>1, <3>2
  <2>3. prev' \in 0 .. Len(pages)
    BY <1>1, <2>1
  <2>4. StepOf' /\ cmd'.row \in Rows /\ cmd'.op \in Menu[session]
    BY <1>1 DEF HI, CommandOK, StepOf
  <2>5. QED
    BY <1>1, <1>5, <2>2, <2>3, <2>4 DEF CommandOK
<1>10. ASSUME NEW g \in held'[W] PROVE For(g)'
  <2>1. g \in held[W] /\ For(g)
    BY <1>7 DEF HI, HeldFor
  <2>2. ASSUME NEW i \in DOMAIN pages, g.page = pages[i], Because(i, g) PROVE Because(i, g)'
    <3>1. i # prev \/ i = at
      <4>1. i # 0
        BY HandlesType DEF HI
      <4>2. QED
        BY <1>7, <2>2, <4>1
    <3>2. handle'[i] = handle[i] /\ Empty(i)' = Empty(i)
      BY <1>1, <1>7, <3>1 DEF Empty, Valid, Seen
    <3>3. i \in Busy => i \in Busy'
      BY <1>1, <1>6, <3>1 DEF Busy
    <3>4. i = at => handle[i] # NoBCB
      BY <1>2
    <3>5. QED
      BY <1>1, <2>2, <3>2, <3>3, <3>4 DEF Because
  <2>3. QED
    BY <1>1, <2>1, <2>2 DEF For
<1>11. handle'[prev'] # NoBCB /\ Kept(prev)'
  BY <1>1, <1>2, <1>7 DEF Kept
<1>12. HeldFor'
  BY <1>7, <1>10, <1>11 DEF HI, HeldFor
<1>13. QED
  BY <1>7, <1>8, <1>9, <1>12 DEF HI

LEMMA SearchKeeps == ASSUME Contents, BInv, HI, SearchPage PROVE BInv' /\ HI'
<1> DEFINE s == Seen(at)
<1>1. /\ Idle(W) /\ Has /\ step = "search" /\ Rest /\ frame' = frame
      /\ UNCHANGED <<pages, used, session, cmd, prev, tids, out>>
      /\ \/ Matches(s) /\ step' = "erase" /\ at' = at
         \/ ~Matches(s) /\ at' = at + 1 /\ step' = step
  BY DEF SearchPage, Has, Waits
<1>2. at \in DOMAIN pages /\ handle[at] # NoBCB
      /\ \E h \in held[W] : h.bcb = handle[at] /\ h.page = pages[at]
  BY <1>1, HasKept
<1>3. PICK h \in held[W] : h.bcb = handle[at] /\ h.page = pages[at]
  BY <1>2
<1>4. s \in Seq(Rows \cup {Gone})
  BY <1>3, HeldContent DEF Seen
<1>5. /\ BInv' /\ SegmentOK' /\ HandlesInv' /\ UNCHANGED <<pid, frameIndex, pc>>
      /\ \A g \in held'[W] : g \in held[W]
      /\ \A i \in DOMAIN pages : i # at => handle'[i] = handle[i]
      /\ \/ handle' = handle /\ (s = Blank \/ s[1] = cmd.row)
         \/ \A g \in held'[W] : g.page # pages[at]
  <2>1. CASE s = Blank \/ s[1] = cmd.row
    <3>1. UNCHANGED <<latchVars, held, modified, handle>>
      BY <2>1 DEF SearchPage
    <3>2. QED
      BY <1>1, <2>1, <3>1, NotReleased
  <2>2. CASE ~(s = Blank \/ s[1] = cmd.row)
    <3>1. Release(at, FALSE)
      BY <2>2 DEF SearchPage
    <3>2. QED
      BY <1>1, <1>2, <1>3, <3>1, Released
  <2>3. QED
    BY <2>1, <2>2
<1>6. Asking' /\ NoEviction' /\ KnownOnly'
  BY <1>1, <1>5, StaysIdle, StaysKnown DEF Idle
<1>7. CommandOK'
  <2>1. at \in Nat
    BY <1>2, HandlesType DEF HI
  <2>2. QED
    BY <1>1, <1>2, <2>1 DEF HI, CommandOK, StepOf
<1>8. s = Blank \/ s[1] = cmd.row => Empty(at) \/ (step' = "erase" /\ at' = at)
  <2>1. s = Blank => Empty(at)
    BY DEF Contents, Empty, Valid
  <2>2. s # Blank /\ s[1] = cmd.row => Matches(s)
    <3> SUFFICES ASSUME s # <<>>, s[1] = cmd.row PROVE \E k \in DOMAIN s : s[k] = cmd.row
      BY DEF Contents, Matches
    <3> HIDE DEF s
    <3>1. 1 \in DOMAIN s
      BY <1>4
    <3>2. QED
      BY <3>1
  <2>3. QED
    BY <1>1, <2>1, <2>2
<1> HIDE DEF s
<1>9. ASSUME NEW g \in held'[W] PROVE For(g)'
  <2>1. g \in held[W] /\ For(g)
    BY <1>5 DEF HI, HeldFor
  <2>2. ASSUME NEW i \in DOMAIN pages, g.page = pages[i], Because(i, g) PROVE Because(i, g)'
    <3>1. i = at => s = Blank \/ s[1] = cmd.row
      BY <1>5, <2>2
    <3>2. handle'[i] = handle[i]
      BY <1>5, <2>2
    <3>3. Empty(i)' = Empty(i)
      BY <1>1, <1>5, <3>2 DEF Empty, Valid, Seen
    <3>4. handle[i] = g.bcb /\ g.mode = "S" /\ (Empty(i) \/ i = at)
      BY <1>1, <1>2, <2>2 DEF Because, Busy
    <3>5. CASE Empty(i)
      BY <3>2, <3>3, <3>4, <3>5 DEF Because
    <3>6. CASE i = at /\ ~Empty(i)
      <4>1. step' = "erase" /\ at' = i
        BY <1>8, <3>1, <3>6
      <4>2. i \in Busy'
        BY <4>1 DEF Busy
      <4>3. QED
        BY <3>2, <3>4, <4>1, <4>2 DEF Because
    <3>7. QED
      BY <3>4, <3>5, <3>6
  <2>3. QED
    BY <1>1, <2>1, <2>2 DEF For
<1>10. HeldFor'
  BY <1>1, <1>5, <1>9 DEF HI, HeldFor
<1>11. QED
  BY <1>5, <1>6, <1>7, <1>10 DEF HI

LEMMA ScannedKeeps == ASSUME BInv, HI, Scanned PROVE BInv' /\ HI'
<1>1. /\ Idle(W) /\ step = "scan" /\ at \notin DOMAIN pages /\ step' = "fetch"
      /\ at' = IF tids = <<>> THEN 0 ELSE Head(tids)[1]
      /\ UNCHANGED <<vars, pages, handle, used, cmd, prev, tids, out, session>>
  BY DEF Scanned, Waits, segVars
<1>2. prev = 0
  BY <1>1 DEF HI, CommandOK
<1>3. BInv' /\ Pool' = Pool /\ UNCHANGED <<pid, frameIndex, frame, held, pc>>
  BY <1>1, QuietKeeps DEF vars, bcbVars, localVars
<1>4. Asking' /\ NoEviction' /\ KnownOnly' /\ SegmentOK'
  BY <1>1, <1>3, StaysIdle, StaysKnown DEF Idle, HI, SegmentOK
<1>5. CommandOK'
  <2>1. PICK K : tids \in Seq((1 .. Len(pages)) \X K)
    BY DEF HI, CommandOK
  <2>2. tids # <<>> => Head(tids) = tids[1] /\ tids[1] \in (1 .. Len(pages)) \X K
    BY <2>1
  <2>3. Len(pages) \in Nat
    BY DEF HI, SegmentOK
  <2>4. tids # <<>> => tids[1][1] \in Nat
    BY <2>2, <2>3
  <2>5. StepOf' /\ cmd'.row \in Rows /\ cmd'.op \in Menu[session]
    BY <1>1 DEF HI, CommandOK, StepOf
  <2>6. QED
    BY <1>1, <1>2, <2>1, <2>2, <2>4, <2>5 DEF HI, CommandOK
<1>6. \A i : Empty(i)' = Empty(i) /\ Kept(i)' = Kept(i) /\ Points(i)' = Points(i)
  BY <1>1, <1>3 DEF Empty, Valid, Seen, Kept, Points
<1>7. HandlesInv'
  BY <1>1, <1>3, <1>6, AtIdle DEF HI, HandlesInv, Reading, Roomy, Needed, DataOf
<1>8. ASSUME NEW g \in held[W] PROVE For(g)'
  <2>1. For(g)
    BY DEF HI, HeldFor
  <2>2. ASSUME NEW i \in DOMAIN pages, Because(i, g) PROVE Because(i, g)'
    <3>1. i \in Busy => i \in Busy'
      BY <1>1 DEF Busy, PagesOfTids
    <3>2. QED
      BY <1>1, <1>6, <2>2, <3>1 DEF Because
  <2>3. QED
    BY <1>1, <2>1, <2>2 DEF For
<1>9. HeldFor'
  BY <1>1, <1>2, <1>3, <1>8 DEF HI, HeldFor
<1>10. QED
  BY <1>3, <1>4, <1>5, <1>7, <1>9 DEF HI

LEMMA Collected ==
  ASSUME NEW A, NEW K, NEW L, NEW q \in Seq(A \X K), NEW n \in Nat,
         NEW f \in [1 .. n -> A \X L]
  PROVE  /\ q \o f \in Seq(A \X (K \cup L))
         /\ DOMAIN q \subseteq DOMAIN (q \o f)
         /\ \A i \in DOMAIN q : (q \o f)[i] = q[i]
         /\ n > 0 => Len(q) + 1 \in DOMAIN (q \o f) /\ (q \o f)[Len(q) + 1] = f[1]
<1> DEFINE U == A \X (K \cup L)
<1>1. A \X K \subseteq U /\ A \X L \subseteq U
  OBVIOUS
<1> HIDE DEF U
<1>2. q \in Seq(U) /\ Len(q) \in Nat /\ DOMAIN q = 1 .. Len(q)
  BY <1>1, SeqMonotonic, LenProperties
<1>3. f \in [1 .. n -> U]
  BY <1>1
<1>4. f \in Seq(U)
  BY <1>3, SeqDef
<1>5. DOMAIN f = 1 .. Len(f) /\ Len(f) \in Nat
  BY <1>4, LenProperties
<1>6. Len(f) = n
  BY <1>3, <1>4
<1>7. /\ q \o f \in Seq(U)
      /\ Len(q \o f) = Len(q) + n
      /\ \A i \in 1 .. Len(q) + n : (q \o f)[i] = IF i <= Len(q) THEN q[i] ELSE f[i - Len(q)]
  BY ONLY <1>2, <1>4, <1>6, ConcatProperties
<1>8. DOMAIN (q \o f) = 1 .. Len(q) + n
  BY <1>7, LenProperties
<1>9. n > 0 => (Len(q) + 1) - Len(q) = 1 /\ ~(Len(q) + 1 <= Len(q)) /\ Len(q) + 1 \in 1 .. Len(q) + n
  BY <1>2
<1>10. QED
  BY <1>2, <1>7, <1>8, <1>9 DEF U

LEMMA ScanKeeps == ASSUME Contents, BInv, HI, ScanPage PROVE BInv' /\ HI'
<1> DEFINE size == Cardinality(Valid(at))
           found == [n \in 1 .. size |->
                       <<at, CHOOSE k \in Valid(at) : Cardinality({l \in Valid(at) : l <= k}) = n>>]
           places == {found[n][2] : n \in 1 .. size}
<1>1. /\ Idle(W) /\ Has /\ step = "scan" /\ at' = at + 1 /\ tids' = tids \o found
      /\ UNCHANGED <<vars, pages, handle, used, cmd, step, prev, out, session>>
  BY DEF ScanPage, Has, Waits, segVars
<1>2. at \in DOMAIN pages /\ handle[at] # NoBCB
      /\ \E h \in held[W] : h.bcb = handle[at] /\ h.page = pages[at]
  BY <1>1, HasKept
<1>3. BInv' /\ Pool' = Pool /\ UNCHANGED <<pid, frameIndex, frame, held, pc>>
  BY <1>1, QuietKeeps DEF vars, bcbVars, localVars
<1>4. Asking' /\ NoEviction' /\ KnownOnly' /\ SegmentOK'
  BY <1>1, <1>3, StaysIdle, StaysKnown DEF Idle, HI, SegmentOK
<1>5. at \in Nat /\ at \in 1 .. Len(pages) /\ Len(pages) \in Nat
  BY <1>2, HandlesType DEF HI
<1>6. size \in Nat /\ (size = 0 => Empty(at))
  <2>1. Seen(at) \in Seq(Rows \cup {Gone})
    BY <1>2, HeldContent DEF Seen
  <2>2. Len(Seen(at)) \in Nat /\ DOMAIN Seen(at) = 1 .. Len(Seen(at))
    BY <2>1
  <2>3. IsFiniteSet(1 .. Len(Seen(at)))
    BY <2>2, FS_Interval
  <2>4. Valid(at) \subseteq 1 .. Len(Seen(at))
    BY <2>2 DEF Valid
  <2>5. IsFiniteSet(Valid(at))
    BY <2>3, <2>4, FS_Subset
  <2>6. QED
    BY <2>5, FS_CardinalityType, FS_EmptySet DEF Empty
<1> HIDE DEF size
<1>7. PICK K : tids \in Seq((1 .. Len(pages)) \X K)
  BY DEF HI, CommandOK
<1>8. /\ tids' \in Seq((1 .. Len(pages)) \X (K \cup places))
      /\ \A n \in DOMAIN tids : n \in DOMAIN tids' /\ tids'[n] = tids[n]
      /\ size > 0 => Len(tids) + 1 \in DOMAIN tids' /\ tids'[Len(tids) + 1][1] = at
  <2>1. \A n \in 1 .. size : found[n][1] = at /\ found[n][2] \in places
    OBVIOUS
  <2>2. found \in [1 .. size -> (1 .. Len(pages)) \X places]
    BY <1>5
  <2>3. size > 0 => 1 \in 1 .. size
    BY <1>6
  <2> HIDE DEF found, places
  <2>4. /\ tids \o found \in Seq((1 .. Len(pages)) \X (K \cup places))
        /\ DOMAIN tids \subseteq DOMAIN (tids \o found)
        /\ \A n \in DOMAIN tids : (tids \o found)[n] = tids[n]
        /\ size > 0 => /\ Len(tids) + 1 \in DOMAIN (tids \o found)
                       /\ (tids \o found)[Len(tids) + 1] = found[1]
    <3> DEFINE P == 1 .. Len(pages)
    <3>1. tids \in Seq(P \X K) /\ found \in [1 .. size -> P \X places] /\ size \in Nat
      BY <1>6, <1>7, <2>2
    <3> HIDE DEF P
    <3>2. /\ tids \o found \in Seq(P \X (K \cup places))
          /\ DOMAIN tids \subseteq DOMAIN (tids \o found)
          /\ \A n \in DOMAIN tids : (tids \o found)[n] = tids[n]
          /\ size > 0 => /\ Len(tids) + 1 \in DOMAIN (tids \o found)
                         /\ (tids \o found)[Len(tids) + 1] = found[1]
      BY ONLY <3>1, Collected
    <3>3. QED
      BY <3>2 DEF P
  <2>5. QED
    BY <1>1, <2>1, <2>3, <2>4
<1> HIDE DEF found, places
<1>9. PagesOfTids \subseteq PagesOfTids' /\ (size > 0 => at \in PagesOfTids')
  BY <1>8 DEF PagesOfTids
<1>10. CommandOK'
  <2>1. StepOf' /\ cmd'.row \in Rows /\ cmd'.op \in Menu[session]
    BY <1>1 DEF HI, CommandOK, StepOf
  <2>2. \E L : tids' \in Seq((1 .. Len(pages)) \X L)
    BY <1>8
  <2>3. at' \in Nat /\ prev' = 0
    BY <1>1, <1>5 DEF HI, CommandOK
  <2>4. pages' = pages /\ step' = "scan" /\ session' = session
    BY <1>1
  <2>5. \E L : tids' \in Seq((1 .. Len(pages')) \X L)
    BY <2>2, <2>4
  <2>6. prev' \in 0 .. Len(pages')
    BY <1>5, <2>3, <2>4
  <2>7. QED
    BY <2>1, <2>3, <2>4, <2>5, <2>6 DEF CommandOK
<1>11. \A i : Empty(i)' = Empty(i) /\ Kept(i)' = Kept(i) /\ Points(i)' = Points(i)
  BY <1>1, <1>3 DEF Empty, Valid, Seen, Kept, Points
<1>12. HandlesInv'
  BY <1>1, <1>3, <1>11, AtIdle DEF HI, HandlesInv, Reading, Roomy, Needed, DataOf
<1>13. ASSUME NEW g \in held[W] PROVE For(g)'
  <2>1. For(g)
    BY DEF HI, HeldFor
  <2>2. ASSUME NEW i \in DOMAIN pages, Because(i, g) PROVE Because(i, g)'
    <3>1. handle[i] = g.bcb /\ g.mode = "S" /\ (Empty(i) \/ i \in {at} \cup PagesOfTids)
      BY <1>1, <1>2, <2>2 DEF Because, Busy
    <3>2. Empty(i) \/ i \in PagesOfTids'
      BY <1>6, <1>9, <3>1
    <3>3. handle' = handle /\ step' = "scan" /\ Empty(i)' = Empty(i)
      BY <1>1, <1>11
    <3>4. i \in PagesOfTids' => i \in Busy'
      BY <3>3 DEF Busy
    <3>5. QED
      BY <3>1, <3>2, <3>3, <3>4 DEF Because
  <2>3. QED
    BY <1>1, <2>1, <2>2 DEF For
<1>14. HeldFor'
  BY <1>1, <1>3, <1>13 DEF HI, HeldFor
<1>15. QED
  BY <1>3, <1>4, <1>10, <1>12, <1>14 DEF HI

-----------------------------------------------------------------------------
(***************************************************************************)
(* Every step keeps the invariant.                                         *)
(***************************************************************************)
LEMMA StutterKeeps == ASSUME BInv, HI, UNCHANGED allVars PROVE BInv' /\ HI'
<1>1. UNCHANGED <<vars, pages, handle, used, cmd, step, at, prev, tids, out, session>>
  BY DEF allVars, segVars, cmdVars, runVars
<1> USE DEF vars, tableVars, listVars, bcbVars, latchVars, localVars
<1>2. TypeInv' /\ LatchInv'
  BY <1>1, NextType, NextLatch DEF BInv
<1>3. Structure' /\ Pool' = Pool
  BY <1>1, <1>2, SameStructure DEF BInv
<1>4. Accounted'
  BY <1>1 DEF BInv, Accounted, LatchFree, Worked, Hunted, Upgraded
<1>5. SegmentOK' /\ CommandOK' /\ KnownOnly' /\ NoEviction'
  <2>1. SegmentOK'
    BY <1>1 DEF HI, SegmentOK, DataOf
  <2>2. CommandOK'
    BY <1>1 DEF HI, CommandOK, StepOf
  <2>3. KnownOnly'
    BY <1>1 DEF HI, KnownOnly, Known, New
  <2>4. NoEviction'
    BY <1>1 DEF HI, NoEviction, Roomy, Needed, DataOf
  <2>5. QED
    BY <2>1, <2>2, <2>3, <2>4
<1>6. Asking'
  BY <1>1 DEF HI, Asking, Purpose, Page, Wanted, HandedOut
<1>7. \A i : Empty(i)' = Empty(i) /\ Kept(i)' = Kept(i) /\ Points(i)' = Points(i)
  BY <1>1, <1>3 DEF Empty, Valid, Seen, Kept, Points
<1>8. HandlesInv'
  BY <1>1, <1>7 DEF HI, HandlesInv, Reading, Roomy, Needed, DataOf
<1>9. \A h \in held[W] : For(h)'
  BY <1>1, <1>7 DEF HI, HeldFor, For, Because, Busy, PagesOfTids, Wanted
<1>10. HeldFor'
  BY <1>1, <1>7, <1>9 DEF HI, HeldFor
<1>11. QED
  BY <1>2, <1>3, <1>4, <1>5, <1>6, <1>8, <1>10 DEF BInv, HI

LEMMA InitHI == HInit /\ Spare => BInv /\ HI
<1> SUFFICES ASSUME HInit, Spare PROVE BInv /\ HI
  OBVIOUS
<1>1. Init /\ pages = <<>> /\ handle = <<>> /\ used = <<>> /\ step = "ready"
      /\ at = 0 /\ prev = 0 /\ tids = <<>> /\ session \in Sessions
  BY HandlesAssumption DEF HInit, Sessions
<1>2. TypeInv /\ LatchInv /\ Structure
  BY <1>1, InitType, InitLatch, InitStructure
<1>3. /\ pc[W] = "idle" /\ held[W] = {} /\ \A b \in BCBs : pid[b] = NoPage
      /\ \A b \in BCBs : /\ mode[b] = "NoType" /\ fixCount[b] = 0
                         /\ latchX[b] = {} /\ latchS[b] = {}
  BY <1>1, One DEF Init
<1>4. Accounted
  BY <1>3 DEF Accounted, LatchFree, Upgraded
<1>5. SegmentOK /\ KnownOnly
  BY <1>1, <1>3 DEF SegmentOK, KnownOnly, Known
<1>6. CommandOK
  <2>1. tids \in Seq((1 .. Len(pages)) \X {})
    BY <1>1
  <2>2. Len(pages) = 0
    BY <1>1
  <2>3. QED
    BY <1>1, <2>1, <2>2 DEF CommandOK, StepOf
<1>7. Asking /\ HandlesInv /\ HeldFor /\ NoEviction
  BY <1>1, <1>3 DEF Asking, HandlesInv, HeldFor, NoEviction, Evicting
<1>8. QED
  BY <1>2, <1>4, <1>5, <1>6, <1>7 DEF BInv, HI

LEMMA CommandKeeps ==
  ASSUME Steady, Spare, Contents, BInv, HI, Command PROVE BInv' /\ HI'
<1>1. CASE GetPage
  BY <1>1, GetFixKeeps, GetKeepKeeps, GetRelatchKeeps, GetUpgradeKeeps DEF GetPage
<1>2. CASE Insert
  BY <1>2, InsertAsksKeeps, InsertRefusedKeeps, InsertChoosesKeeps, InsertTakesKeeps,
     InsertWritesKeeps DEF Insert
<1>3. CASE Show
  BY <1>3, ScanKeeps, ScannedKeeps, FetchKeeps, FetchedKeeps DEF Show
<1>4. CASE Delete
  BY <1>4, SearchKeeps, EraseKeeps DEF Delete
<1>5. CASE Touch
  BY <1>5, TouchDoneKeeps, TouchAsksKeeps DEF Touch
<1>6. CASE Shutdown
  BY <1>6, ShutdownAsksKeeps, ShutdownDoneKeeps DEF Shutdown
<1>7. QED
  BY <1>1, <1>2, <1>3, <1>4, <1>5, <1>6 DEF Command

LEMMA HNextKeeps ==
  ASSUME Steady, Spare, Contents, BInv, HI, [HNext]_allVars PROVE BInv' /\ HI'
<1>1. CASE Manage
  <2>1. Working /\ Same
    BY <1>1 DEF Manage, Working, Same
  <2>2. QED
    BY <2>1, WorkingSteps
<1>2. ASSUME NEW h \in Buckets, Choose(h) PROVE BInv' /\ HI'
  <2>1. Working /\ Same
    BY <1>2 DEF Choose, Working, Same
  <2>2. QED
    BY <2>1, WorkingSteps
<1>3. CASE Command
  BY <1>3, CommandKeeps
<1>4. ASSUME NEW op \in DOMAIN FirstStep, NEW r \in Rows, Give(op, r) PROVE BInv' /\ HI'
  BY <1>4, GiveKeeps
<1>5. CASE UNCHANGED allVars
  BY <1>5, StutterKeeps
<1>6. QED
  BY <1>1, <1>2, <1>3, <1>4, <1>5 DEF HNext

LEMMA HandlesInvariant ==
  ASSUME Steady, Spare, Contents PROVE HSpec => [](BInv /\ HI)
<1>1. HInit => BInv /\ HI
  BY InitHI
<1>2. BInv /\ HI /\ [HNext]_allVars => (BInv /\ HI)'
  BY HNextKeeps
<1>3. QED
  BY <1>1, <1>2, PTL DEF HSpec

(* Whenever getPage returns, the pointer it returns is the frame that holds *)
(* the page asked for: a handle the segment kept still points to its page.  *)
(* (SegmentBase::getPage)                                                   *)
THEOREM HandlesPoint ==
  ASSUME Steady, Spare, Contents PROVE HSpec => []GetPageReturnsPage
<1>1. ASSUME BInv, HI PROVE GetPageReturnsPage
  <2> SUFFICES ASSUME Has PROVE pid[handle[at]] = pages[at] /\ handle[at] \in Linked
    BY DEF GetPageReturnsPage
  <2>1. PICK h \in held[W] : h.bcb = handle[at] /\ h.page = pages[at]
    BY <1>1, HasKept
  <2>2. h.bcb \in Pool /\ pid[h.bcb] = h.page
    BY <1>1, HeldPlaced DEF BInv
  <2>3. QED
    BY <1>1, <2>1, <2>2, ChainsAre DEF BInv
<1>2. BInv /\ HI => GetPageReturnsPage
  BY <1>1
<1>3. QED
  BY <1>2, HandlesInvariant, PTL

(* Between two commands the only pages still latched are those without a    *)
(* valid row that a scan has read, and the page of the free space           *)
(* management after an insertion that was refused. (scan, getTuples,        *)
(* deleteTuplePhysically, insertTuple)                                      *)
THEOREM LatchesReleased ==
  ASSUME Steady, Spare, Contents PROVE HSpec => []LatchesLeft
<1>1. ASSUME BInv, HI PROVE LatchesLeft
  <2> SUFFICES ASSUME step = "ready", NEW b \in BCBs, ~LatchFree(b) PROVE b \in LeftBehind
    BY DEF LatchesLeft
  <2>1. pc[W] = "idle"
    BY <1>1 DEF HI, Asking, Purpose, Using
  <2>2. PICK h \in held[W] : h.bcb = b
    BY <1>1, <2>1, AtIdle DEF BInv, Accounted, Idle
  <2>3. CASE h.page = FSMPage
    BY <2>2, <2>3 DEF LeftBehind, HandedOut
  <2>4. CASE h.page # FSMPage
    <3>1. PICK i \in DOMAIN pages : h.page = pages[i] /\ Because(i, h)
      BY <1>1, <2>4 DEF HI, HeldFor, For
    <3>2. handle[i] = b /\ h.mode = "S" /\ Valid(i) = {}
      BY <2>2, <3>1 DEF Because, Busy, Using, Empty
    <3>3. latchX[b] = {} /\ b # NoBCB
      BY <1>1, <2>2, <3>2, HeldLatched, Constants
    <3>4. QED
      BY <3>2, <3>3 DEF LeftBehind
  <2>5. QED
    BY <2>3, <2>4
<1>2. BInv /\ HI => LatchesLeft
  BY <1>1
<1>3. QED
  BY <1>2, HandlesInvariant, PTL
=============================================================================
