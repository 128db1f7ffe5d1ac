----------------------------- MODULE PageHandles -----------------------------
(***************************************************************************)
(* A segment of slotted pages on top of the buffer manager: SegmentBase    *)
(* remembers for each of its pages the control block it was handed         *)
(* (_pages[i].second) and latches through it; insertTuple, scan, getTuples *)
(* and deleteTuplePhysically keep, drop or forget these handles in ways of *)
(* their own.  Commands run one at a time, so there is one client.         *)
(*                                                                         *)
(* A page's content is the sequence of its slots: a row, or Gone once the  *)
(* record is deleted.  Which page has room is what the free space          *)
(* management of module Segment says; here it counts the slots given.      *)
(***************************************************************************)
EXTENDS BufferManager

CONSTANTS
  Worker,      (* the thread the commands run in                             *)
  Rows,        (* rows, told apart by their identifiers                      *)
  Gone,        (* a slot whose record was deleted                            *)
  Capacity,    (* bound: slots of a page                                     *)
  FSMPage,     (* the page of the segment's free space management            *)
  DataPages,   (* the pages the partition hands out to the segment, in order *)
  OtherPages,  (* pages of other segments                                    *)
  Menu,        (* bound: the commands given in each life of the process      *)
  Extent,      (* bound: the data pages the partition can hand out by then   *)
  Births       (* bound: the lives that begin with no segment yet            *)

ASSUME HandlesAssumption ==
  /\ Clients = {Worker} /\ PagesOf[Worker] = Pages
  /\ Capacity \in Nat \ {0}
  /\ Gone \notin Rows
  /\ DataPages \in Seq(Pages) /\ FSMPage \in Pages /\ OtherPages \subseteq Pages
  /\ \A i, j \in DOMAIN DataPages : DataPages[i] = DataPages[j] => i = j
  /\ \A i \in DOMAIN DataPages : DataPages[i] \notin OtherPages \cup {FSMPage}
  /\ FSMPage \notin OtherPages
  /\ DOMAIN Menu \subseteq Nat /\ DOMAIN Extent = DOMAIN Menu
  /\ Births \subseteq DOMAIN Menu
  /\ \A i \in DOMAIN Extent : Extent[i] \in 1 .. Len(DataPages)

Sessions == DOMAIN Menu
NoCommand == [op |-> "none", row |-> CHOOSE r \in Rows : TRUE]

VARIABLES
  pages,     (* _pages[i].first: the logical pages of the segment             *)
  handle,    (* _pages[i].second: the control block, or NoBCB for nullptr     *)
  used,      (* the slots the free space management has given on each page    *)
  cmd,       (* the command that runs: its operation and row                  *)
  step,      (* where it is                                                   *)
  at, prev,  (* the page it works on, the one it latched before               *)
  tids,      (* the tuple identifiers scan has collected, as <<page, slot>>   *)
  out,       (* the rows getTuples has read                                   *)
  session    (* which life of the process this is                             *)

segVars == <<pages, handle, used>>
runVars == <<at, prev, tids, out>>
cmdVars == <<cmd, step, runVars, session>>
allVars == <<vars, segVars, cmdVars>>

HInit ==
  /\ Init
  /\ pages = <<>> /\ handle = <<>> /\ used = <<>>
  /\ cmd = NoCommand /\ step = "ready"
  /\ at = 0 /\ prev = 0 /\ tids = <<>> /\ out = {}
  /\ session \in Births

-----------------------------------------------------------------------------
(***************************************************************************)
(* The calls of the buffer manager.  While one runs, the command waits.    *)
(***************************************************************************)
Waits == Idle(Worker)

Ask(kind, p, m) ==
  /\ Waits
  /\ Begin(Worker, kind, p, m,
           CASE kind = "fix" -> "lookup" [] kind = "emptyfix" -> "popCheck"
             [] kind = "flushAll" -> "flushAll")
  /\ todo' = [todo EXCEPT ![Worker] = IF kind = "flushAll" THEN Linked ELSE {}]
  /\ UNCHANGED <<tableVars, listVars, bcbVars, latchVars, frame, disk,
                 ptr, newBCB, victim, home, got, held>>

(* The control blocks handed out for a page and not unfixed yet.            *)
HandedOut(p) == {h.bcb : h \in {g \in held[Worker] : g.page = p}}

(* The parts of a buffer manager step that unfixing and writing leave alone. *)
Rest == UNCHANGED <<tableVars, listVars, pid, frameIndex, disk, pc,
                    call, ptr, newBCB, victim, home, got, todo>>

UnfixBCB(b) ==
  /\ Unlock(b, Worker)
  /\ held' = [held EXCEPT ![Worker] = {h \in @ : h.bcb # b}]

SetModified(b, flag) == modified' = [modified EXCEPT ![b] = flag]

(* Mutant: the segment keeps the handle of a page it has released.          *)
ReleaseKeeps(i, flag) ==
  LET b == handle[i] IN
  /\ IF b = NoBCB THEN UNCHANGED <<latchVars, held, modified>>
     ELSE /\ UnfixBCB(b)
          /\ IF mode[b] = "X" THEN SetModified(b, flag) ELSE UNCHANGED modified
  /\ UNCHANGED handle

(* releasePage: an exclusively latched page gets the modified flag of the   *)
(* caller, whatever it was before.                                          *)
Release(i, flag) ==
  LET b == handle[i] IN
  /\ IF b = NoBCB THEN UNCHANGED <<latchVars, held, modified>>
     ELSE /\ UnfixBCB(b)
          /\ IF mode[b] = "X" THEN SetModified(b, flag) ELSE UNCHANGED modified
  /\ handle' = [handle EXCEPT ![i] = NoBCB]

(***************************************************************************)
(* getPageS, getPageX.  Which page a command wants next, and how, follows  *)
(* from its step.                                                          *)
(***************************************************************************)
Wanted == IF step = "erase" THEN "X" ELSE "S"
Wants  == step \in {"scan", "fetch", "search", "erase"} /\ at \in DOMAIN pages

Latched(i) ==
  /\ handle[i] # NoBCB
  /\ mode[handle[i]] \in (IF Wanted = "X" THEN {"X"} ELSE {"S", "X"})

(* No control block is known: the page is fixed, and its block remembered.  *)
GetFix ==
  /\ Waits /\ Wants /\ handle[at] = NoBCB /\ HandedOut(pages[at]) = {}
  /\ Ask("fix", pages[at], Wanted)
  /\ UNCHANGED <<segVars, cmdVars>>

GetKeep ==
  /\ Waits /\ Wants /\ handle[at] = NoBCB
  /\ \E b \in HandedOut(pages[at]) : handle' = [handle EXCEPT ![at] = b]
  /\ UNCHANGED <<vars, pages, used, cmdVars>>

(* upgradeLock(kSHARED): the block the handle points to is latched again,   *)
(* with no look at the page it holds by now.                                *)
GetRelatch ==
  /\ Waits /\ Wants /\ handle[at] # NoBCB
  /\ Wanted = "S" /\ ~Latched(at)
  /\ LockS(handle[at], Worker)
  /\ held' = [held EXCEPT ![Worker] =
                @ \cup {[bcb |-> handle[at], page |-> pages[at], mode |-> "S"]}]
  /\ Rest /\ UNCHANGED <<modified, frame, segVars, cmdVars>>

(* upgradeLock(kEXCLUSIVE).                                                 *)
GetUpgrade ==
  /\ Waits /\ Wants /\ handle[at] # NoBCB
  /\ Wanted = "X" /\ ~Latched(at)
  /\ \E h \in held[Worker] : h.bcb = handle[at] /\ UpgradeRelease(Worker, h)
  /\ UNCHANGED <<segVars, cmdVars>>

Has == Waits /\ Wants /\ Latched(at)       (* getPage has returned a pointer *)
Seen(i) == frame[frameIndex[handle[i]]]    (* what it points to              *)

-----------------------------------------------------------------------------
(***************************************************************************)
(* A command is given.                                                     *)
(***************************************************************************)
RoomOn  == {i \in DOMAIN pages : used[i] < Capacity}
Full    == RoomOn = {} /\ Len(pages) >= Extent[session]

New(i) == used[i] = 1

(* The records of the pages, wherever they are: in the pool or on disk.  A  *)
(* page that an insertion has not set up yet has none.                      *)
BeingSetUp == IF step \in {"take", "write"} /\ New(at) THEN {at} ELSE {}
Slots(i) == Content[pages[i]]
Stored == UNION {{Slots(i)[k] : k \in DOMAIN Slots(i)} : i \in DOMAIN pages \ BeingSetUp}
          \ {Gone}

FirstStep == [insert |-> "fsm", show |-> "scan", delete |-> "search",
              touch |-> "touch", shutdown |-> "flush"]

(* An inserted row is new; the catalog has looked up the row to delete      *)
(* before it asks for it.                                                   *)
Give(op, r) ==
  /\ Waits /\ step = "ready" /\ op \in Menu[session]
  /\ op = "insert" => r \notin Stored
  /\ op = "delete" => r \in Stored
  /\ op \in {"show", "touch", "shutdown"} => r = NoCommand.row
  /\ op = "shutdown" => session + 1 \in Sessions
  /\ cmd' = [op |-> op, row |-> r]
  /\ step' = FirstStep[op]
  /\ at' = 1 /\ prev' = 0 /\ tids' = <<>> /\ out' = {}
  /\ UNCHANGED <<vars, segVars, session>>

Finish == cmd' = NoCommand /\ step' = "ready"

-----------------------------------------------------------------------------
(***************************************************************************)
(* insertTuple: getFreePage looks into the page of the free space          *)
(* management, first fit; a page that is new is fixed without reading it.  *)
(***************************************************************************)
InsertAsksFSM ==
  /\ step = "fsm"
  /\ Ask("fix", FSMPage, "X") /\ step' = "choose"
  /\ UNCHANGED <<segVars, cmd, runVars, session>>

(* A raw partition cannot grow: allocPage throws through getFreePage, which *)
(* keeps the page of the free space management latched, and the command     *)
(* line goes on with the next command.                                      *)
InsertRefused ==
  /\ Waits /\ step = "choose" /\ Full
  /\ cmd' = [NoCommand EXCEPT !.op = "refused"] /\ step' = "ready"
  /\ UNCHANGED <<vars, segVars, runVars, session>>

InsertChooses ==
  /\ Waits /\ step = "choose" /\ ~Full
  /\ \E b \in HandedOut(FSMPage) : UnfixBCB(b) /\ SetModified(b, TRUE)
  /\ Rest /\ UNCHANGED frame
  /\ \/ /\ RoomOn # {}
        /\ at' = CHOOSE i \in RoomOn : \A j \in RoomOn : i <= j
        /\ used' = [used EXCEPT ![at'] = @ + 1]
        /\ UNCHANGED <<pages, handle>>
     \/ /\ RoomOn = {}
        /\ at' = Len(pages) + 1
        /\ pages' = Append(pages, DataPages[at'])
        /\ handle' = Append(handle, NoBCB)
        /\ used' = Append(used, 1)
  /\ step' = "take"
  /\ UNCHANGED <<cmd, prev, tids, out, session>>

InsertTakes ==
  /\ step = "take"
  /\ Ask(IF New(at) THEN "emptyfix" ELSE "fix", pages[at], "X")
  /\ step' = "write"
  /\ UNCHANGED <<segVars, cmd, runVars, session>>

(* Mutant: a new page is taken as it is found in the frame.                 *)
AddRecordBlindly(b) ==
  frame' = [frame EXCEPT ![frameIndex[b]] = Append(@, cmd.row)]

(* initNewPage, addNewRecord, toDisk.                                       *)
AddRecord(b) ==
  frame' = [frame EXCEPT ![frameIndex[b]] =
              Append(IF New(at) THEN Blank ELSE @, cmd.row)]

(* The handle is stored, but the block is unfixed through a local pointer:  *)
(* the handle stays.                                                        *)
InsertWrites ==
  /\ Waits /\ step = "write"
  /\ \E b \in HandedOut(pages[at]) :
       /\ handle' = [handle EXCEPT ![at] = b]
       /\ AddRecord(b) /\ SetModified(b, TRUE) /\ UnfixBCB(b)
  /\ Finish
  /\ Rest /\ UNCHANGED <<pages, used, runVars, session>>

-----------------------------------------------------------------------------
(***************************************************************************)
(* SHOW: scan latches every page of the segment and releases none;         *)
(* getTuples releases a page when the identifiers move to another page.    *)
(***************************************************************************)
Valid(i) == {k \in DOMAIN Seen(i) : Seen(i)[k] # Gone}

ScanPage ==
  /\ step = "scan" /\ Has
  /\ tids' = tids \o [n \in 1 .. Cardinality(Valid(at)) |->
                        <<at, CHOOSE k \in Valid(at) :
                                Cardinality({l \in Valid(at) : l <= k}) = n>>]
  /\ at' = at + 1
  /\ UNCHANGED <<vars, segVars, cmd, step, prev, out, session>>

Scanned ==
  /\ Waits /\ step = "scan" /\ at \notin DOMAIN pages
  /\ step' = "fetch"
  /\ at' = IF tids = <<>> THEN 0 ELSE Head(tids)[1]
  /\ UNCHANGED <<vars, segVars, cmd, prev, tids, out, session>>

FetchTuple ==
  /\ step = "fetch" /\ Has /\ tids # <<>>
  /\ out' = out \cup {Seen(at)[Head(tids)[2]]}
  /\ IF prev \in {0, at} THEN UNCHANGED <<latchVars, held, modified, handle>>
     ELSE Release(prev, FALSE)
  /\ prev' = at
  /\ tids' = Tail(tids)
  /\ at' = IF tids' = <<>> THEN at ELSE Head(tids')[1]
  /\ Rest /\ UNCHANGED <<frame, pages, used, cmd, step, session>>

(* Mutant: the page of the last tuple is not released.                      *)
FetchedKeepsLast ==
  /\ Waits /\ step = "fetch" /\ tids = <<>>
  /\ Finish
  /\ UNCHANGED <<vars, segVars, runVars, session>>

Fetched ==
  /\ Waits /\ step = "fetch" /\ tids = <<>>
  /\ IF prev = 0 THEN UNCHANGED <<latchVars, held, modified, handle>>
     ELSE Release(prev, FALSE)
  /\ Finish
  /\ Rest /\ UNCHANGED <<frame, pages, used, runVars, session>>

-----------------------------------------------------------------------------
(***************************************************************************)
(* deleteTuplePhysically: the pages are searched latched shared; the page  *)
(* is released after each record that does not match, inside the loop, so  *)
(* the latch is given up at the first such record.                         *)
(***************************************************************************)
Slot(s) == CHOOSE k \in DOMAIN s : s[k] = cmd.row
Matches(s) == \E k \in DOMAIN s : s[k] = cmd.row

SearchPage ==
  LET s == Seen(at) IN
  /\ step = "search" /\ Has
  /\ IF s = Blank \/ s[1] = cmd.row
     THEN UNCHANGED <<latchVars, held, modified, handle>>
     ELSE Release(at, FALSE)
  /\ \/ Matches(s) /\ step' = "erase" /\ UNCHANGED at
     \/ ~Matches(s) /\ at' = at + 1 /\ UNCHANGED step
  /\ Rest /\ UNCHANGED <<frame, pages, used, cmd, prev, tids, out, session>>

(* Mutant: the page is released as if it had not been changed.              *)
EraseUnmarked ==
  /\ step = "erase" /\ Has
  /\ frame' = [frame EXCEPT ![frameIndex[handle[at]]] = [@ EXCEPT ![Slot(@)] = Gone]]
  /\ Release(at, FALSE)
  /\ Finish
  /\ Rest /\ UNCHANGED <<pages, used, runVars, session>>

(* getPage(kEXCLUSIVE) has upgraded the latch or fixed the page again.      *)
EraseRecord ==
  /\ step = "erase" /\ Has
  /\ frame' = [frame EXCEPT ![frameIndex[handle[at]]] = [@ EXCEPT ![Slot(@)] = Gone]]
  /\ Release(at, TRUE)
  /\ Finish
  /\ Rest /\ UNCHANGED <<pages, used, runVars, session>>

-----------------------------------------------------------------------------
(***************************************************************************)
(* A command that works on another segment, and the end of the process:    *)
(* shutdown flushes the pool, the next boot loads the segment with no      *)
(* handles.                                                                *)
(***************************************************************************)
TouchAsks(p) ==
  /\ step = "touch" /\ p \in OtherPages
  /\ Ask("fix", p, "S") /\ step' = "touched"
  /\ UNCHANGED <<segVars, cmd, runVars, session>>

TouchDone ==
  /\ Waits /\ step = "touched"
  /\ \E p \in OtherPages : \E b \in HandedOut(p) : UnfixBCB(b)
  /\ Finish
  /\ Rest /\ UNCHANGED <<modified, frame, segVars, runVars, session>>

ShutdownAsks ==
  /\ step = "flush"
  /\ Ask("flushAll", NoPage, "S") /\ step' = "flushed"
  /\ UNCHANGED <<segVars, cmd, runVars, session>>

ShutdownDone ==
  /\ Waits /\ step = "flushed"
  /\ Restart
  /\ handle' = [i \in DOMAIN pages |-> NoBCB]
  /\ session' = session + 1
  /\ Finish
  /\ UNCHANGED <<pages, used, runVars>>

(* The steps of the command that runs, and of the buffer manager for it.    *)
GetPage == GetFix \/ GetKeep \/ GetRelatch \/ GetUpgrade
Insert  == InsertAsksFSM \/ InsertRefused \/ InsertChooses \/ InsertTakes \/ InsertWrites
Show    == ScanPage \/ Scanned \/ FetchTuple \/ Fetched
Delete  == SearchPage \/ EraseRecord
Touch   == TouchDone \/ \E p \in OtherPages : TouchAsks(p)
Shutdown == ShutdownAsks \/ ShutdownDone
Command == GetPage \/ Insert \/ Show \/ Delete \/ Touch \/ Shutdown

Manage == Running /\ Proceed(Worker) /\ UNCHANGED <<segVars, cmdVars>>
Choose(h) == Running /\ PickBucket(Worker, h) /\ UNCHANGED <<segVars, cmdVars>>

HNext ==
  \/ Manage \/ (\E h \in Buckets : Choose(h)) \/ Command
  \/ \E op \in DOMAIN FirstStep, r \in Rows : Give(op, r)

HSpec == HInit /\ [][HNext]_allVars

FairHSpec ==
  /\ HSpec
  /\ WF_allVars(Manage) /\ WF_allVars(Command)
  /\ \A h \in Buckets : SF_allVars(Choose(h))

-----------------------------------------------------------------------------
(***************************************************************************)
(* Properties.                                                             *)
(***************************************************************************)
(* The pointer that getPage returns is the frame the page is in, whether    *)
(* the page was fixed just now or latched again through the handle the      *)
(* segment had kept.  (SegmentBase::getPage)                                *)
GetPageReturnsPage == Has => pid[handle[at]] = pages[at] /\ handle[at] \in Linked

(* The pages that commands leave latched behind them: those without a valid *)
(* row, which scan latches and getTuples does not release, and the one of   *)
(* the free space management after an insertion that was refused.           *)
LeftBehind ==
  {handle[i] : i \in {j \in DOMAIN pages :
     handle[j] # NoBCB /\ latchX[handle[j]] = {} /\ Valid(j) = {}}}
  \cup HandedOut(FSMPage)

(* Between two commands no other page is latched.  (scan, getTuples,        *)
(* deleteTuplePhysically, insertTuple)                                      *)
LatchesLeft == step = "ready" => \A b \in BCBs : LatchFree(b) \/ b \in LeftBehind

(* The segment implements a RowStore: commands see the rows inserted and    *)
(* not deleted, whether their pages are in the pool, were replaced, or were *)
(* flushed and loaded again by the next boot.                               *)
Store_ == INSTANCE RowStore WITH
  rows <- Stored, asked <- cmd, shown <- IF step = "ready" THEN out ELSE {}

ImplementsRows == Store_!Spec

(* A command is answered, unless it wants a page exclusively that an        *)
(* earlier command left latched behind it, or all frames hold such pages.   *)
(* The random choice of getFrame picks every bucket again and again.        *)
WaitsForItself == pc[Worker] = "latch" /\ ptr[Worker] \in LeftBehind

CommandsAnswered == step # "ready" ~> step = "ready" \/ WaitsForItself \/ AllFixed
=============================================================================
