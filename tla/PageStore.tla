------------------------------ MODULE PageStore ------------------------------
(***************************************************************************)
(* What the buffer manager promises its clients: pages with a current and  *)
(* a durable content, fixed shared by many or exclusively by one client.   *)
(* Frames, control blocks and replacement are invisible here: a content    *)
(* changes only because a client wrote it, fixed a page as new or deleted  *)
(* it, and nothing but a restart falls back to what is durable.            *)
(***************************************************************************)
EXTENDS Integers

CONSTANTS Clients, Pages, Versions, Blank, Calls, NoCall

VARIABLES
  content,     (* content[p]: what a client sees that fixes p               *)
  durable,     (* durable[p]: what a restart finds                          *)
  fixed,       (* fixed[c]: the pages c keeps fixed, with the latch mode    *)
  asked        (* asked[c]: the call of c that has not returned yet         *)

vars == <<content, durable, fixed, asked>>

Init ==
  /\ content = [p \in Pages |-> Blank]
  /\ durable = [p \in Pages |-> Blank]
  /\ fixed = [c \in Clients |-> {}]
  /\ asked = [c \in Clients |-> NoCall]

Fixed(d, p) == \E m \in {"S", "X"} : [page |-> p, mode |-> m] \in fixed[d]

Compatible(c, p, m) ==
  \A d \in Clients \ {c} :
    IF m = "X" THEN ~Fixed(d, p) ELSE [page |-> p, mode |-> "X"] \notin fixed[d]

Ask(c) ==
  LET r == asked'[c] IN
  /\ asked[c] = NoCall /\ r \in Calls
  /\ asked' = [asked EXCEPT ![c] = r]
  /\ UNCHANGED <<content, durable, fixed>>

Answer(c) == asked' = [asked EXCEPT ![c] = NoCall]

Take(c) ==
  LET p == asked[c].page  m == asked[c].mode IN
  /\ ~Fixed(c, p) /\ Compatible(c, p, m)
  /\ fixed' = [fixed EXCEPT ![c] = @ \cup {[page |-> p, mode |-> m]}]
  /\ Answer(c)

Fix(c) ==
  /\ asked[c].kind = "fix" /\ Take(c)
  /\ UNCHANGED <<content, durable>>

(* A page fixed as new may have any content until it is written.            *)
EmptyFix(c) ==
  /\ asked[c].kind = "emptyfix" /\ Take(c)
  /\ \E v \in Versions : content' = [content EXCEPT ![asked[c].page] = v]
  /\ UNCHANGED durable

Write(c, p) ==
  /\ [page |-> p, mode |-> "X"] \in fixed[c]
  /\ UNCHANGED <<durable, fixed, asked>>
  /\ \E v \in Versions : content' = [content EXCEPT ![p] = v]

Unfix(c, h) ==
  /\ h \in fixed[c]
  /\ fixed' = [fixed EXCEPT ![c] = @ \ {h}]
  /\ UNCHANGED <<content, durable, asked>>

(* A shared page is given up and asked for exclusively.                     *)
Upgrade(c, p) ==
  /\ asked[c] = NoCall /\ [page |-> p, mode |-> "S"] \in fixed[c]
  /\ fixed' = [fixed EXCEPT ![c] = @ \ {[page |-> p, mode |-> "S"]}]
  /\ asked' = [asked EXCEPT ![c] = [kind |-> "fix", page |-> p, mode |-> "X"]]
  /\ UNCHANGED <<content, durable>>

(* The store may make a page durable whenever it likes.                     *)
Persist(p) ==
  /\ durable' = [durable EXCEPT ![p] = content[p]]
  /\ UNCHANGED <<content, fixed, asked>>

FlushAll(c) ==
  /\ asked[c].kind = "flushAll" /\ Answer(c)
  /\ UNCHANGED <<content, durable, fixed>>

(* A deleted page nobody keeps fixed falls back to its durable content,     *)
(* some time before the call returns.                                       *)
Discard(c) ==
  LET p == asked[c].page IN
  /\ asked[c].kind = "reset"
  /\ \A d \in Clients : ~Fixed(d, p)
  /\ content' = [content EXCEPT ![p] = durable[p]]
  /\ UNCHANGED <<durable, fixed, asked>>

Reset(c) ==
  /\ asked[c].kind = "reset" /\ Answer(c)
  /\ UNCHANGED <<content, durable, fixed>>

Restart ==
  /\ fixed' = [c \in Clients |-> {}]
  /\ asked' = [c \in Clients |-> NoCall]
  /\ content' = durable
  /\ UNCHANGED durable

Next ==
  \/ Restart
  \/ \E p \in Pages : Persist(p)
  \/ \E c \in Clients :
       \/ Ask(c)
       \/ Fix(c) \/ EmptyFix(c) \/ FlushAll(c) \/ Discard(c) \/ Reset(c)
       \/ \E p \in Pages :
            \/ Write(c, p) \/ Upgrade(c, p)
            \/ \E m \in {"S", "X"} : Unfix(c, [page |-> p, mode |-> m])

Spec == Init /\ [][Next]_vars
=============================================================================
