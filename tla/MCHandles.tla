------------------------------ MODULE MCHandles ------------------------------
(* Definitions for the TLC configurations of PageHandles.                   *)
EXTENDS PageHandles

CONSTANT w

AllPages == [c \in Clients |-> Pages]
PageContents == Seq(Rows \cup {Gone})
NoSlots == <<>>
TwoPages == <<1, 2>>

(* One life gives every command, to a segment with a frame for each of its  *)
(* pages.  Or one fills the segment, the next adds to it, the third reads   *)
(* and deletes while pages are replaced, the fourth reads.                  *)
AllOrFill ==
  <<{"insert", "show", "delete"},
    {"insert", "shutdown"}, {"insert", "touch", "shutdown"},
    {"show", "delete", "touch", "shutdown"}, {"show"}>>
OneOrTwo == <<1, 2, 2, 2, 2>>

(* One life that inserts and shows, with too few frames.                    *)
InsertAndShow == <<{"insert", "show"}>>
Two == <<2>>
=============================================================================
