------------------------------ MODULE RowStore ------------------------------
(***************************************************************************)
(* What a segment promises the commands that work on its rows, one at a    *)
(* time: a row stays from its insertion to its deletion, and a command     *)
(* that shows the segment is answered with its rows.  Pages, latches,      *)
(* replacement and restarts are invisible here.                            *)
(***************************************************************************)
CONSTANTS Rows

VARIABLES
  rows,    (* the rows of the segment                         *)
  asked,   (* the command that runs: its operation and row    *)
  shown    (* the answer of the last command, if it showed    *)

vars == <<rows, asked, shown>>

Ops == {"insert", "delete", "show", "touch", "shutdown"}
Idle == asked.op \in {"none", "refused"}

Init == rows = {} /\ Idle /\ shown = {}

Ask ==
  /\ Idle /\ asked'.op \in Ops /\ asked'.row \in Rows
  /\ shown' = {} /\ UNCHANGED rows

(* A row appears, and goes, with the answer of the command that asked it.   *)
Answer ==
  /\ ~Idle /\ asked'.op = "none"
  /\ rows' = CASE asked.op = "insert" -> rows \cup {asked.row}
               [] asked.op = "delete" -> rows \ {asked.row}
               [] OTHER -> rows
  /\ shown' = IF asked.op = "show" THEN rows ELSE {}

(* An insertion is refused when the partition is full.                      *)
Refuse ==
  /\ asked.op = "insert" /\ asked'.op = "refused"
  /\ UNCHANGED <<rows, shown>>

Next == Ask \/ Answer \/ Refuse

Spec == Init /\ [][Next]_vars
=============================================================================
