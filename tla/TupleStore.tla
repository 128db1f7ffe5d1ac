------------------------------ MODULE TupleStore ------------------------------
(***************************************************************************)
(* What a segment of slotted pages promises: a tuple that was inserted is  *)
(* kept under the identifier it was given, unchanged, until it or the      *)
(* segment is deleted, and no identifier is given twice.                   *)
(***************************************************************************)
CONSTANTS Identifiers, Sizes

VARIABLES
  tuples,  (* the tuples kept: identifiers to sizes *)
  given    (* identifiers given so far              *)

storeVars == <<tuples, given>>

Empty == tuples = [u \in {} |-> 0] /\ given = {}

Insert ==
  LET before == tuples  after == tuples' IN
  \E t \in given' \ given :
    /\ t \in Identifiers /\ given' = given \cup {t}
    /\ DOMAIN after = DOMAIN before \cup {t} /\ after[t] \in Sizes
    /\ \A u \in DOMAIN before : after[u] = before[u]

Delete ==
  LET before == tuples  after == tuples' IN
  /\ \E t \in DOMAIN before : DOMAIN after = DOMAIN before \ {t}
  /\ \A u \in DOMAIN after : after[u] = before[u]
  /\ UNCHANGED given

DeleteAll == tuples' = [u \in {} |-> 0] /\ given' = {}

Next == Insert \/ Delete \/ DeleteAll

Spec == Empty /\ [][Next]_storeVars
=============================================================================
