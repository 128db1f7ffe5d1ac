------------------------------- MODULE Database -------------------------------
(***************************************************************************)
(* What the database system promises its user, for each master partition:  *)
(* named partitions at paths of their own, named segments on them and the  *)
(* tuples in these, all kept until the user drops them.  Identifiers,      *)
(* objects, master segments, shutdown and boot are invisible here.         *)
(***************************************************************************)
CONSTANTS Masters, PartNames, SegNames, Rows, MasterPart

VARIABLES
  parts,  (* parts[m]: the names of the partitions of m to their paths;
             none before m is installed                                   *)
  segs    (* segs[m]: the names of the segments of m to their partitions
             and their tuples                                             *)

dbVars == <<parts, segs>>

Nothing == [n \in {} |-> 0]
With(f, n, x) == [i \in DOMAIN f \cup {n} |-> IF i = n THEN x ELSE f[i]]
Keep(f, S) == [i \in S |-> f[i]]

Init == parts = [m \in Masters |-> Nothing] /\ segs = [m \in Masters |-> Nothing]

(* The partitions of m, or its segments, were f and are g.                  *)
Added(f, g, Names) == \E n \in Names \ DOMAIN f : n \in DOMAIN g /\ g = With(f, n, g[n])
Removed(f, g, Names) == \E n \in Names \cap DOMAIN f : g = Keep(f, DOMAIN f \ {n})

Install(m) ==
  /\ parts[m] = Nothing /\ UNCHANGED segs
  /\ parts' = [parts EXCEPT ![m] = With(Nothing, MasterPart, m)]

(* A new partition has a path of its own.                                   *)
CreatePartition(m) ==
  LET f == parts[m]  g == parts'[m] IN
  /\ UNCHANGED segs
  /\ MasterPart \in DOMAIN f /\ Added(f, g, PartNames)
  /\ \A n, k \in DOMAIN g : n # k => g[n] # g[k]

(* The segments of a partition go with it.                                  *)
DropPartition(m) ==
  LET f == parts[m]  g == parts'[m]  before == segs[m] IN
  /\ Removed(f, g, PartNames)
  /\ segs'[m] = Keep(before, {s \in DOMAIN before : before[s].part \in DOMAIN g})

CreateSegment(m) ==
  LET before == segs[m]  after == segs'[m] IN
  /\ UNCHANGED parts /\ Added(before, after, SegNames)
  /\ \A s \in DOMAIN after \ DOMAIN before :
       after[s].part \in DOMAIN parts[m] /\ after[s].rows = {}

DropSegment(m) == UNCHANGED parts /\ Removed(segs[m], segs'[m], SegNames)

InsertTuple(m) ==
  LET before == segs[m]  after == segs'[m] IN
  /\ UNCHANGED parts
  /\ \E s \in DOMAIN before, r \in Rows :
       /\ r \notin before[s].rows
       /\ after = [before EXCEPT ![s].rows = @ \cup {r}]

(* A command changes one database.                                          *)
Next ==
  \E m \in Masters :
    /\ \A k \in Masters \ {m} : parts'[k] = parts[k] /\ segs'[k] = segs[k]
    /\ \/ Install(m) \/ CreatePartition(m) \/ DropPartition(m)
       \/ CreateSegment(m) \/ DropSegment(m) \/ InsertTuple(m)

Spec == Init /\ [][Next]_dbVars
=============================================================================
