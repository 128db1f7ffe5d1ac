-------------------------- MODULE BufferPoolProofs --------------------------
(***************************************************************************)
(* The structure of the buffer pool: the free list and the hash chains     *)
(* share no control block, a page is in one chain at most, and no frame has *)
(* two owners.  Structure is inductive when the clients keep Apart: there is *)
(* one, or each has pages of its own and the pool holds them all (so that  *)
(* nothing is evicted).  Without that hypothesis it is false: two clients  *)
(* that miss the same page both load it, and a client that evicts may take *)
(* a block that another has found in its chain and not latched yet.        *)
(*                                                                         *)
(* On it rests what the clients see of the pages: the buffer manager        *)
(* implements the PageStore.  StoreInv says that an unmodified page of the  *)
(* pool equals the one on disk and that Content is what the loaded frames   *)
(* and the disk hold; each step of the code changes Content as the store    *)
(* does, or not at all.                                                     *)
(***************************************************************************)
EXTENDS BufferManagerProofs

-----------------------------------------------------------------------------
(***************************************************************************)
(* The invariant: what is in which list, and where each call is.           *)
(***************************************************************************)

Chain(h) == Members(next, bucket[h])
Free     == Members(next, freeBCBs)

(* The BCB a client has taken out of the lists and not put back yet.        *)
Taken(c) == IF pc[c] \in {"claim", "link"} THEN {newBCB[c]}
            ELSE IF pc[c] = "resetHead" THEN {victim[c]} ELSE {}

ListsEnd == Ending(next, freeBCBs) /\ \A h \in Buckets : Ending(next, bucket[h])

ListsApart ==
  /\ \A g, h \in Buckets : g # h => Chain(g) \cap Chain(h) = {}
  /\ \A h \in Buckets : Chain(h) \cap Free = {}
  /\ \A c \in Clients : \A b \in Taken(c) :
       b \notin Free /\ (\A h \in Buckets : b \notin Chain(h))
  /\ \A c, d \in Clients : c # d => Taken(c) \cap Taken(d) = {}
  /\ \A b \in BCBs : \/ b \in Free \/ \E h \in Buckets : b \in Chain(h)
                     \/ \E c \in Clients : b \in Taken(c)

Lists == ListsEnd /\ ListsApart

LEMMA LinksOf ==
  ASSUME TypeInv
  PROVE  /\ next \in Links /\ freeBCBs \in Ends /\ \A h \in Buckets : bucket[h] \in Ends
         /\ Free \in SUBSET BCBs /\ \A h \in Buckets : Chain(h) \in SUBSET BCBs
<1>1. next \in Links /\ freeBCBs \in Ends /\ \A h \in Buckets : bucket[h] \in Ends
  BY DEF TypeInv, TypeOK, ListOK, TableOK, Links, Ends
<1>2. QED
  BY <1>1, MembersOf DEF Free, Chain

(* What a step leaves of the chains it does not touch. *)
LEMMA ChainsKept ==
  ASSUME TypeInv, TypeInv', ListsEnd, NEW T,
         \A b \in BCBs \ T : next'[b] = next[b],
         NEW h \in Buckets, Chain(h) \cap T = {}, bucket'[h] = bucket[h]
  PROVE  Chain(h)' = Chain(h) /\ Ending(next', bucket'[h])
<1>1. next \in Links /\ next' \in Links /\ bucket[h] \in Ends /\ Chain(h) \in SUBSET BCBs
  <2>1. next' \in Links
    BY DEF TypeInv, TypeOK, ListOK, Links, Ends
  <2>2. QED
    BY <2>1, LinksOf
<1>2. \A d \in Members(next, bucket[h]) : next'[d] = next[d]
  BY <1>1 DEF Chain
<1>3. Members(next', bucket[h]) = Members(next, bucket[h]) /\ Ending(next', bucket[h])
  BY <1>1, <1>2, EndingKept DEF ListsEnd
<1>4. QED
  BY <1>3 DEF Chain

LEMMA FreeKept ==
  ASSUME TypeInv, TypeInv', ListsEnd, NEW T,
         \A b \in BCBs \ T : next'[b] = next[b],
         Free \cap T = {}, freeBCBs' = freeBCBs
  PROVE  Free' = Free /\ Ending(next', freeBCBs')
<1>1. next \in Links /\ next' \in Links /\ freeBCBs \in Ends /\ Free \in SUBSET BCBs
  <2>1. next' \in Links
    BY DEF TypeInv, TypeOK, ListOK, Links, Ends
  <2>2. QED
    BY <2>1, LinksOf
<1>2. \A d \in Members(next, freeBCBs) : next'[d] = next[d]
  BY <1>1 DEF Free
<1>3. Members(next', freeBCBs) = Members(next, freeBCBs) /\ Ending(next', freeBCBs)
  BY <1>1, <1>2, EndingKept DEF ListsEnd
<1>4. QED
  BY <1>3 DEF Free

LEMMA PopLists ==
  ASSUME TypeInv, TypeInv', Lists, NEW c \in Clients, Pop(c), freeBCBs # NoBCB
  PROVE  /\ Lists'
         /\ \A h \in Buckets : Chain(h)' = Chain(h)
         /\ Free' = Free \ {freeBCBs} /\ freeBCBs \in Free
<1> DEFINE n == freeBCBs
<1>1. n \in BCBs /\ n \in Free /\ next \in Links /\ next' \in Links
  <2>1. n \in BCBs
    BY LinksOf DEF Ends
  <2>2. QED
    BY <2>1, LinksOf, MembersOf, LinksOf DEF Free, TypeInv, TypeOK, ListOK, Links, Ends
<1>2. \A b \in BCBs \ {n} : next'[b] = next[b]
  BY DEF Pop, Links, TypeInv, TypeOK, ListOK
<1>3. \A h \in Buckets : Chain(h)' = Chain(h) /\ Ending(next', bucket'[h])
  <2>1. \A h \in Buckets : Chain(h) \cap {n} = {} /\ bucket'[h] = bucket[h]
    BY <1>1 DEF Lists, ListsApart, Pop, tableVars
  <2>2. QED
    BY <1>2, <2>1, ChainsKept DEF Lists
<1>4. Free' = Free \ {n} /\ Ending(next', freeBCBs')
  <2>1. Members(next, next[n]) = Free \ {n} /\ Ending(next, next[n])
    BY <1>1, PopFront DEF Lists, ListsEnd, Free
  <2>2. Members(next', next[n]) = Members(next, next[n]) /\ Ending(next', next[n])
    <3>1. next[n] \in Ends /\ \A d \in Members(next, next[n]) : next'[d] = next[d]
      BY <1>1, <1>2, <2>1, LinksOf DEF Links
    <3>2. QED
      BY <1>1, <2>1, <3>1, EndingKept
  <2>3. freeBCBs' = next[n]
    BY DEF Pop
  <2>4. QED
    BY <2>1, <2>2, <2>3 DEF Free
<1>5. Taken(c) = {} /\ Taken(c)' = {n} /\ \A d \in Clients \ {c} : Taken(d)' = Taken(d)
  BY DEF Pop, Goto, Taken, TypeInv, TypeOK, ClientOK
<1>6. ListsEnd'
  BY <1>3, <1>4 DEF ListsEnd
<1>7. ListsApart'
  <2>1. \A g, h \in Buckets : g # h => Chain(g)' \cap Chain(h)' = {}
    BY <1>3 DEF Lists, ListsApart
  <2>2. \A h \in Buckets : Chain(h)' \cap Free' = {}
    BY <1>3, <1>4 DEF Lists, ListsApart
  <2>3. \A d \in Clients : \A b \in Taken(d)' : b \notin Free' /\ \A h \in Buckets : b \notin Chain(h)'
    BY <1>1, <1>3, <1>4, <1>5 DEF Lists, ListsApart
  <2>4. \A d, e \in Clients : d # e => Taken(d)' \cap Taken(e)' = {}
    BY <1>1, <1>5 DEF Lists, ListsApart
  <2>5. \A b \in BCBs : \/ b \in Free' \/ \E h \in Buckets : b \in Chain(h)'
                        \/ \E d \in Clients : b \in Taken(d)'
    BY <1>3, <1>4, <1>5 DEF Lists, ListsApart
  <2>6. QED
    BY <2>1, <2>2, <2>3, <2>4, <2>5 DEF ListsApart
<1>8. QED
  BY <1>1, <1>3, <1>4, <1>6, <1>7 DEF Lists

LEMMA SameLists ==
  ASSUME Lists, UNCHANGED <<bucket, next, freeBCBs>>,
         \A d \in Clients : Taken(d)' = Taken(d)
  PROVE  Lists' /\ Free' = Free /\ \A h \in Buckets : Chain(h)' = Chain(h)
<1>1. Free' = Free /\ \A h \in Buckets : Chain(h)' = Chain(h)
  BY DEF Free, Chain
<1>2. ListsEnd'
  BY DEF Lists, ListsEnd, Ending
<1>3. ListsApart'
  BY <1>1 DEF Lists, ListsApart
<1>4. QED
  BY <1>1, <1>2, <1>3 DEF Lists

LEMMA ClaimLists ==
  ASSUME TypeInv, TypeInv', Lists, NEW c \in Clients, Claim(c)
  PROVE  Lists' /\ Free' = Free /\ \A h \in Buckets : Chain(h)' = Chain(h)
<1> DEFINE n == newBCB[c]
<1>1. n \in BCBs /\ Taken(c) = {n}
  BY DEF Claim, Taken, TypeInv, LocalsOK, NewSet
<1>2. \A b \in BCBs \ {n} : next'[b] = next[b]
  BY DEF Claim, TypeInv, TypeOK, ListOK
<1>3. n \notin Free /\ \A h \in Buckets : n \notin Chain(h)
  BY <1>1 DEF Lists, ListsApart
<1>4. \A h \in Buckets : Chain(h)' = Chain(h) /\ Ending(next', bucket'[h])
  <2>1. \A h \in Buckets : Chain(h) \cap {n} = {} /\ bucket'[h] = bucket[h]
    BY <1>3 DEF Claim, tableVars
  <2>2. QED
    BY <1>2, <2>1, ChainsKept DEF Lists
<1>5. Free' = Free /\ Ending(next', freeBCBs')
  <2>1. Free \cap {n} = {} /\ freeBCBs' = freeBCBs
    BY <1>3 DEF Claim
  <2>2. QED
    BY <1>2, <2>1, FreeKept DEF Lists
<1>6. \A d \in Clients : Taken(d)' = Taken(d)
  BY DEF Claim, Goto, Taken, TypeInv, TypeOK, ClientOK, localVars
<1>7. QED
  BY <1>4, <1>5, <1>6 DEF Lists, ListsEnd, ListsApart

LEMMA LinkLists ==
  ASSUME TypeInv, TypeInv', Lists, NEW c \in Clients, Link(c)
  PROVE  /\ Lists' /\ Free' = Free
         /\ \A h \in Buckets : Chain(h)' = IF h = Hash(Page(c)) THEN {newBCB[c]} \cup Chain(h)
                                           ELSE Chain(h)
<1> DEFINE n == newBCB[c]
<1>0. PICK k \in Buckets : k = Hash(Page(c))
  BY HashOK DEF Link, TypeInv, LocalsOK, PageSet, Locating, Page
<1>1. n \in BCBs /\ Taken(c) = {n}
  BY <1>0 DEF Link, Taken, TypeInv, LocalsOK, NewSet, PageSet, Locating, Page
<1>2. \A b \in BCBs \ {n} : next'[b] = next[b]
  BY DEF Link, TypeInv, TypeOK, ListOK
<1>3. n \notin Free /\ \A h \in Buckets : n \notin Chain(h)
  BY <1>1 DEF Lists, ListsApart
<1>4. \A h \in Buckets \ {k} : Chain(h)' = Chain(h) /\ Ending(next', bucket'[h])
  <2>1. \A h \in Buckets \ {k} : Chain(h) \cap {n} = {} /\ bucket'[h] = bucket[h]
    BY <1>0, <1>3 DEF Link, TypeInv, TypeOK, TableOK
  <2>2. QED
    BY <1>2, <2>1, ChainsKept DEF Lists
<1>5. Chain(k)' = {n} \cup Chain(k) /\ Ending(next', bucket'[k])
  <2>1. next \in Links /\ next' \in Links /\ bucket[k] \in Ends /\ bucket'[k] = n /\ next'[n] = bucket[k]
    BY <1>0, <1>1, LinksOf DEF Link, TypeInv, TypeOK, TableOK, ListOK, Links, Ends
  <2>2. Ending(next, bucket[k]) /\ n \notin Members(next, bucket[k])
        /\ \A d \in Members(next, bucket[k]) : next'[d] = next[d]
    BY <1>1, <1>2, <1>3, LinksOf DEF Lists, ListsEnd, Chain
  <2>3. Members(next', n) = {n} \cup Members(next, bucket[k]) /\ Ending(next', n)
    BY <1>1, <2>1, <2>2, PushFront
  <2>4. QED
    BY <2>1, <2>3 DEF Chain
<1>6. Free' = Free /\ Ending(next', freeBCBs')
  <2>1. Free \cap {n} = {} /\ freeBCBs' = freeBCBs
    BY <1>3 DEF Link
  <2>2. QED
    BY <1>2, <2>1, FreeKept DEF Lists
<1>7. Taken(c)' = {} /\ \A d \in Clients \ {c} : Taken(d)' = Taken(d)
  BY DEF Link, Goto, Taken, TypeInv, TypeOK, ClientOK, localVars
<1>8. ListsEnd'
  BY <1>4, <1>5, <1>6 DEF ListsEnd
<1>9. ListsApart'
  <2>1. \A g, h \in Buckets : g # h => Chain(g)' \cap Chain(h)' = {}
    BY <1>3, <1>4, <1>5 DEF Lists, ListsApart
  <2>2. \A h \in Buckets : Chain(h)' \cap Free' = {}
    BY <1>3, <1>4, <1>5, <1>6 DEF Lists, ListsApart
  <2>3. \A d \in Clients : \A b \in Taken(d)' : b \notin Free' /\ \A h \in Buckets : b \notin Chain(h)'
    <3>1. \A d \in Clients \ {c} : n \notin Taken(d)
      BY <1>1 DEF Lists, ListsApart
    <3>2. QED
      BY <3>1, <1>4, <1>5, <1>6, <1>7 DEF Lists, ListsApart
  <2>4. \A d, e \in Clients : d # e => Taken(d)' \cap Taken(e)' = {}
    BY <1>7 DEF Lists, ListsApart
  <2>5. \A b \in BCBs : \/ b \in Free' \/ \E h \in Buckets : b \in Chain(h)'
                        \/ \E d \in Clients : b \in Taken(d)'
    <3> SUFFICES ASSUME NEW b \in BCBs, b \notin Free', \A h \in Buckets : b \notin Chain(h)'
                 PROVE  \E d \in Clients : b \in Taken(d)'
      OBVIOUS
    <3>1. b # n /\ b \notin Free /\ \A h \in Buckets : b \notin Chain(h)
      BY <1>1, <1>4, <1>5, <1>6
    <3>2. PICK d \in Clients : b \in Taken(d)
      BY <3>1 DEF Lists, ListsApart
    <3>3. QED
      BY <1>1, <1>7, <3>1, <3>2
  <2>6. QED
    BY <2>1, <2>2, <2>3, <2>4, <2>5 DEF ListsApart
<1>10. QED
  BY <1>0, <1>4, <1>5, <1>6, <1>8, <1>9 DEF Lists

(* A BCB is put in front of the free list. *)
LEMMA FreePushed ==
  ASSUME TypeInv, TypeInv', ListsEnd, NEW v \in BCBs, v \notin Free,
         next'[v] = freeBCBs, \A b \in Free : next'[b] = next[b], freeBCBs' = v
  PROVE  Free' = {v} \cup Free /\ Ending(next', freeBCBs')
<1>1. next \in Links /\ next' \in Links /\ freeBCBs \in Ends
  BY LinksOf DEF TypeInv, TypeOK, ListOK, Links, Ends
<1>2. Members(next', v) = {v} \cup Members(next, freeBCBs) /\ Ending(next', v)
  BY <1>1, PushFront DEF ListsEnd, Free
<1>3. QED
  BY <1>2 DEF Free

(* The BCB v goes from the chain k into the free list. *)
LEMMA ToFree ==
  ASSUME Lists, NEW k \in Buckets, NEW v \in Chain(k),
         \A h \in Buckets \ {k} : Chain(h)' = Chain(h) /\ Ending(next', bucket'[h]),
         Chain(k)' = Chain(k) \ {v}, Ending(next', bucket'[k]),
         Free' = {v} \cup Free, Ending(next', freeBCBs'),
         \A d \in Clients : Taken(d)' = Taken(d)
  PROVE  Lists'
<1>1. ListsEnd'
  BY DEF ListsEnd
<1>2. ListsApart'
  <2>1. \A g, h \in Buckets : g # h => Chain(g)' \cap Chain(h)' = {}
    BY DEF Lists, ListsApart
  <2>2. \A h \in Buckets : Chain(h)' \cap Free' = {}
    BY DEF Lists, ListsApart
  <2>3. \A d \in Clients : \A b \in Taken(d)' : b \notin Free' /\ \A h \in Buckets : b \notin Chain(h)'
    BY DEF Lists, ListsApart
  <2>4. \A d, e \in Clients : d # e => Taken(d)' \cap Taken(e)' = {}
    BY DEF Lists, ListsApart
  <2>5. \A b \in BCBs : \/ b \in Free' \/ \E h \in Buckets : b \in Chain(h)'
                        \/ \E d \in Clients : b \in Taken(d)'
    <3> SUFFICES ASSUME NEW b \in BCBs, b \notin Free', \A h \in Buckets : b \notin Chain(h)'
                 PROVE  \E d \in Clients : b \in Taken(d)'
      OBVIOUS
    <3>1. b # v /\ b \notin Free /\ \A h \in Buckets : b \notin Chain(h)
      OBVIOUS
    <3>2. QED
      BY <3>1 DEF Lists, ListsApart
  <2>6. QED
    BY <2>1, <2>2, <2>3, <2>4, <2>5 DEF ListsApart
<1>3. QED
  BY <1>1, <1>2 DEF Lists

LEMMA HeadToFree ==
  ASSUME TypeInv, TypeInv', Lists, NEW k \in Buckets, NEW v \in BCBs, v = bucket[k],
         next' = [next EXCEPT ![v] = freeBCBs], bucket' = [bucket EXCEPT ![k] = next[v]],
         freeBCBs' = v, \A d \in Clients : Taken(d)' = Taken(d)
  PROVE  /\ Lists' /\ v \in Chain(k)
         /\ \A h \in Buckets : Chain(h)' = Chain(h) \ {v}
<1>1. next \in Links /\ next' \in Links /\ v \in Chain(k) /\ v \in Ends
  BY LinksOf, MembersOf DEF TypeInv, TypeOK, ListOK, Links, Ends, Chain, BCBs, NoBCB
<1>2. \A b \in BCBs \ {v} : next'[b] = next[b]
  BY DEF TypeInv, TypeOK, ListOK
<1>3. \A h \in Buckets \ {k} : v \notin Chain(h) /\ v \notin Free
  BY <1>1 DEF Lists, ListsApart
<1>4. v \notin Free
  BY <1>1 DEF Lists, ListsApart
<1>5. \A h \in Buckets \ {k} : Chain(h)' = Chain(h) /\ Ending(next', bucket'[h])
  <2>1. \A h \in Buckets \ {k} : Chain(h) \cap {v} = {} /\ bucket'[h] = bucket[h]
    BY <1>3 DEF TypeInv, TypeOK, TableOK
  <2>2. QED
    BY <1>2, <2>1, ChainsKept DEF Lists
<1>6. Chain(k)' = Chain(k) \ {v} /\ Ending(next', bucket'[k])
  <2>1. Members(next, next[v]) = Chain(k) \ {v} /\ Ending(next, next[v])
    BY <1>1, PopFront DEF Lists, ListsEnd, Chain
  <2>2. next[v] \in Ends /\ \A d \in Members(next, next[v]) : next'[d] = next[d]
    BY <1>1, <1>2, <2>1, LinksOf DEF Links
  <2>3. Members(next', next[v]) = Members(next, next[v]) /\ Ending(next', next[v])
    BY ONLY <1>1, <2>1, <2>2, EndingKept
  <2>4. bucket'[k] = next[v]
    BY DEF TypeInv, TypeOK, TableOK
  <2>5. QED
    BY <2>1, <2>3, <2>4 DEF Chain
<1>7. Free' = {v} \cup Free /\ Ending(next', freeBCBs')
  <2>1. next'[v] = freeBCBs /\ \A b \in Free : next'[b] = next[b]
    BY <1>2, <1>4, LinksOf DEF TypeInv, TypeOK, ListOK
  <2>2. QED
    BY <1>4, <2>1, FreePushed DEF Lists
<1>8. Lists'
  BY <1>1, <1>5, <1>6, <1>7, ToFree
<1>9. QED
  BY <1>1, <1>3, <1>5, <1>6, <1>8

LEMMA NextToFree ==
  ASSUME TypeInv, TypeInv', Lists, NEW k \in Buckets, NEW p \in Chain(k), NEW v \in BCBs,
         next[p] = v, next' = [[next EXCEPT ![p] = next[v]] EXCEPT ![v] = freeBCBs],
         bucket' = bucket, freeBCBs' = v, \A d \in Clients : Taken(d)' = Taken(d)
  PROVE  /\ Lists' /\ v \in Chain(k)
         /\ \A h \in Buckets : Chain(h)' = Chain(h) \ {v}
<1>1. next \in Links /\ next' \in Links /\ p \in BCBs /\ v # NoBCB /\ bucket[k] \in Ends
  BY LinksOf DEF TypeInv, TypeOK, ListOK, Links, Ends, BCBs, NoBCB
<1>2. \A b \in BCBs \ {p, v} : next'[b] = next[b]
  BY <1>1 DEF Links
<1>3. Ending(next, bucket[k]) /\ p \in Members(next, bucket[k])
  BY DEF Lists, ListsEnd, Chain
<1>4. v \in Chain(k) /\ v # p
  <2> DEFINE ny == [next EXCEPT ![p] = next[v]]
  <2>1. ny \in Links /\ ny[p] = next[next[p]]
        /\ \A d \in Members(next, bucket[k]) \ {p, next[p]} : ny[d] = next[d]
    BY <1>1, LinksOf, MembersOf DEF Links
  <2> HIDE DEF ny
  <2>2. next[p] \in Members(next, bucket[k]) /\ next[p] # p
    BY <1>1, <1>3, <2>1, CutMiddle
  <2>3. QED
    BY <2>2 DEF Chain
<1>5. next'[p] = next[next[p]] /\ next'[v] = freeBCBs
  BY <1>1, <1>4 DEF Links
<1>6. Chain(k)' = Chain(k) \ {v} /\ Ending(next', bucket'[k])
  <2>1. \A d \in Members(next, bucket[k]) \ {p, next[p]} : next'[d] = next[d]
    BY <1>1, <1>2, MembersOf
  <2>2. Members(next', bucket[k]) = Members(next, bucket[k]) \ {v} /\ Ending(next', bucket[k])
    <3>1. next[p] # NoBCB
      BY <1>1
    <3>2. /\ next[p] \in Members(next, bucket[k]) /\ next[p] # bucket[k] /\ next[p] # p
          /\ Members(next', bucket[k]) = Members(next, bucket[k]) \ {next[p]}
          /\ Ending(next', bucket[k])
      BY ONLY <1>1, <1>3, <1>5, <2>1, <3>1, CutMiddle
    <3>3. QED
      BY <3>2
  <2>3. QED
    BY <2>2 DEF Chain
<1>7. v \notin Free /\ p \notin Free /\ \A h \in Buckets \ {k} : v \notin Chain(h) /\ p \notin Chain(h)
  BY <1>4 DEF Lists, ListsApart
<1>8. \A h \in Buckets \ {k} : Chain(h)' = Chain(h) /\ Ending(next', bucket'[h])
  <2>1. \A h \in Buckets \ {k} : Chain(h) \cap {p, v} = {} /\ bucket'[h] = bucket[h]
    BY <1>7
  <2>2. QED
    BY <1>2, <2>1, ChainsKept DEF Lists
<1>9. Free' = {v} \cup Free /\ Ending(next', freeBCBs')
  <2>1. \A b \in Free : next'[b] = next[b]
    BY <1>2, <1>7, LinksOf
  <2>2. QED
    BY <1>5, <1>7, <2>1, FreePushed DEF Lists
<1>10. Lists'
  BY <1>4, <1>6, <1>8, <1>9, ToFree
<1>11. QED
  BY <1>4, <1>6, <1>7, <1>8, <1>10

(* resetBCB takes the head out of its chain. *)
LEMMA HeadTaken ==
  ASSUME TypeInv, TypeInv', Lists, NEW c \in Clients, NEW k \in Buckets, NEW v \in BCBs,
         v = bucket[k], bucket' = [bucket EXCEPT ![k] = next[v]],
         UNCHANGED <<next, freeBCBs>>, Taken(c) = {}, Taken(c)' = {v},
         \A d \in Clients \ {c} : Taken(d)' = Taken(d)
  PROVE  /\ Lists' /\ v \in Chain(k)
         /\ \A h \in Buckets : Chain(h)' = Chain(h) \ {v}
<1>1. next \in Links /\ v \in Chain(k)
  BY LinksOf, MembersOf DEF Ends, Chain, BCBs, NoBCB
<1>2. v \notin Free /\ \A h \in Buckets \ {k} : v \notin Chain(h)
  BY <1>1 DEF Lists, ListsApart
<1>3. \A h \in Buckets \ {k} : Chain(h)' = Chain(h) /\ Ending(next', bucket'[h])
  <2>1. \A h \in Buckets \ {k} : Chain(h) \cap {} = {} /\ bucket'[h] = bucket[h]
    BY DEF TypeInv, TypeOK, TableOK
  <2>2. \A b \in BCBs \ {} : next'[b] = next[b]
    OBVIOUS
  <2>3. QED
    BY <2>1, <2>2, ChainsKept DEF Lists
<1>4. Chain(k)' = Chain(k) \ {v} /\ Ending(next', bucket'[k])
  <2>1. Members(next, next[v]) = Chain(k) \ {v} /\ Ending(next, next[v])
    BY <1>1, PopFront DEF Lists, ListsEnd, Chain
  <2>2. bucket'[k] = next[v]
    BY DEF TypeInv, TypeOK, TableOK
  <2>3. QED
    BY <2>1, <2>2 DEF Chain
<1>5. Free' = Free /\ Ending(next', freeBCBs')
  BY DEF Lists, ListsEnd, Free
<1>6. ListsEnd'
  BY <1>3, <1>4, <1>5 DEF ListsEnd
<1>7. ListsApart'
  <2>1. \A g, h \in Buckets : g # h => Chain(g)' \cap Chain(h)' = {}
    BY <1>3, <1>4 DEF Lists, ListsApart
  <2>2. \A h \in Buckets : Chain(h)' \cap Free' = {}
    BY <1>3, <1>4, <1>5 DEF Lists, ListsApart
  <2>3. \A d \in Clients : \A b \in Taken(d)' : b \notin Free' /\ \A h \in Buckets : b \notin Chain(h)'
    <3>1. \A b \in Taken(c)' : b \notin Free' /\ \A h \in Buckets : b \notin Chain(h)'
      BY <1>2, <1>3, <1>4, <1>5
    <3>2. \A d \in Clients \ {c} : \A b \in Taken(d)' :
            b \notin Free' /\ \A h \in Buckets : b \notin Chain(h)'
      BY <1>3, <1>4, <1>5 DEF Lists, ListsApart
    <3>3. QED
      BY <3>1, <3>2
  <2>4. \A d, e \in Clients : d # e => Taken(d)' \cap Taken(e)' = {}
    <3>1. \A d \in Clients : v \notin Taken(d)
      BY <1>1 DEF Lists, ListsApart
    <3>2. QED
      BY <3>1 DEF Lists, ListsApart
  <2>5. \A b \in BCBs : \/ b \in Free' \/ \E h \in Buckets : b \in Chain(h)'
                        \/ \E d \in Clients : b \in Taken(d)'
    <3> SUFFICES ASSUME NEW b \in BCBs, b \notin Free', \A h \in Buckets : b \notin Chain(h)', b # v
                 PROVE  \E d \in Clients : b \in Taken(d)'
      OBVIOUS
    <3>1. b \notin Free /\ \A h \in Buckets : b \notin Chain(h)
      BY <1>3, <1>4, <1>5
    <3>2. PICK d \in Clients : b \in Taken(d)
      BY <3>1 DEF Lists, ListsApart
    <3>3. QED
      BY <3>2
  <2>6. QED
    BY <2>1, <2>2, <2>3, <2>4, <2>5 DEF ListsApart
<1>8. QED
  BY <1>1, <1>2, <1>3, <1>4, <1>6, <1>7 DEF Lists

(* resetBCB puts what it took into the free list. *)
LEMMA TakenToFree ==
  ASSUME TypeInv, TypeInv', Lists, NEW c \in Clients, NEW v \in BCBs, Taken(c) = {v},
         next' = [next EXCEPT ![v] = freeBCBs], bucket' = bucket, freeBCBs' = v,
         Taken(c)' = {}, \A d \in Clients \ {c} : Taken(d)' = Taken(d)
  PROVE  Lists' /\ \A h \in Buckets : Chain(h)' = Chain(h)
<1>1. v \notin Free /\ \A h \in Buckets : v \notin Chain(h)
  BY DEF Lists, ListsApart
<1>2. \A b \in BCBs \ {v} : next'[b] = next[b]
  BY DEF TypeInv, TypeOK, ListOK
<1>3. \A h \in Buckets : Chain(h)' = Chain(h) /\ Ending(next', bucket'[h])
  <2>1. \A h \in Buckets : Chain(h) \cap {v} = {} /\ bucket'[h] = bucket[h]
    BY <1>1
  <2>2. QED
    BY <1>2, <2>1, ChainsKept DEF Lists
<1>4. Free' = {v} \cup Free /\ Ending(next', freeBCBs')
  <2>1. next'[v] = freeBCBs /\ \A b \in Free : next'[b] = next[b]
    BY <1>1, <1>2, LinksOf DEF TypeInv, TypeOK, ListOK
  <2>2. QED
    BY <1>1, <2>1, FreePushed DEF Lists
<1>5. ListsEnd'
  BY <1>3, <1>4 DEF ListsEnd
<1>6. ListsApart'
  <2>1. \A g, h \in Buckets : g # h => Chain(g)' \cap Chain(h)' = {}
    BY <1>3 DEF Lists, ListsApart
  <2>2. \A h \in Buckets : Chain(h)' \cap Free' = {}
    BY <1>1, <1>3, <1>4 DEF Lists, ListsApart
  <2>3. \A d \in Clients : \A b \in Taken(d)' : b \notin Free' /\ \A h \in Buckets : b \notin Chain(h)'
    <3>1. \A d \in Clients \ {c} : v \notin Taken(d)
      BY DEF Lists, ListsApart
    <3>2. QED
      BY <3>1, <1>3, <1>4 DEF Lists, ListsApart
  <2>4. \A d, e \in Clients : d # e => Taken(d)' \cap Taken(e)' = {}
    BY DEF Lists, ListsApart
  <2>5. \A b \in BCBs : \/ b \in Free' \/ \E h \in Buckets : b \in Chain(h)'
                        \/ \E d \in Clients : b \in Taken(d)'
    <3> SUFFICES ASSUME NEW b \in BCBs, b \notin Free', \A h \in Buckets : b \notin Chain(h)'
                 PROVE  \E d \in Clients : b \in Taken(d)'
      OBVIOUS
    <3>1. b # v /\ b \notin Free /\ \A h \in Buckets : b \notin Chain(h)
      BY <1>3, <1>4
    <3>2. PICK d \in Clients : b \in Taken(d)
      BY <3>1 DEF Lists, ListsApart
    <3>3. QED
      BY <3>1, <3>2
  <2>6. QED
    BY <2>1, <2>2, <2>3, <2>4, <2>5 DEF ListsApart
<1>7. QED
  BY <1>3, <1>5, <1>6 DEF Lists

-----------------------------------------------------------------------------
(* init links all BCBs into the free list. *)
LEMMA InitialLists ==
  ASSUME NoBCBs > 1, next = InitialChain, freeBCBs = 1, bucket = [h \in Buckets |-> NoBCB],
         \A c \in Clients : pc[c] = "idle"
  PROVE  Lists /\ Free = BCBs /\ \A h \in Buckets : Chain(h) = {}
<1>1. InitialChain = [b \in BCBs |-> IF b < NoBCBs THEN b + 1 ELSE NoBCB]
  BY DEF InitialChain
<1>2. InitialChain \in Links /\ 1 \in Ends /\ NoBCB \in Ends
  BY BufferAssumption, <1>1 DEF Links, Ends, BCBs, NoBCB
<1>3. BCBs \subseteq Members(InitialChain, 1)
  <2> DEFINE M == Members(InitialChain, 1)
             S == {n \in Nat : n + 1 \in BCBs => n + 1 \in M}
  <2>1. Closed(InitialChain, M) /\ 1 \in M
    BY <1>2, MembersOf DEF NoBCB
  <2> HIDE DEF M
  <2>2. 0 \in S
    BY <2>1
  <2>3. ASSUME NEW n \in S PROVE n + 1 \in S
    <3> SUFFICES ASSUME (n + 1) + 1 \in BCBs PROVE (n + 1) + 1 \in M
      OBVIOUS
    <3>1. n + 1 \in BCBs /\ n + 1 \in M /\ n + 1 < NoBCBs
      BY BufferAssumption DEF BCBs
    <3>2. InitialChain[n + 1] = (n + 1) + 1
      BY <1>1, <3>1
    <3>3. InitialChain[n + 1] \in M \cup {NoBCB}
      BY <2>1, <3>1 DEF Closed
    <3>4. QED
      BY <3>2, <3>3 DEF NoBCB
  <2>4. S = Nat
    <3> HIDE DEF S
    <3>1. S \in SUBSET Nat
      BY DEF S
    <3>2. QED
      BY <2>2, <2>3, <3>1, Induction
  <2>5. ASSUME NEW b \in BCBs PROVE b \in M
    <3>1. b - 1 \in Nat /\ (b - 1) + 1 = b
      BY BufferAssumption DEF BCBs
    <3>2. b - 1 \in S
      BY ONLY <2>4, <3>1
    <3>3. QED
      BY <3>1, <3>2
  <2>6. QED
    BY <2>5 DEF M
<1>4. Free = BCBs /\ \A h \in Buckets : Chain(h) = {}
  BY <1>2, <1>3, MembersOf DEF Free, Chain
<1>5. ListsEnd
  <2>1. \A b, d \in BCBs : InitialChain[b] # 1
                           /\ (InitialChain[b] = InitialChain[d] /\ InitialChain[b] # NoBCB => b = d)
    BY <1>1, BufferAssumption DEF BCBs, NoBCB
  <2>2. Members(InitialChain, NoBCB) = {}
    BY <1>2, MembersOf
  <2>3. QED
    BY <1>4, <2>1, <2>2 DEF ListsEnd, Ending, Free
<1>6. \A c \in Clients : Taken(c) = {}
  BY DEF Taken
<1>7. QED
  BY <1>4, <1>5, <1>6 DEF Lists, ListsApart

(* The database has one client, or its clients ask for different pages and  *)
(* the pool is large enough for all of them.                                *)
OneClient == \A c, d \in Clients : c = d
NoSharing  == \A c, d \in Clients : c # d => PagesOf[c] \cap PagesOf[d] = {}
Apart == OneClient \/ (NoSharing /\ IsFiniteSet(Pages) /\ Cardinality(Pages) <= NoFrames)

(* More BCBs than frames: the control block of a page whose frame is still  *)
(* being looked for is one more than there are frames.                      *)
Spare == NoBCBs > NoFrames

Pool == UNION {Chain(h) : h \in Buckets}

Evicting  == {"pick", "tryBucket", "tryHead", "tryNext", "lockHead", "lockNext",
              "evictHead", "evictNext"}
InBucket  == {"tryHead", "tryNext", "lockHead", "lockNext", "evictHead", "evictNext",
              "resetHead", "resetWalk", "resetNext"}
Misses    == {"popCheck", "pop", "claim", "link"}
Searching == Locating \ {"link"}
Opening   == Searching \cup {"readLatch", "read", "emptyLatch"}

BucketLatches == \A h \in Buckets : bucketX[h] # {} => bucketS[h] = {}

(* The bucket a call walks is latched for it. *)
HoldsBucket(c) ==
  /\ pc[c] \in InBucket => bucketX[home[c]] = {c}
  /\ pc[c] = "walk" => c \in bucketS[Hash(Page(c))]

(* Where in the chains the pointers of a call point. *)
Positions(c) ==
  /\ pc[c] \in Evicting => OneClient
  /\ pc[c] \in {"tryBucket", "tryHead", "lockHead"} => ptr[c] = bucket[home[c]]
  /\ pc[c] = "tryNext" => ptr[c] \in Chain(home[c])
  /\ pc[c] \in {"lockHead", "evictHead"} => victim[c] = bucket[home[c]]
  /\ pc[c] \in {"resetHead", "resetWalk", "resetNext"} => home[c] = Hash(Page(c))
  /\ pc[c] = "resetWalk" => ptr[c] \in Chain(home[c])
  /\ pc[c] \in {"lockNext", "evictNext", "resetNext"} =>
       ptr[c] \in Chain(home[c]) /\ next[ptr[c]] = victim[c]
  /\ pc[c] = "walk" =>
       /\ ptr[c] \in Chain(Hash(Page(c))) \cup {NoBCB}
       /\ \A b \in Chain(Hash(Page(c))) : pid[b] = Page(c) => b \in Members(next, ptr[c])

(* What a call and its client know of the pages in the pool.  A client that *)
(* asks for a page it keeps fixed finds it and waits for its own latch.     *)
Seeking == {"lookup", "walk", "latch"}
Call(c) ==
  /\ pc[c] \notin {"idle", "flushAll"} => Page(c) \in PagesOf[c]
  /\ pc[c] \notin {"idle", "flushAll"} \cup Seeking => \A h \in held[c] : h.page # Page(c)
  /\ pc[c] \in Misses \cup {"resetHead"} => \A b \in Pool : pid[b] # Page(c)
  /\ pc[c] \in Locating => pid[newBCB[c]] = Page(c) /\ frameIndex[newBCB[c]] = INVALID
  /\ pc[c] \in Opening => newBCB[c] \in Pool /\ pid[newBCB[c]] = Page(c)
  /\ pc[c] \in {"readLatch", "read", "emptyLatch"} => frameIndex[newBCB[c]] # INVALID
  /\ pc[c] \in {"latch", "upgrade"} =>
       ptr[c] \in Pool /\ pid[ptr[c]] = Page(c) /\ frameIndex[ptr[c]] # INVALID
  /\ pc[c] \in {"resetHead", "resetNext"} => pid[victim[c]] = Page(c)
  /\ \A h \in held[c] :
       /\ h.page \in PagesOf[c]
       /\ h.bcb \in Pool /\ pid[h.bcb] = h.page /\ frameIndex[h.bcb] # INVALID

At(c) == HoldsBucket(c) /\ Positions(c) /\ Call(c)

(* A page is in the pool once, in its bucket; a BCB there has a frame or a  *)
(* call is looking for one.                                                 *)
PagesApart ==
  /\ \A h \in Buckets : \A b \in Chain(h) : pid[b] \in Pages /\ Hash(pid[b]) = h
  /\ \A b, d \in Pool : pid[b] = pid[d] => b = d
  /\ \A b \in Pool : frameIndex[b] = INVALID =>
       \E c \in Clients : pc[c] \in Searching /\ newBCB[c] = b
  /\ \A b \in BCBs : modified[b] => FrameValid(b)

(* Every frame is free, placed under a BCB or carried by a call, and only   *)
(* one of these.                                                            *)
Placed    == {b \in Pool \ BeingDeleted : FrameValid(b)}
FreeFrame == {freeFrames[i] : i \in DOMAIN freeFrames}
Moving    == {c \in Clients : pc[c] = "place"}
FramesApart ==
  /\ \A b, d \in Placed : frameIndex[b] = frameIndex[d] => b = d
  /\ FreeFrame \subseteq Frames
  /\ \A i, j \in DOMAIN freeFrames : freeFrames[i] = freeFrames[j] => i = j
  /\ \A b \in Placed : frameIndex[b] \notin FreeFrame
  /\ \A c \in Moving : /\ got[c] \in Frames /\ got[c] \notin FreeFrame
                       /\ \A b \in Placed : frameIndex[b] # got[c]
                       /\ \A d \in Moving : got[c] = got[d] => c = d
  /\ \A f \in Frames : \/ f \in FreeFrame
                       \/ \E b \in Placed : frameIndex[b] = f
                       \/ \E c \in Moving : got[c] = f

Structure ==
  /\ Lists /\ BucketLatches /\ PagesApart /\ FramesApart
  /\ \A c \in Clients : At(c)

-----------------------------------------------------------------------------
(* What a step of c leaves to the other clients: their local variables, the *)
(* buckets they have latched, and the pages only they ask for.              *)
OnlyFor(c) ==
  \A d \in Clients \ {c} :
    /\ pc'[d] = pc[d] /\ call'[d] = call[d] /\ ptr'[d] = ptr[d] /\ newBCB'[d] = newBCB[d]
    /\ victim'[d] = victim[d] /\ home'[d] = home[d] /\ got'[d] = got[d]
    /\ todo'[d] = todo[d] /\ held'[d] = held[d]

BucketsKept(c) ==
  \A h \in Buckets : \A d \in Clients \ {c} :
    /\ bucketX[h] = {d} => bucketX'[h] = {d}
    /\ d \in bucketS[h] => d \in bucketS'[h]

ChainsOfOthers(c) ==
  \A h \in Buckets : \A d \in Clients \ {c} : d \in bucketX[h] \cup bucketS[h] =>
    /\ bucket'[h] = bucket[h] /\ Chain(h)' = Chain(h)
    /\ \A b \in Chain(h) : next'[b] = next[b] /\ pid'[b] = pid[b]

PagesOfOthers(c) ==
  /\ \A b \in Pool : pid[b] \notin PagesOf[c] =>
       b \in Pool' /\ pid'[b] = pid[b] /\ frameIndex'[b] = frameIndex[b]
  /\ \A b \in Pool' : pid'[b] \notin PagesOf[c] => b \in Pool /\ pid'[b] = pid[b]
  /\ \A d \in Clients \ {c} : \A b \in Taken(d) :
       pid'[b] = pid[b] /\ frameIndex'[b] = frameIndex[b]

LEMMA OthersAt ==
  ASSUME TypeInv, Apart, NEW c \in Clients, NEW d \in Clients \ {c}, At(d),
         next' \in Links,
         OnlyFor(c), BucketsKept(c), ChainsOfOthers(c), PagesOfOthers(c)
  PROVE  At(d)'
<1>1. ~OneClient /\ \A p \in PagesOf[d] : p \notin PagesOf[c]
  BY DEF Apart, OneClient, NoSharing
<1>2. /\ pc'[d] = pc[d] /\ call'[d] = call[d] /\ ptr'[d] = ptr[d] /\ newBCB'[d] = newBCB[d]
      /\ victim'[d] = victim[d] /\ home'[d] = home[d] /\ held'[d] = held[d]
      /\ Page(d)' = Page(d)
  BY DEF OnlyFor, Page
<1>3. pc[d] \notin Evicting
  BY <1>1 DEF At, Positions
<1>4. home[d] \in Buckets /\ (pc[d] \in PageSet => Hash(Page(d)) \in Buckets)
  BY HashOK DEF TypeInv, TypeOK, ClientOK, LocalsOK, Page
<1>5. HoldsBucket(d)'
  BY <1>2, <1>4 DEF At, HoldsBucket, BucketsKept, PageSet
<1>6. Positions(d)'
  <2>1. pc[d] \in {"resetHead", "resetWalk", "resetNext"} =>
          home[d] = Hash(Page(d)) /\ d \in bucketX[home[d]]
    BY DEF At, Positions, HoldsBucket, InBucket
  <2>2. pc[d] \in {"resetWalk", "resetNext"} =>
          /\ Chain(home[d])' = Chain(home[d])
          /\ \A b \in Chain(home[d]) : next'[b] = next[b]
    BY <1>2, <1>4, <2>1 DEF ChainsOfOthers, Chain
  <2>3. CASE pc[d] = "walk"
    <3>1. PICK h \in Buckets : h = Hash(Page(d))
      BY <2>3, <1>4 DEF PageSet
    <3>2. /\ Chain(h)' = Chain(h)
          /\ \A b \in Chain(h) : next'[b] = next[b] /\ pid'[b] = pid[b]
      BY <2>3, <3>1 DEF At, HoldsBucket, ChainsOfOthers
    <3>3. ptr[d] \in Chain(h) \cup {NoBCB} /\ ptr[d] \in Ends /\ next \in Links
      BY <2>3, <3>1, LinksOf DEF At, Positions, Ends
    <3>4. Members(next, ptr[d]) \subseteq Chain(h)
      <4>1. bucket[h] \in Ends /\ Closed(next, Chain(h))
        BY <3>3, LinksOf, MembersOf DEF Chain
      <4>2. QED
        BY <3>3, <4>1, MembersLeast
    <3>5. Members(next', ptr[d]) = Members(next, ptr[d])
      BY <3>2, <3>3, <3>4, MembersKept
    <3>6. \A b \in Chain(h) : pid[b] = Page(d) => b \in Members(next, ptr[d])
      BY <2>3, <3>1 DEF At, Positions
    <3>7. Chain(Hash(Page(d)))' = Chain(h)
      BY <3>1, <3>2, <1>2 DEF Chain
    <3>8. QED
      BY <1>2, <2>3, <3>1, <3>2, <3>3, <3>5, <3>6, <3>7 DEF Positions, Evicting
  <2>4. CASE pc[d] # "walk"
    BY <1>2, <1>3, <2>1, <2>2, <2>4 DEF At, Positions, Evicting, Chain
  <2>5. QED
    BY <2>3, <2>4
<1>7. Call(d)'
  <2>1. /\ pc[d] # "idle" /\ pc[d] # "flushAll" => Page(d) \in PagesOf[d]
        /\ \A h \in held[d] : h.page \in PagesOf[d]
    BY DEF At, Call, Seeking
  <2>2. pc[d] \in Misses \cup {"resetHead"} => \A b \in Pool' : pid'[b] # Page(d)
    BY <1>1, <2>1 DEF At, Call, Seeking, PagesOfOthers, Misses
  <2>3. pc[d] = "link" =>
          pid'[newBCB[d]] = pid[newBCB[d]] /\ frameIndex'[newBCB[d]] = frameIndex[newBCB[d]]
    BY DEF PagesOfOthers, Taken
  <2>4. pc[d] = "resetHead" => pid'[victim[d]] = pid[victim[d]]
    BY DEF PagesOfOthers, Taken
  <2>5. pc[d] \in Opening =>
          /\ newBCB[d] \in Pool' /\ pid'[newBCB[d]] = pid[newBCB[d]]
          /\ frameIndex'[newBCB[d]] = frameIndex[newBCB[d]]
    <3>1. pc[d] \in Opening => pc[d] # "idle" /\ pc[d] # "flushAll"
      BY DEF Opening, Searching, Locating
    <3>2. QED
      BY <1>1, <2>1, <3>1 DEF At, Call, Seeking, PagesOfOthers
  <2>6. pc[d] \in {"latch", "upgrade"} =>
          /\ ptr[d] \in Pool' /\ pid'[ptr[d]] = pid[ptr[d]]
          /\ frameIndex'[ptr[d]] = frameIndex[ptr[d]]
    BY <1>1, <2>1 DEF At, Call, Seeking, PagesOfOthers
  <2>7. pc[d] = "resetNext" => pid'[victim[d]] = pid[victim[d]]
    <3> SUFFICES ASSUME pc[d] = "resetNext" PROVE pid'[victim[d]] = pid[victim[d]]
      OBVIOUS
    <3>1. victim[d] \in BCBs /\ ptr[d] \in Chain(home[d]) /\ next[ptr[d]] = victim[d]
      BY DEF At, Positions, TypeInv, LocalsOK, VictimSet
    <3>2. victim[d] \in Chain(home[d])
      BY <1>4, <3>1, LinksOf, MembersOf DEF Chain, Closed, BCBs, NoBCB
    <3>3. victim[d] \in Pool /\ pid[victim[d]] \in PagesOf[d]
      BY <1>4, <2>1, <3>2 DEF Pool, At, Call, Seeking
    <3>4. QED
      BY <1>1, <3>3 DEF PagesOfOthers
  <2>8. \A h \in held[d] : h.bcb \in Pool' /\ pid'[h.bcb] = pid[h.bcb]
                           /\ frameIndex'[h.bcb] = frameIndex[h.bcb]
    BY <1>1 DEF At, Call, Seeking, PagesOfOthers
  <2>9. pc[d] \in Locating => pc[d] = "link" \/ pc[d] \in Opening
    BY DEF Locating, Opening, Searching
  <2>10. pc[d] \in {"readLatch", "read", "emptyLatch"} => pc[d] \in Opening
    BY DEF Opening
  <2> DEFINE q == pc[d]
  <2>11. Call(d)
    BY DEF At
  <2>12. QED
    BY <1>2, <2>2, <2>3, <2>4, <2>5, <2>6, <2>7, <2>8, <2>9, <2>10, <2>11 DEF Call, Seeking
<1>8. QED
  BY <1>5, <1>6, <1>7 DEF At

-----------------------------------------------------------------------------
(***************************************************************************)
(* Counting: each control block that has a frame has one of its own, so a  *)
(* pool with more blocks than frames never runs out of them.               *)
(***************************************************************************)

(* If every member of S is related to one of T, and none of T to two of S,  *)
(* S is not the larger one.                                                 *)
LEMMA Pigeons ==
  ASSUME NEW S, NEW T, IsFiniteSet(T), NEW R,
         \A s \in S : \E t \in T : <<s, t>> \in R,
         \A r, s \in S : \A t \in T : <<r, t>> \in R /\ <<s, t>> \in R => r = s
  PROVE  IsFiniteSet(S) /\ Cardinality(S) <= Cardinality(T)
<1> DEFINE f == [s \in S |-> CHOOSE t \in T : <<s, t>> \in R]
<1>1. \A s \in S : f[s] \in T /\ <<s, f[s]>> \in R
  OBVIOUS
<1>2. f \in [S -> T]
  BY <1>1
<1> HIDE DEF f
<1>3. f \in Injection(S, T)
  BY <1>1, <1>2 DEF Injection, IsInjective
<1>4. QED
  BY <1>3, FS_Injection

LEMMA Sizes ==
  /\ IsFiniteSet(Frames) /\ Cardinality(Frames) = NoFrames
  /\ IsFiniteSet(BCBs) /\ Cardinality(BCBs) = NoBCBs
<1>1. IsFiniteSet(Frames) /\ Cardinality(Frames) = NoFrames
  <2>1. /\ IsFiniteSet(0 .. (NoFrames - 1))
        /\ Cardinality(0 .. (NoFrames - 1)) = IF 0 > NoFrames - 1 THEN 0 ELSE (NoFrames - 1) - 0 + 1
    BY FS_Interval, BufferAssumption
  <2>2. QED
    BY <2>1, BufferAssumption DEF Frames
<1>2. IsFiniteSet(BCBs) /\ Cardinality(BCBs) = NoBCBs
  <2>1. IsFiniteSet(1 .. NoBCBs) /\ Cardinality(1 .. NoBCBs) = IF 1 > NoBCBs THEN 0 ELSE NoBCBs - 1 + 1
    BY FS_Interval, BufferAssumption
  <2>2. QED
    BY <2>1, BufferAssumption DEF BCBs
<1>3. QED
  BY <1>1, <1>2

LEMMA PoolBCBs == ASSUME TypeInv PROVE Pool \in SUBSET BCBs
  BY LinksOf DEF Pool

LEMMA NewInPool ==
  ASSUME NEW c \in Clients, At(c), pc[c] \in Searching
  PROVE  newBCB[c] \in Pool /\ pid[newBCB[c]] = Page(c) /\ frameIndex[newBCB[c]] = INVALID
         /\ Page(c) \in PagesOf[c]
  BY DEF At, Call, Seeking, Opening, Searching, Locating

(* A client that takes a BCB off the free list finds one there.             *)
LEMMA BCBLeft ==
  ASSUME TypeInv, Structure, Apart, Spare, NEW c \in Clients, pc[c] \in {"popCheck", "pop"}
  PROVE  freeBCBs # NoBCB
<1> SUFFICES ASSUME freeBCBs = NoBCB PROVE FALSE
  OBVIOUS
<1>1. Free = {}
  BY LinksOf, MembersOf DEF Free
<1>2. \A b \in BCBs : b \in Pool \/ \E d \in Clients : b \in Taken(d)
  BY <1>1 DEF Structure, Lists, ListsApart, Pool
<1>3. CASE OneClient
  <2>1. \A d \in Clients : d = c
    BY <1>3 DEF OneClient
  <2>2. \A d \in Clients : Taken(d) = {} /\ pc[d] \notin Searching /\ pc[d] # "resetNext"
    BY <2>1 DEF Taken, Searching, Locating
  <2>3. \A b \in BCBs : b \in Pool
    BY <1>2, <2>2
  <2>4. BeingDeleted = {}
    BY <2>2 DEF BeingDeleted
  <2>5. \A b \in BCBs : b \in Placed /\ frameIndex[b] \in Frames
    BY <2>2, <2>3, <2>4
    DEF Structure, PagesApart, Placed, FrameValid, TypeInv, TypeOK, BCBOK
  <2> DEFINE R == {<<b, frameIndex[b]>> : b \in BCBs}
  <2>6. \A b \in BCBs : \E f \in Frames : <<b, f>> \in R
    BY <2>5
  <2>7. \A b, d \in BCBs : \A f \in Frames : <<b, f>> \in R /\ <<d, f>> \in R => b = d
    BY <2>5 DEF Structure, FramesApart
  <2>8. Cardinality(BCBs) <= Cardinality(Frames)
    <3> HIDE DEF R
    <3>1. QED
      BY <2>6, <2>7, Sizes, Pigeons
  <2>9. QED
    BY <2>8, Sizes, BufferAssumption DEF Spare
<1>4. CASE ~OneClient
  <2>1. NoSharing /\ IsFiniteSet(Pages) /\ Cardinality(Pages) <= NoFrames
    BY <1>4 DEF Apart
  <2>2. \A d \in Clients : \A b \in Taken(d) :
          Page(d) \in PagesOf[d] /\ Page(d) \in Pages /\ \A x \in Pool : pid[x] # Page(d)
    BY BufferAssumption DEF Taken, Structure, At, Call, Seeking, Misses

  <2> DEFINE OfPage(b, p) == \/ b \in Pool /\ pid[b] = p
                             \/ \E d \in Clients : b \in Taken(d) /\ Page(d) = p
             Q == {bp \in BCBs \X Pages : OfPage(bp[1], bp[2])}
  <2>3. \A b \in Pool : pid[b] \in Pages
    BY DEF Pool, Structure, PagesApart
  <2>4. \A b \in BCBs : \E p \in Pages : <<b, p>> \in Q
    <3> SUFFICES ASSUME NEW b \in BCBs PROVE \E p \in Pages : OfPage(b, p)
      OBVIOUS
    <3>1. CASE b \in Pool
      BY <2>3, <3>1
    <3>2. CASE \E d \in Clients : b \in Taken(d)
      BY <2>2, <3>2
    <3>3. QED
      BY <1>2, <3>1, <3>2
  <2>5. \A b, x \in BCBs : \A p \in Pages : <<b, p>> \in Q /\ <<x, p>> \in Q => b = x
    <3> SUFFICES ASSUME NEW b \in BCBs, NEW x \in BCBs, NEW p \in Pages,
                        OfPage(b, p), OfPage(x, p)
                 PROVE  b = x
      OBVIOUS
    <3>1. CASE b \in Pool /\ pid[b] = p /\ x \in Pool /\ pid[x] = p
      BY <3>1 DEF Structure, PagesApart
    <3>2. CASE b \notin Pool \/ pid[b] # p \/ x \notin Pool \/ pid[x] # p
      <4>1. \A y \in Pool : pid[y] # p
        BY <2>2, <3>2
      <4>2. PICK d \in Clients : b \in Taken(d) /\ Page(d) = p
        BY <4>1
      <4>3. PICK e \in Clients : x \in Taken(e) /\ Page(e) = p
        BY <4>1
      <4>4. d = e
        BY <2>1, <2>2, <4>2, <4>3 DEF NoSharing
      <4>5. QED
        BY <4>2, <4>3, <4>4 DEF Taken
    <3>3. QED
      BY <3>1, <3>2
  <2>6. Cardinality(BCBs) <= Cardinality(Pages)
    <3> HIDE DEF Q
    <3>1. QED
      BY <2>1, <2>4, <2>5, Pigeons
  <2>7. Cardinality(Pages) \in Nat
    BY <2>1, FS_CardinalityType
  <2>8. QED
    BY <2>1, <2>6, <2>7, Sizes, BufferAssumption DEF Spare
<1>5. QED
  BY <1>3, <1>4

(* A pool with a frame for each page that is asked for has a free one when a *)
(* call looks for it.                                                       *)
LEMMA FrameFree ==
  ASSUME TypeInv, Structure, NoSharing, NEW P, IsFiniteSet(P), Cardinality(P) <= NoFrames,
         \A b \in Pool : pid[b] \in P,
         NEW c \in Clients, pc[c] = "getFrame"
  PROVE  Len(freeFrames) # 0
<1> SUFFICES ASSUME Len(freeFrames) = 0 PROVE FALSE
  OBVIOUS
<1>2. FreeFrame = {}
  BY DEF FreeFrame, TypeInv, TypeOK, ListOK
<1>3. newBCB[c] \in Pool /\ pid[newBCB[c]] = Page(c) /\ frameIndex[newBCB[c]] = INVALID
      /\ Page(c) \in PagesOf[c] /\ Page(c) \in P
  BY NewInPool DEF Structure, Searching, Locating
<1>4. \A d \in Moving : /\ Page(d) \in PagesOf[d] /\ Page(d) \in P /\ d # c
                        /\ \A b \in Placed : pid[b] # Page(d)
  <2> SUFFICES ASSUME NEW d \in Moving
               PROVE  /\ Page(d) \in PagesOf[d] /\ Page(d) \in P /\ d # c
                      /\ \A b \in Placed : pid[b] # Page(d)
    OBVIOUS
  <2>1. newBCB[d] \in Pool /\ pid[newBCB[d]] = Page(d) /\ frameIndex[newBCB[d]] = INVALID
        /\ Page(d) \in PagesOf[d]
    BY NewInPool DEF Structure, Searching, Locating, Moving
  <2>2. QED
    BY <2>1 DEF Structure, PagesApart, Placed, FrameValid, Moving
<1>5. \A b \in Placed : pid[b] \in P /\ pid[b] # Page(c)
  BY <1>3 DEF Structure, PagesApart, Placed, FrameValid
<1>6. \A d \in Moving : Page(d) # Page(c)
  BY <1>3, <1>4 DEF NoSharing, Moving
<1> DEFINE OfPage(f, p) == \/ \E b \in Placed : frameIndex[b] = f /\ pid[b] = p
                           \/ \E d \in Moving : got[d] = f /\ Page(d) = p
           T == P \ {Page(c)}
           R == {fp \in Frames \X T : OfPage(fp[1], fp[2])}
<1>7. \A f \in Frames : \E p \in T : <<f, p>> \in R
  <2> SUFFICES ASSUME NEW f \in Frames PROVE \E p \in T : OfPage(f, p)
    OBVIOUS
  <2>1. CASE \E b \in Placed : frameIndex[b] = f
    BY <1>5, <2>1
  <2>2. CASE \E d \in Moving : got[d] = f
    BY <1>4, <1>6, <2>2
  <2>3. QED
    BY <1>2, <2>1, <2>2 DEF Structure, FramesApart
<1>8. \A f, g \in Frames : \A p \in T : <<f, p>> \in R /\ <<g, p>> \in R => f = g
  <2> SUFFICES ASSUME NEW f \in Frames, NEW g \in Frames, NEW p \in T, OfPage(f, p), OfPage(g, p)
               PROVE  f = g
    OBVIOUS
  <2>1. CASE \E b \in Placed : pid[b] = p
    <3>1. PICK b \in Placed : frameIndex[b] = f /\ pid[b] = p
      BY <1>4, <2>1
    <3>2. PICK d \in Placed : frameIndex[d] = g /\ pid[d] = p
      BY <1>4, <2>1
    <3>3. QED
      BY <3>1, <3>2 DEF Structure, PagesApart, Placed
  <2>2. CASE \A b \in Placed : pid[b] # p
    <3>1. PICK d \in Moving : got[d] = f /\ Page(d) = p
      BY <2>2
    <3>2. PICK e \in Moving : got[e] = g /\ Page(e) = p
      BY <2>2
    <3>3. QED
      BY <1>4, <3>1, <3>2 DEF NoSharing, Moving
  <2>3. QED
    BY <2>1, <2>2
<1>9. IsFiniteSet(T) /\ Cardinality(T) = Cardinality(P) - 1
  BY <1>3, FS_RemoveElement
<1>10. Cardinality(Frames) <= Cardinality(T)
  <2> HIDE DEF R, T
  <2>1. QED
    BY <1>7, <1>8, <1>9, Pigeons
<1>11. Cardinality(P) \in Nat
  BY FS_CardinalityType
<1>12. QED
  BY <1>9, <1>10, <1>11, Sizes, BufferAssumption

(* Only a client that has the database to itself finds no free frame: else  *)
(* the pages of all clients have a frame each.                              *)
LEMMA FrameLeft ==
  ASSUME TypeInv, Structure, Apart, NEW c \in Clients, pc[c] = "getFrame", Len(freeFrames) = 0
  PROVE  OneClient
<1>1. \A b \in Pool : pid[b] \in Pages
  BY DEF Structure, PagesApart, Pool
<1>2. QED
  BY <1>1, FrameFree DEF Apart

LEMMA FramesSame ==
  ASSUME FramesApart, freeFrames' = freeFrames, Placed' = Placed, Moving' = Moving,
         \A b \in Placed : frameIndex'[b] = frameIndex[b], \A d \in Moving : got'[d] = got[d]
  PROVE  FramesApart'
<1>1. FreeFrame' = FreeFrame
  BY DEF FreeFrame
<1>2. QED
  BY <1>1 DEF FramesApart

LEMMA Assemble ==
  ASSUME TypeInv, TypeInv', Structure, Apart, NEW c \in Clients,
         OnlyFor(c), BucketsKept(c), ChainsOfOthers(c), PagesOfOthers(c),
         Lists', BucketLatches', PagesApart', FramesApart', At(c)'
  PROVE  Structure'
<1>1. next' \in Links
  BY DEF TypeInv, TypeOK, ListOK, Links, Ends
<1>2. \A d \in Clients : At(d)'
  BY <1>1, OthersAt DEF Structure
<1>3. QED
  BY <1>2 DEF Structure

(* The steps that leave the lists, the pages of the BCBs and their frames   *)
(* as they are.                                                             *)
Still(c) ==
  /\ OnlyFor(c) /\ BucketsKept(c) /\ BucketLatches'
  /\ UNCHANGED <<bucket, next, freeBCBs, freeFrames, pid, frameIndex>>
  /\ \A b \in BCBs : modified'[b] => modified[b] \/ FrameValid(b)
  /\ pc[c] \notin {"claim", "link", "resetHead", "resetNext", "place"}
  /\ pc'[c] \notin {"claim", "link", "resetHead", "resetNext", "place"}
  /\ pc[c] \in Searching => pc'[c] \in Searching /\ newBCB'[c] = newBCB[c]

LEMMA StillLists ==
  ASSUME TypeInv, Structure, NEW c \in Clients, Still(c)
  PROVE  /\ Lists' /\ Pool' = Pool
         /\ \A h \in Buckets : Chain(h)' = Chain(h)
         /\ \A d \in Clients : Taken(d)' = Taken(d)
<1>1. \A d \in Clients : Taken(d)' = Taken(d)
  <2>1. Taken(c) = {} /\ Taken(c)' = {}
    BY DEF Taken, Still
  <2>2. \A d \in Clients \ {c} : Taken(d)' = Taken(d)
    BY DEF Taken, Still, OnlyFor
  <2>3. QED
    BY <2>1, <2>2
<1>2. Lists' /\ \A h \in Buckets : Chain(h)' = Chain(h)
  BY <1>1, SameLists DEF Structure, Still
<1>3. Pool' = Pool
  BY <1>2 DEF Pool
<1>4. QED
  BY <1>1, <1>2, <1>3

LEMMA StillStructure ==
  ASSUME TypeInv, TypeInv', Structure, Apart, NEW c \in Clients, Still(c), At(c)'
  PROVE  Structure'
<1>1. /\ Lists' /\ Pool' = Pool
      /\ \A h \in Buckets : Chain(h)' = Chain(h)
      /\ \A d \in Clients : Taken(d)' = Taken(d)
  BY StillLists
<1>2. ChainsOfOthers(c) /\ PagesOfOthers(c)
  BY <1>1 DEF ChainsOfOthers, PagesOfOthers, Still
<1>3. PagesApart'
  <2>1. \A h \in Buckets : \A b \in Chain(h)' : pid'[b] \in Pages /\ Hash(pid'[b]) = h
    BY <1>1 DEF Structure, PagesApart, Still
  <2>2. \A b, d \in Pool' : pid'[b] = pid'[d] => b = d
    BY <1>1 DEF Structure, PagesApart, Still
  <2>3. \A b \in Pool' : frameIndex'[b] = INVALID =>
          \E d \in Clients : pc'[d] \in Searching /\ newBCB'[d] = b
    <3> SUFFICES ASSUME NEW b \in Pool, frameIndex[b] = INVALID
                 PROVE  \E d \in Clients : pc'[d] \in Searching /\ newBCB'[d] = b
      BY <1>1 DEF Still
    <3>1. PICK d \in Clients : pc[d] \in Searching /\ newBCB[d] = b
      BY DEF Structure, PagesApart
    <3>2. QED
      BY <3>1 DEF Still, OnlyFor
  <2>4. \A b \in BCBs : modified'[b] => FrameValid(b)'
    BY DEF Structure, PagesApart, Still, FrameValid
  <2>5. QED
    BY <2>1, <2>2, <2>3, <2>4 DEF PagesApart, Hash
<1>4. FramesApart'
  <2>1. BeingDeleted' = BeingDeleted /\ Moving' = Moving
    <3>1. \A d \in Clients : /\ pc'[d] = "resetNext" <=> pc[d] = "resetNext"
                             /\ pc'[d] = "resetNext" => victim'[d] = victim[d]
                             /\ pc'[d] = "place" <=> pc[d] = "place"
      BY DEF Still, OnlyFor
    <3>2. QED
      BY <3>1 DEF BeingDeleted, Moving
  <2>2. Placed' = Placed
    BY <1>1, <2>1 DEF Placed, FrameValid, Still
  <2>3. \A d \in Moving : got'[d] = got[d]
    BY DEF Moving, Still, OnlyFor
  <2>4. QED
    BY <2>1, <2>2, <2>3, FramesSame DEF Still, Structure
<1>5. QED
  BY <1>1, <1>2, <1>3, <1>4, Assemble DEF Still

(* A client that returns to its caller has only the pages it keeps fixed.   *)
LEMMA AtRest ==
  ASSUME NEW c \in Clients, pc'[c] \in {"idle", "flushAll"},
         \A h \in held'[c] : /\ h.page \in PagesOf[c]
                             /\ h.bcb \in Pool' /\ pid'[h.bcb] = h.page
                             /\ frameIndex'[h.bcb] # INVALID
  PROVE  At(c)'
<1>1. HoldsBucket(c)' /\ Positions(c)'
  BY DEF HoldsBucket, Positions, InBucket, Evicting
<1>2. Call(c)'
  BY DEF Call, Seeking, Misses, Locating, Opening, Searching
<1>3. QED
  BY <1>1, <1>2 DEF At

LEMMA HeldStill ==
  ASSUME TypeInv, Structure, NEW c \in Clients, Still(c)
  PROVE  \A h \in held[c] : /\ h.page \in PagesOf[c]
                            /\ h.bcb \in Pool' /\ pid'[h.bcb] = h.page
                            /\ frameIndex'[h.bcb] # INVALID
  BY StillLists DEF Still, Structure, At, Call, Seeking

LEMMA BucketsSame ==
  ASSUME Structure, UNCHANGED <<bucketX, bucketS>>, NEW c \in Clients
  PROVE  BucketsKept(c) /\ BucketLatches'
  BY DEF BucketsKept, BucketLatches, Structure

(* A call begins: a client that asks for a page it has not looked for keeps *)
(* no page of that name, and there is none in the pool when it is loaded    *)
(* without a search.                                                        *)
LEMMA Begun ==
  ASSUME TypeInv, TypeInv', Structure, Apart, NEW c \in Clients,
         NEW p \in Pages, NEW k \in {"lookup", "reset", "popCheck"},
         Idle(c), pc'[c] = k, held' = held, call'[c].page = p, p \in PagesOf[c],
         k # "lookup" => \A h \in held[c] : h.page # p,
         k = "popCheck" => \A b \in Pool : pid[b] # p, Still(c)
  PROVE  Structure'
<1>1. HoldsBucket(c)' /\ Positions(c)'
  BY DEF HoldsBucket, Positions, InBucket, Evicting
<1>2. \A h \in held[c] : /\ h.page \in PagesOf[c]
                          /\ h.bcb \in Pool' /\ pid'[h.bcb] = h.page
                          /\ frameIndex'[h.bcb] # INVALID
  BY HeldStill
<1>3. Page(c)' = p
  BY DEF Page
<1>4. k = "popCheck" => \A b \in Pool' : pid'[b] # p
  BY StillLists DEF Still
<1>5. Call(c)'
  BY <1>2, <1>3, <1>4 DEF Call, Seeking, Misses, Locating, Opening, Searching
<1>6. QED
  BY <1>1, <1>5, StillStructure DEF At

LEMMA RequestStructure ==
  ASSUME TypeInv, TypeInv', Structure, Apart, NEW c \in Clients, Request(c)
  PROVE  Structure' /\ Still(c)
<1> USE DEF TypeInv, TypeOK, ClientOK
<1>1. CASE CallFlushAll(c)
  <2>1. Still(c) /\ pc'[c] = "flushAll" /\ held'[c] = held[c]
    BY <1>1, BucketsSame
    DEF CallFlushAll, Begin, Goto, Idle, Still, OnlyFor, tableVars, listVars, bcbVars, Searching, Locating
  <2>2. QED
    BY <2>1, HeldStill, AtRest, StillStructure
<1>2. ASSUME NEW p \in Pages, CallEmptyFix(c, p) PROVE Structure' /\ Still(c)
  <2>1. Still(c)
    BY <1>2, BucketsSame
    DEF CallEmptyFix, MayAsk, Begin, Goto, Idle, Still, OnlyFor, tableVars, listVars, bcbVars, Searching, Locating
  <2>2. \A b \in Pool : pid[b] # p
    <3>1. Linked = Pool
      BY LinksOf, ChainIsMembers DEF Linked, Pool, Chain
    <3>2. QED
      BY <1>2, <3>1 DEF CallEmptyFix
  <2>3. QED
    BY <1>2, <2>1, <2>2, Begun DEF CallEmptyFix, MayAsk, Begin, Goto
<1>3. ASSUME NEW p \in Pages, CallReset(c, p) PROVE Structure' /\ Still(c)
  <2>1. Still(c)
    BY <1>3, BucketsSame
    DEF CallReset, Begin, Goto, Idle, Still, OnlyFor, tableVars, listVars, bcbVars, Searching, Locating
  <2>2. QED
    BY <1>3, <2>1, Begun DEF CallReset, Begin, Goto
<1>4. ASSUME NEW p \in Pages, NEW m \in {"S", "X"}, CallFix(c, p, m) PROVE Structure' /\ Still(c)
  <2>1. Still(c)
    BY <1>4, BucketsSame
    DEF CallFix, MayAsk, Begin, Goto, Idle, Still, OnlyFor, tableVars, listVars, bcbVars, Searching, Locating
  <2>2. QED
    BY <1>4, <2>1, Begun DEF CallFix, MayAsk, Begin, Goto
<1>5. QED
  BY <1>1, <1>2, <1>3, <1>4 DEF Request

LEMMA UseStructure ==
  ASSUME TypeInv, TypeInv', LatchInv, Structure, Apart, NEW c \in Clients, Use(c)
  PROVE  Structure' /\ Still(c)
<1> USE DEF TypeInv, TypeOK, ClientOK
<1> PICK h \in held[c] : \/ \E v \in Versions : Write(c, h, v)
                         \/ Unfix(c, h) \/ FlushPage(c, h) \/ UpgradeRelease(c, h)
  BY DEF Use
<1>1. ASSUME pc'[c] = "idle", held'[c] \in SUBSET held[c], Still(c) PROVE Structure' /\ Still(c)
  BY <1>1, HeldStill, AtRest, StillStructure
<1>2. CASE \E v \in Versions : Write(c, h, v)
  <2>1. Still(c)
    BY <1>2, BucketsSame
    DEF Write, Idle, Still, OnlyFor, tableVars, listVars, localVars, Searching, Locating, BCBOK, FrameValid
  <2>2. QED
    BY <1>1, <1>2, <2>1 DEF Write, Idle, localVars
<1>3. CASE Unfix(c, h)
  <2>1. Still(c)
    BY <1>3, BucketsSame
    DEF Unfix, Idle, Still, OnlyFor, tableVars, listVars, bcbVars, Searching, Locating
  <2>2. QED
    BY <1>1, <1>3, <2>1 DEF Unfix, Idle
<1>4. CASE FlushPage(c, h)
  <2>1. Still(c)
    BY <1>4, BucketsSame
    DEF FlushPage, Idle, Still, OnlyFor, tableVars, listVars, bcbVars, localVars, Searching, Locating
  <2>2. QED
    BY <1>1, <1>4, <2>1 DEF FlushPage, Idle, localVars
<1>5. CASE UpgradeRelease(c, h)
  <2>1. Still(c)
    BY <1>5, BucketsSame
    DEF UpgradeRelease, Begin, Goto, Idle, Still, OnlyFor, tableVars, listVars, bcbVars, Searching, Locating
  <2>2. pc'[c] = "upgrade" /\ ptr'[c] = h.bcb /\ Page(c)' = h.page /\ held'[c] = held[c] \ {h}
    BY <1>5 DEF UpgradeRelease, Begin, Goto, Page
  <2>3. \A g \in held[c] : /\ g.page \in PagesOf[c]
                           /\ g.bcb \in Pool' /\ pid'[g.bcb] = g.page
                           /\ frameIndex'[g.bcb] # INVALID
    BY <2>1, HeldStill
  <2>4. \A g \in held'[c] : g.page # h.page
    <3>1. \A g \in held[c] : g.bcb \in Pool /\ pid[g.bcb] = g.page
      BY DEF Structure, At, Call, Seeking
    <3>2. \A g \in held[c] : g.page = h.page => g.bcb = h.bcb
      BY <3>1 DEF Structure, PagesApart
    <3>3. \A g \in held[c] : g.bcb = h.bcb => g = h
      BY DEF LatchInv, Owns
    <3>4. QED
      BY <2>2, <3>2, <3>3
  <2>5. HoldsBucket(c)' /\ Positions(c)'
    BY <2>2 DEF HoldsBucket, Positions, InBucket, Evicting
  <2>6. Call(c)'
    BY <2>2, <2>3, <2>4 DEF Call, Seeking, Misses, Locating, Opening, Searching
  <2>7. QED
    BY <2>1, <2>5, <2>6, StillStructure DEF At
<1>6. QED
  BY <1>2, <1>3, <1>4, <1>5

-----------------------------------------------------------------------------
(***************************************************************************)
(* The steps, one by one.                                                  *)
(***************************************************************************)

(* The members a list has from one of its own members on are members.       *)
LEMMA NextOf ==
  ASSUME TypeInv, NEW h \in Buckets, NEW b \in Chain(h)
  PROVE  b \in BCBs /\ next[b] \in Chain(h) \cup {NoBCB} /\ b # NoBCB
  BY LinksOf, MembersOf DEF Chain, Closed, BCBs, NoBCB

LEMMA HeadOf ==
  ASSUME TypeInv, NEW h \in Buckets
  PROVE  bucket[h] \in Chain(h) \cup {NoBCB}
  BY LinksOf, MembersOf DEF Chain

LEMMA LookupStructure ==
  ASSUME TypeInv, TypeInv', Structure, Apart, NEW c \in Clients, FixLookup(c)
  PROVE  Structure' /\ Still(c)
<1> USE DEF TypeInv, TypeOK, ClientOK
<1>1. PICK k \in Buckets : k = Hash(Page(c))
  BY HashOK DEF FixLookup, LocalsOK, PageSet, Page
<1>2. BucketsKept(c) /\ BucketLatches'
  BY <1>1 DEF FixLookup, BucketsKept, BucketLatches, Structure, TableOK
<1>3. Still(c)
  BY <1>2 DEF FixLookup, Goto, Still, OnlyFor, listVars, bcbVars, Searching, Locating
<1>4. pc'[c] = "walk" /\ ptr'[c] = bucket[k] /\ c \in bucketS'[k] /\ Page(c)' = Page(c)
      /\ held'[c] = held[c]
  BY <1>1 DEF FixLookup, Goto, Page, TableOK
<1>5. HoldsBucket(c)'
  BY <1>1, <1>4 DEF HoldsBucket, InBucket
<1>6. Chain(Hash(Page(c)))' = Chain(k) /\ Chain(k) = Members(next', ptr'[c])
  BY <1>1, <1>3, <1>4 DEF Chain, Still
<1>7. Positions(c)'
  <2>1. bucket[k] \in Chain(k) \cup {NoBCB}
    BY HeadOf
  <2>2. QED
    BY <1>4, <1>6, <2>1 DEF Positions, Evicting
<1>8. Call(c)'
  <2>1. Page(c) \in PagesOf[c]
    BY DEF FixLookup, Structure, At, Call, Seeking
  <2>2. QED
    BY <1>3, <1>4, <2>1, HeldStill DEF Call, Seeking, Misses, Locating, Opening, Searching
<1>9. QED
  BY <1>3, <1>5, <1>7, <1>8, StillStructure DEF At

LEMMA WalkStructure ==
  ASSUME TypeInv, TypeInv', Structure, Apart, NEW c \in Clients, FixWalk(c)
  PROVE  Structure' /\ Still(c)
<1> USE DEF TypeInv, TypeOK, ClientOK
<1>1. PICK k \in Buckets : k = Hash(Page(c))
  BY HashOK DEF FixWalk, LocalsOK, PageSet, Page
<1> DEFINE b == ptr[c]
<1>2. /\ b \in Chain(k) \cup {NoBCB} /\ c \in bucketS[k]
      /\ \A x \in Chain(k) : pid[x] = Page(c) => x \in Members(next, b)
  BY <1>1 DEF FixWalk, Structure, At, HoldsBucket, Positions
<1>3. BucketsKept(c) /\ BucketLatches'
  <2>1. bucketX' = bucketX
    BY DEF FixWalk
  <2>2. \A h \in Buckets : bucketS'[h] \in {bucketS[h], bucketS[h] \ {c}}
    BY <1>1 DEF FixWalk, TableOK
  <2>3. QED
    BY <2>1, <2>2 DEF BucketsKept, BucketLatches, Structure
<1>4. pc'[c] \in {"walk", "popCheck", "latch"} /\ pc[c] = "walk"
  BY DEF FixWalk, Goto
<1>5. Still(c)
  BY <1>3, <1>4 DEF FixWalk, Goto, Still, OnlyFor, listVars, bcbVars, Searching, Locating
<1>6. Page(c)' = Page(c) /\ held'[c] = held[c] /\ Page(c) \in PagesOf[c]
  BY DEF FixWalk, Page, Structure, At, Call, Seeking
<1>7. \A h \in held[c] : /\ h.page \in PagesOf[c]
                         /\ h.bcb \in Pool' /\ pid'[h.bcb] = h.page
                         /\ frameIndex'[h.bcb] # INVALID
  BY <1>5, HeldStill
<1>8. Pool' = Pool
  BY <1>5, StillLists
<1>9. CASE b = NoBCB
  <2>1. pc'[c] = "popCheck"
    BY <1>9 DEF FixWalk, Goto
  <2>2. \A x \in Pool : pid[x] # Page(c)
    <3>1. Members(next, b) = {}
      BY <1>9, LinksOf, MembersOf DEF Ends
    <3>2. \A x \in Chain(k) : pid[x] # Page(c)
      BY <1>2, <3>1
    <3>3. QED
      BY <1>1, <3>2 DEF Pool, Structure, PagesApart
  <2>3. HoldsBucket(c)' /\ Positions(c)'
    BY <2>1 DEF HoldsBucket, Positions, InBucket, Evicting
  <2>4. Call(c)'
    <3>1. \A h \in held[c] : h.page # Page(c)
      BY <2>2 DEF Structure, At, Call, Seeking
    <3>2. QED
      BY <1>5, <1>6, <1>7, <1>8, <2>1, <2>2, <3>1
      DEF Call, Seeking, Misses, Locating, Opening, Searching, Still
  <2>5. QED
    BY <1>5, <2>3, <2>4, StillStructure DEF At
<1>10. CASE b # NoBCB /\ pid[b] # Page(c)
  <2>1. pc'[c] = "walk" /\ ptr'[c] = next[b] /\ bucketS' = bucketS
    BY <1>10 DEF FixWalk
  <2>2. b \in Chain(k) /\ b \in BCBs /\ next[b] \in Chain(k) \cup {NoBCB}
    BY <1>2, <1>10, NextOf
  <2>3. Members(next, b) = {b} \cup Members(next, next[b])
    BY <2>2, LinksOf, MembersFirst
  <2>4. \A x \in Chain(k) : pid[x] = Page(c) => x \in Members(next, next[b])
    BY <1>2, <1>10, <2>3
  <2>5. Chain(Hash(Page(c)))' = Chain(k)
    BY <1>1, <1>5, <1>6 DEF Chain, Still
  <2>6. HoldsBucket(c)'
    BY <1>1, <1>2, <1>6, <2>1 DEF HoldsBucket, InBucket
  <2>7. Positions(c)'
    BY <1>5, <1>6, <2>1, <2>2, <2>4, <2>5 DEF Positions, Evicting, Still
  <2>8. Call(c)'
    BY <1>6, <1>7, <2>1 DEF Call, Seeking, Misses, Locating, Opening, Searching
  <2>9. QED
    BY <1>5, <2>6, <2>7, <2>8, StillStructure DEF At
<1>11. CASE b # NoBCB /\ pid[b] = Page(c) /\ frameIndex[b] # INVALID
  <2>1. pc'[c] = "latch" /\ ptr'[c] = b
    BY <1>11 DEF FixWalk, Goto
  <2>2. b \in Pool
    BY <1>2, <1>11 DEF Pool
  <2>3. HoldsBucket(c)' /\ Positions(c)'
    BY <2>1 DEF HoldsBucket, Positions, InBucket, Evicting
  <2>4. Call(c)'
    BY <1>5, <1>6, <1>7, <1>8, <1>11, <2>1, <2>2
    DEF Call, Seeking, Misses, Locating, Opening, Searching, Still
  <2>5. QED
    BY <1>5, <2>3, <2>4, StillStructure DEF At
<1>12. QED
  BY <1>9, <1>10, <1>11 DEF FixWalk

(* A step of a call that goes on with the same page. *)
LEMMA SamePage ==
  ASSUME TypeInv, Structure, NEW c \in Clients, Still(c),
         pc[c] \notin {"idle", "flushAll"} \cup Seeking, call' = call, held' = held
  PROVE  /\ Page(c)' = Page(c) /\ Page(c) \in PagesOf[c] /\ Pool' = Pool
         /\ \A h \in held'[c] : /\ h.page \in PagesOf[c] /\ h.page # Page(c)
                                /\ h.bcb \in Pool' /\ pid'[h.bcb] = h.page
                                /\ frameIndex'[h.bcb] # INVALID
<1>1. Page(c)' = Page(c) /\ Page(c) \in PagesOf[c] /\ \A h \in held[c] : h.page # Page(c)
  BY DEF Page, Structure, At, Call, Seeking
<1>2. QED
  BY <1>1, HeldStill, StillLists

LEMMA PopCheckStructure ==
  ASSUME TypeInv, TypeInv', Structure, Apart, Spare, NEW c \in Clients, PopCheck(c)
  PROVE  Structure' /\ Still(c)
<1> USE DEF TypeInv, TypeOK, ClientOK
<1>1. pc'[c] = "pop" /\ pc[c] = "popCheck"
  BY BCBLeft DEF PopCheck, Goto
<1>2. Still(c)
  BY <1>1, BucketsSame
  DEF PopCheck, Goto, Still, OnlyFor, tableVars, listVars, bcbVars, localVars, Searching, Locating
<1>3. call' = call /\ held' = held
  BY DEF PopCheck, localVars
<1>4. HoldsBucket(c)' /\ Positions(c)'
  BY <1>1 DEF HoldsBucket, Positions, InBucket, Evicting
<1>5. \A b \in Pool : pid[b] # Page(c)
  BY <1>1 DEF Structure, At, Call, Seeking, Misses
<1>6. Call(c)'
  BY <1>1, <1>2, <1>3, <1>5, SamePage DEF Call, Seeking, Misses, Locating, Opening, Searching, Still
<1>7. QED
  BY <1>1, <1>2, <1>4, <1>6, StillStructure DEF At

(* The search for a page to replace: the new BCB waits for its frame.       *)
LEMMA Hunting ==
  ASSUME TypeInv, TypeInv', Structure, Apart, NEW c \in Clients, Still(c),
         pc[c] \in Evicting \cup {"getFrame"}, pc'[c] \in Evicting,
         call' = call, held' = held, HoldsBucket(c)', Positions(c)'
  PROVE  Structure'
<1>1. pc[c] \in Searching /\ pc'[c] \in Searching /\ pc[c] \notin {"idle", "flushAll"}
  BY DEF Evicting, Searching, Locating
<1>2. newBCB'[c] = newBCB[c]
  BY <1>1 DEF Still
<1>3. newBCB[c] \in Pool /\ pid[newBCB[c]] = Page(c) /\ frameIndex[newBCB[c]] = INVALID
  BY <1>1, NewInPool DEF Structure
<1>4. Call(c)'
  BY <1>1, <1>2, <1>3, SamePage
  DEF Call, Seeking, Misses, Locating, Opening, Searching, Evicting, Still
<1>5. QED
  BY <1>4, StillStructure DEF At

LEMMA PickStructure ==
  ASSUME TypeInv, TypeInv', Structure, Apart, NEW c \in Clients, NEW k \in Buckets,
         PickBucket(c, k)
  PROVE  Structure' /\ Still(c)
<1> USE DEF TypeInv, TypeOK, ClientOK
<1>1. Still(c)
  BY BucketsSame
  DEF PickBucket, Goto, Still, OnlyFor, tableVars, listVars, bcbVars, Searching, Locating
<1>2. pc[c] = "pick" /\ pc'[c] = "tryBucket" /\ ptr'[c] = bucket'[home'[c]]
  BY DEF PickBucket, Goto, tableVars
<1>3. OneClient
  BY <1>2 DEF Structure, At, Positions, Evicting
<1>4. HoldsBucket(c)' /\ Positions(c)'
  BY <1>2, <1>3 DEF HoldsBucket, Positions, InBucket, Evicting, OneClient
<1>5. QED
  BY <1>1, <1>2, <1>4, Hunting DEF Evicting, PickBucket

LEMMA TryBucketStructure ==
  ASSUME TypeInv, TypeInv', Structure, Apart, NEW c \in Clients, TryBucket(c)
  PROVE  Structure' /\ Still(c)
<1> USE DEF TypeInv, TypeOK, ClientOK
<1>1. pc[c] = "tryBucket" /\ pc'[c] \in {"tryHead", "pick"} /\ home[c] \in Buckets
  BY DEF TryBucket, Goto
<1>2. BucketsKept(c) /\ BucketLatches'
  BY <1>1 DEF TryBucket, BucketsKept, BucketLatches, BucketFree, Structure, TableOK
<1>3. Still(c)
  BY <1>1, <1>2
  DEF TryBucket, Goto, Still, OnlyFor, listVars, bcbVars, localVars, Searching, Locating
<1>4. OneClient /\ ptr[c] = bucket[home[c]]
  BY <1>1 DEF Structure, At, Positions, Evicting
<1>5. pc'[c] = "tryHead" => bucketX'[home[c]] = {c}
  BY <1>1 DEF TryBucket, Goto, TableOK
<1>6. HoldsBucket(c)' /\ Positions(c)'
  BY <1>1, <1>4, <1>5 DEF TryBucket, localVars, HoldsBucket, Positions, InBucket, Evicting, OneClient
<1>7. QED
  BY <1>1, <1>3, <1>6, Hunting DEF Evicting, TryBucket, localVars

LEMMA TryHeadStructure ==
  ASSUME TypeInv, TypeInv', Structure, Apart, NEW c \in Clients, TryHead(c)
  PROVE  Structure' /\ Still(c)
<1> USE DEF TypeInv, TypeOK, ClientOK
<1>1. pc[c] = "tryHead" /\ pc'[c] \in {"lockHead", "tryNext"} /\ home[c] \in Buckets
      /\ (pc'[c] = "lockHead" => victim'[c] = ptr[c])
      /\ ptr' = ptr /\ home' = home /\ ptr[c] \in BCBs
  BY DEF TryHead, Goto, LocalsOK, PtrSet
<1>2. Still(c)
  BY <1>1, BucketsSame
  DEF TryHead, Goto, Still, OnlyFor, tableVars, listVars, bcbVars, Searching, Locating
<1>3. OneClient /\ ptr[c] = bucket[home[c]] /\ bucketX[home[c]] = {c}
  BY <1>1 DEF Structure, At, HoldsBucket, Positions, Evicting, InBucket
<1>4. Chain(home[c])' = Chain(home[c]) /\ ptr[c] \in Chain(home[c])
  BY <1>1, <1>2, <1>3, HeadOf DEF Still, Chain, BCBs, NoBCB
<1>5. HoldsBucket(c)' /\ Positions(c)'
  BY <1>1, <1>3, <1>4
  DEF TryHead, tableVars, HoldsBucket, Positions, InBucket, Evicting, OneClient
<1>6. QED
  BY <1>1, <1>2, <1>5, Hunting DEF Evicting, TryHead

LEMMA TryNextStructure ==
  ASSUME TypeInv, TypeInv', Structure, Apart, NEW c \in Clients, TryNext(c)
  PROVE  Structure' /\ Still(c)
<1> USE DEF TypeInv, TypeOK, ClientOK
<1> DEFINE n == next[ptr[c]]
<1>1. pc[c] = "tryNext" /\ pc'[c] \in {"lockNext", "tryNext", "pick"} /\ home[c] \in Buckets
      /\ home' = home
  BY DEF TryNext, Goto
<1>2. OneClient /\ ptr[c] \in Chain(home[c]) /\ bucketX[home[c]] = {c}
  BY <1>1 DEF Structure, At, HoldsBucket, Positions, Evicting, InBucket
<1>3. BucketsKept(c) /\ BucketLatches'
  BY <1>1, <1>2 DEF TryNext, BucketsKept, BucketLatches, BucketFree, Structure, TableOK
<1>4. Still(c)
  BY <1>1, <1>3
  DEF TryNext, Goto, Still, OnlyFor, listVars, bcbVars, Searching, Locating
<1>5. Chain(home[c])' = Chain(home[c]) /\ n \in Chain(home[c]) \cup {NoBCB}
      /\ next' = next
  BY <1>1, <1>2, <1>4, NextOf DEF Still, Chain
<1>6. /\ pc'[c] # "pick" => bucketX' = bucketX /\ n # NoBCB
      /\ pc'[c] = "tryNext" => ptr'[c] = n
      /\ pc'[c] = "lockNext" => ptr'[c] = ptr[c] /\ victim'[c] = n
  BY <1>1 DEF TryNext, Goto
<1>7. HoldsBucket(c)' /\ Positions(c)'
  BY <1>1, <1>2, <1>5, <1>6 DEF HoldsBucket, Positions, InBucket, Evicting, OneClient
<1>8. QED
  BY <1>1, <1>4, <1>7, Hunting DEF Evicting, TryNext

LEMMA TryVictimStructure ==
  ASSUME TypeInv, TypeInv', Structure, Apart, NEW c \in Clients, TryVictim(c)
  PROVE  Structure' /\ Still(c)
<1> USE DEF TypeInv, TypeOK, ClientOK
<1>1. /\ pc[c] \in {"lockHead", "lockNext"} /\ pc'[c] \in {"evictHead", "evictNext", "tryNext"}
      /\ home[c] \in Buckets /\ ptr[c] \in BCBs /\ victim[c] \in BCBs
      /\ UNCHANGED <<home, victim, next, bucket, bucketX>>
  BY DEF TryVictim, Goto, LocalsOK, PtrSet, VictimSet, tableVars, listVars
<1>2. Still(c)
  BY <1>1, BucketsSame
  DEF TryVictim, Goto, Still, OnlyFor, tableVars, listVars, bcbVars, Searching, Locating
<1>3. /\ OneClient /\ bucketX[home[c]] = {c}
      /\ pc[c] = "lockHead" => victim[c] = bucket[home[c]]
      /\ pc[c] = "lockNext" => ptr[c] \in Chain(home[c]) /\ next[ptr[c]] = victim[c]
  BY <1>1 DEF Structure, At, HoldsBucket, Positions, Evicting, InBucket
<1>4. victim[c] \in Chain(home[c]) /\ Chain(home[c])' = Chain(home[c])
  <2>1. victim[c] # NoBCB BY <1>1, Constants
  <2>2. QED BY <1>1, <1>2, <1>3, <2>1, HeadOf, NextOf DEF Still, Chain
<1>5. /\ pc'[c] = "tryNext" => ptr'[c] = victim[c]
      /\ pc'[c] = "evictHead" => pc[c] = "lockHead"
      /\ pc'[c] = "evictNext" => pc[c] = "lockNext" /\ ptr' = ptr
  BY <1>1 DEF TryVictim, Goto
<1>6. HoldsBucket(c)' /\ Positions(c)'
  BY <1>1, <1>3, <1>4, <1>5 DEF HoldsBucket, Positions, InBucket, Evicting, OneClient
<1>7. QED
  BY <1>1, <1>2, <1>6, Hunting DEF Evicting, TryVictim

(* No step ends the process in an assertion: what it dereferences has a frame. *)
LEMMA NoBadFrame ==
  ASSUME TypeInv, Structure, NEW c \in Clients
  PROVE  ~BadFrame(c)
<1>1. \A b \in BCBs : modified[b] => FrameValid(b)
  BY DEF Structure, PagesApart
<1>2. pc[c] \in {"evictHead", "evictNext"} => victim[c] \in BCBs
  BY DEF TypeInv, LocalsOK, VictimSet
<1>3. pc[c] \in {"read", "emptyLatch"} => FrameValid(newBCB[c])
  BY DEF Structure, At, Call, Seeking, FrameValid
<1>4. todo[c] \in SUBSET BCBs
  BY DEF TypeInv, TypeOK, ClientOK
<1>5. QED
  BY <1>1, <1>2, <1>3, <1>4 DEF BadFrame

LEMMA ReadLatchStructure ==
  ASSUME TypeInv, TypeInv', Structure, Apart, NEW c \in Clients, ReadLatch(c)
  PROVE  Structure' /\ Still(c)
<1> USE DEF TypeInv, TypeOK, ClientOK
<1>1. pc[c] = "readLatch" /\ pc'[c] = "read" /\ call' = call /\ held' = held /\ newBCB' = newBCB
  BY DEF ReadLatch, Goto, localVars
<1>2. Still(c)
  BY <1>1, BucketsSame
  DEF ReadLatch, Goto, Still, OnlyFor, tableVars, listVars, bcbVars, localVars, Searching, Locating
<1>3. HoldsBucket(c)' /\ Positions(c)'
  BY <1>1 DEF HoldsBucket, Positions, InBucket, Evicting
<1>4. newBCB[c] \in Pool /\ pid[newBCB[c]] = Page(c) /\ frameIndex[newBCB[c]] # INVALID
  BY <1>1 DEF Structure, At, Call, Seeking, Opening
<1>5. Call(c)'
  BY <1>1, <1>2, <1>4, SamePage DEF Call, Seeking, Misses, Locating, Opening, Searching, Still
<1>6. QED
  BY <1>2, <1>3, <1>5, StillStructure DEF At

LEMMA ReadStructure ==
  ASSUME TypeInv, TypeInv', Structure, Apart, NEW c \in Clients, Read(c)
  PROVE  Structure' /\ Still(c)
<1> USE DEF TypeInv, TypeOK, ClientOK
<1>1. pc[c] = "read" /\ pc'[c] = "latch" /\ call' = call /\ held' = held /\ ptr'[c] = newBCB[c]
  BY DEF Read, Goto
<1>2. Still(c)
  BY <1>1, BucketsSame
  DEF Read, Goto, Still, OnlyFor, tableVars, listVars, bcbVars, Searching, Locating
<1>3. HoldsBucket(c)' /\ Positions(c)'
  BY <1>1 DEF HoldsBucket, Positions, InBucket, Evicting
<1>4. newBCB[c] \in Pool /\ pid[newBCB[c]] = Page(c) /\ frameIndex[newBCB[c]] # INVALID
  BY <1>1 DEF Structure, At, Call, Seeking, Opening
<1>5. Call(c)'
  BY <1>1, <1>2, <1>4, SamePage DEF Call, Seeking, Misses, Locating, Opening, Searching, Still
<1>6. QED
  BY <1>2, <1>3, <1>5, StillStructure DEF At

(* The call returns, with one more page kept fixed.                         *)
LEMMA Returned ==
  ASSUME TypeInv, TypeInv', Structure, Apart, NEW c \in Clients, Still(c), pc'[c] = "idle",
         NEW b \in Pool, pid[b] = Page(c), frameIndex[b] # INVALID, Page(c) \in PagesOf[c],
         \A h \in held'[c] : h \in held[c] \/ (h.bcb = b /\ h.page = Page(c))
  PROVE  Structure'
<1>1. \A h \in held'[c] : /\ h.page \in PagesOf[c]
                          /\ h.bcb \in Pool' /\ pid'[h.bcb] = h.page
                          /\ frameIndex'[h.bcb] # INVALID
  BY HeldStill, StillLists DEF Still
<1>2. QED
  BY <1>1, AtRest, StillStructure

LEMMA LatchStructure ==
  ASSUME TypeInv, TypeInv', Structure, Apart, NEW c \in Clients, Latch(c)
  PROVE  Structure' /\ Still(c)
<1> USE DEF TypeInv, TypeOK, ClientOK
<1>1. Still(c) /\ pc'[c] = "idle" /\ pc[c] = "latch"
  BY BucketsSame
  DEF Latch, Return, Hold, Goto, Still, OnlyFor, tableVars, listVars, bcbVars, Searching, Locating
<1>2. \A h \in held'[c] : h \in held[c] \/ (h.bcb = ptr[c] /\ h.page = Page(c))
  BY DEF Latch, Hold
<1>3. ptr[c] \in Pool /\ pid[ptr[c]] = Page(c) /\ frameIndex[ptr[c]] # INVALID
      /\ Page(c) \in PagesOf[c]
  BY <1>1 DEF Structure, At, Call, Seeking
<1>4. QED
  BY <1>1, <1>2, <1>3, Returned

LEMMA UpgradeStructure ==
  ASSUME TypeInv, TypeInv', Structure, Apart, NEW c \in Clients, UpgradeAcquire(c)
  PROVE  Structure' /\ Still(c)
<1> USE DEF TypeInv, TypeOK, ClientOK
<1>1. Still(c) /\ pc'[c] = "idle" /\ pc[c] = "upgrade"
  BY BucketsSame
  DEF UpgradeAcquire, Return, Hold, Goto, Still, OnlyFor, tableVars, listVars, bcbVars, Searching, Locating
<1>2. \A h \in held'[c] : h \in held[c] \/ (h.bcb = ptr[c] /\ h.page = Page(c))
  BY DEF UpgradeAcquire, Hold
<1>3. ptr[c] \in Pool /\ pid[ptr[c]] = Page(c) /\ frameIndex[ptr[c]] # INVALID
      /\ Page(c) \in PagesOf[c]
  BY <1>1 DEF Structure, At, Call, Seeking
<1>4. QED
  BY <1>1, <1>2, <1>3, Returned

LEMMA EmptyLatchStructure ==
  ASSUME TypeInv, TypeInv', Structure, Apart, NEW c \in Clients, EmptyLatch(c)
  PROVE  Structure' /\ Still(c)
<1> USE DEF TypeInv, TypeOK, ClientOK
<1>1. pc'[c] = "idle" /\ pc[c] = "emptyLatch" /\ OnlyFor(c)
  BY DEF EmptyLatch, Return, Hold, Goto, OnlyFor
<1>2. \A b \in BCBs : modified'[b] => modified[b] \/ FrameValid(b)
  BY DEF EmptyLatch, BCBOK
<1>3. Still(c)
  BY <1>1, <1>2, BucketsSame DEF EmptyLatch, Still, tableVars, listVars, Searching, Locating
<1>4. \A h \in held'[c] : h \in held[c] \/ (h.bcb = newBCB[c] /\ h.page = Page(c))
  BY DEF EmptyLatch, Hold
<1>5. newBCB[c] \in Pool /\ pid[newBCB[c]] = Page(c) /\ frameIndex[newBCB[c]] # INVALID
      /\ Page(c) \in PagesOf[c]
  BY <1>1 DEF Structure, At, Call, Seeking, Opening
<1>6. QED
  BY <1>1, <1>3, <1>4, <1>5, Returned

LEMMA FlushStructure ==
  ASSUME TypeInv, TypeInv', Structure, Apart, NEW c \in Clients,
         (\E b \in todo[c] : FlushNext(c, b)) \/ FlushDone(c)
  PROVE  Structure' /\ Still(c)
<1> USE DEF TypeInv, TypeOK, ClientOK
<1>1. Still(c) /\ pc'[c] \in {"idle", "flushAll"} /\ held' = held
  <2>1. CASE \E b \in todo[c] : FlushNext(c, b)
    BY <2>1, BucketsSame
    DEF FlushNext, Goto, Still, OnlyFor, tableVars, listVars, bcbVars, Searching, Locating
  <2>2. CASE FlushDone(c)
    BY <2>2, BucketsSame
    DEF FlushDone, Return, Goto, Still, OnlyFor, tableVars, listVars, bcbVars, Searching, Locating
  <2>3. QED
    BY <2>1, <2>2
<1>2. QED
  BY <1>1, HeldStill, AtRest, StillStructure

(* resetBCB: nothing to delete yet. *)
LEMMA ResetHeadStill ==
  ASSUME TypeInv, TypeInv', Structure, Apart, NEW c \in Clients, ResetHead(c),
         NEW k \in Buckets, k = Hash(Page(c)), bucket[k] = NoBCB \/ pid[bucket[k]] # Page(c)
  PROVE  Structure' /\ Still(c)
<1> USE DEF TypeInv, TypeOK, ClientOK
<1>1. CASE bucket[k] = NoBCB
  <2>1. Still(c) /\ pc'[c] = "idle" /\ held' = held
    BY <1>1, BucketsSame
    DEF ResetHead, Return, Goto, Still, OnlyFor, tableVars, listVars, bcbVars, Searching, Locating
  <2>2. QED
    BY <2>1, HeldStill, AtRest, StillStructure
<1>2. CASE bucket[k] # NoBCB /\ pid[bucket[k]] # Page(c)
  <2>1. /\ pc[c] = "reset" /\ pc'[c] = "resetWalk" /\ call' = call /\ held' = held
        /\ ptr'[c] = bucket[k] /\ home'[c] = k /\ bucketX' = [bucketX EXCEPT ![k] = {c}]
        /\ BucketFree(k)
    BY <1>2 DEF ResetHead, Goto
  <2>2. BucketsKept(c) /\ BucketLatches'
    BY <2>1 DEF ResetHead, BucketsKept, BucketLatches, BucketFree, Structure, TableOK
  <2>3. Still(c)
    BY <1>2, <2>1, <2>2
    DEF ResetHead, Goto, Still, OnlyFor, listVars, bcbVars, Searching, Locating
  <2>4. Chain(home[c])' = Chain(k) /\ bucket[k] \in Chain(k) /\ Page(c)' = Page(c)
    BY <1>2, <2>1, <2>3, HeadOf DEF Chain, Still, Page
  <2>5. HoldsBucket(c)' /\ Positions(c)'
    BY <2>1, <2>4 DEF HoldsBucket, Positions, InBucket, Evicting, Hash, TableOK
  <2>6. Call(c)'
    BY <2>1, <2>3, SamePage DEF Call, Seeking, Misses, Locating, Opening, Searching, Still
  <2>7. QED
    BY <2>3, <2>5, <2>6, StillStructure DEF At
<1>3. QED
  BY <1>1, <1>2

LEMMA ResetWalkStill ==
  ASSUME TypeInv, TypeInv', Structure, Apart, NEW c \in Clients, ResetWalk(c),
         next[ptr[c]] = NoBCB \/ pid[next[ptr[c]]] # Page(c)
  PROVE  Structure' /\ Still(c)
<1> USE DEF TypeInv, TypeOK, ClientOK
<1>1. PICK k \in Buckets : k = home[c]
  OBVIOUS
<1>2. /\ pc[c] = "resetWalk" /\ k = Hash(Page(c)) /\ ptr[c] \in Chain(k) /\ bucketX[k] = {c}
  BY <1>1 DEF ResetWalk, Structure, At, Positions, HoldsBucket, InBucket
<1>3. CASE next[ptr[c]] = NoBCB
  <2>1. BucketsKept(c) /\ BucketLatches'
    <3>1. bucketS' = bucketS /\ bucketX' = [bucketX EXCEPT ![k] = {}]
      BY <1>1, <1>2, <1>3 DEF ResetWalk
    <3>2. QED
      BY <1>2, <3>1 DEF BucketsKept, BucketLatches, Structure, TableOK
  <2>2. Still(c) /\ pc'[c] = "idle" /\ held' = held
    BY <1>3, <2>1
    DEF ResetWalk, Return, Goto, Still, OnlyFor, tableVars, listVars, bcbVars, Searching, Locating
  <2>3. QED
    BY <2>2, HeldStill, AtRest, StillStructure
<1>4. CASE next[ptr[c]] # NoBCB /\ pid[next[ptr[c]]] # Page(c)
  <2>1. Still(c) /\ pc'[c] = "resetWalk" /\ call' = call /\ held' = held /\ home' = home
        /\ ptr'[c] = next[ptr[c]] /\ bucketX' = bucketX
    BY <1>4, BucketsSame
    DEF ResetWalk, Goto, Still, OnlyFor, tableVars, listVars, bcbVars, Searching, Locating
  <2>2. next[ptr[c]] \in Chain(k)
    BY <1>2, <1>4, NextOf
  <2>3. Chain(home[c])' = Chain(k) /\ Page(c)' = Page(c)
    BY <1>1, <2>1 DEF Chain, Still, Page
  <2>4. HoldsBucket(c)' /\ Positions(c)'
    BY <1>1, <1>2, <2>1, <2>2, <2>3 DEF HoldsBucket, Positions, InBucket, Evicting, Hash
  <2>5. Call(c)'
    BY <1>2, <2>1, SamePage DEF Call, Seeking, Misses, Locating, Opening, Searching
  <2>6. QED
    BY <2>1, <2>4, <2>5, StillStructure DEF At
<1>5. QED
  BY <1>3, <1>4

(* The steps that change no chain and no BCB of a chain. *)
LEMMA SamePool ==
  ASSUME TypeInv, TypeInv', Structure, Apart, NEW c \in Clients,
         OnlyFor(c), BucketsKept(c), BucketLatches', Lists', bucket' = bucket,
         \A h \in Buckets : Chain(h)' = Chain(h),
         \A b \in Pool : next'[b] = next[b] /\ pid'[b] = pid[b] /\ frameIndex'[b] = frameIndex[b],
         \A d \in Clients \ {c} : \A b \in Taken(d) :
           pid'[b] = pid[b] /\ frameIndex'[b] = frameIndex[b],
         \A b \in BCBs : modified'[b] => FrameValid(b)', freeFrames' = freeFrames,
         pc[c] \notin {"resetNext", "place"} \cup Searching,
         pc'[c] \notin {"resetNext", "place"}, At(c)'
  PROVE  Structure'
<1>1. Pool' = Pool
  BY DEF Pool
<1>2. ChainsOfOthers(c)
  BY DEF ChainsOfOthers, Pool
<1>3. PagesOfOthers(c)
  BY <1>1 DEF PagesOfOthers
<1>4. PagesApart'
  <2>1. \A h \in Buckets : \A b \in Chain(h)' : pid'[b] \in Pages /\ Hash(pid'[b]) = h
    BY DEF Structure, PagesApart, Pool
  <2>2. \A b, d \in Pool' : pid'[b] = pid'[d] => b = d
    BY <1>1 DEF Structure, PagesApart
  <2>3. \A b \in Pool' : frameIndex'[b] = INVALID =>
          \E d \in Clients : pc'[d] \in Searching /\ newBCB'[d] = b
    BY <1>1 DEF Structure, PagesApart, OnlyFor
  <2>4. QED
    BY <2>1, <2>2, <2>3 DEF PagesApart, Hash
<1>5. FramesApart'
  <2>1. \A d \in Clients : /\ pc'[d] = "resetNext" <=> pc[d] = "resetNext"
                           /\ pc'[d] = "resetNext" => victim'[d] = victim[d]
                           /\ pc'[d] = "place" <=> pc[d] = "place"
    BY DEF OnlyFor
  <2>2. BeingDeleted' = BeingDeleted /\ Moving' = Moving
    BY <2>1 DEF BeingDeleted, Moving
  <2>3. Placed' = Placed /\ \A b \in Placed : frameIndex'[b] = frameIndex[b]
    BY <1>1, <2>2 DEF Placed, FrameValid
  <2>4. \A d \in Moving : got'[d] = got[d]
    BY DEF Moving, OnlyFor
  <2>5. QED
    BY <2>2, <2>3, <2>4, FramesSame DEF Structure
<1>6. QED
  BY <1>2, <1>3, <1>4, <1>5, Assemble

LEMMA PopStructure ==
  ASSUME TypeInv, TypeInv', Structure, Apart, Spare, NEW c \in Clients, Pop(c)
  PROVE  Structure' /\ Pool' = Pool
<1> USE DEF TypeInv, TypeOK, ClientOK
<1>1. freeBCBs # NoBCB /\ pc[c] = "pop" /\ pc'[c] = "claim" /\ freeBCBs \in BCBs
  BY BCBLeft, LinksOf DEF Pop, Goto, Ends
<1>2. Lists' /\ freeBCBs \in Free /\ \A h \in Buckets : Chain(h)' = Chain(h)
  BY <1>1, PopLists DEF Structure
<1>3. Pool' = Pool
  BY <1>2 DEF Pool
<1>4. \A b \in BCBs \ {freeBCBs} : next'[b] = next[b]
  BY <1>1 DEF Pop, ListOK
<1>5. \A b \in Pool : next'[b] = next[b]
  BY <1>2, <1>4, PoolBCBs DEF Structure, Lists, ListsApart, Pool
<1>6. OnlyFor(c) /\ UNCHANGED <<bucket, bucketX, bucketS, pid, frameIndex, modified, freeFrames, call, held>>
  BY DEF Pop, Goto, OnlyFor, tableVars, bcbVars
<1>7. At(c)'
  <2>1. HoldsBucket(c)' /\ Positions(c)'
    BY <1>1 DEF HoldsBucket, Positions, InBucket, Evicting
  <2>2. Call(c)
    BY DEF Structure, At
  <2>3. Call(c)'
    BY <1>1, <1>3, <1>6, <2>2 DEF Call, Seeking, Misses, Locating, Opening, Searching, Page
  <2>4. QED
    BY <2>1, <2>3 DEF At
<1>8. \A b \in BCBs : modified'[b] => FrameValid(b)'
  BY <1>6 DEF Structure, PagesApart, FrameValid
<1>9. pc[c] \notin {"resetNext", "place"} \cup Searching
  BY <1>1 DEF Searching, Locating
<1>10. Structure'
  BY <1>1, <1>2, <1>5, <1>6, <1>7, <1>8, <1>9, BucketsSame, SamePool
<1>11. QED
  BY <1>3, <1>1, <1>10

LEMMA ClaimStructure ==
  ASSUME TypeInv, TypeInv', Structure, Apart, NEW c \in Clients, Claim(c)
  PROVE  Structure' /\ Pool' = Pool
<1> USE DEF TypeInv, TypeOK, ClientOK
<1> DEFINE n == newBCB[c]
<1>1. pc[c] = "claim" /\ pc'[c] = "link" /\ n \in BCBs /\ Taken(c) = {n}
  BY DEF Claim, Goto, LocalsOK, NewSet, Taken
<1>2. Lists' /\ \A h \in Buckets : Chain(h)' = Chain(h)
  BY ClaimLists DEF Structure
<1>3. Pool' = Pool
  BY <1>2 DEF Pool
<1>4. \A b \in BCBs \ {n} : next'[b] = next[b] /\ pid'[b] = pid[b] /\ frameIndex'[b] = frameIndex[b]
                            /\ modified'[b] = modified[b]
  BY DEF Claim, ListOK, BCBOK
<1>5. n \notin Pool /\ \A d \in Clients \ {c} : n \notin Taken(d)
  <2>1. n \notin Pool
    BY <1>1 DEF Structure, Lists, ListsApart, Pool
  <2>2. \A d \in Clients \ {c} : Taken(c) \cap Taken(d) = {}
    BY DEF Structure, Lists, ListsApart
  <2>3. QED
    BY <1>1, <2>1, <2>2
<1>6. OnlyFor(c) /\ UNCHANGED <<bucket, bucketX, bucketS, freeFrames, call, held, newBCB>>
      /\ pid'[n] = Page(c) /\ frameIndex'[n] = INVALID /\ ~modified'[n]
  BY <1>1 DEF Claim, Goto, OnlyFor, tableVars, localVars, BCBOK
<1>7. \A b \in Pool : next'[b] = next[b] /\ pid'[b] = pid[b] /\ frameIndex'[b] = frameIndex[b]
  BY <1>4, <1>5, PoolBCBs
<1>8. \A d \in Clients \ {c} : Taken(d) \subseteq BCBs
  BY DEF Taken, LocalsOK, NewSet, VictimSet, Locating
<1>9. At(c)'
  <2>1. HoldsBucket(c)' /\ Positions(c)'
    BY <1>1 DEF HoldsBucket, Positions, InBucket, Evicting
  <2>2. Call(c)
    BY DEF Structure, At
  <2>3. Call(c)'
    BY <1>1, <1>3, <1>6, <1>7, <2>2 DEF Call, Seeking, Misses, Locating, Opening, Searching, Page
  <2>4. QED
    BY <2>1, <2>3 DEF At
<1>10. \A b \in BCBs : modified'[b] => FrameValid(b)'
  BY <1>4, <1>6 DEF Structure, PagesApart, FrameValid
<1>11. pc[c] \notin {"resetNext", "place"} \cup Searching
  BY <1>1 DEF Searching, Locating
<1>12. \A d \in Clients \ {c} : \A b \in Taken(d) : pid'[b] = pid[b] /\ frameIndex'[b] = frameIndex[b]
  BY <1>4, <1>5, <1>8
<1>13. BucketsKept(c) /\ BucketLatches'
  BY <1>6, BucketsSame
<1>14. QED
  BY <1>3, <1>1, <1>2, <1>6, <1>7, <1>9, <1>10, <1>11, <1>12, <1>13, SamePool

LEMMA LinkStructure ==
  ASSUME TypeInv, TypeInv', Structure, Apart, NEW c \in Clients, Link(c)
  PROVE  Structure' /\ Pool' = {newBCB[c]} \cup Pool
<1> USE DEF TypeInv, TypeOK, ClientOK
<1> DEFINE n == newBCB[c]
<1>0. PICK k \in Buckets : k = Hash(Page(c))
  BY HashOK DEF Link, LocalsOK, PageSet, Locating, Page
<1>1. pc[c] = "link" /\ pc'[c] = "getFrame" /\ n \in BCBs /\ Taken(c) = {n} /\ BucketFree(k)
  BY <1>0 DEF Link, Goto, LocalsOK, NewSet, Taken, Locating
<1>2. Lists' /\ Chain(k)' = {n} \cup Chain(k) /\ \A h \in Buckets \ {k} : Chain(h)' = Chain(h)
  BY <1>0, LinkLists DEF Structure
<1>3. Pool' = {n} \cup Pool
  BY <1>2 DEF Pool
<1>4. \A b \in BCBs \ {n} : next'[b] = next[b]
  BY DEF Link, ListOK
<1>5. n \notin Pool
  BY <1>1 DEF Structure, Lists, ListsApart, Pool
<1>6. /\ OnlyFor(c)
      /\ UNCHANGED <<bucketX, bucketS, pid, frameIndex, modified, freeFrames, call, held, newBCB>>
      /\ \A h \in Buckets \ {k} : bucket'[h] = bucket[h]
  BY <1>0 DEF Link, Goto, OnlyFor, bcbVars, localVars, TableOK
<1>7. /\ pid[n] = Page(c) /\ frameIndex[n] = INVALID /\ Page(c) \in PagesOf[c] /\ Page(c) \in Pages
      /\ \A b \in Pool : pid[b] # Page(c)
  BY <1>1, BufferAssumption DEF Structure, At, Call, Seeking, Misses, Locating
<1>8. ChainsOfOthers(c)
  <2>1. \A h \in Buckets : \A d \in Clients \ {c} : d \in bucketX[h] \cup bucketS[h] => h # k
    BY <1>1 DEF BucketFree
  <2>2. \A h \in Buckets : \A b \in Chain(h) : b \in BCBs \ {n}
    BY <1>5, LinksOf DEF Pool
  <2>3. QED
    BY <1>2, <1>4, <1>6, <2>1, <2>2 DEF ChainsOfOthers
<1>9. PagesOfOthers(c)
  BY <1>3, <1>6, <1>7 DEF PagesOfOthers
<1>10. PagesApart'
  <2>1. \A h \in Buckets : \A b \in Chain(h)' : pid'[b] \in Pages /\ Hash(pid'[b]) = h
    BY <1>0, <1>2, <1>6, <1>7 DEF Structure, PagesApart
  <2>2. \A b, d \in Pool' : pid'[b] = pid'[d] => b = d
    BY <1>3, <1>6, <1>7 DEF Structure, PagesApart
  <2>3. \A b \in Pool' : frameIndex'[b] = INVALID =>
          \E d \in Clients : pc'[d] \in Searching /\ newBCB'[d] = b
    <3>1. pc'[c] \in Searching /\ pc[c] \notin Searching
      BY <1>1 DEF Searching, Locating
    <3>2. QED
      BY <1>3, <1>6, <3>1 DEF Structure, PagesApart, OnlyFor
  <2>4. \A b \in BCBs : modified'[b] => FrameValid(b)'
    BY <1>6 DEF Structure, PagesApart, FrameValid
  <2>5. QED
    BY <2>1, <2>2, <2>3, <2>4 DEF PagesApart, Hash
<1>11. FramesApart'
  <2>1. \A d \in Clients : /\ pc'[d] = "resetNext" <=> pc[d] = "resetNext"
                           /\ pc'[d] = "resetNext" => victim'[d] = victim[d]
                           /\ pc'[d] = "place" <=> pc[d] = "place"
    BY <1>1, <1>6 DEF OnlyFor
  <2>2. BeingDeleted' = BeingDeleted /\ Moving' = Moving
    BY <2>1 DEF BeingDeleted, Moving
  <2>3. Placed' = Placed
    BY <1>3, <1>6, <1>7, <2>2 DEF Placed, FrameValid
  <2>4. \A d \in Moving : got'[d] = got[d]
    BY <1>1, <1>6 DEF Moving, OnlyFor
  <2>5. QED
    BY <1>6, <2>2, <2>3, <2>4, FramesSame DEF Structure
<1>12. At(c)'
  <2>1. HoldsBucket(c)' /\ Positions(c)'
    BY <1>1 DEF HoldsBucket, Positions, InBucket, Evicting
  <2>2. Call(c)
    BY DEF Structure, At
  <2>3. Call(c)'
    BY <1>1, <1>3, <1>6, <1>7, <2>2 DEF Call, Seeking, Misses, Locating, Opening, Searching, Page
  <2>4. QED
    BY <2>1, <2>3 DEF At
<1>13. BucketsKept(c) /\ BucketLatches'
  BY <1>6, BucketsSame
<1>14. QED
  BY <1>3, <1>2, <1>6, <1>8, <1>9, <1>10, <1>11, <1>12, <1>13, Assemble

LEMMA FreeFramePopped ==
  ASSUME ListOK, Len(freeFrames) > 0, freeFrames' = SubSeq(freeFrames, 1, Len(freeFrames) - 1),
         \A i, j \in DOMAIN freeFrames : freeFrames[i] = freeFrames[j] => i = j
  PROVE  LET f == freeFrames[Len(freeFrames)] IN
         /\ f \in FreeFrame /\ FreeFrame' = FreeFrame \ {f}
         /\ \A i, j \in DOMAIN freeFrames' : freeFrames'[i] = freeFrames'[j] => i = j
<1> DEFINE n == Len(freeFrames)
<1>1. n \in Nat \ {0} /\ DOMAIN freeFrames = 1 .. n
  BY DEF ListOK
<1>2. DOMAIN freeFrames' = 1 .. n - 1 /\ \A i \in 1 .. n - 1 : freeFrames'[i] = freeFrames[i]
  BY <1>1 DEF ListOK
<1> HIDE DEF n
<1>3. FreeFrame' = FreeFrame \ {freeFrames[n]}
  <2>1. \A x : x \in FreeFrame <=> \E i \in 1 .. n : x = freeFrames[i]
    BY <1>1 DEF FreeFrame
  <2>2. \A x : x \in FreeFrame' <=> \E i \in 1 .. n - 1 : x = freeFrames'[i]
    BY <1>2 DEF FreeFrame
  <2>3. n \in 1 .. n /\ \A i \in 1 .. n : i = n \/ i \in 1 .. n - 1
    BY <1>1
  <2>4. \A i \in 1 .. n - 1 : i \in 1 .. n /\ i # n
    BY <1>1
  <2>5. \A i \in 1 .. n - 1 : freeFrames[i] # freeFrames[n]
    BY <1>1, <2>3, <2>4
  <2>6. \A x : x \in FreeFrame' <=> x \in FreeFrame /\ x # freeFrames[n]
    BY <1>2, <2>1, <2>2, <2>3, <2>4, <2>5
  <2>7. QED
    BY <2>6
<1>4. \A i \in 1 .. n - 1 : i \in 1 .. n
  BY <1>1
<1>5. n \in 1 .. n
  BY <1>1
<1>6. freeFrames[n] \in FreeFrame
  BY <1>1, <1>5 DEF FreeFrame
<1>7. \A i, j \in DOMAIN freeFrames' : freeFrames'[i] = freeFrames'[j] => i = j
  BY <1>1, <1>2, <1>4
<1>8. QED
  BY <1>3, <1>6, <1>7 DEF n

LEMMA FreeFramePushed ==
  ASSUME ListOK, NEW f, freeFrames' = Append(freeFrames, f), f \notin FreeFrame,
         \A i, j \in DOMAIN freeFrames : freeFrames[i] = freeFrames[j] => i = j
  PROVE  /\ FreeFrame' = FreeFrame \cup {f}
         /\ \A i, j \in DOMAIN freeFrames' : freeFrames'[i] = freeFrames'[j] => i = j
<1> DEFINE n == Len(freeFrames)
<1>1. n \in Nat /\ DOMAIN freeFrames = 1 .. n
  BY DEF ListOK
<1>2. DOMAIN freeFrames' = 1 .. n + 1 /\ freeFrames'[n + 1] = f
      /\ \A i \in 1 .. n : freeFrames'[i] = freeFrames[i]
  BY <1>1 DEF ListOK
<1>3. \A i \in 1 .. n + 1 : i \in 1 .. n \/ i = n + 1
  BY <1>1
<1>4. FreeFrame' = FreeFrame \cup {f}
  BY <1>1, <1>2, <1>3 DEF FreeFrame
<1>5. QED
  BY <1>1, <1>2, <1>3, <1>4 DEF FreeFrame

LEMMA PopFrameStructure ==
  ASSUME TypeInv, TypeInv', Structure, Apart, NEW c \in Clients, PopFrame(c)
  PROVE  Structure' /\ Pool' = Pool
<1> USE DEF TypeInv, TypeOK, ClientOK
<1>1. pc[c] = "getFrame" /\ pc'[c] \in {"place", "pick"} /\ Len(freeFrames) \in Nat
      /\ call' = call /\ held' = held /\ newBCB' = newBCB
  BY DEF PopFrame, Goto, ListOK
<1>2. CASE Len(freeFrames) = 0
  <2>1. Still(c) /\ pc'[c] = "pick"
    BY <1>2, BucketsSame
    DEF PopFrame, Goto, Still, OnlyFor, tableVars, bcbVars, Searching, Locating
  <2>2. OneClient
    BY <1>1, <1>2, FrameLeft
  <2>3. HoldsBucket(c)' /\ Positions(c)'
    BY <2>1, <2>2 DEF HoldsBucket, Positions, InBucket, Evicting, OneClient
  <2>4. QED
    BY <1>1, <2>1, <2>3, Hunting, StillLists DEF Evicting, Pool, OneClient
<1>3. CASE Len(freeFrames) > 0
  <2> DEFINE f == freeFrames[Len(freeFrames)]
  <2>1. /\ pc'[c] = "place" /\ got'[c] = f
        /\ freeFrames' = SubSeq(freeFrames, 1, Len(freeFrames) - 1)
        /\ OnlyFor(c)
        /\ UNCHANGED <<bucket, bucketX, bucketS, next, freeBCBs, pid, frameIndex, modified>>
    BY <1>3 DEF PopFrame, Goto, OnlyFor, tableVars, bcbVars
  <2>2. \A d \in Clients : Taken(d)' = Taken(d)
    <3>1. Taken(c) = {} /\ Taken(c)' = {}
      BY <1>1, <2>1 DEF Taken
    <3>2. QED
      BY <2>1, <3>1 DEF OnlyFor, Taken
  <2>3. Lists' /\ \A h \in Buckets : Chain(h)' = Chain(h)
    BY <2>1, <2>2, SameLists DEF Structure
  <2>4. Pool' = Pool
    BY <2>3 DEF Pool
  <2>5. ChainsOfOthers(c) /\ PagesOfOthers(c)
    BY <2>1, <2>3, <2>4 DEF ChainsOfOthers, PagesOfOthers
  <2>6. PagesApart'
    <3>1. pc[c] \in Searching /\ pc'[c] \in Searching
      BY <1>1, <2>1 DEF Searching, Locating
    <3>2. \A b \in Pool' : frameIndex'[b] = INVALID =>
            \E d \in Clients : pc'[d] \in Searching /\ newBCB'[d] = b
      BY <1>1, <2>1, <2>4, <3>1 DEF Structure, PagesApart, OnlyFor
    <3>3. QED
      BY <2>1, <2>3, <2>4, <3>2 DEF Structure, PagesApart, Hash, FrameValid
  <2>7. FramesApart'
    <3>1. Moving' = Moving \cup {c} /\ c \notin Moving /\ \A d \in Moving : got'[d] = got[d]
      BY <1>1, <2>1 DEF Moving, OnlyFor
    <3>2. BeingDeleted' = BeingDeleted
      <4>1. \A d \in Clients : /\ pc'[d] = "resetNext" <=> pc[d] = "resetNext"
                               /\ pc'[d] = "resetNext" => victim'[d] = victim[d]
        BY <1>1, <2>1 DEF OnlyFor
      <4>2. QED
        BY <4>1 DEF BeingDeleted
    <3>3. Placed' = Placed
      BY <2>1, <2>4, <3>2 DEF Placed, FrameValid
    <3>4. /\ f \in FreeFrame /\ FreeFrame' = FreeFrame \ {f}
          /\ \A i, j \in DOMAIN freeFrames' : freeFrames'[i] = freeFrames'[j] => i = j
      BY <1>3, <2>1, FreeFramePopped DEF Structure, FramesApart
    <3> HIDE DEF f
    <3>5. \A d \in Moving' : /\ got'[d] \in Frames /\ got'[d] \notin FreeFrame'
                             /\ \A b \in Placed' : frameIndex'[b] # got'[d]
                             /\ \A e \in Moving' : got'[d] = got'[e] => d = e
      BY <2>1, <3>1, <3>3, <3>4 DEF Structure, FramesApart
    <3>6. \A x \in Frames : \/ x \in FreeFrame'
                            \/ \E b \in Placed' : frameIndex'[b] = x
                            \/ \E d \in Moving' : got'[d] = x
      BY <2>1, <3>1, <3>3, <3>4 DEF Structure, FramesApart
    <3>7. QED
      BY <2>1, <3>3, <3>4, <3>5, <3>6 DEF Structure, FramesApart
  <2>8. At(c)'
    <3>1. HoldsBucket(c)' /\ Positions(c)'
      BY <2>1 DEF HoldsBucket, Positions, InBucket, Evicting
    <3>2. Call(c)
      BY DEF Structure, At
    <3>3. Call(c)'
      BY <1>1, <2>1, <2>4, <3>2 DEF Call, Seeking, Misses, Locating, Opening, Searching, Page
    <3>4. QED
      BY <3>1, <3>3 DEF At
  <2>9. BucketsKept(c) /\ BucketLatches'
    BY <2>1, BucketsSame
  <2>10. QED
    BY <2>4, <2>1, <2>3, <2>5, <2>6, <2>7, <2>8, <2>9, Assemble
<1>4. QED
  BY <1>1, <1>2, <1>3

(* Two clients never work on the same page. *)
LEMMA OnePage ==
  ASSUME Apart, NEW c \in Clients, NEW d \in Clients, NEW p \in PagesOf[c], p \in PagesOf[d]
  PROVE  c = d
  BY DEF Apart, OneClient, NoSharing

LEMMA MyPage ==
  ASSUME Structure, NEW c \in Clients, pc[c] \notin {"idle", "flushAll"}
  PROVE  Page(c) \in PagesOf[c] /\ (pc[c] \notin Seeking => \A h \in held[c] : h.page # Page(c))
  BY DEF Structure, At, Call

(* What is being deleted is still in the pool, under the page of its call.  *)
LEMMA VictimInPool ==
  ASSUME TypeInv, Structure, NEW c \in Clients, pc[c] = "resetNext"
  PROVE  /\ victim[c] \in Pool /\ pid[victim[c]] = Page(c) /\ victim[c] \in Chain(home[c])
         /\ ptr[c] \in Chain(home[c]) /\ next[ptr[c]] = victim[c] /\ victim[c] \in BCBs
         /\ home[c] \in Buckets
<1>1. victim[c] \in BCBs /\ ptr[c] \in Chain(home[c]) /\ next[ptr[c]] = victim[c]
      /\ home[c] \in Buckets
  BY DEF Structure, At, Positions, TypeInv, TypeOK, ClientOK, LocalsOK, VictimSet
<1>2. victim[c] \in Chain(home[c])
  BY <1>1, NextOf DEF BCBs, NoBCB
<1>3. QED
  BY <1>1, <1>2 DEF Pool, Structure, At, Call, Seeking

(* The BCB of the page a call deletes has a frame, and nobody else deletes it. *)
LEMMA MineIsPlaced ==
  ASSUME TypeInv, Structure, Apart, NEW c \in Clients,
         pc[c] \notin {"idle", "flushAll", "resetNext"} \cup Searching,
         NEW b \in Pool, pid[b] = Page(c)
  PROVE  b \in Placed
<1>1. Page(c) \in PagesOf[c]
  BY MyPage
<1>2. b \notin BeingDeleted
  <2> SUFFICES ASSUME NEW d \in Clients, pc[d] = "resetNext", victim[d] = b PROVE FALSE
    BY DEF BeingDeleted
  <2>1. Page(d) = Page(c) /\ Page(d) \in PagesOf[d]
    BY VictimInPool, MyPage
  <2>2. QED
    BY <1>1, <2>1, OnePage
<1>3. FrameValid(b)
  <2> SUFFICES ASSUME frameIndex[b] = INVALID PROVE FALSE
    BY DEF FrameValid
  <2>1. PICK d \in Clients : pc[d] \in Searching /\ newBCB[d] = b
    BY DEF Structure, PagesApart
  <2>2. Page(d) = Page(c) /\ Page(d) \in PagesOf[d]
    BY <2>1, NewInPool DEF Structure
  <2>3. QED
    BY <1>1, <2>1, <2>2, OnePage
<1>4. QED
  BY <1>2, <1>3 DEF Placed

LEMMA FramesFreed ==
  ASSUME TypeInv, FramesApart, NEW b \in Placed, PushFrame(b), Placed' = Placed \ {b},
         frameIndex' = frameIndex, Moving' = Moving, \A d \in Moving : got'[d] = got[d],
         b \in BCBs
  PROVE  FramesApart'
<1> DEFINE f == frameIndex[b]
<1>1. f \notin FreeFrame /\ f \in Frames /\ ListOK
  BY DEF FramesApart, Placed, FrameValid, TypeInv, TypeOK, BCBOK
<1>2. freeFrames' = Append(freeFrames, f)
  BY DEF PushFrame
<1>3. \A i, j \in DOMAIN freeFrames : freeFrames[i] = freeFrames[j] => i = j
  BY DEF FramesApart
<1> HIDE DEF f
<1>4. /\ FreeFrame' = FreeFrame \cup {f}
      /\ \A i, j \in DOMAIN freeFrames' : freeFrames'[i] = freeFrames'[j] => i = j
  BY <1>1, <1>2, <1>3, FreeFramePushed
<1>5. \A d \in Moving : got[d] # f
  BY DEF FramesApart, f
<1>6. \A d \in Placed \ {b} : frameIndex[d] # f
  BY DEF FramesApart, f
<1>7. \A d \in Moving' : /\ got'[d] \in Frames /\ got'[d] \notin FreeFrame'
                         /\ \A x \in Placed' : frameIndex'[x] # got'[d]
                         /\ \A e \in Moving' : got'[d] = got'[e] => d = e
  BY <1>4, <1>5 DEF FramesApart
<1>8. \A x \in Frames : \/ x \in FreeFrame'
                        \/ \E d \in Placed' : frameIndex'[d] = x
                        \/ \E d \in Moving' : got'[d] = x
  <2> SUFFICES ASSUME NEW x \in Frames, x # f
               PROVE  \/ x \in FreeFrame'
                      \/ \E d \in Placed' : frameIndex'[d] = x
                      \/ \E d \in Moving' : got'[d] = x
    BY <1>4
  <2>1. CASE x \in FreeFrame
    BY <1>4, <2>1
  <2>2. CASE \E d \in Placed : frameIndex[d] = x
    BY <2>2 DEF f
  <2>3. CASE \E d \in Moving : got[d] = x
    BY <2>3
  <2>4. QED
    BY <2>1, <2>2, <2>3 DEF FramesApart
<1>9. QED
  BY <1>1, <1>4, <1>6, <1>7, <1>8 DEF FramesApart

LEMMA PlaceStructure ==
  ASSUME TypeInv, TypeInv', Structure, Apart, NEW c \in Clients, Place(c)
  PROVE  Structure' /\ Pool' = Pool
<1> USE DEF TypeInv, TypeOK, ClientOK
<1> DEFINE n == newBCB[c]
<1>1. pc[c] = "place" /\ pc'[c] \in {"readLatch", "emptyLatch"} /\ n \in BCBs
  BY DEF Place, Goto, LocalsOK, NewSet, Locating
<1>2. /\ OnlyFor(c)
      /\ UNCHANGED <<bucket, bucketX, bucketS, next, freeBCBs, freeFrames, pid, modified,
                     call, held, newBCB, got, victim>>
      /\ frameIndex'[n] = got[c] /\ \A b \in BCBs \ {n} : frameIndex'[b] = frameIndex[b]
  BY <1>1 DEF Place, Goto, OnlyFor, tableVars, listVars, localVars, BCBOK
<1>3. n \in Pool /\ pid[n] = Page(c) /\ frameIndex[n] = INVALID /\ Page(c) \in PagesOf[c]
  BY <1>1, NewInPool DEF Structure, Searching, Locating
<1>4. got[c] \in Frames /\ got[c] # INVALID
  BY <1>1, Constants DEF Structure, FramesApart, Moving
<1>5. \A d \in Clients : Taken(d)' = Taken(d)
  <2>1. Taken(c) = {} /\ Taken(c)' = {}
    BY <1>1 DEF Taken
  <2>2. QED
    BY <1>2, <2>1 DEF OnlyFor, Taken
<1>6. Lists' /\ \A h \in Buckets : Chain(h)' = Chain(h)
  BY <1>2, <1>5, SameLists DEF Structure
<1>7. Pool' = Pool
  BY <1>6 DEF Pool
<1>8. ChainsOfOthers(c)
  BY <1>2, <1>6 DEF ChainsOfOthers
<1>9. PagesOfOthers(c)
  <2>1. \A d \in Clients \ {c} : \A b \in Taken(d) : b \in BCBs \ {n}
    <3>1. \A d \in Clients : \A b \in Taken(d) : b \notin Pool
      BY DEF Structure, Lists, ListsApart, Pool
    <3>2. \A d \in Clients : Taken(d) \subseteq BCBs
      BY DEF Taken, LocalsOK, NewSet, VictimSet, Locating
    <3>3. QED
      BY <1>3, <3>1, <3>2
  <2>2. QED
    BY <1>2, <1>3, <1>7, <2>1, PoolBCBs DEF PagesOfOthers
<1>10. PagesApart'
  <2>1. \A b \in Pool' : frameIndex'[b] = INVALID =>
          \E d \in Clients : pc'[d] \in Searching /\ newBCB'[d] = b
    <3> SUFFICES ASSUME NEW b \in Pool, frameIndex'[b] = INVALID
                 PROVE  \E d \in Clients : pc'[d] \in Searching /\ newBCB'[d] = b
      BY <1>7
    <3>1. b # n /\ frameIndex[b] = INVALID
      BY <1>2, <1>4, PoolBCBs
    <3>2. PICK d \in Clients : pc[d] \in Searching /\ newBCB[d] = b
      BY <3>1 DEF Structure, PagesApart
    <3>3. d # c
      BY <3>1, <3>2
    <3>4. QED
      BY <1>2, <3>2, <3>3 DEF OnlyFor
  <2>2. \A b \in BCBs : modified'[b] => FrameValid(b)'
    BY <1>2, <1>4 DEF Structure, PagesApart, FrameValid
  <2>3. QED
    BY <1>2, <1>6, <1>7, <2>1, <2>2 DEF Structure, PagesApart, Hash
<1>11. FramesApart'
  <2>1. BeingDeleted' = BeingDeleted
    <3>1. \A d \in Clients : pc'[d] = "resetNext" <=> pc[d] = "resetNext"
      BY <1>1, <1>2 DEF OnlyFor
    <3>2. QED
      BY <1>2, <3>1 DEF BeingDeleted
  <2>2. n \notin BeingDeleted
    <3> SUFFICES ASSUME NEW d \in Clients, pc[d] = "resetNext", victim[d] = n PROVE FALSE
      BY DEF BeingDeleted
    <3>1. Page(d) = Page(c) /\ Page(d) \in PagesOf[d]
      BY <1>3, VictimInPool, MyPage
    <3>2. QED
      BY <1>1, <1>3, <3>1, OnePage
  <2>3. Placed' = Placed \cup {n} /\ n \notin Placed
    BY <1>2, <1>3, <1>4, <1>7, <2>1, <2>2, PoolBCBs DEF Placed, FrameValid
  <2>4. Moving' = Moving \ {c} /\ c \in Moving
    BY <1>1, <1>2 DEF Moving, OnlyFor
  <2>5. FreeFrame' = FreeFrame
    BY <1>2 DEF FreeFrame
  <2>6. \A b \in Placed : b \in BCBs \ {n}
    BY <2>3, PoolBCBs DEF Placed
  <2>7. \A b, d \in Placed' : frameIndex'[b] = frameIndex'[d] => b = d
    BY <1>2, <2>3, <2>4, <2>6 DEF Structure, FramesApart
  <2>8. \A b \in Placed' : frameIndex'[b] \notin FreeFrame'
    BY <1>2, <2>3, <2>4, <2>5, <2>6 DEF Structure, FramesApart
  <2>9. \A d \in Moving' : /\ got'[d] \in Frames /\ got'[d] \notin FreeFrame'
                           /\ \A b \in Placed' : frameIndex'[b] # got'[d]
                           /\ \A e \in Moving' : got'[d] = got'[e] => d = e
    BY <1>2, <2>3, <2>4, <2>5, <2>6 DEF Structure, FramesApart
  <2>10. \A f \in Frames : \/ f \in FreeFrame'
                           \/ \E b \in Placed' : frameIndex'[b] = f
                           \/ \E d \in Moving' : got'[d] = f
    <3> SUFFICES ASSUME NEW f \in Frames PROVE \/ f \in FreeFrame
                                               \/ \E b \in Placed' : frameIndex'[b] = f
                                               \/ \E d \in Moving' : got[d] = f
      BY <1>2, <2>5
    <3>1. CASE \E b \in Placed : frameIndex[b] = f
      BY <1>2, <2>3, <2>6, <3>1
    <3>2. CASE \E d \in Moving : got[d] = f
      BY <1>2, <2>3, <2>4, <3>2
    <3>3. QED
      BY <3>1, <3>2 DEF Structure, FramesApart
  <2>11. QED
    BY <1>2, <2>5, <2>7, <2>8, <2>9, <2>10 DEF Structure, FramesApart
<1>12. At(c)'
  <2>1. HoldsBucket(c)' /\ Positions(c)'
    BY <1>1 DEF HoldsBucket, Positions, InBucket, Evicting
  <2>2. Call(c)
    BY DEF Structure, At
  <2>3. \A h \in held[c] : h.bcb \in BCBs \ {n}
    BY <1>3, <2>2, PoolBCBs DEF Call, Seeking
  <2>4. Call(c)'
    BY <1>1, <1>2, <1>3, <1>4, <1>7, <2>2, <2>3
    DEF Call, Seeking, Misses, Locating, Opening, Searching, Page
  <2>5. QED
    BY <2>1, <2>4 DEF At
<1>13. BucketsKept(c) /\ BucketLatches'
  BY <1>2, BucketsSame
<1>14. QED
  BY <1>7, <1>2, <1>6, <1>8, <1>9, <1>10, <1>11, <1>12, <1>13, Assemble

LEMMA EvictStructure ==
  ASSUME TypeInv, TypeInv', LatchInv, Structure, Apart, NEW c \in Clients, Evict(c)
  PROVE  Structure' /\ Pool' = Pool \ {victim[c]} /\ victim[c] \in Placed
<1> USE DEF TypeInv, TypeOK, ClientOK
<1> DEFINE v == victim[c]
<1>0. PICK k \in Buckets : k = home[c]
  OBVIOUS
<1>1. pc[c] \in {"evictHead", "evictNext"} /\ pc'[c] = "place" /\ v \in BCBs /\ OneClient
  BY DEF Evict, Goto, LocalsOK, VictimSet, Structure, At, Positions, Evicting
<1>2. \A d \in Clients : d = c
  BY <1>1 DEF OneClient
<1>3. /\ UNCHANGED <<bucketS, freeFrames, pid, frameIndex, modified, call, held, newBCB>>
      /\ got'[c] = frameIndex[v] /\ freeBCBs' = v /\ bucketX' = [bucketX EXCEPT ![k] = @ \ {c}]
  BY <1>0 DEF Evict, bcbVars
<1>4. \A d \in Clients : Taken(d)' = Taken(d)
  BY <1>1, <1>2 DEF Taken
<1>5. Lists' /\ v \in Chain(k) /\ \A h \in Buckets : Chain(h)' = Chain(h) \ {v}
  <2>1. CASE pc[c] = "evictHead"
    <3>1. v = bucket[k]
      BY <1>0, <2>1 DEF Structure, At, Positions
    <3>2. next' = [next EXCEPT ![v] = freeBCBs] /\ bucket' = [bucket EXCEPT ![k] = next[v]]
      BY <1>0, <2>1 DEF Evict
    <3>3. QED
      BY <1>1, <1>3, <1>4, <3>1, <3>2, HeadToFree DEF Structure
  <2>2. CASE pc[c] = "evictNext"
    <3>1. ptr[c] \in Chain(k) /\ next[ptr[c]] = v
      BY <1>0, <2>2 DEF Structure, At, Positions
    <3>2. next' = [[next EXCEPT ![ptr[c]] = next[v]] EXCEPT ![v] = freeBCBs] /\ bucket' = bucket
      BY <2>2 DEF Evict
    <3>3. Lists /\ freeBCBs' = v
      BY <1>3 DEF Structure
    <3>4. QED
      BY ONLY TypeInv, TypeInv', <1>1, <1>4, <3>1, <3>2, <3>3, NextToFree
  <2>3. QED
    BY <1>1, <2>1, <2>2
<1>6. Pool' = Pool \ {v} /\ v \in Pool
  BY <1>5 DEF Pool
<1>7. v # newBCB[c] /\ \A h \in held[c] : h.bcb # v
  BY <1>1 DEF LatchInv, Owns
<1>8. BeingDeleted = {} /\ BeingDeleted' = {} /\ Moving = {} /\ Moving' = {c}
  BY <1>1, <1>2 DEF BeingDeleted, Moving
<1>9. v \in Placed /\ Placed' = Placed \ {v} /\ frameIndex[v] # INVALID
  <2>1. frameIndex[v] # INVALID
    BY <1>2, <1>6, <1>7 DEF Structure, PagesApart
  <2>2. QED
    BY <1>3, <1>6, <1>8, <2>1 DEF Placed, FrameValid
<1>10. PagesApart'
  <2>1. pc[c] \in Searching /\ pc'[c] \in Searching
    BY <1>1 DEF Searching, Locating
  <2>2. \A b \in Pool' : frameIndex'[b] = INVALID =>
          \E d \in Clients : pc'[d] \in Searching /\ newBCB'[d] = b
    BY <1>2, <1>3, <1>6, <2>1 DEF Structure, PagesApart
  <2>3. QED
    BY <1>3, <1>5, <1>6, <2>2 DEF Structure, PagesApart, Hash, FrameValid
<1>11. FramesApart'
  <2> DEFINE f == frameIndex[v]
  <2>1. f \in Frames /\ f \notin FreeFrame /\ FreeFrame' = FreeFrame
    BY <1>1, <1>3, <1>9 DEF Structure, FramesApart, BCBOK, FreeFrame
  <2>2. \A b \in Placed \ {v} : frameIndex[b] # f
    BY <1>9 DEF Structure, FramesApart
  <2>3. \A x \in Frames : \/ x \in FreeFrame'
                          \/ \E b \in Placed' : frameIndex'[b] = x
                          \/ \E d \in Moving' : got'[d] = x
    BY <1>3, <1>8, <1>9, <2>1 DEF Structure, FramesApart
  <2>4. QED
    BY <1>3, <1>8, <1>9, <2>1, <2>2, <2>3 DEF Structure, FramesApart
<1>12. At(c)'
  <2>1. HoldsBucket(c)' /\ Positions(c)'
    BY <1>1 DEF HoldsBucket, Positions, InBucket, Evicting
  <2>2. Call(c)
    BY DEF Structure, At
  <2>3. pc[c] \in Opening /\ pc[c] \in Locating
    BY <1>1 DEF Opening, Searching, Locating
  <2>4. Call(c)'
    BY <1>1, <1>3, <1>6, <1>7, <2>2, <2>3 DEF Call, Seeking, Misses, Locating, Opening, Searching, Page
  <2>5. QED
    BY <2>1, <2>4 DEF At
<1>13. BucketLatches'
  BY <1>3 DEF BucketLatches, Structure, TableOK
<1>14. QED
  BY <1>6, <1>9, <1>2, <1>5, <1>10, <1>11, <1>12, <1>13 DEF Structure

LEMMA ResetHeadFound ==
  ASSUME TypeInv, TypeInv', Structure, Apart, NEW c \in Clients, ResetHead(c),
         NEW k \in Buckets, k = Hash(Page(c)), bucket[k] # NoBCB, pid[bucket[k]] = Page(c)
  PROVE  Structure' /\ Pool' = Pool \ {bucket[k]} /\ bucket[k] \in Placed
<1> USE DEF TypeInv, TypeOK, ClientOK
<1> DEFINE b == bucket[k]
<1>0. k = Hash(Page(c))
  OBVIOUS
<1>1. b # NoBCB /\ pid[b] = Page(c)
  OBVIOUS
<1>2. /\ pc[c] = "reset" /\ pc'[c] = "resetHead" /\ BucketFree(k)
      /\ bucketX' = [bucketX EXCEPT ![k] = {c}] /\ bucket' = [bucket EXCEPT ![k] = next[b]]
      /\ PushFrame(b) /\ victim'[c] = b /\ home'[c] = k /\ OnlyFor(c)
      /\ UNCHANGED <<bucketS, next, freeBCBs, pid, frameIndex, modified, call, held, newBCB>>
  BY <1>0, <1>1 DEF ResetHead, Goto, OnlyFor, bcbVars
<1>3. Taken(c) = {} /\ Taken(c)' = {b} /\ \A d \in Clients \ {c} : Taken(d)' = Taken(d)
  BY <1>2 DEF Taken, OnlyFor
<1>4. b \in BCBs
  BY <1>1 DEF TableOK
<1>5. Lists' /\ b \in Chain(k) /\ \A h \in Buckets : Chain(h)' = Chain(h) \ {b}
  BY <1>2, <1>3, <1>4, HeadTaken DEF Structure
<1>6. b \in Pool /\ Pool' = Pool \ {b} /\ Page(c) \in PagesOf[c]
  BY <1>2, <1>5, MyPage DEF Pool
<1>7. b \in Placed
  BY <1>1, <1>2, <1>6, MineIsPlaced DEF Searching, Locating
<1>8. \A h \in Buckets \ {k} : b \notin Chain(h)
  BY <1>5 DEF Structure, Lists, ListsApart
<1>9. ChainsOfOthers(c)
  <2>1. \A h \in Buckets : \A d \in Clients \ {c} : d \in bucketX[h] \cup bucketS[h] => h # k
    BY <1>2 DEF BucketFree
  <2>2. \A h \in Buckets \ {k} : bucket'[h] = bucket[h] /\ Chain(h)' = Chain(h)
    <3>1. \A h \in Buckets \ {k} : bucket'[h] = bucket[h]
      BY <1>2 DEF TableOK
    <3>2. \A h \in Buckets \ {k} : Chain(h)' = Chain(h)
      BY ONLY <1>5, <1>8
    <3>3. QED
      BY <3>1, <3>2
  <2>3. QED
    BY <1>2, <2>1, <2>2 DEF ChainsOfOthers
<1>10. PagesOfOthers(c)
  BY <1>1, <1>2, <1>6 DEF PagesOfOthers
<1>11. PagesApart'
  <2>1. pc[c] \notin Searching
    BY <1>2 DEF Searching, Locating
  <2>2. \A x \in Pool' : frameIndex'[x] = INVALID =>
          \E d \in Clients : pc'[d] \in Searching /\ newBCB'[d] = x
    BY <1>2, <1>6, <2>1 DEF Structure, PagesApart, OnlyFor
  <2>3. QED
    BY <1>2, <1>5, <1>6, <2>2 DEF Structure, PagesApart, Hash, FrameValid
<1>12. FramesApart'
  <2>1. \A d \in Clients : /\ pc'[d] = "resetNext" <=> pc[d] = "resetNext"
                           /\ pc'[d] = "resetNext" => victim'[d] = victim[d]
                           /\ pc'[d] = "place" <=> pc[d] = "place"
                           /\ pc'[d] = "place" => got'[d] = got[d]
    BY <1>2 DEF OnlyFor
  <2>2. BeingDeleted' = BeingDeleted /\ Moving' = Moving /\ \A d \in Moving : got'[d] = got[d]
    BY <2>1 DEF BeingDeleted, Moving
  <2>3. Placed' = Placed \ {b}
    BY <1>2, <1>6, <2>2 DEF Placed, FrameValid
  <2>4. QED
    BY <1>2, <1>4, <1>7, <2>2, <2>3, FramesFreed DEF Structure
<1>13. At(c)'
  <2>1. HoldsBucket(c)' /\ Positions(c)'
    BY <1>0, <1>2 DEF HoldsBucket, Positions, InBucket, Evicting, Hash, Page, TableOK
  <2>2. Call(c)
    BY DEF Structure, At
  <2>3. \A x \in Pool' : pid[x] # Page(c)
    BY <1>1, <1>6 DEF Structure, PagesApart
  <2>4. Call(c)'
    BY <1>1, <1>2, <1>6, <2>2, <2>3 DEF Call, Seeking, Misses, Locating, Opening, Searching, Page
  <2>5. QED
    BY <2>1, <2>4 DEF At
<1>14. BucketsKept(c) /\ BucketLatches'
  BY <1>2 DEF BucketsKept, BucketLatches, BucketFree, Structure, TableOK
<1>15. QED
  BY <1>6, <1>7, <1>2, <1>5, <1>9, <1>10, <1>11, <1>12, <1>13, <1>14, Assemble

LEMMA ResetWalkFound ==
  ASSUME TypeInv, TypeInv', Structure, Apart, NEW c \in Clients, ResetWalk(c),
         next[ptr[c]] # NoBCB, pid[next[ptr[c]]] = Page(c)
  PROVE  Structure' /\ Pool' = Pool /\ next[ptr[c]] \in Placed
<1> USE DEF TypeInv, TypeOK, ClientOK
<1> DEFINE n == next[ptr[c]]
<1>1. n # NoBCB /\ pid[n] = Page(c)
  OBVIOUS
<1>2. /\ pc[c] = "resetWalk" /\ pc'[c] = "resetNext" /\ PushFrame(n) /\ victim'[c] = n
      /\ OnlyFor(c)
      /\ UNCHANGED <<bucket, bucketX, bucketS, next, freeBCBs, pid, frameIndex, modified,
                     call, held, newBCB, home, ptr>>
  BY <1>1 DEF ResetWalk, Goto, OnlyFor, bcbVars
<1>3. PICK k \in Buckets : k = home[c] /\ k = Hash(Page(c)) /\ ptr[c] \in Chain(k) /\ bucketX[k] = {c}
  BY <1>2 DEF Structure, At, Positions, HoldsBucket, InBucket
<1>4. n \in Chain(k) /\ n \in BCBs
  BY <1>1, <1>3, NextOf, LinksOf
<1>5. n \in Pool /\ Page(c) \in PagesOf[c]
  BY <1>2, <1>4, MyPage DEF Pool
<1>6. n \in Placed
  BY <1>1, <1>2, <1>5, MineIsPlaced DEF Searching, Locating
<1>7. \A d \in Clients : Taken(d)' = Taken(d)
  <2>1. Taken(c) = {} /\ Taken(c)' = {}
    BY <1>2 DEF Taken
  <2>2. QED
    BY <1>2, <2>1 DEF OnlyFor, Taken
<1>8. Lists' /\ \A h \in Buckets : Chain(h)' = Chain(h)
  BY <1>2, <1>7, SameLists DEF Structure
<1>9. Pool' = Pool
  BY <1>8 DEF Pool
<1>10. ChainsOfOthers(c) /\ PagesOfOthers(c)
  BY <1>2, <1>8, <1>9 DEF ChainsOfOthers, PagesOfOthers
<1>11. PagesApart'
  <2>1. pc[c] \notin Searching
    BY <1>2 DEF Searching, Locating
  <2>2. \A x \in Pool' : frameIndex'[x] = INVALID =>
          \E d \in Clients : pc'[d] \in Searching /\ newBCB'[d] = x
    BY <1>2, <1>9, <2>1 DEF Structure, PagesApart, OnlyFor
  <2>3. QED
    BY <1>2, <1>8, <1>9, <2>2 DEF Structure, PagesApart, Hash, FrameValid
<1>12. FramesApart'
  <2>1. \A d \in Clients \ {c} : pc'[d] = pc[d] /\ victim'[d] = victim[d] /\ got'[d] = got[d]
    BY <1>2 DEF OnlyFor
  <2>2. BeingDeleted' = BeingDeleted \cup {n}
    BY <1>2, <2>1 DEF BeingDeleted
  <2>3. Moving' = Moving /\ \A d \in Moving : got'[d] = got[d]
    BY <1>2, <2>1 DEF Moving
  <2>4. Placed' = Placed \ {n}
    BY <1>2, <1>9, <2>2 DEF Placed, FrameValid
  <2>5. QED
    BY <1>2, <1>4, <1>6, <2>3, <2>4, FramesFreed DEF Structure
<1>13. At(c)'
  <2>0. Chain(home[c])' = Chain(k) /\ Page(c)' = Page(c)
    BY <1>2, <1>3 DEF Chain, Page
  <2>1. HoldsBucket(c)' /\ Positions(c)'
    BY <1>2, <1>3, <2>0 DEF HoldsBucket, Positions, InBucket, Evicting, Hash
  <2>2. Call(c)
    BY DEF Structure, At
  <2>3. Call(c)'
    BY <1>1, <1>2, <1>9, <2>2 DEF Call, Seeking, Misses, Locating, Opening, Searching, Page
  <2>4. QED
    BY <2>1, <2>3 DEF At
<1>14. BucketsKept(c) /\ BucketLatches'
  BY <1>2, BucketsSame
<1>15. QED
  BY <1>6, <1>9, <1>2, <1>8, <1>10, <1>11, <1>12, <1>13, <1>14, Assemble

LEMMA ResetFreeStructure ==
  ASSUME TypeInv, TypeInv', Structure, Apart, NEW c \in Clients, ResetFree(c)
  PROVE  Structure' /\ Pool' = Pool \ {victim[c]}
<1> USE DEF TypeInv, TypeOK, ClientOK
<1> DEFINE v == victim[c]
<1>0. PICK k \in Buckets : k = home[c]
  OBVIOUS
<1>1. /\ pc[c] \in {"resetHead", "resetNext"} /\ pc'[c] = "idle" /\ v \in BCBs /\ freeBCBs' = v
      /\ bucketX' = [bucketX EXCEPT ![k] = @ \ {c}] /\ OnlyFor(c)
      /\ UNCHANGED <<bucket, bucketS, freeFrames, pid, frameIndex, modified, held>>
  BY <1>0 DEF ResetFree, Return, Goto, OnlyFor, bcbVars, LocalsOK, VictimSet
<1>2. bucketX[k] = {c} /\ bucketS[k] = {} /\ Page(c) \in PagesOf[c] /\ pid[v] = Page(c)
      /\ \A h \in held[c] : h.page # Page(c)
  <2>1. bucketX[k] = {c}
    BY <1>0, <1>1 DEF Structure, At, HoldsBucket, InBucket
  <2>2. QED
    BY <1>1, <2>1, MyPage DEF Structure, BucketLatches, At, Call, Seeking
<1>3. BucketsKept(c) /\ BucketLatches'
  BY <1>1, <1>2 DEF BucketsKept, BucketLatches, Structure, TableOK
<1>4. Taken(c)' = {} /\ \A d \in Clients \ {c} : Taken(d)' = Taken(d)
  BY <1>1 DEF Taken, OnlyFor
<1>5. \A b \in BCBs : modified'[b] => FrameValid(b)'
  BY <1>1 DEF Structure, PagesApart, FrameValid
<1>6. CASE pc[c] = "resetHead"
  <2>1. Taken(c) = {v} /\ next' = [next EXCEPT ![v] = freeBCBs]
    BY <1>6 DEF Taken, ResetFree
  <2>2. Lists' /\ \A h \in Buckets : Chain(h)' = Chain(h)
    BY <1>1, <1>4, <2>1, TakenToFree DEF Structure
  <2>3. Pool' = Pool
    BY <2>2 DEF Pool
  <2>4. v \notin Pool
    BY <2>1 DEF Structure, Lists, ListsApart, Pool
  <2>5. \A b \in Pool : next'[b] = next[b]
    BY <2>1, <2>4, PoolBCBs DEF ListOK
  <2>6. At(c)'
    <3>1. \A h \in held'[c] : /\ h.page \in PagesOf[c]
                              /\ h.bcb \in Pool' /\ pid'[h.bcb] = h.page
                              /\ frameIndex'[h.bcb] # INVALID
      BY <1>1, <2>3 DEF Structure, At, Call, Seeking
    <3>2. QED
      BY <1>1, <3>1, AtRest
  <2>7. pc[c] \notin {"resetNext", "place"} \cup Searching
    BY <1>6 DEF Searching, Locating
  <2>8. QED
    BY <2>3, <2>4, <1>1, <1>3, <1>5, <2>2, <2>5, <2>6, <2>7, SamePool
<1>7. CASE pc[c] = "resetNext"
  <2>1. v \in Chain(k) /\ ptr[c] \in Chain(k) /\ next[ptr[c]] = v /\ v \in Pool
    BY <1>0, <1>7, VictimInPool
  <2>2. next' = [[next EXCEPT ![ptr[c]] = next[v]] EXCEPT ![v] = freeBCBs]
    BY <1>7 DEF ResetFree
  <2>3. \A d \in Clients : Taken(d)' = Taken(d)
    BY <1>4, <1>7 DEF Taken
  <2>4. Lists' /\ \A h \in Buckets : Chain(h)' = Chain(h) \ {v}
    BY <1>1, <2>1, <2>2, <2>3, NextToFree DEF Structure
  <2>5. Pool' = Pool \ {v}
    BY <2>4 DEF Pool
  <2>6. ChainsOfOthers(c)
    <3>1. \A h \in Buckets : \A d \in Clients \ {c} : d \in bucketX[h] \cup bucketS[h] => h # k
      BY <1>2
    <3>2. \A h \in Buckets \ {k} : v \notin Chain(h) /\ ptr[c] \notin Chain(h)
      BY <2>1 DEF Structure, Lists, ListsApart
    <3>3. \A b \in BCBs \ {v, ptr[c]} : next'[b] = next[b]
      BY <2>2 DEF ListOK
    <3>4. \A h \in Buckets \ {k} : Chain(h)' = Chain(h) /\ \A b \in Chain(h) : next'[b] = next[b]
      <4>1. \A h \in Buckets \ {k} : Chain(h)' = Chain(h)
        BY ONLY <2>4, <3>2
      <4>2. \A h \in Buckets \ {k} : \A b \in Chain(h) : b \in BCBs \ {v, ptr[c]}
        BY <3>2, LinksOf
      <4>3. QED
        BY <3>3, <4>1, <4>2
    <3>5. QED
      BY <1>1, <3>1, <3>4 DEF ChainsOfOthers
  <2>7. PagesOfOthers(c)
    BY <1>1, <1>2, <2>5 DEF PagesOfOthers
  <2>8. PagesApart'
    <3>1. pc[c] \notin Searching
      BY <1>7 DEF Searching, Locating
    <3>2. \A x \in Pool' : frameIndex'[x] = INVALID =>
            \E d \in Clients : pc'[d] \in Searching /\ newBCB'[d] = x
      <4> SUFFICES ASSUME NEW x \in Pool, frameIndex[x] = INVALID
                   PROVE  \E d \in Clients : pc'[d] \in Searching /\ newBCB'[d] = x
        BY <1>1, <2>5
      <4>1. PICK d \in Clients : pc[d] \in Searching /\ newBCB[d] = x
        BY DEF Structure, PagesApart
      <4>2. QED
        BY <1>1, <3>1, <4>1 DEF OnlyFor
    <3>3. QED
      BY <1>1, <1>5, <2>4, <2>5, <3>2 DEF Structure, PagesApart, Hash
  <2>9. FramesApart'
    <3>1. \A d \in Clients \ {c} : pc'[d] = pc[d] /\ victim'[d] = victim[d] /\ got'[d] = got[d]
      BY <1>1 DEF OnlyFor
    <3>2. \A b : b # v => (b \in BeingDeleted' <=> b \in BeingDeleted)
      BY <1>1, <1>7, <3>1 DEF BeingDeleted
    <3>3. v \in BeingDeleted
      BY <1>7 DEF BeingDeleted
    <3>4. Placed' = Placed
      BY <1>1, <2>5, <3>2, <3>3 DEF Placed, FrameValid
    <3>5. Moving' = Moving /\ \A d \in Moving : got'[d] = got[d]
      BY <1>1, <1>7, <3>1 DEF Moving
    <3>6. QED
      BY <1>1, <3>4, <3>5, FramesSame DEF Structure
  <2>10. At(c)'
    <3>1. \A h \in held'[c] : /\ h.page \in PagesOf[c]
                              /\ h.bcb \in Pool' /\ pid'[h.bcb] = h.page
                              /\ frameIndex'[h.bcb] # INVALID
      BY <1>1, <1>2, <2>5 DEF Structure, At, Call, Seeking
    <3>2. QED
      BY <1>1, <3>1, AtRest
  <2>11. QED
    BY <2>5, <1>1, <1>3, <2>4, <2>6, <2>7, <2>8, <2>9, <2>10, Assemble
<1>8. QED
  BY <1>1, <1>6, <1>7

(* The state init and a restart set up. *)
Fresh ==
  /\ bucket = [h \in Buckets |-> NoBCB] /\ bucketX = [h \in Buckets |-> {}]
  /\ bucketS = [h \in Buckets |-> {}]
  /\ next = InitialChain /\ freeBCBs = 1
  /\ freeFrames = [i \in 1 .. NoFrames |-> i - 1]
  /\ modified = [b \in BCBs |-> FALSE]
  /\ pc = [c \in Clients |-> "idle"] /\ held = [c \in Clients |-> {}]

LEMMA FreshStructure == Fresh /\ Spare => Structure
<1> SUFFICES ASSUME Fresh, Spare PROVE Structure
  OBVIOUS
<1>1. Lists /\ \A h \in Buckets : Chain(h) = {}
  <2>1. NoBCBs > 1
    BY BufferAssumption DEF Spare
  <2>2. \A c \in Clients : pc[c] = "idle"
    BY DEF Fresh
  <2>3. QED
    BY <2>1, <2>2, InitialLists DEF Fresh
<1>2. Pool = {} /\ Placed = {} /\ Moving = {}
  BY <1>1 DEF Pool, Placed, Moving, Fresh
<1>3. BucketLatches /\ PagesApart
  BY <1>1, <1>2 DEF Fresh, BucketLatches, PagesApart
<1>4. FramesApart
  <2>1. DOMAIN freeFrames = 1 .. NoFrames /\ \A i \in 1 .. NoFrames : freeFrames[i] = i - 1
    BY DEF Fresh
  <2>2. \A i, j \in DOMAIN freeFrames : freeFrames[i] = freeFrames[j] => i = j
    BY <2>1, BufferAssumption
  <2>3. FreeFrame \subseteq Frames
    BY <2>1, BufferAssumption DEF FreeFrame, Frames
  <2>4. \A f \in Frames : f \in FreeFrame
    <3> SUFFICES ASSUME NEW f \in Frames PROVE f \in FreeFrame
      OBVIOUS
    <3>1. f + 1 \in 1 .. NoFrames /\ freeFrames[f + 1] = f
      BY <2>1, BufferAssumption DEF Frames
    <3>2. QED
      BY <2>1, <3>1 DEF FreeFrame
  <2>5. QED
    BY <1>2, <2>2, <2>3, <2>4 DEF FramesApart
<1>5. ASSUME NEW c \in Clients PROVE At(c)
  <2>1. pc[c] = "idle" /\ held[c] = {}
    BY DEF Fresh
  <2>2. QED
    BY <2>1
    DEF At, HoldsBucket, Positions, Call, Seeking, InBucket, Evicting, Misses, Locating, Opening, Searching
<1>6. QED
  BY <1>1, <1>3, <1>4, <1>5 DEF Structure

LEMMA InitStructure == Init /\ Spare => Structure
  BY FreshStructure DEF Init, Fresh

LEMMA RestartStructure == Restart /\ Spare => Structure'
<1>1. (Fresh /\ Spare => Structure)'
  BY FreshStructure, PTL
<1>2. QED
  BY <1>1 DEF Restart, Fresh, Spare

(* Every step is a step of one client; the others stay where they are.      *)
(* A step is the work of one client. *)
LEMMA StepOnlyFor ==
  ASSUME TypeInv, NEW c \in Clients, Step(c)
  PROVE  OnlyFor(c)
<1> USE DEF TypeInv, TypeOK, ClientOK, Goto, OnlyFor, localVars
<1>1. CASE FixLookup(c) \/ FixWalk(c) \/ PopCheck(c) \/ Pop(c) \/ Claim(c) \/ Link(c)
  BY <1>1 DEF FixLookup, FixWalk, PopCheck, Pop, Claim, Link
<1>2. CASE PopFrame(c) \/ TryBucket(c) \/ TryHead(c) \/ TryNext(c) \/ TryVictim(c)
  BY <1>2 DEF PopFrame, TryBucket, TryHead, TryNext, TryVictim
<1>3. CASE Evict(c) \/ Place(c) \/ ReadLatch(c) \/ Read(c) \/ AssertFails(c)
  BY <1>3 DEF Evict, Place, ReadLatch, Read, AssertFails
<1>4. CASE Latch(c) \/ EmptyLatch(c) \/ UpgradeAcquire(c)
  BY <1>4 DEF Latch, EmptyLatch, UpgradeAcquire, Return, Hold
<1>5. CASE (\E b \in todo[c] : FlushNext(c, b)) \/ FlushDone(c)
  BY <1>5 DEF FlushNext, FlushDone, Return
<1>6. CASE ResetHead(c) \/ ResetWalk(c) \/ ResetFree(c)
  BY <1>6 DEF ResetHead, ResetWalk, ResetFree, Return
<1>7. CASE Use(c)
  BY <1>7 DEF Use, Write, Unfix, FlushPage, UpgradeRelease, Begin
<1>8. CASE Request(c)
  BY <1>8 DEF Request, CallFlushAll, CallEmptyFix, CallReset, CallFix, Begin
<1>9. CASE \E h \in Buckets : PickBucket(c, h)
  BY <1>9 DEF PickBucket
<1>10. QED
  BY <1>1, <1>2, <1>3, <1>4, <1>5, <1>6, <1>7, <1>8, <1>9 DEF Step, Proceed

LEMMA StepStructure ==
  ASSUME Apart, Spare, TypeInv, TypeInv', LatchInv, Structure, NEW c \in Clients, Step(c)
  PROVE  Structure'
<1>1. CASE Request(c)
  BY <1>1, RequestStructure
<1>2. CASE Use(c)
  BY <1>2, UseStructure
<1>3. CASE \E h \in Buckets : PickBucket(c, h)
  BY <1>3, PickStructure
<1>4. CASE Proceed(c)
  <2>1. CASE FixLookup(c) \/ FixWalk(c) \/ PopCheck(c) \/ Pop(c) \/ Claim(c) \/ Link(c)
    BY <2>1, LookupStructure, WalkStructure, PopCheckStructure, PopStructure, ClaimStructure,
       LinkStructure
  <2>2. CASE PopFrame(c) \/ TryBucket(c) \/ TryHead(c) \/ TryNext(c) \/ TryVictim(c)
          \/ Evict(c) \/ Place(c)
    BY <2>2, PopFrameStructure, TryBucketStructure, TryHeadStructure, TryNextStructure,
       TryVictimStructure, EvictStructure, PlaceStructure
  <2>3. CASE ReadLatch(c) \/ Read(c) \/ Latch(c) \/ EmptyLatch(c) \/ UpgradeAcquire(c)
    BY <2>3, ReadLatchStructure, ReadStructure, LatchStructure, EmptyLatchStructure,
       UpgradeStructure
  <2>4. CASE AssertFails(c)
    BY <2>4, NoBadFrame DEF AssertFails
  <2>5. CASE (\E b \in todo[c] : FlushNext(c, b)) \/ FlushDone(c)
    BY <2>5, FlushStructure
  <2>6. CASE ResetHead(c)
    <3>1. PICK k \in Buckets : k = Hash(Page(c))
      BY <2>6, HashOK DEF ResetHead, TypeInv, LocalsOK, PageSet, Page
    <3>2. QED
      BY <2>6, <3>1, ResetHeadFound, ResetHeadStill
  <2>7. CASE ResetWalk(c)
    BY <2>7, ResetWalkFound, ResetWalkStill
  <2>8. CASE ResetFree(c)
    BY <2>8, ResetFreeStructure
  <2>9. QED
    BY <1>4, <2>1, <2>2, <2>3, <2>4, <2>5, <2>6, <2>7, <2>8 DEF Proceed
<1>5. QED
  BY <1>1, <1>2, <1>3, <1>4 DEF Step

LEMMA StepRuns ==
  ASSUME Apart, Spare, TypeInv, Structure, NEW c \in Clients, Step(c), pc[c] # "abort"
  PROVE  pc'[c] # "abort"
<1> USE DEF TypeInv, TypeOK, ClientOK, Goto
<1>1. ~AssertFails(c)
  BY NoBadFrame DEF AssertFails
<1>2. CASE PopCheck(c) \/ Pop(c)
  BY <1>2, BCBLeft DEF PopCheck, Pop
<1>3. CASE Proceed(c) /\ ~PopCheck(c) /\ ~Pop(c)
  BY <1>1, <1>3
  DEF Proceed, FixLookup, FixWalk, Claim, Link, PopFrame, TryBucket, TryHead,
      TryNext, TryVictim, Evict, Place, ReadLatch, Read, Latch, EmptyLatch, UpgradeAcquire,
      FlushNext, FlushDone, ResetHead, ResetWalk, ResetFree, Return
<1>4. CASE Use(c)
  BY <1>4 DEF Use, Write, Unfix, FlushPage, UpgradeRelease, Begin
<1>5. CASE Request(c)
  BY <1>5 DEF Request, CallFlushAll, CallEmptyFix, CallReset, CallFix, Begin
<1>6. CASE \E h \in Buckets : PickBucket(c, h)
  BY <1>6 DEF PickBucket
<1>7. QED
  BY <1>2, <1>3, <1>4, <1>5, <1>6 DEF Step

(* A step that leaves the buffer manager alone. *)
LEMMA SameStructure ==
  ASSUME TypeInv, TypeInv', Structure, UNCHANGED vars
  PROVE  Structure' /\ Pool' = Pool
<1>1. UNCHANGED <<bucket, next, freeBCBs>> /\ \A d \in Clients : Taken(d)' = Taken(d)
  BY DEF vars, tableVars, listVars, localVars, Taken
<1>2. Lists' /\ \A h \in Buckets : Chain(h)' = Chain(h)
  BY <1>1, SameLists DEF Structure
<1> USE DEF vars, tableVars, listVars, bcbVars, latchVars, localVars
<1>3. Pool' = Pool /\ Placed' = Placed /\ Moving' = Moving
  <2>1. Pool' = Pool
    BY <1>2 DEF Pool
  <2>2. QED
    BY <2>1 DEF Placed, BeingDeleted, Moving, FrameValid
<1>4. BucketLatches' /\ PagesApart'
  BY <1>2, <1>3 DEF Structure, BucketLatches, PagesApart, Hash, FrameValid
<1>5. FramesApart'
  BY <1>3, FramesSame DEF Structure
<1>6. \A d \in Clients : At(d)'
  <2> SUFFICES ASSUME NEW d \in Clients PROVE At(d)'
    OBVIOUS
  <2>1. HoldsBucket(d)' /\ Positions(d)'
    BY <1>2 DEF Structure, At, HoldsBucket, Positions, Chain, Page, Hash, OneClient
  <2>2. Call(d)'
    BY <1>3 DEF Structure, At, Call, Seeking, Page
  <2>3. QED
    BY <2>1, <2>2 DEF At
<1>7. QED
  BY <1>2, <1>3, <1>4, <1>5, <1>6 DEF Structure

LEMMA NextStructure ==
  ASSUME Apart, Spare, TypeInv, TypeInv', LatchInv, Structure, Running, [Next]_vars
  PROVE  Structure' /\ Running'
<1>1. CASE Restart
  BY <1>1, RestartStructure DEF Restart, Running
<1>2. CASE UNCHANGED vars
  BY <1>2, SameStructure DEF Running, vars, localVars
<1>3. ASSUME NEW c \in Clients, Step(c) PROVE Structure' /\ Running'
  <2>1. Structure'
    BY <1>3, StepStructure
  <2>2. pc[c] # "abort" /\ \A d \in Clients \ {c} : pc'[d] = pc[d]
    BY <1>3, StepOnlyFor DEF Running, OnlyFor
  <2>3. pc'[c] # "abort"
    BY <1>3, <2>2, StepRuns
  <2>4. QED
    BY <2>1, <2>2, <2>3 DEF Running
<1>4. QED
  BY <1>1, <1>2, <1>3 DEF Next

-----------------------------------------------------------------------------
(***************************************************************************)
(* What follows from the invariant.                                        *)
(***************************************************************************)

LEMMA StructureInvariant ==
  ASSUME Apart, Spare PROVE Spec => [](TypeInv /\ LatchInv /\ Structure /\ Running)
<1>1. Init => TypeInv /\ LatchInv /\ Structure /\ Running
  BY InitType, InitLatch, InitStructure DEF Init, Running
<1>2. TypeInv /\ LatchInv /\ Structure /\ Running /\ [Next]_vars
        => (TypeInv /\ LatchInv /\ Structure /\ Running)'
  <2> SUFFICES ASSUME TypeInv, LatchInv, Structure, Running, [Next]_vars
               PROVE  (TypeInv /\ LatchInv /\ Structure /\ Running)'
    OBVIOUS
  <2>1. TypeInv' /\ LatchInv'
    BY NextType, NextLatch
  <2>2. QED
    BY <2>1, NextStructure
<1>3. QED
  BY <1>1, <1>2, PTL DEF Spec

LEMMA ChainsAre ==
  ASSUME TypeInv
  PROVE  Linked = Pool /\ FreeList = Free /\ \A h \in Buckets : ChainFrom(bucket[h]) = Chain(h)
  BY LinksOf, ChainIsMembers DEF Linked, Pool, FreeList, Free, Chain

(* No process ends in std::terminate, a null dereference or an assertion:   *)
(* popFromList always finds a BCB, and every frame a call dereferences is   *)
(* one of the pool.                                                         *)
THEOREM NeverAborts == ASSUME Apart, Spare PROVE Spec => []NoAbort
<1>1. Running => NoAbort
  BY DEF NoAbort
<1>2. QED
  BY <1>1, StructureInvariant, PTL

(* A page is in the pool at most once, under the bucket it hashes to.       *)
THEOREM PagesPooledOnce == ASSUME Apart, Spare PROVE Spec => []OneBCBPerPage
<1>1. TypeInv /\ Structure => OneBCBPerPage
  BY ChainsAre DEF OneBCBPerPage, Structure, PagesApart
<1>2. QED
  BY <1>1, StructureInvariant, PTL

(* Every BCB is in the free list or in one hash chain, or a client moves it. *)
THEOREM BCBsKept == ASSUME Apart, Spare PROVE Spec => []BCBsConserved
<1>1. ASSUME TypeInv, Structure PROVE BCBsConserved
  <2> DEFINE moved == {newBCB[c] : c \in {d \in Clients : pc[d] \in {"claim", "link"}}}
                        \cup {victim[c] : c \in {d \in Clients : pc[d] = "resetHead"}}
  <2>1. \A b : b \in moved <=> \E c \in Clients : b \in Taken(c)
    BY DEF Taken
  <2> HIDE DEF moved
  <2>2. Pool \in SUBSET BCBs /\ Free \in SUBSET BCBs
    BY <1>1, PoolBCBs, LinksOf
  <2>3. Pool \cap Free = {}
    BY <1>1 DEF Structure, Lists, ListsApart, Pool
  <2>4. moved \cap (Pool \cup Free) = {}
    BY <1>1, <2>1 DEF Structure, Lists, ListsApart, Pool
  <2>5. \A b \in BCBs : b \in moved \/ b \in Pool \/ b \in Free
    BY <1>1, <2>1 DEF Structure, Lists, ListsApart, Pool
  <2>6. \A g, h \in Buckets : g # h => ChainFrom(bucket[g]) \cap ChainFrom(bucket[h]) = {}
    BY <1>1, ChainsAre DEF Structure, Lists, ListsApart
  <2>7. Linked = Pool /\ FreeList = Free
    BY <1>1, ChainsAre
  <2>8. BCBs \ moved = Pool \cup Free
    BY <2>2, <2>4, <2>5
  <2>9. QED
    BY <2>3, <2>4, <2>6, <2>7, <2>8 DEF BCBsConserved, moved
<1>2. TypeInv /\ Structure => BCBsConserved
  BY <1>1
<1>3. QED
  BY <1>2, StructureInvariant, PTL

(* No frame has two owners, and when no call runs none is lost.             *)
THEOREM FramesOwned == ASSUME Apart, Spare PROVE Spec => []FramesOwnedOnce
<1>1. ASSUME TypeInv, Structure PROVE FramesOwnedOnce
  <2>1. {b \in Linked \ BeingDeleted : FrameValid(b)} = Placed
    BY <1>1, ChainsAre DEF Placed
  <2>2. {freeFrames[i] : i \in DOMAIN freeFrames} = FreeFrame
    BY DEF FreeFrame
  <2>3. {c \in Clients : pc[c] = "place"} = Moving
    BY DEF Moving
  <2>4. FramesApart
    BY <1>1 DEF Structure
  <2>5. (\A c \in Clients : Idle(c)) => Frames = FreeFrame \cup {frameIndex[b] : b \in Placed}
    <3> SUFFICES ASSUME \A c \in Clients : Idle(c)
                 PROVE  Frames = FreeFrame \cup {frameIndex[b] : b \in Placed}
      OBVIOUS
    <3>1. Moving = {}
      BY DEF Moving, Idle
    <3>2. \A b \in Placed : frameIndex[b] \in Frames
      BY <1>1, PoolBCBs DEF Placed, FrameValid, TypeInv, TypeOK, BCBOK
    <3>3. QED
      BY <2>4, <3>1, <3>2 DEF FramesApart
  <2>6. /\ \A c \in Moving : got[c] \in Frames \ FreeFrame
        /\ \A c \in Moving : \A b \in Placed : frameIndex[b] # got[c]
        /\ \A c \in Moving : \A d \in Moving : got[c] = got[d] => c = d
    BY <2>4 DEF FramesApart
  <2>7. /\ \A b, d \in Placed : frameIndex[b] = frameIndex[d] => b = d
        /\ \A i, j \in DOMAIN freeFrames : freeFrames[i] = freeFrames[j] => i = j
        /\ \A b \in Placed : frameIndex[b] \notin FreeFrame
    BY <2>4 DEF FramesApart
  <2>8. QED
    BY <2>1, <2>2, <2>3, <2>5, <2>6, <2>7 DEF FramesOwnedOnce
<1>2. TypeInv /\ Structure => FramesOwnedOnce
  BY <1>1
<1>3. QED
  BY <1>2, StructureInvariant, PTL

-----------------------------------------------------------------------------
(***************************************************************************)
(* The invariant.                                                          *)
(***************************************************************************)

(* What a call asks for, by where it is.                                    *)
Asks(c) ==
  /\ pc[c] = "idle" <=> call[c] = NoCall
  /\ pc[c] \in {"lookup", "walk", "latch", "readLatch", "read", "upgrade"} => call[c].kind = "fix"
  /\ pc[c] \in {"popCheck", "pop", "claim"} \cup Locating => call[c].kind \in {"fix", "emptyfix"}
  /\ pc[c] = "emptyLatch" => call[c].kind = "emptyfix"
  /\ pc[c] = "upgrade" \/ call[c].kind = "emptyfix" => call[c].mode = "X"
  /\ pc[c] \in {"reset", "resetHead", "resetWalk", "resetNext"} => call[c].kind = "reset"
  /\ pc[c] = "flushAll" => call[c].kind = "flushAll" /\ "flushAll" \in Kinds

LEMMA StepAsks ==
  ASSUME TypeInv, NEW c \in Clients, Step(c), Asks(c)
  PROVE  Asks(c)'
<1> USE DEF TypeInv, TypeOK, ClientOK, Goto, Asks, Locating, localVars
<1>1. CASE FixLookup(c) \/ FixWalk(c) \/ PopCheck(c) \/ Pop(c) \/ Claim(c) \/ Link(c)
  BY <1>1 DEF FixLookup, FixWalk, PopCheck, Pop, Claim, Link
<1>2. CASE PopFrame(c) \/ TryBucket(c) \/ TryHead(c) \/ TryNext(c) \/ TryVictim(c)
  BY <1>2 DEF PopFrame, TryBucket, TryHead, TryNext, TryVictim
<1>3. CASE Evict(c) \/ Place(c) \/ ReadLatch(c) \/ Read(c)
  BY <1>3 DEF Evict, Place, ReadLatch, Read
<1>11. CASE AssertFails(c)
  BY <1>11 DEF AssertFails, BadFrame
<1>4. CASE Latch(c) \/ EmptyLatch(c) \/ UpgradeAcquire(c)
  BY <1>4 DEF Latch, EmptyLatch, UpgradeAcquire, Return, NoCall
<1>5. CASE (\E b \in todo[c] : FlushNext(c, b)) \/ FlushDone(c)
  BY <1>5 DEF FlushNext, FlushDone, Return, NoCall
<1>6. CASE ResetHead(c) \/ ResetWalk(c) \/ ResetFree(c)
  BY <1>6 DEF ResetHead, ResetWalk, ResetFree, Return, NoCall
<1>7. CASE Use(c)
  BY <1>7 DEF Use, Write, Unfix, FlushPage, UpgradeRelease, Begin, Idle, NoCall
<1>8. CASE Request(c)
  BY <1>8 DEF Request, CallFlushAll, CallEmptyFix, CallReset, CallFix, Begin, NoCall
<1>9. CASE \E h \in Buckets : PickBucket(c, h)
  BY <1>9 DEF PickBucket
<1>10. QED
  BY <1>1, <1>2, <1>3, <1>4, <1>5, <1>6, <1>7, <1>8, <1>9, <1>11 DEF Step, Proceed

LEMMA NextAsks ==
  ASSUME TypeInv, \A c \in Clients : Asks(c), [Next]_vars
  PROVE  \A c \in Clients : Asks(c)'
<1>1. CASE Restart
  BY <1>1 DEF Restart, Asks, NoCall, Locating
<1>2. CASE UNCHANGED vars
  BY <1>2 DEF vars, localVars, Asks
<1>3. ASSUME NEW c \in Clients, Step(c) PROVE \A d \in Clients : Asks(d)'
  <2>1. OnlyFor(c) /\ Asks(c)'
    BY <1>3, StepOnlyFor, StepAsks
  <2>2. \A d \in Clients \ {c} : Asks(d)'
    BY <2>1 DEF OnlyFor, Asks
  <2>3. QED
    BY <2>1, <2>2
<1>4. QED
  BY <1>1, <1>2, <1>3 DEF Next

(* Only a client that is alone in the database calls flushAll.              *)
NoFlush == OneClient \/ "flushAll" \notin Kinds

(* The pages that are loaded, and the BCB a call keeps from being so.       *)
Loaded == Pool \ (BeingLoaded \cup BeingDeleted)
Unready(c) == IF pc[c] \in Loading THEN {newBCB[c]}
              ELSE IF pc[c] = "resetNext" THEN {victim[c]} ELSE {}

Clean(b) == modified[b] \/ frame[frameIndex[b]] = disk[pid[b]]

(* flushAll has written what it no longer has to do.                        *)
Flushing(c) ==
  pc[c] = "flushAll" =>
    /\ OneClient /\ todo[c] \subseteq Pool
    /\ \A b \in Pool \ todo[c] : frame[frameIndex[b]] = disk[pid[b]]

StoreInv == (\A b \in Loaded : Clean(b)) /\ \A c \in Clients : Asks(c) /\ Flushing(c)

LEMMA LoadedIs ==
  \A b : b \in Loaded <=> b \in Pool /\ \A c \in Clients : b \notin Unready(c)
  BY DEF Loaded, BeingLoaded, BeingDeleted, Unready, Loading, Locating

LEMMA LoadedOK ==
  ASSUME TypeInv, Structure, NEW b \in Loaded
  PROVE  /\ b \in BCBs /\ b \in Pool /\ b \in Placed
         /\ pid[b] \in Pages /\ frameIndex[b] \in Frames
<1>1. b \in BCBs /\ b \in Pool /\ b \notin BeingDeleted
  BY PoolBCBs DEF Loaded
<1>2. pid[b] \in Pages
  BY <1>1 DEF Pool, Structure, PagesApart
<1>3. FrameValid(b)
  <2> SUFFICES ASSUME ~FrameValid(b) PROVE FALSE
    OBVIOUS
  <2>1. PICK c \in Clients : pc[c] \in Searching /\ newBCB[c] = b
    BY <1>1 DEF FrameValid, Structure, PagesApart
  <2>2. b \in BeingLoaded
    BY <2>1 DEF BeingLoaded, Loading, Searching
  <2>3. QED
    BY <2>2 DEF Loaded
<1>4. QED
  BY <1>1, <1>2, <1>3 DEF Placed, FrameValid, TypeInv, TypeOK, BCBOK

(* The content of the store, page by page.                                  *)
Shown(F) ==
  /\ F \in [Pages -> Versions]
  /\ \A b \in Loaded : F[pid[b]] = frame[frameIndex[b]]
  /\ \A p \in Pages : (\A b \in Loaded : pid[b] # p) => F[p] = disk[p]

LEMMA ContentShown ==
  ASSUME TypeInv, Structure PROVE Shown(Content)
<1> DEFINE at(p) == {b \in Loaded : pid[b] = p}
<1>1. Content = [p \in Pages |-> IF at(p) = {} THEN disk[p]
                                 ELSE frame[frameIndex[CHOOSE b \in at(p) : TRUE]]]
  BY ChainsAre DEF Content, Loaded
<1>2. \A b \in Loaded : pid[b] \in Pages /\ frameIndex[b] \in Frames /\ b \in Pool
  BY LoadedOK
<1>3. ASSUME NEW p \in Pages, NEW b \in Loaded, pid[b] = p
      PROVE  at(p) # {} /\ (CHOOSE d \in at(p) : TRUE) = b
  <2>1. at(p) = {b}
    BY <1>2, <1>3 DEF Structure, PagesApart
  <2> HIDE DEF at
  <2>2. QED
    BY <2>1
<1>4. \A p \in Pages : (\A b \in Loaded : pid[b] # p) => at(p) = {}
  OBVIOUS
<1>5. \A p \in Pages : at(p) = {} \/ \E b \in Loaded : pid[b] = p
  OBVIOUS
<1> HIDE DEF at
<1>6. \A b \in Loaded : Content[pid[b]] = frame[frameIndex[b]]
  BY <1>1, <1>2, <1>3
<1>7. \A p \in Pages : (\A b \in Loaded : pid[b] # p) => Content[p] = disk[p]
  BY <1>1, <1>4
<1>8. \A p \in Pages : Content[p] \in Versions
  BY <1>2, <1>5, <1>6, <1>7, <1>4 DEF TypeInv, TypeOK, ContentOK
<1>9. QED
  BY <1>1, <1>6, <1>7, <1>8 DEF Shown

LEMMA ContentIsShown == TypeInv /\ Structure => Shown(Content)
  BY ContentShown

(* What the other clients keep from being loaded stays so.                  *)
LEMMA LoadedNext ==
  ASSUME NEW c \in Clients, OnlyFor(c)
  PROVE  \A b : b \in Loaded' <=> /\ b \in Pool' /\ b \notin Unready(c)'
                                  /\ \A d \in Clients \ {c} : b \notin Unready(d)
<1>1. \A d \in Clients \ {c} : Unready(d)' = Unready(d)
  BY DEF OnlyFor, Unready
<1>2. \A b : b \in Loaded' <=> b \in Pool' /\ \A d \in Clients : b \notin Unready(d)'
  BY DEF Loaded, BeingLoaded, BeingDeleted, Unready, Loading, Locating
<1>3. QED
  BY <1>1, <1>2

LEMMA OnlyMine ==
  ASSUME TypeInv, Structure, Apart, NEW c \in Clients, NEW b \in Pool, pid[b] \in PagesOf[c]
  PROVE  \A d \in Clients \ {c} : b \notin Unready(d)
<1> SUFFICES ASSUME NEW d \in Clients \ {c}, b \in Unready(d) PROVE FALSE
  OBVIOUS
<1>1. PagesOf[c] \cap PagesOf[d] = {}
  BY DEF Apart, OneClient, NoSharing
<1>2. pid[b] = Page(d) /\ Page(d) \in PagesOf[d]
  <2>1. CASE pc[d] \in Loading
    <3>1. b = newBCB[d] /\ b \notin Taken(d)
      BY <2>1 DEF Unready, Pool, Structure, Lists, ListsApart
    <3>2. pc[d] \in Opening
      BY <2>1, <3>1 DEF Taken, Loading, Opening, Searching
    <3>3. QED
      BY <3>1, <3>2 DEF Structure, At, Call, Opening, Searching, Locating
  <2>2. CASE pc[d] = "resetNext"
    BY <2>2 DEF Unready, Structure, At, Call, Loading, Locating
  <2>3. QED
    BY <2>1, <2>2 DEF Unready
<1>3. QED
  BY <1>1, <1>2

LEMMA FlushingKept ==
  ASSUME NEW c \in Clients, OnlyFor(c), \A d \in Clients : Flushing(d),
         pc'[c] = "flushAll" => Flushing(c)'
  PROVE  \A d \in Clients : Flushing(d)'
<1>1. \A d \in Clients \ {c} : pc'[d] # "flushAll"
  BY DEF OnlyFor, Flushing, OneClient
<1>2. QED
  BY <1>1 DEF Flushing

-----------------------------------------------------------------------------
(***************************************************************************)
(* The steps that leave Content alone.                                     *)
(***************************************************************************)

(* A step after which the loaded pages and their contents are the same.     *)
LEMMA Unseen ==
  ASSUME TypeInv, TypeInv', Structure, Structure', StoreInv,
         NEW c \in Clients, OnlyFor(c), Asks(c)', pc'[c] = "flushAll" => Flushing(c)',
         \A b : b \in Pool' /\ b \notin Unready(c)' <=> b \in Pool /\ b \notin Unready(c),
         \A b \in Loaded : pid'[b] = pid[b] /\ frameIndex'[b] = frameIndex[b]
                           /\ modified'[b] = modified[b],
         frame' = frame, disk' = disk
  PROVE  StoreInv' /\ Content' = Content
<1>1. \A b : b \in Loaded' <=> b \in Loaded
  BY LoadedNext, LoadedIs
<1>2. Content' = Content
  <2>1. Shown(Content) /\ Shown(Content)'
    BY ContentIsShown, PTL
  <2>2. \A p \in Pages : Content'[p] = Content[p]
    BY <1>1, <2>1 DEF Shown
  <2>3. QED
    BY <2>1, <2>2 DEF Shown
<1>3. \A b \in Loaded' : Clean(b)'
  BY <1>1 DEF StoreInv, Clean
<1>4. \A d \in Clients : Asks(d)'
  BY DEF StoreInv, OnlyFor, Asks
<1>5. \A d \in Clients : Flushing(d)'
  BY FlushingKept DEF StoreInv
<1>6. QED
  BY <1>2, <1>3, <1>4, <1>5 DEF StoreInv

LEMMA StillUnseen ==
  ASSUME TypeInv, TypeInv', Structure, Structure', StoreInv,
         NEW c \in Clients, Still(c), Asks(c)', pc'[c] = "flushAll" => Flushing(c)',
         Unready(c)' = Unready(c), modified' = modified, frame' = frame, disk' = disk
  PROVE  StoreInv' /\ Content' = Content
<1>1. Pool' = Pool
  BY StillLists
<1>2. QED
  BY <1>1, Unseen DEF Still

LEMMA RequestUnseen ==
  ASSUME TypeInv, TypeInv', Structure, Structure', StoreInv, Apart, NoFlush, NEW c \in Clients,
         Request(c)
  PROVE  StoreInv' /\ Content' = Content
<1> USE DEF TypeInv, TypeOK, ClientOK
<1>1. Asks(c)'
  BY StepAsks DEF StoreInv, Step
<1>2. /\ pc[c] = "idle" /\ pc'[c] \in {"lookup", "popCheck", "reset", "flushAll"}
      /\ UNCHANGED <<bcbVars, frame, disk>>
      /\ pc'[c] = "flushAll" => CallFlushAll(c)
  BY DEF Request, CallFix, CallEmptyFix, CallReset, CallFlushAll, MayAsk, Idle, Begin, Goto
<1>3. Still(c)
  BY RequestStructure
<1>4. Unready(c)' = Unready(c)
  BY <1>2 DEF Unready, Loading, Locating
<1>5. pc'[c] = "flushAll" => Flushing(c)'
  <2>1. pc'[c] = "flushAll" => OneClient /\ todo'[c] = Pool
    BY <1>2, ChainsAre DEF NoFlush, CallFlushAll, Begin
  <2>2. Pool' = Pool
    BY <1>3, StillLists
  <2>3. QED
    BY <2>1, <2>2 DEF Flushing, OneClient
<1>6. QED
  BY <1>1, <1>2, <1>3, <1>4, <1>5, StillUnseen DEF bcbVars

LEMMA ProceedUnseen ==
  ASSUME TypeInv, TypeInv', Structure, Structure', StoreInv, Apart, Spare, NEW c \in Clients,
         \/ FixLookup(c) \/ FixWalk(c) \/ PopCheck(c) \/ TryBucket(c) \/ TryHead(c) \/ TryNext(c)
         \/ TryVictim(c) \/ ReadLatch(c) \/ Latch(c) \/ UpgradeAcquire(c) \/ FlushDone(c)
         \/ \E h \in Buckets : PickBucket(c, h)
  PROVE  StoreInv' /\ Content' = Content
<1> USE DEF TypeInv, TypeOK, ClientOK
<1>1. Asks(c)'
  BY StepAsks DEF StoreInv, Step, Proceed
<1>2. Still(c)
  BY LookupStructure, WalkStructure, PopCheckStructure, TryBucketStructure, TryHeadStructure,
     TryNextStructure, TryVictimStructure, ReadLatchStructure, LatchStructure, UpgradeStructure, FlushStructure,
     PickStructure
<1>3. UNCHANGED <<bcbVars, frame, disk>>
  BY DEF FixLookup, FixWalk, PopCheck, TryBucket, TryHead, TryNext, TryVictim, ReadLatch, Latch,
         UpgradeAcquire, FlushDone, PickBucket
<1>4. Unready(c)' = Unready(c) /\ pc'[c] # "flushAll"
  <2>1. CASE FixLookup(c) \/ FixWalk(c) \/ PopCheck(c) \/ ReadLatch(c)
    BY <2>1 DEF FixLookup, FixWalk, PopCheck, ReadLatch, Goto, Unready, Loading, Locating, localVars
  <2>2. CASE \/ TryBucket(c) \/ TryHead(c) \/ TryNext(c) \/ TryVictim(c)
             \/ \E h \in Buckets : PickBucket(c, h)
    BY <2>2 DEF TryBucket, TryHead, TryNext, TryVictim, PickBucket, Goto, Unready, Loading, Locating, localVars
  <2>3. CASE Latch(c) \/ UpgradeAcquire(c) \/ FlushDone(c)
    BY <2>3 DEF Latch, UpgradeAcquire, FlushDone, Return, Goto, Unready, Loading, Locating
  <2>4. QED
    BY <2>1, <2>2, <2>3
<1>5. QED
  BY <1>1, <1>2, <1>3, <1>4, StillUnseen DEF bcbVars

LEMMA ResetUnseen ==
  ASSUME TypeInv, TypeInv', Structure, Structure', StoreInv, Apart, NEW c \in Clients,
         \/ ResetHead(c) /\ (bucket[Hash(Page(c))] = NoBCB \/ pid[bucket[Hash(Page(c))]] # Page(c))
         \/ ResetWalk(c) /\ (next[ptr[c]] = NoBCB \/ pid[next[ptr[c]]] # Page(c))
  PROVE  StoreInv' /\ Content' = Content
<1> USE DEF TypeInv, TypeOK, ClientOK
<1>1. Asks(c)'
  BY StepAsks DEF StoreInv, Step, Proceed
<1>2. Still(c)
  <2>1. CASE ResetHead(c)
    <3>1. PICK k \in Buckets : k = Hash(Page(c))
      BY <2>1, HashOK DEF ResetHead, LocalsOK, PageSet, Page
    <3>2. bucket[k] = NoBCB \/ pid[bucket[k]] # Page(c)
      BY <2>1, <3>1 DEF ResetHead, ResetWalk
    <3>3. QED
      BY <2>1, <3>1, <3>2, ResetHeadStill
  <2>2. CASE ResetWalk(c)
    BY <2>2, ResetWalkStill DEF ResetHead, ResetWalk
  <2>3. QED
    BY <2>1, <2>2
<1>3. UNCHANGED <<bcbVars, frame, disk>>
  BY DEF ResetHead, ResetWalk
<1>4. Unready(c)' = Unready(c) /\ pc'[c] # "flushAll"
  BY DEF ResetHead, ResetWalk, Return, Goto, Unready, Loading, Locating
<1>5. QED
  BY <1>1, <1>2, <1>3, <1>4, StillUnseen DEF bcbVars

(* The BCB a client has taken out of the lists is in no chain.              *)
LEMMA TakenNotPooled ==
  ASSUME Structure, NEW c \in Clients, NEW b \in Taken(c)
  PROVE  b \notin Pool
  BY DEF Structure, Lists, ListsApart, Pool

LEMMA LoadUnseen ==
  ASSUME TypeInv, TypeInv', Structure, Structure', StoreInv, Apart, Spare, NEW c \in Clients,
         Pop(c) \/ Claim(c) \/ Link(c) \/ PopFrame(c) \/ Place(c)
  PROVE  StoreInv' /\ Content' = Content
<1> USE DEF TypeInv, TypeOK, ClientOK
<1>1. Asks(c)' /\ OnlyFor(c)
  BY StepAsks, StepOnlyFor DEF StoreInv, Step, Proceed
<1>2. CASE Pop(c)
  <2>1. pc[c] = "pop" /\ pc'[c] = "claim" /\ UNCHANGED <<bcbVars, frame, disk>>
    BY <1>2, BCBLeft DEF Pop, Goto
  <2>2. Pool' = Pool
    BY <1>2, PopStructure
  <2>3. Unready(c) = {} /\ Unready(c)' = {}
    BY <2>1 DEF Unready, Loading, Locating
  <2>4. QED
    BY <1>1, <2>1, <2>2, <2>3, Unseen DEF bcbVars
<1>3. CASE Claim(c)
  <2>1. /\ pc[c] = "claim" /\ pc'[c] = "link" /\ frame' = frame /\ disk' = disk
        /\ newBCB' = newBCB
        /\ \A b \in BCBs \ {newBCB[c]} : pid'[b] = pid[b] /\ frameIndex'[b] = frameIndex[b]
                                         /\ modified'[b] = modified[b]
    BY <1>3 DEF Claim, Goto, localVars, BCBOK
  <2>2. Pool' = Pool
    BY <1>3, ClaimStructure
  <2>3. newBCB[c] \notin Pool
    BY <2>1, TakenNotPooled DEF Taken
  <2>4. Unready(c) = {} /\ Unready(c)' = {newBCB[c]}
    BY <2>1 DEF Unready, Loading, Locating
  <2>5. \A b \in Loaded : b \in BCBs \ {newBCB[c]}
    BY <2>3, LoadedOK
  <2>6. QED
    BY <1>1, <2>1, <2>2, <2>3, <2>4, <2>5, Unseen
<1>4. CASE Link(c)
  <2>1. /\ pc[c] = "link" /\ pc'[c] = "getFrame" /\ UNCHANGED <<bcbVars, frame, disk, newBCB>>
    BY <1>4 DEF Link, Goto, localVars
  <2>2. Pool' = {newBCB[c]} \cup Pool
    BY <1>4, LinkStructure
  <2>3. Unready(c) = {newBCB[c]} /\ Unready(c)' = {newBCB[c]}
    BY <2>1 DEF Unready, Loading, Locating
  <2>4. QED
    BY <1>1, <2>1, <2>2, <2>3, Unseen DEF bcbVars
<1>5. CASE PopFrame(c)
  <2>1. /\ pc[c] = "getFrame" /\ pc'[c] \in {"place", "pick"}
        /\ UNCHANGED <<bcbVars, frame, disk, newBCB>>
    BY <1>5 DEF PopFrame, Goto
  <2>2. Pool' = Pool
    BY <1>5, PopFrameStructure
  <2>3. Unready(c) = {newBCB[c]} /\ Unready(c)' = {newBCB[c]}
    BY <2>1 DEF Unready, Loading, Locating
  <2>4. QED
    BY <1>1, <2>1, <2>2, <2>3, Unseen DEF bcbVars
<1>6. CASE Place(c)
  <2>1. /\ pc[c] = "place" /\ pc'[c] \in {"readLatch", "emptyLatch"}
        /\ UNCHANGED <<pid, modified, frame, disk, newBCB>>
        /\ \A b \in BCBs \ {newBCB[c]} : frameIndex'[b] = frameIndex[b]
    BY <1>6 DEF Place, Goto, localVars, BCBOK
  <2>2. Pool' = Pool
    BY <1>6, PlaceStructure
  <2>3. Unready(c) = {newBCB[c]} /\ Unready(c)' = {newBCB[c]}
    BY <2>1 DEF Unready, Loading, Locating
  <2>4. \A b \in Loaded : b \in BCBs \ {newBCB[c]}
    BY <2>3, LoadedOK, LoadedIs
  <2>5. QED
    BY <1>1, <2>1, <2>2, <2>3, <2>4, Unseen
<1>7. QED
  BY <1>2, <1>3, <1>4, <1>5, <1>6

LEMMA ResetFreeUnseen ==
  ASSUME TypeInv, TypeInv', Structure, Structure', StoreInv, Apart, NEW c \in Clients, ResetFree(c)
  PROVE  StoreInv' /\ Content' = Content
<1> USE DEF TypeInv, TypeOK, ClientOK
<1>1. Asks(c)' /\ OnlyFor(c)
  BY StepAsks, StepOnlyFor DEF StoreInv, Step, Proceed
<1>2. /\ pc[c] \in {"resetHead", "resetNext"} /\ pc'[c] = "idle"
      /\ UNCHANGED <<bcbVars, frame, disk>>
  BY DEF ResetFree, Return, Goto
<1>3. Pool' = Pool \ {victim[c]}
  BY ResetFreeStructure
<1>4. Unready(c)' = {}
  BY <1>2 DEF Unready, Loading, Locating
<1>5. pc[c] = "resetHead" => Unready(c) = {} /\ victim[c] \notin Pool
  BY TakenNotPooled DEF Taken, Unready, Loading, Locating
<1>6. pc[c] = "resetNext" => Unready(c) = {victim[c]}
  BY DEF Unready, Loading, Locating
<1>7. QED
  BY <1>1, <1>2, <1>3, <1>4, <1>5, <1>6, Unseen DEF bcbVars

LEMMA UnfixUnseen ==
  ASSUME TypeInv, TypeInv', LatchInv, Structure, Structure', StoreInv, Apart, NEW c \in Clients,
         \E h \in held[c] : Unfix(c, h) \/ UpgradeRelease(c, h)
  PROVE  StoreInv' /\ Content' = Content
<1> USE DEF TypeInv, TypeOK, ClientOK
<1>1. Asks(c)'
  BY StepAsks DEF StoreInv, Step, Use
<1>2. Still(c)
  BY UseStructure DEF Use
<1>3. /\ pc[c] = "idle" /\ pc'[c] \in {"idle", "upgrade"}
      /\ UNCHANGED <<bcbVars, frame, disk>>
  BY DEF Unfix, UpgradeRelease, Idle, Begin, Goto
<1>4. Unready(c)' = Unready(c)
  BY <1>3 DEF Unready, Loading, Locating
<1>5. QED
  BY <1>1, <1>2, <1>3, <1>4, StillUnseen DEF bcbVars

-----------------------------------------------------------------------------
(***************************************************************************)
(* The steps that read, write and flush a page, and those that drop one.   *)
(***************************************************************************)

LEMMA ContentBecomes ==
  ASSUME TypeInv', Structure', NEW F \in [Pages -> Versions],
         \A b \in Loaded' : F[pid'[b]] = frame'[frameIndex'[b]],
         \A p \in Pages : (\A b \in Loaded' : pid'[b] # p) => F[p] = disk'[p]
  PROVE  Content' = F
<1>1. Shown(Content)'
  BY ContentIsShown, PTL
<1>2. \A p \in Pages : Content'[p] = F[p]
  BY <1>1 DEF Shown
<1>3. QED
  BY <1>1, <1>2 DEF Shown

LEMMA LoadedApart ==
  ASSUME TypeInv, Structure, NEW b \in Placed, NEW x \in Loaded, x # b
  PROVE  pid[x] # pid[b] /\ frameIndex[x] # frameIndex[b]
  BY LoadedOK DEF Structure, PagesApart, FramesApart, Placed

LEMMA ContentAt ==
  ASSUME TypeInv, Structure, NEW b \in Loaded
  PROVE  Content[pid[b]] = frame[frameIndex[b]]
  BY ContentShown DEF Shown

(* The page a call has set up: nobody sees it yet.                          *)
LEMMA Opened ==
  ASSUME TypeInv, Structure, Apart, NEW c \in Clients, pc[c] \in {"read", "emptyLatch"}
  PROVE  /\ newBCB[c] \in Placed /\ newBCB[c] \in BCBs /\ newBCB[c] \notin Loaded
         /\ pid[newBCB[c]] = Page(c) /\ Page(c) \in Pages
         /\ frameIndex[newBCB[c]] \in Frames
         /\ \A d \in Clients \ {c} : newBCB[c] \notin Unready(d)
<1> DEFINE b == newBCB[c]
<1>1. /\ b \in Pool /\ pid[b] = Page(c) /\ frameIndex[b] # INVALID
      /\ Page(c) \in PagesOf[c]
  BY DEF Structure, At, Call, Opening
<1>2. b \in BCBs /\ Page(c) \in Pages
  BY <1>1, PoolBCBs, BufferAssumption
<1>3. \A d \in Clients \ {c} : b \notin Unready(d)
  BY <1>1, OnlyMine
<1>4. b \notin BeingDeleted
  BY <1>3 DEF BeingDeleted, Unready, Loading, Locating
<1>5. b \notin Loaded
  BY LoadedIs DEF Unready, Loading
<1>6. QED
  BY <1>1, <1>2, <1>3, <1>4, <1>5 DEF Placed, FrameValid, TypeInv, TypeOK, BCBOK

LEMMA ReadSeen ==
  ASSUME TypeInv, TypeInv', Structure, Structure', StoreInv, Apart, NEW c \in Clients, Read(c)
  PROVE  StoreInv' /\ Content' = Content
<1> DEFINE b == newBCB[c]
<1>1. Asks(c)' /\ OnlyFor(c)
  BY StepAsks, StepOnlyFor DEF StoreInv, Step, Proceed
<1>2. /\ pc[c] = "read" /\ pc'[c] = "latch" /\ UNCHANGED <<pid, frameIndex, modified, disk>>
      /\ frame' = [frame EXCEPT ![frameIndex[b]] = disk[Page(c)]]
  BY DEF Read, Goto, bcbVars, TypeInv, TypeOK, ClientOK
<1>3. Pool' = Pool
  BY ReadStructure, StillLists
<1>4. /\ b \in Placed /\ b \in BCBs /\ b \notin Loaded /\ pid[b] = Page(c) /\ Page(c) \in Pages
      /\ frameIndex[b] \in Frames /\ \A d \in Clients \ {c} : b \notin Unready(d)
  BY <1>2, Opened
<1>5. Unready(c) = {b} /\ Unready(c)' = {}
  BY <1>2 DEF Unready, Loading, Locating
<1>6. \A x : x \in Loaded' <=> x \in Loaded \/ x = b
  BY <1>1, <1>3, <1>4, <1>5, LoadedNext, LoadedIs DEF Placed
<1>7. frame'[frameIndex[b]] = disk[pid[b]]
  BY <1>2, <1>4 DEF TypeInv, TypeOK, ContentOK
<1>8. \A x \in Loaded : pid[x] # pid[b] /\ frame'[frameIndex[x]] = frame[frameIndex[x]]
  BY <1>2, <1>4, LoadedApart, LoadedOK DEF TypeInv, TypeOK, ContentOK
<1>9. Content' = Content
  <2>1. Shown(Content) /\ Content[pid[b]] = disk[pid[b]]
    BY <1>4, <1>8, ContentShown DEF Shown
  <2>2. Content \in [Pages -> Versions]
    BY <2>1 DEF Shown
  <2>3. \A x \in Loaded' : Content[pid'[x]] = frame'[frameIndex'[x]]
    BY <1>2, <1>6, <1>7, <1>8, <2>1 DEF Shown
  <2>4. \A p \in Pages : (\A x \in Loaded' : pid'[x] # p) => Content[p] = disk'[p]
    BY <1>2, <1>6, <2>1 DEF Shown
  <2>5. QED
    BY <2>2, <2>3, <2>4, ContentBecomes
<1>10. \A x \in Loaded' : Clean(x)'
  BY <1>2, <1>6, <1>7, <1>8 DEF StoreInv, Clean
<1>11. \A d \in Clients : Asks(d)' /\ Flushing(d)'
  BY <1>1, <1>2, FlushingKept DEF StoreInv, OnlyFor, Asks
<1>12. QED
  BY <1>9, <1>10, <1>11 DEF StoreInv

LEMMA EmptyLatchSeen ==
  ASSUME TypeInv, TypeInv', Structure, Structure', StoreInv, Apart, NEW c \in Clients, EmptyLatch(c)
  PROVE  /\ StoreInv' /\ Page(c) \in Pages
         /\ \E v \in Versions : Content' = [Content EXCEPT ![Page(c)] = v]
<1> DEFINE b == newBCB[c]  v == frame[frameIndex[b]]
<1>1. Asks(c)' /\ OnlyFor(c)
  BY StepAsks, StepOnlyFor DEF StoreInv, Step, Proceed
<1>2. /\ pc[c] = "emptyLatch" /\ pc'[c] = "idle" /\ UNCHANGED <<pid, frameIndex, frame, disk>>
      /\ modified' = [modified EXCEPT ![b] = TRUE]
  BY DEF EmptyLatch, Return, Goto, TypeInv, TypeOK, ClientOK
<1>3. Pool' = Pool
  BY EmptyLatchStructure, StillLists
<1>4. /\ b \in Placed /\ b \in BCBs /\ b \notin Loaded /\ pid[b] = Page(c) /\ Page(c) \in Pages
      /\ frameIndex[b] \in Frames /\ \A d \in Clients \ {c} : b \notin Unready(d)
  BY <1>2, Opened
<1>5. Unready(c) = {b} /\ Unready(c)' = {}
  BY <1>2 DEF Unready, Loading, Locating
<1>6. \A x : x \in Loaded' <=> x \in Loaded \/ x = b
  BY <1>1, <1>3, <1>4, <1>5, LoadedNext, LoadedIs DEF Placed
<1>7. v \in Versions
  BY <1>4 DEF TypeInv, TypeOK, ContentOK
<1>8. \A x \in Loaded : pid[x] # pid[b] /\ modified'[x] = modified[x]
  BY <1>2, <1>4, LoadedApart, LoadedOK DEF TypeInv, TypeOK, BCBOK
<1>9. Content' = [Content EXCEPT ![Page(c)] = v]
  <2> DEFINE F == [Content EXCEPT ![Page(c)] = v]
  <2>1. Shown(Content)
    BY ContentShown
  <2>2. F \in [Pages -> Versions] /\ F[Page(c)] = v
        /\ \A p \in Pages \ {Page(c)} : F[p] = Content[p]
    BY <1>4, <1>7, <2>1 DEF Shown
  <2> HIDE DEF F
  <2>3. \A x \in Loaded' : F[pid'[x]] = frame'[frameIndex'[x]]
    BY <1>2, <1>4, <1>6, <1>8, <2>1, <2>2, LoadedOK DEF Shown
  <2>4. \A p \in Pages : (\A x \in Loaded' : pid'[x] # p) => F[p] = disk'[p]
    BY <1>2, <1>4, <1>6, <2>1, <2>2 DEF Shown
  <2>5. Content' = F
    BY <2>2, <2>3, <2>4, ContentBecomes
  <2>6. QED
    BY <2>5 DEF F
<1>10. \A x \in Loaded' : Clean(x)'
  BY <1>2, <1>4, <1>6, <1>8 DEF StoreInv, Clean, TypeInv, TypeOK, BCBOK
<1>11. \A d \in Clients : Asks(d)' /\ Flushing(d)'
  BY <1>1, <1>2, FlushingKept DEF StoreInv, OnlyFor, Asks
<1>12. QED
  BY <1>4, <1>7, <1>9, <1>10, <1>11 DEF StoreInv

LEMMA HeldLoaded ==
  ASSUME TypeInv, Structure, Apart, NEW c \in Clients, pc[c] = "idle", NEW h \in held[c]
  PROVE  h.bcb \in Loaded /\ pid[h.bcb] = h.page /\ h.page \in Pages
<1>1. h.bcb \in Pool /\ pid[h.bcb] = h.page /\ h.page \in PagesOf[c]
  BY DEF Structure, At, Call
<1>2. Unready(c) = {} /\ h.page \in Pages
  BY <1>1, BufferAssumption DEF Unready, Loading, Locating
<1>3. QED
  BY <1>1, <1>2, OnlyMine, LoadedIs

LEMMA WriteSeen ==
  ASSUME TypeInv, TypeInv', LatchInv, Structure, Structure', StoreInv, Apart, NEW c \in Clients,
         NEW h \in held[c], NEW v \in Versions, Write(c, h, v)
  PROVE  StoreInv' /\ h.page \in Pages /\ Content' = [Content EXCEPT ![h.page] = v]
<1> DEFINE b == h.bcb
<1>1. Asks(c)' /\ OnlyFor(c)
  BY StepAsks, StepOnlyFor DEF StoreInv, Step, Use
<1>2. /\ pc[c] = "idle" /\ pc' = pc /\ UNCHANGED <<pid, frameIndex, disk>>
      /\ frame' = [frame EXCEPT ![frameIndex[b]] = v]
      /\ modified' = [modified EXCEPT ![b] = TRUE]
  BY DEF Write, Idle
<1>3. b \in Loaded /\ pid[b] = h.page /\ h.page \in Pages
  BY <1>2, HeldLoaded
<1>4. b \in BCBs /\ b \in Placed /\ frameIndex[b] \in Frames
  BY <1>3, LoadedOK
<1>5. Pool' = Pool
  BY UseStructure, StillLists DEF Use
<1>6. Unready(c)' = Unready(c)
  BY <1>2 DEF Unready, Loading, Locating
<1>7. \A x : x \in Loaded' <=> x \in Loaded
  BY <1>1, <1>5, <1>6, LoadedNext, LoadedIs
<1>8. frame'[frameIndex[b]] = v /\ modified'[b]
  BY <1>2, <1>4 DEF TypeInv, TypeOK, ContentOK, BCBOK
<1>9. \A x \in Loaded \ {b} : /\ pid[x] # pid[b] /\ modified'[x] = modified[x]
                              /\ frame'[frameIndex[x]] = frame[frameIndex[x]]
  BY <1>2, <1>4, LoadedApart, LoadedOK DEF TypeInv, TypeOK, ContentOK, BCBOK
<1>10. Content' = [Content EXCEPT ![h.page] = v]
  <2> DEFINE F == [Content EXCEPT ![h.page] = v]
  <2>1. Shown(Content)
    BY ContentShown
  <2>2. F \in [Pages -> Versions] /\ F[h.page] = v
        /\ \A p \in Pages \ {h.page} : F[p] = Content[p]
    BY <1>3, <2>1 DEF Shown
  <2> HIDE DEF F
  <2>3. \A x \in Loaded' : F[pid'[x]] = frame'[frameIndex'[x]]
    <3>1. F[pid[b]] = frame'[frameIndex[b]]
      BY <1>3, <1>8, <2>2
    <3>2. \A x \in Loaded \ {b} : F[pid[x]] = frame'[frameIndex[x]]
      BY <1>3, <1>9, <2>1, <2>2, LoadedOK DEF Shown
    <3>3. QED
      BY <1>2, <1>7, <3>1, <3>2
  <2>4. \A p \in Pages : (\A x \in Loaded' : pid'[x] # p) => F[p] = disk'[p]
    BY <1>2, <1>3, <1>7, <2>1, <2>2 DEF Shown
  <2>5. Content' = F
    BY <2>2, <2>3, <2>4, ContentBecomes
  <2>6. QED
    BY <2>5 DEF F
<1>11. \A x \in Loaded' : Clean(x)'
  BY <1>2, <1>7, <1>8, <1>9 DEF StoreInv, Clean
<1>12. \A d \in Clients : Asks(d)' /\ Flushing(d)'
  BY <1>1, <1>2, FlushingKept DEF StoreInv, OnlyFor, Asks
<1>13. QED
  BY <1>3, <1>10, <1>11, <1>12 DEF StoreInv

(* A loaded page written back: a clean one is on disk already.              *)
LEMMA Persists ==
  ASSUME TypeInv, Structure, StoreInv, NEW b \in Loaded, WriteBack(b)
  PROVE  /\ disk' = [disk EXCEPT ![pid[b]] = Content[pid[b]]]
         /\ disk'[pid[b]] = frame[frameIndex[b]]
         /\ \A p \in Pages \ {pid[b]} : disk'[p] = disk[p]
<1>1. pid[b] \in Pages /\ disk \in [Pages -> Versions]
  BY LoadedOK DEF TypeInv, TypeOK, ContentOK
<1>2. Content[pid[b]] = frame[frameIndex[b]]
  BY ContentAt
<1>3. disk' = [disk EXCEPT ![pid[b]] = frame[frameIndex[b]]]
  BY <1>1 DEF WriteBack, StoreInv, Clean
<1>4. QED
  BY <1>1, <1>2, <1>3

(* A page of the pool written back stays what the clients see.              *)
LEMMA FlushSeen ==
  ASSUME TypeInv, TypeInv', Structure, Structure', StoreInv,
         NEW c \in Clients, OnlyFor(c), Still(c), Asks(c)', pc'[c] = pc[c], newBCB' = newBCB,
         victim' = victim, modified' = modified, frame' = frame,
         NEW b \in Loaded, WriteBack(b), pc'[c] = "flushAll" => Flushing(c)'
  PROVE  StoreInv' /\ Content' = Content
<1>1. Pool' = Pool
  BY StillLists
<1>2. Unready(c)' = Unready(c)
  BY DEF Unready
<1>3. \A x : x \in Loaded' <=> x \in Loaded
  BY <1>1, <1>2, LoadedNext, LoadedIs
<1>4. /\ disk'[pid[b]] = frame[frameIndex[b]]
      /\ \A p \in Pages \ {pid[b]} : disk'[p] = disk[p]
  BY Persists
<1>5. b \in Placed /\ \A x \in Loaded : pid[x] \in Pages
  BY LoadedOK
<1>6. \A x \in Loaded \ {b} : pid[x] # pid[b]
  BY <1>5, LoadedApart
<1>7. Content' = Content
  <2>1. Shown(Content)
    BY ContentShown
  <2>2. QED
    BY <1>3, <1>4, <2>1, ContentBecomes DEF Shown, Still
<1>8. \A x \in Loaded' : Clean(x)'
  BY <1>3, <1>4, <1>5, <1>6 DEF StoreInv, Clean, Still
<1>9. \A d \in Clients : Asks(d)' /\ Flushing(d)'
  BY FlushingKept DEF StoreInv, OnlyFor, Asks
<1>10. QED
  BY <1>7, <1>8, <1>9 DEF StoreInv

LEMMA FlushPageSeen ==
  ASSUME TypeInv, TypeInv', LatchInv, Structure, Structure', StoreInv, Apart, NEW c \in Clients,
         NEW h \in held[c], FlushPage(c, h)
  PROVE  /\ StoreInv' /\ Content' = Content /\ h.page \in Pages
         /\ disk' = [disk EXCEPT ![h.page] = Content[h.page]]
<1>1. Asks(c)' /\ OnlyFor(c) /\ Still(c)
  BY StepAsks, StepOnlyFor, UseStructure DEF StoreInv, Step, Use
<1>2. /\ pc[c] = "idle" /\ pc' = pc /\ newBCB' = newBCB /\ victim' = victim
      /\ modified' = modified /\ frame' = frame /\ WriteBack(h.bcb)
  BY DEF FlushPage, Idle, localVars, bcbVars
<1>3. h.bcb \in Loaded /\ pid[h.bcb] = h.page /\ h.page \in Pages
  BY <1>2, HeldLoaded
<1>4. QED
  BY <1>1, <1>2, <1>3, FlushSeen, Persists

LEMMA FlushNextSeen ==
  ASSUME TypeInv, TypeInv', Structure, Structure', StoreInv, Apart, NEW c \in Clients,
         NEW b \in todo[c], FlushNext(c, b)
  PROVE  /\ StoreInv' /\ Content' = Content /\ pid[b] \in Pages
         /\ disk' = [disk EXCEPT ![pid[b]] = Content[pid[b]]]
<1>1. Asks(c)' /\ OnlyFor(c) /\ Still(c)
  BY StepAsks, StepOnlyFor, FlushStructure DEF StoreInv, Step, Proceed
<1>2. /\ pc[c] = "flushAll" /\ pc' = pc /\ newBCB' = newBCB /\ victim' = victim
      /\ modified' = modified /\ frame' = frame /\ WriteBack(b)
      /\ todo' = [todo EXCEPT ![c] = @ \ {b}]
  BY DEF FlushNext, bcbVars
<1>3. OneClient /\ todo[c] \subseteq Pool
      /\ \A x \in Pool \ todo[c] : frame[frameIndex[x]] = disk[pid[x]]
  BY <1>2 DEF StoreInv, Flushing
<1>4. Loaded = Pool
  BY <1>2, <1>3 DEF Loaded, BeingLoaded, BeingDeleted, Loading, Locating, OneClient
<1>5. /\ b \in Loaded /\ b \in Placed /\ pid[b] \in Pages
      /\ \A x \in Pool : pid[x] \in Pages
  BY <1>3, <1>4, LoadedOK
<1>6. /\ disk'[pid[b]] = frame[frameIndex[b]]
      /\ \A p \in Pages \ {pid[b]} : disk'[p] = disk[p]
  BY <1>2, <1>5, Persists
<1>7. Flushing(c)'
  <2>1. Pool' = Pool /\ pid' = pid /\ frameIndex' = frameIndex
    BY <1>1, StillLists DEF Still
  <2>2. todo'[c] = todo[c] \ {b}
    BY <1>2 DEF TypeInv, TypeOK, ClientOK
  <2>3. \A x \in Pool \ {b} : pid[x] # pid[b]
    BY <1>4, <1>5, LoadedApart
  <2>4. OneClient'
    BY <1>3 DEF OneClient
  <2>5. QED
    BY <1>2, <1>3, <1>5, <1>6, <2>1, <2>2, <2>3, <2>4 DEF Flushing
<1>8. StoreInv' /\ Content' = Content
  BY <1>1, <1>2, <1>5, <1>7, FlushSeen
<1>9. QED
  BY <1>2, <1>5, <1>8, Persists

(* A page leaves the pool: what is on disk is what the clients see of it.   *)
LEMMA Dropped ==
  ASSUME TypeInv, TypeInv', Structure, Structure', StoreInv, NEW c \in Clients, OnlyFor(c),
         Asks(c)', pc'[c] # "flushAll", NEW b \in Loaded,
         \A x : x \in Pool' /\ x \notin Unready(c)' <=> x \in Pool /\ x \notin Unready(c) /\ x # b,
         UNCHANGED <<pid, frameIndex, modified, frame>>,
         \A p \in Pages \ {pid[b]} : disk'[p] = disk[p]
  PROVE  StoreInv' /\ pid[b] \in Pages /\ Content' = [Content EXCEPT ![pid[b]] = disk'[pid[b]]]
<1>1. b \in Placed /\ \A x \in Loaded : pid[x] \in Pages
  BY LoadedOK
<1>2. \A x \in Loaded \ {b} : pid[x] # pid[b]
  BY <1>1, LoadedApart
<1>3. \A x : x \in Loaded' <=> x \in Loaded /\ x # b
  BY LoadedNext, LoadedIs
<1>4. Content' = [Content EXCEPT ![pid[b]] = disk'[pid[b]]]
  <2> DEFINE F == [Content EXCEPT ![pid[b]] = disk'[pid[b]]]
  <2>1. Shown(Content) /\ disk'[pid[b]] \in Versions
    BY <1>1, ContentShown DEF TypeInv, TypeOK, ContentOK
  <2>2. F \in [Pages -> Versions] /\ F[pid[b]] = disk'[pid[b]]
        /\ \A p \in Pages \ {pid[b]} : F[p] = Content[p]
    BY <1>1, <2>1 DEF Shown
  <2> HIDE DEF F
  <2>3. \A x \in Loaded' : F[pid'[x]] = frame'[frameIndex'[x]]
    BY <1>1, <1>2, <1>3, <2>1, <2>2 DEF Shown
  <2>4. \A p \in Pages : (\A x \in Loaded' : pid'[x] # p) => F[p] = disk'[p]
    BY <1>3, <2>1, <2>2 DEF Shown
  <2>5. Content' = F
    BY <2>2, <2>3, <2>4, ContentBecomes
  <2>6. QED
    BY <2>5 DEF F
<1>5. \A x \in Loaded' : Clean(x)'
  BY <1>1, <1>2, <1>3 DEF StoreInv, Clean
<1>6. \A d \in Clients : Asks(d)' /\ Flushing(d)'
  BY FlushingKept DEF StoreInv, OnlyFor, Asks
<1>7. QED
  BY <1>1, <1>4, <1>5, <1>6 DEF StoreInv

LEMMA EvictSeen ==
  ASSUME TypeInv, TypeInv', LatchInv, Structure, Structure', StoreInv, Apart,
         NEW c \in Clients, Evict(c)
  PROVE  /\ StoreInv' /\ Content' = Content
         /\ \E p \in Pages : disk' = [disk EXCEPT ![p] = Content[p]]
<1> DEFINE v == victim[c]
<1>1. Asks(c)' /\ OnlyFor(c)
  BY StepAsks, StepOnlyFor DEF StoreInv, Step, Proceed
<1>2. /\ pc[c] \in {"evictHead", "evictNext"} /\ pc'[c] = "place" /\ newBCB' = newBCB
      /\ UNCHANGED <<pid, frameIndex, modified, frame>> /\ WriteBack(v)
  BY DEF Evict, Goto, bcbVars, TypeInv, TypeOK, ClientOK
<1>3. Pool' = Pool \ {v} /\ v \in Placed
  BY EvictStructure
<1>4. OneClient /\ v # newBCB[c]
  BY <1>2 DEF Structure, At, Positions, Evicting, LatchInv, Owns
<1>5. Unready(c) = {newBCB[c]} /\ Unready(c)' = {newBCB[c]}
  BY <1>2 DEF Unready, Loading, Locating
<1>6. v \in Loaded
  BY <1>3, <1>4, <1>5, LoadedIs DEF OneClient, Placed
<1>7. /\ disk' = [disk EXCEPT ![pid[v]] = Content[pid[v]]]
      /\ disk'[pid[v]] = frame[frameIndex[v]] /\ pid[v] \in Pages
      /\ \A p \in Pages \ {pid[v]} : disk'[p] = disk[p]
  BY <1>2, <1>6, Persists, LoadedOK
<1>8. StoreInv' /\ Content' = [Content EXCEPT ![pid[v]] = disk'[pid[v]]]
  BY <1>1, <1>2, <1>3, <1>5, <1>6, <1>7, Dropped
<1>9. Content' = Content
  BY <1>6, <1>7, <1>8, ContentShown DEF Shown
<1>10. QED
  BY <1>7, <1>8, <1>9

LEMMA ResetSeen ==
  ASSUME TypeInv, TypeInv', Structure, Structure', StoreInv, Apart, NEW c \in Clients,
         \/ /\ ResetHead(c) /\ bucket[Hash(Page(c))] # NoBCB
            /\ pid[bucket[Hash(Page(c))]] = Page(c)
         \/ ResetWalk(c) /\ next[ptr[c]] # NoBCB /\ pid[next[ptr[c]]] = Page(c)
  PROVE  /\ StoreInv' /\ Page(c) \in Pages /\ disk' = disk
         /\ Content' = [Content EXCEPT ![Page(c)] = disk[Page(c)]]
<1>1. Asks(c)' /\ OnlyFor(c)
  BY StepAsks, StepOnlyFor DEF StoreInv, Step, Proceed
<1>2. /\ pc[c] \in {"reset", "resetWalk"} /\ pc'[c] \in {"resetHead", "resetNext"}
      /\ UNCHANGED <<pid, frameIndex, modified, frame, disk>>
  BY DEF ResetHead, ResetWalk, Goto, bcbVars, TypeInv, TypeOK, ClientOK
<1>3. Unready(c) = {} /\ Page(c) \in PagesOf[c]
  BY <1>2, MyPage DEF Unready, Loading, Locating
<1>4. PICK b \in Placed :
        /\ pid[b] = Page(c)
        /\ \A x : x \in Pool' /\ x \notin Unready(c)' <=> x \in Pool /\ x # b
  <2>1. CASE ResetHead(c)
    <3>1. PICK k \in Buckets : k = Hash(Page(c))
      BY <2>1, HashOK DEF ResetHead, TypeInv, LocalsOK, PageSet, Page
    <3>2. bucket[k] # NoBCB /\ pid[bucket[k]] = Page(c)
      BY <1>2, <2>1, <3>1 DEF ResetHead, ResetWalk
    <3>3. Pool' = Pool \ {bucket[k]} /\ bucket[k] \in Placed
      BY <2>1, <3>1, <3>2, ResetHeadFound
    <3>4. Unready(c)' = {}
      BY <1>2, <2>1, <3>1, <3>2 DEF ResetHead, Goto, Unready, Loading, Locating, TypeInv, TypeOK, ClientOK
    <3>5. QED
      BY <3>2, <3>3, <3>4
  <2>2. CASE ResetWalk(c)
    <3>1. next[ptr[c]] # NoBCB /\ pid[next[ptr[c]]] = Page(c)
      BY <2>2 DEF ResetHead, ResetWalk
    <3>2. Pool' = Pool /\ next[ptr[c]] \in Placed
      BY <2>2, <3>1, ResetWalkFound
    <3>3. Unready(c)' = {next[ptr[c]]}
      BY <2>2, <3>1 DEF ResetWalk, Goto, Unready, Loading, Locating, TypeInv, TypeOK, ClientOK
    <3>4. QED
      BY <3>1, <3>2, <3>3
  <2>3. QED
    BY <2>1, <2>2
<1>5. b \in Loaded
  BY <1>3, <1>4, OnlyMine, LoadedIs DEF Placed
<1>6. QED
  BY <1>1, <1>2, <1>3, <1>4, <1>5, Dropped

-----------------------------------------------------------------------------
(***************************************************************************)
(* Restarts.                                                               *)
(***************************************************************************)

(* Nothing is loaded when the process starts.                               *)
Started == Fresh /\ call = [c \in Clients |-> NoCall]

LEMMA StartedStored ==
  ASSUME TypeInv, Structure, Started PROVE StoreInv /\ Content = disk
<1>1. \A h \in Buckets : Chain(h) = {}
  BY LinksOf, MembersOf DEF Started, Fresh, Chain
<1>2. Loaded = {}
  BY <1>1 DEF Loaded, Pool
<1>3. Content = disk
  BY <1>2, ContentShown DEF Shown, TypeInv, TypeOK, ContentOK
<1>4. ASSUME NEW c \in Clients PROVE Asks(c) /\ Flushing(c)
  BY DEF Started, Fresh, Asks, Flushing, NoCall, Locating
<1>5. QED
  BY <1>2, <1>3, <1>4 DEF StoreInv

LEMMA StartStored == TypeInv /\ Structure /\ Started => StoreInv /\ Content = disk
  BY StartedStored

LEMMA RestartStored ==
  ASSUME TypeInv', Structure', Restart PROVE StoreInv' /\ Content' = disk'
<1>1. Started'
  BY DEF Restart, Started, Fresh
<1>2. (StoreInv /\ Content = disk)'
  BY <1>1, StartStored, PTL
<1>3. QED
  BY <1>2

LEMMA SameStored ==
  ASSUME TypeInv, TypeInv', Structure, Structure', StoreInv, UNCHANGED vars
  PROVE  StoreInv' /\ Content' = Content
<1> USE DEF vars, tableVars, listVars, bcbVars, localVars
<1>1. Pool' = Pool
  BY DEF Pool, Chain
<1>2. Loaded' = Loaded
  BY <1>1 DEF Loaded, BeingLoaded, BeingDeleted
<1>3. Content' = Content
  BY ChainsAre DEF Content, Linked, ChainFrom, Reached, BeingLoaded, BeingDeleted
<1>4. StoreInv'
  BY <1>1, <1>2 DEF StoreInv, Clean, Asks, Flushing, OneClient
<1>5. QED
  BY <1>3, <1>4

-----------------------------------------------------------------------------
(***************************************************************************)
(* Each step is one of the store or a stutter.                             *)
(***************************************************************************)

FixedBy == [c \in Clients |-> {[page |-> h.page, mode |-> h.mode] : h \in held[c]}]

LEMMA InFixed ==
  ASSUME NEW c \in Clients, NEW p, NEW m
  PROVE  [page |-> p, mode |-> m] \in FixedBy[c]
           <=> \E h \in held[c] : h.page = p /\ h.mode = m
  BY DEF FixedBy

LEMMA StoreStutters ==
  ASSUME Content' = Content, disk' = disk, held' = held, call' = call
  PROVE  UNCHANGED Store!vars
  BY DEF Store!vars

LEMMA StoreAsks ==
  ASSUME TypeInv, TypeInv', NEW c \in Clients, NEW r, call[c] = NoCall,
         call' = [call EXCEPT ![c] = r], Content' = Content, disk' = disk, held' = held
  PROVE  Store!Next
<1>1. call'[c] = r /\ call'[c] \in Calls
  BY DEF TypeInv, TypeOK, ClientOK
<1>2. Store!Ask(c)
  BY <1>1 DEF Store!Ask
<1>3. QED
  BY <1>2 DEF Store!Next

LEMMA StorePersists ==
  ASSUME NEW p \in Pages, disk' = [disk EXCEPT ![p] = Content[p]],
         Content' = Content, held' = held, call' = call
  PROVE  Store!Next
<1>1. Store!Persist(p)
  BY DEF Store!Persist
<1>2. QED
  BY <1>1 DEF Store!Next

LEMMA StoreAnswers ==
  ASSUME NEW c \in Clients, call[c].kind \in {"flushAll", "reset"},
         call' = [call EXCEPT ![c] = NoCall], Content' = Content, disk' = disk, held' = held
  PROVE  Store!Next
<1>1. Store!FlushAll(c) \/ Store!Reset(c)
  BY DEF Store!FlushAll, Store!Reset, Store!Answer
<1>2. QED
  BY <1>1 DEF Store!Next

LEMMA StoreWrites ==
  ASSUME NEW c \in Clients, NEW h \in held[c], h.mode = "X", h.page \in Pages,
         NEW v \in Versions, Content' = [Content EXCEPT ![h.page] = v],
         disk' = disk, held' = held, call' = call
  PROVE  Store!Next
<1>1. [page |-> h.page, mode |-> "X"] \in FixedBy[c]
  BY InFixed
<1>2. Store!Write(c, h.page)
  BY <1>1 DEF Store!Write, FixedBy
<1>3. QED
  BY <1>2 DEF Store!Next

LEMMA StoreTakes ==
  ASSUME TypeInv, LatchInv, Structure, NEW c \in Clients,
         NEW b \in Pool, pid[b] = Page(c), \A h \in held[c] : h.page # Page(c),
         IF call[c].mode = "X" THEN LatchFree(b) ELSE latchX[b] = {},
         held' = [held EXCEPT ![c] = @ \cup {[bcb |-> b, page |-> Page(c), mode |-> call[c].mode]}],
         call' = [call EXCEPT ![c] = NoCall]
  PROVE  Store!Take(c)
<1> DEFINE p == Page(c)  m == call[c].mode
<1>1. ~Store!Fixed(c, p)
  BY InFixed DEF Store!Fixed, FixedBy
<1>2. \A d \in Clients : \A h \in held[d] : h.page = p => h.bcb = b
  BY DEF Structure, At, Call, PagesApart
<1>3. \A d \in Clients : \A h \in held[d] :
         h.page = p => m # "X" /\ h.mode # "X"
  <2> SUFFICES ASSUME NEW d \in Clients, NEW h \in held[d], h.page = p
               PROVE  m # "X" /\ h.mode # "X"
    OBVIOUS
  <2>1. d \in (IF h.mode = "X" THEN latchX[b] ELSE latchS[b])
    BY <1>2 DEF LatchInv, Owns
  <2>2. QED
    BY <2>1 DEF LatchFree
<1>4. Store!Compatible(c, p, m)
  <2>1. \A d \in Clients : \A k \in {"S", "X"} :
          [page |-> p, mode |-> k] \in FixedBy[d] => m # "X" /\ k # "X"
    BY <1>3, InFixed
  <2>2. QED
    BY <2>1 DEF Store!Compatible, Store!Fixed, FixedBy
<1>5. FixedBy' = [FixedBy EXCEPT ![c] = @ \cup {[page |-> p, mode |-> m]}]
  <2> DEFINE new == [bcb |-> b, page |-> p, mode |-> m]
  <2>1. held'[c] = held[c] \cup {new} /\ \A d \in Clients \ {c} : held'[d] = held[d]
    BY DEF TypeInv, TypeOK, ClientOK
  <2>2. new.page = p /\ new.mode = m
    OBVIOUS
  <2> HIDE DEF new
  <2>3. {[page |-> h.page, mode |-> h.mode] : h \in held'[c]}
          = {[page |-> h.page, mode |-> h.mode] : h \in held[c]} \cup {[page |-> p, mode |-> m]}
    BY <2>1, <2>2
  <2>4. QED
    BY <2>1, <2>3 DEF FixedBy
<1>6. QED
  BY <1>1, <1>4, <1>5 DEF Store!Take, Store!Answer, FixedBy, Page

LEMMA StoreGives ==
  ASSUME TypeInv, LatchInv, Structure, NEW c \in Clients, NEW h \in held[c],
         held' = [held EXCEPT ![c] = @ \ {h}]
  PROVE  /\ FixedBy' = [FixedBy EXCEPT ![c] = @ \ {[page |-> h.page, mode |-> h.mode]}]
         /\ [page |-> h.page, mode |-> h.mode] \in FixedBy[c]
<1>1. \A g \in held[c] : g.page = h.page => g = h
  BY DEF Structure, At, Call, PagesApart, LatchInv, Owns
<1>2. held'[c] = held[c] \ {h} /\ \A d \in Clients \ {c} : held'[d] = held[d]
  BY DEF TypeInv, TypeOK, ClientOK
<1>3. {[page |-> g.page, mode |-> g.mode] : g \in held'[c]}
        = {[page |-> g.page, mode |-> g.mode] : g \in held[c]} \ {[page |-> h.page, mode |-> h.mode]}
  BY <1>1, <1>2
<1>4. FixedBy' = [FixedBy EXCEPT ![c] = @ \ {[page |-> h.page, mode |-> h.mode]}]
  BY <1>2, <1>3 DEF FixedBy
<1>5. [page |-> h.page, mode |-> h.mode] \in FixedBy[c]
  BY InFixed
<1>6. QED
  BY <1>4, <1>5

(* The step keeps the invariant and is one of the store, or none.           *)
Stores == StoreInv' /\ [Store!Next]_(Store!vars)

LEMMA RequestStores ==
  ASSUME TypeInv, TypeInv', Structure, Structure', StoreInv, Apart, NoFlush, NEW c \in Clients,
         Request(c)
  PROVE  Stores
<1>1. StoreInv' /\ Content' = Content
  BY RequestUnseen
<1>2. call[c] = NoCall /\ disk' = disk /\ held' = held
  BY DEF Request, CallFix, CallEmptyFix, CallReset, CallFlushAll, MayAsk, Idle, StoreInv, Asks
<1>3. \E r : call' = [call EXCEPT ![c] = r]
  BY DEF Request, CallFix, CallEmptyFix, CallReset, CallFlushAll, Begin
<1>4. QED
  BY <1>1, <1>2, <1>3, StoreAsks DEF Stores

LEMMA UseStores ==
  ASSUME TypeInv, TypeInv', LatchInv, Structure, Structure', StoreInv, Apart, NEW c \in Clients,
         Use(c)
  PROVE  Stores
<1>1. PICK h \in held[c] : \/ \E v \in Versions : Write(c, h, v)
                           \/ Unfix(c, h) \/ FlushPage(c, h) \/ UpgradeRelease(c, h)
  BY DEF Use
<1>2. pc[c] = "idle"
  BY <1>1 DEF Write, Unfix, FlushPage, UpgradeRelease, Idle
<1>3. h.page \in Pages /\ h.mode \in {"S", "X"} /\ call[c] = NoCall
  BY <1>2, HeldLoaded DEF TypeInv, TypeOK, ClientOK, Handles, StoreInv, Asks
<1>4. CASE \E v \in Versions : Write(c, h, v)
  <2>1. PICK v \in Versions : Write(c, h, v)
    BY <1>4
  <2>2. StoreInv' /\ Content' = [Content EXCEPT ![h.page] = v]
    BY <2>1, WriteSeen
  <2>3. h.mode = "X" /\ disk' = disk /\ held' = held /\ call' = call
    BY <2>1 DEF Write, localVars
  <2>4. QED
    BY <1>3, <2>2, <2>3, StoreWrites DEF Stores
<1>5. CASE FlushPage(c, h)
  <2>1. /\ StoreInv' /\ Content' = Content
        /\ disk' = [disk EXCEPT ![h.page] = Content[h.page]]
    BY <1>5, FlushPageSeen
  <2>2. held' = held /\ call' = call
    BY <1>5 DEF FlushPage, localVars
  <2>3. QED
    BY <1>3, <2>1, <2>2, StorePersists DEF Stores
<1>6. CASE Unfix(c, h) \/ UpgradeRelease(c, h)
  <2>1. StoreInv' /\ Content' = Content
    BY <1>6, UnfixUnseen
  <2>2. disk' = disk /\ held' = [held EXCEPT ![c] = @ \ {h}]
    BY <1>6 DEF Unfix, UpgradeRelease
  <2>3. /\ FixedBy' = [FixedBy EXCEPT ![c] = @ \ {[page |-> h.page, mode |-> h.mode]}]
        /\ [page |-> h.page, mode |-> h.mode] \in FixedBy[c]
    BY <2>2, StoreGives
  <2>4. CASE Unfix(c, h)
    <3>1. Store!Unfix(c, [page |-> h.page, mode |-> h.mode])
      BY <2>1, <2>2, <2>3, <2>4 DEF Unfix, Store!Unfix, FixedBy
    <3>2. QED
      BY <1>3, <2>1, <3>1 DEF Stores, Store!Next
  <2>5. CASE UpgradeRelease(c, h)
    <3>1. h.mode = "S" /\ call' = [call EXCEPT ![c] = [kind |-> "fix", page |-> h.page, mode |-> "X"]]
      BY <2>5 DEF UpgradeRelease, Begin
    <3>2. Store!Upgrade(c, h.page)
      BY <1>3, <2>1, <2>2, <2>3, <3>1 DEF Store!Upgrade, FixedBy
    <3>3. QED
      BY <1>3, <2>1, <3>2 DEF Stores, Store!Next
  <2>6. QED
    BY <1>6, <2>4, <2>5
<1>7. QED
  BY <1>1, <1>4, <1>5, <1>6

LEMMA FixStores ==
  ASSUME TypeInv, TypeInv', Structure, Structure', StoreInv, LatchInv, Apart, Spare,
         NEW c \in Clients, Latch(c) \/ UpgradeAcquire(c)
  PROVE  Stores
<1>1. StoreInv' /\ Content' = Content
  BY ProceedUnseen
<1>2. /\ pc[c] \in {"latch", "upgrade"} /\ call[c].kind = "fix" /\ call[c].mode \in {"S", "X"}
      /\ pc[c] = "upgrade" => call[c].mode = "X"
  BY DEF Latch, UpgradeAcquire, StoreInv, Asks, TypeInv, TypeOK, ClientOK, Calls
<1>3. ptr[c] \in Pool /\ pid[ptr[c]] = Page(c)
  BY <1>2 DEF Structure, At, Call
<1>4. /\ disk' = disk /\ call' = [call EXCEPT ![c] = NoCall]
      /\ Hold(c, ptr[c], call[c].mode) /\ Lock(ptr[c], c, call[c].mode)
  BY <1>2 DEF Latch, UpgradeAcquire, Return, Lock
<1>5. IF call[c].mode = "X" THEN LatchFree(ptr[c]) ELSE latchX[ptr[c]] = {}
  BY <1>4 DEF Lock, LockX, LockS
<1>6. \A h \in held[c] : h.page # Page(c)
  <2>1. c \notin latchX[ptr[c]] /\ c \notin latchS[ptr[c]]
    BY <1>4 DEF Lock, LockX, LockS, LatchFree
  <2>2. \A h \in held[c] : h.page = Page(c) => h.bcb = ptr[c]
    BY <1>3 DEF Structure, At, Call, PagesApart
  <2>3. QED
    BY <2>1, <2>2 DEF LatchInv, Owns
<1>7. Store!Take(c)
  BY <1>3, <1>4, <1>5, <1>6, StoreTakes DEF Hold
<1>8. Store!Fix(c)
  BY <1>1, <1>2, <1>4, <1>7 DEF Store!Fix
<1>9. QED
  BY <1>1, <1>8 DEF Stores, Store!Next

LEMMA EmptyFixStores ==
  ASSUME TypeInv, TypeInv', Structure, Structure', StoreInv, LatchInv, Apart,
         NEW c \in Clients, EmptyLatch(c)
  PROVE  Stores
<1>1. /\ StoreInv' /\ Page(c) \in Pages
      /\ \E v \in Versions : Content' = [Content EXCEPT ![Page(c)] = v]
  BY EmptyLatchSeen
<1>2. pc[c] = "emptyLatch" /\ call[c].kind = "emptyfix" /\ call[c].mode = "X"
  BY DEF EmptyLatch, StoreInv, Asks
<1>3. newBCB[c] \in Pool /\ pid[newBCB[c]] = Page(c) /\ \A h \in held[c] : h.page # Page(c)
  BY <1>2, Opened, MyPage DEF Placed, Seeking
<1>4. /\ disk' = disk /\ call' = [call EXCEPT ![c] = NoCall]
      /\ Hold(c, newBCB[c], call[c].mode) /\ LatchFree(newBCB[c])
  BY <1>2 DEF EmptyLatch, Return, LockX
<1>5. Store!Take(c)
  BY <1>2, <1>3, <1>4, StoreTakes DEF Hold
<1>6. Store!EmptyFix(c)
  BY <1>1, <1>2, <1>4, <1>5 DEF Store!EmptyFix, Page
<1>7. QED
  BY <1>1, <1>6 DEF Stores, Store!Next

LEMMA FlushStores ==
  ASSUME TypeInv, TypeInv', Structure, Structure', StoreInv, Apart, Spare, NEW c \in Clients,
         (\E b \in todo[c] : FlushNext(c, b)) \/ FlushDone(c)
  PROVE  Stores
<1>1. CASE \E b \in todo[c] : FlushNext(c, b)
  <2>1. PICK b \in todo[c] : FlushNext(c, b)
    BY <1>1
  <2>2. /\ StoreInv' /\ Content' = Content /\ pid[b] \in Pages
        /\ disk' = [disk EXCEPT ![pid[b]] = Content[pid[b]]]
    BY <2>1, FlushNextSeen
  <2>3. held' = held /\ call' = call
    BY <2>1 DEF FlushNext
  <2>4. QED
    BY <2>2, <2>3, StorePersists DEF Stores
<1>2. CASE FlushDone(c)
  <2>1. StoreInv' /\ Content' = Content
    BY <1>2, ProceedUnseen
  <2>2. /\ call[c].kind = "flushAll" /\ call' = [call EXCEPT ![c] = NoCall]
        /\ disk' = disk /\ held' = held
    BY <1>2 DEF FlushDone, Return, StoreInv, Asks
  <2>3. QED
    BY <2>1, <2>2, StoreAnswers DEF Stores
<1>3. QED
  BY <1>1, <1>2

LEMMA ResetStores ==
  ASSUME TypeInv, TypeInv', Structure, Structure', StoreInv, Apart, NEW c \in Clients,
         ResetHead(c) \/ ResetWalk(c) \/ ResetFree(c)
  PROVE  Stores
<1> USE DEF TypeInv, TypeOK, ClientOK
<1>1. /\ pc[c] \in {"reset", "resetWalk", "resetHead", "resetNext"}
      /\ call[c].kind = "reset" /\ disk' = disk /\ held' = held
      /\ (pc'[c] = "idle" /\ call' = [call EXCEPT ![c] = NoCall])
         \/ (pc'[c] # "idle" /\ call' = call)
  BY DEF ResetHead, ResetWalk, ResetFree, Return, Goto, StoreInv, Asks
<1>2. CASE \/ /\ ResetHead(c) /\ bucket[Hash(Page(c))] # NoBCB
              /\ pid[bucket[Hash(Page(c))]] = Page(c)
           \/ ResetWalk(c) /\ next[ptr[c]] # NoBCB /\ pid[next[ptr[c]]] = Page(c)
  <2>1. /\ StoreInv' /\ Page(c) \in Pages
        /\ Content' = [Content EXCEPT ![Page(c)] = disk[Page(c)]]
    BY <1>2, ResetSeen
  <2>2. call' = call
    BY <1>2 DEF ResetHead, ResetWalk
  <2>3. Page(c) \in PagesOf[c] /\ \A h \in held[c] : h.page # Page(c)
    BY <1>1, MyPage DEF Seeking
  <2>4. \A d \in Clients : \A h \in held[d] : h.page # Page(c)
    BY <2>3, OnePage DEF Structure, At, Call
  <2>5. \A d \in Clients : ~Store!Fixed(d, Page(c))
    <3>1. \A d \in Clients : \A k : [page |-> Page(c), mode |-> k] \notin FixedBy[d]
      BY <2>4, InFixed
    <3>2. QED
      BY <3>1 DEF Store!Fixed, FixedBy
  <2>6. Store!Discard(c)
    BY <1>1, <2>1, <2>2, <2>5 DEF Store!Discard, Page
  <2>7. QED
    BY <2>1, <2>6 DEF Stores, Store!Next
<1>3. CASE ~ \/ /\ ResetHead(c) /\ bucket[Hash(Page(c))] # NoBCB
                /\ pid[bucket[Hash(Page(c))]] = Page(c)
             \/ ResetWalk(c) /\ next[ptr[c]] # NoBCB /\ pid[next[ptr[c]]] = Page(c)
  <2>1. StoreInv' /\ Content' = Content
    BY <1>3, ResetUnseen, ResetFreeUnseen
  <2>2. QED
    BY <1>1, <2>1, StoreStutters, StoreAnswers DEF Stores
<1>4. QED
  BY <1>2, <1>3

LEMMA QuietStores ==
  ASSUME TypeInv, TypeInv', LatchInv, Structure, Structure', StoreInv, Apart, Spare,
         NEW c \in Clients,
         \/ FixLookup(c) \/ FixWalk(c) \/ PopCheck(c) \/ TryBucket(c) \/ TryHead(c) \/ TryNext(c)
         \/ TryVictim(c) \/ ReadLatch(c) \/ Read(c) \/ (\E h \in Buckets : PickBucket(c, h))
         \/ Pop(c) \/ Claim(c) \/ Link(c) \/ PopFrame(c) \/ Place(c)
  PROVE  Stores
<1>1. StoreInv' /\ Content' = Content
  BY ProceedUnseen, LoadUnseen, ReadSeen
<1>2. disk' = disk /\ held' = held /\ call' = call
  BY DEF FixLookup, FixWalk, PopCheck, TryBucket, TryHead, TryNext, TryVictim, ReadLatch, Read, PickBucket,
         Pop, Claim, Link, PopFrame, Place, localVars
<1>3. QED
  BY <1>1, <1>2, StoreStutters DEF Stores

LEMMA EvictStores ==
  ASSUME TypeInv, TypeInv', LatchInv, Structure, Structure', StoreInv, Apart,
         NEW c \in Clients, Evict(c)
  PROVE  Stores
<1>1. /\ StoreInv' /\ Content' = Content
      /\ \E p \in Pages : disk' = [disk EXCEPT ![p] = Content[p]]
  BY EvictSeen
<1>2. held' = held /\ call' = call
  BY DEF Evict
<1>3. QED
  BY <1>1, <1>2, StorePersists DEF Stores

LEMMA StepStores ==
  ASSUME Apart, Spare, NoFlush, TypeInv, TypeInv', LatchInv, Structure, Structure', StoreInv,
         NEW c \in Clients, Step(c)
  PROVE  Stores
<1>1. CASE Request(c)
  BY <1>1, RequestStores
<1>2. CASE Use(c)
  BY <1>2, UseStores
<1>3. CASE \E h \in Buckets : PickBucket(c, h)
  BY <1>3, QuietStores
<1>4. CASE Proceed(c)
  <2>1. ~AssertFails(c)
    BY NoBadFrame DEF AssertFails
  <2>2. CASE Latch(c) \/ UpgradeAcquire(c) \/ EmptyLatch(c)
    BY <2>2, FixStores, EmptyFixStores
  <2>3. CASE Evict(c)
    BY <2>3, EvictStores
  <2>4. CASE (\E b \in todo[c] : FlushNext(c, b)) \/ FlushDone(c)
    BY <2>4, FlushStores
  <2>5. CASE ResetHead(c) \/ ResetWalk(c) \/ ResetFree(c)
    BY <2>5, ResetStores
  <2>6. CASE \/ FixLookup(c) \/ FixWalk(c) \/ PopCheck(c) \/ Pop(c) \/ Claim(c) \/ Link(c)
             \/ PopFrame(c) \/ TryBucket(c) \/ TryHead(c) \/ TryNext(c) \/ TryVictim(c)
             \/ Place(c) \/ ReadLatch(c) \/ Read(c)
    BY <2>6, QuietStores
  <2>7. QED
    BY <1>4, <2>1, <2>2, <2>3, <2>4, <2>5, <2>6 DEF Proceed
<1>5. QED
  BY <1>1, <1>2, <1>3, <1>4 DEF Step

LEMMA NextStores ==
  ASSUME Apart, Spare, NoFlush, TypeInv, TypeInv', LatchInv, Structure, Structure', StoreInv,
         [Next]_vars
  PROVE  Stores
<1>1. CASE Restart
  <2>1. StoreInv' /\ Content' = disk'
    BY <1>1, RestartStored
  <2>2. Store!Restart
    BY <1>1, <2>1 DEF Restart, Store!Restart
  <2>3. QED
    BY <2>1, <2>2 DEF Stores, Store!Next
<1>2. CASE UNCHANGED vars
  <2>1. StoreInv' /\ Content' = Content
    BY <1>2, SameStored
  <2>2. QED
    BY <1>2, <2>1, StoreStutters DEF Stores, vars, localVars
<1>3. CASE \E c \in Clients : Step(c)
  BY <1>3, StepStores
<1>4. QED
  BY <1>1, <1>2, <1>3 DEF Next

LEMMA InitStored == TypeInv /\ Structure /\ Init => StoreInv /\ Store!Init
<1> SUFFICES ASSUME TypeInv, Structure, Init PROVE StoreInv /\ Store!Init
  OBVIOUS
<1>1. StoreInv /\ Content = disk
  BY StartedStored DEF Init, Started, Fresh
<1>2. FixedBy = [c \in Clients |-> {}]
  BY DEF Init, FixedBy
<1>3. QED
  BY <1>1, <1>2 DEF Init, Store!Init, FixedBy

LEMMA StoredInvariant ==
  ASSUME Apart, Spare, NoFlush
  PROVE  Spec => []StoreInv /\ [][Store!Next]_(Store!vars)
<1>1. Init /\ TypeInv /\ Structure => StoreInv
  BY InitStored
<1>2. TypeInv /\ LatchInv /\ Structure /\ (TypeInv /\ LatchInv /\ Structure)' /\ StoreInv /\ [Next]_vars
        => StoreInv' /\ [Store!Next]_(Store!vars)
  BY NextStores DEF Stores
<1>3. QED
  BY <1>1, <1>2, StructureInvariant, PTL DEF Spec

(* An unmodified page of the pool equals the page on disk, so dropping it   *)
(* without writing it back loses nothing. (getFrame)                        *)
THEOREM CleanOnDisk == ASSUME Apart, Spare, NoFlush PROVE Spec => []CleanIsOnDisk
<1>1. TypeInv /\ StoreInv => CleanIsOnDisk
  BY ChainsAre DEF CleanIsOnDisk, StoreInv, Loaded, Clean
<1>2. QED
  BY <1>1, StructureInvariant, StoredInvariant, PTL

(* When flushAll returns, every page on disk has the content its clients    *)
(* see of it.                                                               *)
THEOREM FlushedAll == ASSUME Apart, Spare, NoFlush PROVE Spec => FlushAllPersists
<1>1. ASSUME TypeInv, Structure, StoreInv, NEW c \in Clients, pc[c] = "flushAll", todo[c] = {}
      PROVE  disk = Content
  <2>1. OneClient /\ \A b \in Pool : frame[frameIndex[b]] = disk[pid[b]]
    BY <1>1 DEF StoreInv, Flushing
  <2>2. Shown(Content)
    BY <1>1, ContentShown
  <2>3. \A p \in Pages : Content[p] = disk[p]
    BY <2>1, <2>2 DEF Shown, Loaded
  <2>4. QED
    BY <1>1, <2>2, <2>3 DEF Shown, TypeInv, TypeOK, ContentOK
<1>2. TypeInv /\ Structure /\ StoreInv =>
        \A c \in Clients : pc[c] = "flushAll" /\ todo[c] = {} /\ pc'[c] = "idle" => disk = Content
  BY <1>1
<1>3. QED
  BY <1>2, StructureInvariant, StoredInvariant, PTL DEF FlushAllPersists

(* The buffer manager implements the PageStore: a client that fixes a page  *)
(* sees what was last written to it, whatever has been replaced, read and   *)
(* written back meanwhile, and a restart finds what was made durable.       *)
THEOREM StoreImplemented == ASSUME Apart, Spare, NoFlush PROVE Spec => ImplementsStore
<1>1. TypeInv /\ Structure /\ Init => Store!Init
  BY InitStored
<1>2. QED
  BY <1>1, StructureInvariant, StoredInvariant, PTL DEF Spec, ImplementsStore, Store!Spec
=============================================================================
