----------------------------- MODULE FeedProofs -----------------------------
(* Machine-checked proofs about Feed, for any number of keys, rows, calls  *)
(* under way and changes, and any length of a page.                        *)
EXTENDS Feed, SequenceTheorems, FiniteSetTheorems, WellFoundedInduction, TLAPS

Item    == [key : Keys, id : Ids]
Items   == Seq(Item)
Offsets == {o \in Int : o >= 0 - Limit}
Asked   == [st : {"asked", "ok"}, op : {"more", "first", "bin", "add"}, key : Keys,
            from : Nat, base : Items, list : Items]

DbOK == /\ view \in Views
        /\ rows \in [Keys -> Seq(Ids)] /\ lastId \in [Keys -> 0..MaxRows]
        /\ \A of \in Keys : \A i \in DOMAIN rows[of] : rows[of][i] <= lastId[of]
        /\ late \subseteq Item

ListOK == /\ key \in Keys /\ posts \in Items /\ offset \in Offsets
          /\ isEnough \in BOOLEAN /\ isFirst \in BOOLEAN
          /\ seen \in [key : Keys, offset : Offsets]
          /\ observer \in Observers
          /\ made \in Items /\ Len(made) = Len(posts)

CallsOK == call \in [Calls -> Asked \cup {Idle}]

RestOK == changes \in 0..MaxChanges /\ upset \subseteq Upsets

TypeInv == DbOK /\ ListOK /\ CallsOK /\ RestOK

----------------------------------------------------------------------------
(* A call under way has all its fields. *)
LEMMA CallFields ==
    ASSUME CallsOK, NEW k \in Calls
    PROVE  IF call[k].st = "idle" THEN call[k] = Idle ELSE call[k] \in Asked
    BY DEF CallsOK, Asked, Idle

(* A page is a list of items of the key that was asked for. *)
LEMMA PageItems ==
    ASSUME DbOK, NEW of \in Keys, NEW from \in Nat
    PROVE  /\ Page(of, from) \in Items /\ Len(Page(of, from)) <= Limit
           /\ \A i \in DOMAIN Page(of, from) : Page(of, from)[i].key = of
           /\ \A i \in DOMAIN Page(of, from) :
                 from + i \in DOMAIN rows[of] /\ Page(of, from)[i].id = rows[of][from + i]
<1> DEFINE last == IF from + Limit > Len(rows[of]) THEN Len(rows[of]) ELSE from + Limit
           p == Page(of, from)
<1>1. rows[of] \in Seq(Ids) /\ Len(rows[of]) \in Nat /\ Limit \in Nat \ {0} /\ last \in Nat
    BY FeedAssumption DEF DbOK
<1>2. p = [i \in 1..(last - from) |-> [key |-> of, id |-> rows[of][from + i]]]
    BY DEF Page
<1>3. last - from <= Limit /\ last <= Len(rows[of]) /\ last - from \in Int
    BY <1>1
<1> HIDE DEF last, p
<1>4. ASSUME NEW i \in 1..(last - from)
      PROVE  p[i] \in Item /\ p[i].key = of /\ from + i \in DOMAIN rows[of] /\ p[i].id = rows[of][from + i]
  <2>1. from + i \in 1..Len(rows[of])
    BY <1>1, <1>3
  <2>2. rows[of][from + i] \in Ids
    BY <1>1, <2>1
  <2> QED
    BY <1>1, <1>2, <2>1, <2>2 DEF Item
<1>5. \E n \in Nat : p \in [1..n -> Item] /\ n <= Limit /\ \A i \in 1..n : i \in 1..(last - from)
  <2>1. CASE last - from \in Nat
    BY <1>1, <1>2, <1>3, <1>4, <2>1
  <2>2. CASE last - from \notin Nat
    BY <1>1, <1>2, <1>3, <2>2
  <2> QED
    BY <2>1, <2>2
<1>6. p \in Items /\ Len(p) <= Limit /\ DOMAIN p \subseteq 1..(last - from)
    BY <1>1, <1>5 DEF Items
<1> QED
    BY <1>4, <1>6 DEF p

(* A list without an item is made of the items of the list. *)
LEMMA WithoutItems ==
    ASSUME NEW list \in Items, NEW e, NEW t \in Without(list, e)
    PROVE  t \in Items /\ \A i \in DOMAIN t : \E j \in DOMAIN list : t[i] = list[j]
<1> DEFINE kept == {i \in DOMAIN list : list[i] # e}
           n == Cardinality(kept)
<1>1. n \in Nat
  <2>1. IsFiniteSet(1..Len(list)) /\ kept \subseteq 1..Len(list)
    BY FS_Interval DEF Items
  <2> QED
    BY <2>1, FS_Subset, FS_CardinalityType
<1>2. PICK f \in [1..n -> kept] : t = [i \in DOMAIN f |-> list[f[i]]]
    BY DEF Without
<1> HIDE DEF n
<1>3. \A i \in 1..n : f[i] \in DOMAIN list
    BY <1>2
<1>4. \A j \in DOMAIN list : list[j] \in Item
    BY DEF Items
<1>5. t \in [1..n -> Item] /\ \A i \in 1..n : t[i] = list[f[i]]
    BY <1>2, <1>3, <1>4
<1> QED
    BY <1>1, <1>3, <1>5 DEF Items

(* A sequence without one place is made of the others. *)
LEMMA RemoveAtItems ==
    ASSUME NEW S, NEW s \in Seq(S), NEW i \in DOMAIN s
    PROVE  /\ RemoveAt(s, i) \in Seq(S) /\ Len(RemoveAt(s, i)) = Len(s) - 1
           /\ \A j \in DOMAIN RemoveAt(s, i) :
                 RemoveAt(s, i)[j] = (IF j < i THEN s[j] ELSE s[j + 1])
<1> DEFINE a == SubSeq(s, 1, i - 1)
           b == SubSeq(s, i + 1, Len(s))
<1>1. Len(s) \in Nat /\ DOMAIN s = 1..Len(s) /\ \A j \in 1..Len(s) : s[j] \in S
    OBVIOUS
<1>2. a \in Seq(S) /\ Len(a) = i - 1 /\ \A j \in 1..(i - 1) : a[j] = s[j]
    BY <1>1, SubSeqProperties
<1>3. b \in Seq(S) /\ Len(b) = Len(s) - i /\ \A j \in 1..(Len(s) - i) : b[j] = s[j + i]
    BY <1>1, SubSeqProperties
<1>4. RemoveAt(s, i) = a \o b
    BY DEF RemoveAt
<1> HIDE DEF a, b
<1>5. /\ a \o b \in Seq(S) /\ Len(a \o b) = Len(a) + Len(b)
      /\ \A j \in 1..(Len(a) + Len(b)) : (a \o b)[j] = IF j <= Len(a) THEN a[j] ELSE b[j - Len(a)]
    BY <1>2, <1>3, ConcatProperties
<1>6. ASSUME NEW j \in 1..(Len(s) - 1)
      PROVE  (a \o b)[j] = (IF j < i THEN s[j] ELSE s[j + 1])
  <2>1. CASE j < i
    BY <1>1, <1>2, <1>3, <1>5, <2>1
  <2>2. CASE ~(j < i)
    <3>1. j - (i - 1) \in 1..(Len(s) - i) /\ j - (i - 1) + i = j + 1
      BY <1>1, <2>2
    <3>2. b[j - (i - 1)] = s[j + 1]
      BY <1>3, <3>1
    <3>3. j \in 1..(Len(a) + Len(b)) /\ ~(j <= Len(a)) /\ j - Len(a) = j - (i - 1)
      BY <1>1, <1>2, <1>3, <2>2
    <3> QED
      BY <1>5, <2>2, <3>2, <3>3
  <2> QED
    BY <2>1, <2>2
<1>7. Len(a \o b) = Len(s) - 1
    BY <1>1, <1>2, <1>3, <1>5
<1>8. DOMAIN (a \o b) = 1..(Len(s) - 1)
    BY <1>5, <1>7, LenProperties
<1> QED
    BY <1>4, <1>5, <1>6, <1>7, <1>8

(* A sequence with another item at a place. *)
LEMMA InsertedItems ==
    ASSUME NEW S, NEW s \in Seq(S), NEW at \in 1..(Len(s) + 1), NEW e \in S
    PROVE  /\ Inserted(s, at, e) \in Seq(S) /\ Len(Inserted(s, at, e)) = Len(s) + 1
           /\ \A j \in DOMAIN Inserted(s, at, e) :
                 Inserted(s, at, e)[j] = (IF j < at THEN s[j] ELSE IF j = at THEN e ELSE s[j - 1])
<1> DEFINE a == SubSeq(s, 1, at - 1)
           b == SubSeq(s, at, Len(s))
           o == <<e>>
           ao == a \o o
<1>1. Len(s) \in Nat /\ DOMAIN s = 1..Len(s) /\ (\A j \in 1..Len(s) : s[j] \in S)
      /\ at \in Nat /\ at >= 1 /\ at <= Len(s) + 1
    OBVIOUS
<1>2. a \in Seq(S) /\ Len(a) = at - 1 /\ \A j \in 1..(at - 1) : a[j] = s[j]
    BY <1>1, SubSeqProperties
<1>3. b \in Seq(S) /\ Len(b) = Len(s) - at + 1 /\ \A j \in 1..(Len(s) - at + 1) : b[j] = s[at + j - 1]
  <2>1. CASE at <= Len(s)
    BY <1>1, <2>1, SubSeqProperties
  <2>2. CASE at = Len(s) + 1
    <3>1. b = << >>
      BY <1>1, <2>2, SubSeqProperties
    <3> HIDE DEF b
    <3> QED
      BY <1>1, <2>2, <3>1
  <2> QED
    BY <1>1, <2>1, <2>2
<1>4. o \in Seq(S) /\ Len(o) = 1 /\ o[1] = e
    OBVIOUS
<1>5. Inserted(s, at, e) = ao \o b
    BY DEF Inserted
<1> HIDE DEF a, b, o
<1>6. /\ ao \in Seq(S) /\ Len(ao) = at
      /\ \A j \in 1..at : ao[j] = IF j < at THEN s[j] ELSE e
  <2>1. /\ ao \in Seq(S) /\ Len(ao) = Len(a) + Len(o)
        /\ \A j \in 1..(Len(a) + Len(o)) : ao[j] = IF j <= Len(a) THEN a[j] ELSE o[j - Len(a)]
    BY <1>2, <1>4, ConcatProperties
  <2> HIDE DEF ao
  <2> QED
    BY <1>2, <1>4, <2>1
<1> HIDE DEF ao
<1>7. /\ ao \o b \in Seq(S) /\ Len(ao \o b) = Len(ao) + Len(b)
      /\ \A j \in 1..(Len(ao) + Len(b)) : (ao \o b)[j] = IF j <= Len(ao) THEN ao[j] ELSE b[j - Len(ao)]
    BY <1>3, <1>6, ConcatProperties
<1>8. ASSUME NEW j \in 1..(Len(s) + 1)
      PROVE  (ao \o b)[j] = (IF j < at THEN s[j] ELSE IF j = at THEN e ELSE s[j - 1])
  <2>1. CASE j <= at
    BY <1>1, <1>3, <1>6, <1>7, <2>1
  <2>2. CASE j > at
    <3>1. j - at \in 1..(Len(s) - at + 1) /\ at + (j - at) - 1 = j - 1
      BY <1>1, <2>2
    <3>2. b[j - at] = s[j - 1]
      BY <1>3, <3>1
    <3> QED
      BY <1>1, <1>3, <1>6, <1>7, <2>2, <3>2
  <2>3. j <= at \/ j > at
    BY <1>1
  <2> QED
    BY <2>1, <2>2, <2>3
<1>9. Len(ao \o b) = Len(s) + 1
    BY <1>1, <1>3, <1>6, <1>7
<1>10. DOMAIN (ao \o b) = 1..(Len(s) + 1)
    BY <1>7, <1>9, LenProperties
<1> QED
    BY <1>5, <1>7, <1>8, <1>9, <1>10

(* The components of a list are as many as its items. *)
LEMMA MadeItems ==
    ASSUME made \in Items, NEW list \in Items
    PROVE  Made(list) \in Items /\ Len(Made(list)) = Len(list)
<1>1. CASE view = "Profile"
    BY <1>1 DEF Made
<1>2. CASE view # "Profile"
  <2>1. Made(list) = [i \in 1..Len(list) |-> IF i \in DOMAIN made THEN made[i] ELSE list[i]]
    BY <1>2 DEF Made, Items
  <2>2. \A i \in 1..Len(list) : Made(list)[i] \in Item
    BY <2>1 DEF Items
  <2>3. Made(list) \in [1..Len(list) -> Item] /\ Len(list) \in Nat
    BY <2>1, <2>2 DEF Items
  <2> QED
    BY <2>3 DEF Items
<1> QED
    BY <1>1, <1>2

----------------------------------------------------------------------------
(* Types: one lemma for what several actions share, then the actions. *)
LEMMA AskTypes ==
    ASSUME TypeInv, NEW k \in Calls, NEW op \in {"more", "first", "bin", "add"}, NEW of \in Keys,
           NEW from \in Nat, NEW base \in Items, Ask(k, op, of, from, base)
    PROVE  CallsOK' /\ upset' \subseteq Upsets
<1> DEFINE new == [st |-> "asked", op |-> op, key |-> of, from |-> from, base |-> base, list |-> <<>>]
<1>1. new \in Asked
    BY DEF Asked, Items
<1>2. call' = [call EXCEPT ![k] = new]
    BY DEF Ask
<1> HIDE DEF new
<1>3. CallsOK'
    BY <1>1, <1>2 DEF CallsOK, TypeInv
<1>4. upset' \subseteq Upsets
    BY DEF Ask, TypeInv, RestOK, Upsets
<1> QED
    BY <1>3, <1>4

(* The observer and the components made anew. *)
LEMMA RenewedTypes ==
    ASSUME TypeInv, Renewed, key' \in Keys, posts' \in Items, offset' \in Offsets,
           isEnough' \in BOOLEAN, isFirst' \in BOOLEAN
    PROVE  ListOK'
<1>1. made' \in Items /\ Len(made') = Len(posts')
    BY MadeItems DEF Renewed, TypeInv, ListOK
<1>2. seen' \in [key : Keys, offset : Offsets] /\ observer' \in Observers
    BY DEF Renewed, TypeInv, ListOK, Observers
<1> QED
    BY <1>1, <1>2 DEF ListOK

(* A call that ends. *)
LEMMA IdleTypes ==
    ASSUME CallsOK, NEW k \in Calls, call' = [call EXCEPT ![k] = Idle]
    PROVE  CallsOK'
    BY DEF CallsOK

(* The sizes a user's actions and the observer ask for. *)
LEMMA AsksTypes ==
    ASSUME TypeInv, NEW k \in Calls,
           \/ LoadMore(k) \/ Search(k) \/ AddPost(k)
           \/ \E i \in DOMAIN posts : Bin(k, i)
    PROVE  TypeInv'
<1>1. posts \in Items /\ Len(posts) \in Nat /\ seen.key \in Keys /\ seen.offset + Limit \in Nat
      /\ <<>> \in Items /\ key \in Keys /\ offset \in Offsets /\ Me \in Keys
    BY FeedAssumption DEF TypeInv, ListOK, Offsets, Items
<1>2. CASE LoadMore(k)
  <2> DEFINE from == IF view = "Profile" THEN Len(posts) ELSE seen.offset + Limit
  <2>1. from \in Nat /\ Ask(k, "more", seen.key, from, posts)
    BY <1>1, <1>2 DEF LoadMore
  <2> HIDE DEF from
  <2>2. CallsOK' /\ upset' \subseteq Upsets
    BY <1>1, <2>1, AskTypes
  <2> QED
    BY <1>2, <2>2 DEF LoadMore, TypeInv, DbOK, ListOK, RestOK, dbVars, Observers
<1>3. CASE Search(k)
  <2>1. CallsOK' /\ upset' \subseteq Upsets
    BY <1>1, <1>3, AskTypes DEF Search
  <2>2. ListOK'
    BY <1>1, <1>3, RenewedTypes DEF Search, Emptied
  <2> QED
    BY <1>3, <2>1, <2>2 DEF Search, Emptied, TypeInv, DbOK, RestOK, dbVars
<1>4. CASE AddPost(k)
  <2>1. CallsOK' /\ upset' \subseteq Upsets
    BY <1>1, <1>4, AskTypes DEF AddPost
  <2>2. changes' \in 0..MaxChanges
    BY <1>4, FeedAssumption DEF AddPost, Change, TypeInv, RestOK
  <2> QED
    BY <1>4, <2>1, <2>2 DEF AddPost, TypeInv, DbOK, ListOK, RestOK, dbVars, listVars
<1>5. ASSUME NEW i \in DOMAIN posts, Bin(k, i)
      PROVE  TypeInv'
  <2>1. posts[i] \in Item
    BY <1>1 DEF Items
  <2>2. posts[i].key \in Keys /\ posts[i].id \in Nat
    BY <2>1 DEF Item, Ids
  <2>3. CallsOK' /\ upset' \subseteq Upsets
    BY <1>1, <1>5, <2>2, AskTypes DEF Bin
  <2>4. changes' \in 0..MaxChanges
    BY <1>5, FeedAssumption DEF Bin, Change, TypeInv, RestOK
  <2> QED
    BY <1>5, <2>3, <2>4 DEF Bin, TypeInv, DbOK, ListOK, RestOK, dbVars, listVars
<1> QED
    BY <1>2, <1>3, <1>4, <1>5

(* Typing another text, going to another profile. *)
LEMMA TurnTypes ==
    ASSUME TypeInv, NEW to \in Keys, Turn(to)
    PROVE  TypeInv'
<1>1. 0 \in Offsets
    BY FeedAssumption DEF Offsets
<1>2. ListOK'
    BY <1>1 DEF Turn, TypeInv, ListOK
<1>3. DbOK' /\ CallsOK' /\ RestOK'
    BY DEF Turn, TypeInv, DbOK, dbVars, CallsOK, RestOK, Upsets
<1> QED
    BY <1>2, <1>3 DEF TypeInv

(* What happens to the rows of a key. *)
RowsChange(of) == \/ \E front \in BOOLEAN : Added(of, front)
                  \/ \E at \in DOMAIN rows[of] : Between(of, at)
                  \/ \E i \in DOMAIN rows[of] : Deleted(of, i)
                  \/ \E i, at \in DOMAIN rows[of] : Moved(of, i, at)

(* It leaves them rows. *)
LEMMA RowsTypes ==
    ASSUME DbOK, NEW of \in Keys, UNCHANGED view,
           RowsChange(of)
    PROVE  DbOK'
<1>1. rows[of] \in Seq(Ids) /\ lastId[of] \in 0..MaxRows /\ MaxRows \in Nat
      /\ \A j \in DOMAIN rows[of] : rows[of][j] <= lastId[of] /\ rows[of][j] \in Ids
    BY FeedAssumption DEF DbOK
<1>2. ASSUME NEW r \in Seq(Ids), rows' = [rows EXCEPT ![of] = r],
             NEW n \in 0..MaxRows, lastId' = [lastId EXCEPT ![of] = n],
             \A j \in DOMAIN r : r[j] <= n, late' \subseteq Item
      PROVE  DbOK'
    BY <1>2 DEF DbOK
<1>3. ASSUME NEW front \in BOOLEAN, Added(of, front)
      PROVE  DbOK'
  <2> DEFINE n == lastId[of] + 1
             r == IF front THEN <<n>> \o rows[of] ELSE Append(rows[of], n)
  <2>1. n \in Ids /\ n \in 0..MaxRows /\ n >= lastId[of]
    BY <1>1, <1>3 DEF Added, Ids
  <2>2. lastId' = [lastId EXCEPT ![of] = n] /\ lastId'[of] = n
    BY <1>3 DEF Added, DbOK
  <2>3. rows' = [rows EXCEPT ![of] = r]
    BY <1>3, <2>2 DEF Added
  <2> HIDE DEF n
  <2>4. r \in Seq(Ids) /\ \A j \in DOMAIN r : r[j] = n \/ \E l \in DOMAIN rows[of] : r[j] = rows[of][l]
    <3>1. CASE front
      <4>1. <<n>> \in Seq(Ids) /\ Len(<<n>>) = 1 /\ <<n>>[1] = n
        BY <2>1
      <4>2. r = <<n>> \o rows[of]
        BY <3>1
      <4> HIDE DEF r
      <4>3. r \in Seq(Ids) /\ Len(r) = 1 + Len(rows[of])
            /\ \A j \in 1..Len(r) : r[j] = IF j <= 1 THEN n ELSE rows[of][j - 1]
        BY <1>1, <4>1, <4>2, ConcatProperties
      <4>4. ASSUME NEW j \in DOMAIN r, j # 1 PROVE j - 1 \in DOMAIN rows[of] /\ r[j] = rows[of][j - 1]
        BY <1>1, <4>3, <4>4
      <4> QED
        BY <4>3, <4>4
    <3>2. CASE ~front
      <4>1. r = Append(rows[of], n)
        BY <3>2
      <4> HIDE DEF r
      <4> QED
        BY <1>1, <2>1, <4>1, AppendProperties
    <3> QED
      BY <3>1, <3>2
  <2> HIDE DEF r
  <2>5. ASSUME NEW j \in DOMAIN r PROVE r[j] <= n
    <3>1. CASE r[j] = n
      BY <2>1, <3>1 DEF Ids
    <3>2. ASSUME NEW l \in DOMAIN rows[of], r[j] = rows[of][l] PROVE r[j] <= n
      <4>1. rows[of][l] \in Int /\ rows[of][l] <= lastId[of] /\ lastId[of] \in Int /\ n \in Int
        BY <1>1, <2>1 DEF Ids
      <4> QED
        BY <2>1, <3>2, <4>1
    <3> QED
      BY <2>4, <3>1, <3>2
  <2>6. late' \subseteq Item
    BY <1>3 DEF Added, DbOK
  <2> QED
    BY <1>2, <2>1, <2>2, <2>3, <2>4, <2>5, <2>6
<1>4. ASSUME NEW i \in DOMAIN rows[of]
      PROVE  /\ RemoveAt(rows[of], i) \in Seq(Ids)
             /\ \A j \in DOMAIN RemoveAt(rows[of], i) : RemoveAt(rows[of], i)[j] <= lastId[of]
  <2> DEFINE r == RemoveAt(rows[of], i)
  <2>1. r \in Seq(Ids) /\ Len(r) = Len(rows[of]) - 1
        /\ \A j \in DOMAIN r : r[j] = (IF j < i THEN rows[of][j] ELSE rows[of][j + 1])
    BY <1>1, RemoveAtItems
  <2> HIDE DEF r
  <2>2. \A j \in DOMAIN r : j \in DOMAIN rows[of] /\ j + 1 \in DOMAIN rows[of]
    BY <1>1, <2>1
  <2>3. \A j \in DOMAIN r : r[j] <= lastId[of]
    BY <1>1, <2>1, <2>2
  <2> QED
    BY <2>1, <2>3 DEF r
<1>5. lastId' = lastId => lastId' = [lastId EXCEPT ![of] = lastId[of]]
    BY DEF DbOK
<1>6. ASSUME NEW i \in DOMAIN rows[of], Deleted(of, i)
      PROVE  DbOK'
  <2> DEFINE r == RemoveAt(rows[of], i)
  <2>1. r \in Seq(Ids) /\ (\A j \in DOMAIN r : r[j] <= lastId[of]) /\ rows' = [rows EXCEPT ![of] = r]
    BY <1>4, <1>6 DEF Deleted
  <2> HIDE DEF r
  <2> QED
    BY <1>1, <1>2, <1>5, <1>6, <2>1 DEF Deleted, DbOK
<1>7. ASSUME NEW i \in DOMAIN rows[of], NEW at \in DOMAIN rows[of], Moved(of, i, at)
      PROVE  DbOK'
  <2> DEFINE r == RemoveAt(rows[of], i)
             t == Inserted(r, at, rows[of][i])
  <2>1. /\ r \in Seq(Ids) /\ (\A j \in DOMAIN r : r[j] <= lastId[of]) /\ rows' = [rows EXCEPT ![of] = t]
        /\ Len(r) = Len(rows[of]) - 1
    BY <1>1, <1>4, <1>7, RemoveAtItems DEF Moved
  <2> HIDE DEF r
  <2>2. at \in 1..(Len(r) + 1) /\ rows[of][i] \in Ids
    BY <1>1, <2>1
  <2>3. t \in Seq(Ids) /\ Len(t) = Len(r) + 1
        /\ \A j \in DOMAIN t : t[j] = (IF j < at THEN r[j] ELSE IF j = at THEN rows[of][i] ELSE r[j - 1])
    BY <2>1, <2>2, InsertedItems
  <2> HIDE DEF t
  <2>4. ASSUME NEW j \in DOMAIN t PROVE t[j] <= lastId[of]
    <3>1. j \in 1..(Len(r) + 1) /\ DOMAIN r = 1..Len(r) /\ Len(r) \in Nat
      BY <2>1, <2>3
    <3>2. \/ j < at /\ j \in DOMAIN r /\ t[j] = r[j]
          \/ t[j] = rows[of][i]
          \/ j - 1 \in DOMAIN r /\ t[j] = r[j - 1]
      BY <2>2, <2>3, <3>1
    <3> QED
      BY <1>1, <2>1, <3>2
  <2> QED
    BY <1>1, <1>2, <1>5, <1>7, <2>1, <2>3, <2>4 DEF Moved, DbOK
<1>8. ASSUME NEW at \in DOMAIN rows[of], Between(of, at)
      PROVE  DbOK'
  <2> DEFINE n == lastId[of] + 1
             r == Inserted(rows[of], at, n)
  <2>0. lastId[of] < MaxRows
    BY <1>8, Zenon DEF Between
  <2>1. n \in Ids /\ n \in 0..MaxRows /\ n >= lastId[of]
    <3>1. lastId[of] \in Nat /\ MaxRows \in Nat
      BY <1>1
    <3> QED
      BY <2>0, <3>1 DEF Ids
  <2>2. lastId' = [lastId EXCEPT ![of] = n] /\ lastId'[of] = n
    BY <1>8 DEF Between, DbOK
  <2>3. rows' = [rows EXCEPT ![of] = r] /\ late' = late \cup {[key |-> of, id |-> n]}
    BY <1>8, <2>2 DEF Between
  <2> HIDE DEF n
  <2>4. r \in Seq(Ids) /\ Len(r) = Len(rows[of]) + 1
        /\ \A j \in DOMAIN r : r[j] = (IF j < at THEN rows[of][j] ELSE IF j = at THEN n ELSE rows[of][j - 1])
    <3>1. at \in 1..(Len(rows[of]) + 1)
      BY <1>1
    <3> QED
      BY <1>1, <2>1, <3>1, InsertedItems
  <2> HIDE DEF r
  <2>5. ASSUME NEW j \in DOMAIN r PROVE r[j] <= n
    <3>1. CASE j = at
      BY <2>1, <2>4, <3>1 DEF Ids
    <3>2. ASSUME NEW l \in DOMAIN rows[of], r[j] = rows[of][l] PROVE r[j] <= n
      <4>1. rows[of][l] \in Int /\ rows[of][l] <= lastId[of] /\ lastId[of] \in Int /\ n \in Int
        BY <1>1, <2>1 DEF Ids
      <4> QED
        BY <2>1, <3>2, <4>1
    <3>3. CASE j # at
      <4>0. DOMAIN r = 1..Len(r) /\ DOMAIN rows[of] = 1..Len(rows[of]) /\ Len(rows[of]) \in Nat
        BY <1>1, <2>4, LenProperties
      <4>1. j \in 1..(Len(rows[of]) + 1) /\ at \in 1..Len(rows[of])
        BY <2>4, <4>0
      <4>2. j < at => j \in DOMAIN rows[of] /\ r[j] = rows[of][j]
        BY <2>4, <4>0, <4>1
      <4>3. ~(j < at) => j - 1 \in DOMAIN rows[of] /\ r[j] = rows[of][j - 1]
        BY <2>4, <3>3, <4>0, <4>1
      <4> QED
        BY <3>2, <4>2, <4>3
    <3> QED
      BY <3>1, <3>3
  <2>6. late' \subseteq Item
    BY <2>1, <2>3 DEF DbOK, Item
  <2> QED
    BY <1>2, <2>1, <2>2, <2>3, <2>4, <2>5, <2>6
<1> QED
    BY <1>3, <1>6, <1>7, <1>8 DEF RowsChange

(* A server's answer. *)
LEMMA AnswerTypes ==
    ASSUME TypeInv, NEW k \in Calls, AnswerList(k) \/ Perform(k) \/ Fail(k)
    PROVE  TypeInv'
<1>1. CallsOK /\ call[k] \in Asked
    BY CallFields DEF TypeInv, AnswerList, Perform, Fail
<1>2. ASSUME call' = [call EXCEPT ![k].st = "ok"]
      PROVE  CallsOK'
  <2> DEFINE c == [call[k] EXCEPT !.st = "ok"]
  <2>1. c \in Asked
    BY <1>1 DEF Asked
  <2>2. call' = [call EXCEPT ![k] = c]
    BY <1>2
  <2> HIDE DEF c
  <2> QED
    BY <1>1, <2>1, <2>2 DEF CallsOK
<1>3. CASE AnswerList(k)
  <2> DEFINE p == Page(call[k].key, call[k].from)
             c == [call[k] EXCEPT !.st = "ok", !.list = p]
  <2>1. p \in Items
    BY <1>1, PageItems DEF TypeInv, Asked
  <2>2. call' = [call EXCEPT ![k] = c]
    BY <1>3 DEF AnswerList
  <2> HIDE DEF p
  <2>3. c \in Asked
    BY <1>1, <2>1 DEF Asked
  <2> HIDE DEF c
  <2>4. CallsOK'
    BY <1>1, <2>2, <2>3 DEF CallsOK
  <2> QED
    BY <1>3, <2>4 DEF AnswerList, TypeInv, DbOK, ListOK, RestOK, dbVars, listVars
<1>4. CASE Fail(k)
    BY <1>1, <1>4, IdleTypes DEF Fail, TypeInv, DbOK, ListOK, RestOK, Upsets, dbVars, listVars
<1>5. CASE Perform(k)
  <2>1. DbOK'
    <3>1. CASE \E i \in DOMAIN rows[Me] : Deleted(Me, i)
      BY <1>5, <3>1, RowsTypes, FeedAssumption DEF Perform, TypeInv, RowsChange
    <3>2. CASE Added(Me, TRUE)
      BY <1>5, <3>2, RowsTypes, FeedAssumption DEF Perform, TypeInv, RowsChange
    <3> QED
      BY <1>5, <3>1, <3>2 DEF Perform
  <2>2. CallsOK' /\ upset' \subseteq Upsets
    BY <1>1, <1>2, <1>5, IdleTypes DEF Perform, TypeInv, RestOK, Upsets
  <2> QED
    BY <1>5, <2>1, <2>2 DEF Perform, TypeInv, ListOK, RestOK, listVars
<1> QED
    BY <1>3, <1>4, <1>5

(* An answer that arrives. *)
LEMMA ArriveTypes ==
    ASSUME TypeInv, NEW k \in Calls, Arrives(k)
    PROVE  TypeInv'
<1>1. CallsOK /\ call[k] \in Asked /\ ListOK
    BY CallFields DEF TypeInv, Arrives, MoreArrives, FirstArrives, BinArrives, AddArrives, AddUnlisted
<1>2. /\ call[k].key \in Keys /\ call[k].from \in Offsets /\ 0 \in Offsets
      /\ call[k].base \in Items /\ call[k].list \in Items /\ <<>> \in Items
      /\ call[k].base \o call[k].list \in Items
    BY <1>1, FeedAssumption DEF Asked, Offsets, Items
<1>3. \A b : (isEnough \/ b) \in BOOLEAN
    BY <1>1 DEF ListOK
<1>4. ASSUME call' = [call EXCEPT ![k] = Idle], ListOK',
             UNCHANGED <<view, dbVars, changes, upset>>
      PROVE  TypeInv'
    BY <1>1, <1>4, IdleTypes DEF TypeInv, DbOK, RestOK, dbVars
<1>5. CASE MoreArrives(k)
  <2>1. key' \in Keys /\ posts' \in Items /\ offset' \in Offsets
        /\ isEnough' \in BOOLEAN /\ isFirst' \in BOOLEAN
    BY <1>1, <1>2, <1>3, <1>5 DEF MoreArrives, ListOK
  <2>2. ListOK'
    BY <1>5, <2>1, RenewedTypes DEF MoreArrives
  <2> QED
    BY <1>4, <1>5, <2>2 DEF MoreArrives
<1>6. CASE FirstArrives(k)
  <2>1. CASE UNCHANGED listVars
    BY <1>1, <1>4, <1>6, <2>1 DEF FirstArrives, listVars, ListOK
  <2>2. CASE call[k].list # <<>>
    <3>1. key' \in Keys /\ posts' \in Items /\ offset' \in Offsets
          /\ isEnough' \in BOOLEAN /\ isFirst' \in BOOLEAN
      BY <1>1, <1>2, <1>3, <1>6, <2>2 DEF FirstArrives, ListOK
    <3>2. ListOK'
      BY <1>6, <2>2, <3>1, RenewedTypes DEF FirstArrives
    <3> QED
      BY <1>4, <1>6, <3>2 DEF FirstArrives
  <2> QED
    BY <1>6, <2>1, <2>2 DEF FirstArrives
<1>7. CASE BinArrives(k)
  <2>1. posts' \in Items
    BY <1>2, <1>7, WithoutItems DEF BinArrives
  <2>2. ListOK'
    BY <1>1, <1>7, <2>1, RenewedTypes DEF BinArrives, ListOK
  <2> QED
    BY <1>4, <1>7, <2>2 DEF BinArrives
<1>8. CASE AddArrives(k)
  <2>1. ListOK'
    BY <1>1, <1>2, <1>8, RenewedTypes DEF AddArrives, Emptied, ListOK
  <2> DEFINE c == [call[k] EXCEPT !.st = "asked", !.op = "first", !.key = key]
  <2>2. c \in Asked
    BY <1>1 DEF Asked, ListOK
  <2>3. call' = [call EXCEPT ![k] = c]
    BY <1>8 DEF AddArrives
  <2> HIDE DEF c
  <2>4. CallsOK'
    BY <1>1, <2>2, <2>3 DEF CallsOK
  <2> QED
    BY <1>8, <2>1, <2>4 DEF AddArrives, Emptied, TypeInv, DbOK, RestOK, dbVars
<1>9. CASE AddUnlisted(k)
    BY <1>1, <1>9, IdleTypes DEF AddUnlisted, TypeInv, DbOK, ListOK, RestOK, Upsets, dbVars, listVars
<1> QED
    BY <1>5, <1>6, <1>7, <1>8, <1>9 DEF Arrives

(* Others change the rows. *)
LEMMA ElsewhereTypes ==
    ASSUME TypeInv, Elsewhere
    PROVE  TypeInv'
<1>1. DbOK'
  <2>1. PICK of \in Keys : RowsChange(of)
    BY DEF Elsewhere, RowsChange
  <2> QED
    BY <2>1, RowsTypes DEF Elsewhere, TypeInv, RowsChange
<1>2. changes' \in 0..MaxChanges
  <2>1. Change
    BY Zenon DEF Elsewhere
  <2> QED
    BY <2>1, FeedAssumption DEF Change, TypeInv, RestOK
<1>3. upset' \subseteq Upsets
  <2>1. \/ upset' = upset \cup {IF view = "FriendSearch" THEN "joined" ELSE "added"}
        \/ upset' = upset \cup {"added"}
        \/ upset' = upset \cup {"removed"}
        \/ upset' = upset \cup {"moved"}
    BY Zenon DEF Elsewhere
  <2> QED
    BY <2>1 DEF TypeInv, RestOK, Upsets
<1> QED
    BY <1>1, <1>2, <1>3 DEF Elsewhere, TypeInv, ListOK, CallsOK, RestOK, listVars

(* The first render. *)
LEMMA TypeInit == Init => TypeInv
<1> SUFFICES ASSUME Init PROVE TypeInv
    OBVIOUS
<1>1. ASSUME NEW of \in Keys
      PROVE  Listed(of) \in Seq(Ids) /\ \A i \in DOMAIN Listed(of) : Listed(of)[i] <= InitRows[of]
  <2> DEFINE n == InitRows[of]
  <2>1. n \in Nat /\ n <= MaxRows /\ MaxRows \in Nat
    BY FeedAssumption
  <2>2. Listed(of) = [i \in 1..n |-> IF view = "FriendSearch" THEN i ELSE n + 1 - i]
    BY DEF Listed
  <2> HIDE DEF n
  <2>3. \A i \in 1..n : /\ (IF view = "FriendSearch" THEN i ELSE n + 1 - i) \in Ids
                        /\ (IF view = "FriendSearch" THEN i ELSE n + 1 - i) <= n
    BY <2>1 DEF Ids
  <2>4. Listed(of) \in [1..n -> Ids]
    BY <2>2, <2>3
  <2> QED
    BY <2>1, <2>2, <2>3, <2>4 DEF n
<1>2. DbOK
    BY <1>1, FeedAssumption DEF Init, DbOK
<1>3. offset \in Offsets /\ Me \in Keys
    BY FeedAssumption DEF Init, Offsets
<1>4. ListOK
  <2>1. <<>> \in Items
    BY DEF Items
  <2>2. isEnough \in BOOLEAN /\ isFirst \in BOOLEAN /\ observer \in Observers
    BY DEF Init, Observers
  <2>3. key = Me /\ posts = <<>> /\ made = <<>> /\ seen = [key |-> Me, offset |-> offset]
    BY DEF Init
  <2>4. seen \in [key : Keys, offset : Offsets]
    BY <1>3, <2>3
  <2> QED
    BY <1>3, <2>1, <2>2, <2>3, <2>4 DEF ListOK
<1>5. CallsOK /\ RestOK
    BY FeedAssumption DEF Init, CallsOK, RestOK
<1> QED
    BY <1>2, <1>4, <1>5 DEF TypeInv

(* Opening and leaving the form, and a stutter, change the observer only.  *)
Still == UNCHANGED <<view, dbVars, changes, key, posts, offset, isEnough, isFirst, seen, made, call, upset>>

LEMMA FormStill == OpenForm \/ Back \/ UNCHANGED vars => Still
    BY DEF OpenForm, Back, Still, vars, listVars

(* Every step keeps the types. *)
LEMMA TypeNext == TypeInv /\ [Next]_vars => TypeInv'
<1> SUFFICES ASSUME TypeInv, [Next]_vars PROVE TypeInv'
    OBVIOUS
<1>1. CASE OpenForm \/ Back \/ UNCHANGED vars
  <2>1. observer' \in Observers
    BY <1>1 DEF OpenForm, Back, vars, listVars, Observers, TypeInv, ListOK
  <2>2. Still
    BY <1>1, FormStill
  <2> QED
    BY <2>1, <2>2 DEF Still, dbVars, TypeInv, DbOK, ListOK, CallsOK, RestOK
<1> QED
    BY <1>1, AsksTypes, TurnTypes, AnswerTypes, ArriveTypes, ElsewhereTypes DEF Next

(* The invariant of types holds in every reachable state. *)
THEOREM TypeInvariant == Spec => []TypeInv
    BY TypeInit, TypeNext, PTL DEF Spec

(* The lists, the components made for them and what the observer sees keep *)
(* their types, and every id shown was drawn.                              *)
THEOREM FeedTypeCorrect == Spec => []FeedTypeOK
<1>1. TypeInv => FeedTypeOK
  <2> SUFFICES ASSUME TypeInv PROVE FeedTypeOK
    OBVIOUS
  <2>1. ASSUME NEW of \in Keys PROVE Range(rows[of]) \subseteq 1..lastId[of]
    <3>1. rows[of] \in Seq(Ids) /\ lastId[of] \in 0..MaxRows
          /\ \A i \in DOMAIN rows[of] : rows[of][i] <= lastId[of]
      BY DEF TypeInv, DbOK
    <3>2. ASSUME NEW i \in DOMAIN rows[of] PROVE rows[of][i] \in 1..lastId[of]
      BY <3>1, FeedAssumption DEF Ids
    <3> QED
      BY <3>2 DEF Range
  <2> QED
    BY <2>1 DEF TypeInv, DbOK, ListOK, RestOK, FeedTypeOK, Items, Item, Offsets
<1> QED
    BY <1>1, TypeInvariant, PTL

----------------------------------------------------------------------------
(* One key: what a list, and a call under way, must agree with. *)
OneKeyed(list, of) == \A i \in DOMAIN list : list[i].key = of

KeyList == /\ \A i, j \in DOMAIN posts : posts[i].key = posts[j].key
           /\ ~isEnough /\ ~isFirst => OneKeyed(posts, seen.key)
           /\ view = "Profile" /\ ~isFirst => seen.key = key
           /\ view = "PostsPage" => key = Me /\ seen.key = Me

KeyCall(c) ==
    /\ OneKeyed(c.base, c.key) /\ OneKeyed(c.list, c.key)
    /\ c.op \in {"first", "add"} => c.base = <<>>
    /\ c.op = "add" => c.list = <<>>
    /\ c.op \in {"bin", "add"} => view = "Profile" /\ key = Me
    /\ view = "Profile" /\ c.op \in {"more", "first"} => c.key = key
    /\ c.op = "bin" /\ c.st = "ok" => c.key = Me
    /\ view = "PostsPage" => c.op = "more" /\ c.key = Me

KeyCalls == \A k \in Calls : call[k].st # "idle" => KeyCall(call[k])

KeyInv == "visited" \notin upset => KeyList /\ KeyCalls

(* Other calls are not touched by a step of one call. *)
LEMMA OtherKeyCalls ==
    ASSUME TypeInv, KeyCalls, NEW k \in Calls, NEW c, call' = [call EXCEPT ![k] = c],
           c.st = "idle" \/ KeyCall(c)',
           view' = view, view = "Profile" => key' = key
    PROVE  KeyCalls'
<1> SUFFICES ASSUME NEW j \in Calls, call'[j].st # "idle" PROVE KeyCall(call[j])'
    BY DEF KeyCalls
<1>1. CASE j = k
    BY <1>1 DEF TypeInv, CallsOK
<1>2. CASE j # k
  <2>1. call'[j] = call[j] /\ KeyCall(call[j])
    BY <1>2 DEF KeyCalls, TypeInv, CallsOK
  <2> QED
    BY <2>1 DEF KeyCall
<1> QED
    BY <1>1, <1>2

(* What happened is never forgotten, and the component stays what it is. *)
LEMMA Remembers == [Next]_vars => upset \subseteq upset' /\ view' = view
<1> SUFFICES ASSUME [Next]_vars PROVE upset \subseteq upset' /\ view' = view
    OBVIOUS
<1>1. ASSUME NEW k \in Calls, NEW op, NEW of, NEW from, NEW base, Ask(k, op, of, from, base)
      PROVE  upset \subseteq upset'
    BY <1>1 DEF Ask
<1>2. ASSUME NEW k \in Calls, LoadMore(k) \/ Search(k) \/ AddPost(k) \/ \E i \in DOMAIN posts : Bin(k, i)
      PROVE  upset \subseteq upset' /\ view' = view
    BY <1>1, <1>2 DEF LoadMore, Search, AddPost, Bin, Emptied
<1>3. ASSUME NEW k \in Calls, AnswerList(k) \/ Perform(k) \/ Fail(k) \/ Arrives(k)
      PROVE  upset \subseteq upset' /\ view' = view
  <2>1. upset \subseteq upset'
    BY <1>3, Zenon DEF AnswerList, Perform, Fail, Arrives, MoreArrives, FirstArrives, BinArrives, AddArrives, AddUnlisted
  <2>2. view' = view
    BY <1>3 DEF AnswerList, Perform, Fail, Arrives, MoreArrives, FirstArrives, BinArrives, AddArrives, AddUnlisted, Emptied
  <2> QED
    BY <2>1, <2>2
<1>4. ASSUME NEW to \in Keys, Turn(to) PROVE upset \subseteq upset' /\ view' = view
    BY <1>4 DEF Turn
<1>5. CASE Elsewhere
  <2>1. view' = view
    BY <1>5 DEF Elsewhere
  <2>2. upset \subseteq upset'
    BY <1>5, Zenon DEF Elsewhere
  <2> QED
    BY <2>1, <2>2
<1>6. CASE OpenForm \/ Back \/ UNCHANGED vars
    BY <1>6, FormStill DEF Still
<1> QED
    BY <1>2, <1>3, <1>4, <1>5, <1>6 DEF Next

(* A new call. *)
LEMMA AsksKeyed ==
    ASSUME TypeInv, KeyList, KeyCalls, NEW k \in Calls,
           LoadMore(k) \/ Search(k) \/ AddPost(k) \/ \E i \in DOMAIN posts : Bin(k, i)
    PROVE  KeyList' /\ KeyCalls'
<1> DEFINE new(op, of, from, base) == [st |-> "asked", op |-> op, key |-> of, from |-> from,
                                       base |-> base, list |-> <<>>]
<1>1. ASSUME NEW op \in {"more", "first", "bin", "add"}, NEW of, NEW from, NEW base,
             Ask(k, op, of, from, base),
             view' = view, view = "Profile" => key' = key,
             OneKeyed(base, of), op \in {"first", "add"} => base = <<>>,
             op \in {"bin", "add"} => view = "Profile" /\ key = Me,
             view = "Profile" /\ op \in {"more", "first"} => of = key,
             view = "PostsPage" => op = "more" /\ of = Me
      PROVE  KeyCalls'
  <2>1. PICK c : c = new(op, of, from, base)
    OBVIOUS
  <2>2. /\ c.st = "asked" /\ c.op = op /\ c.key = of /\ c.base = base /\ c.list = <<>>
        /\ call' = [call EXCEPT ![k] = c]
    BY <1>1, <2>1 DEF Ask
  <2>3. KeyCall(c)'
    BY <1>1, <2>2 DEF KeyCall, OneKeyed
  <2> QED
    BY <1>1, <2>2, <2>3, OtherKeyCalls
<1> HIDE DEF new
<1>2. CASE LoadMore(k)
  <2> DEFINE from == IF view = "Profile" THEN Len(posts) ELSE seen.offset + Limit
  <2>1. Ask(k, "more", seen.key, from, posts) /\ ~isEnough /\ ~isFirst
    BY <1>2 DEF LoadMore
  <2>2. /\ view' = view /\ key' = key /\ posts' = posts /\ isEnough' = isEnough
        /\ isFirst' = isFirst /\ seen' = seen
    BY <1>2 DEF LoadMore
  <2> HIDE DEF from
  <2>3. KeyCalls'
    BY <1>1, <2>1, <2>2 DEF KeyList
  <2> QED
    BY <2>2, <2>3 DEF KeyList, OneKeyed
<1>3. CASE Search(k)
  <2>1. Ask(k, "first", key, 0, <<>>) /\ view # "PostsPage"
    BY <1>3 DEF Search
  <2>2. /\ view' = view /\ key' = key /\ posts' = <<>> /\ isFirst' = TRUE
    BY <1>3 DEF Search, Emptied
  <2>3. KeyCalls'
    BY <1>1, <2>1, <2>2 DEF OneKeyed
  <2> QED
    BY <2>1, <2>2, <2>3 DEF KeyList
<1>4. CASE AddPost(k)
  <2>1. Ask(k, "add", Me, 0, <<>>) /\ view = "Profile" /\ key = Me
    BY <1>4 DEF AddPost
  <2>2. view' = view /\ UNCHANGED listVars
    BY <1>4 DEF AddPost
  <2>3. KeyCalls'
    BY <1>1, <2>1, <2>2 DEF OneKeyed, listVars
  <2> QED
    BY <2>2, <2>3 DEF KeyList, OneKeyed, listVars
<1>5. ASSUME NEW i \in DOMAIN posts, Bin(k, i)
      PROVE  KeyList' /\ KeyCalls'
  <2>1. Ask(k, "bin", posts[i].key, posts[i].id, posts) /\ view = "Profile" /\ key = Me
    BY <1>5 DEF Bin
  <2>2. view' = view /\ UNCHANGED listVars
    BY <1>5 DEF Bin
  <2>3. OneKeyed(posts, posts[i].key)
    BY DEF KeyList, OneKeyed
  <2>4. KeyCalls'
    BY <1>1, <2>1, <2>2, <2>3 DEF listVars
  <2> QED
    BY <2>2, <2>4 DEF KeyList, OneKeyed, listVars
<1> QED
    BY <1>2, <1>3, <1>4, <1>5

(* A server's answer. *)
LEMMA AnswersKeyed ==
    ASSUME TypeInv, KeyList, KeyCalls, NEW k \in Calls, AnswerList(k) \/ Perform(k) \/ Fail(k)
    PROVE  KeyList' /\ KeyCalls'
<1>1. call[k] \in Asked /\ KeyCall(call[k]) /\ call[k].st = "asked" /\ Idle.st = "idle"
    BY CallFields DEF TypeInv, AnswerList, Perform, Fail, KeyCalls, Idle
<1>2. view' = view /\ UNCHANGED listVars
    BY DEF AnswerList, Perform, Fail
<1>3. KeyList'
    BY <1>2 DEF KeyList, OneKeyed, listVars
<1>4. CASE call' = [call EXCEPT ![k] = Idle]
  <2>1. PICK c : c = Idle
    OBVIOUS
  <2>2. c.st = "idle" /\ call' = [call EXCEPT ![k] = c]
    BY <1>1, <1>4, <2>1
  <2> QED
    BY <1>2, <1>3, <2>2, OtherKeyCalls DEF listVars
<1>5. CASE AnswerList(k)
  <2> DEFINE p == Page(call[k].key, call[k].from)
             n == [call[k] EXCEPT !.st = "ok", !.list = p]
  <2>1. OneKeyed(p, call[k].key)
    BY <1>1, PageItems DEF TypeInv, Asked, OneKeyed
  <2> HIDE DEF p
  <2>2. call' = [call EXCEPT ![k] = n]
    BY <1>5 DEF AnswerList, p
  <2>3. /\ n.op = call[k].op /\ n.key = call[k].key /\ n.base = call[k].base
        /\ n.list = p /\ n.op \in {"more", "first"}
    BY <1>1, <1>5 DEF AnswerList, Asked
  <2> HIDE DEF n
  <2>4. PICK c : c = n
    OBVIOUS
  <2>5. KeyCall(c)'
    BY <1>1, <1>2, <2>1, <2>3, <2>4 DEF KeyCall, listVars
  <2> QED
    BY <1>2, <1>3, <2>2, <2>4, <2>5, OtherKeyCalls DEF listVars
<1>6. CASE Perform(k) /\ call' = [call EXCEPT ![k].st = "ok"]
  <2> DEFINE n == [call[k] EXCEPT !.st = "ok"]
  <2>1. call' = [call EXCEPT ![k] = n]
    BY <1>6
  <2>2. /\ n.op = call[k].op /\ n.key = call[k].key /\ n.base = call[k].base
        /\ n.list = call[k].list
    BY <1>1 DEF Asked
  <2>3. call[k].op = "bin" => call[k].key = Me
    BY <1>6, Zenon DEF Perform
  <2> HIDE DEF n
  <2>4. PICK c : c = n
    OBVIOUS
  <2>5. KeyCall(c)'
    BY <1>1, <1>2, <2>2, <2>3, <2>4 DEF KeyCall, listVars
  <2> QED
    BY <1>2, <1>3, <2>1, <2>4, <2>5, OtherKeyCalls DEF listVars
<1> QED
    BY <1>4, <1>5, <1>6, Zenon DEF Fail, Perform

(* Two lists of one key make one. *)
LEMMA ConcatKeyed ==
    ASSUME NEW a \in Items, NEW b \in Items, NEW of, OneKeyed(a, of), OneKeyed(b, of)
    PROVE  a \o b \in Items /\ OneKeyed(a \o b, of)
<1>1. /\ a \o b \in Items /\ Len(a \o b) = Len(a) + Len(b)
      /\ \A i \in 1..(Len(a) + Len(b)) : (a \o b)[i] = IF i <= Len(a) THEN a[i] ELSE b[i - Len(a)]
    BY ConcatProperties DEF Items
<1>2. /\ DOMAIN (a \o b) = 1..(Len(a) + Len(b)) /\ DOMAIN a = 1..Len(a) /\ DOMAIN b = 1..Len(b)
      /\ Len(a) \in Nat /\ Len(b) \in Nat
    BY <1>1, LenProperties DEF Items
<1>3. ASSUME NEW i \in 1..(Len(a) + Len(b)) PROVE (a \o b)[i].key = of
  <2>1. CASE i <= Len(a)
    BY <1>1, <1>2, <2>1 DEF OneKeyed
  <2>2. CASE ~(i <= Len(a))
    <3>1. i - Len(a) \in DOMAIN b
      BY <1>2, <2>2
    <3> QED
      BY <1>1, <2>2, <3>1 DEF OneKeyed
  <2> QED
    BY <2>1, <2>2
<1> QED
    BY <1>1, <1>2, <1>3 DEF OneKeyed

(* An answer that arrives. *)
LEMMA ArrivesKeyed ==
    ASSUME TypeInv, KeyList, KeyCalls, NEW k \in Calls, Arrives(k)
    PROVE  KeyList' /\ KeyCalls'
<1>1. call[k] \in Asked /\ KeyCall(call[k]) /\ call[k].st = "ok" /\ Idle.st = "idle"
    BY CallFields DEF TypeInv, Arrives, MoreArrives, FirstArrives, BinArrives, AddArrives, AddUnlisted, KeyCalls, Idle
<1>2. call[k].base \in Items /\ call[k].list \in Items
    BY <1>1 DEF Asked
<1>3. view' = view /\ (view = "Profile" => key' = key)
    BY <1>1 DEF Arrives, MoreArrives, FirstArrives, BinArrives, AddArrives, AddUnlisted, Emptied, listVars
<1>4. ASSUME call' = [call EXCEPT ![k] = Idle]
      PROVE  KeyCalls'
  <2>1. PICK c : c = Idle
    OBVIOUS
  <2>2. c.st = "idle" /\ call' = [call EXCEPT ![k] = c]
    BY <1>1, <1>4, <2>1
  <2> QED
    BY <1>3, <2>2, OtherKeyCalls
<1>5. CASE MoreArrives(k)
  <2>1. KeyCalls' /\ seen'.key = key' /\ view' = view
    BY <1>4, <1>5 DEF MoreArrives, Renewed
  <2>2. CASE call[k].list = <<>>
    <3>1. Short(call[k].list)
      BY <2>2, FeedAssumption DEF Short
    <3>2. isEnough' = TRUE /\ posts' = posts /\ key' = key
      BY <1>5, <2>2, <3>1 DEF MoreArrives
    <3> QED
      BY <2>1, <3>2 DEF KeyList
  <2>3. CASE call[k].list # <<>>
    <3>1. posts' = call[k].base \o call[k].list
          /\ key' = IF view = "FriendSearch" THEN call[k].key ELSE key
      BY <1>5, <2>3 DEF MoreArrives
    <3>2. OneKeyed(posts', call[k].key)
      BY <1>1, <1>2, <3>1, ConcatKeyed DEF KeyCall
    <3>3. key' = call[k].key
      BY <1>1, <1>5, <3>1 DEF KeyCall, KeyList, MoreArrives, TypeInv, DbOK, Views
    <3> QED
      BY <2>1, <3>1, <3>2, <3>3 DEF KeyList, OneKeyed
  <2> QED
    BY <2>2, <2>3
<1>6. CASE FirstArrives(k)
  <2>1. KeyCalls' /\ view' = view
    BY <1>4, <1>6 DEF FirstArrives
  <2>2. CASE UNCHANGED listVars
    BY <2>1, <2>2 DEF KeyList, OneKeyed, listVars
  <2>3. CASE call[k].list # <<>>
    <3>1. posts' = call[k].list /\ seen'.key = key'
          /\ key' = IF view = "FriendSearch" THEN call[k].key ELSE key
      BY <1>6, <2>3 DEF FirstArrives, Renewed
    <3>2. key' = call[k].key /\ view # "PostsPage"
      BY <1>1, <1>6, <3>1 DEF KeyCall, FirstArrives, TypeInv, DbOK, Views
    <3> QED
      BY <1>1, <2>1, <3>1, <3>2 DEF KeyList, OneKeyed, KeyCall
  <2> QED
    BY <1>6, <2>1, <2>2, <2>3 DEF FirstArrives
<1>7. CASE BinArrives(k)
  <2>1. KeyCalls' /\ view' = view /\ key' = key /\ seen'.key = key'
    BY <1>4, <1>7 DEF BinArrives, Renewed
  <2>2. call[k].key = Me /\ key = Me /\ view = "Profile"
    BY <1>1, <1>7 DEF KeyCall, BinArrives
  <2>3. \A i \in DOMAIN posts' : \E j \in DOMAIN call[k].base : posts'[i] = call[k].base[j]
    BY <1>2, <1>7, WithoutItems DEF BinArrives
  <2>4. OneKeyed(posts', Me)
    BY <1>1, <2>2, <2>3 DEF KeyCall, OneKeyed
  <2> QED
    BY <2>1, <2>2, <2>4 DEF KeyList, OneKeyed
<1>8. CASE AddArrives(k)
  <2> DEFINE n == [call[k] EXCEPT !.st = "asked", !.op = "first", !.key = key]
  <2>1. call' = [call EXCEPT ![k] = n]
    BY <1>8 DEF AddArrives
  <2>2. /\ n.op = "first" /\ n.key = key /\ n.base = <<>> /\ n.list = <<>> /\ view = "Profile"
    BY <1>1, <1>8 DEF AddArrives, Asked, KeyCall
  <2> HIDE DEF n
  <2>3. PICK c : c = n
    OBVIOUS
  <2>4. KeyCall(c)'
    BY <1>3, <2>2, <2>3 DEF KeyCall, OneKeyed
  <2>5. posts' = <<>> /\ isFirst' = TRUE /\ view' = view /\ key' = key
    BY <1>8 DEF AddArrives, Emptied
  <2>6. KeyCalls'
    BY <1>3, <2>1, <2>3, <2>4, OtherKeyCalls
  <2> QED
    BY <2>2, <2>5, <2>6 DEF KeyList
<1>9. CASE AddUnlisted(k)
  <2>1. KeyCalls'
    BY <1>4, <1>9 DEF AddUnlisted
  <2> QED
    BY <1>9, <2>1 DEF AddUnlisted, KeyList, OneKeyed, listVars
<1> QED
    BY <1>5, <1>6, <1>7, <1>8, <1>9 DEF Arrives

(* Nothing else moves the list. *)
LEMMA KeyNext == TypeInv /\ KeyInv /\ [Next]_vars => KeyInv'
<1> SUFFICES ASSUME TypeInv, KeyInv, [Next]_vars, "visited" \notin upset' PROVE KeyList' /\ KeyCalls'
    BY DEF KeyInv
<1>1. KeyList /\ KeyCalls
    BY Remembers DEF KeyInv
<1>2. CASE Elsewhere \/ OpenForm \/ Back \/ UNCHANGED vars
  <2>1. view' = view /\ UNCHANGED <<key, posts, isEnough, isFirst, seen, call>>
    BY <1>2, FormStill DEF Elsewhere, listVars, Still
  <2> QED
    BY <1>1, <2>1 DEF KeyList, KeyCalls, KeyCall, OneKeyed
<1>3. ASSUME NEW to \in Keys, Turn(to) PROVE KeyList' /\ KeyCalls'
  <2>1. /\ view' = view /\ UNCHANGED <<posts, isEnough, isFirst, seen, call>> /\ view # "PostsPage"
        /\ view = "Profile" => isFirst /\ UnderWay = {}
    BY <1>3 DEF Turn
  <2>2. view = "Profile" => \A k \in Calls : call[k].st = "idle"
    BY <2>1 DEF UnderWay
  <2>3. KeyCalls'
    BY <1>1, <2>1, <2>2 DEF KeyCalls, KeyCall, OneKeyed
  <2> QED
    BY <1>1, <2>1, <2>3 DEF KeyList, OneKeyed
<1> QED
    BY <1>1, <1>2, <1>3, AsksKeyed, AnswersKeyed, ArrivesKeyed DEF Next

(* The first render shows nothing. *)
LEMMA KeyStart == Init => KeyInv
    BY DEF Init, KeyInv, KeyList, KeyCalls, OneKeyed, Idle

(* The results of two searches are never mixed in one list, nor the posts  *)
(* of two users as long as no profile with posts is left for another: for  *)
(* any number of calls that overlap and in any order of their answers.     *)
THEOREM OneKeyAlways == Spec => []OneKey
<1>1. KeyInv => OneKey
    BY DEF KeyInv, KeyList, OneKey, Untouched
<1>2. Spec => []KeyInv
    BY KeyStart, KeyNext, TypeInvariant, PTL DEF Spec
<1> QED
    BY <1>1, <1>2, PTL

----------------------------------------------------------------------------
(* One thing at a time: a call under way is the only one, and the list it  *)
(* starts from is still the one that is shown.                             *)
SoleCall(c) == /\ c.op \in {"more", "bin"} => c.base = posts
               /\ c.op = "first" => posts = <<>>
               /\ c.op \in {"bin", "add"} => view = "Profile"

Sole == /\ \A j, k \in Calls : call[j].st # "idle" /\ call[k].st # "idle" => j = k
        /\ \A k \in Calls : call[k].st # "idle" => SoleCall(call[k])
        /\ made = posts

SoleInv == "overlap" \notin upset => Sole

(* What a render takes over from the last one, and makes for new items. *)
LEMMA MadeSame ==
    ASSUME made = posts, NEW list \in Items, posts \in Items,
           view = "Profile" \/ \A i \in DOMAIN list : i \in DOMAIN posts => list[i] = posts[i]
    PROVE  Made(list) = list
<1>1. CASE view = "Profile"
    BY <1>1 DEF Made
<1>2. CASE view # "Profile"
  <2>1. Made(list) = [i \in DOMAIN list |-> list[i]]
    BY <1>2 DEF Made
  <2> QED
    BY <2>1 DEF Items
<1> QED
    BY <1>1, <1>2

(* The one call that is under way after a step. *)
LEMMA SoleStep ==
    ASSUME TypeInv, NEW k \in Calls, NEW c, call' = [call EXCEPT ![k] = c],
           \A j \in Calls : call[j].st # "idle" => j = k,
           c.st = "idle" \/ SoleCall(c)', made' = posts'
    PROVE  Sole'
<1>1. \A j \in Calls : j # k => call'[j] = call[j]
    BY DEF TypeInv, CallsOK
<1>2. call'[k] = c
    BY DEF TypeInv, CallsOK
<1>3. \A j \in Calls : call'[j].st # "idle" => j = k
    BY <1>1
<1>4. \A j \in Calls : call'[j].st # "idle" => SoleCall(call[j])'
    BY <1>2, <1>3 DEF SoleCall
<1> QED
    BY <1>3, <1>4 DEF Sole

(* A new call, nothing being under way. *)
LEMMA AsksSole ==
    ASSUME TypeInv, Sole, "overlap" \notin upset', NEW k \in Calls,
           LoadMore(k) \/ Search(k) \/ AddPost(k) \/ \E i \in DOMAIN posts : Bin(k, i)
    PROVE  Sole'
<1> DEFINE new(op, of, from, base) == [st |-> "asked", op |-> op, key |-> of, from |-> from,
                                       base |-> base, list |-> <<>>]
<1>1. ASSUME NEW op \in {"more", "first", "bin", "add"}, NEW of, NEW from, NEW base,
             Ask(k, op, of, from, base), made' = posts',
             op \in {"more", "bin"} => base = posts', op = "first" => posts' = <<>>,
             op \in {"bin", "add"} => view' = "Profile"
      PROVE  Sole'
  <2>1. PICK c : c = new(op, of, from, base)
    OBVIOUS
  <2>2. c.op = op /\ c.base = base /\ call' = [call EXCEPT ![k] = c]
    BY <1>1, <2>1 DEF Ask
  <2>3. SoleCall(c)'
    BY <1>1, <2>2 DEF SoleCall
  <2>4. UnderWay = {}
    BY <1>1, Zenon DEF Ask
  <2>5. \A j \in Calls : call[j].st # "idle" => j = k
    BY <2>4 DEF UnderWay
  <2> QED
    BY <1>1, <2>2, <2>3, <2>5, SoleStep
<1> HIDE DEF new
<1>2. CASE LoadMore(k)
  <2> DEFINE from == IF view = "Profile" THEN Len(posts) ELSE seen.offset + Limit
  <2>1. Ask(k, "more", seen.key, from, posts) /\ posts' = posts /\ made' = made
    BY <1>2 DEF LoadMore
  <2> HIDE DEF from
  <2> QED
    BY <1>1, <2>1 DEF Sole
<1>3. CASE Search(k)
  <2>1. Ask(k, "first", key, 0, <<>>) /\ posts' = <<>> /\ made' = Made(posts')
    BY <1>3 DEF Search, Emptied, Renewed
  <2>2. <<>> \in Items /\ posts \in Items /\ made = posts
    BY DEF Sole, Items, TypeInv, ListOK
  <2>3. \A i \in DOMAIN <<>> : <<>>[i] = posts[i]
    OBVIOUS
  <2>4. Made(<<>>) = <<>>
    BY <2>2, <2>3, MadeSame
  <2> QED
    BY <1>1, <2>1, <2>4
<1>4. CASE AddPost(k)
  <2>1. Ask(k, "add", Me, 0, <<>>) /\ view' = "Profile" /\ posts' = posts /\ made' = made
    BY <1>4 DEF AddPost, listVars
  <2> QED
    BY <1>1, <2>1 DEF Sole
<1>5. ASSUME NEW i \in DOMAIN posts, Bin(k, i)
      PROVE  Sole'
  <2>1. Ask(k, "bin", posts[i].key, posts[i].id, posts) /\ view' = "Profile" /\ posts' = posts /\ made' = made
    BY <1>5 DEF Bin, listVars
  <2> QED
    BY <1>1, <2>1 DEF Sole
<1> QED
    BY <1>2, <1>3, <1>4, <1>5

(* A server's answer changes nothing that is shown. *)
LEMMA AnswersSole ==
    ASSUME TypeInv, Sole, NEW k \in Calls, AnswerList(k) \/ Perform(k) \/ Fail(k)
    PROVE  Sole'
<1>1. call[k] \in Asked /\ call[k].st = "asked" /\ SoleCall(call[k]) /\ Idle.st = "idle"
      /\ \A j \in Calls : call[j].st # "idle" => j = k
    BY CallFields DEF TypeInv, AnswerList, Perform, Fail, Sole, Idle
<1>2. view' = view /\ posts' = posts /\ made' = posts'
    BY DEF AnswerList, Perform, Fail, Sole, listVars
<1>3. CASE call' = [call EXCEPT ![k] = Idle]
  <2>1. PICK c : c = Idle
    OBVIOUS
  <2>2. c.st = "idle" /\ call' = [call EXCEPT ![k] = c]
    BY <1>1, <1>3, <2>1
  <2> QED
    BY <1>1, <1>2, <2>2, SoleStep
<1>4. ASSUME NEW n, call' = [call EXCEPT ![k] = n], n.op = call[k].op, n.base = call[k].base
      PROVE  Sole'
  <2>1. SoleCall(n)'
    BY <1>1, <1>2, <1>4 DEF SoleCall
  <2> QED
    BY <1>1, <1>2, <1>4, <2>1, SoleStep
<1>5. CASE AnswerList(k)
  <2> DEFINE n == [call[k] EXCEPT !.st = "ok", !.list = Page(call[k].key, call[k].from)]
  <2>1. call' = [call EXCEPT ![k] = n] /\ n.op = call[k].op /\ n.base = call[k].base
    BY <1>1, <1>5 DEF AnswerList, Asked
  <2> HIDE DEF n
  <2>2. PICK c : c = n
    OBVIOUS
  <2> QED
    BY <1>4, <2>1, <2>2
<1>6. CASE call' = [call EXCEPT ![k].st = "ok"]
  <2> DEFINE n == [call[k] EXCEPT !.st = "ok"]
  <2>1. call' = [call EXCEPT ![k] = n] /\ n.op = call[k].op /\ n.base = call[k].base
    BY <1>1, <1>6 DEF Asked
  <2> HIDE DEF n
  <2>2. PICK c : c = n
    OBVIOUS
  <2> QED
    BY <1>4, <2>1, <2>2
<1> QED
    BY <1>3, <1>5, <1>6, Zenon DEF Fail, Perform

(* An answer that arrives finds the list it started from. *)
LEMMA ArrivesSole ==
    ASSUME TypeInv, Sole, NEW k \in Calls, Arrives(k)
    PROVE  Sole'
<1>1. call[k] \in Asked /\ call[k].st = "ok" /\ SoleCall(call[k]) /\ Idle.st = "idle"
      /\ \A j \in Calls : call[j].st # "idle" => j = k
    BY CallFields DEF TypeInv, Arrives, MoreArrives, FirstArrives, BinArrives, AddArrives, AddUnlisted, Sole, Idle
<1>2. /\ call[k].base \in Items /\ call[k].list \in Items /\ posts \in Items /\ <<>> \in Items
      /\ made = posts
    BY <1>1 DEF Asked, TypeInv, ListOK, Sole, Items
<1>3. ASSUME call' = [call EXCEPT ![k] = Idle], made' = posts'
      PROVE  Sole'
  <2>1. PICK c : c = Idle
    OBVIOUS
  <2>2. c.st = "idle" /\ call' = [call EXCEPT ![k] = c]
    BY <1>1, <1>3, <2>1
  <2> QED
    BY <1>1, <1>3, <2>2, SoleStep
<1>4. CASE MoreArrives(k)
  <2>1. call' = [call EXCEPT ![k] = Idle] /\ made' = Made(posts') /\ call[k].base = posts
    BY <1>1, <1>4 DEF MoreArrives, Renewed, SoleCall
  <2>2. CASE call[k].list = <<>>
    <3>1. posts' = posts
      BY <1>4, <2>2 DEF MoreArrives
    <3>2. Made(posts) = posts
      BY <1>2, MadeSame
    <3> QED
      BY <1>3, <2>1, <3>1, <3>2
  <2>3. CASE call[k].list # <<>>
    <3> DEFINE l == posts \o call[k].list
    <3>1. posts' = l
      BY <1>4, <2>1, <2>3 DEF MoreArrives
    <3>2. l \in Items /\ \A i \in DOMAIN l : i \in DOMAIN posts => l[i] = posts[i]
      <4>1. /\ l \in Items /\ \A i \in 1..(Len(posts) + Len(call[k].list)) :
                  l[i] = IF i <= Len(posts) THEN posts[i] ELSE call[k].list[i - Len(posts)]
            /\ Len(l) = Len(posts) + Len(call[k].list)
        BY <1>2, ConcatProperties DEF Items
      <4>2. DOMAIN l = 1..Len(l) /\ DOMAIN posts = 1..Len(posts) /\ Len(posts) \in Nat
        BY <1>2, <4>1, LenProperties DEF Items
      <4> HIDE DEF l
      <4> QED
        BY <4>1, <4>2
    <3> HIDE DEF l
    <3>3. Made(l) = l
      BY <1>2, <3>2, MadeSame
    <3> QED
      BY <1>3, <2>1, <3>1, <3>3
  <2> QED
    BY <2>2, <2>3
<1>5. CASE FirstArrives(k)
  <2>1. CASE UNCHANGED listVars
    BY <1>2, <1>3, <1>5, <2>1 DEF FirstArrives, listVars
  <2>2. CASE call[k].list # <<>>
    <3>1. posts' = call[k].list /\ made' = Made(posts') /\ posts = <<>>
          /\ call' = [call EXCEPT ![k] = Idle]
      BY <1>1, <1>5, <2>2 DEF FirstArrives, Renewed, SoleCall
    <3>2. Made(call[k].list) = call[k].list
      BY <1>2, <3>1, MadeSame
    <3> QED
      BY <1>3, <3>1, <3>2
  <2> QED
    BY <1>5, <2>1, <2>2 DEF FirstArrives
<1>6. CASE BinArrives(k)
  <2>1. call' = [call EXCEPT ![k] = Idle] /\ made' = Made(posts') /\ view = "Profile"
    BY <1>1, <1>6 DEF BinArrives, Renewed, SoleCall
  <2>2. made' = posts'
    BY <2>1 DEF Made
  <2> QED
    BY <1>3, <2>1, <2>2
<1>7. CASE AddArrives(k)
  <2> DEFINE n == [call[k] EXCEPT !.st = "asked", !.op = "first", !.key = key]
  <2>1. call' = [call EXCEPT ![k] = n] /\ n.op = "first"
    BY <1>1, <1>7 DEF AddArrives, Asked
  <2>2. posts' = <<>> /\ made' = posts'
    BY <1>1, <1>7 DEF AddArrives, Emptied, Renewed, Made, SoleCall
  <2> HIDE DEF n
  <2>3. PICK c : c = n
    OBVIOUS
  <2>4. SoleCall(c)'
    BY <2>1, <2>2, <2>3 DEF SoleCall
  <2> QED
    BY <1>1, <2>1, <2>2, <2>3, <2>4, SoleStep
<1>8. CASE AddUnlisted(k)
    BY <1>2, <1>3, <1>8 DEF AddUnlisted, listVars
<1> QED
    BY <1>4, <1>5, <1>6, <1>7, <1>8 DEF Arrives

(* Nothing else starts a call or moves the list. *)
LEMMA SoleNext == TypeInv /\ SoleInv /\ [Next]_vars => SoleInv'
<1> SUFFICES ASSUME TypeInv, SoleInv, [Next]_vars, "overlap" \notin upset' PROVE Sole'
    BY DEF SoleInv
<1>1. Sole
    BY Remembers DEF SoleInv
<1>2. ASSUME UNCHANGED <<view, posts, made, call>> PROVE Sole'
    BY <1>1, <1>2 DEF Sole, SoleCall
<1>3. CASE Elsewhere \/ OpenForm \/ Back \/ UNCHANGED vars
    BY <1>2, <1>3, FormStill DEF Elsewhere, listVars, Still
<1>4. ASSUME NEW to \in Keys, Turn(to) PROVE Sole'
    BY <1>2, <1>4 DEF Turn
<1> QED
    BY <1>1, <1>3, <1>4, AsksSole, AnswersSole, ArrivesSole DEF Next

(* The first render shows nothing. *)
LEMMA SoleStart == Init => SoleInv
    BY DEF Init, SoleInv, Sole, Idle

----------------------------------------------------------------------------
(* On PostsPage the list, and the list each call started from, is the      *)
(* beginning of the rows, as long as these stay as they are.               *)
Beginning(s) == \A i \in DOMAIN s : i \in DOMAIN rows[Me] /\ s[i] = [key |-> Me, id |-> rows[Me][i]]

FrontList == /\ Beginning(posts) /\ Beginning(made)
             /\ seen.offset = offset /\ seen.key = Me
             /\ ~isEnough => Len(posts) = offset + Limit

FrontCall(c) == /\ c.op = "more" /\ c.key = Me
                /\ Beginning(c.base) /\ Len(c.base) = c.from
                /\ c.st = "ok" => c.list = Page(Me, c.from)

FrontCalls == \A k \in Calls : call[k].st # "idle" => FrontCall(call[k])

Quiet    == view = "PostsPage" /\ Untouched({"added", "removed"})
FrontInv == Quiet => FrontList /\ FrontCalls

(* Others would have been noticed. *)
LEMMA QuietElsewhere == ~(Elsewhere /\ Quiet')
<1> SUFFICES ASSUME Elsewhere, Quiet' PROVE FALSE
    OBVIOUS
<1>1. view' = view
    BY DEF Elsewhere
<1>2. \/ upset' = upset \cup {IF view = "FriendSearch" THEN "joined" ELSE "added"}
      \/ upset' = upset \cup {"added"}
      \/ upset' = upset \cup {"removed"}
      \/ view = "FriendSearch"
    BY Zenon DEF Elsewhere
<1> QED
    BY <1>1, <1>2 DEF Quiet, Untouched

(* A list that is continued by the page behind it. *)
LEMMA FrontMore ==
    ASSUME TypeInv, NEW b \in Items, Beginning(b)
    PROVE  b \o Page(Me, Len(b)) \in Items /\ Beginning(b \o Page(Me, Len(b)))
<1> DEFINE p == Page(Me, Len(b))
           l == b \o p
<1>1. Len(b) \in Nat /\ DOMAIN b = 1..Len(b) /\ Me \in Keys /\ DbOK
    BY FeedAssumption DEF Items, TypeInv
<1>2. /\ p \in Items
      /\ \A i \in DOMAIN p : p[i].key = Me
      /\ \A i \in DOMAIN p : Len(b) + i \in DOMAIN rows[Me] /\ p[i].id = rows[Me][Len(b) + i]
    BY <1>1, PageItems
<1> HIDE DEF p
<1>3. /\ l \in Items /\ Len(l) = Len(b) + Len(p)
      /\ \A i \in 1..(Len(b) + Len(p)) : l[i] = IF i <= Len(b) THEN b[i] ELSE p[i - Len(b)]
    BY <1>2, ConcatProperties DEF Items
<1>4. DOMAIN l = 1..(Len(b) + Len(p)) /\ DOMAIN p = 1..Len(p) /\ Len(p) \in Nat
    BY <1>2, <1>3, LenProperties DEF Items
<1> HIDE DEF l
<1>5. ASSUME NEW i \in 1..(Len(b) + Len(p))
      PROVE  i \in DOMAIN rows[Me] /\ l[i] = [key |-> Me, id |-> rows[Me][i]]
  <2>1. CASE i <= Len(b)
    <3>1. i \in DOMAIN b /\ l[i] = b[i]
      BY <1>1, <1>3, <2>1
    <3> QED
      BY <3>1 DEF Beginning
  <2>2. CASE ~(i <= Len(b))
    <3> DEFINE j == i - Len(b)
    <3>1. j \in DOMAIN p /\ Len(b) + j = i /\ l[i] = p[j]
      BY <1>1, <1>3, <1>4, <2>2
    <3> HIDE DEF j
    <3>2. p[j] \in Item
      BY <1>2, <3>1 DEF Items
    <3>3. p[j] = [key |-> p[j].key, id |-> p[j].id]
      BY <3>2 DEF Item
    <3> QED
      BY <1>2, <3>1, <3>3
  <2> QED
    BY <2>1, <2>2
<1> QED
    BY <1>3, <1>4, <1>5 DEF Beginning, l, p

(* Components are kept or made anew, and both are those of the rows. *)
LEMMA FrontMade ==
    ASSUME view # "Profile", Beginning(made), NEW list \in Items, Beginning(list)
    PROVE  Beginning(Made(list))
<1>1. Made(list) = [i \in DOMAIN list |-> IF i \in DOMAIN made THEN made[i] ELSE list[i]]
    BY DEF Made
<1> QED
    BY <1>1 DEF Beginning

(* Nobody but the calls' own steps touches them. *)
LEMMA OtherFrontCalls ==
    ASSUME TypeInv, FrontCalls, NEW k \in Calls, NEW c, call' = [call EXCEPT ![k] = c],
           c.st = "idle" \/ FrontCall(c), rows' = rows
    PROVE  FrontCalls'
<1> SUFFICES ASSUME NEW j \in Calls, call'[j].st # "idle" PROVE FrontCall(call[j])'
    BY DEF FrontCalls
<1>1. FrontCall(call'[j])
    BY DEF FrontCalls, TypeInv, CallsOK
<1> QED
    BY <1>1 DEF FrontCall, Beginning, Page

(* The next page is asked for. *)
LEMMA AsksFront ==
    ASSUME TypeInv, Quiet, FrontList, FrontCalls, NEW k \in Calls,
           LoadMore(k) \/ Search(k) \/ AddPost(k) \/ \E i \in DOMAIN posts : Bin(k, i)
    PROVE  FrontList' /\ FrontCalls'
<1>1. LoadMore(k) /\ view = "PostsPage"
    BY DEF Quiet, Search, AddPost, Bin
<1> DEFINE n == [st |-> "asked", op |-> "more", key |-> seen.key, from |-> seen.offset + Limit,
                 base |-> posts, list |-> <<>>]
<1>2. call' = [call EXCEPT ![k] = n] /\ ~isEnough
    BY <1>1 DEF LoadMore, Ask
<1>3. FrontCall(n)
    BY <1>2 DEF FrontCall, FrontList
<1> HIDE DEF n
<1>4. rows' = rows
    BY <1>1 DEF LoadMore, dbVars
<1>5. FrontCalls'
    BY <1>2, <1>3, <1>4, OtherFrontCalls
<1>6. UNCHANGED <<rows, posts, made, seen, offset, isEnough>>
    BY <1>1 DEF LoadMore, dbVars
<1> QED
    BY <1>5, <1>6 DEF FrontList, Beginning

(* A server answers with the page behind the list it was asked from. *)
LEMMA AnswersFront ==
    ASSUME TypeInv, Quiet, FrontList, FrontCalls, NEW k \in Calls,
           AnswerList(k) \/ Perform(k) \/ Fail(k)
    PROVE  FrontList' /\ FrontCalls'
<1>1. call[k] \in Asked /\ FrontCall(call[k]) /\ Idle.st = "idle"
    BY CallFields DEF TypeInv, AnswerList, Perform, Fail, FrontCalls, Idle
<1>2. ~Perform(k)
    BY <1>1, Zenon DEF Perform, FrontCall
<1>3. UNCHANGED <<rows, posts, made, seen, offset, isEnough>>
    BY <1>2 DEF AnswerList, Fail, dbVars, listVars
<1>4. FrontList'
    BY <1>3 DEF FrontList, Beginning
<1>5. CASE Fail(k)
  <2>1. PICK c : c = Idle
    OBVIOUS
  <2>2. c.st = "idle" /\ call' = [call EXCEPT ![k] = c]
    BY <1>1, <1>5, <2>1 DEF Fail
  <2> QED
    BY <1>3, <1>4, <2>2, OtherFrontCalls
<1>6. CASE AnswerList(k)
  <2> DEFINE p == Page(call[k].key, call[k].from)
             n == [call[k] EXCEPT !.st = "ok", !.list = p]
  <2>1. call' = [call EXCEPT ![k] = n]
    BY <1>6 DEF AnswerList
  <2>2. p = Page(Me, call[k].from)
    BY <1>1 DEF FrontCall
  <2> HIDE DEF p
  <2>3. /\ n.op = "more" /\ n.key = Me /\ n.base = call[k].base /\ n.from = call[k].from
        /\ n.list = p
    BY <1>1 DEF Asked, FrontCall
  <2> HIDE DEF n
  <2>4. PICK c : c = n
    OBVIOUS
  <2>5. FrontCall(c)
    BY <1>1, <2>2, <2>3, <2>4 DEF FrontCall
  <2> QED
    BY <1>3, <1>4, <2>1, <2>4, <2>5, OtherFrontCalls
<1> QED
    BY <1>2, <1>5, <1>6

(* A page arrives, late or not, and takes its own place. *)
LEMMA ArrivesFront ==
    ASSUME TypeInv, Quiet, FrontList, FrontCalls, NEW k \in Calls, Arrives(k),
           key = Me, key' = Me
    PROVE  FrontList' /\ FrontCalls'
<1>1. call[k] \in Asked /\ FrontCall(call[k]) /\ Idle.st = "idle"
    BY CallFields DEF TypeInv, Arrives, MoreArrives, FirstArrives, BinArrives, AddArrives, AddUnlisted, FrontCalls, Idle
<1>2. MoreArrives(k) /\ view = "PostsPage"
    BY <1>1 DEF Arrives, FirstArrives, BinArrives, AddArrives, AddUnlisted, FrontCall, Quiet
<1>3. /\ rows' = rows /\ call' = [call EXCEPT ![k] = Idle] /\ made' = Made(posts')
      /\ seen' = [key |-> key', offset |-> offset'] /\ call[k].st = "ok"
    BY <1>2 DEF MoreArrives, Renewed, dbVars
<1>4. FrontCalls'
  <2>1. PICK c : c = Idle
    OBVIOUS
  <2>2. c.st = "idle" /\ call' = [call EXCEPT ![k] = c]
    BY <1>1, <1>3, <2>1
  <2> QED
    BY <1>3, <2>2, OtherFrontCalls
<1>5. ASSUME NEW list \in Items, Beginning(list), posts' = list,
             ~isEnough' => Len(list) = offset' + Limit
      PROVE  FrontList'
  <2>1. Beginning(Made(list))
    BY <1>2, <1>5, FrontMade DEF FrontList
  <2>2. Beginning(made)' /\ Beginning(posts)'
    BY <1>3, <1>5, <2>1 DEF Beginning
  <2> QED
    BY <1>3, <1>5, <2>2 DEF FrontList
<1>6. CASE call[k].list = <<>>
  <2>1. Short(call[k].list)
    BY <1>6, FeedAssumption DEF Short
  <2>2. isEnough' = TRUE /\ posts' = posts
    BY <1>2, <1>6, <2>1 DEF MoreArrives
  <2> QED
    BY <1>4, <1>5, <2>2 DEF FrontList, TypeInv, ListOK
<1>7. CASE call[k].list # <<>>
  <2> DEFINE b == call[k].base
             p == Page(Me, Len(b))
  <2>1. b \in Items /\ Beginning(b) /\ call[k].from = Len(b) /\ call[k].list = p
    BY <1>1, <1>3 DEF Asked, FrontCall
  <2>2. b \o p \in Items /\ Beginning(b \o p)
    BY <2>1, FrontMore
  <2>3. posts' = b \o p /\ offset' = Len(b) /\ (~isEnough' => ~Short(p))
    BY <1>2, <1>7, <2>1 DEF MoreArrives
  <2>4. p \in Items /\ Len(p) <= Limit /\ Len(b) \in Nat /\ Len(p) \in Nat
    BY <2>1, PageItems, FeedAssumption DEF Items, TypeInv
  <2> HIDE DEF p
  <2>5. Len(b \o p) = Len(b) + Len(p)
    BY <2>1, <2>4, ConcatProperties DEF Items
  <2> HIDE DEF b
  <2>6. ~Short(p) => Len(p) = Limit
    BY <2>4, FeedAssumption DEF Short
  <2>7. ~isEnough' => Len(b \o p) = offset' + Limit
    BY <2>3, <2>5, <2>6
  <2> QED
    BY <1>4, <1>5, <2>2, <2>3, <2>7
<1> QED
    BY <1>6, <1>7

(* On PostsPage the key is always one's own. *)
OwnKey == view = "PostsPage" => key = Me

(* Nothing but a search text or another profile changes the key. *)
LEMMA OwnKeyNext == TypeInv /\ OwnKey /\ [Next]_vars => OwnKey'
<1> SUFFICES ASSUME TypeInv, OwnKey, [Next]_vars, view' = "PostsPage" PROVE key' = Me
    BY DEF OwnKey
<1>1. ASSUME NEW k \in Calls, LoadMore(k) \/ Search(k) \/ AddPost(k) \/ \E i \in DOMAIN posts : Bin(k, i)
      PROVE  view' = view /\ key' = key
    BY <1>1 DEF LoadMore, Search, AddPost, Bin, Emptied, listVars
<1>2. ASSUME NEW k \in Calls, AnswerList(k) \/ Perform(k) \/ Fail(k)
      PROVE  view' = view /\ key' = key
    BY <1>2 DEF AnswerList, Perform, Fail, listVars
<1>3. ASSUME NEW k \in Calls, Arrives(k)
      PROVE  view' = view /\ (view # "FriendSearch" => key' = key)
    BY <1>3 DEF Arrives, MoreArrives, FirstArrives, BinArrives, AddArrives, AddUnlisted, Emptied, listVars
<1>4. ASSUME NEW to \in Keys, Turn(to) PROVE view' = view /\ view # "PostsPage"
    BY <1>4 DEF Turn
<1>5. CASE Elsewhere \/ OpenForm \/ Back \/ UNCHANGED vars
  <2>1. view' = view /\ key' = key
    BY <1>5, FormStill DEF Elsewhere, Still, listVars
  <2> QED
    BY <2>1 DEF OwnKey
<1> QED
    BY <1>1, <1>2, <1>3, <1>4, <1>5 DEF Next, OwnKey

(* Every step keeps the list at the beginning of the rows. *)
LEMMA FrontNext == TypeInv /\ OwnKey /\ OwnKey' /\ FrontInv /\ [Next]_vars => FrontInv'
<1> SUFFICES ASSUME TypeInv, OwnKey, OwnKey', FrontInv, [Next]_vars, Quiet'
             PROVE  FrontList' /\ FrontCalls'
    BY DEF FrontInv
<1>1. Quiet /\ FrontList /\ FrontCalls /\ key = Me /\ key' = Me
    BY Remembers DEF FrontInv, OwnKey, Quiet, Untouched
<1>2. ~Elsewhere
    BY QuietElsewhere
<1>3. CASE OpenForm \/ Back \/ UNCHANGED vars
  <2>1. UNCHANGED <<rows, posts, made, seen, offset, isEnough, call>>
    BY <1>3, FormStill DEF Still, dbVars
  <2>2. FrontList'
    BY <1>1, <2>1 DEF FrontList, Beginning
  <2>3. \A k \in Calls : FrontCall(call[k]) => FrontCall(call[k])'
    BY <2>1 DEF FrontCall, Beginning, Page
  <2> QED
    BY <1>1, <2>1, <2>2, <2>3 DEF FrontCalls
<1>4. ASSUME NEW to \in Keys, Turn(to) PROVE FALSE
    BY <1>1, <1>4 DEF Turn, Quiet
<1> QED
    BY <1>1, <1>2, <1>3, <1>4, AsksFront, AnswersFront, ArrivesFront DEF Next

(* The first render shows nothing, and its first page begins at the first  *)
(* row.                                                                    *)
LEMMA FrontStart == Init => FrontInv /\ OwnKey
<1> SUFFICES ASSUME Init PROVE FrontInv /\ OwnKey
    OBVIOUS
<1>1. view = "PostsPage" => FrontList
  <2>1. /\ posts = <<>> /\ made = <<>> /\ seen = [key |-> Me, offset |-> offset]
        /\ view = "PostsPage" => offset = 0 - Limit
    BY DEF Init
  <2> QED
    BY <2>1, FeedAssumption DEF FrontList, Beginning
<1> QED
    BY <1>1 DEF Init, FrontInv, FrontCalls, Quiet, Idle, OwnKey

(* Two lists that are as long, and both the beginning of the rows. *)
LEMMA FrontSame ==
    ASSUME TypeInv, Beginning(posts), Beginning(made) PROVE made = posts
<1>1. posts \in Items /\ made \in Items /\ Len(made) = Len(posts)
    BY DEF TypeInv, ListOK
<1>2. DOMAIN posts = 1..Len(posts) /\ DOMAIN made = 1..Len(posts)
    BY <1>1 DEF Items
<1>3. \A i \in 1..Len(posts) : made[i] = posts[i]
    BY <1>2 DEF Beginning
<1> QED
    BY <1>1, <1>2, <1>3 DEF Items

(* A button stands for what is shown beside it, in lists whose components  *)
(* React keeps by their places, whenever loads do not overlap, and on      *)
(* PostsPage however they overlap, while no posts come and go.             *)
THEOREM ItemsAlwaysOwn == Spec => []ItemsOwn
<1>1. TypeInv /\ SoleInv /\ FrontInv => ItemsOwn
    BY FrontSame DEF SoleInv, Sole, FrontInv, FrontList, Quiet, ItemsOwn, Untouched
<1>2. Spec => []SoleInv
    BY SoleStart, SoleNext, TypeInvariant, PTL DEF Spec
<1>3. Spec => []OwnKey
    BY FrontStart, OwnKeyNext, TypeInvariant, PTL DEF Spec
<1>4. Spec => []FrontInv
    BY FrontStart, FrontNext, TypeInvariant, <1>3, PTL DEF Spec
<1> QED
    BY <1>1, <1>2, <1>4, TypeInvariant, PTL

----------------------------------------------------------------------------
(* What can be said of the lists and rows by their items alone. *)
Row(of, i)    == [key |-> of, id |-> rows[of][i]]
Has(list, e)  == \E m \in DOMAIN list : list[m] = e
Old(list)     == \A m \in DOMAIN list : list[m].id <= lastId[list[m].key]

(* What an item of a list is. *)
LEMMA ItemOf ==
    ASSUME NEW list \in Items, NEW m \in DOMAIN list
    PROVE  /\ list[m] \in Item /\ list[m].key \in Keys /\ list[m].id \in Int
           /\ list[m] = [key |-> list[m].key, id |-> list[m].id]
           /\ m \in Nat
<1>1. list[m] \in Item /\ m \in Nat
    BY DEF Items
<1> QED
    BY <1>1 DEF Item, Ids

(* A set of naturals that has an element has a least one. *)
LEMMA Least ==
    ASSUME NEW S \in SUBSET Nat, S # {}
    PROVE  \E x \in S : \A y \in S : x <= y
<1>1. PICK x \in S : \A y \in S : <<y, x>> \notin OpToRel(<, Nat)
    BY NatLessThanWellFounded, WFMin
<1>2. \A y \in S : ~(y < x)
    BY <1>1 DEF OpToRel
<1> QED
    BY <1>2

(* As many as one counts. *)
LEMMA Counted ==
    ASSUME NEW n \in Nat PROVE IsFiniteSet(1..n) /\ Cardinality(1..n) = n
    BY FS_Interval

(* The items of two lists put together. *)
LEMMA ConcatItems ==
    ASSUME NEW a \in Items, NEW b \in Items
    PROVE  /\ a \o b \in Items /\ Len(a \o b) = Len(a) + Len(b)
           /\ \A i \in DOMAIN a : i \in DOMAIN (a \o b) /\ (a \o b)[i] = a[i]
           /\ \A i \in DOMAIN b : Len(a) + i \in DOMAIN (a \o b) /\ (a \o b)[Len(a) + i] = b[i]
           /\ \A i \in DOMAIN (a \o b) :
                 \/ i \in DOMAIN a
                 \/ i - Len(a) \in DOMAIN b /\ i = Len(a) + (i - Len(a))
<1> DEFINE l == a \o b
<1>1. /\ l \in Items /\ Len(l) = Len(a) + Len(b)
      /\ \A i \in 1..(Len(a) + Len(b)) : l[i] = IF i <= Len(a) THEN a[i] ELSE b[i - Len(a)]
    BY ConcatProperties DEF Items
<1>2. /\ DOMAIN l = 1..(Len(a) + Len(b)) /\ DOMAIN a = 1..Len(a) /\ DOMAIN b = 1..Len(b)
      /\ Len(a) \in Nat /\ Len(b) \in Nat
    BY <1>1, LenProperties DEF Items
<1> HIDE DEF l
<1>3. \A i \in 1..Len(b) : Len(a) + i - Len(a) = i
    BY <1>2
<1>4. ASSUME NEW i \in DOMAIN b PROVE Len(a) + i \in DOMAIN l /\ l[Len(a) + i] = b[i]
    BY <1>1, <1>2, <1>3
<1>5. \A i \in DOMAIN a : i \in DOMAIN l /\ l[i] = a[i]
    BY <1>1, <1>2
<1>6. \A i \in DOMAIN l :
         \/ i \in DOMAIN a
         \/ i - Len(a) \in DOMAIN b /\ i = Len(a) + (i - Len(a))
    BY <1>1, <1>2
<1> QED
    BY <1>1, <1>4, <1>5, <1>6 DEF l

(* What was shown once, put behind what was shown once. *)
LEMMA OldConcat ==
    ASSUME NEW a \in Items, NEW b \in Items, Old(a), Old(b)
    PROVE  a \o b \in Items /\ Old(a \o b)
<1> DEFINE l == a \o b
<1>1. /\ l \in Items
      /\ \A i \in DOMAIN a : l[i] = a[i]
      /\ \A i \in DOMAIN b : l[Len(a) + i] = b[i]
      /\ \A i \in DOMAIN l : i \in DOMAIN a \/ (i - Len(a) \in DOMAIN b /\ i = Len(a) + (i - Len(a)))
    BY ConcatItems
<1> HIDE DEF l
<1>2. ASSUME NEW i \in DOMAIN l PROVE l[i].id <= lastId[l[i].key]
    BY <1>1 DEF Old
<1> QED
    BY <1>1, <1>2 DEF Old, l

(* A list is as it was when nothing is put behind it. *)
LEMMA ConcatEmpty ==
    ASSUME NEW a \in Items PROVE a \o <<>> = a /\ <<>> \o a = a
    BY DEF Items

(* A list without an item: what is kept, one to one and in its order. *)
Enumerates(f, n, list, e) ==
    LET kept == {i \in DOMAIN list : list[i] # e}
    IN /\ n \in Nat /\ f \in [1..n -> kept]
       /\ n = Cardinality(kept)
       /\ \A i, j \in 1..n : i < j => f[i] < f[j]
       /\ \A m \in kept : \E i \in 1..n : f[i] = m

(* Without yields the enumeration of what is kept. *)
LEMMA WithoutBy ==
    ASSUME NEW list \in Items, NEW e, NEW t \in Without(list, e)
    PROVE  \E n, f : Enumerates(f, n, list, e) /\ t = [i \in 1..n |-> list[f[i]]]
<1> DEFINE kept == {i \in DOMAIN list : list[i] # e}
           n == Cardinality(kept)
<1>1. IsFiniteSet(kept) /\ n \in Nat
  <2>1. IsFiniteSet(1..Len(list)) /\ kept \subseteq 1..Len(list)
    BY FS_Interval DEF Items
  <2> QED
    BY <2>1, FS_Subset, FS_CardinalityType
<1>2. PICK f \in [1..n -> kept] :
          t = [i \in DOMAIN f |-> list[f[i]]] /\ \A i, j \in DOMAIN f : i < j => f[i] < f[j]
    BY DEF Without
<1>3. kept \subseteq Nat
    BY DEF Items
<1> HIDE DEF n, kept
<1>4. ASSUME NEW i \in 1..n, NEW j \in 1..n, f[i] = f[j] PROVE i = j
  <2>1. f[i] \in kept /\ f[j] \in kept /\ i \in Nat /\ j \in Nat
    BY <1>1, <1>2
  <2>3. f[i] \in Nat /\ f[j] \in Nat
    BY <1>3, <2>1
  <2>2. ~(i < j) /\ ~(j < i)
    BY <1>2, <1>4, <2>3
  <2> QED
    BY <2>1, <2>2
<1>5. f \in Injection(1..n, kept)
    BY <1>2, <1>4 DEF Injection, IsInjective
<1>6. Cardinality(1..n) = n
    BY <1>1, Counted
<1>7. f \in Surjection(1..n, kept)
    BY <1>1, <1>5, <1>6, FS_Injection DEF n
<1>8. \A m \in kept : \E i \in 1..n : f[i] = m
    BY <1>7 DEF Surjection
<1>9. t = [i \in 1..n |-> list[f[i]]]
    BY <1>2
<1>10. Enumerates(f, n, list, e)
    BY <1>1, <1>2, <1>8 DEF Enumerates, n, kept
<1> QED
    BY <1>9, <1>10

(* Nothing else is lost, and nothing is kept of the item. *)
LEMMA WithoutHas ==
    ASSUME NEW list \in Items, NEW e, NEW t \in Without(list, e), NEW x
    PROVE  Has(t, x) <=> Has(list, x) /\ x # e
<1>1. PICK n, f : Enumerates(f, n, list, e) /\ t = [i \in 1..n |-> list[f[i]]]
    BY WithoutBy
<1> QED
    BY <1>1 DEF Enumerates, Has

(* The items that are kept stay in their order, and as far from each other *)
(* being equal as they were.                                               *)
LEMMA WithoutOrder ==
    ASSUME NEW list \in Items, NEW e, NEW t \in Without(list, e)
    PROVE  /\ \A p, q \in DOMAIN t : p <= q =>
                 \E a, b \in DOMAIN list : a <= b /\ t[p] = list[a] /\ t[q] = list[b]
           /\ IsInjective(list) => IsInjective(t)
<1>1. PICK n, f : Enumerates(f, n, list, e) /\ t = [i \in 1..n |-> list[f[i]]]
    BY WithoutBy
<1>2. \A i \in 1..n : f[i] \in DOMAIN list /\ f[i] \in Nat
    BY <1>1 DEF Enumerates, Items
<1>3. DOMAIN t = 1..n /\ \A i \in 1..n : t[i] = list[f[i]]
    BY <1>1
<1>4. \A i, j \in 1..n : i < j => f[i] < f[j]
    BY <1>1 DEF Enumerates
<1>5. ASSUME NEW p \in 1..n, NEW q \in 1..n, p <= q PROVE f[p] <= f[q]
    BY <1>2, <1>4, <1>5
<1>6. ASSUME IsInjective(list), NEW p \in 1..n, NEW q \in 1..n, t[p] = t[q] PROVE p = q
  <2>1. f[p] = f[q]
    BY <1>2, <1>3, <1>6 DEF IsInjective
  <2> QED
    BY <1>2, <1>4, <2>1
<1>7. IsInjective(list) => IsInjective(t)
    BY <1>3, <1>6 DEF IsInjective
<1> QED
    BY <1>2, <1>3, <1>5, <1>7

(* A list becomes shorter, and by one where the item stands but once. *)
LEMMA WithoutLen ==
    ASSUME NEW list \in Items, NEW e, NEW t \in Without(list, e), Has(list, e)
    PROVE  /\ Len(t) \in Nat /\ Len(t) <= Len(list) - 1
           /\ IsInjective(list) => Len(t) = Len(list) - 1
<1>1. PICK n, f : Enumerates(f, n, list, e) /\ t = [i \in 1..n |-> list[f[i]]]
    BY WithoutBy
<1> DEFINE kept == {i \in DOMAIN list : list[i] # e}
           s == 1..Len(list)
<1>2. PICK d \in DOMAIN list : list[d] = e
    BY DEF Has
<1>3. IsFiniteSet(s) /\ Cardinality(s) = Len(list) /\ Len(list) \in Nat /\ DOMAIN list = s
    BY Counted DEF Items
<1>4. kept \subseteq s \ {d}
    BY <1>2, <1>3
<1> HIDE DEF s
<1>5. IsFiniteSet(s \ {d}) /\ Cardinality(s \ {d}) = Len(list) - 1
    BY <1>2, <1>3, FS_RemoveElement
<1> HIDE DEF kept
<1>6. Cardinality(kept) <= Len(list) - 1
    BY <1>4, <1>5, FS_Subset
<1> USE DEF kept
<1>7. IsInjective(list) => kept = s \ {d}
    BY <1>2, <1>3 DEF IsInjective
<1>8. n = Cardinality(kept) /\ n \in Nat
    BY <1>1 DEF Enumerates
<1> HIDE DEF kept, s
<1>9. Len(t) = n
    BY <1>1, <1>8
<1> QED
    BY <1>5, <1>6, <1>7, <1>8, <1>9

(* Where the item stands but once, the items behind it come one place      *)
(* forward.                                                                *)
LEMMA WithoutOne ==
    ASSUME NEW list \in Items, NEW d \in DOMAIN list, NEW t \in Without(list, list[d]),
           \A i \in DOMAIN list : list[i] = list[d] => i = d
    PROVE  /\ DOMAIN t = 1..(Len(list) - 1) /\ Len(t) = Len(list) - 1
           /\ \A i \in DOMAIN t : t[i] = IF i < d THEN list[i] ELSE list[i + 1]
<1> DEFINE kept == {i \in DOMAIN list : list[i] # list[d]}
           g(i) == IF i < d THEN i ELSE i + 1
<1>1. PICK n, f : Enumerates(f, n, list, list[d]) /\ t = [i \in 1..n |-> list[f[i]]]
    BY WithoutBy
<1>2. Len(list) \in Nat /\ DOMAIN list = 1..Len(list) /\ d \in 1..Len(list)
    BY DEF Items
<1>3. kept = (1..Len(list)) \ {d}
    BY <1>2
<1>4. n = Len(list) - 1
  <2>1. n = Cardinality(kept)
    BY <1>1 DEF Enumerates
  <2>2. IsFiniteSet(1..Len(list)) /\ Cardinality(1..Len(list)) = Len(list)
    BY <1>2, Counted
  <2> DEFINE s == 1..Len(list)
  <2>3. IsFiniteSet(s) /\ Cardinality(s) = Len(list) /\ d \in s /\ kept = s \ {d}
    BY <1>2, <1>3, <2>2
  <2> HIDE DEF kept, s
  <2> QED
    BY <2>1, <2>3, FS_RemoveElement
<1>5. f \in [1..n -> kept] /\ (\A m \in kept : \E i \in 1..n : f[i] = m)
      /\ \A i, j \in 1..n : i < j => f[i] < f[j]
    BY <1>1 DEF Enumerates
<1> HIDE DEF kept
<1>6. \A i \in 1..n : f[i] \in Nat
    BY <1>3, <1>5
<1>7. \A i \in 1..n : g(i) \in kept /\ g(i) \in Nat
    BY <1>2, <1>3, <1>4
<1>8. \A i, j \in 1..n : i < j => g(i) < g(j)
    BY <1>2
<1>9. \A m \in kept : \E i \in 1..n : g(i) = m
  <2> SUFFICES ASSUME NEW m \in kept PROVE \E i \in 1..n : g(i) = m
    OBVIOUS
  <2>1. m \in 1..Len(list) /\ m # d
    BY <1>3
  <2>2. CASE m < d
    BY <1>2, <1>4, <2>1, <2>2
  <2>3. CASE m > d
    <3>1. m - 1 \in 1..n /\ ~(m - 1 < d) /\ m - 1 + 1 = m
      BY <1>2, <1>4, <2>1, <2>3
    <3> QED
      BY <3>1
  <2> QED
    BY <1>2, <2>1, <2>2, <2>3
<1> HIDE DEF g
<1>10. \A i \in 1..n : f[i] = g(i)
  <2> DEFINE S == {i \in 1..n : f[i] # g(i)}
  <2> SUFFICES ASSUME S # {} PROVE FALSE
    OBVIOUS
  <2>1. S \in SUBSET Nat
    OBVIOUS
  <2>2. PICK x \in S : \A y \in S : x <= y
    BY <2>1, Least
  <2>3. x \in 1..n /\ f[x] # g(x) /\ \A y \in 1..n : y < x => f[y] = g(y)
    BY <2>2
  <2>4. PICK m \in 1..n : f[m] = g(x)
    BY <1>5, <1>7, <2>3
  <2>5. PICK l \in 1..n : g(l) = f[x]
    BY <1>5, <1>9, <2>3
  <2>6. x < m
    <3>1. m < x => g(m) < g(x) /\ f[m] = g(m)
      BY <1>8, <2>3
    <3> QED
      BY <1>7, <2>3, <2>4, <3>1
  <2>7. x < l
    <3>1. l < x => f[l] < f[x] /\ f[l] = g(l)
      BY <1>5, <2>3
    <3> QED
      BY <1>6, <2>3, <2>5, <3>1
  <2>8. f[x] < f[m] /\ g(x) < g(l)
    BY <1>5, <1>8, <2>3, <2>6, <2>7
  <2>9. f[x] \in Nat /\ g(x) \in Nat
    BY <1>6, <1>7, <2>3
  <2> QED
    BY <2>4, <2>5, <2>8, <2>9
<1>11. \A i \in 1..n : t[i] = list[g(i)]
    BY <1>1, <1>10
<1>12. DOMAIN t = 1..n /\ Len(t) = n
    BY <1>1, <1>2, <1>4
<1> QED
    BY <1>4, <1>11, <1>12 DEF g

----------------------------------------------------------------------------
(* Where the row at a place stood before a row of a key was deleted, and   *)
(* before one was added in front of its rows, behind or between them.      *)
BeforeDeleted(of, i, o, j)   == IF o = of /\ j >= i THEN j + 1 ELSE j
BeforeAdded(of, front, o, j) == IF o = of /\ front THEN j - 1 ELSE j
BeforeBetween(of, at, o, j)  == IF o = of /\ j > at THEN j - 1 ELSE j

(* The rows after one was deleted. *)
LEMMA DeletedRows ==
    ASSUME DbOK, NEW of \in Keys, NEW i \in DOMAIN rows[of], Deleted(of, i)
    PROVE  /\ lastId' = lastId /\ DOMAIN rows' = Keys
           /\ Len(rows'[of]) = Len(rows[of]) - 1
           /\ \A o \in Keys : \A j \in DOMAIN rows'[o] :
                 /\ BeforeDeleted(of, i, o, j) \in DOMAIN rows[o]
                 /\ rows'[o][j] = rows[o][BeforeDeleted(of, i, o, j)]
<1> DEFINE r == RemoveAt(rows[of], i)
<1>1. rows[of] \in Seq(Ids) /\ Len(rows[of]) \in Nat /\ DOMAIN rows[of] = 1..Len(rows[of])
    BY DEF DbOK
<1>2. /\ r \in Seq(Ids) /\ Len(r) = Len(rows[of]) - 1
      /\ \A j \in DOMAIN r : r[j] = (IF j < i THEN rows[of][j] ELSE rows[of][j + 1])
    BY <1>1, RemoveAtItems
<1>3. rows' = [rows EXCEPT ![of] = r] /\ lastId' = lastId
    BY DEF Deleted
<1> HIDE DEF r
<1>4. rows'[of] = r /\ DOMAIN rows' = Keys /\ \A o \in Keys : o # of => rows'[o] = rows[o]
    BY <1>3 DEF DbOK
<1>5. DOMAIN r = 1..(Len(rows[of]) - 1)
    BY <1>1, <1>2, LenProperties
<1>6. ASSUME NEW j \in DOMAIN r
      PROVE  /\ BeforeDeleted(of, i, of, j) \in DOMAIN rows[of]
             /\ r[j] = rows[of][BeforeDeleted(of, i, of, j)]
    BY <1>1, <1>2, <1>5 DEF BeforeDeleted
<1>7. ASSUME NEW o \in Keys, o # of, NEW j \in DOMAIN rows'[o]
      PROVE  /\ BeforeDeleted(of, i, o, j) \in DOMAIN rows[o]
             /\ rows'[o][j] = rows[o][BeforeDeleted(of, i, o, j)]
    BY <1>4, <1>7 DEF BeforeDeleted
<1> QED
    BY <1>2, <1>3, <1>4, <1>6, <1>7

(* The rows after one was added, which is new. *)
LEMMA AddedRows ==
    ASSUME DbOK, NEW of \in Keys, NEW front \in BOOLEAN, Added(of, front)
    PROVE  /\ lastId' = [lastId EXCEPT ![of] = @ + 1] /\ DOMAIN rows' = Keys
           /\ Len(rows'[of]) = Len(rows[of]) + 1
           /\ \A o \in Keys : o # of => rows'[o] = rows[o]
           /\ \A o \in Keys : \A j \in DOMAIN rows'[o] :
                 \/ /\ o = of /\ j = (IF front THEN 1 ELSE Len(rows[of]) + 1)
                    /\ rows'[o][j] = lastId[of] + 1
                 \/ /\ BeforeAdded(of, front, o, j) \in DOMAIN rows[o]
                    /\ rows'[o][j] = rows[o][BeforeAdded(of, front, o, j)]
<1> DEFINE n == lastId[of] + 1
           r == IF front THEN <<n>> \o rows[of] ELSE Append(rows[of], n)
<1>1. /\ rows[of] \in Seq(Ids) /\ Len(rows[of]) \in Nat /\ DOMAIN rows[of] = 1..Len(rows[of])
      /\ lastId[of] \in Int
    BY FeedAssumption DEF DbOK
<1>2. lastId' = [lastId EXCEPT ![of] = @ + 1] /\ lastId'[of] = n
    BY DEF Added, DbOK
<1>3. rows' = [rows EXCEPT ![of] = r]
    BY <1>2 DEF Added
<1> HIDE DEF n
<1>4. rows[of] \in Seq(Ids \cup {n}) /\ n \in Ids \cup {n}
    BY <1>1
<1>5. /\ Len(r) = Len(rows[of]) + 1 /\ DOMAIN r = 1..(Len(rows[of]) + 1)
      /\ \A j \in DOMAIN r : \/ j = (IF front THEN 1 ELSE Len(rows[of]) + 1) /\ r[j] = n
                             \/ /\ BeforeAdded(of, front, of, j) \in DOMAIN rows[of]
                                /\ r[j] = rows[of][BeforeAdded(of, front, of, j)]
  <2>1. CASE front
    <3>1. <<n>> \in Seq(Ids \cup {n}) /\ Len(<<n>>) = 1 /\ <<n>>[1] = n
      BY <1>4
    <3>2. r = <<n>> \o rows[of]
      BY <2>1
    <3> HIDE DEF r
    <3>3. r \in Seq(Ids \cup {n}) /\ Len(r) = 1 + Len(rows[of])
          /\ \A j \in 1..Len(r) : r[j] = IF j <= 1 THEN n ELSE rows[of][j - 1]
      BY <1>1, <1>4, <3>1, <3>2, ConcatProperties
    <3>4. DOMAIN r = 1..(Len(rows[of]) + 1) /\ Len(r) = Len(rows[of]) + 1
      BY <1>1, <3>3, LenProperties
    <3>5. ASSUME NEW j \in DOMAIN r, j # 1 PROVE j - 1 \in DOMAIN rows[of] /\ r[j] = rows[of][j - 1]
      BY <1>1, <3>3, <3>4, <3>5
    <3> QED
      BY <1>1, <2>1, <3>3, <3>4, <3>5 DEF BeforeAdded
  <2>2. CASE ~front
    <3>1. r = Append(rows[of], n)
      BY <2>2
    <3> HIDE DEF r
    <3>2. /\ r \in Seq(Ids \cup {n}) /\ Len(r) = Len(rows[of]) + 1
          /\ r[Len(rows[of]) + 1] = n /\ \A j \in 1..Len(rows[of]) : r[j] = rows[of][j]
      BY <1>1, <1>4, <3>1, AppendProperties
    <3>3. DOMAIN r = 1..(Len(rows[of]) + 1)
      BY <3>2, LenProperties
    <3> QED
      BY <1>1, <2>2, <3>2, <3>3 DEF BeforeAdded
  <2> QED
    BY <2>1, <2>2
<1> HIDE DEF r
<1>6. rows'[of] = r /\ DOMAIN rows' = Keys /\ \A o \in Keys : o # of => rows'[o] = rows[o]
    BY <1>3 DEF DbOK
<1>7. ASSUME NEW o \in Keys, o # of, NEW j \in DOMAIN rows'[o]
      PROVE  /\ BeforeAdded(of, front, o, j) \in DOMAIN rows[o]
             /\ rows'[o][j] = rows[o][BeforeAdded(of, front, o, j)]
    BY <1>6, <1>7 DEF BeforeAdded
<1> QED
    BY <1>2, <1>5, <1>6, <1>7 DEF n

(* The rows after one came between them, which is new and late. *)
LEMMA BetweenRows ==
    ASSUME DbOK, NEW of \in Keys, NEW at \in DOMAIN rows[of], Between(of, at)
    PROVE  /\ lastId' = [lastId EXCEPT ![of] = @ + 1] /\ DOMAIN rows' = Keys
           /\ late' = late \cup {[key |-> of, id |-> lastId[of] + 1]}
           /\ Len(rows'[of]) = Len(rows[of]) + 1
           /\ \A o \in Keys : o # of => rows'[o] = rows[o]
           /\ \A o \in Keys : \A j \in DOMAIN rows'[o] :
                 \/ o = of /\ j = at /\ rows'[o][j] = lastId[of] + 1
                 \/ /\ ~(o = of /\ j = at)
                    /\ BeforeBetween(of, at, o, j) \in DOMAIN rows[o]
                    /\ rows'[o][j] = rows[o][BeforeBetween(of, at, o, j)]
<1> DEFINE n == lastId[of] + 1
           r == Inserted(rows[of], at, n)
<1>1. /\ rows[of] \in Seq(Ids) /\ Len(rows[of]) \in Nat /\ DOMAIN rows[of] = 1..Len(rows[of])
      /\ lastId[of] \in Int
    BY FeedAssumption DEF DbOK
<1>2. lastId' = [lastId EXCEPT ![of] = @ + 1] /\ lastId'[of] = n
    BY DEF Between, DbOK
<1>3. rows' = [rows EXCEPT ![of] = r] /\ late' = late \cup {[key |-> of, id |-> n]}
    BY <1>2 DEF Between
<1> HIDE DEF n
<1>4. PICK S : S = Ids \cup {n}
    OBVIOUS
<1>4a. rows[of] \in Seq(S) /\ n \in S /\ at \in 1..(Len(rows[of]) + 1)
    BY <1>1, <1>4
<1>5. /\ r \in Seq(S) /\ Len(r) = Len(rows[of]) + 1
      /\ \A j \in DOMAIN r : r[j] = (IF j < at THEN rows[of][j] ELSE IF j = at THEN n ELSE rows[of][j - 1])
    BY <1>4a, InsertedItems
<1> HIDE DEF r
<1>6. DOMAIN r = 1..(Len(rows[of]) + 1)
    BY <1>5, LenProperties
<1>7. ASSUME NEW j \in DOMAIN r, j # at
      PROVE  /\ BeforeBetween(of, at, of, j) \in DOMAIN rows[of]
             /\ r[j] = rows[of][BeforeBetween(of, at, of, j)]
  <2>1. j \in Nat /\ at \in Nat /\ 1 <= j /\ 1 <= at /\ at <= Len(rows[of]) /\ j <= Len(rows[of]) + 1
    BY <1>1, <1>6
  <2>2. CASE j < at
    <3>1. BeforeBetween(of, at, of, j) = j /\ r[j] = rows[of][j] /\ j \in DOMAIN rows[of]
      BY <1>1, <1>5, <2>1, <2>2 DEF BeforeBetween
    <3> QED
      BY <3>1
  <2>3. CASE j > at
    <3>1. BeforeBetween(of, at, of, j) = j - 1 /\ r[j] = rows[of][j - 1] /\ j - 1 \in DOMAIN rows[of]
      BY <1>1, <1>5, <2>1, <2>3 DEF BeforeBetween
    <3> QED
      BY <3>1
  <2> QED
    BY <1>7, <2>1, <2>2, <2>3
<1>8. r[at] = n /\ at \in DOMAIN r
    BY <1>4a, <1>5, <1>6
<1>9. rows'[of] = r /\ DOMAIN rows' = Keys /\ \A o \in Keys : o # of => rows'[o] = rows[o]
    BY <1>3 DEF DbOK
<1>10. ASSUME NEW o \in Keys, o # of, NEW j \in DOMAIN rows'[o]
       PROVE  /\ BeforeBetween(of, at, o, j) \in DOMAIN rows[o]
              /\ rows'[o][j] = rows[o][BeforeBetween(of, at, o, j)]
    BY <1>9, <1>10 DEF BeforeBetween
<1> QED
    BY <1>2, <1>3, <1>5, <1>7, <1>8, <1>9, <1>10 DEF n

(* The rows after one was moved. *)
LEMMA MovedRows ==
    ASSUME DbOK, NEW of \in Keys, NEW i \in DOMAIN rows[of], NEW at \in DOMAIN rows[of],
           IsInjective(rows[of]), Moved(of, i, at)
    PROVE  /\ \A o \in Keys : o # of => rows'[o] = rows[o]
           /\ IsInjective(rows'[of])
           /\ \A j \in DOMAIN rows'[of] : \E m \in DOMAIN rows[of] : rows'[of][j] = rows[of][m]
<1> DEFINE r == RemoveAt(rows[of], i)
           t == Inserted(r, at, rows[of][i])
           h(j) == IF j < at THEN j ELSE j - 1
           g(j) == IF j = at THEN i ELSE IF h(j) < i THEN h(j) ELSE h(j) + 1
<1>1. rows[of] \in Seq(Ids) /\ Len(rows[of]) \in Nat /\ DOMAIN rows[of] = 1..Len(rows[of])
      /\ rows[of][i] \in Ids /\ i \in 1..Len(rows[of]) /\ at \in 1..Len(rows[of])
    BY DEF DbOK
<1>2. /\ r \in Seq(Ids) /\ Len(r) = Len(rows[of]) - 1
      /\ \A j \in DOMAIN r : r[j] = (IF j < i THEN rows[of][j] ELSE rows[of][j + 1])
    BY <1>1, RemoveAtItems
<1>3. rows' = [rows EXCEPT ![of] = t]
    BY DEF Moved
<1> HIDE DEF r
<1>4. at \in 1..(Len(r) + 1) /\ r \in Seq(Ids) /\ rows[of][i] \in Ids
    BY <1>1, <1>2
<1>5. t \in Seq(Ids) /\ Len(t) = Len(r) + 1
      /\ \A j \in DOMAIN t : t[j] = (IF j < at THEN r[j] ELSE IF j = at THEN rows[of][i] ELSE r[j - 1])
    BY <1>4, InsertedItems
<1> HIDE DEF t
<1>6. DOMAIN t = 1..Len(rows[of]) /\ DOMAIN r = 1..(Len(rows[of]) - 1)
    BY <1>1, <1>2, <1>5, LenProperties
<1>7. ASSUME NEW j \in DOMAIN t PROVE g(j) \in DOMAIN rows[of] /\ t[j] = rows[of][g(j)]
  <2>1. CASE j = at
    BY <1>1, <1>5, <2>1
  <2>2. CASE j # at
    <3>1. h(j) \in DOMAIN r
      BY <1>1, <1>6, <2>2
    <3>2. t[j] = r[h(j)]
      BY <1>1, <1>5, <1>6, <2>2
    <3>3. r[h(j)] = (IF h(j) < i THEN rows[of][h(j)] ELSE rows[of][h(j) + 1])
      BY <1>2, <3>1
    <3>4. g(j) = (IF h(j) < i THEN h(j) ELSE h(j) + 1)
      BY <2>2
    <3> HIDE DEF h, g
    <3>5. g(j) \in DOMAIN rows[of]
      BY <1>1, <1>6, <3>1, <3>4
    <3>6. t[j] = rows[of][g(j)]
      BY <3>2, <3>3, <3>4
    <3> QED
      BY <3>5, <3>6
  <2> QED
    BY <2>1, <2>2
<1>8. \A j, l \in DOMAIN t : g(j) = g(l) => j = l
    BY <1>1, <1>6
<1> HIDE DEF g
<1>9. ASSUME NEW j \in DOMAIN t, NEW l \in DOMAIN t, t[j] = t[l] PROVE j = l
  <2>1. g(j) = g(l)
    BY <1>7, <1>9 DEF IsInjective
  <2> QED
    BY <1>8, <2>1
<1>10. rows'[of] = t /\ \A o \in Keys : o # of => rows'[o] = rows[o]
    BY <1>3 DEF DbOK
<1> QED
    BY <1>7, <1>9, <1>10 DEF IsInjective

----------------------------------------------------------------------------
(* Shapes: what a call under way carries, whatever has happened.  No row   *)
(* is in a table twice, a list shows what was there, and a post that was   *)
(* deleted does not come back.                                             *)
ShapeCall(c) ==
    /\ Old(c.base) /\ Old(c.list) /\ Len(c.list) <= Limit
    /\ c.st = "asked" => c.list = <<>>
    /\ c.op \in {"bin", "add"} => c.list = <<>> /\ view = "Profile"
    /\ c.op \in {"first", "add"} => c.base = <<>> /\ c.from = 0
    /\ c.op = "more" /\ view = "Profile" => c.from = Len(c.base)
    /\ c.op = "bin" => Has(c.base, [key |-> c.key, id |-> c.from])
    /\ c.op = "bin" /\ c.st = "ok" => c.key = Me /\ \A i \in DOMAIN rows[Me] : rows[Me][i] # c.from

ShapeRows  == \A of \in Keys : IsInjective(rows[of])
ShapeCalls == \A k \in Calls : call[k].st # "idle" => ShapeCall(call[k])
ShapeInv   == ShapeRows /\ Old(posts) /\ ShapeCalls

(* What becomes of the rows, whoever changes them: ids stay different, and *)
(* one that was not there is new.                                          *)
Changed == /\ DOMAIN rows' = Keys /\ ShapeRows'
           /\ \A o \in Keys : lastId'[o] \in Int /\ lastId[o] \in Int /\ lastId'[o] >= lastId[o]
           /\ \A o \in Keys : \A j \in DOMAIN rows'[o] :
                 \/ \E m \in DOMAIN rows[o] : rows'[o][j] = rows[o][m]
                 \/ rows'[o][j] > lastId[o]

(* Whatever changes the rows does so in this way. *)
LEMMA RowsChanged ==
    ASSUME TypeInv, ShapeRows, NEW of \in Keys, UNCHANGED view,
           RowsChange(of)
    PROVE  Changed
<1>1. /\ DbOK /\ DOMAIN rows = Keys /\ \A o \in Keys : lastId[o] \in Int /\ rows[o] \in Seq(Ids)
      /\ \A o \in Keys : \A j \in DOMAIN rows[o] : j \in Nat /\ rows[o][j] \in Int /\ rows[o][j] <= lastId[o]
  <2>1. DbOK /\ DOMAIN rows = Keys /\ \A o \in Keys : lastId[o] \in Int /\ rows[o] \in Seq(Ids)
    BY FeedAssumption DEF TypeInv, DbOK
  <2>2. ASSUME NEW o \in Keys, NEW j \in DOMAIN rows[o]
        PROVE  j \in Nat /\ rows[o][j] \in Int /\ rows[o][j] <= lastId[o]
    <3>1. rows[o] \in Seq(Ids) /\ rows[o][j] <= lastId[o]
      BY <2>1 DEF DbOK
    <3>2. rows[o][j] \in Ids /\ j \in Nat
      BY <3>1
    <3> QED
      BY <3>1, <3>2 DEF Ids
  <2> QED
    BY <2>1, <2>2
<1>2. ASSUME NEW front \in BOOLEAN, Added(of, front) PROVE Changed
  <2> DEFINE b(o, j) == BeforeAdded(of, front, o, j)
             new(o, j) == /\ o = of /\ j = (IF front THEN 1 ELSE Len(rows[of]) + 1)
                          /\ rows'[o][j] = lastId[of] + 1
             kept(o, j) == b(o, j) \in DOMAIN rows[o] /\ rows'[o][j] = rows[o][b(o, j)]
  <2>1. /\ lastId' = [lastId EXCEPT ![of] = @ + 1] /\ DOMAIN rows' = Keys
        /\ \A o \in Keys : \A j \in DOMAIN rows'[o] : new(o, j) \/ kept(o, j)
    BY <1>1, <1>2, AddedRows
  <2>2. \A o \in Keys : lastId'[o] \in Int /\ lastId'[o] >= lastId[o]
    BY <1>1, <2>1 DEF TypeInv, DbOK
  <2>3. \A o, j, l : b(o, j) \in Nat /\ b(o, j) = b(o, l) /\ j \in Int /\ l \in Int => j = l
    BY DEF BeforeAdded
  <2>4. \A o \in Keys : \A j \in DOMAIN rows'[o] : j \in Int
    <3>1. DbOK'
      BY <1>1, <1>2, RowsTypes DEF RowsChange
    <3> QED
      BY <3>1 DEF DbOK
  <2> HIDE DEF b
  <2>5. ASSUME NEW o \in Keys, NEW j \in DOMAIN rows'[o], NEW l \in DOMAIN rows'[o],
               rows'[o][j] = rows'[o][l]
        PROVE  j = l
    <3>1. new(o, j) /\ new(o, l) => j = l
      OBVIOUS
    <3>2. ~(new(o, j) /\ kept(o, l)) /\ ~(kept(o, j) /\ new(o, l))
      BY <1>1, <2>5
    <3>3. kept(o, j) /\ kept(o, l) => j = l
      <4> SUFFICES ASSUME kept(o, j), kept(o, l) PROVE j = l
        OBVIOUS
      <4>1. rows[o][b(o, j)] = rows[o][b(o, l)] /\ b(o, j) \in DOMAIN rows[o] /\ b(o, l) \in DOMAIN rows[o]
        BY <2>5
      <4>2. b(o, j) = b(o, l) /\ b(o, j) \in Nat
        BY <1>1, <4>1 DEF ShapeRows, IsInjective
      <4> QED
        BY <2>3, <2>4, <4>2
    <3> HIDE DEF new, kept
    <3> QED
      BY <2>1, <3>1, <3>2, <3>3
  <2>6. ShapeRows'
    BY <2>5 DEF ShapeRows, IsInjective
  <2> QED
    BY <1>1, <2>1, <2>2, <2>6 DEF Changed
<1>3. ASSUME NEW i \in DOMAIN rows[of], Deleted(of, i) PROVE Changed
  <2> DEFINE b(o, j) == BeforeDeleted(of, i, o, j)
  <2>1. /\ lastId' = lastId /\ DOMAIN rows' = Keys
        /\ \A o \in Keys : \A j \in DOMAIN rows'[o] :
              b(o, j) \in DOMAIN rows[o] /\ rows'[o][j] = rows[o][b(o, j)]
    BY <1>1, <1>3, DeletedRows
  <2>2. \A o \in Keys : \A j \in DOMAIN rows'[o] : j \in Int
    <3>1. DbOK'
      BY <1>1, <1>3, RowsTypes DEF RowsChange
    <3> QED
      BY <3>1 DEF DbOK
  <2>3. \A o, j, l : b(o, j) = b(o, l) /\ j \in Int /\ l \in Int => j = l
    BY <1>1 DEF BeforeDeleted
  <2> HIDE DEF b
  <2>4. ASSUME NEW o \in Keys, NEW j \in DOMAIN rows'[o], NEW l \in DOMAIN rows'[o],
               rows'[o][j] = rows'[o][l]
        PROVE  j = l
    <3>1. b(o, j) = b(o, l)
      BY <2>1, <2>4 DEF ShapeRows, IsInjective
    <3> QED
      BY <2>2, <2>3, <3>1
  <2>5. ShapeRows'
    BY <2>4 DEF ShapeRows, IsInjective
  <2> QED
    BY <1>1, <2>1, <2>5 DEF Changed
<1>4. ASSUME NEW i \in DOMAIN rows[of], NEW at \in DOMAIN rows[of], Moved(of, i, at)
      PROVE  Changed
  <2>1. /\ \A o \in Keys : o # of => rows'[o] = rows[o]
        /\ IsInjective(rows'[of])
        /\ \A j \in DOMAIN rows'[of] : \E m \in DOMAIN rows[of] : rows'[of][j] = rows[of][m]
    BY <1>1, <1>4, MovedRows DEF ShapeRows
  <2>2. ShapeRows'
    BY <2>1 DEF ShapeRows
  <2>3. \A o \in Keys : \A j \in DOMAIN rows'[o] : \E m \in DOMAIN rows[o] : rows'[o][j] = rows[o][m]
    BY <2>1
  <2>4. DOMAIN rows' = Keys /\ lastId' = lastId
    BY <1>1, <1>4 DEF Moved
  <2> QED
    BY <1>1, <2>2, <2>3, <2>4 DEF Changed
<1>5. ASSUME NEW at \in DOMAIN rows[of], Between(of, at) PROVE Changed
  <2> DEFINE b(o, j) == BeforeBetween(of, at, o, j)
             new(o, j) == o = of /\ j = at /\ rows'[o][j] = lastId[of] + 1
             kept(o, j) == /\ ~(o = of /\ j = at)
                           /\ b(o, j) \in DOMAIN rows[o] /\ rows'[o][j] = rows[o][b(o, j)]
  <2>1. /\ lastId' = [lastId EXCEPT ![of] = @ + 1] /\ DOMAIN rows' = Keys
        /\ \A o \in Keys : \A j \in DOMAIN rows'[o] : new(o, j) \/ kept(o, j)
    BY <1>1, <1>5, BetweenRows
  <2>2. \A o \in Keys : lastId'[o] \in Int /\ lastId'[o] >= lastId[o]
    BY <1>1, <2>1 DEF TypeInv, DbOK
  <2>3. at \in Int /\ \A o \in Keys : \A j \in DOMAIN rows'[o] : j \in Int
    <3>1. DbOK'
      BY <1>1, <1>5, RowsTypes DEF RowsChange
    <3> QED
      BY <1>1, <3>1 DEF DbOK
  <2>4. \A o : \A j, l \in Int :
           b(o, j) = b(o, l) /\ ~(o = of /\ j = at) /\ ~(o = of /\ l = at) => j = l
    BY <2>3 DEF BeforeBetween
  <2> HIDE DEF b
  <2>5. ASSUME NEW o \in Keys, NEW j \in DOMAIN rows'[o], NEW l \in DOMAIN rows'[o],
               rows'[o][j] = rows'[o][l]
        PROVE  j = l
    <3>1. new(o, j) /\ new(o, l) => j = l
      OBVIOUS
    <3>2. ~(new(o, j) /\ kept(o, l)) /\ ~(kept(o, j) /\ new(o, l))
      BY <1>1, <2>5
    <3>3. kept(o, j) /\ kept(o, l) => j = l
      <4> SUFFICES ASSUME kept(o, j), kept(o, l) PROVE j = l
        OBVIOUS
      <4>1. rows[o][b(o, j)] = rows[o][b(o, l)] /\ b(o, j) \in DOMAIN rows[o] /\ b(o, l) \in DOMAIN rows[o]
        BY <2>5
      <4>2. b(o, j) = b(o, l)
        BY <1>1, <4>1 DEF ShapeRows, IsInjective
      <4> QED
        BY <2>3, <2>4, <4>2
    <3> HIDE DEF new, kept
    <3> QED
      BY <2>1, <3>1, <3>2, <3>3
  <2>6. ShapeRows'
    BY <2>5 DEF ShapeRows, IsInjective
  <2> QED
    BY <1>1, <2>1, <2>2, <2>6 DEF Changed
<1> QED
    BY <1>2, <1>3, <1>4, <1>5 DEF RowsChange

(* Where nobody touches the rows they are as they were. *)
LEMMA RowsSame ==
    ASSUME TypeInv, ShapeRows, UNCHANGED dbVars PROVE Changed
<1>1. DOMAIN rows = Keys /\ \A o \in Keys : lastId[o] \in Int
    BY FeedAssumption DEF TypeInv, DbOK
<1>2. rows' = rows /\ lastId' = lastId
    BY DEF dbVars
<1> QED
    BY <1>1, <1>2 DEF Changed, ShapeRows

(* What was shown once was there once. *)
LEMMA OldKept ==
    ASSUME Changed, NEW list \in Items, Old(list) PROVE Old(list)'
<1>1. \A m \in DOMAIN list : list[m].key \in Keys /\ list[m].id \in Int
    BY ItemOf
<1>2. \A o \in Keys : lastId'[o] \in Int /\ lastId[o] \in Int /\ lastId'[o] >= lastId[o]
    BY DEF Changed
<1> QED
    BY <1>1, <1>2 DEF Old

(* A change of the rows does not change the shape of a call under way. *)
LEMMA ShapeKept ==
    ASSUME Changed, view' = view, NEW c \in Asked, ShapeCall(c) PROVE ShapeCall(c)'
<1>1. c.base \in Items /\ c.list \in Items /\ c.from \in Int /\ c.key \in Keys
    BY DEF Asked
<1>2. Old(c.base)' /\ Old(c.list)'
    BY <1>1, OldKept DEF ShapeCall
<1>3. ASSUME c.op = "bin", c.st = "ok", NEW i \in DOMAIN rows'[Me], rows'[Me][i] = c.from
      PROVE  FALSE
  <2>1. c.key = Me /\ (\A j \in DOMAIN rows[Me] : rows[Me][j] # c.from) /\ Me \in Keys
    BY <1>3, FeedAssumption DEF ShapeCall
  <2>2. c.from <= lastId[Me]
    BY <1>3, <2>1 DEF ShapeCall, Has, Old
  <2>3. lastId[Me] \in Int /\ ~(rows'[Me][i] > lastId[Me])
    BY <1>1, <1>3, <2>1, <2>2 DEF Changed
  <2>4. \E m \in DOMAIN rows[Me] : rows'[Me][i] = rows[Me][m]
    BY <1>3, <2>1, <2>3 DEF Changed
  <2> QED
    BY <1>3, <2>1, <2>4
<1> QED
    BY <1>2, <1>3 DEF ShapeCall, Has

(* Other calls keep their shape in a step of one call. *)
LEMMA OtherShapeCalls ==
    ASSUME TypeInv, ShapeCalls, Changed, view' = view, NEW k \in Calls, NEW c,
           call' = [call EXCEPT ![k] = c], c.st = "idle" \/ ShapeCall(c)'
    PROVE  ShapeCalls'
<1> SUFFICES ASSUME NEW j \in Calls, call'[j].st # "idle" PROVE ShapeCall(call[j])'
    BY DEF ShapeCalls
<1>1. CASE j = k
  <2>1. call'[j] = c
    BY <1>1 DEF TypeInv, CallsOK
  <2> QED
    BY <2>1 DEF ShapeCall, Has, Old
<1>2. CASE j # k
  <2>1. PICK d : d = call[j]
    OBVIOUS
  <2>2. call'[j] = d /\ d.st # "idle" /\ ShapeCall(d) /\ d \in Asked
    BY <1>2, <2>1, CallFields DEF ShapeCalls, TypeInv, CallsOK
  <2>3. ShapeCall(d)'
    BY <2>2, ShapeKept
  <2> QED
    BY <2>2, <2>3 DEF ShapeCall, Has, Old
<1> QED
    BY <1>1, <1>2

(* A new call. *)
LEMMA AsksShape ==
    ASSUME TypeInv, ShapeInv, NEW k \in Calls,
           LoadMore(k) \/ Search(k) \/ AddPost(k) \/ \E i \in DOMAIN posts : Bin(k, i)
    PROVE  ShapeInv'
<1> DEFINE new(op, of, from, base) == [st |-> "asked", op |-> op, key |-> of, from |-> from,
                                       base |-> base, list |-> <<>>]
<1>1. ShapeRows /\ Old(posts) /\ ShapeCalls /\ posts \in Items /\ Limit \in Nat
    BY FeedAssumption DEF ShapeInv, TypeInv, ListOK
<1>2. UNCHANGED <<view, dbVars>> /\ (posts' = posts \/ posts' = <<>>)
    BY DEF LoadMore, Search, AddPost, Bin, Emptied, listVars
<1>3. Changed
    BY <1>1, <1>2, RowsSame
<1>4. Old(posts)'
    BY <1>1, <1>2 DEF Old, dbVars
<1>5. ASSUME NEW op \in {"more", "first", "bin", "add"}, NEW of, NEW from, NEW base,
             Ask(k, op, of, from, base), Old(base),
             op \in {"bin", "add"} => view = "Profile",
             op \in {"first", "add"} => base = <<>> /\ from = 0,
             op = "more" /\ view = "Profile" => from = Len(base),
             op = "bin" => Has(base, [key |-> of, id |-> from])
      PROVE  ShapeCalls'
  <2>1. PICK c : c = new(op, of, from, base)
    OBVIOUS
  <2>2. /\ c.st = "asked" /\ c.op = op /\ c.key = of /\ c.from = from /\ c.base = base /\ c.list = <<>>
        /\ call' = [call EXCEPT ![k] = c]
    BY <1>5, <2>1 DEF Ask
  <2>3. Old(c.base)' /\ Old(c.list)' /\ Len(c.list) <= Limit
    BY <1>1, <1>2, <1>5, <2>2 DEF Old, dbVars
  <2>4. ShapeCall(c)'
    BY <1>2, <1>5, <2>2, <2>3 DEF ShapeCall, Has
  <2> QED
    BY <1>1, <1>2, <1>3, <2>2, <2>4, OtherShapeCalls
<1> HIDE DEF new
<1>6. ShapeCalls'
  <2>1. CASE LoadMore(k)
    <3>1. Ask(k, "more", seen.key, IF view = "Profile" THEN Len(posts) ELSE seen.offset + Limit, posts)
      BY <2>1 DEF LoadMore
    <3> QED
      BY <1>1, <1>5, <3>1
  <2>2. CASE Search(k)
    <3>1. Ask(k, "first", key, 0, <<>>) /\ Old(<<>>)
      BY <2>2 DEF Search, Old
    <3> QED
      BY <1>5, <3>1
  <2>3. CASE AddPost(k)
    <3>1. Ask(k, "add", Me, 0, <<>>) /\ Old(<<>>) /\ view = "Profile"
      BY <2>3 DEF AddPost, Old
    <3> QED
      BY <1>5, <3>1
  <2>4. ASSUME NEW i \in DOMAIN posts, Bin(k, i) PROVE ShapeCalls'
    <3>1. Ask(k, "bin", posts[i].key, posts[i].id, posts) /\ view = "Profile"
      BY <2>4 DEF Bin
    <3>2. posts[i] = [key |-> posts[i].key, id |-> posts[i].id]
      BY <1>1, ItemOf
    <3>3. Has(posts, [key |-> posts[i].key, id |-> posts[i].id])
      BY <3>2 DEF Has
    <3> QED
      BY <1>1, <1>5, <3>1, <3>3
  <2> QED
    BY <2>1, <2>2, <2>3, <2>4
<1> QED
    BY <1>3, <1>4, <1>6 DEF ShapeInv, Changed

(* A server's answer. *)
LEMMA AnswersShape ==
    ASSUME TypeInv, ShapeInv, NEW k \in Calls, AnswerList(k) \/ Perform(k) \/ Fail(k)
    PROVE  ShapeInv'
<1>1. /\ call[k] \in Asked /\ ShapeCall(call[k]) /\ call[k].st = "asked" /\ Idle.st = "idle"
      /\ ShapeRows /\ Old(posts) /\ ShapeCalls /\ posts \in Items /\ DbOK /\ Me \in Keys
    BY CallFields, FeedAssumption
    DEF TypeInv, ListOK, AnswerList, Perform, Fail, ShapeInv, ShapeCalls, Idle
<1>2. view' = view /\ posts' = posts
    BY DEF AnswerList, Perform, Fail, listVars
<1>3. ASSUME Changed, NEW c, call' = [call EXCEPT ![k] = c], c.st = "idle" \/ ShapeCall(c)'
      PROVE  ShapeInv'
  <2>1. PICK l : l = posts
    OBVIOUS
  <2>2. Old(l)'
    BY <1>1, <1>3, <2>1, OldKept
  <2>3. Old(posts)'
    BY <1>2, <2>1, <2>2 DEF Old
  <2>4. ShapeCalls'
    BY <1>1, <1>2, <1>3, OtherShapeCalls
  <2> QED
    BY <1>3, <2>3, <2>4 DEF ShapeInv, Changed
<1>4. ASSUME Changed, call' = [call EXCEPT ![k] = Idle] PROVE ShapeInv'
  <2>1. PICK c : c = Idle
    OBVIOUS
  <2>2. c.st = "idle" /\ call' = [call EXCEPT ![k] = c]
    BY <1>1, <1>4, <2>1
  <2> QED
    BY <1>3, <1>4, <2>2
<1>5. CASE Fail(k)
  <2>1. UNCHANGED dbVars /\ call' = [call EXCEPT ![k] = Idle]
    BY <1>5 DEF Fail
  <2> QED
    BY <1>1, <1>4, <2>1, RowsSame
<1>6. CASE AnswerList(k)
  <2> DEFINE p == Page(call[k].key, call[k].from)
             n == [call[k] EXCEPT !.st = "ok", !.list = p]
  <2>1. call' = [call EXCEPT ![k] = n] /\ UNCHANGED dbVars /\ call[k].op \in {"more", "first"}
    BY <1>6 DEF AnswerList
  <2>2. /\ n.op = call[k].op /\ n.key = call[k].key /\ n.from = call[k].from
        /\ n.base = call[k].base /\ n.list = p /\ n.st = "ok"
    BY <1>1 DEF Asked
  <2>3. call[k].key \in Keys /\ call[k].from \in Nat
    BY <1>1 DEF Asked
  <2>4. /\ Len(p) <= Limit
        /\ \A i \in DOMAIN p : p[i].key = call[k].key
        /\ \A i \in DOMAIN p : /\ call[k].from + i \in DOMAIN rows[call[k].key]
                               /\ p[i].id = rows[call[k].key][call[k].from + i]
    BY <1>1, <2>3, PageItems
  <2> HIDE DEF p, n
  <2>5. Old(p)
    BY <1>1, <2>3, <2>4 DEF Old, DbOK
  <2>6. PICK c : c = n
    OBVIOUS
  <2>7. Old(c.list)' /\ Old(c.base)'
    BY <1>1, <2>1, <2>2, <2>5, <2>6 DEF Old, ShapeCall, dbVars
  <2>8. ShapeCall(c)'
    BY <1>1, <1>2, <2>1, <2>2, <2>4, <2>6, <2>7 DEF ShapeCall
  <2> QED
    BY <1>1, <1>3, <2>1, <2>6, <2>8, RowsSame
<1>7. CASE Perform(k)
  <2>1. Changed
    BY <1>1, <1>2, <1>7, RowsChanged DEF Perform, RowsChange
  <2>2. CASE call' = [call EXCEPT ![k].st = "ok"]
    <3> DEFINE n == [call[k] EXCEPT !.st = "ok"]
    <3>1. call' = [call EXCEPT ![k] = n]
      BY <2>2
    <3>2. /\ n.op = call[k].op /\ n.key = call[k].key /\ n.from = call[k].from
          /\ n.base = call[k].base /\ n.list = call[k].list /\ n.st = "ok"
      BY <1>1 DEF Asked
    <3> HIDE DEF n
    <3>3. PICK d : d = call[k]
      OBVIOUS
    <3>4. ShapeCall(d)'
      BY <1>1, <1>2, <2>1, <3>3, ShapeKept
    <3>5. ASSUME call[k].op = "bin"
          PROVE  call[k].key = Me /\ \A j \in DOMAIN rows'[Me] : rows'[Me][j] # call[k].from
      <4>1. PICK i \in DOMAIN rows[Me] : rows[Me][i] = call[k].from /\ Deleted(Me, i)
        BY <1>7, <3>5 DEF Perform
      <4>2. call[k].key = Me
        BY <1>7, <3>5, Zenon DEF Perform
      <4>3. \A j \in DOMAIN rows'[Me] :
               /\ BeforeDeleted(Me, i, Me, j) \in DOMAIN rows[Me]
               /\ rows'[Me][j] = rows[Me][BeforeDeleted(Me, i, Me, j)]
        BY <1>1, <4>1, DeletedRows
      <4>4. \A j \in DOMAIN rows'[Me] : j \in Int
        <5>1. DbOK'
          BY <1>1, <1>2, <4>1, RowsTypes DEF RowsChange
        <5> QED
          BY <1>1, <5>1 DEF DbOK
      <4>5. i \in Int
        BY <1>1 DEF DbOK
      <4>6. \A j \in Int : BeforeDeleted(Me, i, Me, j) # i
        BY <4>5 DEF BeforeDeleted
      <4>7. IsInjective(rows[Me])
        BY <1>1 DEF ShapeRows
      <4> QED
        BY <4>1, <4>2, <4>3, <4>4, <4>6, <4>7 DEF IsInjective
    <3>6. PICK c : c = n
      OBVIOUS
    <3>7. ShapeCall(c)'
      <4>1. c.op = d.op /\ c.key = d.key /\ c.from = d.from /\ c.base = d.base /\ c.list = d.list /\ d.st = "asked"
        BY <1>1, <3>2, <3>3, <3>6
      <4>2. c.op = "bin" => c.key = Me /\ \A j \in DOMAIN rows'[Me] : rows'[Me][j] # c.from
        BY <3>3, <3>5, <4>1
      <4> QED
        BY <3>4, <4>1, <4>2 DEF ShapeCall, Old, Has
    <3> QED
      BY <1>3, <2>1, <3>1, <3>6, <3>7
  <2>3. CASE call' = [call EXCEPT ![k] = Idle]
    BY <1>4, <2>1, <2>3
  <2> QED
    BY <1>7, <2>2, <2>3 DEF Perform
<1> QED
    BY <1>5, <1>6, <1>7

(* An answer that arrives. *)
LEMMA ArrivesShape ==
    ASSUME TypeInv, ShapeInv, NEW k \in Calls, Arrives(k)
    PROVE  ShapeInv'
<1>1. /\ call[k] \in Asked /\ ShapeCall(call[k]) /\ call[k].st = "ok" /\ Idle.st = "idle"
      /\ ShapeRows /\ Old(posts) /\ ShapeCalls
    BY CallFields
    DEF TypeInv, Arrives, MoreArrives, FirstArrives, BinArrives, AddArrives, AddUnlisted, ShapeInv, ShapeCalls, Idle
<1>2. UNCHANGED <<view, dbVars>>
    BY DEF Arrives, MoreArrives, FirstArrives, BinArrives, AddArrives, AddUnlisted, Emptied
<1>3. Changed
    BY <1>1, <1>2, RowsSame
<1>4. call[k].base \in Items /\ call[k].list \in Items /\ Old(call[k].base) /\ Old(call[k].list)
    BY <1>1 DEF Asked, ShapeCall
<1>5. ShapeCalls'
  <2>1. CASE call' = [call EXCEPT ![k] = Idle]
    <3>1. PICK c : c = Idle
      OBVIOUS
    <3>2. c.st = "idle" /\ call' = [call EXCEPT ![k] = c]
      BY <1>1, <2>1, <3>1
    <3> QED
      BY <1>1, <1>2, <1>3, <3>2, OtherShapeCalls
  <2>2. CASE AddArrives(k)
    <3> DEFINE n == [call[k] EXCEPT !.st = "asked", !.op = "first", !.key = key]
    <3>1. call' = [call EXCEPT ![k] = n] /\ call[k].op = "add"
      BY <2>2 DEF AddArrives
    <3>2. n.op = "first" /\ n.from = 0 /\ n.base = <<>> /\ n.list = <<>>
      BY <1>1, <3>1 DEF Asked, ShapeCall
    <3> HIDE DEF n
    <3>3. PICK c : c = n
      OBVIOUS
    <3>4. ShapeCall(c)'
      BY <3>2, <3>3, FeedAssumption DEF ShapeCall, Old, Has
    <3> QED
      BY <1>1, <1>2, <1>3, <3>1, <3>3, <3>4, OtherShapeCalls
  <2> QED
    BY <2>1, <2>2 DEF Arrives, MoreArrives, FirstArrives, BinArrives, AddUnlisted
<1>6. ASSUME NEW list, Old(list), posts' = list PROVE Old(posts)'
    BY <1>2, <1>6 DEF Old, dbVars
<1>7. Old(posts)'
  <2>1. CASE MoreArrives(k)
    <3>1. Old(call[k].base \o call[k].list)
      BY <1>4, OldConcat
    <3> QED
      BY <1>1, <1>6, <2>1, <3>1 DEF MoreArrives
  <2>2. CASE FirstArrives(k)
    BY <1>1, <1>4, <1>6, <2>2 DEF FirstArrives, listVars
  <2>3. CASE BinArrives(k)
    <3>1. \A i \in DOMAIN posts' : \E j \in DOMAIN call[k].base : posts'[i] = call[k].base[j]
      BY <1>4, <2>3, WithoutItems DEF BinArrives
    <3> QED
      BY <1>2, <1>4, <3>1 DEF Old, dbVars
  <2>4. CASE AddArrives(k)
    BY <2>4 DEF AddArrives, Emptied, Old
  <2>5. CASE AddUnlisted(k)
    BY <1>1, <1>6, <2>5 DEF AddUnlisted, listVars
  <2> QED
    BY <2>1, <2>2, <2>3, <2>4, <2>5 DEF Arrives
<1> QED
    BY <1>3, <1>5, <1>7 DEF ShapeInv, Changed

(* Every step keeps the shapes. *)
LEMMA ShapeNext == TypeInv /\ ShapeInv /\ [Next]_vars => ShapeInv'
<1> SUFFICES ASSUME TypeInv, ShapeInv, [Next]_vars PROVE ShapeInv'
    OBVIOUS
<1>1. ASSUME Changed, UNCHANGED <<view, posts, call>> PROVE ShapeInv'
  <2>1. PICK l : l = posts
    OBVIOUS
  <2>2. l \in Items /\ Old(l) /\ posts' = l
    BY <1>1, <2>1 DEF ShapeInv, TypeInv, ListOK
  <2>3. Old(l)'
    BY <1>1, <2>2, OldKept
  <2>4. Old(posts)'
    BY <2>2, <2>3 DEF Old
  <2>5. ASSUME NEW j \in Calls, call'[j].st # "idle" PROVE ShapeCall(call[j])'
    <3>1. PICK d : d = call[j]
      OBVIOUS
    <3>2. call'[j] = d /\ ShapeCall(d) /\ d \in Asked
      BY <1>1, <2>5, <3>1, CallFields DEF ShapeInv, ShapeCalls, TypeInv
    <3>3. ShapeCall(d)'
      BY <1>1, <3>2, ShapeKept
    <3> QED
      BY <3>2, <3>3 DEF ShapeCall, Has, Old
  <2> QED
    BY <1>1, <2>4, <2>5 DEF ShapeInv, ShapeCalls, Changed
<1>2. CASE Elsewhere
  <2>1. PICK of \in Keys : RowsChange(of)
    BY <1>2 DEF Elsewhere, RowsChange
  <2>2. UNCHANGED <<view, posts, call>>
    BY <1>2 DEF Elsewhere, listVars
  <2>3. Changed
    BY <2>1, <2>2, RowsChanged DEF ShapeInv
  <2> QED
    BY <1>1, <2>2, <2>3
<1>3. ASSUME NEW to \in Keys, Turn(to) PROVE ShapeInv'
    BY <1>1, <1>3, RowsSame DEF Turn, ShapeInv
<1>4. CASE OpenForm \/ Back \/ UNCHANGED vars
    BY <1>1, <1>4, RowsSame, FormStill DEF Still, ShapeInv
<1> QED
    BY <1>2, <1>3, <1>4, AsksShape, AnswersShape, ArrivesShape DEF Next

(* The first rows are counted through. *)
LEMMA ShapeStart == Init => ShapeInv
<1> SUFFICES ASSUME Init PROVE ShapeInv
    OBVIOUS
<1>1. ASSUME NEW of \in Keys PROVE IsInjective(rows[of])
  <2> DEFINE n == InitRows[of]
  <2>1. rows[of] = [i \in 1..n |-> IF view = "FriendSearch" THEN i ELSE n + 1 - i] /\ n \in Nat
    BY FeedAssumption DEF Init, Listed
  <2> HIDE DEF n
  <2> QED
    BY <2>1 DEF IsInjective
<1>2. posts = <<>> /\ \A k \in Calls : call[k].st = "idle"
    BY DEF Init, Idle
<1> QED
    BY <1>1, <1>2 DEF ShapeInv, ShapeRows, ShapeCalls, Old

----------------------------------------------------------------------------
(* A list that is fresh up to a place of the rows shows nothing twice and  *)
(* no row behind that place; one that is complete up to it shows, with a   *)
(* row, all that stand between it and another it shows later, and all up   *)
(* to the place.  A page asked for at the place then continues it.         *)
Behind(list, n) == \A o \in Keys : \A i \in DOMAIN rows[o] : i > n => ~Has(list, Row(o, i))
Fresh(list, n)  == IsInjective(list) /\ Behind(list, n)

(* What need not be shown came between other rows later. *)
Told(list, e) == Has(list, e) \/ e \in late

Whole(list) ==
    \A o \in Keys : \A i, l \in DOMAIN rows[o] : \A p, q \in DOMAIN list :
        p <= q /\ list[p] = Row(o, i) /\ list[q] = Row(o, l) =>
            \A j \in i..l : Told(list, Row(o, j))
Covers(list, n) ==
    /\ \A o \in Keys : \A i, j \in DOMAIN rows[o] :
          Has(list, Row(o, i)) /\ i <= j /\ j <= n => Told(list, Row(o, j))
    /\ view = "FriendSearch" => \A p \in DOMAIN list : n <= Len(rows[list[p].key])
Complete(list, n) == Whole(list) /\ Covers(list, n)

Calm(by) == Untouched({by, "moved", "visited"})

Good(list, n) == /\ Calm("added") => Fresh(list, n)
                 /\ Calm("removed") => Complete(list, n)

(* Rows are where they are counted. *)
LEMMA RowPlaces ==
    ASSUME DbOK, NEW o \in Keys
    PROVE  /\ Len(rows[o]) \in Nat /\ DOMAIN rows[o] = 1..Len(rows[o])
           /\ \A i \in DOMAIN rows[o] : i \in Nat /\ rows[o][i] \in Int
<1>1. rows[o] \in Seq(Ids)
    BY DEF DbOK
<1>2. Len(rows[o]) \in Nat /\ DOMAIN rows[o] = 1..Len(rows[o])
    BY <1>1
<1>3. \A i \in DOMAIN rows[o] : rows[o][i] \in Ids
    BY <1>1
<1> QED
    BY <1>2, <1>3 DEF Ids

(* Two rows are the same row of the same key. *)
LEMMA RowOnce ==
    ASSUME ShapeRows, NEW o \in Keys, NEW r \in Keys, NEW i \in DOMAIN rows[o], NEW j \in DOMAIN rows[r],
           Row(o, i) = Row(r, j)
    PROVE  o = r /\ i = j
    BY DEF Row, ShapeRows, IsInjective

(* Nothing shown is fresh and complete. *)
LEMMA GoodEmpty == ASSUME NEW n PROVE Good(<<>>, n)
    BY DEF Good, Fresh, Complete, Behind, Whole, Covers, Has, IsInjective

(* The items of a page are the rows from its place on. *)
LEMMA PageRows ==
    ASSUME DbOK, NEW of \in Keys, NEW from \in Nat
    PROVE  /\ Page(of, from) \in Items /\ Len(Page(of, from)) \in Nat
           /\ \A i \in 1..Len(Page(of, from)) :
                 from + i \in DOMAIN rows[of] /\ Page(of, from)[i] = Row(of, from + i)
<1> DEFINE p == Page(of, from)
<1>1. /\ p \in Items /\ Len(p) <= Limit
      /\ \A i \in DOMAIN p : p[i].key = of
      /\ \A i \in DOMAIN p : from + i \in DOMAIN rows[of] /\ p[i].id = rows[of][from + i]
    BY PageItems
<1> HIDE DEF p
<1>2. Len(p) \in Nat /\ DOMAIN p = 1..Len(p)
    BY <1>1 DEF Items
<1>3. \A i \in DOMAIN p : p[i] = [key |-> p[i].key, id |-> p[i].id]
    BY <1>1, ItemOf
<1> QED
    BY <1>1, <1>2, <1>3 DEF Row, p

(* A page that is put behind a list it was asked for from. *)
LEMMA FreshMore ==
    ASSUME DbOK, ShapeRows, NEW of \in Keys, NEW from \in Nat, NEW base \in Items,
           OneKeyed(base, of), Fresh(base, from)
    PROVE  Fresh(base \o Page(of, from), from + Len(Page(of, from)))
<1> DEFINE p == Page(of, from)
           l == base \o p
<1>1. /\ p \in Items /\ Len(p) \in Nat /\ DOMAIN p = 1..Len(p)
      /\ \A i \in 1..Len(p) : from + i \in DOMAIN rows[of] /\ p[i] = Row(of, from + i)
    BY PageRows DEF Items
<1> HIDE DEF p
<1>2. /\ l \in Items
      /\ \A i \in DOMAIN l :
            \/ i \in DOMAIN base /\ l[i] = base[i]
            \/ i - Len(base) \in DOMAIN p /\ l[i] = p[i - Len(base)]
    BY <1>1, ConcatItems
<1>3. DOMAIN l \subseteq Int /\ Len(base) \in Int /\ DOMAIN base \subseteq Int
    BY <1>2 DEF Items
<1> HIDE DEF l
<1>4. ASSUME NEW m \in DOMAIN base, NEW i \in 1..Len(p), base[m] = p[i] PROVE FALSE
  <2>1. from + i > from /\ from + i \in DOMAIN rows[of] /\ Has(base, Row(of, from + i))
    BY <1>1, <1>4 DEF Has
  <2> QED
    BY <2>1 DEF Fresh, Behind
<1>5. ASSUME NEW i \in 1..Len(p), NEW j \in 1..Len(p), p[i] = p[j] PROVE i = j
  <2>1. from + i = from + j
    BY <1>1, <1>5, RowOnce
  <2> QED
    BY <2>1
<1>6. ASSUME NEW i \in DOMAIN l, NEW j \in DOMAIN l, l[i] = l[j] PROVE i = j
  <2>1. i \in DOMAIN base /\ l[i] = base[i] /\ j \in DOMAIN base /\ l[j] = base[j] => i = j
    BY <1>6 DEF Fresh, IsInjective
  <2>2. ASSUME i - Len(base) \in DOMAIN p, l[i] = p[i - Len(base)],
               j - Len(base) \in DOMAIN p, l[j] = p[j - Len(base)]
        PROVE  i = j
    <3>1. i - Len(base) = j - Len(base)
      BY <1>1, <1>5, <1>6, <2>2
    <3> QED
      BY <1>3, <3>1
  <2> QED
    BY <1>1, <1>2, <1>4, <1>6, <2>1, <2>2
<1>7. ASSUME NEW o \in Keys, NEW i \in DOMAIN rows[o], i > from + Len(p), Has(l, Row(o, i)) PROVE FALSE
  <2>0. i \in Nat
    BY RowPlaces
  <2>1. PICK m \in DOMAIN l : l[m] = Row(o, i)
    BY <1>7 DEF Has
  <2>2. CASE m \in DOMAIN base /\ l[m] = base[m]
    <3>1. Has(base, Row(o, i)) /\ i > from
      BY <1>1, <1>7, <2>0, <2>1, <2>2 DEF Has
    <3> QED
      BY <3>1 DEF Fresh, Behind
  <2>3. CASE m - Len(base) \in DOMAIN p /\ l[m] = p[m - Len(base)]
    <3>1. PICK d \in 1..Len(p) : Row(of, from + d) = Row(o, i) /\ from + d \in DOMAIN rows[of]
      BY <1>1, <2>1, <2>3
    <3>2. from + d = i
      BY <3>1, RowOnce
    <3> QED
      BY <1>1, <1>7, <2>0, <3>2
  <2> QED
    BY <1>2, <2>2, <2>3
<1> QED
    BY <1>6, <1>7 DEF Fresh, Behind, IsInjective, l, p

(* Nor does it leave a gap. *)
LEMMA CompleteMore ==
    ASSUME DbOK, ShapeRows, NEW of \in Keys, NEW from \in Nat, NEW base \in Items,
           OneKeyed(base, of), Complete(base, from)
    PROVE  Complete(base \o Page(of, from), from + Len(Page(of, from)))
<1> DEFINE p == Page(of, from)
           l == base \o p
<1>1. /\ p \in Items /\ Len(p) \in Nat /\ DOMAIN p = 1..Len(p)
      /\ \A i \in 1..Len(p) : from + i \in DOMAIN rows[of] /\ p[i] = Row(of, from + i)
    BY PageRows DEF Items
<1> HIDE DEF p
<1>2. /\ l \in Items
      /\ \A i \in DOMAIN base : i \in DOMAIN l /\ l[i] = base[i]
      /\ \A i \in DOMAIN p : Len(base) + i \in DOMAIN l /\ l[Len(base) + i] = p[i]
      /\ \A i \in DOMAIN l :
            \/ i \in DOMAIN base /\ l[i] = base[i]
            \/ i - Len(base) \in DOMAIN p /\ l[i] = p[i - Len(base)] /\ ~(i \in DOMAIN base)
  <2>1. DOMAIN base = 1..Len(base) /\ Len(base) \in Nat
    BY DEF Items
  <2>2. \A i \in DOMAIN l : i \in Int
    BY <1>1, ConcatItems DEF Items
  <2>3. /\ l \in Items
        /\ \A i \in DOMAIN base : i \in DOMAIN l /\ l[i] = base[i]
        /\ \A i \in DOMAIN p : Len(base) + i \in DOMAIN l /\ l[Len(base) + i] = p[i]
    BY <1>1, ConcatItems
  <2>4. \A i \in DOMAIN l :
           \/ i \in DOMAIN base /\ l[i] = base[i]
           \/ i - Len(base) \in DOMAIN p /\ l[i] = p[i - Len(base)]
    BY <1>1, ConcatItems
  <2>5. \A i \in DOMAIN l : i - Len(base) \in DOMAIN p => ~(i \in DOMAIN base)
    BY <1>1, <2>1, <2>2
  <2> HIDE DEF l
  <2> QED
    BY <2>3, <2>4, <2>5
<1>3. DOMAIN l \subseteq Int /\ Len(base) \in Nat /\ DOMAIN base = 1..Len(base)
    BY <1>2 DEF Items
<1> HIDE DEF l
<1>4. \A x : Told(base, x) => Told(l, x)
    BY <1>2 DEF Has, Told
<1>5. ASSUME NEW j \in DOMAIN rows[of], j > from, j <= from + Len(p) PROVE Told(l, Row(of, j))
  <2>1. j \in Nat
    BY RowPlaces
  <2>2. j - from \in 1..Len(p) /\ from + (j - from) = j
    BY <1>1, <1>5, <2>1
  <2>3. p[j - from] = Row(of, j)
    BY <1>1, <2>2
  <2> QED
    BY <1>1, <1>2, <2>2, <2>3 DEF Has, Told
<1>6. ASSUME NEW o \in Keys, NEW i \in DOMAIN rows[o], NEW j \in DOMAIN rows[o],
             Has(l, Row(o, i)), i <= j, j <= from + Len(p)
      PROVE  Told(l, Row(o, j))
  <2>0. i \in Nat /\ j \in Nat
    BY RowPlaces
  <2>1. PICK m \in DOMAIN l : l[m] = Row(o, i)
    BY <1>6 DEF Has
  <2>2. CASE m \in DOMAIN base /\ l[m] = base[m]
    <3>1. Has(base, Row(o, i)) /\ o = of
      BY <2>1, <2>2 DEF Has, OneKeyed, Row
    <3>2. CASE j <= from
      BY <1>4, <1>6, <3>1, <3>2 DEF Complete, Covers
    <3>3. CASE j > from
      BY <1>5, <1>6, <3>1, <3>3
    <3> QED
      BY <2>0, <3>2, <3>3
  <2>3. CASE m - Len(base) \in DOMAIN p /\ l[m] = p[m - Len(base)]
    <3>1. PICK d \in 1..Len(p) : Row(of, from + d) = Row(o, i) /\ from + d \in DOMAIN rows[of]
      BY <1>1, <2>1, <2>3
    <3>2. from + d = i /\ o = of
      BY <3>1, RowOnce
    <3>3. j > from
      BY <1>6, <2>0, <3>1, <3>2
    <3> QED
      BY <1>5, <1>6, <3>2, <3>3
  <2> QED
    BY <1>2, <2>2, <2>3
<1>7. ASSUME NEW o \in Keys, NEW i \in DOMAIN rows[o], NEW k \in DOMAIN rows[o],
             NEW s \in DOMAIN l, NEW t \in DOMAIN l, s <= t, l[s] = Row(o, i), l[t] = Row(o, k),
             NEW j \in i..k
      PROVE  Told(l, Row(o, j))
  <2>0. i \in Nat /\ k \in Nat /\ j \in DOMAIN rows[o] /\ j \in Nat /\ i <= j /\ j <= k
    BY RowPlaces
  <2>1. CASE t \in DOMAIN base
    <3>1. s \in DOMAIN base
      <4>1. s \in Int /\ t \in Int
        BY <1>3
      <4>2. ~(s - Len(base) \in DOMAIN p)
        BY <1>1, <1>3, <1>7, <2>1, <4>1
      <4> QED
        BY <1>2, <4>2
    <3>2. base[s] = Row(o, i) /\ base[t] = Row(o, k)
      BY <1>2, <1>7, <2>1, <3>1
    <3>3. Told(base, Row(o, j))
      BY <1>7, <2>1, <3>1, <3>2 DEF Complete, Whole
    <3> QED
      BY <1>4, <3>3
  <2>2. CASE ~(t \in DOMAIN base)
    <3>1. PICK d \in 1..Len(p) : Row(of, from + d) = Row(o, k) /\ from + d \in DOMAIN rows[of]
      BY <1>1, <1>2, <1>7, <2>2
    <3>2. from + d = k
      BY <3>1, RowOnce
    <3>3. j <= from + Len(p)
      BY <1>1, <2>0, <3>1, <3>2
    <3>4. Has(l, Row(o, i))
      BY <1>7 DEF Has
    <3> QED
      BY <1>6, <2>0, <3>3, <3>4
  <2> QED
    BY <2>1, <2>2
<1>8. ASSUME view = "FriendSearch", NEW m \in DOMAIN l PROVE from + Len(p) <= Len(rows[l[m].key])
  <2>1. CASE Len(p) = 0
    <3>1. m \in DOMAIN base /\ l[m] = base[m]
      BY <1>1, <1>2, <2>1
    <3>2. from <= Len(rows[base[m].key])
      BY <1>8, <3>1 DEF Complete, Covers
    <3> QED
      BY <2>1, <3>1, <3>2
  <2>2. CASE Len(p) # 0
    <3>1. Len(p) \in 1..Len(p)
      BY <1>1, <2>2
    <3>2. from + Len(p) \in DOMAIN rows[of]
      BY <1>1, <3>1
    <3>3. from + Len(p) <= Len(rows[of])
      BY <3>2, RowPlaces
    <3>4. l[m].key = of
      BY <1>1, <1>2 DEF OneKeyed, Row
    <3> QED
      BY <3>3, <3>4
  <2> QED
    BY <2>1, <2>2
<1>9. Whole(l)
    BY <1>7 DEF Whole
<1>10. Covers(l, from + Len(p))
    BY <1>6, <1>8 DEF Covers
<1> QED
    BY <1>9, <1>10 DEF Complete, l, p

(* A row is deleted: what is shown does not move forward, and no row comes *)
(* between two that stay.                                                  *)
LEMMA GoodDeleted ==
    ASSUME DbOK, NEW of \in Keys, NEW d \in DOMAIN rows[of], Deleted(of, d), view' = view,
           NEW list, NEW n \in Int
    PROVE  /\ Fresh(list, n) => Fresh(list, n)'
           /\ Whole(list) => Whole(list)'
           /\ view # "FriendSearch" /\ Covers(list, n) => Covers(list, n - 1)'
<1> DEFINE b(o, j) == BeforeDeleted(of, d, o, j)
<1>1. \A o \in Keys : \A j \in DOMAIN rows'[o] : b(o, j) \in DOMAIN rows[o] /\ Row(o, j)' = Row(o, b(o, j))
    BY DeletedRows DEF Row
<1>2. \A o \in Keys : \A j \in DOMAIN rows'[o] : j \in Int
  <2>1. DbOK'
    BY RowsTypes DEF RowsChange
  <2> QED
    BY <2>1 DEF DbOK
<1>3. d \in Int
    BY DEF DbOK
<1>4. \A o \in Keys : \A j \in Int : b(o, j) \in Int /\ j <= b(o, j) /\ b(o, j) <= j + 1
    BY <1>3 DEF BeforeDeleted
<1>5. \A o \in Keys : \A i, j \in Int : i <= j => b(o, i) <= b(o, j)
    BY <1>3 DEF BeforeDeleted
<1>6. \A o \in Keys : \A i, l \in DOMAIN rows'[o] : \A j \in i..l : j \in DOMAIN rows'[o]
  <2>1. DbOK'
    BY RowsTypes DEF RowsChange
  <2> QED
    BY <2>1 DEF DbOK
<1> HIDE DEF b
<1>7. ASSUME Fresh(list, n), NEW o \in Keys, NEW i \in DOMAIN rows'[o], i > n, Has(list, Row(o, i)')
      PROVE  FALSE
  <2>1. b(o, i) > n /\ b(o, i) \in DOMAIN rows[o] /\ Has(list, Row(o, b(o, i)))
    BY <1>1, <1>2, <1>4, <1>7
  <2> QED
    BY <1>7, <2>1 DEF Fresh, Behind
<1>8. ASSUME Whole(list), NEW o \in Keys, NEW i \in DOMAIN rows'[o], NEW l \in DOMAIN rows'[o],
             NEW p \in DOMAIN list, NEW q \in DOMAIN list, p <= q,
             list[p] = Row(o, i)', list[q] = Row(o, l)', NEW j \in i..l
      PROVE  Told(list, Row(o, j)')
  <2>1. j \in DOMAIN rows'[o] /\ i \in Int /\ l \in Int /\ j \in Int /\ i <= j /\ j <= l
    BY <1>2, <1>6
  <2>2. b(o, j) \in b(o, i)..b(o, l)
    BY <1>4, <1>5, <2>1
  <2>3. /\ b(o, i) \in DOMAIN rows[o] /\ b(o, l) \in DOMAIN rows[o]
        /\ list[p] = Row(o, b(o, i)) /\ list[q] = Row(o, b(o, l))
    BY <1>1, <1>8
  <2>4. Told(list, Row(o, b(o, j)))
    BY <1>8, <2>2, <2>3 DEF Whole
  <2> QED
    BY <1>1, <2>1, <2>4
<1>9. ASSUME Covers(list, n), NEW o \in Keys, NEW i \in DOMAIN rows'[o], NEW j \in DOMAIN rows'[o],
             Has(list, Row(o, i)'), i <= j, j <= n - 1
      PROVE  Told(list, Row(o, j)')
  <2>0. i \in Int /\ j \in Int
    BY <1>2
  <2>1. b(o, i) <= b(o, j) /\ b(o, j) <= n
    <3>1. b(o, i) <= b(o, j) /\ b(o, j) <= j + 1 /\ b(o, j) \in Int
      BY <1>4, <1>5, <1>9, <2>0
    <3> QED
      BY <1>9, <2>0, <3>1
  <2>2. b(o, i) \in DOMAIN rows[o] /\ b(o, j) \in DOMAIN rows[o] /\ Has(list, Row(o, b(o, i)))
    BY <1>1, <1>9
  <2>3. Told(list, Row(o, b(o, j)))
    BY <1>9, <2>1, <2>2 DEF Covers
  <2> QED
    BY <1>1, <2>3
<1>10. Fresh(list, n) => Fresh(list, n)'
  <2>1. Fresh(list, n) => Behind(list, n)'
    BY <1>7 DEF Behind, Has, Row
  <2> QED
    BY <2>1 DEF Fresh
<1>11. Whole(list) => Whole(list)'
    BY <1>8 DEF Whole, Told, Has, Row, Deleted
<1>12. view # "FriendSearch" /\ Covers(list, n) => Covers(list, n - 1)'
    BY <1>9 DEF Covers, Told, Has, Row, Deleted
<1> QED
    BY <1>10, <1>11, <1>12

(* One's own bin: the list that is going to be filtered loses the place of *)
(* the row, and no row comes into it from behind.                          *)
LEMMA FreshBin ==
    ASSUME DbOK, ShapeRows, Me \in Keys, NEW d \in DOMAIN rows[Me], Deleted(Me, d), view' = view,
           NEW list, OneKeyed(list, Me), NEW n \in Int, Fresh(list, n), Has(list, Row(Me, d))
    PROVE  Fresh(list, n - 1)'
<1>1. DbOK'
    BY RowsTypes DEF RowsChange
<1>2. \A o \in Keys : \A j \in DOMAIN rows'[o] : j \in Int
    BY <1>1 DEF DbOK
<1>3. d \in Int /\ d <= n
  <2>1. d \in Int
    BY DEF DbOK
  <2>2. ~(d > n)
    BY DEF Fresh, Behind
  <2> QED
    BY <2>1, <2>2
<1>4. ASSUME NEW o \in Keys, NEW i \in DOMAIN rows'[o], i > n - 1, Has(list, Row(o, i)') PROVE FALSE
  <2>1. o = Me
    BY <1>4 DEF Has, OneKeyed, Row
  <2>2. BeforeDeleted(Me, d, Me, i) = i + 1 /\ i + 1 > n
    BY <1>2, <1>3, <1>4 DEF BeforeDeleted
  <2>3. i + 1 \in DOMAIN rows[Me] /\ rows'[Me][i] = rows[Me][i + 1]
    BY <1>4, <2>1, <2>2, DeletedRows
  <2>4. Has(list, Row(Me, i + 1))
    BY <1>4, <2>1, <2>3 DEF Row
  <2> QED
    BY <2>2, <2>3, <2>4 DEF Fresh, Behind
<1>5. Behind(list, n - 1)'
    BY <1>4 DEF Behind, Has, Row
<1> QED
    BY <1>5 DEF Fresh

(* A row is put in front of others: none of those that are shown is torn   *)
(* from another.                                                           *)
LEMMA CompleteFront ==
    ASSUME DbOK, NEW of \in Keys, Added(of, TRUE), view' = view, view # "FriendSearch",
           NEW list \in Items, Old(list), NEW n \in Int, Complete(list, n)
    PROVE  Complete(list, n)'
<1> DEFINE b(o, j) == BeforeAdded(of, TRUE, o, j)
<1>1. DbOK'
    BY RowsTypes DEF RowsChange
<1>2. \A o \in Keys : \A j \in DOMAIN rows'[o] : j \in Int /\ j >= 1
    BY <1>1 DEF DbOK
<1>3. \A o \in Keys : \A i, l \in DOMAIN rows'[o] : \A j \in i..l : j \in DOMAIN rows'[o]
    BY <1>1 DEF DbOK
<1>4. \A o \in Keys : \A j \in DOMAIN rows'[o] :
         \/ o = of /\ j = 1 /\ rows'[o][j] = lastId[of] + 1
         \/ b(o, j) \in DOMAIN rows[o] /\ Row(o, j)' = Row(o, b(o, j))
  <2>1. PICK front \in BOOLEAN : front = TRUE
    OBVIOUS
  <2>2. Added(of, front)
    BY <2>1
  <2>3. \A o \in Keys : \A j \in DOMAIN rows'[o] :
           \/ /\ o = of /\ j = (IF front THEN 1 ELSE Len(rows[of]) + 1)
              /\ rows'[o][j] = lastId[of] + 1
           \/ /\ BeforeAdded(of, front, o, j) \in DOMAIN rows[o]
              /\ rows'[o][j] = rows[o][BeforeAdded(of, front, o, j)]
    BY <2>2, AddedRows
  <2>4. \A o, j : b(o, j) = BeforeAdded(of, front, o, j)
    BY <2>1
  <2> HIDE DEF b
  <2>5. ASSUME NEW o \in Keys, NEW j \in DOMAIN rows'[o]
        PROVE  \/ o = of /\ j = 1 /\ rows'[o][j] = lastId[of] + 1
               \/ b(o, j) \in DOMAIN rows[o] /\ rows'[o][j] = rows[o][b(o, j)]
    BY <2>1, <2>3, <2>4
  <2> QED
    BY <2>5 DEF Row
<1>5. ASSUME NEW o \in Keys, NEW j \in DOMAIN rows'[o], Has(list, Row(o, j)')
      PROVE  b(o, j) \in DOMAIN rows[o] /\ Row(o, j)' = Row(o, b(o, j))
  <2>1. ASSUME o = of, rows'[o][j] = lastId[of] + 1 PROVE FALSE
    <3>1. PICK m \in DOMAIN list : list[m].key = of /\ list[m].id = lastId[of] + 1
      BY <1>5, <2>1 DEF Has, Row
    <3>2. list[m].id <= lastId[of] /\ lastId[of] \in Int
      BY <3>1, FeedAssumption DEF Old, DbOK
    <3> QED
      BY <3>1, <3>2
  <2> QED
    BY <1>4, <2>1
<1>6. \A o \in Keys : \A j \in Int : b(o, j) \in Int /\ j - 1 <= b(o, j) /\ b(o, j) <= j
    BY DEF BeforeAdded
<1>7. \A o \in Keys : \A i, j \in Int : i <= j => b(o, i) <= b(o, j)
    BY DEF BeforeAdded
<1>8. ASSUME NEW o \in Keys, NEW i \in DOMAIN rows'[o], NEW j \in DOMAIN rows'[o], i <= j,
             b(o, i) \in DOMAIN rows[o]
      PROVE  b(o, j) \in DOMAIN rows[o] /\ Row(o, j)' = Row(o, b(o, j))
  <2>1. o = of => i # 1
    BY <1>8 DEF BeforeAdded, DbOK
  <2>2. o = of => j # 1
    BY <1>2, <1>8, <2>1
  <2> QED
    BY <1>4, <2>2
<1> HIDE DEF b
<1>9. ASSUME NEW o \in Keys, NEW i \in DOMAIN rows'[o], NEW l \in DOMAIN rows'[o],
             NEW p \in DOMAIN list, NEW q \in DOMAIN list, p <= q,
             list[p] = Row(o, i)', list[q] = Row(o, l)', NEW j \in i..l
      PROVE  Told(list, Row(o, j)')
  <2>1. j \in DOMAIN rows'[o] /\ i \in Int /\ l \in Int /\ j \in Int /\ i <= j /\ j <= l
    BY <1>2, <1>3
  <2>2. b(o, j) \in b(o, i)..b(o, l)
    BY <1>6, <1>7, <2>1
  <2>3. Has(list, Row(o, i)') /\ Has(list, Row(o, l)')
    BY <1>9 DEF Has
  <2>4. /\ b(o, i) \in DOMAIN rows[o] /\ b(o, l) \in DOMAIN rows[o]
        /\ list[p] = Row(o, b(o, i)) /\ list[q] = Row(o, b(o, l))
    BY <1>5, <1>9, <2>3
  <2>5. Told(list, Row(o, b(o, j)))
    BY <1>9, <2>2, <2>4 DEF Complete, Whole
  <2> QED
    BY <1>8, <2>1, <2>4, <2>5
<1>10. ASSUME NEW o \in Keys, NEW i \in DOMAIN rows'[o], NEW j \in DOMAIN rows'[o],
              Has(list, Row(o, i)'), i <= j, j <= n
       PROVE  Told(list, Row(o, j)')
  <2>0. i \in Int /\ j \in Int
    BY <1>2
  <2>1. b(o, i) <= b(o, j) /\ b(o, j) <= n
    <3>1. b(o, i) <= b(o, j) /\ b(o, j) <= j /\ b(o, j) \in Int
      BY <1>6, <1>7, <1>10, <2>0
    <3> QED
      BY <1>10, <2>0, <3>1
  <2>2. b(o, i) \in DOMAIN rows[o] /\ Has(list, Row(o, b(o, i)))
    BY <1>5, <1>10
  <2>3. b(o, j) \in DOMAIN rows[o] /\ Row(o, j)' = Row(o, b(o, j))
    BY <1>8, <1>10, <2>2
  <2>4. Told(list, Row(o, b(o, j)))
    BY <2>1, <2>2, <2>3 DEF Complete, Covers
  <2> QED
    BY <2>3, <2>4
<1>11. Whole(list)'
  <2>1. late' = late
    BY DEF Added
  <2> QED
    BY <1>9, <2>1 DEF Whole, Told, Has, Row
<1>12. Covers(list, n)'
    BY <1>10 DEF Covers, Told, Has, Row, Added
<1> QED
    BY <1>11, <1>12 DEF Complete

(* A row that comes between others is late, and tears none apart either.   *)
LEMMA CompleteBetween ==
    ASSUME DbOK, NEW of \in Keys, NEW at \in DOMAIN rows[of], Between(of, at), view' = view,
           NEW list \in Items, Old(list), NEW n \in Int, Complete(list, n)
    PROVE  Complete(list, n)'
<1> DEFINE b(o, j) == BeforeBetween(of, at, o, j)
<1>1. DbOK'
    BY RowsTypes DEF RowsChange
<1>2. \A o \in Keys : \A j \in DOMAIN rows'[o] : j \in Int
    BY <1>1 DEF DbOK
<1>3. \A o \in Keys : \A i, l \in DOMAIN rows'[o] : \A j \in i..l : j \in DOMAIN rows'[o]
    BY <1>1 DEF DbOK
<1>4. /\ at \in Int /\ Len(rows'[of]) = Len(rows[of]) + 1 /\ Len(rows[of]) \in Nat
      /\ \A o \in Keys : o # of => rows'[o] = rows[o]
    BY BetweenRows, RowPlaces DEF DbOK
<1>5. late \subseteq late' /\ [key |-> of, id |-> lastId[of] + 1] \in late'
    BY BetweenRows
<1>6. \A o \in Keys : \A j \in DOMAIN rows'[o] :
         \/ rows'[o][j] = lastId[of] + 1 /\ o = of /\ j = at
         \/ ~(o = of /\ j = at) /\ b(o, j) \in DOMAIN rows[o] /\ Row(o, j)' = Row(o, b(o, j))
    BY BetweenRows DEF Row
<1>7. \A o \in Keys : \A i, j \in Int : i <= j /\ ~(o = of /\ i = at) /\ ~(o = of /\ j = at)
                                      => b(o, i) \in Int /\ b(o, j) \in Int /\ b(o, i) <= b(o, j)
    BY <1>4 DEF BeforeBetween
<1>8. \A o \in Keys : \A j \in Int : b(o, j) <= j
    BY DEF BeforeBetween
<1> HIDE DEF b
<1>9. ASSUME NEW o \in Keys, NEW j \in DOMAIN rows'[o], Has(list, Row(o, j)')
      PROVE  /\ ~(o = of /\ j = at) /\ b(o, j) \in DOMAIN rows[o]
             /\ Row(o, j)' = Row(o, b(o, j))
  <2>1. ASSUME o = of, rows'[o][j] = lastId[of] + 1 PROVE FALSE
    <3>1. PICK m \in DOMAIN list : list[m].key = of /\ list[m].id = lastId[of] + 1
      BY <1>9, <2>1 DEF Has, Row
    <3>2. list[m].id <= lastId[of] /\ lastId[of] \in Int
      BY <3>1, FeedAssumption DEF Old, DbOK
    <3> QED
      BY <3>1, <3>2
  <2> QED
    BY <1>6, <2>1
<1>10. ASSUME NEW o \in Keys, NEW j \in DOMAIN rows'[o],
              ~(o = of /\ j = at) => Told(list, Row(o, b(o, j)))
       PROVE  Has(list, Row(o, j)') \/ Row(o, j)' \in late'
  <2>1. CASE rows'[o][j] = lastId[of] + 1 /\ o = of
    BY <1>5, <2>1 DEF Row
  <2>2. CASE ~(o = of /\ j = at) /\ Row(o, j)' = Row(o, b(o, j))
    BY <1>5, <1>10, <2>2 DEF Told
  <2> QED
    BY <1>6, <2>1, <2>2
<1>11. ASSUME NEW o \in Keys, NEW i \in DOMAIN rows'[o], NEW l \in DOMAIN rows'[o],
              NEW p \in DOMAIN list, NEW q \in DOMAIN list, p <= q,
              list[p] = Row(o, i)', list[q] = Row(o, l)', NEW j \in i..l
       PROVE  Has(list, Row(o, j)') \/ Row(o, j)' \in late'
  <2>1. j \in DOMAIN rows'[o] /\ i \in Int /\ l \in Int /\ j \in Int /\ i <= j /\ j <= l
    BY <1>2, <1>3
  <2>2. Has(list, Row(o, i)') /\ Has(list, Row(o, l)')
    BY <1>11 DEF Has
  <2>3. /\ b(o, i) \in DOMAIN rows[o] /\ b(o, l) \in DOMAIN rows[o]
        /\ list[p] = Row(o, b(o, i)) /\ list[q] = Row(o, b(o, l))
        /\ ~(o = of /\ i = at) /\ ~(o = of /\ l = at)
    BY <1>9, <1>11, <2>2
  <2>4. ASSUME ~(o = of /\ j = at) PROVE Told(list, Row(o, b(o, j)))
    <3>1. b(o, j) \in b(o, i)..b(o, l)
      BY <1>7, <2>1, <2>3, <2>4
    <3> QED
      BY <1>11, <2>3, <3>1 DEF Complete, Whole
  <2> QED
    BY <1>10, <2>1, <2>4
<1>12. ASSUME NEW o \in Keys, NEW i \in DOMAIN rows'[o], NEW j \in DOMAIN rows'[o],
              Has(list, Row(o, i)'), i <= j, j <= n
       PROVE  Has(list, Row(o, j)') \/ Row(o, j)' \in late'
  <2>1. i \in Int /\ j \in Int
    BY <1>2
  <2>2. ~(o = of /\ i = at) /\ b(o, i) \in DOMAIN rows[o] /\ Has(list, Row(o, b(o, i)))
    BY <1>9, <1>12
  <2>3. ASSUME ~(o = of /\ j = at) PROVE Told(list, Row(o, b(o, j)))
    <3>1. b(o, j) \in DOMAIN rows[o] /\ b(o, i) <= b(o, j) /\ b(o, j) \in Int
      BY <1>6, <1>7, <1>12, <2>1, <2>2, <2>3
    <3>2. b(o, j) <= j
      BY <1>8, <2>1
    <3>3. b(o, j) <= n
      BY <1>12, <2>1, <3>1, <3>2
    <3> QED
      BY <2>2, <3>1, <3>3 DEF Complete, Covers
  <2> QED
    BY <1>10, <2>3
<1>13. ASSUME view = "FriendSearch", NEW m \in DOMAIN list PROVE n <= Len(rows'[list[m].key])
  <2>1. list[m].key \in Keys /\ n <= Len(rows[list[m].key])
    BY <1>13, ItemOf DEF Complete, Covers
  <2>2. Len(rows[list[m].key]) \in Nat
    BY <2>1, RowPlaces
  <2> QED
    BY <1>4, <2>1, <2>2
<1>14. Whole(list)'
    BY <1>11 DEF Whole, Told, Has, Row
<1>15. Covers(list, n)'
    BY <1>12, <1>13 DEF Covers, Told, Has, Row
<1> QED
    BY <1>14, <1>15 DEF Complete

(* A user joins, and is found behind all others. *)
LEMMA GoodBack ==
    ASSUME DbOK, NEW of \in Keys, Added(of, FALSE), view' = view, view = "FriendSearch",
           NEW list \in Items, Old(list), NEW n \in Int
    PROVE  /\ Fresh(list, n) => Fresh(list, n)'
           /\ Complete(list, n) => Complete(list, n)'
<1>1. DbOK'
    BY RowsTypes DEF RowsChange
<1>2. \A o \in Keys : \A i, l \in DOMAIN rows'[o] : \A j \in i..l : j \in DOMAIN rows'[o] /\ j <= l
    BY <1>1 DEF DbOK
<1>3. \A o \in Keys : \A j \in DOMAIN rows'[o] :
         \/ o = of /\ j = Len(rows[of]) + 1 /\ rows'[o][j] = lastId[of] + 1
         \/ j \in DOMAIN rows[o] /\ Row(o, j)' = Row(o, j)
  <2>1. PICK front \in BOOLEAN : front = FALSE
    OBVIOUS
  <2>2. Added(of, front)
    BY <2>1
  <2>3. \A o \in Keys : \A j \in DOMAIN rows'[o] :
           \/ /\ o = of /\ j = (IF front THEN 1 ELSE Len(rows[of]) + 1)
              /\ rows'[o][j] = lastId[of] + 1
           \/ /\ BeforeAdded(of, front, o, j) \in DOMAIN rows[o]
              /\ rows'[o][j] = rows[o][BeforeAdded(of, front, o, j)]
    BY <2>2, AddedRows
  <2>4. \A o, j : BeforeAdded(of, front, o, j) = j
    BY <2>1 DEF BeforeAdded
  <2>5. ASSUME NEW o \in Keys, NEW j \in DOMAIN rows'[o]
        PROVE  \/ o = of /\ j = Len(rows[of]) + 1 /\ rows'[o][j] = lastId[of] + 1
               \/ j \in DOMAIN rows[o] /\ rows'[o][j] = rows[o][j]
    BY <2>1, <2>3, <2>4
  <2> QED
    BY <2>5 DEF Row
<1>4. \A o \in Keys : o # of => rows'[o] = rows[o]
    BY AddedRows
<1>5. Len(rows'[of]) = Len(rows[of]) + 1
    BY AddedRows
<1>6. \A o \in Keys : /\ Len(rows[o]) \in Nat /\ DOMAIN rows[o] = 1..Len(rows[o])
                      /\ \A j \in DOMAIN rows'[o] : j \in Nat
    BY <1>1, RowPlaces DEF DbOK
<1>7. ASSUME NEW o \in Keys, NEW j \in DOMAIN rows'[o], Has(list, Row(o, j)')
      PROVE  j \in DOMAIN rows[o] /\ Row(o, j)' = Row(o, j)
  <2>1. ASSUME o = of, rows'[o][j] = lastId[of] + 1 PROVE FALSE
    <3>1. PICK m \in DOMAIN list : list[m].key = of /\ list[m].id = lastId[of] + 1
      BY <1>7, <2>1 DEF Has, Row
    <3>2. list[m].id <= lastId[of] /\ lastId[of] \in Int
      BY <3>1, FeedAssumption DEF Old, DbOK
    <3> QED
      BY <3>1, <3>2
  <2> QED
    BY <1>3, <2>1
<1>8. ASSUME NEW o \in Keys, NEW j \in DOMAIN rows'[o], j <= Len(rows[o])
      PROVE  j \in DOMAIN rows[o] /\ Row(o, j)' = Row(o, j)
    BY <1>3, <1>6, <1>8
<1>9. ASSUME Fresh(list, n), NEW o \in Keys, NEW i \in DOMAIN rows'[o], i > n, Has(list, Row(o, i)')
      PROVE  FALSE
  <2>1. i \in DOMAIN rows[o] /\ Has(list, Row(o, i))
    BY <1>7, <1>9
  <2> QED
    BY <1>9, <2>1 DEF Fresh, Behind
<1>10. ASSUME Whole(list), NEW o \in Keys, NEW i \in DOMAIN rows'[o], NEW l \in DOMAIN rows'[o],
              NEW p \in DOMAIN list, NEW q \in DOMAIN list, p <= q,
              list[p] = Row(o, i)', list[q] = Row(o, l)', NEW j \in i..l
       PROVE  Told(list, Row(o, j)')
  <2>1. Has(list, Row(o, i)') /\ Has(list, Row(o, l)')
    BY <1>10 DEF Has
  <2>2. /\ i \in DOMAIN rows[o] /\ l \in DOMAIN rows[o]
        /\ list[p] = Row(o, i) /\ list[q] = Row(o, l)
    BY <1>7, <1>10, <2>1
  <2>3. Told(list, Row(o, j))
    BY <1>10, <2>2 DEF Whole
  <2>4. j \in DOMAIN rows'[o] /\ j <= Len(rows[o])
    BY <1>2, <1>6, <2>2
  <2> QED
    BY <1>8, <2>3, <2>4
<1>11. ASSUME Covers(list, n), NEW o \in Keys, NEW i \in DOMAIN rows'[o], NEW j \in DOMAIN rows'[o],
              Has(list, Row(o, i)'), i <= j, j <= n
       PROVE  Told(list, Row(o, j)')
  <2>1. i \in DOMAIN rows[o] /\ Has(list, Row(o, i))
    BY <1>7, <1>11
  <2>2. n <= Len(rows[o])
    BY <1>11, <2>1 DEF Covers, Has, Row
  <2>3. j \in DOMAIN rows[o] /\ Row(o, j)' = Row(o, j)
    BY <1>6, <1>8, <1>11, <2>2
  <2>4. Told(list, Row(o, j))
    BY <1>11, <2>1, <2>3 DEF Covers
  <2> QED
    BY <2>3, <2>4
<1>12. ASSUME Covers(list, n), NEW m \in DOMAIN list PROVE n <= Len(rows'[list[m].key])
  <2>1. list[m].key \in Keys /\ n <= Len(rows[list[m].key])
    BY <1>12, ItemOf DEF Covers
  <2> QED
    BY <1>4, <1>5, <1>6, <2>1
<1>13. Fresh(list, n) => Fresh(list, n)'
  <2>1. Fresh(list, n) => Behind(list, n)'
    BY <1>9 DEF Behind, Has, Row
  <2> QED
    BY <2>1 DEF Fresh
<1>14. Whole(list) => Whole(list)'
    BY <1>10 DEF Whole, Told, Has, Row, Added
<1>15. Covers(list, n) => Covers(list, n)'
    BY <1>11, <1>12 DEF Covers, Told, Has, Row, Added
<1> QED
    BY <1>13, <1>14, <1>15 DEF Complete

(* The deleted post is taken out of the list.  It is no row any more. *)
LEMMA GoodWithout ==
    ASSUME DbOK, view # "FriendSearch", NEW list \in Items, NEW e, NEW t \in Without(list, e), Has(list, e),
           \A o \in Keys : \A i \in DOMAIN rows[o] : Row(o, i) # e,
           Good(list, Len(list) - 1)
    PROVE  Good(t, Len(t))
<1>1. /\ \A x : Has(t, x) <=> Has(list, x) /\ x # e
      /\ \A p, q \in DOMAIN t : p <= q =>
            \E a, b \in DOMAIN list : a <= b /\ t[p] = list[a] /\ t[q] = list[b]
      /\ IsInjective(list) => IsInjective(t) /\ Len(t) = Len(list) - 1
      /\ Len(t) \in Nat /\ Len(t) <= Len(list) - 1
    BY WithoutHas, WithoutOrder, WithoutLen
<1>2. Fresh(list, Len(list) - 1) => Fresh(t, Len(t))
    BY <1>1 DEF Fresh, Behind
<1>3. ASSUME Complete(list, Len(list) - 1) PROVE Complete(t, Len(t))
  <2>1. \A o \in Keys : \A i, k \in DOMAIN rows[o] : i..k \subseteq DOMAIN rows[o]
    BY RowPlaces
  <2>2. ASSUME NEW o \in Keys, NEW i \in DOMAIN rows[o], NEW k \in DOMAIN rows[o],
               NEW p \in DOMAIN t, NEW q \in DOMAIN t, p <= q, t[p] = Row(o, i), t[q] = Row(o, k),
               NEW j \in i..k
        PROVE  Told(t, Row(o, j))
    <3>1. PICK a, b \in DOMAIN list : a <= b /\ list[a] = Row(o, i) /\ list[b] = Row(o, k)
      BY <1>1, <2>2
    <3>2. Told(list, Row(o, j))
      BY <1>3, <3>1 DEF Complete, Whole
    <3>3. Row(o, j) # e
      BY <2>1
    <3> QED
      BY <1>1, <3>2, <3>3 DEF Told
  <2>3. Whole(t)
    BY <2>2 DEF Whole
  <2>4. ASSUME NEW o \in Keys, NEW i \in DOMAIN rows[o], NEW j \in DOMAIN rows[o],
               Has(t, Row(o, i)), i <= j, j <= Len(t)
        PROVE  Told(t, Row(o, j))
    <3>1. Has(list, Row(o, i)) /\ Row(o, j) # e
      BY <1>1, <2>4
    <3>2. j <= Len(list) - 1
      <4>1. j \in Nat /\ Len(list) \in Nat
        BY RowPlaces DEF Items
      <4> QED
        BY <1>1, <2>4, <4>1
    <3>3. Told(list, Row(o, j))
      BY <1>3, <2>4, <3>1, <3>2 DEF Complete, Covers
    <3> QED
      BY <1>1, <3>1, <3>3 DEF Told
  <2>5. Covers(t, Len(t))
    BY <2>4 DEF Covers
  <2> QED
    BY <2>3, <2>5 DEF Complete
<1> QED
    BY <1>2, <1>3 DEF Good

----------------------------------------------------------------------------
(* The list that is shown is fresh and complete up to the place the next   *)
(* page is asked for at, and so is what each call is going to show, once   *)
(* it has arrived.  Between a deletion (or an addition) of one's own and   *)
(* its arrival the list lags behind; nothing else is under way then.       *)
GoodCall(c) ==
    /\ c.op \in {"more", "first"} => Good(c.base \o c.list, c.from + Len(c.list))
    /\ c.op = "bin" => Good(c.base, IF c.st = "ok" THEN Len(c.base) - 1 ELSE Len(c.base))

GoodCalls == \A k \in Calls, c \in Asked : call[k] = c => GoodCall(c)

Alone(op) == \A k, j \in Calls :
                call[k].st # "idle" /\ call[k].op = op /\ call[j].st # "idle" => j = k
GoodAlone == /\ Calm("added") => Alone("add")
             /\ Calm("removed") => Alone("bin")

Done(op)  == \E k \in Calls : call[k].st = "ok" /\ call[k].op = op
NextPlace == IF view = "Profile" THEN Len(posts) ELSE seen.offset + Limit
Ready     == view = "Profile" \/ (~isEnough /\ ~isFirst)

GoodList == /\ Calm("added") =>
                  IsInjective(posts) /\ (~Done("add") /\ Ready => Behind(posts, NextPlace))
            /\ Calm("removed") =>
                  Whole(posts) /\ (~Done("bin") /\ Ready => Covers(posts, NextPlace))

GoodInv == GoodCalls /\ GoodAlone /\ GoodList

(* Steps that keep what is fresh and complete so. *)
GoodKept ==
    /\ upset \subseteq upset' /\ view' = view
    /\ \A l \in Items : \A n \in Int : Old(l) =>
          /\ Calm("added")' /\ Fresh(l, n) => Fresh(l, n)'
          /\ Calm("removed")' /\ Whole(l) => Whole(l)'
          /\ Calm("removed")' /\ Complete(l, n) => Complete(l, n)'

(* Nothing that happened is forgotten. *)
LEMMA CalmBefore == ASSUME upset \subseteq upset', NEW by, Calm(by)' PROVE Calm(by)
    BY DEF Calm, Untouched

(* While nobody touches the rows, every list stays as good as it is. *)
LEMMA KeptSame ==
    ASSUME UNCHANGED <<view, rows, late>>, upset \subseteq upset' PROVE GoodKept
<1>1. ASSUME NEW l, NEW n PROVE Fresh(l, n) => Fresh(l, n)'
    BY DEF Fresh, Behind, Has, Row
<1>2. ASSUME NEW l PROVE Whole(l) => Whole(l)'
    BY DEF Whole, Told, Has, Row
<1>3. ASSUME NEW l, NEW n PROVE Complete(l, n) => Complete(l, n)'
    BY DEF Complete, Whole, Covers, Told, Has, Row
<1> QED
    BY <1>1, <1>2, <1>3 DEF GoodKept

(* Which goes for a list that is good up to a place. *)
LEMMA KeptGood ==
    ASSUME GoodKept, NEW l \in Items, NEW n \in Int, Old(l), Good(l, n) PROVE Good(l, n)'
    BY CalmBefore DEF GoodKept, Good

(* A call under way keeps what it is going to show. *)
LEMMA KeptCall ==
    ASSUME GoodKept, NEW c \in Asked, ShapeCall(c), GoodCall(c) PROVE GoodCall(c)'
<1>1. /\ c.base \in Items /\ c.list \in Items /\ c.from \in Nat /\ Old(c.base) /\ Old(c.list)
      /\ Len(c.base) \in Nat /\ Len(c.list) \in Nat
    BY DEF Asked, ShapeCall, Items
<1> DEFINE l == c.base \o c.list
<1>2. l \in Items /\ Old(l)
    BY <1>1, OldConcat
<1>3. c.op \in {"more", "first"} => Good(l, c.from + Len(c.list))
    BY DEF GoodCall
<1> HIDE DEF l
<1>4. c.op \in {"more", "first"} => Good(l, c.from + Len(c.list))'
    BY <1>1, <1>2, <1>3, KeptGood
<1> DEFINE n == IF c.st = "ok" THEN Len(c.base) - 1 ELSE Len(c.base)
<1>5. n \in Int
    BY <1>1
<1>6. c.op = "bin" => Good(c.base, n)
    BY DEF GoodCall
<1> HIDE DEF n
<1>7. c.op = "bin" => Good(c.base, n)'
    BY <1>1, <1>5, <1>6, KeptGood
<1> QED
    BY <1>4, <1>7 DEF GoodCall, l, n

(* The calls after a step of one of them. *)
LEMMA GoodOthers ==
    ASSUME TypeInv, ShapeInv, GoodCalls, NEW k \in Calls, NEW c, call' = [call EXCEPT ![k] = c],
           c.st = "idle" \/ GoodCall(c)',
           \A j \in Calls : j # k /\ call[j].st # "idle" => GoodKept
    PROVE  GoodCalls'
<1> SUFFICES ASSUME NEW j \in Calls, NEW d \in Asked, call'[j] = d PROVE GoodCall(d)'
    BY DEF GoodCalls
<1>1. d.st # "idle"
    BY DEF Asked
<1>2. CASE j = k
  <2>1. c = d
    BY <1>2 DEF TypeInv, CallsOK
  <2> QED
    BY <1>1, <2>1
<1>3. CASE j # k
  <2>1. call[j] = d /\ ShapeCall(d) /\ GoodCall(d)
    BY <1>1, <1>3 DEF ShapeInv, ShapeCalls, GoodCalls, TypeInv, CallsOK
  <2> QED
    BY <1>1, <1>3, <2>1, KeptCall
<1> QED
    BY <1>2, <1>3

(* No call is made: one's own addition or deletion stays alone. *)
LEMMA AloneStays ==
    ASSUME TypeInv, GoodAlone, upset \subseteq upset', NEW k \in Calls, NEW c,
           call' = [call EXCEPT ![k] = c],
           \/ c.st = "idle"
           \/ call[k].st # "idle" /\ c.op \in {call[k].op, "more", "first"}
    PROVE  GoodAlone'
<1>1. \A j \in Calls : j # k => call'[j] = call[j]
    BY DEF TypeInv, CallsOK
<1>2. call'[k] = c
    BY DEF TypeInv, CallsOK
<1>3. \A j \in Calls : call'[j].st # "idle" => call[j].st # "idle"
    BY <1>1, <1>2
<1>4. \A op \in {"add", "bin"}, j \in Calls : call'[j].st # "idle" /\ call'[j].op = op => call[j].op = op
    BY <1>1, <1>2
<1>5. \A op \in {"add", "bin"} : Alone(op) => Alone(op)'
    BY <1>3, <1>4 DEF Alone
<1> QED
    BY <1>5, CalmBefore DEF GoodAlone

(* The list that is shown lags behind what a call has done. *)
LEMMA ListLags ==
    ASSUME TypeInv, GoodList, upset \subseteq upset',
           Calm("added")' /\ Done("add") => Done("add")', Done("bin") => Done("bin")',
           NEW l, NEW n, l = posts, n = NextPlace, posts' = l, Ready' => Ready /\ NextPlace' = n,
           Calm("added")' /\ ~Done("add")' /\ Fresh(l, n) => Fresh(l, n)',
           Calm("removed")' /\ Whole(l) => Whole(l)',
           Calm("removed")' /\ ~Done("bin")' /\ Complete(l, n) => Complete(l, n)'
    PROVE  GoodList'
<1>1. posts' = l /\ (Ready' => Ready /\ NextPlace' = n)
    OBVIOUS
<1>2. Calm("added")' => IsInjective(l) /\ (~Done("add")' /\ Ready' => Behind(l, n)')
    BY <1>1, CalmBefore DEF GoodList, Fresh
<1>3. Calm("removed")' => Whole(l)' /\ (~Done("bin")' /\ Ready' => Covers(l, n)')
    BY <1>1, CalmBefore DEF GoodList, Complete
<1>4. Ready' /\ Behind(l, n)' => Behind(posts, NextPlace)'
    BY <1>1 DEF Behind, Has, Row
<1>5. Whole(l)' => Whole(posts)'
    BY <1>1 DEF Whole, Told, Has, Row
<1>6. Ready' /\ Covers(l, n)' => Covers(posts, NextPlace)'
    BY <1>1 DEF Covers, Told, Has, Row
<1> QED
    BY <1>1, <1>2, <1>3, <1>4, <1>5, <1>6 DEF GoodList

(* The list stays as it is. *)
LEMMA ListStays ==
    ASSUME TypeInv, ShapeInv, GoodList, GoodKept,
           UNCHANGED <<posts, seen, isEnough, isFirst>>,
           Calm("added")' /\ Done("add") => Done("add")', Done("bin") => Done("bin")'
    PROVE  GoodList'
<1>1. PICK l, n : l = posts /\ n = NextPlace
    OBVIOUS
<1>2. l \in Items /\ n \in Int /\ Old(l)
    BY <1>1, FeedAssumption DEF TypeInv, ListOK, Items, Offsets, NextPlace, ShapeInv
<1>3. posts' = l /\ NextPlace' = n /\ (Ready' <=> Ready)
    BY <1>1 DEF NextPlace, Ready, GoodKept
<1> QED
    BY <1>1, <1>2, <1>3, ListLags DEF GoodKept

(* Another list takes its place. *)
LEMMA ListNew ==
    ASSUME NEW l, NEW n, posts' = l, Good(l, n)', Ready' => NextPlace' = n
    PROVE  GoodList'
<1>1. Ready' /\ Behind(l, n)' => Behind(posts, NextPlace)'
    BY DEF Behind, Has, Row
<1>2. Whole(l)' => Whole(posts)'
    BY DEF Whole, Told, Has, Row
<1>3. Ready' /\ Covers(l, n)' => Covers(posts, NextPlace)'
    BY DEF Covers, Told, Has, Row
<1> QED
    BY <1>1, <1>2, <1>3 DEF GoodList, Good, Fresh, Complete

(* A call that begins: an addition or a deletion that is not alone would   *)
(* be noted.                                                               *)
NewCall(op, of, from, base) == [st |-> "asked", op |-> op, key |-> of, from |-> from,
                                base |-> base, list |-> <<>>]

(* What a new call notes when it is not the only one. *)
LEMMA AskNotes ==
    ASSUME NEW k, NEW op, NEW of, NEW from, NEW base, Ask(k, op, of, from, base)
    PROVE  /\ upset \subseteq upset'
           /\ Calm("added")' => \A j \in UnderWay : call[j].op # "add" /\ op # "add"
           /\ Calm("removed")' => \A j \in UnderWay : call[j].op # "bin" /\ op # "bin"
<1> DEFINE ops == {op} \cup {call[j].op : j \in UnderWay}
<1>1. upset' = upset \cup IF UnderWay = {} THEN {}
                          ELSE {"overlap"} \cup (IF "add" \in ops THEN {"added"} ELSE {})
                                           \cup (IF "bin" \in ops THEN {"removed"} ELSE {})
    BY DEF Ask
<1>2. \A j \in UnderWay : call[j].op \in ops /\ op \in ops
    OBVIOUS
<1> HIDE DEF ops
<1>3. ASSUME NEW j \in UnderWay, call[j].op = "add" \/ op = "add" PROVE "added" \in upset'
    BY <1>1, <1>2, <1>3
<1>4. ASSUME NEW j \in UnderWay, call[j].op = "bin" \/ op = "bin" PROVE "removed" \in upset'
    BY <1>1, <1>2, <1>4
<1>5. upset \subseteq upset'
    BY <1>1
<1> QED
    BY <1>3, <1>4, <1>5 DEF Calm, Untouched

(* A new call is as good as the list it starts from. *)
LEMMA AskGood ==
    ASSUME TypeInv, ShapeInv, GoodInv, NEW k \in Calls, NEW op, NEW of, NEW from, NEW base,
           Ask(k, op, of, from, base), UNCHANGED <<view, rows, late>>,
           \A c : c = NewCall(op, of, from, base) => GoodCall(c)'
    PROVE  GoodCalls' /\ GoodAlone' /\ GoodKept /\ \A o : Done(o) => Done(o)'
<1>1. PICK c : c = NewCall(op, of, from, base)
    OBVIOUS
<1>2. /\ c.st = "asked" /\ c.op = op /\ call' = [call EXCEPT ![k] = c] /\ call[k].st = "idle"
    BY <1>1 DEF Ask, NewCall
<1>3. GoodKept
    BY KeptSame, AskNotes
<1>4. GoodCalls'
    BY <1>1, <1>2, <1>3, GoodOthers DEF GoodInv
<1>5. call'[k] = c /\ \A j \in Calls : j # k => call'[j] = call[j]
    BY <1>2 DEF TypeInv, CallsOK
<1>6. \A o : Done(o) => Done(o)'
    BY <1>2, <1>5 DEF Done
<1>7. \A u, o : (Calm(u)' => \A j \in UnderWay : call[j].op # o /\ op # o) =>
                (Calm(u)' => Alone(o)')
    BY <1>2, <1>5 DEF Alone, UnderWay
<1>8. GoodAlone'
    BY <1>7, AskNotes DEF GoodAlone
<1> QED
    BY <1>3, <1>4, <1>6, <1>8

(* What the next page is going to be put behind. *)
LEMMA NextGood ==
    ASSUME TypeInv, GoodInv, Ready, upset \subseteq upset',
           Calm("added")' => ~Done("add"), Calm("removed")' => ~Done("bin")
    PROVE  /\ Calm("added")' => Fresh(posts, NextPlace)
           /\ Calm("removed")' => Complete(posts, NextPlace)
    BY CalmBefore DEF GoodInv, GoodList, Fresh, Complete

(* And stays so in the step that asks for it. *)
LEMMA NextKept ==
    ASSUME TypeInv, ShapeInv, GoodInv, NEW k \in Calls, NEW op, NEW of, NEW from, NEW base,
           Ask(k, op, of, from, base), UNCHANGED <<view, rows, late>>, Ready,
           NEW l, NEW n, l = posts, n = NextPlace
    PROVE  /\ op # "bin" => Good(l, n)'
           /\ UnderWay = {} => Good(l, n)'
           /\ Calm("added")' => Fresh(l, n)'
<1>1. /\ upset \subseteq upset'
      /\ Calm("added")' => \A j \in UnderWay : call[j].op # "add" /\ op # "add"
      /\ Calm("removed")' => \A j \in UnderWay : call[j].op # "bin" /\ op # "bin"
    BY AskNotes
<1>2. \A j \in Calls : call[j].st = "ok" => j \in UnderWay
    BY DEF UnderWay
<1>3. (Calm("added")' => ~Done("add")) /\ (Calm("removed")' => ~Done("bin"))
    BY <1>1, <1>2 DEF Done
<1>4. (Calm("added")' => Fresh(l, n)) /\ (Calm("removed")' => Complete(l, n))
    BY <1>1, <1>3, NextGood
<1>5. GoodKept
    BY <1>1, KeptSame
<1>6. l \in Items /\ n \in Int /\ Old(l)
    BY FeedAssumption DEF TypeInv, ListOK, Items, Offsets, NextPlace, ShapeInv
<1>7. (Calm("added")' => Fresh(l, n)') /\ (Calm("removed")' => Complete(l, n)')
    BY <1>4, <1>5, <1>6 DEF GoodKept
<1> QED
    BY <1>7 DEF Good

(* A call that is made keeps lists fresh and complete. *)
LEMMA AsksGood ==
    ASSUME TypeInv, ShapeInv, GoodInv, NEW k \in Calls,
           LoadMore(k) \/ Search(k) \/ AddPost(k) \/ \E i \in DOMAIN posts : Bin(k, i)
    PROVE  GoodInv'
<1>1. /\ UNCHANGED <<view, rows, late>> /\ posts \in Items /\ GoodList
    BY DEF LoadMore, Search, AddPost, Bin, Emptied, dbVars, TypeInv, ListOK, GoodInv
<1>2. ASSUME GoodCalls', GoodAlone', GoodKept, \A o : Done(o) => Done(o)',
             UNCHANGED <<posts, seen, isEnough, isFirst>>
      PROVE  GoodInv'
  <2>1. GoodList'
    BY <1>1, <1>2, ListStays
  <2> QED
    BY <1>2, <2>1 DEF GoodInv
<1>3. PICK l, n : l = posts /\ n = NextPlace
    OBVIOUS
<1>4. CASE LoadMore(k)
  <2>1. Ready /\ n = (IF view = "Profile" THEN Len(posts) ELSE seen.offset + Limit)
    BY <1>3, <1>4 DEF LoadMore, Ready, NextPlace
  <2>2. Ask(k, "more", seen.key, n, l)
    BY <1>3, <1>4, <2>1 DEF LoadMore
  <2>3. Good(l, n)'
    BY <1>1, <1>3, <2>1, <2>2, NextKept
  <2>4. ASSUME NEW c, c = NewCall("more", seen.key, n, l) PROVE GoodCall(c)'
    <3>1. c.op = "more" /\ c.base = l /\ c.list = <<>> /\ c.from = n
      BY <2>4 DEF NewCall
    <3>2. c.base \o c.list = l /\ c.from + Len(c.list) = n
      BY <1>1, <1>3, <3>1, ConcatEmpty, FeedAssumption DEF NextPlace, TypeInv, ListOK, Items, Offsets
    <3>3. Good(c.base \o c.list, c.from + Len(c.list))'
      BY <2>3, <3>2
    <3> QED
      BY <3>1, <3>3 DEF GoodCall
  <2>5. GoodCalls' /\ GoodAlone' /\ GoodKept /\ \A o : Done(o) => Done(o)'
    BY <1>1, <2>2, <2>4, AskGood
  <2> QED
    BY <1>2, <1>4, <2>5 DEF LoadMore
<1>5. CASE Search(k)
  <2>1. Ask(k, "first", key, 0, <<>>) /\ posts' = <<>>
    BY <1>5 DEF Search, Emptied
  <2>2. ASSUME NEW c, c = NewCall("first", key, 0, <<>>) PROVE GoodCall(c)'
    <3>1. c.op = "first" /\ c.base \o c.list = <<>> /\ c.from + Len(c.list) = 0
      BY <2>2, ConcatEmpty DEF NewCall, Items
    <3>2. Good(<<>>, 0)'
      BY GoodEmpty DEF Good, Fresh, Complete, Behind, Whole, Covers, Has, IsInjective
    <3>3. Good(c.base \o c.list, c.from + Len(c.list))'
      BY <3>1, <3>2
    <3> QED
      BY <3>1, <3>3 DEF GoodCall
  <2>3. GoodCalls' /\ GoodAlone'
    BY <1>1, <2>1, <2>2, AskGood
  <2>4. GoodList'
    <3>1. PICK m : m = NextPlace'
      OBVIOUS
    <3>2. Good(<<>>, m)'
      BY DEF Good, Fresh, Complete, Behind, Whole, Covers, Has, IsInjective
    <3> QED
      BY <2>1, <3>1, <3>2, ListNew
  <2> QED
    BY <2>3, <2>4 DEF GoodInv
<1>6. CASE AddPost(k)
  <2>1. Ask(k, "add", Me, 0, <<>>) /\ UNCHANGED listVars
    BY <1>6 DEF AddPost
  <2>2. ASSUME NEW c, c = NewCall("add", Me, 0, <<>>) PROVE GoodCall(c)'
    BY <2>2 DEF NewCall, GoodCall
  <2>3. GoodCalls' /\ GoodAlone' /\ GoodKept /\ \A o : Done(o) => Done(o)'
    BY <1>1, <2>1, <2>2, AskGood
  <2> QED
    BY <1>2, <2>1, <2>3 DEF listVars
<1>7. ASSUME NEW i \in DOMAIN posts, Bin(k, i) PROVE GoodInv'
  <2>1. Ask(k, "bin", posts[i].key, posts[i].id, l) /\ UNCHANGED listVars /\ Ready /\ n = Len(l)
    BY <1>3, <1>7 DEF Bin, Ready, NextPlace
  <2>2. Calm("removed")' => UnderWay = {}
    BY <2>1, AskNotes
  <2>3. Good(l, n)'
    <3>1. UnderWay = {} => Good(l, n)'
      BY <1>1, <1>3, <2>1, NextKept
    <3>2. Calm("added")' => Fresh(l, n)'
      BY <1>1, <1>3, <2>1, NextKept
    <3> QED
      BY <2>2, <3>1, <3>2 DEF Good
  <2>4. ASSUME NEW c, c = NewCall("bin", posts[i].key, posts[i].id, l) PROVE GoodCall(c)'
    <3>1. c.op = "bin" /\ c.base = l /\ c.st = "asked"
      BY <2>4 DEF NewCall
    <3>2. (IF c.st = "ok" THEN Len(c.base) - 1 ELSE Len(c.base)) = n
      BY <2>1, <3>1
    <3>3. Good(c.base, IF c.st = "ok" THEN Len(c.base) - 1 ELSE Len(c.base))'
      BY <2>3, <3>1, <3>2
    <3> QED
      BY <3>1, <3>3 DEF GoodCall
  <2>5. GoodCalls' /\ GoodAlone' /\ GoodKept /\ \A o : Done(o) => Done(o)'
    BY <1>1, <2>1, <2>4, AskGood
  <2> QED
    BY <1>2, <2>1, <2>5 DEF listVars
<1> QED
    BY <1>4, <1>5, <1>6, <1>7

(* Nothing is said once the list is spoilt. *)
LEMMA GoodUpset ==
    ASSUME ~Calm("added")', ~Calm("removed")' PROVE GoodInv'
    BY DEF GoodInv, GoodCalls, GoodAlone, GoodList, GoodCall, Good

(* A step of a call that had not been answered takes no answer away. *)
LEMMA DoneStays ==
    ASSUME TypeInv, NEW k \in Calls, NEW c, call' = [call EXCEPT ![k] = c], call[k].st # "ok"
    PROVE  \A op : Done(op) => Done(op)'
<1>1. \A j \in Calls : j # k => call'[j] = call[j]
    BY DEF TypeInv, CallsOK
<1> QED
    BY <1>1 DEF Done

(* Where rows show nothing of the pages, a list is complete up to nothing. *)
LEMMA WholeComplete ==
    ASSUME DbOK, NEW list \in Items, Whole(list) PROVE Complete(list, 0)
<1>1. \A o \in Keys : \A j \in DOMAIN rows[o] : ~(j <= 0)
    BY DEF DbOK
<1>2. \A p \in DOMAIN list : 0 <= Len(rows[list[p].key])
    BY ItemOf, RowPlaces
<1> QED
    BY <1>1, <1>2 DEF Complete, Covers

(* A deletion that is noted. *)
LEMMA KeptDeleted ==
    ASSUME DbOK, NEW of \in Keys, NEW d \in DOMAIN rows[of], Deleted(of, d), view' = view,
           upset \subseteq upset', ~Calm("removed")'
    PROVE  GoodKept
    BY GoodDeleted DEF GoodKept

(* One that is put in front, where that is noted. *)
LEMMA KeptFront ==
    ASSUME DbOK, NEW of \in Keys, Added(of, TRUE), view' = view, view # "FriendSearch",
           upset \subseteq upset', ~Calm("added")'
    PROVE  GoodKept
<1>1. ASSUME NEW l \in Items, Old(l), Whole(l) PROVE Whole(l)'
  <2>1. PICK n \in Int : n = 0
    OBVIOUS
  <2>2. Complete(l, n)
    BY <1>1, <2>1, WholeComplete
  <2>3. Complete(l, n)'
    BY <1>1, <2>2, CompleteFront
  <2> QED
    BY <2>3 DEF Complete
<1>2. ASSUME NEW l \in Items, Old(l), NEW n \in Int, Complete(l, n) PROVE Complete(l, n)'
    BY <1>2, CompleteFront
<1> QED
    BY <1>1, <1>2 DEF GoodKept

(* And one that comes between others. *)
LEMMA KeptBetween ==
    ASSUME DbOK, NEW of \in Keys, NEW at \in DOMAIN rows[of], Between(of, at), view' = view,
           upset \subseteq upset', ~Calm("added")'
    PROVE  GoodKept
<1>1. ASSUME NEW l \in Items, Old(l), NEW n \in Int, Complete(l, n) PROVE Complete(l, n)'
    BY <1>1, CompleteBetween
<1>2. ASSUME NEW l \in Items, Old(l), Whole(l) PROVE Whole(l)'
  <2>1. PICK n \in Int : n = 0
    OBVIOUS
  <2>2. Complete(l, n)
    BY <1>2, <2>1, WholeComplete
  <2> QED
    BY <1>1, <1>2, <2>2 DEF Complete
<1> QED
    BY <1>1, <1>2 DEF GoodKept

(* A user who joins, noted or not. *)
LEMMA KeptBack ==
    ASSUME DbOK, NEW of \in Keys, Added(of, FALSE), view' = view, view = "FriendSearch",
           upset \subseteq upset'
    PROVE  GoodKept
<1>1. ASSUME NEW l \in Items, Old(l), Whole(l) PROVE Whole(l)'
  <2>1. PICK n \in Int : n = 0
    OBVIOUS
  <2>2. Complete(l, n)
    BY <1>1, <2>1, WholeComplete
  <2>3. Complete(l, n)'
    BY <1>1, <2>2, GoodBack
  <2> QED
    BY <2>3 DEF Complete
<1>2. ASSUME NEW l \in Items, Old(l), NEW n \in Int
      PROVE  (Fresh(l, n) => Fresh(l, n)') /\ (Complete(l, n) => Complete(l, n)')
    BY <1>2, GoodBack
<1> QED
    BY <1>1, <1>2 DEF GoodKept

(* The answer continues the list it is going to be put behind. *)
LEMMA AnswerListGood ==
    ASSUME TypeInv, ShapeInv, KeyInv, GoodInv, NEW k \in Calls, AnswerList(k)
    PROVE  GoodInv'
<1> DEFINE p == Page(call[k].key, call[k].from)
           n == [call[k] EXCEPT !.st = "ok", !.list = p]
<1>1. /\ call[k] \in Asked /\ call[k].st = "asked" /\ call[k].op \in {"more", "first"}
      /\ ShapeCall(call[k]) /\ call' = [call EXCEPT ![k] = n]
      /\ UNCHANGED <<view, rows, late, posts, seen, isEnough, isFirst, upset>>
    BY CallFields DEF TypeInv, AnswerList, ShapeInv, ShapeCalls, dbVars, listVars
<1>2. /\ n.op = call[k].op /\ n.key = call[k].key /\ n.from = call[k].from
      /\ n.base = call[k].base /\ n.list = p /\ n.st = "ok"
    BY <1>1 DEF Asked
<1> HIDE DEF n
<1>3. PICK c, d : c = n /\ d = call[k]
    OBVIOUS
<1>4. /\ c.op = d.op /\ c.base = d.base /\ c.from = d.from /\ c.list = p /\ c.st = "ok"
      /\ d.base \in Items /\ d.from \in Nat /\ d.key \in Keys /\ d.list = <<>>
      /\ Old(d.base) /\ d \in Asked
    BY <1>1, <1>2, <1>3 DEF Asked, ShapeCall
<1>5. GoodKept
    BY <1>1, KeptSame
<1>6. DbOK /\ ShapeRows
    BY DEF TypeInv, ShapeInv
<1>7. p \in Items /\ Len(p) \in Nat /\ Old(p)
  <2>1. /\ p \in Items
        /\ \A i \in DOMAIN p : p[i].key = d.key
        /\ \A i \in DOMAIN p : d.from + i \in DOMAIN rows[d.key] /\ p[i].id = rows[d.key][d.from + i]
    BY <1>3, <1>4, <1>6, PageItems
  <2> HIDE DEF p
  <2> QED
    BY <1>4, <1>6, <2>1 DEF Old, DbOK, Items
<1>8. p = Page(d.key, d.from)
    BY <1>3
<1> HIDE DEF p
<1>9. GoodCall(c)'
  <2>0. PICK l, m : l = d.base \o p /\ m = d.from + Len(p)
    OBVIOUS
  <2>1. Good(d.base, d.from)
    <3>1. GoodCall(d)
      BY <1>1, <1>3, <1>4 DEF GoodInv, GoodCalls
    <3>2. Good(d.base \o d.list, d.from + Len(d.list))
      BY <1>1, <1>3, <3>1 DEF GoodCall
    <3>3. d.base \o d.list = d.base /\ d.from + Len(d.list) = d.from
      BY <1>4, ConcatEmpty
    <3> QED
      BY <3>2, <3>3
  <2>2. Calm("added") \/ Calm("removed") => OneKeyed(d.base, d.key)
    BY <1>1, <1>3 DEF Calm, Untouched, KeyInv, KeyCalls, KeyCall
  <2>3. Good(l, m)
    <3>1. Calm("added") => Fresh(l, m)
      BY <1>4, <1>6, <1>8, <2>0, <2>1, <2>2, FreshMore DEF Good
    <3>2. Calm("removed") => Complete(l, m)
      BY <1>4, <1>6, <1>8, <2>0, <2>1, <2>2, CompleteMore DEF Good
    <3> QED
      BY <3>1, <3>2 DEF Good
  <2>4. l \in Items /\ Old(l) /\ m \in Int
    BY <1>4, <1>7, <2>0, OldConcat
  <2>5. Good(l, m)'
    BY <1>5, <2>3, <2>4, KeptGood
  <2>6. c.base \o c.list = l /\ c.from + Len(c.list) = m
    BY <1>4, <2>0
  <2>7. Good(c.base \o c.list, c.from + Len(c.list))'
    BY <2>5, <2>6
  <2> QED
    BY <1>1, <1>3, <1>4, <2>7 DEF GoodCall
<1>10. call' = [call EXCEPT ![k] = c]
    BY <1>1, <1>3
<1>11. GoodCalls'
    BY <1>5, <1>9, <1>10, GoodOthers DEF GoodInv
<1>12. GoodAlone'
    BY <1>1, <1>3, <1>4, <1>10, AloneStays DEF GoodInv
<1>13. GoodList'
  <2>1. \A op : Done(op) => Done(op)'
    BY <1>1, <1>10, DoneStays
  <2> QED
    BY <1>1, <1>5, <2>1, ListStays DEF GoodInv
<1> QED
    BY <1>11, <1>12, <1>13 DEF GoodInv

(* A call that fails leaves everything as it is. *)
LEMMA FailGood ==
    ASSUME TypeInv, ShapeInv, GoodInv, NEW k \in Calls, Fail(k)
    PROVE  GoodInv'
<1>1. PICK c : c = Idle
    OBVIOUS
<1>2. /\ c.st = "idle" /\ call' = [call EXCEPT ![k] = c] /\ call[k].st = "asked"
      /\ UNCHANGED <<view, rows, late, posts, seen, isEnough, isFirst>> /\ upset \subseteq upset'
    BY <1>1 DEF Fail, Idle, dbVars, listVars
<1>3. GoodKept
    BY <1>2, KeptSame
<1>4. GoodCalls'
    BY <1>2, <1>3, GoodOthers DEF GoodInv
<1>5. GoodAlone'
    BY <1>2, AloneStays DEF GoodInv
<1>6. \A op : Done(op) => Done(op)'
    BY <1>2, DoneStays
<1>7. GoodList'
    BY <1>2, <1>3, <1>6, ListStays DEF GoodInv
<1> QED
    BY <1>4, <1>5, <1>7 DEF GoodInv

(* One's own post is deleted.  Unless that is noted, nothing else is under *)
(* way, and the list lags behind until the answer arrives.                 *)
LEMMA BinPerformed ==
    ASSUME TypeInv, ShapeInv, KeyInv, GoodInv, NEW k \in Calls, Perform(k), call[k].op = "bin"
    PROVE  GoodInv'
<1>1. /\ call[k] \in Asked /\ call[k].st = "asked" /\ ShapeCall(call[k]) /\ call[k].key = Me
      /\ UNCHANGED <<view, posts, seen, isEnough, isFirst>>
      /\ DbOK /\ ShapeRows /\ Me \in Keys /\ posts \in Items
    BY CallFields, FeedAssumption, Zenon DEF TypeInv, Perform, ShapeInv, ShapeCalls, listVars, ListOK
<1>2. PICK i \in DOMAIN rows[Me] : rows[Me][i] = call[k].from /\ Deleted(Me, i)
    BY DEF Perform
<1>3. PICK c, d, b, m : /\ d = call[k] /\ b = d.base /\ m = Len(b)
                        /\ call' = [call EXCEPT ![k] = c]
                        /\ \/ c = [d EXCEPT !.st = "ok"] /\ upset' = upset
                           \/ c = Idle /\ upset' = upset \cup {"removed"}
  <2>1. CASE call' = [call EXCEPT ![k].st = "ok"] /\ upset' = upset
    <3>1. call' = [call EXCEPT ![k] = [call[k] EXCEPT !.st = "ok"]]
      BY <2>1
    <3> QED
      BY <2>1, <3>1
  <2>2. CASE call' = [call EXCEPT ![k] = Idle] /\ upset' = upset \cup {"removed"}
    BY <2>2
  <2> QED
    BY <2>1, <2>2 DEF Perform
<1>4. /\ d \in Asked /\ d.st = "asked" /\ d.op = "bin" /\ ShapeCall(d) /\ d.key = Me
      /\ b \in Items /\ Old(b) /\ m \in Int /\ Has(b, Row(Me, i))
    BY <1>1, <1>2, <1>3 DEF Asked, ShapeCall, Row, Items
<1>5. upset \subseteq upset' /\ (c.st = "idle" \/ (c.st = "ok" /\ c.op = "bin" /\ c.base = b))
    BY <1>3, <1>4 DEF Asked, Idle
<1>6. Calm("removed")' => c.st = "ok"
    BY <1>3, <1>4 DEF Calm, Untouched, Asked
<1>7. Calm("removed")' => \A j \in Calls : j # k => call[j].st = "idle"
    BY <1>1, <1>5, CalmBefore DEF GoodInv, GoodAlone, Alone
<1>8. ~Calm("removed")' => GoodKept
    BY <1>1, <1>2, <1>5, KeptDeleted
<1>9. c.st = "ok" => GoodCall(c)'
  <2>1. Good(b, m)
    <3>1. GoodCall(d)
      BY <1>3, <1>4 DEF GoodInv, GoodCalls
    <3> QED
      BY <1>3, <1>4, <3>1 DEF GoodCall
  <2>2. Calm("added") => OneKeyed(b, Me)
    BY <1>1, <1>3, <1>4 DEF Calm, Untouched, KeyInv, KeyCalls, KeyCall
  <2>3. ASSUME Calm("added")' PROVE Fresh(b, m - 1)'
    <3>1. Fresh(b, m) /\ OneKeyed(b, Me)
      BY <1>5, <2>1, <2>2, <2>3, CalmBefore DEF Good
    <3> QED
      BY <1>1, <1>2, <1>4, <3>1, FreshBin
  <2>4. ASSUME Calm("removed")' PROVE Complete(b, m - 1)'
    <3>1. Whole(b) /\ Covers(b, m)
      BY <1>5, <2>1, <2>4, CalmBefore DEF Good, Complete
    <3>2. Whole(b)' /\ Covers(b, m - 1)'
      BY <1>1, <1>2, <1>4, <3>1, GoodDeleted DEF ShapeCall
    <3> QED
      BY <3>2 DEF Complete
  <2>5. Good(b, m - 1)'
    BY <2>3, <2>4 DEF Good
  <2>6. ASSUME c.st = "ok" PROVE GoodCall(c)'
    <3>1. (IF c.st = "ok" THEN Len(c.base) - 1 ELSE Len(c.base)) = m - 1 /\ c.base = b /\ c.op = "bin"
      BY <1>3, <1>5, <2>6 DEF Idle
    <3>2. Good(c.base, IF c.st = "ok" THEN Len(c.base) - 1 ELSE Len(c.base))'
      BY <2>5, <3>1
    <3> QED
      BY <3>1, <3>2 DEF GoodCall
  <2> QED
    BY <2>6
<1>10. GoodCalls'
    BY <1>3, <1>5, <1>7, <1>8, <1>9, GoodOthers DEF GoodInv
<1>11. GoodAlone'
    BY <1>3, <1>4, <1>5, AloneStays DEF GoodInv
<1>12. GoodList'
  <2>0. PICK l, n : l = posts /\ n = NextPlace
    OBVIOUS
  <2>1. l = posts /\ n = NextPlace /\ posts' = l /\ (Ready' => Ready /\ NextPlace' = n)
    BY <1>1, <2>0 DEF NextPlace, Ready
  <2>2. l \in Items /\ n \in Int /\ Old(l) /\ GoodList
    BY <2>1, FeedAssumption DEF TypeInv, ListOK, Items, Offsets, NextPlace, ShapeInv, GoodInv
  <2>3. Done("add") => Done("add")'
    BY <1>1, <1>3, DoneStays
  <2>4. Done("bin") => Done("bin")'
    BY <1>1, <1>3, DoneStays
  <2>5. Calm("removed")' => Done("bin")'
    <3>1. call'[k] = c
      BY <1>3 DEF TypeInv, CallsOK
    <3> QED
      BY <1>5, <1>6, <3>1 DEF Done, Idle
  <2>6. (Fresh(l, n) => Fresh(l, n)') /\ (Whole(l) => Whole(l)')
    BY <1>1, <1>2, <2>2, GoodDeleted
  <2> QED
    BY <1>1, <1>5, <2>1, <2>2, <2>3, <2>4, <2>5, <2>6, ListLags
<1> QED
    BY <1>10, <1>11, <1>12 DEF GoodInv

(* One's own new post is added, in front of all others. *)
LEMMA AddPerformed ==
    ASSUME TypeInv, ShapeInv, GoodInv, NEW k \in Calls, Perform(k), call[k].op = "add"
    PROVE  GoodInv'
<1>1. /\ call[k] \in Asked /\ call[k].st = "asked" /\ ShapeCall(call[k]) /\ Added(Me, TRUE)
      /\ UNCHANGED <<view, posts, seen, isEnough, isFirst>>
      /\ DbOK /\ ShapeRows /\ Me \in Keys /\ posts \in Items
    BY CallFields, FeedAssumption DEF TypeInv, Perform, ShapeInv, ShapeCalls, listVars, ListOK
<1>2. PICK c, d : /\ d = call[k] /\ call' = [call EXCEPT ![k] = c]
                  /\ \/ c = [d EXCEPT !.st = "ok"] /\ upset' = upset
                     \/ c = Idle /\ upset' = upset \cup {"added"}
  <2>1. CASE call' = [call EXCEPT ![k].st = "ok"] /\ upset' = upset
    <3>1. call' = [call EXCEPT ![k] = [call[k] EXCEPT !.st = "ok"]]
      BY <2>1
    <3> QED
      BY <2>1, <3>1
  <2>2. CASE call' = [call EXCEPT ![k] = Idle] /\ upset' = upset \cup {"added"}
    BY <2>2
  <2> QED
    BY <2>1, <2>2 DEF Perform
<1>3. d \in Asked /\ d.op = "add" /\ view # "FriendSearch"
    BY <1>1, <1>2 DEF ShapeCall
<1>4. upset \subseteq upset' /\ (c.st = "idle" \/ (c.st = "ok" /\ c.op = "add"))
    BY <1>2, <1>3 DEF Asked, Idle
<1>5. Calm("added")' => c.st = "ok"
    BY <1>2, <1>3 DEF Calm, Untouched, Asked
<1>6. Calm("added")' => \A j \in Calls : j # k => call[j].st = "idle"
    BY <1>1, <1>4, CalmBefore DEF GoodInv, GoodAlone, Alone
<1>7. ~Calm("added")' => GoodKept
    BY <1>1, <1>3, <1>4, KeptFront
<1>8. c.st = "idle" \/ GoodCall(c)'
    BY <1>4 DEF GoodCall
<1>9. GoodCalls'
    BY <1>2, <1>6, <1>7, <1>8, GoodOthers DEF GoodInv
<1>10. GoodAlone'
    BY <1>1, <1>2, <1>4, AloneStays DEF GoodInv
<1>11. GoodList'
  <2>0. PICK l, n : l = posts /\ n = NextPlace
    OBVIOUS
  <2>1. l = posts /\ n = NextPlace /\ posts' = l /\ (Ready' => Ready /\ NextPlace' = n)
    BY <1>1, <2>0 DEF NextPlace, Ready
  <2>2. l \in Items /\ n \in Int /\ Old(l) /\ GoodList
    BY <2>1, FeedAssumption DEF TypeInv, ListOK, Items, Offsets, NextPlace, ShapeInv, GoodInv
  <2>3. (Done("add") => Done("add")') /\ (Done("bin") => Done("bin")')
    BY <1>1, <1>2, DoneStays
  <2>4. Calm("added")' => Done("add")'
    <3>1. call'[k] = c
      BY <1>2 DEF TypeInv, CallsOK
    <3> QED
      BY <1>4, <1>5, <3>1 DEF Done, Idle
  <2>5. Whole(l) => Whole(l)'
    <3>1. PICK z \in Int : z = 0
      OBVIOUS
    <3>2. Whole(l) => Complete(l, z)
      BY <1>1, <2>2, <3>1, WholeComplete
    <3>3. Complete(l, z) => Complete(l, z)'
      BY <1>1, <1>3, <2>2, CompleteFront
    <3> QED
      BY <3>2, <3>3 DEF Complete
  <2>6. Complete(l, n) => Complete(l, n)'
    BY <1>1, <1>3, <2>2, CompleteFront
  <2> QED
    BY <1>1, <1>4, <2>1, <2>2, <2>3, <2>4, <2>5, <2>6, ListLags
<1> QED
    BY <1>9, <1>10, <1>11 DEF GoodInv

(* Nothing becomes of a list where its items and the rows stay. *)
LEMMA ArrivalKeeps ==
    ASSUME NEW k \in Calls, Arrives(k)
    PROVE  /\ UNCHANGED <<view, rows>> /\ GoodKept
           /\ ~AddUnlisted(k) => UNCHANGED upset
<1>1. UNCHANGED <<view, rows, late>> /\ upset \subseteq upset' /\ (~AddUnlisted(k) => UNCHANGED upset)
    BY DEF Arrives, MoreArrives, FirstArrives, BinArrives, AddArrives, AddUnlisted, Emptied, dbVars
<1> QED
    BY <1>1, KeptSame

(* A page that arrives, and the place of the next. *)
LEMMA PageArrives ==
    ASSUME TypeInv, ShapeInv, GoodInv, NEW k \in Calls, MoreArrives(k) \/ FirstArrives(k),
           call[k].list # <<>>
    PROVE  GoodList'
<1>1. /\ call[k] \in Asked /\ call[k].op \in {"more", "first"} /\ ShapeCall(call[k])
      /\ UNCHANGED <<view, rows>> /\ GoodKept /\ Limit \in Nat
    BY CallFields, ArrivalKeeps, FeedAssumption
    DEF TypeInv, MoreArrives, FirstArrives, ShapeInv, ShapeCalls, Arrives
<1>2. PICK d, l, n : d = call[k] /\ l = d.base \o d.list /\ n = d.from + Len(d.list)
    OBVIOUS
<1>3. /\ d \in Asked /\ d.base \in Items /\ d.list \in Items /\ d.from \in Nat
      /\ Old(d.base) /\ Old(d.list) /\ Len(d.list) \in Nat /\ Len(d.list) <= Limit
    BY <1>1, <1>2 DEF Asked, Items, ShapeCall
<1>4. l \in Items /\ Old(l) /\ n \in Int /\ Len(l) = Len(d.base) + Len(d.list)
  <2>1. l \in Items /\ Old(l)
    BY <1>2, <1>3, OldConcat
  <2>2. Len(l) = Len(d.base) + Len(d.list)
    BY <1>2, <1>3, ConcatItems
  <2>3. n \in Int
    BY <1>2, <1>3
  <2> QED
    BY <2>1, <2>2, <2>3
<1>5. Good(l, n)'
  <2>1. GoodCall(d)
    BY <1>2, <1>3 DEF GoodInv, GoodCalls
  <2>2. Good(l, n)
    BY <1>1, <1>2, <2>1 DEF GoodCall
  <2> QED
    BY <1>1, <1>4, <2>2, KeptGood
<1>6. d.op = "first" => d.base = <<>> /\ d.from = 0
    BY <1>1, <1>2 DEF ShapeCall
<1>7. posts' = l
  <2>1. CASE MoreArrives(k)
    BY <1>2, <2>1 DEF MoreArrives
  <2>2. CASE FirstArrives(k)
    <3>1. posts' = d.list /\ d.op = "first"
      BY <1>2, <2>2 DEF FirstArrives
    <3> QED
      BY <1>2, <1>3, <1>6, <3>1, ConcatEmpty
  <2> QED
    BY <2>1, <2>2
<1>8. seen'.offset = d.from /\ (~isEnough' => ~Short(d.list))
  <2>1. CASE MoreArrives(k)
    BY <1>2, <2>1 DEF MoreArrives, Renewed
  <2>2. CASE FirstArrives(k)
    <3>1. offset' = 0 /\ seen' = [key |-> key', offset |-> offset'] /\ d.op = "first"
      BY <1>2, <2>2 DEF FirstArrives, Renewed
    <3>2. isEnough' = (isEnough \/ Short(d.list))
      BY <1>2, <2>2, Zenon DEF FirstArrives
    <3>3. ~isEnough' => ~Short(d.list)
      BY <3>2, Zenon
    <3> QED
      BY <1>6, <3>1, <3>3
  <2> QED
    BY <2>1, <2>2
<1>9. Ready' => NextPlace' = n
  <2>1. CASE view = "Profile"
    <3>1. d.from = Len(d.base)
      BY <1>1, <1>2, <1>6, <2>1 DEF ShapeCall
    <3>2. NextPlace' = Len(posts')
      BY <1>1, <2>1 DEF NextPlace
    <3> QED
      BY <1>2, <1>4, <1>7, <3>1, <3>2
  <2>2. CASE view # "Profile"
    <3>1. Ready' => Len(d.list) = Limit
      BY <1>1, <1>3, <1>8, <2>2 DEF Ready, Short
    <3>2. NextPlace' = seen'.offset + Limit
      BY <1>1, <2>2 DEF NextPlace
    <3> QED
      BY <1>2, <1>8, <3>1, <3>2
  <2> QED
    BY <2>1, <2>2
<1> QED
    BY <1>5, <1>7, <1>9, ListNew

(* The deleted post leaves the list. *)
LEMMA BinLeaves ==
    ASSUME TypeInv, ShapeInv, GoodInv, NEW k \in Calls, BinArrives(k) PROVE GoodList'
<1>1. /\ call[k] \in Asked /\ call[k].op = "bin" /\ call[k].st = "ok" /\ ShapeCall(call[k])
      /\ UNCHANGED <<view, rows>> /\ GoodKept /\ DbOK /\ view = "Profile"
    BY CallFields, ArrivalKeeps DEF TypeInv, BinArrives, ShapeInv, ShapeCalls, ShapeCall, Arrives
<1>2. PICK d, b, e, t : /\ d = call[k] /\ b = d.base /\ e = [key |-> d.key, id |-> d.from]
                        /\ t = posts' /\ t \in Without(b, e)
    BY DEF BinArrives
<1>3. /\ d \in Asked /\ b \in Items /\ Old(b) /\ Has(b, e) /\ d.key = Me
      /\ \A i \in DOMAIN rows[Me] : rows[Me][i] # d.from
    BY <1>1, <1>2 DEF Asked, ShapeCall
<1>4. \A o \in Keys : \A i \in DOMAIN rows[o] : Row(o, i) # e
    BY <1>2, <1>3 DEF Row
<1>5. Good(b, Len(b) - 1)
  <2>1. GoodCall(d)
    BY <1>2, <1>3 DEF GoodInv, GoodCalls
  <2> QED
    BY <1>1, <1>2, <2>1 DEF GoodCall
<1>6. Good(t, Len(t))
    BY <1>1, <1>2, <1>3, <1>4, <1>5, GoodWithout
<1>7. t \in Items /\ Old(t)
  <2>1. t \in Items /\ \A i \in DOMAIN t : \E j \in DOMAIN b : t[i] = b[j]
    BY <1>2, <1>3, WithoutItems
  <2> QED
    BY <1>3, <2>1 DEF Old
<1>8. PICK n : n = Len(t)
    OBVIOUS
<1>9. Good(t, n)'
  <2>1. n \in Int
    BY <1>7, <1>8 DEF Items
  <2> QED
    BY <1>1, <1>6, <1>7, <1>8, <2>1, KeptGood
<1>10. NextPlace' = n
    BY <1>1, <1>2, <1>8 DEF NextPlace
<1> QED
    BY <1>2, <1>9, <1>10, ListNew

(* Every arrival keeps lists fresh and complete. *)
LEMMA ArrivesGood ==
    ASSUME TypeInv, ShapeInv, GoodInv, NEW k \in Calls, Arrives(k)
    PROVE  GoodInv'
<1>0. UNCHANGED <<view, rows>> /\ GoodKept /\ upset \subseteq upset'
    BY ArrivalKeeps DEF GoodKept
<1>1. /\ call[k] \in Asked /\ call[k].st = "ok" /\ ShapeCall(call[k]) /\ Idle.st = "idle"
      /\ UNCHANGED <<view, rows>> /\ GoodKept /\ posts \in Items /\ upset \subseteq upset'
    BY <1>0, CallFields
    DEF TypeInv, ListOK, Arrives, MoreArrives, FirstArrives, BinArrives, AddArrives, AddUnlisted, ShapeInv, ShapeCalls,
        Idle
<1>2. \A m : Good(<<>>, m)'
    BY DEF Good, Fresh, Complete, Behind, Whole, Covers, Has, IsInjective
<1>3. PICK d : d = call[k]
    OBVIOUS
<1>4. CASE AddArrives(k)
  <2>1. PICK c : /\ call' = [call EXCEPT ![k] = c]
                 /\ c = [d EXCEPT !.st = "asked", !.op = "first", !.key = key]
    BY <1>3, <1>4 DEF AddArrives
  <2>2. c.op = "first" /\ c.base = <<>> /\ c.list = <<>>
    BY <1>1, <1>3, <1>4, <2>1 DEF Asked, ShapeCall, AddArrives
  <2>3. GoodCall(c)'
    <3>1. c.base \o c.list = <<>>
      BY <2>2, ConcatEmpty DEF Items
    <3>2. Good(c.base \o c.list, c.from + Len(c.list))'
      BY <1>2, <3>1
    <3> QED
      BY <2>2, <3>2 DEF GoodCall
  <2>4. GoodCalls'
    BY <1>1, <2>1, <2>3, GoodOthers DEF GoodInv
  <2>5. GoodAlone'
    BY <1>1, <2>1, <2>2, AloneStays DEF GoodInv
  <2>6. GoodList'
    <3>1. PICK m : m = NextPlace'
      OBVIOUS
    <3>2. posts' = <<>> /\ Good(<<>>, m)'
      BY <1>2, <1>4 DEF AddArrives, Emptied
    <3> QED
      BY <3>1, <3>2, ListNew
  <2> QED
    BY <2>4, <2>5, <2>6 DEF GoodInv
<1>5. ASSUME call' = [call EXCEPT ![k] = Idle], GoodList' PROVE GoodInv'
  <2>1. PICK c : c = Idle
    OBVIOUS
  <2>2. c.st = "idle" /\ call' = [call EXCEPT ![k] = c]
    BY <1>1, <1>5, <2>1
  <2>3. GoodCalls'
    BY <1>1, <2>2, GoodOthers DEF GoodInv
  <2>4. GoodAlone'
    BY <1>1, <2>2, AloneStays DEF GoodInv
  <2> QED
    BY <1>5, <2>3, <2>4 DEF GoodInv
<1>6. CASE BinArrives(k)
    BY <1>5, <1>6, BinLeaves DEF BinArrives
<1>7. CASE (MoreArrives(k) \/ FirstArrives(k)) /\ call[k].list # <<>>
    BY <1>5, <1>7, PageArrives DEF MoreArrives, FirstArrives
<1>8. CASE (MoreArrives(k) \/ FirstArrives(k)) /\ call[k].list = <<>>
  <2>1. PICK l, n : l = posts /\ n = NextPlace
    OBVIOUS
  <2>2. posts' = l /\ call' = [call EXCEPT ![k] = Idle] /\ call[k].op \in {"more", "first"}
    BY <1>8, <2>1 DEF MoreArrives, FirstArrives, listVars
  <2>3. Ready' => Ready /\ NextPlace' = n
    <3>1. CASE view = "Profile"
      BY <1>1, <2>1, <2>2, <3>1 DEF Ready, NextPlace
    <3>2. CASE view # "Profile" /\ MoreArrives(k)
      <4>1. Len(call[k].list) = 0 /\ Limit \in Nat \ {0}
        BY <1>8, FeedAssumption
      <4>2. Short(call[k].list)
        BY <4>1 DEF Short
      <4>3. isEnough'
        BY <3>2, <4>2, Zenon DEF MoreArrives
      <4> QED
        BY <1>1, <3>2, <4>3 DEF Ready
    <3>3. CASE FirstArrives(k)
      <4>1. UNCHANGED <<posts, seen, isEnough, isFirst>>
        BY <1>8, <3>3 DEF FirstArrives, listVars
      <4> QED
        BY <1>1, <2>1, <4>1 DEF Ready, NextPlace
    <3> QED
      BY <1>8, <3>1, <3>2, <3>3
  <2>4. \A j \in Calls : j # k => call'[j] = call[j]
    BY <2>2 DEF TypeInv, CallsOK
  <2>5. (Done("add") => Done("add")') /\ (Done("bin") => Done("bin")')
    BY <2>2, <2>4 DEF Done
  <2>6. l \in Items /\ n \in Int /\ Old(l) /\ GoodList
    BY <2>1, FeedAssumption DEF TypeInv, ListOK, Items, Offsets, NextPlace, ShapeInv, GoodInv
  <2>7. /\ Calm("added")' /\ Fresh(l, n) => Fresh(l, n)'
        /\ Calm("removed")' /\ Whole(l) => Whole(l)'
        /\ Calm("removed")' /\ Complete(l, n) => Complete(l, n)'
    BY <1>1, <2>6 DEF GoodKept
  <2>8. GoodList'
    BY <1>1, <2>1, <2>2, <2>3, <2>5, <2>6, <2>7, ListLags
  <2> QED
    BY <1>5, <2>2, <2>8
<1>9. CASE AddUnlisted(k)
  <2>1. /\ UNCHANGED <<posts, seen, isEnough, isFirst>> /\ call' = [call EXCEPT ![k] = Idle]
        /\ ~Calm("added")' /\ call[k].op = "add"
    BY <1>9 DEF AddUnlisted, listVars, Calm, Untouched
  <2>2. \A j \in Calls : j # k => call'[j] = call[j]
    BY <2>1 DEF TypeInv, CallsOK
  <2>3. Done("bin") => Done("bin")'
    BY <2>1, <2>2 DEF Done
  <2>4. GoodList'
    BY <1>1, <2>1, <2>3, ListStays DEF GoodInv
  <2> QED
    BY <1>5, <2>1, <2>4
<1> QED
    BY <1>4, <1>6, <1>7, <1>8, <1>9 DEF Arrives

(* Only the rows change, or nothing that matters. *)
LEMMA StillGood ==
    ASSUME TypeInv, ShapeInv, GoodInv, GoodKept, UNCHANGED <<call, posts, seen, isEnough, isFirst>>
    PROVE  GoodInv'
<1>1. GoodCalls'
  <2> SUFFICES ASSUME NEW j \in Calls, NEW d \in Asked, call'[j] = d PROVE GoodCall(d)'
    BY DEF GoodCalls
  <2>1. d.st # "idle" /\ call[j] = d
    BY DEF Asked
  <2>2. ShapeCall(d) /\ GoodCall(d)
    BY <2>1 DEF ShapeInv, ShapeCalls, GoodInv, GoodCalls
  <2> QED
    BY <2>2, KeptCall
<1>2. upset \subseteq upset' /\ \A op : Alone(op) => Alone(op)'
    BY DEF Alone, GoodKept
<1>3. GoodAlone'
    BY <1>2, CalmBefore DEF GoodAlone, GoodInv
<1>4. GoodList'
  <2>1. \A op : Done(op) => Done(op)'
    BY DEF Done
  <2> QED
    BY <2>1, ListStays DEF GoodInv
<1> QED
    BY <1>1, <1>3, <1>4 DEF GoodInv

(* What others do is noted, but for a user who joins at the end. *)
LEMMA ElsewhereGood ==
    ASSUME TypeInv, ShapeInv, GoodInv, Elsewhere PROVE GoodInv'
<1>1. UNCHANGED <<view, call, posts, seen, isEnough, isFirst>> /\ upset \subseteq upset' /\ DbOK
  <2>1. UNCHANGED <<view, call, posts, seen, isEnough, isFirst>>
    BY DEF Elsewhere, listVars
  <2>2. upset \subseteq upset'
    BY Remembers DEF Next
  <2> QED
    BY <2>1, <2>2 DEF TypeInv
<1>2. PICK of \in Keys :
          \/ Added(of, view # "FriendSearch")
             /\ upset' = upset \cup {IF view = "FriendSearch" THEN "joined" ELSE "added"}
          \/ \E at \in DOMAIN rows[of] : Between(of, at) /\ upset' = upset \cup {"added"}
          \/ \E i \in DOMAIN rows[of] : Deleted(of, i) /\ upset' = upset \cup {"removed"}
          \/ upset' = upset \cup {"moved"}
    BY Zenon DEF Elsewhere
<1>3. CASE /\ Added(of, view # "FriendSearch")
           /\ upset' = upset \cup {IF view = "FriendSearch" THEN "joined" ELSE "added"}
  <2>1. CASE view = "FriendSearch"
    <3>1. Added(of, FALSE)
      BY <1>3, <2>1 DEF Added
    <3>2. GoodKept
      BY <1>1, <2>1, <3>1, KeptBack
    <3> QED
      BY <1>1, <3>2, StillGood
  <2>2. CASE view # "FriendSearch"
    <3>1. Added(of, TRUE)
      BY <1>3, <2>2 DEF Added
    <3>2. ~Calm("added")'
      BY <1>3, <2>2 DEF Calm, Untouched
    <3>3. GoodKept
      BY <1>1, <2>2, <3>1, <3>2, KeptFront
    <3> QED
      BY <1>1, <3>3, StillGood
  <2> QED
    BY <2>1, <2>2
<1>4. ASSUME NEW i \in DOMAIN rows[of], Deleted(of, i), upset' = upset \cup {"removed"}
      PROVE  GoodInv'
  <2>1. ~Calm("removed")'
    BY <1>4 DEF Calm, Untouched
  <2>2. GoodKept
    BY <1>1, <1>4, <2>1, KeptDeleted
  <2> QED
    BY <1>1, <2>2, StillGood
<1>5. CASE upset' = upset \cup {"moved"}
  <2>1. ~Calm("added")' /\ ~Calm("removed")'
    BY <1>5 DEF Calm, Untouched
  <2> QED
    BY <2>1, GoodUpset
<1>6. ASSUME NEW at \in DOMAIN rows[of], Between(of, at), upset' = upset \cup {"added"}
      PROVE  GoodInv'
  <2>1. ~Calm("added")'
    BY <1>6 DEF Calm, Untouched
  <2>2. GoodKept
    BY <1>1, <1>6, <2>1, KeptBetween
  <2> QED
    BY <1>1, <2>2, StillGood
<1> QED
    BY <1>2, <1>3, <1>4, <1>5, <1>6

(* Every step keeps what is shown fresh and complete. *)
LEMMA GoodNext == TypeInv /\ ShapeInv /\ KeyInv /\ GoodInv /\ [Next]_vars => GoodInv'
<1> SUFFICES ASSUME TypeInv, ShapeInv, KeyInv, GoodInv, [Next]_vars PROVE GoodInv'
    OBVIOUS
<1>1. ASSUME NEW k \in Calls, LoadMore(k) \/ Search(k) \/ AddPost(k) \/ \E i \in DOMAIN posts : Bin(k, i)
      PROVE  GoodInv'
    BY <1>1, AsksGood
<1>2. ASSUME NEW k \in Calls, AnswerList(k) \/ Fail(k) PROVE GoodInv'
    BY <1>2, AnswerListGood, FailGood
<1>3. ASSUME NEW k \in Calls, Perform(k) PROVE GoodInv'
  <2>1. call[k].op = "bin" \/ call[k].op = "add"
    BY <1>3 DEF Perform
  <2> QED
    BY <1>3, <2>1, BinPerformed, AddPerformed
<1>4. ASSUME NEW k \in Calls, Arrives(k) PROVE GoodInv'
    BY <1>4, ArrivesGood
<1>5. ASSUME (\E to \in Keys : Turn(to)) \/ OpenForm \/ Back \/ UNCHANGED vars PROVE GoodInv'
  <2>1. /\ UNCHANGED <<view, rows, late, call, posts, seen, isEnough, isFirst>>
        /\ upset \subseteq upset'
    BY <1>5, FormStill DEF Turn, Still, dbVars, listVars
  <2> QED
    BY <2>1, KeptSame, StillGood
<1>6. CASE Elsewhere
    BY <1>6, ElsewhereGood
<1> QED
    BY <1>1, <1>2, <1>3, <1>4, <1>5, <1>6 DEF Next

(* Nothing is shown and nothing is under way at first. *)
LEMMA GoodStart == Init => GoodInv
<1> SUFFICES ASSUME Init PROVE GoodInv
    OBVIOUS
<1>1. posts = <<>> /\ \A k \in Calls : call[k].st = "idle"
    BY DEF Init, Idle
<1>2. GoodCalls /\ GoodAlone
    BY <1>1 DEF GoodCalls, GoodAlone, Alone, Asked
<1>3. GoodList
    BY <1>1 DEF GoodList, Behind, Whole, Covers, Has, IsInjective
<1> QED
    BY <1>2, <1>3 DEF GoodInv

(* Lists are fresh and complete in every reachable state. *)
LEMMA GoodAlways == Spec => []GoodInv
<1>1. Init => TypeInv /\ ShapeInv /\ KeyInv /\ GoodInv
    BY TypeInit, ShapeStart, KeyStart, GoodStart
<1>2. TypeInv /\ ShapeInv /\ KeyInv /\ GoodInv /\ [Next]_vars
      => TypeInv' /\ ShapeInv' /\ KeyInv' /\ GoodInv'
    BY TypeNext, ShapeNext, KeyNext, GoodNext
<1> QED
    BY <1>1, <1>2, PTL DEF Spec

(* No row is shown twice, whatever is under way, arrives late or is        *)
(* deleted, while nothing is put in front of the rows that are listed.     *)
THEOREM NoRepeatAlways == Spec => []NoRepeat
<1>1. GoodInv => NoRepeat
    BY DEF GoodInv, GoodList, NoRepeat, Calm
<1> QED
    BY <1>1, GoodAlways, PTL

(* No row between two that are shown is skipped, but for rows that others  *)
(* put between them later, however many are added anywhere meanwhile, while*)
(* no row that was there goes behind the back of the pages.                *)
THEOREM NoGapAlways == Spec => []NoGap
<1>1. TypeInv /\ GoodInv => NoGap
  <2> SUFFICES ASSUME TypeInv, GoodInv, Untouched({"removed", "moved", "visited"}),
                      NEW p \in DOMAIN posts, NEW q \in DOMAIN posts,
                      p < q, posts[p].key = posts[q].key,
                      NEW i \in Places(posts[p]), NEW l \in Places(posts[q]), NEW j \in i..l
               PROVE  \/ rows[posts[p].key][j] \in Shown(posts[p].key)
                      \/ [key |-> posts[p].key, id |-> rows[posts[p].key][j]] \in late
    BY DEF NoGap
  <2>1. PICK o \in Keys : o = posts[p].key
    BY ItemOf DEF TypeInv, ListOK
  <2>2. /\ posts \in Items /\ p \in Nat /\ q \in Nat
        /\ i \in DOMAIN rows[o] /\ posts[p] = Row(o, i)
        /\ l \in DOMAIN rows[o] /\ posts[q] = Row(o, l)
    <3>1. posts \in Items
      BY DEF TypeInv, ListOK
    <3>2. /\ p \in Nat /\ q \in Nat
          /\ posts[p] = [key |-> posts[p].key, id |-> posts[p].id]
          /\ posts[q] = [key |-> posts[q].key, id |-> posts[q].id]
      BY <3>1, ItemOf
    <3> QED
      BY <2>1, <3>1, <3>2 DEF Places, Row
  <2>3. Whole(posts)
    BY DEF GoodInv, GoodList, Calm
  <2>4. Told(posts, Row(o, j))
    BY <2>2, <2>3 DEF Whole
  <2>5. ASSUME NEW m \in DOMAIN posts, posts[m] = Row(o, j) PROVE rows[o][j] \in Shown(o)
    BY <2>5 DEF Shown, Row
  <2> QED
    BY <2>1, <2>4, <2>5 DEF Told, Has, Row
<1> QED
    BY <1>1, TypeInvariant, GoodAlways, PTL

----------------------------------------------------------------------------
(* One thing at a time, and nobody interferes: what is shown stands where  *)
(* it stands in the database, a page is asked for where the list ends, and *)
(* isEnough is said where the rows end.  Between a deletion (or addition)  *)
(* of one's own and its arrival this holds of the list to come.            *)
Disturbances   == {"added", "removed", "moved", "overlap", "visited"}
InPlace(list)  ==
    \A i \in DOMAIN list : i \in DOMAIN rows[list[i].key] /\ list[i].id = rows[list[i].key][i]
Ended(list, n) == "joined" \notin upset => n = Len(list)

FaithCall(c) ==
    /\ c.op \in {"more", "first"} =>
          /\ ~isEnough /\ InPlace(c.base \o c.list) /\ Len(c.base) = c.from
          /\ c.st = "ok" /\ Short(c.list) => Ended(rows[c.key], c.from + Len(c.list))
    /\ c.op = "bin" /\ c.st = "ok" =>
          \A t \in Without(c.base, [key |-> c.key, id |-> c.from]) :
             InPlace(t) /\ (isEnough => Ended(rows[Me], Len(t)))

FaithCalls == \A k \in Calls, c \in Asked : call[k] = c => FaithCall(c)

FaithList ==
    /\ ~Done("bin") /\ ~Done("add") =>
          InPlace(posts) /\ (isEnough /\ posts # <<>> => Ended(rows[posts[1].key], Len(posts)))
    /\ view # "Profile" /\ ~isEnough /\ ~isFirst => seen.offset + Limit = Len(posts)

FaithInv == Untouched(Disturbances) => FaithList /\ FaithCalls

(* Nobody interfered before either. *)
LEMMA FaithBefore ==
    ASSUME KeyInv, SoleInv, FaithInv, upset \subseteq upset', Untouched(Disturbances)'
    PROVE  Untouched(Disturbances) /\ KeyList /\ KeyCalls /\ Sole /\ FaithList /\ FaithCalls
    BY DEF Untouched, Disturbances, KeyInv, SoleInv, FaithInv

(* The one call under way. *)
LEMMA FaithOne ==
    ASSUME TypeInv, NEW k \in Calls, NEW c, call' = [call EXCEPT ![k] = c],
           \A j \in Calls : j # k => call[j].st = "idle",
           c \in Asked => FaithCall(c)'
    PROVE  FaithCalls'
<1> SUFFICES ASSUME NEW j \in Calls, NEW d \in Asked, call'[j] = d PROVE FaithCall(d)'
    BY DEF FaithCalls
<1>1. d.st # "idle"
    BY DEF Asked
<1>2. CASE j = k
  <2>1. c = d
    BY <1>2 DEF TypeInv, CallsOK
  <2> QED
    BY <2>1
<1>3. CASE j # k
    BY <1>1, <1>3 DEF TypeInv, CallsOK
<1> QED
    BY <1>2, <1>3

(* The list stays, and what is done has not arrived. *)
LEMMA FaithListSame ==
    ASSUME FaithList, UNCHANGED <<view, rows, posts, seen, isEnough, isFirst>>, upset \subseteq upset',
           ~Done("bin")' /\ ~Done("add")' => ~Done("bin") /\ ~Done("add")
    PROVE  FaithList'
    BY DEF FaithList, InPlace, Ended

(* Another list is shown. *)
LEMMA FaithListNew ==
    ASSUME NEW l, posts' = l, InPlace(l)',
           isEnough' /\ l # <<>> => Ended(rows[l[1].key], Len(l))',
           view' # "Profile" /\ ~isEnough' /\ ~isFirst' => seen'.offset + Limit = Len(l)
    PROVE  FaithList'
    BY DEF FaithList, InPlace, Ended

(* A list that stands in its place is not longer than the rows. *)
LEMMA InPlaceLen ==
    ASSUME DbOK, NEW of \in Keys, NEW list \in Items, OneKeyed(list, of), InPlace(list)
    PROVE  Len(list) \in Nat /\ Len(list) <= Len(rows[of])
<1>1. Len(list) \in Nat /\ DOMAIN list = 1..Len(list)
    BY DEF Items
<1>2. Len(rows[of]) \in Nat /\ DOMAIN rows[of] = 1..Len(rows[of])
    BY RowPlaces
<1>3. Len(list) # 0 => Len(list) \in DOMAIN rows[of]
    BY <1>1 DEF OneKeyed, InPlace
<1> QED
    BY <1>1, <1>2, <1>3

(* A short page ends where the rows end. *)
LEMMA PageEnds ==
    ASSUME DbOK, NEW of \in Keys, NEW from \in Nat, from <= Len(rows[of]), Short(Page(of, from))
    PROVE  Len(rows[of]) = from + Len(Page(of, from))
<1> DEFINE last == IF from + Limit > Len(rows[of]) THEN Len(rows[of]) ELSE from + Limit
           p == Page(of, from)
<1>1. Len(rows[of]) \in Nat /\ Limit \in Nat \ {0}
    BY RowPlaces, FeedAssumption
<1>2. p = [i \in 1..(last - from) |-> [key |-> of, id |-> rows[of][from + i]]]
    BY DEF Page
<1>3. last - from \in Nat /\ last \in Nat
    BY <1>1
<1>4. p \in Items
    BY PageItems
<1>5. Len(p) < Limit
    BY DEF Short
<1> HIDE DEF p
<1>6. Len(p) = last - from
  <2> HIDE DEF last
  <2>1. DOMAIN p = 1..(last - from)
    BY <1>2
  <2>2. Len(p) \in Nat /\ DOMAIN p = 1..Len(p)
    BY <1>4 DEF Items
  <2> QED
    BY <1>3, <2>1, <2>2
<1>7. last = Len(rows[of])
    BY <1>1, <1>5, <1>6
<1>8. Len(rows[of]) = from + Len(p)
    BY <1>1, <1>3, <1>6, <1>7
<1> QED
    BY <1>8 DEF p

(* A page that is put behind a list that stands in its place does so too. *)
LEMMA InPlaceMore ==
    ASSUME DbOK, NEW of \in Keys, NEW base \in Items, InPlace(base)
    PROVE  InPlace(base \o Page(of, Len(base)))
<1> DEFINE p == Page(of, Len(base))
           l == base \o p
<1>1. /\ p \in Items /\ Len(base) \in Nat /\ DOMAIN p = 1..Len(p)
      /\ \A i \in 1..Len(p) : Len(base) + i \in DOMAIN rows[of] /\ p[i] = Row(of, Len(base) + i)
    BY PageRows DEF Items
<1> HIDE DEF p
<1>2. /\ \A i \in DOMAIN base : l[i] = base[i]
      /\ \A i \in DOMAIN p : l[Len(base) + i] = p[i]
      /\ \A i \in DOMAIN l : \/ i \in DOMAIN base
                             \/ i - Len(base) \in DOMAIN p /\ i = Len(base) + (i - Len(base))
    BY <1>1, ConcatItems
<1> HIDE DEF l
<1>3. ASSUME NEW i \in DOMAIN l PROVE i \in DOMAIN rows[l[i].key] /\ l[i].id = rows[l[i].key][i]
  <2>1. CASE i \in DOMAIN base
    BY <1>2, <2>1 DEF InPlace
  <2>2. CASE i - Len(base) \in DOMAIN p /\ i = Len(base) + (i - Len(base))
    <3>1. l[i] = Row(of, i) /\ i \in DOMAIN rows[of]
      BY <1>1, <1>2, <2>2
    <3> QED
      BY <3>1 DEF Row
  <2> QED
    BY <1>2, <2>1, <2>2
<1> QED
    BY <1>3 DEF InPlace, l, p

(* A row that is deleted from the table and from a list in its place. *)
LEMMA InPlaceWithout ==
    ASSUME DbOK, ShapeRows, Me \in Keys, NEW d \in DOMAIN rows[Me], Deleted(Me, d), view' = view,
           NEW list \in Items, OneKeyed(list, Me), InPlace(list), Has(list, Row(Me, d)),
           NEW t \in Without(list, Row(Me, d))
    PROVE  InPlace(t)' /\ Len(t) = Len(list) - 1 /\ Len(rows'[Me]) = Len(rows[Me]) - 1
<1>1. \A i \in DOMAIN list : list[i] = Row(Me, i) /\ i \in DOMAIN rows[Me]
  <2>1. \A i \in DOMAIN list : list[i] = [key |-> list[i].key, id |-> list[i].id]
    BY ItemOf
  <2> QED
    BY <2>1 DEF InPlace, OneKeyed, Row
<1>2. d \in DOMAIN list /\ list[d] = Row(Me, d) /\ \A i \in DOMAIN list : list[i] = list[d] => i = d
  <2>1. \A i \in DOMAIN list : list[i] = Row(Me, d) => i = d
    BY <1>1, RowOnce
  <2> QED
    BY <1>1, <2>1 DEF Has
<1>3. /\ DOMAIN t = 1..(Len(list) - 1) /\ Len(t) = Len(list) - 1
      /\ \A i \in DOMAIN t : t[i] = IF i < d THEN list[i] ELSE list[i + 1]
    BY <1>2, WithoutOne
<1>4. /\ Len(rows'[Me]) = Len(rows[Me]) - 1
      /\ \A j \in DOMAIN rows'[Me] : rows'[Me][j] = rows[Me][BeforeDeleted(Me, d, Me, j)]
    BY DeletedRows
<1>5. Len(list) \in Nat /\ Len(list) <= Len(rows[Me]) /\ DOMAIN list = 1..Len(list)
    BY InPlaceLen DEF Items
<1>6. DOMAIN rows'[Me] = 1..Len(rows'[Me]) /\ Len(rows[Me]) \in Nat /\ d \in Nat
  <2>1. DbOK'
    BY RowsTypes DEF RowsChange
  <2> QED
    BY <2>1, RowPlaces DEF DbOK
<1>7. ASSUME NEW i \in DOMAIN t PROVE i \in DOMAIN rows'[t[i].key] /\ t[i].id = rows'[t[i].key][i]
  <2>1. i \in DOMAIN rows'[Me] /\ i \in Nat
    BY <1>3, <1>4, <1>5, <1>6
  <2>2. PICK m : m = BeforeDeleted(Me, d, Me, i)
    OBVIOUS
  <2>3. m \in DOMAIN list /\ t[i] = list[m]
    BY <1>3, <1>5, <1>6, <2>1, <2>2 DEF BeforeDeleted
  <2>4. t[i].key = Me /\ t[i].id = rows[Me][m]
    BY <1>1, <2>3 DEF Row
  <2> QED
    BY <1>4, <2>1, <2>2, <2>4
<1> QED
    BY <1>3, <1>4, <1>7 DEF InPlace

(* A call that is made is the first of those under way, and starts from a  *)
(* list that stands in its place.                                          *)
LEMMA AsksFaith ==
    ASSUME TypeInv, KeyInv, SoleInv, FaithInv, Untouched(Disturbances)', NEW k \in Calls,
           LoadMore(k) \/ Search(k) \/ AddPost(k) \/ \E i \in DOMAIN posts : Bin(k, i)
    PROVE  FaithList' /\ FaithCalls'
<1>1. upset \subseteq upset' /\ UNCHANGED <<view, rows>> /\ posts \in Items
  <2>1. upset \subseteq upset'
    BY Remembers DEF Next
  <2> QED
    BY <2>1 DEF LoadMore, Search, AddPost, Bin, Emptied, dbVars, TypeInv, ListOK
<1>2. FaithList
    BY <1>1, FaithBefore
<1>3. ASSUME NEW op, NEW of, NEW from, NEW base, Ask(k, op, of, from, base) PROVE UnderWay = {}
  <2>1. UnderWay # {} => "overlap" \in upset'
    BY <1>3 DEF Ask
  <2> QED
    BY <2>1 DEF Untouched, Disturbances
<1>4. UnderWay = {}
  <2>1. \E op, of, from, base : Ask(k, op, of, from, base)
    BY DEF LoadMore, Search, AddPost, Bin
  <2> QED
    BY <1>3, <2>1
<1>5. (\A j \in Calls : call[j].st = "idle") /\ ~Done("bin") /\ ~Done("add")
    BY <1>4 DEF UnderWay, Done
<1>6. ASSUME NEW op, NEW of, NEW from, NEW base, Ask(k, op, of, from, base),
             \A c : c = NewCall(op, of, from, base) => FaithCall(c)'
      PROVE  FaithCalls'
  <2>1. PICK c : c = NewCall(op, of, from, base)
    OBVIOUS
  <2>2. call' = [call EXCEPT ![k] = c] /\ FaithCall(c)'
    BY <1>6, <2>1 DEF Ask, NewCall
  <2> QED
    BY <1>5, <2>2, FaithOne
<1>7. ASSUME UNCHANGED <<posts, seen, isEnough, isFirst>> PROVE FaithList'
    BY <1>1, <1>2, <1>5, <1>7, FaithListSame
<1>8. CASE LoadMore(k)
  <2>1. PICK n, l : n = (IF view = "Profile" THEN Len(posts) ELSE seen.offset + Limit) /\ l = posts
    OBVIOUS
  <2>2. n = Len(l) /\ InPlace(l) /\ ~isEnough /\ l \in Items
    BY <1>1, <1>2, <1>5, <1>8, <2>1 DEF LoadMore, FaithList
  <2>3. Ask(k, "more", seen.key, n, l) /\ UNCHANGED <<posts, seen, isEnough, isFirst>>
    BY <1>8, <2>1 DEF LoadMore
  <2>4. ASSUME NEW c, c = NewCall("more", seen.key, n, l) PROVE FaithCall(c)'
    <3>1. c.op = "more" /\ c.st = "asked" /\ c.base \o c.list = l /\ c.base = l /\ c.from = n
      BY <2>2, <2>4, ConcatEmpty DEF NewCall
    <3>2. ~isEnough' /\ InPlace(l)'
      BY <1>1, <2>2, <2>3 DEF InPlace
    <3>3. InPlace(c.base \o c.list)'
      BY <3>1, <3>2
    <3> QED
      BY <2>2, <3>1, <3>2, <3>3 DEF FaithCall
  <2> QED
    BY <1>6, <1>7, <2>3, <2>4
<1>9. CASE Search(k)
  <2>1. Ask(k, "first", key, 0, <<>>) /\ posts' = <<>> /\ isEnough' = FALSE /\ isFirst' = TRUE
    BY <1>9 DEF Search, Emptied
  <2>2. InPlace(<<>>)'
    BY DEF InPlace
  <2>3. ASSUME NEW c, c = NewCall("first", key, 0, <<>>) PROVE FaithCall(c)'
    <3>1. c.op = "first" /\ c.st = "asked" /\ c.base \o c.list = <<>> /\ Len(c.base) = c.from
      BY <2>3, ConcatEmpty DEF NewCall, Items
    <3>2. InPlace(c.base \o c.list)'
      BY <2>2, <3>1
    <3> QED
      BY <2>1, <3>1, <3>2 DEF FaithCall
  <2>4. FaithList'
    BY <2>1, <2>2, FaithListNew
  <2> QED
    BY <1>6, <2>1, <2>3, <2>4
<1>10. CASE AddPost(k)
  <2>1. Ask(k, "add", Me, 0, <<>>) /\ UNCHANGED <<posts, seen, isEnough, isFirst>>
    BY <1>10 DEF AddPost, listVars
  <2>2. ASSUME NEW c, c = NewCall("add", Me, 0, <<>>) PROVE FaithCall(c)'
    BY <2>2 DEF NewCall, FaithCall
  <2> QED
    BY <1>6, <1>7, <2>1, <2>2
<1>11. ASSUME NEW i \in DOMAIN posts, Bin(k, i) PROVE FaithList' /\ FaithCalls'
  <2>1. /\ Ask(k, "bin", posts[i].key, posts[i].id, posts)
        /\ UNCHANGED <<posts, seen, isEnough, isFirst>>
    BY <1>11 DEF Bin, listVars
  <2>2. ASSUME NEW c, c = NewCall("bin", posts[i].key, posts[i].id, posts) PROVE FaithCall(c)'
    BY <2>2 DEF NewCall, FaithCall
  <2> QED
    BY <1>6, <1>7, <2>1, <2>2
<1> QED
    BY <1>8, <1>9, <1>10, <1>11

(* A page, or nothing, is answered. *)
LEMMA AnswerListFaith ==
    ASSUME TypeInv, ShapeInv, KeyInv, SoleInv, FaithInv, Untouched(Disturbances)', NEW k \in Calls,
           AnswerList(k)
    PROVE  FaithList' /\ FaithCalls'
<1> DEFINE p == Page(call[k].key, call[k].from)
           n == [call[k] EXCEPT !.st = "ok", !.list = p]
<1>1. /\ call[k] \in Asked /\ call[k].st = "asked" /\ call[k].op \in {"more", "first"}
      /\ call' = [call EXCEPT ![k] = n] /\ DbOK /\ ShapeCall(call[k])
      /\ UNCHANGED <<view, rows, posts, seen, isEnough, isFirst, upset>>
    BY CallFields DEF TypeInv, AnswerList, ShapeInv, ShapeCalls, dbVars, listVars
<1>2. /\ n.op = call[k].op /\ n.key = call[k].key /\ n.from = call[k].from
      /\ n.base = call[k].base /\ n.list = p /\ n.st = "ok"
    BY <1>1 DEF Asked
<1> HIDE DEF n
<1>3. PICK c, d, l : c = n /\ d = call[k] /\ l = d.base \o p
    OBVIOUS
<1>4. KeyCall(d) /\ FaithCall(d) /\ FaithList /\ \A j \in Calls : j # k => call[j].st = "idle"
    BY <1>1, <1>3, FaithBefore DEF Sole, KeyCalls, FaithCalls
<1>5. /\ d.base \in Items /\ d.from \in Nat /\ d.key \in Keys /\ d.list = <<>>
      /\ d.from = Len(d.base) /\ OneKeyed(d.base, d.key) /\ ~isEnough
      /\ c.key = d.key /\ c.from = d.from /\ c.base = d.base /\ c.list = p
    BY <1>1, <1>2, <1>3, <1>4 DEF Asked, ShapeCall, FaithCall, KeyCall
<1>6. InPlace(d.base)
  <2>1. InPlace(d.base \o d.list)
    BY <1>1, <1>3, <1>4 DEF FaithCall
  <2> QED
    BY <1>5, <2>1, ConcatEmpty
<1>7. InPlace(l)'
  <2>1. InPlace(l)
    BY <1>1, <1>3, <1>5, <1>6, InPlaceMore
  <2> QED
    BY <1>1, <2>1 DEF InPlace
<1>8. Short(p) => Len(rows[d.key]) = d.from + Len(p)
  <2>1. d.from <= Len(rows[d.key])
    BY <1>1, <1>5, <1>6, InPlaceLen
  <2> QED
    BY <1>1, <1>3, <1>5, <2>1, PageEnds
<1> HIDE DEF p
<1>9. FaithCall(c)'
  <2>1. InPlace(c.base \o c.list)'
    BY <1>3, <1>5, <1>7
  <2>2. ~isEnough' /\ Len(c.base) = c.from
    BY <1>1, <1>5
  <2>3. Short(c.list) => Ended(rows[c.key], c.from + Len(c.list))'
    BY <1>1, <1>5, <1>8 DEF Ended
  <2> QED
    BY <1>1, <1>2, <1>3, <2>1, <2>2, <2>3 DEF FaithCall
<1>10. FaithCalls'
    BY <1>1, <1>3, <1>4, <1>9, FaithOne
<1>11. \A op : Done(op) => Done(op)'
    BY <1>1, <1>3, DoneStays
<1>12. FaithList'
    BY <1>1, <1>4, <1>11, FaithListSame
<1> QED
    BY <1>10, <1>12

(* What one has done oneself shows in the list to come. *)
LEMMA PerformFaith ==
    ASSUME TypeInv, ShapeInv, KeyInv, SoleInv, FaithInv, Untouched(Disturbances)', NEW k \in Calls,
           Perform(k)
    PROVE  FaithList' /\ FaithCalls'
<1>1. /\ call[k] \in Asked /\ call[k].st = "asked" /\ ShapeCall(call[k]) /\ upset \subseteq upset'
      /\ UNCHANGED <<view, posts, seen, isEnough, isFirst>>
      /\ DbOK /\ ShapeRows /\ Me \in Keys /\ posts \in Items /\ call[k].op \in {"bin", "add"}
  <2>1. upset \subseteq upset'
    BY Remembers DEF Next
  <2>2. call[k] \in Asked /\ call[k].st = "asked"
    BY CallFields DEF TypeInv, Perform
  <2>3. call[k].op \in {"bin", "add"} /\ UNCHANGED <<view, posts, seen, isEnough, isFirst>>
    BY DEF Perform, listVars
  <2> QED
    BY <2>1, <2>2, <2>3, FeedAssumption DEF TypeInv, ShapeInv, ShapeCalls, ListOK
<1>2. PICK c, d, b : /\ d = call[k] /\ b = d.base /\ call' = [call EXCEPT ![k] = c]
                     /\ c = [d EXCEPT !.st = "ok"]
  <2> DEFINE noted == IF call[k].op = "bin" THEN "removed" ELSE "added"
  <2>1. noted \notin upset'
    BY DEF Untouched, Disturbances
  <2>2. \/ call' = [call EXCEPT ![k].st = "ok"]
        \/ upset' = upset \cup {noted}
    BY Zenon DEF Perform
  <2>3. call' = [call EXCEPT ![k] = [call[k] EXCEPT !.st = "ok"]]
    BY <2>1, <2>2
  <2> QED
    BY <2>3
<1>3. /\ d \in Asked /\ c.st = "ok" /\ c.op = d.op /\ c.base = b /\ c.key = d.key /\ c.from = d.from
      /\ b \in Items /\ view = "Profile" /\ ShapeCall(d)
    BY <1>1, <1>2 DEF Asked, ShapeCall
<1>4. /\ KeyCall(d) /\ SoleCall(d) /\ FaithList
      /\ \A j \in Calls : j # k => call[j].st = "idle"
    BY <1>1, <1>2, FaithBefore DEF Sole, KeyCalls
<1>5. ~Done("bin") /\ ~Done("add") /\ (Done("bin")' \/ Done("add")')
  <2>1. call'[k] = c
    BY <1>2 DEF TypeInv, CallsOK
  <2>2. ~Done("bin") /\ ~Done("add")
    BY <1>1, <1>4 DEF Done
  <2>3. call'[k].st = "ok" /\ (call'[k].op = "bin" \/ call'[k].op = "add")
    BY <1>1, <1>2, <1>3, <2>1
  <2> QED
    BY <2>2, <2>3 DEF Done
<1>6. FaithList'
    BY <1>1, <1>3, <1>5 DEF FaithList
<1>7. FaithCall(c)'
  <2>1. ASSUME c.op = "bin", NEW t \in Without(c.base, [key |-> c.key, id |-> c.from])
        PROVE  InPlace(t)' /\ (isEnough' => Ended(rows[Me], Len(t))')
    <3>1. PICK i \in DOMAIN rows[Me] : rows[Me][i] = call[k].from /\ Deleted(Me, i)
      BY <1>2, <1>3, <2>1 DEF Perform
    <3>2. d.key = Me
      BY <1>2, <1>3, <2>1, Zenon DEF Perform
    <3>3. [key |-> c.key, id |-> c.from] = Row(Me, i) /\ Has(b, Row(Me, i)) /\ b = posts
      BY <1>2, <1>3, <1>4, <2>1, <3>1, <3>2 DEF Row, ShapeCall, SoleCall
    <3>4. /\ OneKeyed(b, Me) /\ InPlace(b)
          /\ isEnough => Ended(rows[Me], Len(b))
      <4>1. OneKeyed(b, Me)
        BY <1>2, <1>4, <3>2 DEF KeyCall
      <4>2. InPlace(b) /\ (isEnough /\ b # <<>> => Ended(rows[b[1].key], Len(b)))
        BY <1>4, <1>5, <3>3 DEF FaithList
      <4>3. 1 \in DOMAIN b
        BY <1>3, <3>3 DEF Has, Items
      <4> QED
        BY <4>1, <4>2, <4>3 DEF OneKeyed
    <3>5. PICK r : r = Row(Me, i)
      OBVIOUS
    <3>6. t \in Without(b, r)
      BY <1>3, <2>1, <3>3, <3>5
    <3>7. InPlace(t)' /\ Len(t) = Len(b) - 1 /\ Len(rows'[Me]) = Len(rows[Me]) - 1
      BY <1>1, <1>3, <3>1, <3>3, <3>4, <3>5, <3>6, InPlaceWithout
    <3>8. isEnough' => Ended(rows[Me], Len(t))'
      BY <1>1, <3>4, <3>7 DEF Ended
    <3> QED
      BY <3>7, <3>8
  <2>2. c.op \notin {"more", "first"}
    BY <1>1, <1>2, <1>3
  <2> QED
    BY <2>1, <2>2 DEF FaithCall
<1>8. FaithCalls'
    BY <1>2, <1>4, <1>7, FaithOne
<1> QED
    BY <1>6, <1>8

(* A call that fails changes nothing. *)
LEMMA FailFaith ==
    ASSUME TypeInv, KeyInv, SoleInv, FaithInv, Untouched(Disturbances)', NEW k \in Calls, Fail(k)
    PROVE  FaithList' /\ FaithCalls'
<1>1. PICK c : c = Idle
    OBVIOUS
<1>2. /\ c.st = "idle" /\ call' = [call EXCEPT ![k] = c] /\ call[k].st = "asked"
      /\ UNCHANGED <<view, rows, posts, seen, isEnough, isFirst>> /\ upset \subseteq upset'
    BY <1>1 DEF Fail, Idle, dbVars, listVars
<1>3. FaithList /\ \A j \in Calls : j # k => call[j].st = "idle"
    BY <1>2, FaithBefore DEF Sole
<1>4. FaithCalls'
    BY <1>2, <1>3, FaithOne DEF Asked
<1>5. \A op : Done(op) => Done(op)'
    BY <1>2, DoneStays
<1>6. FaithList'
    BY <1>2, <1>3, <1>5, FaithListSame
<1> QED
    BY <1>4, <1>6

(* A page that arrives ends where the rows end, or where the next begins. *)
LEMMA PageFaith ==
    ASSUME TypeInv, ShapeInv, KeyInv, SoleInv, FaithInv, Untouched(Disturbances)', NEW k \in Calls,
           MoreArrives(k) \/ FirstArrives(k)
    PROVE  FaithList'
<1>1. /\ call[k] \in Asked /\ call[k].op \in {"more", "first"} /\ call[k].st = "ok"
      /\ ShapeCall(call[k]) /\ UNCHANGED <<view, rows, upset>> /\ Limit \in Nat \ {0}
    BY CallFields, ArrivalKeeps, FeedAssumption
    DEF TypeInv, MoreArrives, FirstArrives, ShapeInv, ShapeCalls, Arrives
<1>2. PICK d, l : d = call[k] /\ l = d.base \o d.list
    OBVIOUS
<1>3. /\ KeyCall(d) /\ SoleCall(d) /\ FaithCall(d) /\ FaithList
      /\ \A j \in Calls : j # k => call[j].st = "idle"
    BY <1>1, <1>2, FaithBefore DEF Sole, KeyCalls, FaithCalls
<1>4. /\ d.base \in Items /\ d.list \in Items /\ d.from \in Nat /\ Len(d.list) \in Nat
      /\ Len(d.list) <= Limit /\ OneKeyed(d.base, d.key) /\ OneKeyed(d.list, d.key)
    BY <1>1, <1>2, <1>3 DEF Asked, Items, ShapeCall, KeyCall
<1>5. /\ ~isEnough /\ InPlace(l) /\ Len(d.base) = d.from
      /\ Short(d.list) => Ended(rows[d.key], d.from + Len(d.list))
    BY <1>1, <1>2, <1>3 DEF FaithCall
<1>6. d.op = "first" => d.base = <<>> /\ d.from = 0
    BY <1>1, <1>2 DEF ShapeCall
<1>7. Len(l) = d.from + Len(d.list) /\ OneKeyed(l, d.key) /\ l \in Items
  <2>1. /\ l \in Items /\ Len(l) = Len(d.base) + Len(d.list)
        /\ \A i \in DOMAIN l : \/ i \in DOMAIN d.base /\ l[i] = d.base[i]
                               \/ i - Len(d.base) \in DOMAIN d.list /\ l[i] = d.list[i - Len(d.base)]
    <3>1. PICK a \in Items, b \in Items : a = d.base /\ b = d.list
      BY <1>4
    <3>2. /\ a \o b \in Items /\ Len(a \o b) = Len(a) + Len(b)
          /\ \A i \in DOMAIN a : (a \o b)[i] = a[i]
          /\ \A i \in DOMAIN b : (a \o b)[Len(a) + i] = b[i]
          /\ \A i \in DOMAIN (a \o b) :
                \/ i \in DOMAIN a
                \/ i - Len(a) \in DOMAIN b /\ i = Len(a) + (i - Len(a))
      BY ConcatItems
    <3>3. l = a \o b
      BY <1>2, <3>1
    <3>4. ASSUME NEW i \in DOMAIN l
          PROVE  \/ i \in DOMAIN a /\ l[i] = a[i]
                 \/ i - Len(a) \in DOMAIN b /\ l[i] = b[i - Len(a)]
      <4>1. CASE i \in DOMAIN a
        BY <3>2, <3>3, <4>1
      <4>2. CASE i - Len(a) \in DOMAIN b /\ i = Len(a) + (i - Len(a))
        BY <3>2, <3>3, <4>2
      <4> QED
        BY <3>2, <3>3, <4>1, <4>2
    <3> QED
      BY <3>1, <3>2, <3>3, <3>4
  <2> QED
    BY <1>4, <1>5, <2>1 DEF OneKeyed
<1>8. InPlace(l)' /\ (Short(d.list) => Ended(rows[d.key], Len(l))')
    BY <1>1, <1>5, <1>7 DEF InPlace, Ended
<1>9. l # <<>> => l[1].key = d.key
  <2>1. l # <<>> => 1 \in DOMAIN l
    BY <1>7 DEF Items
  <2> QED
    BY <1>7, <2>1 DEF OneKeyed
<1>10. CASE d.list # <<>>
  <2>1. /\ posts' = l /\ offset' = d.from /\ seen'.offset = offset'
        /\ isEnough' = (isEnough \/ Short(d.list))
    <3>1. CASE MoreArrives(k)
      <4>1. isEnough' = (isEnough \/ Short(d.list))
        BY <1>2, <3>1, Zenon DEF MoreArrives
      <4> QED
        BY <1>2, <1>10, <3>1, <4>1 DEF MoreArrives, Renewed
    <3>2. CASE FirstArrives(k)
      <4>1. isEnough' = (isEnough \/ Short(d.list))
        BY <1>2, <1>10, <3>2, Zenon DEF FirstArrives
      <4>2. posts' = d.list /\ offset' = 0 /\ seen'.offset = offset' /\ d.op = "first"
        BY <1>2, <1>10, <3>2 DEF FirstArrives, Renewed
      <4>3. d.list = l
        BY <1>2, <1>4, <1>6, <4>2, ConcatEmpty
      <4> QED
        BY <1>6, <4>1, <4>2, <4>3
    <3> QED
      BY <3>1, <3>2
  <2>2. isEnough' => Short(d.list)
    BY <1>5, <2>1, Zenon
  <2>3. ~isEnough' => ~Short(d.list)
    BY <2>1, Zenon
  <2>4. ~isEnough' => seen'.offset + Limit = Len(l)
    BY <1>1, <1>4, <1>7, <2>1, <2>3 DEF Short
  <2>5. isEnough' /\ l # <<>> => Ended(rows[l[1].key], Len(l))'
    <3>1. isEnough' /\ l # <<>> => Ended(rows[d.key], Len(l))' /\ l[1].key = d.key
      BY <1>8, <1>9, <2>2
    <3> QED
      BY <3>1 DEF Ended
  <2> QED
    BY <1>8, <2>1, <2>4, <2>5, FaithListNew
<1>11. CASE d.list = <<>>
  <2>1. CASE MoreArrives(k)
    <3>1. l = d.base /\ d.base = posts
      BY <1>2, <1>3, <1>4, <1>11, <2>1, ConcatEmpty DEF SoleCall, MoreArrives
    <3>2. posts' = l
      BY <1>2, <1>11, <2>1, <3>1 DEF MoreArrives
    <3>3. Short(d.list)
      BY <1>1, <1>11 DEF Short
    <3>4. isEnough'
      BY <1>2, <2>1, <3>3, Zenon DEF MoreArrives
    <3>5. l # <<>> => Ended(rows[l[1].key], Len(l))'
      <4>1. l # <<>> => Ended(rows[d.key], Len(l))' /\ l[1].key = d.key
        BY <1>8, <1>9, <3>3
      <4> QED
        BY <4>1 DEF Ended
    <3> QED
      BY <1>8, <3>2, <3>4, <3>5, FaithListNew
  <2>2. CASE FirstArrives(k)
    <3>1. UNCHANGED <<posts, seen, isEnough, isFirst>> /\ d.op = "first"
      BY <1>2, <1>11, <2>2 DEF FirstArrives, listVars
    <3>2. ~Done("bin") /\ ~Done("add")
      BY <1>2, <1>3, <3>1 DEF Done
    <3> QED
      BY <1>1, <1>3, <3>1, <3>2, FaithListSame
  <2> QED
    BY <2>1, <2>2
<1> QED
    BY <1>10, <1>11

(* The list that was to come is there. *)
LEMMA ArrivesFaith ==
    ASSUME TypeInv, ShapeInv, KeyInv, SoleInv, FaithInv, Untouched(Disturbances)', NEW k \in Calls,
           Arrives(k)
    PROVE  FaithList' /\ FaithCalls'
<1>0. ~AddUnlisted(k) /\ UNCHANGED <<view, rows, upset>>
  <2>1. ~AddUnlisted(k)
    BY DEF AddUnlisted, Untouched, Disturbances
  <2> QED
    BY <2>1, ArrivalKeeps
<1>1. /\ call[k] \in Asked /\ call[k].st = "ok" /\ ShapeCall(call[k]) /\ Idle.st = "idle"
      /\ UNCHANGED <<view, rows, upset>>
    BY <1>0, CallFields
    DEF TypeInv, Arrives, MoreArrives, FirstArrives, BinArrives, AddArrives, ShapeInv, ShapeCalls, Idle
<1>2. PICK d : d = call[k]
    OBVIOUS
<1>3. /\ KeyCall(d) /\ FaithCall(d) /\ d \in Asked
      /\ \A j \in Calls : j # k => call[j].st = "idle"
    BY <1>1, <1>2, FaithBefore DEF Sole, KeyCalls, FaithCalls
<1>4. ASSUME call' = [call EXCEPT ![k] = Idle] PROVE FaithCalls'
  <2>1. PICK c : c = Idle
    OBVIOUS
  <2>2. c.st = "idle" /\ call' = [call EXCEPT ![k] = c]
    BY <1>1, <1>4, <2>1
  <2> QED
    BY <1>3, <2>2, FaithOne DEF Asked
<1>5. CASE MoreArrives(k) \/ FirstArrives(k)
    BY <1>4, <1>5, PageFaith DEF MoreArrives, FirstArrives
<1>6. CASE BinArrives(k)
  <2>1. PICK e, t : e = [key |-> d.key, id |-> d.from] /\ t = posts' /\ t \in Without(d.base, e)
    BY <1>2, <1>6 DEF BinArrives
  <2>2. d.op = "bin" /\ d.st = "ok" /\ isEnough' = isEnough /\ view = "Profile" /\ d.key = Me
    BY <1>1, <1>2, <1>6 DEF BinArrives, ShapeCall
  <2>3. InPlace(t) /\ (isEnough => Ended(rows[Me], Len(t)))
    BY <1>3, <2>1, <2>2 DEF FaithCall
  <2>4. t # <<>> => t[1].key = Me
    <3>1. t \in Items /\ \A i \in DOMAIN t : \E j \in DOMAIN d.base : t[i] = d.base[j]
      BY <1>3, <2>1, WithoutItems DEF Asked
    <3>2. t # <<>> => 1 \in DOMAIN t
      BY <3>1 DEF Items
    <3> QED
      BY <1>3, <2>2, <3>1, <3>2 DEF KeyCall, OneKeyed
  <2>5. InPlace(t)' /\ (isEnough' /\ t # <<>> => Ended(rows[t[1].key], Len(t))')
    BY <1>1, <2>2, <2>3, <2>4 DEF InPlace, Ended
  <2>6. FaithList'
    BY <1>1, <2>1, <2>2, <2>5, FaithListNew
  <2> QED
    BY <1>4, <1>6, <2>6 DEF BinArrives
<1>7. CASE AddArrives(k)
  <2>1. PICK c : /\ call' = [call EXCEPT ![k] = c]
                 /\ c = [d EXCEPT !.st = "asked", !.op = "first", !.key = key]
    BY <1>2, <1>7 DEF AddArrives
  <2>2. c.op = "first" /\ c.base = <<>> /\ c.list = <<>> /\ c.from = 0 /\ c.st = "asked"
    BY <1>1, <1>2, <1>7, <2>1 DEF Asked, ShapeCall, AddArrives
  <2>3. posts' = <<>> /\ isEnough' = FALSE /\ isFirst' = TRUE
    BY <1>7 DEF AddArrives, Emptied
  <2>4. InPlace(<<>>)'
    BY DEF InPlace
  <2>5. FaithCall(c)'
    <3>1. c.base \o c.list = <<>> /\ Len(c.base) = c.from
      BY <2>2, ConcatEmpty DEF Items
    <3>2. InPlace(c.base \o c.list)'
      BY <2>4, <3>1
    <3> QED
      BY <2>2, <2>3, <3>1, <3>2 DEF FaithCall
  <2>6. FaithCalls'
    BY <1>3, <2>1, <2>5, FaithOne
  <2>7. FaithList'
    BY <2>3, <2>4, FaithListNew
  <2> QED
    BY <2>6, <2>7
<1> QED
    BY <1>0, <1>5, <1>6, <1>7 DEF Arrives

(* Nobody but a user who joins. *)
LEMMA ElsewhereFaith ==
    ASSUME TypeInv, ShapeInv, KeyInv, SoleInv, FaithInv, Untouched(Disturbances)', Elsewhere
    PROVE  FaithList' /\ FaithCalls'
<1>1. UNCHANGED <<view, call, posts, seen, isEnough, isFirst>> /\ upset \subseteq upset' /\ DbOK
  <2>1. UNCHANGED <<view, call, posts, seen, isEnough, isFirst>>
    BY DEF Elsewhere, listVars
  <2>2. upset \subseteq upset'
    BY Remembers DEF Next
  <2> QED
    BY <2>1, <2>2 DEF TypeInv
<1>2. FaithList /\ FaithCalls
    BY <1>1, FaithBefore
<1>3. PICK of \in Keys :
          \/ Added(of, view # "FriendSearch")
             /\ upset' = upset \cup {IF view = "FriendSearch" THEN "joined" ELSE "added"}
          \/ upset' = upset \cup {"added"}
          \/ upset' = upset \cup {"removed"}
          \/ upset' = upset \cup {"moved"}
    BY Zenon DEF Elsewhere
<1>4. /\ view = "FriendSearch" /\ Added(of, FALSE) /\ upset' = upset \cup {"joined"}
    BY <1>3 DEF Untouched, Disturbances, Added
<1>5. "joined" \in upset'
    BY <1>4
<1>6. \A o \in Keys : \A i \in DOMAIN rows[o] : i \in DOMAIN rows'[o] /\ rows'[o][i] = rows[o][i]
  <2>1. rows[of] \in Seq(Ids) /\ rows' = [rows EXCEPT ![of] = Append(@, lastId'[of])]
    BY <1>1, <1>4 DEF Added, DbOK
  <2>2. \A i \in DOMAIN rows[of] : /\ i \in DOMAIN Append(rows[of], lastId'[of])
                                   /\ Append(rows[of], lastId'[of])[i] = rows[of][i]
    BY <2>1
  <2> QED
    BY <1>1, <2>1, <2>2 DEF DbOK
<1>7. ASSUME NEW l \in Items, InPlace(l) PROVE InPlace(l)'
  <2>1. \A i \in DOMAIN l : l[i].key \in Keys
    BY ItemOf
  <2> QED
    BY <1>6, <1>7, <2>1 DEF InPlace
<1>8. FaithList'
  <2>1. PICK l : l = posts
    OBVIOUS
  <2>2. l \in Items /\ posts' = l
    BY <1>1, <2>1 DEF TypeInv, ListOK
  <2>3. InPlace(l) => InPlace(l)'
    BY <1>7, <2>2
  <2>4. InPlace(posts) => InPlace(posts)'
    BY <2>1, <2>2, <2>3 DEF InPlace
  <2> QED
    BY <1>1, <1>2, <1>5, <2>4 DEF FaithList, Ended, Done
<1>9. ASSUME NEW j \in Calls, NEW d \in Asked, call'[j] = d PROVE FaithCall(d)'
  <2>1. FaithCall(d) /\ d.st # "idle" /\ ShapeCall(d) /\ d.base \o d.list \in Items
    BY <1>1, <1>2, <1>9, OldConcat DEF FaithCalls, ShapeInv, ShapeCalls, ShapeCall, Asked
  <2>2. d.op # "bin"
    BY <1>4, <2>1 DEF ShapeCall
  <2>3. PICK l : l = d.base \o d.list
    OBVIOUS
  <2>4. InPlace(l) => InPlace(l)'
    BY <1>7, <2>1, <2>3
  <2>5. InPlace(d.base \o d.list) => InPlace(d.base \o d.list)'
    BY <2>3, <2>4
  <2> QED
    BY <1>1, <1>5, <2>1, <2>2, <2>5 DEF FaithCall, Ended
<1> QED
    BY <1>8, <1>9 DEF FaithCalls

(* Every step keeps the list faithful. *)
LEMMA FaithNext ==
    TypeInv /\ ShapeInv /\ KeyInv /\ SoleInv /\ FaithInv /\ [Next]_vars => FaithInv'
<1> SUFFICES ASSUME TypeInv, ShapeInv, KeyInv, SoleInv, FaithInv, [Next]_vars, Untouched(Disturbances)'
             PROVE  FaithList' /\ FaithCalls'
    BY DEF FaithInv
<1>1. ASSUME NEW k \in Calls, LoadMore(k) \/ Search(k) \/ AddPost(k) \/ \E i \in DOMAIN posts : Bin(k, i)
      PROVE  FaithList' /\ FaithCalls'
    BY <1>1, AsksFaith
<1>2. ASSUME NEW k \in Calls, AnswerList(k) \/ Perform(k) \/ Fail(k) PROVE FaithList' /\ FaithCalls'
    BY <1>2, AnswerListFaith, PerformFaith, FailFaith
<1>3. ASSUME NEW k \in Calls, Arrives(k) PROVE FaithList' /\ FaithCalls'
    BY <1>3, ArrivesFaith
<1>4. ASSUME (\E to \in Keys : Turn(to)) \/ OpenForm \/ Back \/ UNCHANGED vars PROVE FaithList' /\ FaithCalls'
  <2>1. /\ UNCHANGED <<view, rows, call, posts, seen, isEnough, isFirst>>
        /\ upset \subseteq upset'
    BY <1>4, FormStill DEF Turn, Still, dbVars, listVars
  <2>2. FaithList /\ FaithCalls
    BY <2>1, FaithBefore
  <2>3. FaithList'
    BY <2>1, <2>2, FaithListSame DEF Done
  <2>4. ASSUME NEW j \in Calls, NEW d \in Asked, call'[j] = d PROVE FaithCall(d)'
    <3>1. FaithCall(d)
      BY <2>1, <2>2, <2>4 DEF FaithCalls
    <3> QED
      BY <2>1, <3>1 DEF FaithCall, InPlace, Ended
  <2> QED
    BY <2>3, <2>4 DEF FaithCalls
<1>5. CASE Elsewhere
    BY <1>5, ElsewhereFaith
<1> QED
    BY <1>1, <1>2, <1>3, <1>4, <1>5 DEF Next

(* Nothing is shown at first, and the first page is the one at nothing. *)
LEMMA FaithStart == Init => FaithInv
<1> SUFFICES ASSUME Init PROVE FaithList /\ FaithCalls
    BY DEF FaithInv
<1>1. /\ posts = <<>> /\ (\A k \in Calls : call[k].st = "idle") /\ view \in Views
      /\ offset = (IF view = "PostsPage" THEN 0 - Limit ELSE 0) /\ seen = [key |-> Me, offset |-> offset]
      /\ isFirst = (view # "PostsPage") /\ isEnough = FALSE
    BY DEF Init, Idle
<1>2. FaithCalls
    BY <1>1 DEF FaithCalls, Asked
<1>3. view # "Profile" /\ ~isFirst => seen.offset + Limit = Len(posts)
  <2>1. ~isFirst => view = "PostsPage"
    BY <1>1, Zenon
  <2>2. view = "PostsPage" => seen.offset = 0 - Limit
    BY <1>1
  <2>3. Len(posts) = 0 /\ Limit \in Nat
    BY <1>1, FeedAssumption
  <2> QED
    BY <2>1, <2>2, <2>3
<1> QED
    BY <1>1, <1>2, <1>3 DEF FaithList, InPlace

(* Where the user waits for one thing before doing the next and nobody     *)
(* interferes, the list is the beginning of what the database has, and all *)
(* of it once isEnough says so.                                            *)
THEOREM ListAlwaysFaithful == Spec => []ListFaithful
<1>1. TypeInv /\ KeyInv /\ FaithInv => ListFaithful
  <2> SUFFICES ASSUME TypeInv, KeyInv, FaithInv, Untouched(Disturbances), UnderWay = {}, posts # <<>>,
                      NEW of, of = posts[1].key,
                      NEW all, all = [i \in DOMAIN rows[of] |-> [key |-> of, id |-> rows[of][i]]]
               PROVE  /\ IsPrefix(posts, all)
                      /\ isEnough /\ "joined" \notin upset => posts = all
    BY DEF ListFaithful, Disturbances
  <2>1. KeyList /\ FaithList /\ ~Done("bin") /\ ~Done("add") /\ posts \in Items /\ DbOK
    BY DEF KeyInv, FaithInv, Untouched, Disturbances, Done, UnderWay, TypeInv, ListOK
  <2>2. 1 \in DOMAIN posts /\ DOMAIN posts = 1..Len(posts) /\ Len(posts) \in Nat
    BY <2>1 DEF Items
  <2>3. OneKeyed(posts, of) /\ of \in Keys
    BY <2>1, <2>2, ItemOf DEF KeyList, OneKeyed
  <2>4. InPlace(posts) /\ (isEnough /\ "joined" \notin upset => Len(posts) = Len(rows[of]))
    BY <2>1 DEF FaithList, Ended
  <2>5. Len(posts) <= Len(rows[of]) /\ Len(rows[of]) \in Nat /\ DOMAIN rows[of] = 1..Len(rows[of])
    BY <2>1, <2>3, <2>4, InPlaceLen, RowPlaces
  <2>6. all \in Items /\ Len(all) = Len(rows[of])
    <3>1. \A i \in 1..Len(rows[of]) : [key |-> of, id |-> rows[of][i]] \in Item
      BY <2>1, <2>3, <2>5 DEF DbOK, Item
    <3> QED
      BY <2>5, <3>1 DEF Items
  <2>7. \A i \in 1..Len(posts) : posts[i] = all[i]
    <3>1. \A i \in DOMAIN posts : posts[i] = [key |-> posts[i].key, id |-> posts[i].id]
      BY <2>1, ItemOf
    <3> QED
      BY <2>2, <2>3, <2>4, <3>1 DEF OneKeyed, InPlace
  <2>8. SubSeq(posts, 1, Len(posts)) = SubSeq(all, 1, Len(posts))
    <3>1. posts \in Seq(Item) /\ all \in Seq(Item) /\ Len(posts) <= Len(all)
      BY <2>1, <2>5, <2>6 DEF Items
    <3>2. /\ SubSeq(posts, 1, Len(posts)) = [i \in 1..Len(posts) |-> posts[i]]
          /\ SubSeq(all, 1, Len(posts)) = [i \in 1..Len(posts) |-> all[i]]
      BY <2>2, <3>1
    <3> QED
      BY <2>7, <3>2
  <2>9. Len(posts) = Len(all) => posts = all
    BY <2>1, <2>6, <2>7, SeqEqual DEF Items
  <2> QED
    BY <2>4, <2>5, <2>6, <2>8, <2>9 DEF IsPrefix
<1>2. Init => TypeInv /\ ShapeInv /\ KeyInv /\ SoleInv /\ FaithInv
    BY TypeInit, ShapeStart, KeyStart, SoleStart, FaithStart
<1>3. TypeInv /\ ShapeInv /\ KeyInv /\ SoleInv /\ FaithInv /\ [Next]_vars
      => TypeInv' /\ ShapeInv' /\ KeyInv' /\ SoleInv' /\ FaithInv'
    BY TypeNext, ShapeNext, KeyNext, SoleNext, FaithNext
<1> QED
    BY <1>1, <1>2, <1>3, PTL DEF Spec
=============================================================================
