----------------------------- MODULE ListsProofs -----------------------------
(***************************************************************************)
(* Lists for any number of rows, any page size and any number of changes   *)
(* between two pages: what the lists show, and what they lose or repeat.   *)
(*                                                                         *)
(* Rows may come, change and go between two pages, the row the cursor      *)
(* names among them.  It does not matter: the next page is asked for by    *)
(* the place of the cursor in an order that no change moves, the order of  *)
(* ids.                                                                    *)
(*                                                                         *)
(* The lists sorted by a column have no such order, and are read by        *)
(* place: the rank of a row among those selected.  What a change does to   *)
(* ranks is that the one row it writes moves anywhere, and each other row  *)
(* by one place at most; so one row at most slips over the edge of what    *)
(* was read, to either side (DriftInv).                                    *)
(***************************************************************************)
EXTENDS Lists, FiniteSetTheorems, TLAPS

\* How a list is continued does not depend on its rows.
Kind(r) == IF r.list \in PassedLists THEN "last"
           ELSE IF r.sort # "none" THEN "page" ELSE "hidden"

\* The order of a list with a cursor.
Up(r, i, j) == IF r.list = "ayahs" THEN i < j ELSE j < i

\* The reader's list, in any state of the table.
ReaderOrdered ==
    Query(reader) /\ reader.list \in Lists =>
        /\ Answer(reader).next = Kind(reader)
        /\ Kind(reader) # "page" =>
              \A i, j \in Ids : Before(reader, i, j) <=> Up(reader, i, j)

-----------------------------------------------------------------------------
\* What each endpoint answers: rows there are, and its kind of next page.
LEMMA Answers ==
    ASSUME NEW r, r.list \in Lists, Query(r)
    PROVE  Answer(r).rows \subseteq Ids /\ Answer(r).next = Kind(r)
PROOF
  <1> USE DEF Passed, Ahead, Sortable, Present, Kind, PassedLists, AheadLists, SortedLists, parse
  <1>1. ASSUME r.list \in PassedLists
        PROVE  Answer(r).rows \subseteq Ids /\ Answer(r).next = Kind(r)
    <2>1. CASE r.list = "ayahs"
      BY <2>1 DEF Answer, ayahs
    <2>2. CASE r.list = "list_bookmarks"
      BY <2>2 DEF Answer, list_bookmarks
    <2>3. CASE r.list = "notifications"
      BY <2>3 DEF Answer, notifications
    <2> QED BY <1>1, <2>1, <2>2, <2>3
  <1>2. ASSUME r.list \in AheadLists
        PROVE  Answer(r).rows \subseteq Ids /\ Answer(r).next = Kind(r)
    <2>1. Answer(r).rows \subseteq Ids /\ Answer(r).next = "hidden"
      BY <1>2 DEF Answer, transactions, messages_list, list_my, ustadz_public_reviews,
                  requester_reviews, list_balances, list_adjustments, audit_list
    <2>2. r.sort = "none"
      BY <1>2 DEF Query
    <2> QED BY <1>2, <2>1, <2>2
  <1>3. ASSUME r.list \in SortedLists
        PROVE  Answer(r).rows \subseteq Ids /\ Answer(r).next = Kind(r)
    <2>1. Answer(r) = Sortable(Present(r.status), r)
      BY <1>3 DEF Answer, admin_list_payments, admin_list_payouts, admin_list_visits, users_list,
                  santri_list, ustadz_list, admin_reviews
    <2>2. r.list \notin PassedLists
      BY <1>3
    <2>3. Answer(r).rows = Present(r.status)
      BY <2>1
    <2>4. CASE r.sort = "none"
      <3>1. ~parse(r.sort, r.asc).custom
        BY <2>4
      <3> HIDE DEF parse, Present
      <3>2. Sortable(Present(r.status), r).next = "hidden"
        BY <3>1, Zenon
      <3> QED BY <2>1, <2>2, <2>3, <2>4, <3>2 DEF Present
    <2>5. CASE r.sort # "none"
      <3>1. parse(r.sort, r.asc).custom
        BY <2>5
      <3> HIDE DEF parse, Present
      <3>2. Sortable(Present(r.status), r).next = "page"
        BY <3>1, Zenon
      <3> QED BY <2>1, <2>2, <2>3, <2>5, <3>2 DEF Present
    <2> QED BY <2>4, <2>5
  <1> QED BY <1>1, <1>2, <1>3 DEF Lists

\* A list that is not sorted has the order of ids, up or down.
LEMMA Order ==
    ASSUME NEW r, Query(r), r.list \in Lists, Kind(r) # "page", NEW i \in Ids, NEW j \in Ids
    PROVE  Before(r, i, j) <=> Up(r, i, j)
  BY DEF Query, Kind, Before, order_by, parse, Up, Lists, PassedLists, AheadLists, SortedLists

\* Rows further down a list have at least as many rows before them.
LEMMA PlaceGrows ==
    ASSUME ListsAssumption, NEW r, Query(r), r.list \in Lists, Kind(r) # "page",
           NEW S \in SUBSET Ids, NEW i \in S, NEW j \in S, Before(r, i, j)
    PROVE  /\ Place(r, S, i) \in Nat /\ Place(r, S, j) \in Nat
           /\ Place(r, S, i) <= Place(r, S, j)
PROOF
  <1> DEFINE A == {k \in S : Before(r, k, i)}
             B == {k \in S : Before(r, k, j)}
  <1>1. IsFiniteSet(B)
    BY FS_Subset DEF ListsAssumption
  <1>2. A \subseteq B
    <2> SUFFICES ASSUME NEW k \in S, Before(r, k, i) PROVE Before(r, k, j)
      OBVIOUS
    <2>1. Up(r, k, i) /\ Up(r, i, j)
      BY Order
    <2>2. Up(r, k, j)
      BY <2>1, ListsAssumption DEF Up, ListsAssumption
    <2> QED BY <2>2, Order
  <1>3. Cardinality(A) <= Cardinality(B) /\ IsFiniteSet(A)
    BY <1>1, <1>2, FS_Subset
  <1>4. Cardinality(A) \in Nat /\ Cardinality(B) \in Nat
    BY <1>1, <1>3, FS_CardinalityType
  <1> QED BY <1>3, <1>4 DEF Place

\* When no more rows are left than fit, all of them are shown.
LEMMA LastPage ==
    ASSUME ListsAssumption, NEW r, Query(r), r.list \in Lists, Kind(r) # "page",
           NEW S \in SUBSET Ids, ~More(S)
    PROVE  FirstPage(r, S) = S
PROOF
  <1> SUFFICES ASSUME NEW i \in S PROVE Place(r, S, i) < Limit
    BY DEF FirstPage
  <1> DEFINE A == {k \in S : Before(r, k, i)}
  <1>1. IsFiniteSet(S) /\ Cardinality(S) \in Nat
    BY FS_Subset, FS_CardinalityType DEF ListsAssumption
  <1>2. A \subseteq S /\ i \notin A
    BY Order DEF Up, ListsAssumption
  <1>3. Cardinality(A) < Cardinality(S) /\ Cardinality(A) \in Nat
    <2>1. IsFiniteSet(A) /\ Cardinality(A) <= Cardinality(S)
      BY <1>1, <1>2, FS_Subset
    <2>2. Cardinality(A) # Cardinality(S)
      BY <1>1, <1>2, FS_Subset
    <2>3. Cardinality(A) \in Nat
      BY <2>1, FS_CardinalityType
    <2> QED BY <1>1, <2>1, <2>2, <2>3
  <1>4. Cardinality(S) <= Limit
    BY <1>1, ListsAssumption DEF More, ListsAssumption
  <1> QED BY <1>1, <1>3, <1>4, ListsAssumption DEF Place, ListsAssumption

\* The answer depends on what is asked, not on how far the client has read.
LEMMA SameQuery ==
    ASSUME NEW r, NEW q, r.list \in Lists, Query(r),
           q.list = r.list, q.status = r.status, q.sort = r.sort, q.asc = r.asc
    PROVE  /\ Query(q) /\ Kind(q) = Kind(r)
           /\ Answer(q).rows = Answer(r).rows
           /\ \A i, j \in Ids : Kind(r) # "page" => (Before(q, i, j) <=> Before(r, i, j))
PROOF
  <1>1. Query(q) /\ Kind(q) = Kind(r)
    BY DEF Query, Kind
  <1>2. Answer(q).rows = Answer(r).rows
    <2> USE DEF Passed, Ahead, Sortable
    <2>1. CASE r.list \in PassedLists
      BY <2>1 DEF Answer, PassedLists, ayahs, list_bookmarks, notifications
    <2>2. CASE r.list \in AheadLists
      BY <2>2 DEF Answer, AheadLists, transactions, messages_list, list_my,
                  ustadz_public_reviews, requester_reviews, list_balances, list_adjustments,
                  audit_list
    <2>3. CASE r.list \in SortedLists
      BY <2>3 DEF Answer, SortedLists, admin_list_payments, admin_list_payouts,
                  admin_list_visits, users_list, santri_list, ustadz_list, admin_reviews
    <2> QED BY <2>1, <2>2, <2>3 DEF Lists
  <1>3. \A i, j \in Ids : Kind(r) # "page" => (Before(q, i, j) <=> Before(r, i, j))
    <2> SUFFICES ASSUME NEW i \in Ids, NEW j \in Ids, Kind(r) # "page"
                 PROVE  Before(q, i, j) <=> Before(r, i, j)
      OBVIOUS
    <2>1. Before(r, i, j) <=> Up(r, i, j)
      BY Order
    <2>2. Before(q, i, j) <=> Up(q, i, j)
      BY <1>1, Order
    <2> QED BY <2>1, <2>2 DEF Up
  <1> QED BY <1>1, <1>2, <1>3

\* The rows after the cursor, cut into a page and what is left for later.
LEMMA PageCut ==
    ASSUME ListsAssumption, NEW r, Query(r), r.list \in Lists, Kind(r) # "page",
           NEW S \in SUBSET Ids, NEW i \in FirstPage(r, S), NEW j \in S \ FirstPage(r, S)
    PROVE  Before(r, i, j)
PROOF
  <1>1. i \in S /\ i # j /\ ~(Place(r, S, j) <= Place(r, S, i))
    <2>1. Place(r, S, i) < Limit /\ ~(Place(r, S, j) < Limit) /\ i \in S /\ j \in S
      BY DEF FirstPage
    <2>2. \A k \in S : Place(r, S, k) \in Nat
      <3> SUFFICES ASSUME NEW k \in S PROVE Place(r, S, k) \in Nat
        OBVIOUS
      <3>1. IsFiniteSet({n \in S : Before(r, n, k)})
        BY FS_Subset DEF ListsAssumption
      <3> QED BY <3>1, FS_CardinalityType DEF Place
    <2> QED BY <2>1, <2>2 DEF ListsAssumption
  <1>2. ~Before(r, j, i)
    BY <1>1, PlaceGrows
  <1> QED
    BY <1>1, <1>2, Order DEF Up, ListsAssumption

-----------------------------------------------------------------------------
(* One page more *)

\* What the client is shown changes neither the query nor its answer.
LEMMA Shows ==
    ASSUME IInv, NEW items \in SUBSET Ids, NEW c \in Ids \cup {NoCursor},
           NEW skip \in SUBSET Ids, NEW more \in BOOLEAN, Show(items, c, skip, more),
           UNCHANGED <<table, stay, same, changes>>
    PROVE  /\ TypeOK' /\ Query(reader)' /\ (stay \subseteq Answer(reader).rows)'
           /\ Answer(reader)'.next = Kind(reader)
           /\ \A i, j \in Ids : Kind(reader) # "page" =>
                 (Before(reader', i, j) <=> Before(reader, i, j))
PROOF
  <1>1. /\ TypeOK /\ Query(reader) /\ reader.list \in Lists /\ reader \in Reader
        /\ Answer(reader).next = Kind(reader) /\ Answer(reader).rows \subseteq Ids
        /\ stay \subseteq Answer(reader).rows
    BY Answers DEF IInv, TypeOK, Reader
  <1>2. reader' = [list |-> reader.list, status |-> reader.status, sort |-> reader.sort,
                   asc |-> reader.asc, cursor |-> c, page |-> reader.page + 1,
                   shown |-> reader.shown \cup items,
                   again |-> reader.again \cup (items \cap reader.shown),
                   skipped |-> reader.skipped \cup skip, done |-> ~more]
    BY <1>1 DEF Show, Reader
  <1>3. reader' \in Reader
    <2>1. /\ reader.shown \cup items \in SUBSET Ids
          /\ reader.again \cup (items \cap reader.shown) \in SUBSET Ids
          /\ reader.skipped \cup skip \in SUBSET Ids
          /\ reader.page + 1 \in Nat
      BY <1>1 DEF Reader
    <2>2. /\ reader.list \in Lists /\ reader.status \in Column \cup {"any"}
          /\ reader.sort \in {"none", "id", "column"} /\ reader.asc \in BOOLEAN
          /\ (~more) \in BOOLEAN
      BY <1>1 DEF Reader
    <2> QED BY <1>2, <2>1, <2>2 DEF Reader
  <1>4. /\ Query(reader') /\ Kind(reader') = Kind(reader)
        /\ Answer(reader').rows = Answer(reader).rows
        /\ \A i, j \in Ids : Kind(reader) # "page" =>
              (Before(reader', i, j) <=> Before(reader, i, j))
    BY <1>1, <1>2, SameQuery
  <1>5. Answer(reader').next = Kind(reader)
    BY <1>1, <1>2, <1>4, Answers
  <1>6. Answer(reader)' = Answer(reader')
    BY DEF Answer, Passed, Ahead, Sortable, Present, parse, ayahs, list_bookmarks,
           notifications, transactions, messages_list, list_my, ustadz_public_reviews,
           requester_reviews, list_balances, list_adjustments, audit_list,
           admin_list_payments, admin_list_payouts, admin_list_visits, users_list,
           santri_list, ustadz_list, admin_reviews
  <1>7. Query(reader)' <=> Query(reader')
    BY DEF Query
  <1>8. TypeOK'
    BY <1>1, <1>3 DEF TypeOK
  <1> QED
    BY <1>1, <1>4, <1>5, <1>6, <1>7, <1>8

\* A row comes before another, not both, and what is in between is in between.
LEMMA Linear ==
    ASSUME ListsAssumption, NEW r, Query(r), r.list \in Lists, Kind(r) # "page"
    PROVE  \A i, j, k \in Ids :
              /\ ~(Before(r, i, j) /\ (i = j \/ Before(r, j, i)))
              /\ Before(r, i, j) /\ Before(r, j, k) => Before(r, i, k)
              /\ i = j \/ Before(r, i, j) \/ Before(r, j, i)
PROOF
  <1>1. \A i, j \in Ids : Before(r, i, j) <=> Up(r, i, j)
    BY Order
  <1>2. \A i, j, k \in Ids :
          /\ ~(Up(r, i, j) /\ (i = j \/ Up(r, j, i)))
          /\ Up(r, i, j) /\ Up(r, j, k) => Up(r, i, k)
          /\ i = j \/ Up(r, i, j) \/ Up(r, j, i)
    BY DEF Up, ListsAssumption
  <1> QED BY <1>1, <1>2

\* The client is shown the first page of the rows after the cursor, and a
\* cursor that has them, and what was lost, behind it.
LEMMA TurnPage ==
    ASSUME ListsAssumption, IInv, ~reader.done, Kind(reader) # "page",
           NEW S, S = Following(reader, Answer(reader).rows),
           NEW c \in Ids \cup {NoCursor}, NEW skip \in SUBSET (S \ FirstPage(reader, S)),
           Show(FirstPage(reader, S), c, skip, More(S)),
           UNCHANGED <<table, stay, same, changes>>,
           Kind(reader) = "last" => skip = {},
           ~More(S) => c = NoCursor /\ skip = {},
           More(S) => /\ c \in S
                      /\ \A i \in FirstPage(reader, S) \cup skip : i = c \/ Before(reader, i, c)
                      /\ \A i \in S : i = c \/ Before(reader, i, c)
                                        => i \in FirstPage(reader, S) \cup skip
    PROVE  IInv'
PROOF
  <1> DEFINE P == FirstPage(reader, S)
             Q == P \cup skip
  <1>1. /\ TypeOK /\ Query(reader) /\ PlaceKept /\ reader.list \in Lists /\ reader \in Reader
        /\ Answer(reader).next = Kind(reader) /\ Answer(reader).rows \subseteq Ids
        /\ stay \subseteq Answer(reader).rows
    BY Answers DEF IInv, TypeOK, Reader
  <1>2. P \subseteq S /\ S \subseteq Ids /\ Q \subseteq S
    BY <1>1 DEF FirstPage, Following
  <1>3. /\ reader'.shown = reader.shown \cup P
        /\ reader'.again = reader.again \cup (P \cap reader.shown)
        /\ reader'.skipped = reader.skipped \cup skip
        /\ reader'.cursor = c /\ reader'.done = ~More(S)
        /\ reader'.list = reader.list /\ reader'.status = reader.status
        /\ reader'.sort = reader.sort /\ reader'.asc = reader.asc
    BY <1>1 DEF Show, Reader
  <1>4. More(S) \in BOOLEAN
    BY DEF More
  <1>5. /\ TypeOK' /\ Query(reader)' /\ (stay \subseteq Answer(reader).rows)'
        /\ Answer(reader)'.next = Kind(reader)
    BY <1>2, <1>4, Shows
  <1>6. \A i, j \in Ids : Before(reader', i, j) <=> Before(reader, i, j)
    BY <1>2, <1>4, Shows
  <1>7. \A i, j, k \in Ids :
          /\ ~(Before(reader, i, j) /\ (i = j \/ Before(reader, j, i)))
          /\ Before(reader, i, j) /\ Before(reader, j, k) => Before(reader, i, k)
          /\ i = j \/ Before(reader, i, j) \/ Before(reader, j, i)
    BY <1>1, Linear
  <1>8. \A i \in S : reader.cursor # NoCursor => Before(reader, reader.cursor, i)
    BY DEF Following
  <1>9. reader.cursor \in Ids \cup {NoCursor}
    BY <1>1 DEF Reader
  <1>10. reader.shown \subseteq Ids /\ reader.skipped \subseteq Ids
    BY <1>1 DEF Reader
  <1>11. Accounted \cap S = {} /\ (P \cap reader.shown) = {}
    <2>1. ASSUME NEW i \in Accounted, i \in S PROVE FALSE
      <3>1. reader.cursor # NoCursor /\ Upto(i) /\ i \in Ids
        BY <1>1, <1>2, <2>1 DEF PlaceKept
      <3>2. Before(reader, reader.cursor, i) /\ reader.cursor \in Ids
        BY <1>8, <1>9, <2>1, <3>1
      <3> QED
        BY <1>7, <3>1, <3>2 DEF Upto
    <2> QED BY <1>2, <2>1 DEF Accounted
  <1>12. \A i \in stay : i \in Accounted \/ i \in S
    <2> SUFFICES ASSUME NEW i \in stay, i \notin S PROVE i \in Accounted
      OBVIOUS
    <2>1. i \in Ids /\ i \in Answer(reader).rows
      BY <1>1
    <2>2. reader.cursor # NoCursor /\ ~Before(reader, reader.cursor, i)
      BY <2>1 DEF Following
    <2>3. Upto(i)
      BY <1>7, <1>9, <2>1, <2>2 DEF Upto
    <2> QED BY <1>1, <2>2, <2>3 DEF PlaceKept
  <1>13. Accounted' = Accounted \cup Q
    BY <1>3 DEF Accounted
  <1>14. PlaceKept'
    <2>1. reader'.again = {} /\ reader'.shown \cap reader'.skipped = {}
      BY <1>1, <1>2, <1>3, <1>11 DEF PlaceKept, Accounted
    <2>2. Answer(reader)'.next = "last" => reader'.skipped = {}
      BY <1>1, <1>3, <1>5 DEF PlaceKept
    <2>3. CASE ~More(S)
      <3>1. P = S
        BY <1>1, <1>2, <2>3, LastPage
      <3>2. stay' \subseteq Accounted'
        BY <1>12, <1>13, <3>1
      <3> QED
        BY <1>3, <2>1, <2>2, <2>3, <3>2 DEF PlaceKept
    <2>4. CASE More(S)
      <3>1. c \in Ids /\ c # NoCursor /\ c \in S
        BY <1>2, <2>4 DEF ListsAssumption
      <3>2. ASSUME NEW i \in Accounted' PROVE Upto(i)'
        <4>1. i \in Ids
          BY <1>2, <1>10, <1>13 DEF Accounted
        <4>2. i = c \/ Before(reader, i, c)
          <5>1. CASE i \in Q
            BY <2>4, <5>1
          <5>2. CASE i \in Accounted
            <6>1. reader.cursor \in Ids /\ Upto(i) /\ Before(reader, reader.cursor, c)
              BY <1>1, <1>8, <1>9, <3>1, <5>2 DEF PlaceKept
            <6> QED
              BY <1>7, <3>1, <4>1, <6>1 DEF Upto
          <5> QED BY <1>13, <5>1, <5>2
        <4>3. i = c \/ Before(reader', i, c)
          BY <1>6, <3>1, <4>1, <4>2
        <4> QED BY <1>3, <4>3 DEF Upto, Before, order_by, parse
      <3>3. ASSUME NEW i \in stay', Upto(i)' PROVE i \in Accounted'
        <4>1. i \in stay /\ i \in Ids
          BY <1>1, <3>3
        <4>2. i = c \/ Before(reader', i, c)
          BY <1>3, <3>3 DEF Upto, Before, order_by, parse
        <4>3. i = c \/ Before(reader, i, c)
          BY <1>6, <3>1, <4>1, <4>2
        <4> QED
          BY <1>12, <1>13, <2>4, <4>1, <4>3
      <3> QED
        BY <1>3, <2>1, <2>2, <2>4, <3>1, <3>2, <3>3 DEF PlaceKept
    <2> QED BY <2>3, <2>4
  <1> QED
    BY <1>5, <1>14 DEF IInv

\* The cursor is the last row shown.
LEMMA ReadPassedStep ==
    ASSUME ListsAssumption, IInv, ReadPassed
    PROVE  IInv'
PROOF
  <1> DEFINE S == Following(reader, Answer(reader).rows)
             P == FirstPage(reader, S)
  <1>1. /\ Query(reader) /\ reader.list \in Lists /\ S \subseteq Ids /\ P \subseteq S
        /\ Kind(reader) = "last"
    BY Answers DEF IInv, TypeOK, Reader, ReadPassed, Following, FirstPage
  <1>2. PICK c \in Ids \cup {NoCursor} : LastShown(reader, S, c) /\ Show(P, c, {}, More(S))
    BY DEF ReadPassed
  <1>3. ~More(S) => c = NoCursor
    BY <1>2 DEF LastShown
  <1>4. ASSUME More(S)
        PROVE  /\ c \in P
               /\ \A i \in P : i = c \/ Before(reader, i, c)
               /\ \A i \in S : i = c \/ Before(reader, i, c) => i \in P
    <2>1. c \in P /\ \A i \in P : i = c \/ Before(reader, i, c)
      BY <1>2, <1>4 DEF LastShown
    <2>2. ASSUME NEW i \in S, Before(reader, i, c), i \notin P PROVE FALSE
      <3>1. Before(reader, c, i)
        BY <1>1, <2>1, <2>2, PageCut
      <3> QED
        BY <1>1, <2>1, <2>2, <3>1, Linear
    <2> QED BY <2>1, <2>2
  <1>5. ~reader.done /\ UNCHANGED <<table, stay, same, changes>>
    BY DEF ReadPassed
  <1> HIDE DEF S
  <1>6. S = Following(reader, Answer(reader).rows)
    BY DEF S
  <1> QED
    BY <1>1, <1>2, <1>3, <1>4, <1>5, <1>6, TurnPage

\* The cursor is the first row that was not shown, which is lost.
LEMMA ReadAheadStep ==
    ASSUME ListsAssumption, IInv, ReadAhead
    PROVE  IInv'
PROOF
  <1> DEFINE S == Following(reader, Answer(reader).rows)
             P == FirstPage(reader, S)
  <1>1. /\ Query(reader) /\ reader.list \in Lists /\ S \subseteq Ids /\ P \subseteq S
        /\ Kind(reader) = "hidden"
    BY Answers DEF IInv, TypeOK, Reader, ReadAhead, Following, FirstPage
  <1>2. PICK c \in Ids \cup {NoCursor} :
          FirstHidden(reader, S, c) /\ Show(P, c, {c} \ {NoCursor}, More(S))
    BY DEF ReadAhead
  <1>3. ~More(S) => c = NoCursor /\ {c} \ {NoCursor} = {}
    BY <1>2 DEF FirstHidden
  <1>4. ASSUME More(S)
        PROVE  /\ c \in S \ P /\ {c} \ {NoCursor} = {c}
               /\ \A i \in P \cup {c} : i = c \/ Before(reader, i, c)
               /\ \A i \in S : i = c \/ Before(reader, i, c) => i \in P \cup {c}
    <2>1. c \in S \ P /\ \A i \in (S \ P) \ {c} : Before(reader, c, i)
      BY <1>2, <1>4 DEF FirstHidden
    <2>2. {c} \ {NoCursor} = {c}
      BY <1>1, <2>1 DEF ListsAssumption
    <2>3. \A i \in P : Before(reader, i, c)
      BY <1>1, <2>1, PageCut
    <2>4. ASSUME NEW i \in S, Before(reader, i, c), i \notin P \cup {c} PROVE FALSE
      <3>1. Before(reader, c, i)
        BY <2>1, <2>4
      <3> QED
        BY <1>1, <2>1, <2>4, <3>1, Linear
    <2> QED BY <2>1, <2>2, <2>3, <2>4
  <1>5. ~reader.done /\ UNCHANGED <<table, stay, same, changes>>
    BY DEF ReadAhead
  <1>6. {c} \ {NoCursor} \in SUBSET (S \ P)
    BY <1>3, <1>4
  <1> HIDE DEF S
  <1>7. S = Following(reader, Answer(reader).rows)
    BY DEF S
  <1> QED
    BY <1>1, <1>2, <1>3, <1>4, <1>5, <1>6, <1>7, TurnPage

\* A list sorted by a column is read by page numbers: nothing is claimed of it.
LEMMA ReadSortedStep ==
    ASSUME ListsAssumption, IInv, ReadSorted
    PROVE  IInv'
PROOF
  <1> DEFINE S == Answer(reader).rows
             more == Cardinality(S) > reader.page * Limit
  <1>1. /\ Query(reader) /\ reader.list \in Lists /\ S \subseteq Ids
        /\ Kind(reader) = "page"
    BY Answers DEF IInv, TypeOK, Reader, ReadSorted
  <1>2. NthPage(reader, S) \subseteq Ids /\ more \in BOOLEAN
    BY <1>1 DEF NthPage
  <1>3. /\ Show(NthPage(reader, S), NoCursor, {}, more)
        /\ UNCHANGED <<table, stay, same, changes>>
    BY DEF ReadSorted
  <1> HIDE DEF more
  <1>4. /\ TypeOK' /\ Query(reader)' /\ (stay \subseteq Answer(reader).rows)'
        /\ Answer(reader)'.next = Kind(reader)
    BY <1>2, <1>3, Shows
  <1> QED
    BY <1>1, <1>4 DEF IInv

-----------------------------------------------------------------------------
(* Changes to the table *)

\* What Answers and Order say of the reader, in whatever state.
LEMMA ReaderNow == ReaderOrdered
  BY Answers, Order DEF ReaderOrdered

\* A change moves no row of a list with a cursor, and the rows that were there
\* all the time become fewer.
LEMMA UpdateStep ==
    ASSUME ListsAssumption, IInv, NEW i \in Ids, NEW column \in Column \cup {"gone"},
           Update(i, column)
    PROVE  IInv'
PROOF
  <1>1. /\ TypeOK /\ Query(reader) /\ reader.list \in Lists /\ reader \in Reader
        /\ UNCHANGED reader /\ stay' = stay \cap Answer(reader)'.rows
        /\ stay \subseteq Ids
    BY DEF IInv, TypeOK, Reader, Update
  <1>2. TypeOK'
    <2>1. table' \in [Ids -> Column \cup {"none", "gone"}]
      BY <1>1 DEF TypeOK, Update
    <2>2. same' \subseteq Ids /\ changes' \in Nat
      BY <1>1 DEF TypeOK, Update
    <2>3. stay' \subseteq Ids
      BY <1>1
    <2> QED BY <1>1, <2>1, <2>2, <2>3 DEF TypeOK
  <1>3. Query(reader)' /\ reader'.list \in Lists
    BY <1>1 DEF Query
  <1>4. /\ Answer(reader).next = Kind(reader)
        /\ Kind(reader) # "page" => \A k, j \in Ids : Before(reader, k, j) <=> Up(reader, k, j)
    BY <1>1, ReaderNow DEF ReaderOrdered
  <1>5. ReaderOrdered'
    BY ReaderNow, PTL
  <1>6. Kind(reader)' = Kind(reader) /\ Answer(reader)'.next = Answer(reader).next
    BY <1>1, <1>3, <1>4, <1>5 DEF Kind, ReaderOrdered
  <1>7. ASSUME Kind(reader) # "page" PROVE PlaceKept'
    <2>1. PlaceKept
      BY <1>4, <1>7 DEF IInv
    <2>2. Accounted' = Accounted /\ stay' \subseteq stay
      BY <1>1 DEF Accounted
    <2>3. \A k \in Ids : reader.cursor \in Ids => (Upto(k)' <=> Upto(k))
      <3> SUFFICES ASSUME NEW k \in Ids, reader.cursor \in Ids PROVE Upto(k)' <=> Upto(k)
        OBVIOUS
      <3>1. Before(reader, k, reader.cursor) <=> Up(reader, k, reader.cursor)
        BY <1>4, <1>7
      <3>2. Before(reader, k, reader.cursor)' <=> Up(reader, k, reader.cursor)
        BY <1>1, <1>3, <1>5, <1>6, <1>7 DEF Up, ReaderOrdered
      <3> QED BY <1>1, <3>1, <3>2 DEF Upto
    <2>4. Accounted \subseteq Ids /\ reader.cursor \in Ids \cup {NoCursor}
      BY <1>1 DEF Accounted, Reader
    <2>5. ~reader.done /\ reader.cursor # NoCursor =>
            /\ \A k \in Accounted : Upto(k)'
            /\ \A k \in stay : Upto(k)' => k \in Accounted
      BY <1>1, <2>1, <2>3, <2>4 DEF PlaceKept
    <2> QED
      BY <1>1, <1>6, <2>1, <2>2, <2>5 DEF PlaceKept
  <1> QED
    BY <1>1, <1>2, <1>3, <1>4, <1>6, <1>7 DEF IInv

-----------------------------------------------------------------------------
\* Before the first page nothing was shown.
LEMMA InitInv ==
    ASSUME ListsAssumption, Init
    PROVE  IInv
PROOF
  <1>1. Query(reader) /\ reader.list \in Lists /\ reader \in Reader
    <2>1. Query(reader) /\ reader.list \in Lists
      BY DEF Init
    <2>2. reader \in [list : Lists, status : {"any", "open"}, sort : {"none", "id", "column"},
                      asc : BOOLEAN, cursor : {NoCursor}, page : {1}, shown : {{}},
                      again : {{}}, skipped : {{}}, done : {FALSE}]
      BY DEF Init
    <2>3. /\ reader.list \in Lists /\ reader.status \in Column \cup {"any"}
          /\ reader.sort \in {"none", "id", "column"} /\ reader.asc \in BOOLEAN
          /\ reader.cursor \in Ids \cup {NoCursor} /\ reader.page \in Nat
          /\ reader.shown \in SUBSET Ids /\ reader.again \in SUBSET Ids
          /\ reader.skipped \in SUBSET Ids /\ reader.done \in BOOLEAN
      <3>1. /\ reader.list \in Lists /\ reader.status \in {"any", "open"}
            /\ reader.sort \in {"none", "id", "column"} /\ reader.asc \in BOOLEAN
            /\ reader.cursor \in {NoCursor} /\ reader.page \in {1}
        BY <2>2
      <3>2. /\ reader.shown \in {{}} /\ reader.again \in {{}}
            /\ reader.skipped \in {{}} /\ reader.done \in {FALSE}
        BY <2>2
      <3>3. /\ reader.shown = {} /\ reader.again = {} /\ reader.skipped = {}
            /\ reader.done \in BOOLEAN
        BY <3>2
      <3> QED BY <3>1, <3>3 DEF Column
    <2>4. reader = [list |-> reader.list, status |-> reader.status, sort |-> reader.sort,
                    asc |-> reader.asc, cursor |-> reader.cursor, page |-> reader.page,
                    shown |-> reader.shown, again |-> reader.again,
                    skipped |-> reader.skipped, done |-> reader.done]
      BY <2>2
    <2>5. reader \in Reader
      BY <2>3, <2>4 DEF Reader
    <2> QED BY <2>1, <2>5
  <1>2. Answer(reader).rows \subseteq Ids /\ stay = Answer(reader).rows
    BY <1>1, Answers DEF Init
  <1>3. TypeOK
    BY <1>1, <1>2 DEF Init, TypeOK
  <1>4. PlaceKept
    <2>1. /\ reader.cursor = NoCursor /\ reader.done = FALSE /\ reader.again = {}
          /\ reader.shown = {} /\ reader.skipped = {}
      BY DEF Init
    <2> QED BY <2>1 DEF PlaceKept, Accounted
  <1> QED
    BY <1>1, <1>2, <1>3, <1>4 DEF IInv

\* Whatever a step does.
LEMMA NextInv ==
    ASSUME ListsAssumption, IInv, [Next]_vars
    PROVE  IInv'
PROOF
  <1>1. CASE UNCHANGED vars
    <2>1. UNCHANGED <<table, reader, stay, same, changes>>
      BY <1>1 DEF vars
    <2> QED
      BY <2>1 DEF IInv, TypeOK, Query, PlaceKept, Accounted, Upto, Before, order_by, parse,
             Answer, Passed, Ahead, Sortable, Present, ayahs, list_bookmarks, notifications,
             transactions, messages_list, list_my, ustadz_public_reviews, requester_reviews,
             list_balances, list_adjustments, audit_list, admin_list_payments,
             admin_list_payouts, admin_list_visits, users_list, santri_list, ustadz_list,
             admin_reviews
  <1>2. CASE ReadPassed \/ ReadAhead \/ ReadSorted
    BY <1>2, ReadPassedStep, ReadAheadStep, ReadSortedStep
  <1>3. ASSUME NEW i \in Ids, NEW column \in Column, InsertRow(i, column) \/ ChangeRow(i, column)
        PROVE  IInv'
    BY <1>3, UpdateStep DEF InsertRow, ChangeRow
  <1>4. ASSUME NEW i \in Ids, DeleteRow(i) PROVE IInv'
    BY <1>4, UpdateStep DEF DeleteRow
  <1> QED
    BY <1>1, <1>2, <1>3, <1>4 DEF Next

-----------------------------------------------------------------------------
(* Places in an order, and what one changed row does to them *)

\* L orders the rows of R; the place of a row is the number of rows before it.
Orders(L, R) ==
    \A i, j, k \in R :
        /\ ~(<<i, j>> \in L /\ (i = j \/ <<j, i>> \in L))
        /\ <<i, j>> \in L /\ <<j, k>> \in L => <<i, k>> \in L
        /\ i = j \/ <<i, j>> \in L \/ <<j, i>> \in L

Rank(L, R, j) == Cardinality({k \in R : <<k, j>> \in L})

\* Places are numbers below the number of rows.
LEMMA RankBound ==
    ASSUME NEW L, NEW R, IsFiniteSet(R), Orders(L, R), NEW j \in R
    PROVE  /\ Rank(L, R, j) \in Nat /\ Cardinality(R) \in Nat
           /\ Rank(L, R, j) < Cardinality(R)
PROOF
  <1> DEFINE A == {k \in R : <<k, j>> \in L}
  <1>1. A \in SUBSET R /\ A # R
    BY DEF Orders
  <1>2. IsFiniteSet(A) /\ Cardinality(A) <= Cardinality(R) /\ Cardinality(A) # Cardinality(R)
    BY <1>1, FS_Subset
  <1>3. Cardinality(A) \in Nat /\ Cardinality(R) \in Nat
    BY <1>2, FS_CardinalityType
  <1> QED BY <1>2, <1>3 DEF Rank

\* A row further down has the higher place.
LEMMA RankLess ==
    ASSUME NEW L, NEW R, IsFiniteSet(R), Orders(L, R), NEW i \in R, NEW j \in R, <<i, j>> \in L
    PROVE  Rank(L, R, i) < Rank(L, R, j)
PROOF
  <1> DEFINE A == {k \in R : <<k, i>> \in L}
             B == {k \in R : <<k, j>> \in L}
  <1>1. A \in SUBSET B /\ i \in B \ A /\ B \in SUBSET R
    BY DEF Orders
  <1>2. IsFiniteSet(B)
    BY <1>1, FS_Subset
  <1>3. IsFiniteSet(A) /\ Cardinality(A) <= Cardinality(B) /\ Cardinality(A) # Cardinality(B)
    BY <1>1, <1>2, FS_Subset
  <1>4. Cardinality(A) \in Nat /\ Cardinality(B) \in Nat
    BY <1>2, <1>3, FS_CardinalityType
  <1> QED BY <1>3, <1>4 DEF Rank

\* No two rows have the same place.
LEMMA RankOne ==
    ASSUME NEW L, NEW R, IsFiniteSet(R), Orders(L, R), NEW i \in R, NEW j \in R,
           Rank(L, R, i) = Rank(L, R, j)
    PROVE  i = j
PROOF
  <1>1. Rank(L, R, i) \in Nat
    BY RankBound
  <1>2. i # j => Rank(L, R, i) < Rank(L, R, j) \/ Rank(L, R, j) < Rank(L, R, i)
    BY RankLess DEF Orders
  <1> QED BY <1>1, <1>2

\* Row i comes, goes or moves.
Moves(L, R, M, T, i) ==
    /\ IsFiniteSet(R) /\ Orders(L, R)
    /\ IsFiniteSet(T) /\ Orders(M, T)
    /\ R \ {i} = T \ {i}
    /\ \A j, k \in R \ {i} : <<j, k>> \in L <=> <<j, k>> \in M

\* Any other row moves by one place at most, down only if i is before it now.
LEMMA RankMoves ==
    ASSUME NEW L, NEW R, NEW M, NEW T, NEW i, Moves(L, R, M, T, i), NEW j \in R \ {i}
    PROVE  /\ j \in T
           /\ Rank(M, T, j) <= Rank(L, R, j) + 1
           /\ Rank(L, R, j) <= Rank(M, T, j) + 1
           /\ Rank(L, R, j) < Rank(M, T, j) => i \in T /\ <<i, j>> \in M
PROOF
  <1> DEFINE A == {k \in R : <<k, j>> \in L}
             B == {k \in T : <<k, j>> \in M}
             C == {k \in R \ {i} : <<k, j>> \in L}
  <1>1. j \in T /\ C = A \ {i} /\ C = B \ {i}
    BY DEF Moves
  <1>2. IsFiniteSet(A) /\ IsFiniteSet(B)
    <2>1. A \in SUBSET R /\ B \in SUBSET T
      OBVIOUS
    <2> QED BY <2>1, FS_Subset DEF Moves
  <1>3. Cardinality(A) \in Nat /\ Cardinality(B) \in Nat
    BY <1>2, FS_CardinalityType
  <1> HIDE DEF A, B, C
  <1>4. /\ Cardinality(C) = IF i \in A THEN Cardinality(A) - 1 ELSE Cardinality(A)
        /\ Cardinality(C) = IF i \in B THEN Cardinality(B) - 1 ELSE Cardinality(B)
    BY <1>1, <1>2, FS_RemoveElement
  <1>5. i \in B => i \in T /\ <<i, j>> \in M
    BY DEF B
  <1>6. Rank(L, R, j) = Cardinality(A) /\ Rank(M, T, j) = Cardinality(B)
    BY DEF Rank, A, B
  <1> QED BY <1>1, <1>3, <1>4, <1>5, <1>6

\* One row at most comes to lie behind a place that was not behind it.
LEMMA OneFallsBehind ==
    ASSUME NEW L, NEW R, NEW M, NEW T, NEW i, Moves(L, R, M, T, i), NEW e \in Int
    PROVE  \E x : {k \in T : Rank(M, T, k) >= e} \subseteq {k \in R : Rank(L, R, k) >= e} \cup {x}
PROOF
  <1> DEFINE Was == {k \in R : Rank(L, R, k) >= e}
             Is  == {k \in T : Rank(M, T, k) >= e}
  <1>1. /\ \A k \in R : Rank(L, R, k) \in Nat
        /\ \A k \in T : Rank(M, T, k) \in Nat
    BY RankBound DEF Moves
  <1>2. ASSUME NEW k \in Is, k \notin Was, k # i
        PROVE  /\ k \in R /\ Rank(L, R, k) = e - 1
               /\ i \notin Is
    <2>1. k \in R \ {i} /\ k \in T
      BY <1>2 DEF Moves
    <2>2. Rank(L, R, k) < e /\ Rank(M, T, k) >= e
      BY <1>1, <1>2, <2>1
    <2>3. /\ Rank(M, T, k) <= Rank(L, R, k) + 1
          /\ i \in T /\ <<i, k>> \in M
      BY <1>1, <2>1, <2>2, RankMoves
    <2>4. Rank(L, R, k) = e - 1 /\ Rank(M, T, k) = e
      BY <1>1, <2>1, <2>2, <2>3
    <2>5. Rank(M, T, i) < e
      BY <2>1, <2>3, <2>4, RankLess DEF Moves
    <2>6. i \notin Is
      BY <1>1, <2>3, <2>5
    <2> QED BY <2>1, <2>4, <2>6
  <1>3. CASE \E k \in Is : k \notin Was /\ k # i
    <2>1. PICK x \in Is : x \notin Was /\ x # i
      BY <1>3
    <2>2. ASSUME NEW k \in Is, k \notin Was PROVE k = x
      <3>1. k # i
        BY <1>2, <2>1, <2>2
      <3>2. /\ k \in R /\ Rank(L, R, k) = e - 1
            /\ x \in R /\ Rank(L, R, x) = e - 1
        BY <1>2, <2>1, <2>2, <3>1
      <3> QED BY <3>2, RankOne DEF Moves
    <2> QED BY <2>2
  <1>4. CASE \A k \in Is : k \in Was \/ k = i
    BY <1>4
  <1> QED BY <1>3, <1>4

\* And one row at most, the changed one apart, to lie before it.
LEMMA OneSlipsBefore ==
    ASSUME NEW L, NEW R, NEW M, NEW T, NEW i, Moves(L, R, M, T, i), NEW e \in Int
    PROVE  \E x : {k \in T \ {i} : Rank(M, T, k) < e} \subseteq {k \in R : Rank(L, R, k) < e} \cup {x}
PROOF
  <1> DEFINE Was == {k \in R : Rank(L, R, k) < e}
             Is  == {k \in T \ {i} : Rank(M, T, k) < e}
  <1>1. /\ \A k \in R : Rank(L, R, k) \in Nat
        /\ \A k \in T : Rank(M, T, k) \in Nat
    BY RankBound DEF Moves
  <1>2. ASSUME NEW k \in Is, k \notin Was PROVE k \in R /\ Rank(L, R, k) = e
    <2>1. k \in R \ {i} /\ k \in T
      BY <1>2 DEF Moves
    <2>2. Rank(L, R, k) <= Rank(M, T, k) + 1
      BY <2>1, RankMoves
    <2> QED BY <1>1, <1>2, <2>1, <2>2
  <1>3. CASE \E x \in Is : x \notin Was
    <2>1. PICK x \in Is : x \notin Was
      BY <1>3
    <2>2. ASSUME NEW k \in Is, k \notin Was PROVE k = x
      BY <1>2, <2>1, <2>2, RankOne DEF Moves
    <2> QED BY <2>2
  <1>4. CASE Is \subseteq Was
    BY <1>4
  <1> QED BY <1>3, <1>4

\* A set that grew by one element at most.
LEMMA GrownByOne ==
    ASSUME NEW S, IsFiniteSet(S), NEW x, NEW T, T \subseteq S \cup {x}
    PROVE  Cardinality(T) <= Cardinality(S) + 1 /\ Cardinality(S) \in Nat /\ Cardinality(T) \in Nat
PROOF
  <1>1. IsFiniteSet(S \cup {x}) /\ Cardinality(S \cup {x}) <= Cardinality(S) + 1 /\ Cardinality(S) \in Nat
    BY FS_AddElement, FS_CardinalityType
  <1>2. IsFiniteSet(T) /\ Cardinality(T) <= Cardinality(S \cup {x}) /\ Cardinality(S \cup {x}) \in Nat
    BY <1>1, FS_Subset, FS_CardinalityType
  <1> QED BY <1>1, <1>2, FS_CardinalityType

-----------------------------------------------------------------------------
(* The lists sorted by a column *)

Rows     == Answer(reader).rows
Precedes == {p \in Ids \X Ids : Before(reader, p[1], p[2])}
Sorted   == Kind(reader) = "page"

\* The rows of a sorted list are those of the filter, in the order of the
\* column and the ids.
LEMMA SortedRows ==
    ASSUME ListsAssumption, TypeOK, Query(reader), Sorted
    PROVE  /\ Rows = Present(reader.status) /\ reader.list \in SortedLists
           /\ IsFiniteSet(Rows) /\ Rows \subseteq Ids
           /\ Orders(Precedes, Rows)
           /\ \A i \in Rows : Place(reader, Rows, i) = Rank(Precedes, Rows, i)
PROOF
  <1>1. reader.list \in SortedLists /\ reader.sort \in {"id", "column"} /\ reader.asc \in BOOLEAN
    BY DEF TypeOK, Reader, Query, Sorted, Kind, Lists
  <1>2. Rows = Present(reader.status)
    BY <1>1 DEF Rows, SortedLists, Answer, Sortable, admin_list_payments, admin_list_payouts,
                admin_list_visits, users_list, santri_list, ustadz_list, admin_reviews
  <1>3. Rows \subseteq Ids /\ \A i \in Rows : table[i] \in Column
    BY <1>2 DEF Present
  <1>4. IsFiniteSet(Rows)
    BY <1>3, FS_Subset DEF ListsAssumption
  <1>5. reader.list # "ayahs"
    BY <1>1 DEF SortedLists
  <1>6. Ids \subseteq Nat
    BY DEF ListsAssumption
  <1>7. ASSUME NEW i \in Rows, NEW j \in Rows
        PROVE  <<i, j>> \in Precedes <=> Before(reader, i, j)
    BY <1>3 DEF Precedes
  <1>8. ASSUME NEW i \in Rows, NEW j \in Rows, NEW k \in Rows
        PROVE  /\ ~(Before(reader, i, j) /\ (i = j \/ Before(reader, j, i)))
               /\ Before(reader, i, j) /\ Before(reader, j, k) => Before(reader, i, k)
               /\ i = j \/ Before(reader, i, j) \/ Before(reader, j, i)
    <2>1. /\ i \in Nat /\ j \in Nat /\ k \in Nat
          /\ table[i] \in Column /\ table[j] \in Column /\ table[k] \in Column
      BY <1>3, <1>6
    <2>2. CASE reader.sort = "id" /\ reader.asc
      BY <1>5, <2>1, <2>2 DEF Before, order_by, parse
    <2>3. CASE reader.sort = "id" /\ ~reader.asc
      BY <1>5, <2>1, <2>3 DEF Before, order_by, parse
    <2>4. CASE reader.sort = "column" /\ reader.asc
      BY <1>5, <2>1, <2>4 DEF Before, order_by, parse, Column
    <2>5. CASE reader.sort = "column" /\ ~reader.asc
      BY <1>5, <2>1, <2>5 DEF Before, order_by, parse, Column
    <2> QED BY <1>1, <2>2, <2>3, <2>4, <2>5
  <1>9. Orders(Precedes, Rows)
    <2> SUFFICES ASSUME NEW i \in Rows, NEW j \in Rows, NEW k \in Rows
                 PROVE  /\ ~(<<i, j>> \in Precedes /\ (i = j \/ <<j, i>> \in Precedes))
                        /\ <<i, j>> \in Precedes /\ <<j, k>> \in Precedes => <<i, k>> \in Precedes
                        /\ i = j \/ <<i, j>> \in Precedes \/ <<j, i>> \in Precedes
      BY Zenon DEF Orders
    <2>1. /\ <<i, j>> \in Precedes <=> Before(reader, i, j)
          /\ <<j, i>> \in Precedes <=> Before(reader, j, i)
          /\ <<j, k>> \in Precedes <=> Before(reader, j, k)
          /\ <<i, k>> \in Precedes <=> Before(reader, i, k)
      BY <1>7
    <2>2. /\ ~(Before(reader, i, j) /\ (i = j \/ Before(reader, j, i)))
          /\ Before(reader, i, j) /\ Before(reader, j, k) => Before(reader, i, k)
          /\ i = j \/ Before(reader, i, j) \/ Before(reader, j, i)
      BY <1>8
    <2> QED BY <2>1, <2>2
  <1>10. ASSUME NEW i \in Rows PROVE Place(reader, Rows, i) = Rank(Precedes, Rows, i)
    <2>1. {j \in Rows : Before(reader, j, i)} = {k \in Rows : <<k, i>> \in Precedes}
      BY <1>7
    <2> QED BY <2>1 DEF Place, Rank
  <1> QED BY <1>1, <1>2, <1>3, <1>4, <1>9, <1>10

\* DriftInv, with places as ranks.
LateNow   == {i \in Rows : Rank(Precedes, Rows, i) >= Edge}
MissedNow == {i \in Rows : Rank(Precedes, Rows, i) < Edge}
Drifts ==
    /\ Cardinality(reader.again \cup (LateNow \cap reader.shown)) <= changes
    /\ Cardinality((MissedNow \cap stay \cap same) \ reader.shown) <= changes
    /\ reader.done => Cardinality(Rows) <= Edge

LEMMA DriftSays ==
    ASSUME ListsAssumption, IInv
    PROVE  /\ Answer(reader).next = "page" <=> Sorted
           /\ Sorted => (DriftInv <=> Drifts)
PROOF
  <1>1. /\ TypeOK /\ Query(reader) /\ reader.list \in Lists /\ stay \subseteq Rows
    BY DEF IInv, TypeOK, Reader, Rows
  <1>2. Answer(reader).next = "page" <=> Sorted
    BY <1>1, Answers DEF Sorted
  <1>3. ASSUME Sorted PROVE DriftInv <=> Drifts
    <2>1. \A i \in Rows : Place(reader, Rows, i) = Rank(Precedes, Rows, i)
      BY <1>1, <1>3, SortedRows
    <2>2. Late = LateNow \cap reader.shown
      BY <2>1 DEF Late, LateNow, Rows
    <2>3. Missed = (MissedNow \cap stay \cap same) \ reader.shown
      BY <1>1, <2>1 DEF Missed, MissedNow, Rows
    <2> QED BY <1>2, <1>3, <2>2, <2>3 DEF DriftInv, Drifts, Rows
  <1> QED BY <1>2, <1>3

\* The facts above, of any state: so that they hold of the next one.
SortedFacts ==
    TypeOK /\ Query(reader) /\ Sorted =>
        /\ Rows = Present(reader.status) /\ reader.list \in SortedLists
        /\ IsFiniteSet(Rows) /\ Rows \subseteq Ids
        /\ Orders(Precedes, Rows)

LEMMA SortedNow == SortedFacts
  BY ListsAssumption, SortedRows DEF SortedFacts

LEMMA DriftNow == IInv => (Answer(reader).next = "page" <=> Sorted) /\ (Sorted => (DriftInv <=> Drifts))
  BY ListsAssumption, DriftSays

\* Nothing was shown, and nothing passed.
LEMMA InitDrift ==
    ASSUME ListsAssumption, Init
    PROVE  DriftInv
PROOF
  <1>1. IInv
    BY InitInv
  <1>2. reader.page = 1 /\ reader.shown = {} /\ reader.again = {} /\ ~reader.done /\ changes = 0
    BY DEF Init
  <1>3. Edge = 0
    BY <1>2 DEF Edge, ListsAssumption
  <1>4. ASSUME Sorted PROVE Drifts
    <2>1. \A i \in Rows : Rank(Precedes, Rows, i) \in Nat
      BY <1>1, <1>4, SortedRows, RankBound DEF IInv
    <2>2. MissedNow = {}
      BY <1>3, <2>1 DEF MissedNow
    <2>3. Cardinality({}) = 0
      BY FS_EmptySet
    <2>4. reader.again \cup (LateNow \cap reader.shown) = {}
      BY <1>2
    <2>5. (MissedNow \cap stay \cap same) \ reader.shown = {}
      BY <2>2
    <2>6. /\ Cardinality(reader.again \cup (LateNow \cap reader.shown)) <= changes
          /\ Cardinality((MissedNow \cap stay \cap same) \ reader.shown) <= changes
      BY <1>2, <2>3, <2>4, <2>5
    <2> QED BY <1>2, <2>6 DEF Drifts
  <1> QED BY <1>1, <1>4, DriftSays DEF DriftInv

\* A page moves the edge over what it shows.
LEMMA ReadSortedDrift ==
    ASSUME ListsAssumption, IInv, DriftInv, ReadSorted
    PROVE  DriftInv'
PROOF
  <1> DEFINE more == Cardinality(Rows) > reader.page * Limit
  <1>1. /\ TypeOK /\ Query(reader) /\ reader \in Reader /\ reader.list \in Lists
        /\ Sorted /\ Drifts /\ stay \subseteq Rows
    BY DriftSays DEF ReadSorted, IInv, TypeOK, Reader, Rows
  <1>2. /\ IsFiniteSet(Rows) /\ Rows \subseteq Ids /\ Orders(Precedes, Rows)
        /\ \A i \in Rows : Place(reader, Rows, i) = Rank(Precedes, Rows, i)
    BY <1>1, SortedRows
  <1>3. \A i \in Rows : Rank(Precedes, Rows, i) \in Nat
    BY <1>2, RankBound
  <1>4. /\ Show(NthPage(reader, Rows), NoCursor, {}, more)
        /\ UNCHANGED <<table, stay, same, changes>>
    BY DEF ReadSorted, Rows
  <1>5. /\ reader'.shown = reader.shown \cup NthPage(reader, Rows)
        /\ reader'.again = reader.again \cup (NthPage(reader, Rows) \cap reader.shown)
        /\ reader'.page = reader.page + 1 /\ reader'.done = ~more
        /\ reader'.list = reader.list /\ reader'.status = reader.status
        /\ reader'.sort = reader.sort /\ reader'.asc = reader.asc
    BY <1>1, <1>4 DEF Show, Reader
  <1>6. IInv'
    BY ReadSortedStep
  <1>7. Sorted' /\ Rows' = Rows /\ Precedes' = Precedes
    <2>1. Sorted'
      BY <1>1, <1>5 DEF Sorted, Kind
    <2>2. SortedFacts'
      BY SortedNow, PTL
    <2>3. Rows' = Present(reader.status)' /\ Rows = Present(reader.status)
      BY <1>1, <1>6, <2>1, <2>2, SortedRows DEF SortedFacts, IInv
    <2>4. Rows' = Rows
      BY <1>4, <1>5, <2>3 DEF Present
    <2>5. Precedes' = Precedes
      BY <1>4, <1>5 DEF Precedes, Before, order_by, parse
    <2> QED BY <2>1, <2>4, <2>5
  <1>8. /\ reader.page \in Nat /\ Limit \in Nat /\ Edge' = reader.page * Limit
        /\ Edge \in Int /\ Edge' \in Int /\ Edge <= Edge'
    <2>1. reader.page \in Nat /\ Limit \in Nat
      BY <1>1 DEF Reader, ListsAssumption
    <2>2. Edge' = (reader.page + 1 - 1) * Limit /\ reader.page + 1 - 1 = reader.page
      BY <1>5, <2>1 DEF Edge
    <2>3. (reader.page - 1) * Limit = reader.page * Limit - Limit
      BY <2>1
    <2>4. reader.page * Limit \in Nat
      BY <2>1
    <2> QED BY <2>1, <2>2, <2>3, <2>4 DEF Edge
  <1>9. NthPage(reader, Rows) = {i \in Rows : Edge <= Rank(Precedes, Rows, i)
                                              /\ Rank(Precedes, Rows, i) < Edge'}
    BY <1>2, <1>8 DEF NthPage, Edge
  <1> DEFINE N == NthPage(reader, Rows)
  <1>10. /\ LateNow' = {i \in Rows : Rank(Precedes, Rows, i) >= Edge'}
         /\ MissedNow' = {i \in Rows : Rank(Precedes, Rows, i) < Edge'}
    BY <1>7 DEF LateNow, MissedNow
  <1>11. LateNow' \cap N = {} /\ LateNow' \subseteq LateNow /\ N \subseteq LateNow
    BY <1>3, <1>8, <1>9, <1>10 DEF LateNow
  <1>12. MissedNow' \subseteq MissedNow \cup N
    BY <1>3, <1>8, <1>9, <1>10 DEF MissedNow
  <1>13. /\ reader'.again \cup (LateNow' \cap reader'.shown) \subseteq
               reader.again \cup (LateNow \cap reader.shown)
         /\ (MissedNow' \cap stay' \cap same') \ reader'.shown \subseteq
               (MissedNow \cap stay \cap same) \ reader.shown
    BY <1>4, <1>5, <1>11, <1>12
  <1>14. /\ IsFiniteSet(reader.again \cup (LateNow \cap reader.shown))
         /\ IsFiniteSet((MissedNow \cap stay \cap same) \ reader.shown)
    <2>1. /\ reader.again \cup (LateNow \cap reader.shown) \in SUBSET Ids
          /\ (MissedNow \cap stay \cap same) \ reader.shown \in SUBSET Ids
      BY <1>1, <1>2 DEF Reader, LateNow, MissedNow
    <2> QED BY <2>1, FS_Subset DEF ListsAssumption
  <1>15. /\ Cardinality(reader'.again \cup (LateNow' \cap reader'.shown)) <= changes
         /\ Cardinality((MissedNow' \cap stay' \cap same') \ reader'.shown) <= changes
    <2>1. ASSUME NEW S, IsFiniteSet(S), Cardinality(S) <= changes, NEW T \in SUBSET S
          PROVE  Cardinality(T) <= changes
      <3>1. Cardinality(T) <= Cardinality(S) /\ Cardinality(T) \in Nat /\ Cardinality(S) \in Nat
        BY <2>1, FS_Subset, FS_CardinalityType
      <3>2. changes \in Nat
        BY <1>1 DEF TypeOK
      <3> QED BY <2>1, <3>1, <3>2
    <2> QED BY <1>1, <1>13, <1>14, <2>1 DEF Drifts
  <1>16. reader'.done => Cardinality(Rows) <= Edge'
    <2>1. Cardinality(Rows) \in Nat /\ reader.page * Limit \in Nat
      BY <1>2, <1>8, FS_CardinalityType
    <2>2. ~more => Cardinality(Rows) <= reader.page * Limit
      BY <2>1
    <2> HIDE DEF more
    <2>3. reader'.done => ~more
      BY <1>5
    <2> QED BY <1>8, <2>2, <2>3
  <1>17. Drifts'
    BY <1>4, <1>7, <1>15, <1>16 DEF Drifts
  <1> QED BY <1>6, <1>7, <1>17, DriftNow, PTL

\* A changed row moves the others by one place at most.
LEMMA UpdateDrift ==
    ASSUME ListsAssumption, IInv, DriftInv, NEW i \in Ids, NEW column \in Column \cup {"gone"},
           Update(i, column)
    PROVE  DriftInv'
PROOF
  <1>1. IInv'
    BY UpdateStep
  <1>2. SUFFICES ASSUME Sorted' PROVE Drifts'
    BY <1>1, DriftNow, PTL DEF DriftInv
  <1>3. /\ reader' = reader /\ ~reader.done
        /\ table' = [table EXCEPT ![i] = column]
        /\ stay' \subseteq stay /\ same' = same \ {i} /\ changes' = changes + 1
    BY DEF Update
  <1>4. /\ TypeOK /\ Query(reader) /\ Sorted /\ Drifts /\ stay \subseteq Rows
        /\ reader \in Reader /\ changes \in Nat /\ table \in [Ids -> Column \cup {"none", "gone"}]
    BY <1>2, <1>3, DriftSays DEF Sorted, IInv, TypeOK, Rows
  <1>5. /\ Rows = Present(reader.status) /\ reader.list \in SortedLists
        /\ IsFiniteSet(Rows) /\ Rows \subseteq Ids /\ Orders(Precedes, Rows)
    BY <1>4, SortedRows
  <1>6. /\ Rows' = Present(reader.status)'
        /\ IsFiniteSet(Rows') /\ Rows' \subseteq Ids /\ Orders(Precedes', Rows')
    <2>1. SortedFacts'
      BY SortedNow, PTL
    <2> QED BY <1>1, <1>2, <2>1 DEF SortedFacts, IInv
  <1>7. \A k \in Ids \ {i} : table'[k] = table[k]
    BY <1>3, <1>4
  <1>8. Rows \ {i} = Rows' \ {i}
    BY <1>3, <1>5, <1>6, <1>7 DEF Present
  <1>9. ASSUME NEW j \in Rows \ {i}, NEW k \in Rows \ {i}
        PROVE  <<j, k>> \in Precedes <=> <<j, k>> \in Precedes'
    <2>1. j \in Ids /\ k \in Ids /\ table'[j] = table[j] /\ table'[k] = table[k]
      BY <1>5, <1>7
    <2>2. /\ <<j, k>> \in Precedes <=> Before(reader, j, k)
          /\ <<j, k>> \in Precedes' <=> Before(reader, j, k)'
      BY <1>3, <2>1 DEF Precedes
    <2>3. Before(reader, j, k) <=> Before(reader, j, k)'
      BY <1>3, <2>1 DEF Before, order_by
    <2> QED BY <2>2, <2>3
  <1>10. Moves(Precedes, Rows, Precedes', Rows', i)
    BY <1>5, <1>6, <1>8, <1>9 DEF Moves
  <1>11. Edge \in Int /\ Edge' = Edge
    BY <1>3, <1>4 DEF Edge, Reader, ListsAssumption
  <1> DEFINE again  == reader.again \cup (LateNow \cap reader.shown)
             missed == (MissedNow \cap stay \cap same) \ reader.shown
  <1>12. IsFiniteSet(again) /\ IsFiniteSet(missed)
    <2>1. again \in SUBSET Ids /\ missed \in SUBSET Ids
      BY <1>4, <1>5 DEF Reader, LateNow, MissedNow
    <2> QED BY <2>1, FS_Subset DEF ListsAssumption
  <1>13. Cardinality(reader'.again \cup (LateNow' \cap reader'.shown)) <= changes'
    <2>1. PICK x : LateNow' \subseteq LateNow \cup {x}
      BY <1>10, <1>11, OneFallsBehind DEF LateNow
    <2>2. reader'.again \cup (LateNow' \cap reader'.shown) \subseteq again \cup {x}
      BY <1>3, <2>1
    <2> HIDE DEF again
    <2>3. Cardinality(reader'.again \cup (LateNow' \cap reader'.shown)) <= Cardinality(again) + 1
          /\ Cardinality(again) \in Nat
          /\ Cardinality(reader'.again \cup (LateNow' \cap reader'.shown)) \in Nat
      BY <1>12, <2>2, GrownByOne
    <2>4. Cardinality(again) <= changes
      BY <1>4 DEF Drifts, again
    <2> QED BY <1>3, <1>4, <2>3, <2>4
  <1>14. Cardinality((MissedNow' \cap stay' \cap same') \ reader'.shown) <= changes'
    <2>1. PICK x : MissedNow' \ {i} \subseteq MissedNow \cup {x}
      <3>1. \E x : {k \in Rows' \ {i} : Rank(Precedes', Rows', k) < Edge}
                       \subseteq {k \in Rows : Rank(Precedes, Rows, k) < Edge} \cup {x}
        BY <1>10, <1>11, OneSlipsBefore
      <3>2. MissedNow' \ {i} = {k \in Rows' \ {i} : Rank(Precedes', Rows', k) < Edge}
        BY <1>11 DEF MissedNow
      <3> QED BY <3>1, <3>2 DEF MissedNow
    <2>2. (MissedNow' \cap stay' \cap same') \ reader'.shown \subseteq missed \cup {x}
      BY <1>3, <2>1
    <2> HIDE DEF missed
    <2>3. /\ Cardinality((MissedNow' \cap stay' \cap same') \ reader'.shown)
                <= Cardinality(missed) + 1
          /\ Cardinality(missed) \in Nat
          /\ Cardinality((MissedNow' \cap stay' \cap same') \ reader'.shown) \in Nat
      BY <1>12, <2>2, GrownByOne
    <2>4. Cardinality(missed) <= changes
      BY <1>4 DEF Drifts, missed
    <2> QED BY <1>3, <1>4, <2>3, <2>4
  <1> QED BY <1>3, <1>13, <1>14 DEF Drifts

\* Whatever a step does.
LEMMA NextDrift ==
    ASSUME ListsAssumption, IInv, DriftInv, [Next]_vars
    PROVE  DriftInv'
PROOF
  <1>1. CASE UNCHANGED vars
    <2>1. UNCHANGED <<table, reader, stay, same, changes>>
      BY <1>1 DEF vars
    <2>2. IInv'
      BY NextInv
    <2>3. Sorted' <=> Sorted
      BY <2>1 DEF Sorted, Kind
    <2>4. Drifts' <=> Drifts
      BY <2>1 DEF Drifts, LateNow, MissedNow, Edge, Rows, Precedes, Before, order_by, Answer,
                  Passed, Ahead, Sortable, Present, ayahs, list_bookmarks, notifications,
                  transactions, messages_list, list_my, ustadz_public_reviews,
                  requester_reviews, list_balances, list_adjustments, audit_list,
                  admin_list_payments, admin_list_payouts, admin_list_visits, users_list,
                  santri_list, ustadz_list, admin_reviews
    <2>5. Sorted' => Drifts'
      BY <2>3, <2>4, DriftNow
    <2>6. IInv' => /\ (Answer(reader).next = "page")' <=> Sorted'
                   /\ Sorted' => (DriftInv' <=> Drifts')
      BY DriftNow, PTL
    <2> QED BY <2>2, <2>5, <2>6 DEF DriftInv
  <1>2. CASE ReadSorted
    BY <1>2, ReadSortedDrift
  <1>3. CASE ReadPassed \/ ReadAhead
    <2>1. IInv'
      BY <1>3, ReadPassedStep, ReadAheadStep
    <2>2. ~Sorted
      BY <1>3, DriftNow DEF ReadPassed, ReadAhead
    <2>3. PICK items, c, skip, more : Show(items, c, skip, more)
      BY <1>3 DEF ReadPassed, ReadAhead
    <2>4. /\ reader'.list = reader.list /\ reader'.status = reader.status
          /\ reader'.sort = reader.sort /\ reader'.asc = reader.asc
      BY <2>3 DEF Show, IInv, TypeOK, Reader
    <2>5. ~Sorted'
      BY <2>2, <2>4 DEF Sorted, Kind
    <2>6. IInv' => ((Answer(reader).next = "page")' <=> Sorted')
      BY DriftNow, PTL
    <2> QED BY <2>1, <2>5, <2>6 DEF DriftInv
  <1>4. ASSUME NEW i \in Ids, NEW column \in Column, InsertRow(i, column) \/ ChangeRow(i, column)
        PROVE  DriftInv'
    BY <1>4, UpdateDrift DEF InsertRow, ChangeRow
  <1>5. ASSUME NEW i \in Ids, DeleteRow(i) PROVE DriftInv'
    BY <1>5, UpdateDrift DEF DeleteRow
  <1> QED
    BY <1>1, <1>2, <1>3, <1>4, <1>5 DEF Next

-----------------------------------------------------------------------------
(* Theorems *)

\* How far a client is in a list with a cursor says what it was shown.
THEOREM Lists_Invariant == Spec => []IInv
PROOF
  <1>1. Init => IInv
    BY ListsAssumption, InitInv
  <1>2. IInv /\ [Next]_vars => IInv'
    BY ListsAssumption, NextInv
  <1> QED BY <1>1, <1>2, PTL DEF Spec

\* Verses, bookmarks and notifications: who reads to the end has seen every row
\* that was there all the time, and none twice, whatever changed meanwhile.
THEOREM Passed_Lists_Show_All == Spec => []PassedListsShowAll
PROOF
  <1>1. IInv => PassedListsShowAll
    <2> SUFFICES ASSUME IInv, reader.list \in PassedLists
                 PROVE  /\ reader.done => stay \subseteq reader.shown
                        /\ reader.again = {}
      BY DEF PassedListsShowAll
    <2>1. Query(reader) /\ reader.list \in Lists
      BY DEF IInv, Lists
    <2>2. Answer(reader).next = "last"
      BY <2>1, ReaderNow DEF Kind, ReaderOrdered
    <2> QED BY <2>2 DEF IInv, PlaceKept, Accounted
  <1> QED BY <1>1, Lists_Invariant, PTL

\* The lists that name the first row not shown lose exactly those rows.
THEOREM Ahead_Lists_Lose_Their_Cursors == Spec => []AheadListsLoseTheirCursors
PROOF
  <1>1. IInv => AheadListsLoseTheirCursors
    BY DEF IInv, PlaceKept, Accounted, AheadListsLoseTheirCursors
  <1> QED BY <1>1, Lists_Invariant, PTL

\* A list sorted by a column, read page by page: never more rows that nobody
\* touched are missed, and never more are shown twice, than changes were made.
THEOREM Sorted_Lists_Drift_Is_Bounded == Spec => []SortedListsDriftIsBounded
PROOF
  <1>1. Init => IInv /\ DriftInv
    BY ListsAssumption, InitInv, InitDrift
  <1>2. IInv /\ DriftInv /\ [Next]_vars => IInv' /\ DriftInv'
    BY ListsAssumption, NextInv, NextDrift
  <1>3. IInv /\ DriftInv => SortedListsDriftIsBounded
    <2> SUFFICES ASSUME IInv, DriftInv, Answer(reader).next = "page"
                 PROVE  /\ reader.done => Cardinality((stay \cap same) \ reader.shown) <= changes
                        /\ Cardinality(reader.again) <= changes
      BY DEF SortedListsDriftIsBounded
    <2>1. /\ Sorted /\ Drifts /\ TypeOK /\ Query(reader) /\ reader \in Reader
          /\ stay \subseteq Rows /\ changes \in Nat
      BY DriftNow DEF IInv, TypeOK, Rows
    <2>2. /\ IsFiniteSet(Rows) /\ Rows \subseteq Ids /\ Orders(Precedes, Rows)
      BY <2>1, SortedRows, ListsAssumption
    <2>3. Cardinality(reader.again) <= changes
      <3> DEFINE again == reader.again \cup (LateNow \cap reader.shown)
      <3>1. again \in SUBSET Ids /\ reader.again \in SUBSET again
        BY <2>1, <2>2 DEF Reader, LateNow
      <3>2. IsFiniteSet(again)
        BY <3>1, ListsAssumption, FS_Subset DEF ListsAssumption
      <3>3. Cardinality(again) <= changes
        BY <2>1 DEF Drifts
      <3> HIDE DEF again
      <3>4. /\ Cardinality(reader.again) <= Cardinality(again)
            /\ Cardinality(reader.again) \in Nat /\ Cardinality(again) \in Nat
        BY <3>1, <3>2, FS_Subset, FS_CardinalityType
      <3> QED BY <2>1, <3>3, <3>4
    <2>4. ASSUME reader.done PROVE Cardinality((stay \cap same) \ reader.shown) <= changes
      <3>1. Cardinality(Rows) <= Edge /\ Edge \in Int
        BY <2>1, <2>4, ListsAssumption DEF Drifts, Edge, Reader, ListsAssumption
      <3>2. \A i \in Rows : Rank(Precedes, Rows, i) < Edge
        BY <2>2, <3>1, RankBound
      <3>3. (stay \cap same) \ reader.shown = (MissedNow \cap stay \cap same) \ reader.shown
        BY <2>1, <3>2 DEF MissedNow
      <3> QED BY <2>1, <3>3 DEF Drifts
    <2> QED BY <2>3, <2>4
  <1> QED BY <1>1, <1>2, <1>3, PTL DEF Spec
=============================================================================
