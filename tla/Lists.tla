------------------------------- MODULE Lists -------------------------------
(***************************************************************************)
(* The paged lists of the service: one client walks through one list, page *)
(* by page, while the table under it changes.                              *)
(*                                                                         *)
(* Every list endpoint reads limit + 1 rows with one SELECT, shows the     *)
(* first limit of them and names the cursor of the next page.  They differ *)
(* in the rows they select, in the order (the newest first, the verses of  *)
(* a surah upwards, or a column of the client's choice), and in the row    *)
(* the cursor names: the last one shown, the first one not shown, or, in   *)
(* the sorted mode, a page number instead of a cursor.                     *)
(*                                                                         *)
(* Rows are their ids, which AUTO_INCREMENT hands out upwards.  The one    *)
(* column a row has here stands for whatever the endpoint filters and      *)
(* sorts by: a status, a role, read or unread, revealed or not.  Columns   *)
(* that are only shown are left out; the visits, names and avatars the     *)
(* admin's lists look up for each row change nothing of which rows come.   *)
(***************************************************************************)
EXTENDS Integers, FiniteSets

CONSTANTS
    Ids,             \* ids a row can have
    Limit,           \* rows of a page
    MaxChanges,      \* changes to the table while the client reads (bound)
    NoCursor

ASSUME ListsAssumption ==
    /\ Ids \subseteq Nat /\ IsFiniteSet(Ids)
    /\ Limit \in Nat \ {0}
    /\ NoCursor \notin Ids

VARIABLES
    table,           \* the filtered or sorted column of each row; "none" before there
                     \* is such a row, "gone" when it was deleted
    reader,          \* the list the client reads, its query and its place in it
    stay,            \* rows the list has selected ever since the first page
    same,            \* rows nothing changed since the first page
    changes          \* number of changes since the first page

vars == <<table, reader, stay, same, changes>>

Column    == {"closed", "open"}
PassedLists == {"ayahs", "list_bookmarks", "notifications"}
AheadLists  == {"transactions", "messages_list", "list_my", "ustadz_public_reviews",
                "requester_reviews", "list_balances", "list_adjustments", "audit_list"}
SortedLists == {"admin_list_payments", "admin_list_payouts", "admin_list_visits", "users_list",
                "santri_list", "ustadz_list", "admin_reviews"}
Lists == PassedLists \cup AheadLists \cup SortedLists

Reader == [list : Lists, status : Column \cup {"any"}, sort : {"none", "id", "column"},
           asc : BOOLEAN, cursor : Ids \cup {NoCursor}, page : Nat, shown : SUBSET Ids,
           again : SUBSET Ids, skipped : SUBSET Ids, done : BOOLEAN]

TypeOK ==
    /\ table   \in [Ids -> Column \cup {"none", "gone"}]
    /\ reader  \in Reader
    /\ stay    \subseteq Ids
    /\ same    \subseteq Ids
    /\ changes \in Nat

-----------------------------------------------------------------------------
(* Order of a list and place of a row in it: sorting.rs *)

\* Only a whitelisted column is sorted by; everything else means newest first.
parse(sort, asc) == [custom |-> sort # "none", asc |-> asc /\ sort # "none"]

\* ORDER BY column, id: row i comes before row j.
order_by(r, i, j) ==
    LET srt  == parse(r.sort, r.asc)
        rank == [closed |-> 0, open |-> 1, none |-> 2, gone |-> 2]
        low  == IF srt.asc THEN i ELSE j
        high == IF srt.asc THEN j ELSE i
    IN  \/ r.sort = "column" /\ rank[table[low]] < rank[table[high]]
        \/ r.sort = "column" /\ table[low] = table[high] /\ low < high
        \/ r.sort # "column" /\ low < high

\* The verses of a surah are read upwards, everything else by order_by.
Before(r, i, j) == IF r.list = "ayahs" THEN i < j ELSE order_by(r, i, j)

\* Fault: the cursor of the next page is not bound.
FollowingAnything(r, S) == S

Following(r, S) == {i \in S : r.cursor = NoCursor \/ Before(r, r.cursor, i)}
Place(r, S, i)  == Cardinality({j \in S : Before(r, j, i)})
FirstPage(r, S) == {i \in S : Place(r, S, i) < Limit}

\* Fault: a page starts one row early.
NthPageEarly(r, S) == {i \in S : /\ (r.page - 1) * Limit <= Place(r, S, i) + 1
                                 /\ Place(r, S, i) + 1 < r.page * Limit}

NthPage(r, S)   == {i \in S : /\ (r.page - 1) * Limit <= Place(r, S, i)
                              /\ Place(r, S, i) < r.page * Limit}
More(S)         == Cardinality(S) > Limit

\* next_cursor: none on the last page, else the last row shown ...
LastShown(r, S, c) ==
    IF More(S)
    THEN c \in FirstPage(r, S) /\ \A i \in FirstPage(r, S) \ {c} : Before(r, i, c)
    ELSE c = NoCursor

\* ... or rows[limit], the first row not shown.
FirstHidden(r, S, c) ==
    IF More(S)
    THEN /\ c \in S \ FirstPage(r, S)
         /\ \A i \in (S \ FirstPage(r, S)) \ {c} : Before(r, c, i)
    ELSE c = NoCursor

-----------------------------------------------------------------------------
(* The rows each endpoint selects, and the kind of its next page *)

Present(status) == {i \in Ids : table[i] \in Column /\ status \in {"any", table[i]}}

Passed(rows)       == [rows |-> rows, next |-> "last"]
Ahead(rows)        == [rows |-> rows, next |-> "hidden"]
Sortable(rows, r)  == [rows |-> rows,
                       next |-> IF parse(r.sort, r.asc).custom THEN "page" ELSE "hidden"]

\* Fault: the verses continue after the first one that was not shown.
ayahsAhead(r) == Ahead(Present("any"))

ayahs(r)                 == Passed(Present("any"))
list_bookmarks(r)        == Passed(Present("any"))
notifications(r)         == Passed(Present(r.status))      \* unread_only
transactions(r)          == Ahead(Present("any"))
messages_list(r)         == Ahead(Present("any"))
list_my(r)               == Ahead(Present("any"))
ustadz_public_reviews(r) == Ahead(Present("open"))         \* revealed, not hidden
requester_reviews(r)     == Ahead(Present("open"))
list_balances(r)         == Ahead(Present(r.status))       \* role, name
list_adjustments(r)      == Ahead(Present(r.status))
audit_list(r)            == Ahead(Present(r.status))       \* module, actor
admin_list_payments(r)   == Sortable(Present(r.status), r)
admin_list_payouts(r)    == Sortable(Present(r.status), r)
admin_list_visits(r)     == Sortable(Present(r.status), r)
users_list(r)            == Sortable(Present(r.status), r)
santri_list(r)           == Sortable(Present(r.status), r)
ustadz_list(r)           == Sortable(Present(r.status), r)
admin_reviews(r)         == Sortable(Present(r.status), r) \* direction

\* The handler of r's list, one of the above.
Answer(r) ==
    CASE r.list = "ayahs"                 -> ayahs(r)
      [] r.list = "list_bookmarks"        -> list_bookmarks(r)
      [] r.list = "notifications"         -> notifications(r)
      [] r.list = "transactions"          -> transactions(r)
      [] r.list = "messages_list"         -> messages_list(r)
      [] r.list = "list_my"               -> list_my(r)
      [] r.list = "ustadz_public_reviews" -> ustadz_public_reviews(r)
      [] r.list = "requester_reviews"     -> requester_reviews(r)
      [] r.list = "list_balances"         -> list_balances(r)
      [] r.list = "list_adjustments"      -> list_adjustments(r)
      [] r.list = "audit_list"            -> audit_list(r)
      [] r.list = "admin_list_payments"   -> admin_list_payments(r)
      [] r.list = "admin_list_payouts"    -> admin_list_payouts(r)
      [] r.list = "admin_list_visits"     -> admin_list_visits(r)
      [] r.list = "users_list"            -> users_list(r)
      [] r.list = "santri_list"           -> santri_list(r)
      [] r.list = "ustadz_list"           -> ustadz_list(r)
      [] r.list = "admin_reviews"         -> admin_reviews(r)

\* Queries a client can send: only some lists take a filter, only the admin's
\* can be sorted.
Query(r) ==
    /\ r.list \in {"ayahs", "list_bookmarks", "transactions", "messages_list", "list_my",
                   "ustadz_public_reviews", "requester_reviews"} => r.status = "any"
    /\ r.list \notin SortedLists => r.sort = "none"
    /\ r.sort = "none" => ~r.asc

Init ==
    /\ table  \in [Ids -> Column \cup {"none"}]
    /\ \A i, j \in Ids : i < j /\ table[i] = "none" => table[j] = "none"
    /\ reader \in [list : Lists, status : {"any", "open"}, sort : {"none", "id", "column"},
                   asc : BOOLEAN, cursor : {NoCursor}, page : {1}, shown : {{}}, again : {{}},
                   skipped : {{}}, done : {FALSE}]
    /\ Query(reader)
    /\ stay   = Answer(reader).rows
    /\ same   = Ids
    /\ changes = 0

-----------------------------------------------------------------------------
(* The client *)

Show(items, c, skip, more) ==
    reader' = [reader EXCEPT !.shown = @ \cup items, !.again = @ \cup (items \cap reader.shown),
                             !.cursor = c, !.page = @ + 1, !.skipped = @ \cup skip,
                             !.done = ~more]

ReadPassed ==
    /\ ~reader.done
    /\ Answer(reader).next = "last"
    /\ LET S == Following(reader, Answer(reader).rows) IN
         \E c \in Ids \cup {NoCursor} :
            LastShown(reader, S, c) /\ Show(FirstPage(reader, S), c, {}, More(S))
    /\ UNCHANGED <<table, stay, same, changes>>

ReadAhead ==
    /\ ~reader.done
    /\ Answer(reader).next = "hidden"
    /\ LET S == Following(reader, Answer(reader).rows) IN
         \E c \in Ids \cup {NoCursor} :
            /\ FirstHidden(reader, S, c)
            /\ Show(FirstPage(reader, S), c, {c} \ {NoCursor}, More(S))
    /\ UNCHANGED <<table, stay, same, changes>>

\* LIMIT and OFFSET; has_more counts the rows after this page.
ReadSorted ==
    /\ ~reader.done
    /\ Answer(reader).next = "page"
    /\ LET S == Answer(reader).rows IN
         Show(NthPage(reader, S), NoCursor, {}, Cardinality(S) > reader.page * Limit)
    /\ UNCHANGED <<table, stay, same, changes>>

-----------------------------------------------------------------------------
(* Everybody else *)

Update(i, column) ==
    /\ changes < MaxChanges
    /\ ~reader.done
    /\ reader.list # "ayahs"
    /\ table'   = [table EXCEPT ![i] = column]
    /\ UNCHANGED reader
    /\ stay'    = stay \cap Answer(reader)'.rows
    /\ same'    = same \ {i}
    /\ changes' = changes + 1

InsertRow(i, column) ==
    /\ \A j \in Ids : j >= i => table[j] = "none"
    /\ \A j \in Ids : j < i => table[j] # "none"
    /\ Update(i, column)

ChangeRow(i, column) ==
    /\ table[i] \in Column \ {column}
    /\ Update(i, column)

\* Only bookmarks are ever deleted.
DeleteRow(i) ==
    /\ reader.list = "list_bookmarks"
    /\ table[i] \in Column
    /\ Update(i, "gone")

Next ==
    \/ ReadPassed \/ ReadAhead \/ ReadSorted
    \/ \E i \in Ids :
          \/ \E column \in Column : InsertRow(i, column) \/ ChangeRow(i, column)
          \/ DeleteRow(i)

Spec == Init /\ [][Next]_vars

-----------------------------------------------------------------------------
(* Properties *)

\* A list whose cursor is the last row shown has shown, when it ends, every
\* row it selected all the time, and no row twice, whatever was inserted,
\* changed or deleted between the pages (ayahs, bookmarks, notifications).
PassedListsShowAll ==
    reader.list \in PassedLists =>
        /\ reader.done => stay \subseteq reader.shown
        /\ reader.again = {}

\* A list whose cursor is the first row not shown loses exactly these rows,
\* one at every turn of a page: the next page starts behind them.
AheadListsLoseTheirCursors ==
    Answer(reader).next = "hidden" =>
        /\ reader.done => stay \ reader.shown = stay \cap reader.skipped
        /\ reader.again = {}

\* A list sorted by a column is read by page numbers, and rows slip over the
\* edge of a page when others come, go or move: never more rows are missed,
\* and never more are shown twice, than changes were made.
SortedListsDriftIsBounded ==
    Answer(reader).next = "page" =>
        /\ reader.done => Cardinality((stay \cap same) \ reader.shown) <= changes
        /\ Cardinality(reader.again) <= changes

-----------------------------------------------------------------------------
(* The inductive invariant of the lists with a cursor *)

Upto(i)  == i = reader.cursor \/ Before(reader, i, reader.cursor)
Accounted == reader.shown \cup reader.skipped

\* What the client was shown or lost lies up to the cursor, and of the rows that
\* were there all the time nothing else does.
PlaceKept ==
    /\ reader.again = {} /\ reader.shown \cap reader.skipped = {}
    /\ Answer(reader).next = "last" => reader.skipped = {}
    /\ reader.done => stay \subseteq Accounted
    /\ ~reader.done /\ reader.cursor = NoCursor => Accounted = {}
    /\ ~reader.done /\ reader.cursor # NoCursor =>
          /\ \A i \in Accounted : Upto(i)
          /\ \A i \in stay : Upto(i) => i \in Accounted

IInv == /\ TypeOK
        /\ Query(reader)
        /\ stay \subseteq Answer(reader).rows
        /\ Answer(reader).next # "page" => PlaceKept

-----------------------------------------------------------------------------
(* The inductive invariant of the sorted lists *)

Edge == (reader.page - 1) * Limit

\* Rows shown that slipped behind the edge of the pages read, to be shown again.
Late == {i \in Answer(reader).rows \cap reader.shown :
            Place(reader, Answer(reader).rows, i) >= Edge}

\* Rows that slipped over the edge unseen.
Missed == {i \in (stay \cap same) \ reader.shown :
            Place(reader, Answer(reader).rows, i) < Edge}

\* A change moves one row at most over the edge, in each direction.
DriftInv ==
    Answer(reader).next = "page" =>
        /\ Cardinality(reader.again \cup Late) <= changes
        /\ Cardinality(Missed) <= changes
        /\ reader.done => Cardinality(Answer(reader).rows) <= Edge

-----------------------------------------------------------------------------
(* A statement of the source the code does not live up to *)

\* "set next_cursor = cursor item terakhir yang dilewati": the cursor of the
\* last item passed, so that no row falls between two pages.
NoRowIsSkipped == reader.skipped = {}
=============================================================================
