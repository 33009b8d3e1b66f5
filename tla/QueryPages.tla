----------------------------- MODULE QueryPages -----------------------------
(***************************************************************************)
(* Reading a long answer page by page (service/query.py _run_query,        *)
(* paginate, encode_cursor; engine/query/sql.py query_search, query_find,  *)
(* query_entry), while the product the answer is read from is rebuilt.     *)
(*                                                                         *)
(* The server keeps nothing between two pages: all it knows of a walk is   *)
(* the cursor the client sends back, an offset bound to a snapshot and to  *)
(* a fingerprint of the query.  The engine hands the service a list of     *)
(* rows and a total that each operation makes in its own way, and          *)
(* paginate() cuts the page out of the list.                               *)
(*                                                                         *)
(* A row is its position in the ranked result of a query in a product, so  *)
(* a slice of a list is an interval.  A call is one step: the gate keeps   *)
(* builders out while a query is in (CodemapService, QueryConsistent).     *)
(***************************************************************************)
EXTENDS Integers, FiniteSets

CONSTANTS
    Products,    \* contents a product can have; each has its own snapshot id
    NoProduct,   \* the file is not there
    Queries,     \* [op, text, filter] records a client may ask
    Size,        \* Size[p][q]: rows of product p that match query q
    Covered,     \* Covered[p][q]: the unit grouping of a search shows every match
    Limits,      \* values of the limit argument
    PageDefault, PageMax,    \* 8 and 32 in paginate
    FetchFactor, FetchFloor, \* 8 and 64 (400 for a name) in query_find and query_entry
    FindCap,     \* 2048 in query_find
    MaxBuilds,   \* bound: builds in one behaviour
    MixedFilters \* may a client send a cursor on with another filter?

ASSUME PagesAssumption ==
    /\ NoProduct \notin Products
    /\ Size \in [Products -> [Queries -> Nat]]
    /\ Covered \in [Products -> [Queries -> BOOLEAN]]
    /\ Limits \subseteq Nat
    /\ PageDefault \in Nat /\ PageMax \in Nat \ {0}
    /\ FetchFactor \in Nat /\ FindCap \in Nat
    /\ FetchFloor \in Nat /\ PageMax < FetchFloor
    /\ MaxBuilds \in Nat
    /\ MixedFilters \in BOOLEAN

ASSUME QueriesAssumption ==
    \A q \in Queries : q.op \in {"search", "find", "entry"} /\ q.filter \in {"none", "kind", "ast"}

VARIABLES
    product,    \* the committed product, or NoProduct
    building,   \* the building flag, or the writer's gate
    builds,     \* builds begun
    walk,       \* the client's walk, with the cursor it holds
    answer      \* what the last call was told: "page", or an error code

vars == <<product, building, builds, walk, answer>>

NoCursor == [kind |-> "none"]
Garbage == [kind |-> "garbage"]    \* not base64 of a JSON object
Bare == [kind |-> "bare"]          \* decodes, but names no snapshot or query

Least(a, b) == IF a <= b THEN a ELSE b
Greatest(a, b) == IF a <= b THEN b ELSE a

(***************************************************************************)
(* Arguments and cursors                                                   *)
(***************************************************************************)
Page(limit) == Greatest(1, Least(IF limit = 0 THEN PageDefault ELSE limit, PageMax))

\* The operation and the searched text are in it; kind, layer and the other filters are not.
QueryFingerprint(q) == <<q.op, q.text>>

EncodeCursor(s, q, o) == [kind |-> "cursor", s |-> s, q |-> QueryFingerprint(q), o |-> o]
OffsetOf(cursor) == IF cursor.kind = "cursor" THEN cursor.o ELSE 0

(***************************************************************************)
(* What each operation hands over for a page: how many rows from the top   *)
(* (Listed) and the total it claims (Hinted)                               *)
(***************************************************************************)
Fetch(page) == Greatest(page * FetchFactor, FetchFloor)

Enumerates(q) == q.op = "find" /\ q.filter = "kind"

\* Mutant: the rows a page was cut to are taken for the population.
HintedByCount(q, n, page) ==
    CASE Enumerates(q) -> Least(n, FindCap)
      [] q.op = "entry" -> Least(page, n)
      [] OTHER -> Least(n, Fetch(page))

Hinted(q, n, page) ==
    IF Enumerates(q) THEN n ELSE Least(n, Fetch(page))

Listed(q, n, page) ==
    CASE Enumerates(q) -> Least(n, FindCap)
      [] q.op = "entry" -> Least(page, Least(n, Fetch(page)))
      [] OTHER -> Least(n, Fetch(page))

(***************************************************************************)
(* paginate: the rows shown, the total said, whether that is all and where *)
(* the next page begins                                                    *)
(***************************************************************************)
NoNext == -1

Window(offset, page, n) == IF offset < n THEN Least(page, n - offset) ELSE 0

\* query_search has cut the page itself; a grouping that covers every match offers no cursor.
EnginePaged(n, covered, page, offset) ==
    LET end == offset + Window(offset, page, n)
        next == IF end < n /\ ~covered THEN end ELSE NoNext
    IN  [rows |-> IF covered THEN 1 .. n ELSE offset + 1 .. end,
         returned |-> Window(offset, page, n), total |-> n,
         exhaustive |-> next = NoNext, next |-> next]

\* Mutant: an empty page is given a cursor as well.
SlicedWithoutEnd(listed, hinted, page, offset) ==
    LET end == offset + Window(offset, page, listed)
        more == end < listed \/ hinted > end
    IN  [rows |-> offset + 1 .. end,
         returned |-> end - offset, total |-> Greatest(hinted, listed + offset),
         exhaustive |-> ~more, next |-> IF more THEN end ELSE NoNext]

\* Mutant: rows from the offset on, not cut at the page.
SlicedUncut(listed, hinted, page, offset) ==
    LET end == Greatest(offset, listed)
        more == hinted > end
    IN  [rows |-> offset + 1 .. end,
         returned |-> end - offset, total |-> Greatest(hinted, listed + offset),
         exhaustive |-> ~more, next |-> IF more /\ end > offset THEN end ELSE NoNext]

Sliced(listed, hinted, page, offset) ==
    LET end == offset + Window(offset, page, listed)
        more == end < listed \/ hinted > end
    IN  [rows |-> offset + 1 .. end,
         returned |-> end - offset, total |-> Greatest(hinted, listed + offset),
         exhaustive |-> ~more, next |-> IF more /\ end > offset THEN end ELSE NoNext]

Paginate(q, page, offset) ==
    LET n == Size[product][q]
    IN  IF q.op = "search"
        THEN EnginePaged(n, q.filter = "none" /\ Covered[product][q], page, offset)
        ELSE Sliced(Listed(q, n, page), Hinted(q, n, page), page, offset)

(***************************************************************************)
(* _run_query: the early returns in their order, then the page             *)
(***************************************************************************)
\* Mutant: a cursor of another snapshot is taken.
RefusalOfQueryOnly(q, cursor) ==
    IF product = NoProduct THEN "CODEMAP_NOT_INDEXED"
    ELSE IF building THEN "BUILDING"
    ELSE IF cursor.kind = "none" THEN "none"
    ELSE IF cursor.kind = "garbage" THEN "CURSOR_INVALID"
    ELSE IF cursor.kind = "bare" THEN "CURSOR_MISMATCH"
    ELSE IF cursor.q # QueryFingerprint(q) THEN "CURSOR_MISMATCH" ELSE "none"

Refusal(q, cursor) ==
    IF product = NoProduct THEN "CODEMAP_NOT_INDEXED"
    ELSE IF building THEN "BUILDING"
    ELSE IF cursor.kind = "none" THEN "none"
    ELSE IF cursor.kind = "garbage" THEN "CURSOR_INVALID"
    ELSE IF cursor.kind = "bare" THEN "CURSOR_MISMATCH"
    ELSE IF cursor.s # product THEN "SNAPSHOT_CHANGED"
    ELSE IF cursor.q # QueryFingerprint(q) THEN "CURSOR_MISMATCH" ELSE "none"

RowsOf(p, q, positions) == {<<p, q, i>> : i \in positions}
AllRows(p, q) == RowsOf(p, q, 1 .. Size[p][q])

NoWalk == [state |-> "idle"]

\* The walk after its answer a to query q: what has been shown, and the cursor to go on with.
Shown(q, got, twice, a) ==
    LET rows == RowsOf(product, q, a.rows)
    IN  [state |-> IF a.next = NoNext THEN "ended" ELSE "walking",
         q |-> q, snap |-> product, got |-> got \cup rows,
         twice |-> twice \/ rows \cap got # {},
         returned |-> a.returned, total |-> a.total, exhaustive |-> a.exhaustive,
         cursor |-> IF a.next = NoNext THEN NoCursor ELSE EncodeCursor(product, q, a.next)]

Init == /\ product \in Products \cup {NoProduct}
        /\ building = FALSE
        /\ builds = 0
        /\ walk = NoWalk
        /\ answer = "none"

(***************************************************************************)
(* The client.  A call without a cursor begins a walk; told BUILDING, the  *)
(* client asks again later, and any other refusal of its own cursor is the *)
(* end of the walk.                                                        *)
(***************************************************************************)
Told(refusal) == answer' = IF refusal = "none" THEN "page" ELSE refusal

Ask(q, limit) ==
    /\ walk.state # "walking"
    /\ Told(Refusal(q, NoCursor))
    /\ walk' = IF Refusal(q, NoCursor) = "none"
               THEN Shown(q, {}, FALSE, Paginate(q, Page(limit), 0))
               ELSE walk
    /\ UNCHANGED <<product, building, builds>>

NextPage(limit) ==
    /\ walk.state = "walking"
    /\ LET refusal == Refusal(walk.q, walk.cursor)
       IN  /\ Told(refusal)
           /\ walk' = CASE refusal = "none" ->
                              Shown(walk.q, walk.got, walk.twice,
                                    Paginate(walk.q, Page(limit), OffsetOf(walk.cursor)))
                        [] refusal = "BUILDING" -> walk
                        [] OTHER -> [walk EXCEPT !.state = "broken", !.cursor = NoCursor]
    /\ UNCHANGED <<product, building, builds>>

\* The cursor goes out with another query, or the query with another cursor. What is shown
\* for it lands in the walk it was meant to go on.
SameFingerprint(q) == QueryFingerprint(q) = QueryFingerprint(walk.q)

Stray(q, cursor, limit) ==
    /\ walk.state = "walking"
    /\ \/ cursor = walk.cursor /\ q # walk.q /\ (SameFingerprint(q) => MixedFilters)
       \/ cursor \in {Garbage, Bare} /\ q = walk.q
    /\ Told(Refusal(q, cursor))
    /\ walk' = IF Refusal(q, cursor) = "none"
               THEN Shown(q, walk.got, walk.twice, Paginate(q, Page(limit), OffsetOf(cursor)))
               ELSE walk
    /\ UNCHANGED <<product, building, builds>>

(***************************************************************************)
(* The builder: index or update of the same CodeMap                        *)
(***************************************************************************)
BeginBuild ==
    /\ ~building
    /\ builds < MaxBuilds
    /\ building' = TRUE
    /\ builds' = builds + 1
    /\ UNCHANGED <<product, walk, answer>>

Unlink ==
    /\ building
    /\ product # NoProduct
    /\ product' = NoProduct
    /\ UNCHANGED <<building, builds, walk, answer>>

Replace(p) ==
    /\ building
    /\ product = NoProduct
    /\ product' = p
    /\ building' = FALSE
    /\ UNCHANGED <<builds, walk, answer>>

\* The build fails or finds nothing to do; failed between unlink and replace, it leaves no product.
EndBuild ==
    /\ building
    /\ building' = FALSE
    /\ UNCHANGED <<product, builds, walk, answer>>

Held == IF walk.state = "walking" THEN {walk.cursor} ELSE {}

Builder == BeginBuild \/ Unlink \/ (\E p \in Products : Replace(p)) \/ EndBuild

Next ==
    \/ \E limit \in Limits, q \in Queries : Ask(q, limit)
    \/ \E limit \in Limits : NextPage(limit)
    \/ \E limit \in Limits, q \in Queries, c \in Held \cup {Garbage, Bare} : Stray(q, c, limit)
    \/ Builder

Spec == Init /\ [][Next]_vars

\* The client goes on while it has a cursor, and a build ends.
FairSpec == Spec /\ WF_vars(\E limit \in Limits : NextPage(limit))
                 /\ WF_vars(EndBuild \/ \E p \in Products : Replace(p))

-----------------------------------------------------------------------------
Walks == [state : {"walking", "ended", "broken"}, q : Queries, snap : Products,
          got : SUBSET (Products \X Queries \X Nat), twice : BOOLEAN,
          returned : 0 .. PageMax, total : Nat, exhaustive : BOOLEAN,
          cursor : {NoCursor} \cup [kind : {"cursor"}, s : Products, o : Nat,
                                    q : {QueryFingerprint(q) : q \in Queries}]]

Codes == {"CODEMAP_NOT_INDEXED", "BUILDING", "CURSOR_INVALID", "CURSOR_MISMATCH", "SNAPSHOT_CHANGED"}

\* No page is longer than the service's maximum and no offset is negative
\* (service/query.py:284, decode_cursor's max(0, ...)).
TypeOK == /\ product \in Products \cup {NoProduct}
          /\ building \in BOOLEAN
          /\ builds \in 0 .. MaxBuilds
          /\ walk \in Walks \cup {NoWalk}
          /\ answer \in {"none", "page"} \cup Codes

\* Whatever builds end between two pages, whatever limits the pages are asked with and
\* whatever other queries the cursor is sent with, a walk has shown the first rows of one
\* result of one product, each once: no page repeats, skips or mixes rows
\* (service/query.py:452-476, paginate).
PagesInOrder ==
    walk.state # "idle" =>
        /\ ~walk.twice
        /\ \E n \in 0 .. Size[walk.snap][walk.q] :
              /\ walk.got = RowsOf(walk.snap, walk.q, 1 .. n)
              /\ walk.state = "walking" => walk.cursor = EncodeCursor(walk.snap, walk.q, n)

\* A find that filters in Python, or ranks names, looks at its first fetch of rows only.
Capped(q) == q.op = "find" /\ q.filter # "kind"

\* A page says exhaustive exactly when the walk has shown every row there is. The one
\* exception is a find that stopped at its fetch (service/query.py:344-353,
\* engine/query/sql.py:11419, query_search's next_offset).
ExhaustiveIsExact ==
    walk.state \in {"walking", "ended"} =>
        \/ walk.exhaustive <=> walk.got = AllRows(walk.snap, walk.q)
        \/ Capped(walk.q) /\ Size[walk.snap][walk.q] > FetchFloor

\* A client that follows its cursors comes to an end, also where a page is empty
\* (service/query.py:361-366, "if primary_more and window").
WalkEnds == walk.state = "walking" ~> walk.state # "walking"

\* Why it comes to an end: a page that a cursor is answered with is the last one or ends
\* further on, whatever the limit and whosever filters it carries (service/query.py:361-366,
\* engine/query/sql.py:11419).
PagesLeadOn ==
    [][\A limit \in Limits :
          /\ \/ NextPage(limit)
             \/ \E q \in Queries, c \in Held \cup {Garbage, Bare} : Stray(q, c, limit)
          /\ answer' = "page" /\ walk'.state = "walking"
          => OffsetOf(walk.cursor) < OffsetOf(walk'.cursor)]_vars

\* What a cursor promises: a page that goes on (service/query.py:337-366).
CursorAdvances ==
    [][walk.state = "walking" /\ walk'.state # "broken" /\ walk' # walk => walk'.returned > 0]_vars

\* `count` is the page, `total` is the population (service/query.py:309).
TotalIsPopulation ==
    walk.state \in {"walking", "ended"} => walk.total = Size[walk.snap][walk.q]

\* exhaustive is said of the whole result only, whichever the query.
ExhaustiveMeansAll ==
    walk.state = "ended" /\ walk.exhaustive => walk.got = AllRows(walk.snap, walk.q)
=============================================================================
