-------------------------- MODULE QueryPages_proofs --------------------------
(***************************************************************************)
(* For any products, queries, result sizes and limits: the types of the    *)
(* walk, the order of its pages and the truth of exhaustive.               *)
(***************************************************************************)
EXTENDS QueryPages, TLAPS

USE PagesAssumption

\* Whatever limit is asked, a page has from one to PageMax rows.
LEMMA PageInRange == ASSUME NEW limit \in Limits PROVE Page(limit) \in 1 .. PageMax
  BY DEF Page, Greatest, Least

\* A fetch is never smaller than its floor.
LEMMA FetchAtLeast ==
  ASSUME NEW page \in 1 .. PageMax PROVE Fetch(page) \in Nat /\ Fetch(page) >= FetchFloor
  <1>1. page * FetchFactor \in Nat OBVIOUS
  <1> QED BY <1>1 DEF Fetch, Greatest

\* The fingerprint a cursor carries, and its place.
LEMMA CursorFields ==
  ASSUME NEW p, NEW q, NEW o
  PROVE  LET c == EncodeCursor(p, q, o)
         IN  /\ c.kind = "cursor" /\ c.s = p /\ c.q = QueryFingerprint(q) /\ c.o = o
             /\ OffsetOf(c) = o
  BY DEF EncodeCursor, OffsetOf

\* A page that is cut out of a list has the types of a page, from any offset.
LEMMA SlicedTypes ==
  ASSUME NEW listed \in Nat, NEW hinted \in Nat, NEW page \in 1 .. PageMax, NEW offset \in Nat
  PROVE  LET a == Sliced(listed, hinted, page, offset)
         IN  /\ a.rows \subseteq Nat /\ a.returned \in 0 .. PageMax /\ a.total \in Nat
             /\ a.exhaustive \in BOOLEAN /\ a.next \in Nat \cup {NoNext}
  <1>1. Window(offset, page, listed) \in 0 .. page BY DEF Window, Least
  <1> QED BY <1>1 DEF Sliced, Greatest, NoNext

\* The same of a page the engine has cut.
LEMMA EnginePagedTypes ==
  ASSUME NEW n \in Nat, NEW covered \in BOOLEAN, NEW page \in 1 .. PageMax, NEW offset \in Nat
  PROVE  LET a == EnginePaged(n, covered, page, offset)
         IN  /\ a.rows \subseteq Nat /\ a.returned \in 0 .. PageMax /\ a.total \in Nat
             /\ a.exhaustive \in BOOLEAN /\ a.next \in Nat \cup {NoNext}
  <1>1. Window(offset, page, n) \in 0 .. page BY DEF Window, Least
  <1> QED BY <1>1 DEF EnginePaged, NoNext

\* What the engine lists, and what it says there is, are counts.
LEMMA ListedTypes ==
  ASSUME NEW q \in Queries, NEW n \in Nat, NEW page \in 1 .. PageMax
  PROVE  Listed(q, n, page) \in Nat /\ Hinted(q, n, page) \in Nat
  BY FetchAtLeast DEF Listed, Hinted, Least

\* paginate, whichever the operation, has the types of a page.
LEMMA PaginateTypes ==
  ASSUME NEW q \in Queries, product \in Products, NEW page \in 1 .. PageMax, NEW offset \in Nat
  PROVE  LET a == Paginate(q, page, offset)
         IN  /\ a.rows \subseteq Nat /\ a.returned \in 0 .. PageMax /\ a.total \in Nat
             /\ a.exhaustive \in BOOLEAN /\ a.next \in Nat \cup {NoNext}
  <1> DEFINE n == Size[product][q]
  <1>1. n \in Nat /\ (q.filter = "none" /\ Covered[product][q]) \in BOOLEAN OBVIOUS
  <1>2. CASE q.op = "search"
    BY <1>1, <1>2, EnginePagedTypes DEF Paginate
  <1>3. CASE q.op # "search"
    BY <1>1, <1>3, ListedTypes, SlicedTypes DEF Paginate
  <1> QED BY <1>2, <1>3

\* A walk shown by a page has the walk's types.
LEMMA ShownTypes ==
  ASSUME NEW q \in Queries, product \in Products, NEW page \in 1 .. PageMax, NEW offset \in Nat,
         NEW got \in SUBSET (Products \X Queries \X Nat), NEW twice \in BOOLEAN
  PROVE  Shown(q, got, twice, Paginate(q, page, offset)) \in Walks
  <1> DEFINE a == Paginate(q, page, offset)
  <1>1. /\ a.rows \subseteq Nat /\ a.returned \in 0 .. PageMax /\ a.total \in Nat
        /\ a.exhaustive \in BOOLEAN /\ a.next \in Nat \cup {NoNext}
    BY PaginateTypes
  <1> HIDE DEF a
  <1>2. RowsOf(product, q, a.rows) \in SUBSET (Products \X Queries \X Nat)
    BY <1>1 DEF RowsOf
  <1>3. a.next # NoNext => EncodeCursor(product, q, a.next) \in
          [kind : {"cursor"}, s : Products, o : Nat, q : {QueryFingerprint(r) : r \in Queries}]
    BY <1>1 DEF EncodeCursor
  <1>4. (twice \/ RowsOf(product, q, a.rows) \cap got # {}) \in BOOLEAN OBVIOUS
  <1> QED BY <1>1, <1>2, <1>3, <1>4 DEF Shown, Walks, a

\* A call that is not refused finds a product.
LEMMA NotRefused ==
  ASSUME TypeOK, NEW q \in Queries, NEW cursor, Refusal(q, cursor) = "none"
  PROVE  product \in Products
  BY DEF Refusal, TypeOK

\* A refusal is one of the service's codes.
LEMMA RefusalTypes ==
  ASSUME NEW q, NEW cursor PROVE Refusal(q, cursor) \in {"none"} \cup Codes
  BY DEF Refusal, Codes

\* The walk a client is on has a query, rows and a cursor to go on with.
LEMMA WalkFields ==
  ASSUME TypeOK, walk.state # "idle"
  PROVE  /\ walk \in Walks
         /\ walk.q \in Queries /\ walk.snap \in Products
         /\ walk.got \in SUBSET (Products \X Queries \X Nat) /\ walk.twice \in BOOLEAN
         /\ OffsetOf(walk.cursor) \in Nat
  BY DEF TypeOK, NoWalk, Walks, OffsetOf, NoCursor

\* The walk, the product, the flag and the last answer keep their types; no page is longer
\* than PageMax and no offset is negative, whatever cursors come in
\* (service/query.py decode_cursor, paginate).
THEOREM TypeCorrect == Spec => []TypeOK
  <1>1. Init => TypeOK
    <2> SUFFICES ASSUME Init PROVE TypeOK OBVIOUS
    <2>1. building \in BOOLEAN BY DEF Init
    <2>2. builds \in 0 .. MaxBuilds BY DEF Init
    <2>3. product \in Products \cup {NoProduct} BY DEF Init
    <2>4. walk \in Walks \cup {NoWalk} BY DEF Init
    <2>5. answer \in {"none", "page"} \cup Codes BY DEF Init
    <2> QED BY <2>1, <2>2, <2>3, <2>4, <2>5 DEF TypeOK
  <1>2. TypeOK /\ [Next]_vars => TypeOK'
    <2> SUFFICES ASSUME TypeOK, [Next]_vars PROVE TypeOK'
      OBVIOUS
    <2>1. ASSUME NEW limit \in Limits, NEW q \in Queries, Ask(q, limit) PROVE TypeOK'
      <3>1. CASE Refusal(q, NoCursor) = "none"
        <4>1. product \in Products BY <3>1, NotRefused
        <4>2. Shown(q, {}, FALSE, Paginate(q, Page(limit), 0)) \in Walks
          BY <4>1, PageInRange, ShownTypes
        <4> QED BY <2>1, <3>1, <4>2 DEF Ask, Told, TypeOK
      <3>2. CASE Refusal(q, NoCursor) # "none"
        BY <2>1, <3>2, RefusalTypes DEF Ask, Told, TypeOK
      <3> QED BY <3>1, <3>2
    <2>2. ASSUME NEW limit \in Limits, NextPage(limit) PROVE TypeOK'
      <3> DEFINE refusal == Refusal(walk.q, walk.cursor)
      <3>0. walk.state # "idle" BY <2>2 DEF NextPage
      <3>1. CASE refusal = "none"
        <4>1. product \in Products BY <3>0, <3>1, NotRefused, WalkFields
        <4>2. Shown(walk.q, walk.got, walk.twice,
                    Paginate(walk.q, Page(limit), OffsetOf(walk.cursor))) \in Walks
          BY <3>0, <4>1, PageInRange, ShownTypes, WalkFields
        <4>3. walk' \in Walks BY <2>2, <3>1, <4>2 DEF NextPage
        <4> QED BY <2>2, <3>1, <4>3 DEF NextPage, Told, TypeOK
      <3>2. CASE refusal = "BUILDING"
        BY <2>2, <3>2, RefusalTypes DEF NextPage, Told, TypeOK
      <3>3. CASE refusal \notin {"none", "BUILDING"}
        <4>1. walk' = [walk EXCEPT !.state = "broken", !.cursor = NoCursor]
          BY <2>2, <3>3 DEF NextPage
        <4>2. walk' \in Walks BY <3>0, <4>1, WalkFields DEF Walks
        <4> QED BY <2>2, <3>3, <4>2, RefusalTypes DEF NextPage, Told, TypeOK
      <3> QED BY <3>1, <3>2, <3>3
    <2>3. ASSUME NEW limit \in Limits, NEW q \in Queries, NEW c \in Held \cup {Garbage, Bare},
                 Stray(q, c, limit)
          PROVE  TypeOK'
      <3>0. walk.state # "idle" BY <2>3 DEF Stray
      <3>1. CASE Refusal(q, c) = "none"
        <4>1. product \in Products BY <3>1, NotRefused
        <4>2. OffsetOf(c) \in Nat
          BY <2>3, <3>0, WalkFields DEF Held, Garbage, Bare, OffsetOf
        <4>3. Shown(q, walk.got, walk.twice, Paginate(q, Page(limit), OffsetOf(c))) \in Walks
          BY <3>0, <4>1, <4>2, PageInRange, ShownTypes, WalkFields
        <4> QED BY <2>3, <3>1, <4>3 DEF Stray, Told, TypeOK
      <3>2. CASE Refusal(q, c) # "none"
        BY <2>3, <3>2, RefusalTypes DEF Stray, Told, TypeOK
      <3> QED BY <3>1, <3>2
    <2>4. CASE Builder
      <3>1. walk' = walk /\ answer' = answer
        BY <2>4 DEF Builder, BeginBuild, Unlink, Replace, EndBuild
      <3>2. building' \in BOOLEAN
        <4>1. building \in BOOLEAN BY DEF TypeOK
        <4> QED BY <2>4, <4>1, Zenon DEF Builder, BeginBuild, Unlink, Replace, EndBuild
      <3>3. product' \in Products \cup {NoProduct}
        <4>1. product \in Products \cup {NoProduct} BY DEF TypeOK
        <4> QED BY <2>4, <4>1, Zenon DEF Builder, BeginBuild, Unlink, Replace, EndBuild
      <3>4. builds' \in 0 .. MaxBuilds
        <4>1. builds \in 0 .. MaxBuilds BY DEF TypeOK
        <4>2. builds' = builds \/ (builds < MaxBuilds /\ builds' = builds + 1)
          BY <2>4, Zenon DEF Builder, BeginBuild, Unlink, Replace, EndBuild
        <4> QED BY <4>1, <4>2
      <3> QED BY <3>1, <3>2, <3>3, <3>4 DEF TypeOK
    <2>5. CASE UNCHANGED vars
      BY <2>5 DEF vars, TypeOK
    <2> QED BY <2>1, <2>2, <2>3, <2>4, <2>5 DEF Next
  <1> QED BY <1>1, <1>2, PTL DEF Spec

-----------------------------------------------------------------------------
\* The units of such a search show every match, so no cursor is given.
AllInUnits(p, q) == q.op = "search" /\ q.filter = "none" /\ Covered[p][q]

\* What the pages of a walk rest on: n rows are shown, and the cursor stands behind them;
\* the cursor of an entry query never gets past its first page.
ShownUpTo(w, n) ==
    /\ w.got = RowsOf(w.snap, w.q, 1 .. n)
    /\ w.state = "walking" => /\ w.cursor = EncodeCursor(w.snap, w.q, n)
                              /\ ~AllInUnits(w.snap, w.q)
                              /\ w.q.op = "entry" => n <= PageMax
    /\ w.state # "broken" =>
          \/ w.exhaustive <=> n = Size[w.snap][w.q]
          \/ Capped(w.q) /\ Size[w.snap][w.q] > FetchFloor

InOrder(w) == /\ ~w.twice
              /\ \E n \in 0 .. Size[w.snap][w.q] : ShownUpTo(w, n)

Inv == walk.state # "idle" => InOrder(walk)

\* A page cut out of a list begins at the offset and ends in the result; it is exhaustive
\* when it ends where the result does.
LEMMA SlicedStep ==
  ASSUME NEW q \in Queries, q.op # "search", NEW n \in Nat, NEW page \in 1 .. PageMax,
         NEW offset \in 0 .. n, q.op = "entry" => offset <= PageMax
  PROVE  LET a == Sliced(Listed(q, n, page), Hinted(q, n, page), page, offset)
         IN  \E end \in offset .. n :
               /\ a.rows = offset + 1 .. end
               /\ a.next \in {end, NoNext}
               /\ a.next # NoNext => (q.op = "entry" => end <= PageMax)
               /\ (a.exhaustive <=> end = n) \/ (Capped(q) /\ n > FetchFloor)
  <1> DEFINE listed == Listed(q, n, page)
             hinted == Hinted(q, n, page)
             end == offset + Window(offset, page, listed)
             a == Sliced(listed, hinted, page, offset)
             f == Fetch(page)
  <1>1. f \in Nat /\ f >= FetchFloor BY FetchAtLeast
  <1>2. listed \in Nat /\ hinted \in Nat /\ listed <= n /\ hinted <= n
    BY <1>1 DEF Listed, Hinted, Least
  <1>3. end \in offset .. n /\ (offset >= listed => end = offset) /\ (offset < listed => end <= listed)
    BY <1>2 DEF Window, Least
  <1>4. /\ a.rows = offset + 1 .. end
        /\ a.next = IF (end < listed \/ hinted > end) /\ end > offset THEN end ELSE NoNext
        /\ a.exhaustive = ~(end < listed \/ hinted > end)
    BY DEF Sliced
  <1>5. q.op = "entry" => end <= PageMax
    <2> SUFFICES ASSUME q.op = "entry" PROVE end <= PageMax OBVIOUS
    <2>1. listed <= page BY <1>1 DEF Listed, Least, Enumerates
    <2> QED BY <1>2, <1>3, <2>1
  <1>6. (~(end < listed \/ hinted > end) <=> end = n) \/ (Capped(q) /\ n > FetchFloor)
    <2>1. CASE Enumerates(q)
      <3>1. hinted = n BY <2>1 DEF Hinted
      <3>2. end <= n /\ listed <= n BY <1>2, <1>3
      <3>3. end = n <=> ~(end < listed \/ n > end)
        <4> HIDE DEF listed, hinted, end
        <4> QED BY <1>2, <1>3, <3>2
      <3> QED BY <3>1, <3>3
    <2>2. CASE ~Enumerates(q) /\ n <= FetchFloor
      <3>1. hinted = n BY <1>1, <2>2 DEF Hinted, Least
      <3>2. end <= n /\ listed <= n BY <1>2, <1>3
      <3>3. end = n <=> ~(end < listed \/ n > end)
        <4> HIDE DEF listed, hinted, end
        <4> QED BY <1>2, <1>3, <3>2
      <3> QED BY <3>1, <3>3
    <2>3. CASE q.op = "find" /\ ~Enumerates(q) /\ n > FetchFloor
      BY <2>3 DEF Capped, Enumerates
    <2>4. CASE q.op = "entry" /\ n > FetchFloor
      <3>1. hinted >= FetchFloor BY <1>1, <2>4 DEF Hinted, Least, Enumerates
      <3>2. end <= PageMax BY <1>5, <2>4
      <3> HIDE DEF listed, hinted, end
      <3> QED BY <1>2, <1>3, <2>4, <3>1, <3>2
    <2>5. q.op \in {"find", "entry"} BY QueriesAssumption
    <2>6. Enumerates(q) => q.op = "find" BY DEF Enumerates
    <2> QED BY <2>1, <2>2, <2>3, <2>4, <2>5, <2>6
  <1> HIDE DEF listed, hinted, end, a
  <1>7. /\ end \in offset .. n
        /\ a.rows = offset + 1 .. end
        /\ a.next \in {end, NoNext}
        /\ a.next # NoNext => (q.op = "entry" => end <= PageMax)
        /\ (a.exhaustive <=> end = n) \/ (Capped(q) /\ n > FetchFloor)
    BY <1>3, <1>4, <1>5, <1>6
  <1> QED BY <1>7 DEF a, listed, hinted

\* The same of any operation; a grouping that covers the result shows all of it at once.
LEMMA PaginateStep ==
  ASSUME NEW q \in Queries, product \in Products, NEW page \in 1 .. PageMax,
         NEW offset \in 0 .. Size[product][q],
         q.op = "entry" => offset <= PageMax,
         AllInUnits(product, q) => offset = 0
  PROVE  LET a == Paginate(q, page, offset)
             n == Size[product][q]
         IN  \E end \in offset .. n :
               /\ a.rows = offset + 1 .. end
               /\ a.next \in {end, NoNext}
               /\ a.next # NoNext => /\ q.op = "entry" => end <= PageMax
                                     /\ ~AllInUnits(product, q)
               /\ (a.exhaustive <=> end = n) \/ (Capped(q) /\ n > FetchFloor)
  <1> DEFINE n == Size[product][q]
             a == Paginate(q, page, offset)
  <1>0. n \in Nat /\ offset \in 0 .. n OBVIOUS
  <1>1. CASE q.op # "search"
    <2>1. a = Sliced(Listed(q, n, page), Hinted(q, n, page), page, offset)
      BY <1>1 DEF Paginate
    <2>2. ~AllInUnits(product, q) BY <1>1 DEF AllInUnits
    <2>3. PICK end \in offset .. n :
               LET s == Sliced(Listed(q, n, page), Hinted(q, n, page), page, offset)
               IN  /\ s.rows = offset + 1 .. end
                   /\ s.next \in {end, NoNext}
                   /\ s.next # NoNext => (q.op = "entry" => end <= PageMax)
                   /\ (s.exhaustive <=> end = n) \/ (Capped(q) /\ n > FetchFloor)
      <3> HIDE DEF n
      <3> QED BY <1>0, <1>1, SlicedStep
    <2>4. /\ a.rows = offset + 1 .. end
          /\ a.next \in {end, NoNext}
          /\ a.next # NoNext => (q.op = "entry" => end <= PageMax)
          /\ (a.exhaustive <=> end = n) \/ (Capped(q) /\ n > FetchFloor)
      BY <2>1, <2>3
    <2> HIDE DEF a
    <2> QED BY <2>2, <2>4 DEF a
  <1>2. CASE AllInUnits(product, q)
    <2>1. a = EnginePaged(n, TRUE, page, 0)
      BY <1>2 DEF Paginate, AllInUnits
    <2>2. a.rows = 1 .. n /\ a.next = NoNext /\ a.exhaustive = TRUE
      <3>1. EnginePaged(n, TRUE, page, 0).rows = 1 .. n BY Zenon DEF EnginePaged
      <3>2. EnginePaged(n, TRUE, page, 0).next = NoNext BY DEF EnginePaged
      <3>3. EnginePaged(n, TRUE, page, 0).exhaustive = TRUE BY DEF EnginePaged
      <3> QED BY <2>1, <3>1, <3>2, <3>3
    <2>3. n \in offset .. n /\ offset + 1 .. n = 1 .. n BY <1>0, <1>2
    <2> HIDE DEF a, n
    <2> QED BY <2>2, <2>3 DEF a, n
  <1>3. CASE q.op = "search" /\ ~AllInUnits(product, q)
    <2> DEFINE end == offset + Window(offset, page, n)
    <2>1. a = EnginePaged(n, FALSE, page, offset)
      <3>1. (q.filter = "none" /\ Covered[product][q]) = FALSE BY <1>3 DEF AllInUnits
      <3> QED BY <1>3, <3>1 DEF Paginate
    <2>2. end \in offset .. n BY <1>0 DEF Window, Least
    <2>3. /\ a.rows = offset + 1 .. end
          /\ a.next = IF end < n THEN end ELSE NoNext
          /\ a.exhaustive <=> a.next = NoNext
      <3> DEFINE e == EnginePaged(n, FALSE, page, offset)
      <3>1. e.rows = offset + 1 .. end BY DEF EnginePaged
      <3>2. e.next = IF end < n THEN end ELSE NoNext BY DEF EnginePaged
      <3>3. e.exhaustive = (e.next = NoNext) BY DEF EnginePaged
      <3> HIDE DEF e
      <3>4. e.exhaustive <=> e.next = NoNext BY <3>3
      <3> QED BY <2>1, <3>1, <3>2, <3>4 DEF e
    <2> HIDE DEF a, n, end
    <2>4. a.exhaustive <=> end = n
      <3>1. CASE end < n BY <1>0, <2>2, <2>3, <3>1 DEF NoNext
      <3>2. CASE ~(end < n) BY <1>0, <2>2, <2>3, <3>2
      <3> QED BY <3>1, <3>2
    <2> QED BY <1>3, <2>2, <2>3, <2>4 DEF a, n
  <1> QED BY <1>1, <1>2, <1>3 DEF AllInUnits

\* Rows of two successive intervals are those of the one they make, and none is in both.
LEMMA RowsJoin ==
  ASSUME NEW p, NEW q, NEW m \in Nat, NEW end \in Nat, m <= end
  PROVE  /\ RowsOf(p, q, 1 .. m) \cup RowsOf(p, q, m + 1 .. end) = RowsOf(p, q, 1 .. end)
         /\ RowsOf(p, q, m + 1 .. end) \cap RowsOf(p, q, 1 .. m) = {}
  <1>1. (1 .. m) \cup (m + 1 .. end) = 1 .. end OBVIOUS
  <1>2. \A i \in m + 1 .. end, j \in 1 .. m : <<p, q, i>> # <<p, q, j>> OBVIOUS
  <1>3. RowsOf(p, q, 1 .. m) \cup RowsOf(p, q, m + 1 .. end)
          = RowsOf(p, q, (1 .. m) \cup (m + 1 .. end))
    BY Zenon DEF RowsOf
  <1> QED BY <1>1, <1>2, <1>3 DEF RowsOf

\* A page that begins where the walk has got to keeps it in order.
LEMMA ShownInOrder ==
  ASSUME NEW q \in Queries, product \in Products, NEW page \in 1 .. PageMax,
         NEW m \in 0 .. Size[product][q],
         q.op = "entry" => m <= PageMax,
         AllInUnits(product, q) => m = 0
  PROVE  InOrder(Shown(q, RowsOf(product, q, 1 .. m), FALSE, Paginate(q, page, m)))
  <1> DEFINE a == Paginate(q, page, m)
             n == Size[product][q]
             w == Shown(q, RowsOf(product, q, 1 .. m), FALSE, a)
  <1>0. n \in Nat OBVIOUS
  <1>1. PICK end \in m .. n :
           /\ a.rows = m + 1 .. end
           /\ a.next \in {end, NoNext}
           /\ a.next # NoNext => /\ q.op = "entry" => end <= PageMax
                                 /\ ~AllInUnits(product, q)
           /\ (a.exhaustive <=> end = n) \/ (Capped(q) /\ n > FetchFloor)
    BY PaginateStep
  <1> HIDE DEF a
  <1>2. end \in 0 .. n /\ end \in Nat /\ m \in Nat /\ m <= end BY <1>0, <1>1
  <1>3. /\ RowsOf(product, q, 1 .. m) \cup RowsOf(product, q, a.rows) = RowsOf(product, q, 1 .. end)
        /\ RowsOf(product, q, a.rows) \cap RowsOf(product, q, 1 .. m) = {}
    BY <1>1, <1>2, RowsJoin
  <1>4. /\ w.q = q /\ w.snap = product
        /\ w.got = RowsOf(product, q, 1 .. m) \cup RowsOf(product, q, a.rows)
        /\ w.twice = (FALSE \/ RowsOf(product, q, a.rows) \cap RowsOf(product, q, 1 .. m) # {})
        /\ w.exhaustive = a.exhaustive
        /\ w.state = IF a.next = NoNext THEN "ended" ELSE "walking"
        /\ w.cursor = IF a.next = NoNext THEN NoCursor ELSE EncodeCursor(product, q, a.next)
    BY DEF Shown
  <1> HIDE DEF w
  <1>5. w.got = RowsOf(w.snap, w.q, 1 .. end) /\ ~w.twice BY <1>3, <1>4
  <1>6. w.state = "walking" => /\ w.cursor = EncodeCursor(w.snap, w.q, end)
                               /\ ~AllInUnits(w.snap, w.q)
                               /\ w.q.op = "entry" => end <= PageMax
    BY <1>1, <1>4
  <1>7. (w.exhaustive <=> end = Size[w.snap][w.q]) \/ (Capped(w.q) /\ Size[w.snap][w.q] > FetchFloor)
    BY <1>1, <1>4
  <1>8. ShownUpTo(w, end) BY <1>5, <1>6, <1>7 DEF ShownUpTo
  <1>9. end \in 0 .. Size[w.snap][w.q] BY <1>2, <1>4
  <1> QED BY <1>5, <1>8, <1>9 DEF InOrder, w, a

\* A step keeps the walk in order, as long as the client does not change the filters under
\* its cursor.
LEMMA InvStep ==
  ASSUME ~MixedFilters, TypeOK, Inv, [Next]_vars
  PROVE  Inv'
  <1>1. ASSUME NEW limit \in Limits, NEW q \in Queries, Ask(q, limit) PROVE Inv'
    <2>1. CASE Refusal(q, NoCursor) = "none"
      <3>1. product \in Products BY <2>1, NotRefused
      <3>2. RowsOf(product, q, 1 .. 0) = {} BY DEF RowsOf
      <3>3. Size[product][q] \in Nat BY <3>1
      <3>4. InOrder(Shown(q, RowsOf(product, q, 1 .. 0), FALSE, Paginate(q, Page(limit), 0)))
        <4>1. 0 \in 0 .. Size[product][q] /\ 0 <= PageMax BY <3>3
        <4>2. Page(limit) \in 1 .. PageMax BY PageInRange
        <4> QED BY <3>1, <4>1, <4>2, ShownInOrder
      <3>5. walk' = Shown(q, {}, FALSE, Paginate(q, Page(limit), 0))
        BY <1>1, <2>1 DEF Ask
      <3>6. InOrder(walk') BY <3>2, <3>4, <3>5
      <3> QED BY <3>6 DEF Inv, InOrder, ShownUpTo
    <2>2. CASE Refusal(q, NoCursor) # "none"
      <3>1. walk' = walk BY <1>1, <2>2 DEF Ask
      <3> QED BY <3>1 DEF Inv, InOrder, ShownUpTo
    <2> QED BY <2>1, <2>2
  <1>2. ASSUME NEW limit \in Limits, NextPage(limit) PROVE Inv'
    <2> DEFINE refusal == Refusal(walk.q, walk.cursor)
    <2>0. walk.state = "walking" BY <1>2 DEF NextPage
    <2>1. PICK n \in 0 .. Size[walk.snap][walk.q] : ShownUpTo(walk, n) /\ ~walk.twice
      BY <2>0 DEF Inv, InOrder
    <2>2. /\ walk.q \in Queries /\ walk.snap \in Products /\ walk.twice = FALSE
          /\ walk \in Walks
      BY <2>0, <2>1, WalkFields
    <2>3. CASE refusal = "none"
      <3>1. product \in Products BY <2>2, <2>3, NotRefused
      <3>2. walk.cursor = EncodeCursor(walk.snap, walk.q, n) BY <2>0, <2>1 DEF ShownUpTo
      <3>3. walk.cursor.kind = "cursor" /\ walk.cursor.s = walk.snap /\ OffsetOf(walk.cursor) = n
        BY <3>2, CursorFields
      <3>4. walk.snap = product BY <2>3, <3>3 DEF Refusal
      <3>5. walk' = Shown(walk.q, walk.got, walk.twice, Paginate(walk.q, Page(limit), n))
        BY <1>2, <2>3, <3>3 DEF NextPage
      <3>6. walk.got = RowsOf(product, walk.q, 1 .. n) BY <2>1, <3>4 DEF ShownUpTo
      <3>7. InOrder(Shown(walk.q, RowsOf(product, walk.q, 1 .. n), FALSE,
                          Paginate(walk.q, Page(limit), n)))
        BY <2>0, <2>1, <2>2, <3>1, <3>4, PageInRange, ShownInOrder DEF ShownUpTo
      <3>8. InOrder(walk') BY <2>2, <3>5, <3>6, <3>7
      <3> QED BY <3>8 DEF Inv, InOrder, ShownUpTo
    <2>4. CASE refusal = "BUILDING"
      <3>1. walk' = walk BY <1>2, <2>4 DEF NextPage
      <3> QED BY <3>1 DEF Inv, InOrder, ShownUpTo
    <2>5. CASE refusal \notin {"none", "BUILDING"}
      <3>1. walk' = [walk EXCEPT !.state = "broken", !.cursor = NoCursor]
        BY <1>2, <2>5 DEF NextPage
      <3>2. /\ walk'.state = "broken" /\ walk'.got = walk.got /\ walk'.snap = walk.snap
            /\ walk'.q = walk.q /\ walk'.twice = walk.twice
        BY <2>2, <3>1 DEF Walks
      <3>3. ShownUpTo(walk', n) BY <2>1, <3>2 DEF ShownUpTo
      <3>4. InOrder(walk') BY <2>1, <3>2, <3>3 DEF InOrder
      <3> QED BY <3>4 DEF Inv, InOrder, ShownUpTo
    <2> QED BY <2>3, <2>4, <2>5
  <1>3. ASSUME NEW limit \in Limits, NEW q \in Queries, NEW c \in Held \cup {Garbage, Bare},
               Stray(q, c, limit)
        PROVE  Inv'
    <2>0. walk.state = "walking" BY <1>3 DEF Stray
    <2>1. PICK n \in 0 .. Size[walk.snap][walk.q] : ShownUpTo(walk, n)
      BY <2>0 DEF Inv, InOrder
    <2>2. walk.cursor = EncodeCursor(walk.snap, walk.q, n) BY <2>0, <2>1 DEF ShownUpTo
    <2>3. walk.cursor.kind = "cursor" /\ walk.cursor.q = QueryFingerprint(walk.q)
      BY <2>2, CursorFields
    <2>4. c \in {Garbage, Bare} \/ (c = walk.cursor /\ QueryFingerprint(q) # QueryFingerprint(walk.q))
      BY <1>3 DEF Stray, SameFingerprint
    <2>5. Refusal(q, c) # "none"
      BY <2>3, <2>4 DEF Refusal, Garbage, Bare
    <2>6. walk' = walk BY <1>3, <2>5 DEF Stray
    <2> QED BY <2>6 DEF Inv, InOrder, ShownUpTo
  <1>4. CASE Builder
    <2>1. walk' = walk BY <1>4 DEF Builder, BeginBuild, Unlink, Replace, EndBuild
    <2> QED BY <2>1 DEF Inv, InOrder, ShownUpTo
  <1>5. CASE UNCHANGED vars
    BY <1>5 DEF vars, Inv, InOrder, ShownUpTo
  <1> QED BY <1>1, <1>2, <1>3, <1>4, <1>5 DEF Next

\* The invariant of every behaviour in which filters stay with their cursor.
LEMMA Invariant == ASSUME ~MixedFilters PROVE Spec => []Inv
  <1>1. Init => Inv BY DEF Init, Inv, NoWalk
  <1>2. TypeOK /\ Inv /\ [Next]_vars => Inv' BY InvStep
  <1> QED BY <1>1, <1>2, TypeCorrect, PTL DEF Spec

\* Whatever builds, limits and foreign cursors come between its pages, a walk shows the
\* first rows of one result of one product, each once (service/query.py:452-476).
THEOREM PagesKeepOrder == ASSUME ~MixedFilters PROVE Spec => []PagesInOrder
  <1>1. Inv => PagesInOrder
    BY DEF Inv, InOrder, ShownUpTo, PagesInOrder
  <1> QED BY <1>1, Invariant, PTL

\* exhaustive is said when, and only when, everything has been shown; a find that stopped
\* at its fetch is the one exception (service/query.py:344-353).
THEOREM ExhaustiveIsTrue == ASSUME ~MixedFilters PROVE Spec => []ExhaustiveIsExact
  <1>1. TypeOK /\ Inv => ExhaustiveIsExact
    <2> SUFFICES ASSUME TypeOK, Inv, walk.state \in {"walking", "ended"},
                        ~(Capped(walk.q) /\ Size[walk.snap][walk.q] > FetchFloor)
                 PROVE  walk.exhaustive <=> walk.got = AllRows(walk.snap, walk.q)
      BY DEF ExhaustiveIsExact
    <2>1. PICK n \in 0 .. Size[walk.snap][walk.q] : ShownUpTo(walk, n)
      BY DEF Inv, InOrder
    <2> DEFINE all == Size[walk.snap][walk.q]
    <2>2. all \in Nat BY WalkFields
    <2>3. walk.exhaustive <=> n = all BY <2>1 DEF ShownUpTo
    <2>4. walk.got = RowsOf(walk.snap, walk.q, 1 .. n) BY <2>1 DEF ShownUpTo
    <2>5. ASSUME n # all PROVE walk.got # AllRows(walk.snap, walk.q)
      <3>1. all \in 1 .. all /\ all \notin 1 .. n
        <4>1. n \in 0 .. all /\ n # all BY <2>1, <2>5
        <4> HIDE DEF all
        <4> QED BY <2>2, <4>1
      <3>2. <<walk.snap, walk.q, all>> \in AllRows(walk.snap, walk.q)
        BY <3>1 DEF AllRows, RowsOf
      <3>3. <<walk.snap, walk.q, all>> \notin walk.got
        BY <2>4, <3>1 DEF RowsOf
      <3> QED BY <3>2, <3>3
    <2> QED BY <2>3, <2>4, <2>5 DEF AllRows
  <1> QED BY <1>1, Invariant, TypeCorrect, PTL

-----------------------------------------------------------------------------
(***************************************************************************)
(* Progress.  Only a page that moved on offers a cursor (query.py 361-366, *)
(* "if primary_more and window"; query_search's next_offset).              *)
(***************************************************************************)
\* A window is never wider than what is left, nor empty while something is.
LEMMA WindowMoves ==
  ASSUME NEW offset \in Nat, NEW page \in 1 .. PageMax, NEW n \in Nat
  PROVE  /\ Window(offset, page, n) \in Nat
         /\ offset < n => Window(offset, page, n) > 0
         /\ offset >= n => Window(offset, page, n) = 0
  BY DEF Window, Least

LEMMA NextMoves ==
  ASSUME NEW q \in Queries, product \in Products, NEW page \in 1 .. PageMax, NEW offset \in Nat
  PROVE  LET a == Paginate(q, page, offset)
         IN  a.next = NoNext \/ (a.next \in Nat /\ offset < a.next)
  <1> DEFINE n == Size[product][q]
             covered == q.filter = "none" /\ Covered[product][q]
             listed == Listed(q, n, page)
             hinted == Hinted(q, n, page)
  <1>1. n \in Nat OBVIOUS
  <1>2. listed \in Nat BY <1>1, ListedTypes
  <1>3. CASE q.op = "search"
    <2>1. Paginate(q, page, offset).next = EnginePaged(n, covered, page, offset).next
      BY <1>3 DEF Paginate
    <2> HIDE DEF n, covered
    <2>2. /\ Window(offset, page, n) \in Nat
          /\ offset < n => Window(offset, page, n) > 0
          /\ offset >= n => Window(offset, page, n) = 0
      BY <1>1, WindowMoves
    <2> QED BY <1>1, <2>1, <2>2 DEF EnginePaged
  <1>4. CASE q.op # "search"
    <2>1. Paginate(q, page, offset).next = Sliced(listed, hinted, page, offset).next
      BY <1>4 DEF Paginate
    <2> HIDE DEF n, listed, hinted
    <2>2. Window(offset, page, listed) \in Nat
      BY <1>2, WindowMoves
    <2> QED BY <2>1, <2>2 DEF Sliced
  <1> QED BY <1>3, <1>4

\* A walk that was shown a page from o on has ended, or its cursor is beyond o.
LEMMA ShownOnward ==
  ASSUME NEW q \in Queries, product \in Products, NEW limit \in Limits, NEW o \in Nat,
         NEW got, NEW twice,
         walk' = Shown(q, got, twice, Paginate(q, Page(limit), o))
  PROVE  \/ walk'.state = "ended"
         \/ walk'.state = "walking" /\ o < OffsetOf(walk'.cursor)
  <1> DEFINE a == Paginate(q, Page(limit), o)
  <1>1. a.next = NoNext \/ (a.next \in Nat /\ o < a.next)
    BY PageInRange, NextMoves
  <1> HIDE DEF a
  <1>2. walk' = Shown(q, got, twice, a)
    BY DEF a
  <1>3. /\ walk'.state = (IF a.next = NoNext THEN "ended" ELSE "walking")
        /\ a.next # NoNext => OffsetOf(walk'.cursor) = a.next
    BY <1>2, CursorFields DEF Shown
  <1> QED BY <1>1, <1>3

\* Sending a cursor on, with any query and limit, is refused, or answered by such a page.
LEMMA PageLeadsOn ==
  ASSUME TypeOK, NEW limit \in Limits, answer' = "page",
         \/ NextPage(limit)
         \/ \E q \in Queries, c \in Held \cup {Garbage, Bare} : Stray(q, c, limit)
  PROVE  walk'.state = "walking" => OffsetOf(walk.cursor) < OffsetOf(walk'.cursor)
  <1> DEFINE Goal == walk'.state = "walking" => OffsetOf(walk.cursor) < OffsetOf(walk'.cursor)
             o == OffsetOf(walk.cursor)
  <1>0. walk.state = "walking"
    BY DEF NextPage, Stray
  <1>1. walk.q \in Queries /\ o \in Nat
    BY <1>0, WalkFields
  <1>2. \A q, c : Told(Refusal(q, c)) => Refusal(q, c) = "none"
    BY RefusalTypes DEF Told, Codes
  <1>3. ASSUME NEW q \in Queries, Refusal(q, walk.cursor) = "none",
               walk' = Shown(q, walk.got, walk.twice, Paginate(q, Page(limit), o))
        PROVE  Goal
    <2>1. product \in Products
      BY <1>3, NotRefused
    <2> HIDE DEF o
    <2>2. walk'.state = "ended" \/ (walk'.state = "walking" /\ o < OffsetOf(walk'.cursor))
      BY <1>1, <1>3, <2>1, ShownOnward
    <2> QED BY <2>2 DEF o
  <1>4. CASE NextPage(limit)
    <2>1. Refusal(walk.q, walk.cursor) = "none"
      BY <1>2, <1>4 DEF NextPage
    <2> QED BY <1>1, <1>3, <1>4, <2>1 DEF NextPage
  <1>5. ASSUME NEW q \in Queries, NEW c \in Held \cup {Garbage, Bare}, Stray(q, c, limit)
        PROVE  Goal
    <2>1. Refusal(q, c) = "none"
      BY <1>2, <1>5 DEF Stray
    <2>2. c = walk.cursor
      BY <1>5, <2>1 DEF Stray, Refusal, Garbage, Bare
    <2>3. walk' = Shown(q, walk.got, walk.twice, Paginate(q, Page(limit), o))
      BY <1>5, <2>1, <2>2 DEF Stray
    <2> QED BY <1>3, <2>1, <2>2, <2>3
  <1> QED BY <1>4, <1>5

\* Whatever builds, limits and foreign filters come between, every page a cursor is answered
\* with is the last or moves it on (service/query.py:361-366). With PagesKeepOrder a walk has
\* no more pages than its result has rows, and WalkEnds needs only a client that asks on.
THEOREM EachPageLeadsOn == Spec => PagesLeadOn
  <1>1. TypeOK /\ [Next]_vars
        => [\A limit \in Limits :
              /\ \/ NextPage(limit)
                 \/ \E q \in Queries, c \in Held \cup {Garbage, Bare} : Stray(q, c, limit)
              /\ answer' = "page" /\ walk'.state = "walking"
              => OffsetOf(walk.cursor) < OffsetOf(walk'.cursor)]_vars
    BY PageLeadsOn
  <1> QED BY <1>1, TypeCorrect, PTL DEF Spec, PagesLeadOn
=============================================================================
