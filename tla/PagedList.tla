------------------------------ MODULE PagedList ------------------------------
(***************************************************************************)
(* A list that a screen reads page by page, newest first, while rows come,  *)
(* go and are touched.  A page's cursor names the last row of the page, by  *)
(* its time and identity, or, for knowledge bases, the number of rows so    *)
(* far; a screen puts its pages together and drops what it has seen before. *)
(***************************************************************************)
EXTENDS Integers, Sequences, FiniteSets, SequencesExt

CONSTANTS
  Ids,      \* identities, ordered
  MaxTime,  \* bound on times
  Limit,    \* rows of a page
  MaxReads  \* bound on the fetches of a screen

PagedListAssumption ==
  IsFiniteSet(Ids) /\ Ids \subseteq Nat /\ MaxTime \in Nat /\ Limit \in Nat \ {0} /\ MaxReads \in Nat

VARIABLES
  order,   \* "created": employees, models, workflows; "updated": conversations; "offset"
  rows,    \* when each row was created or touched
  data,    \* the pages the screen holds
  query,   \* the fetch that is under way
  reads

vars == <<order, rows, data, query, reads>>

-----------------------------------------------------------------------------
NotYet == 0
Gone == -1
Live == {i \in Ids : rows[i] > 0}

(* stayed: the rows that were there when the first page was read, and that nothing
   has moved since *)
NoPages == [pages |-> <<>>, stayed |-> {}]
NoQuery == [pages |-> <<>>, stayed |-> {}, fetching |-> FALSE, wanted |-> 0]

Anchor(time, id) == [time |-> time, id |-> id]
NoCursor == Anchor(0, 0)

(* created_at < time, or the same time and a smaller id *)
SameTimeForgotten(a, b) == a.time < b.time
Behind(a, b) == a.time < b.time \/ (a.time = b.time /\ a.id < b.id)

AnchorOf(i) == Anchor(rows[i], i)

(* Each row comes after those that are ahead of it *)
Ahead(S, i) == {j \in S : Behind(AnchorOf(i), AnchorOf(j))}
NewestFirst(S) ==
  [n \in 1 .. Cardinality(S) |-> CHOOSE i \in S : Cardinality(Ahead(S, i)) = n - 1]

NextCursor(items, after) ==
  IF order = "offset" THEN Anchor(0, after.id + Len(items)) ELSE AnchorOf(Last(items))

(* PageSlice: limit + 1 rows are asked for, to see whether there are more *)
Page(found, after) ==
  LET n == IF Len(found) < Limit THEN Len(found) ELSE Limit
      items == SubSeq(found, 1, n)
  IN  [items |-> items,
       cursor |-> IF Len(found) > Limit THEN NextCursor(items, after) ELSE NoCursor]

KeysetPage(after) ==
  Page(NewestFirst({i \in Live : after = NoCursor \/ Behind(AnchorOf(i), after)}), after)

OffsetPage(after) ==
  LET all == NewestFirst(Live) IN Page(SubSeq(all, after.id + 1, Len(all)), after)

PageAfter(after) == IF order = "offset" THEN OffsetPage(after) ELSE KeysetPage(after)

CursorOf(pages) == IF pages = <<>> THEN NoCursor ELSE Last(pages).cursor

(* flattenCursorPages: every row where it was first, by page and by place in the page *)
Places(pages, i) ==
  {p \in (1 .. Len(pages)) \X (1 .. Limit) :
     p[2] \in DOMAIN pages[p[1]].items /\ pages[p[1]].items[p[2]] = i}
Before(p, q) == p[1] < q[1] \/ (p[1] = q[1] /\ p[2] < q[2])

Shown(pages, i) == Places(pages, i) # {}
ShownBefore(pages, i, j) ==
  \E p \in Places(pages, i) : \A q \in Places(pages, j) : Before(p, q)

-----------------------------------------------------------------------------
(* Rows; what is deleted under an offset moves all that follows it *)
Moves(S) ==
  /\ data' = [data EXCEPT !.stayed = @ \ S] /\ query' = [query EXCEPT !.stayed = @ \ S]
  /\ UNCHANGED <<order, reads>>

Create(i) ==
  /\ rows[i] = NotYet
  /\ \E time \in 1 .. MaxTime : rows' = [rows EXCEPT ![i] = time]
  /\ Moves({i})

Touch(i) ==
  /\ order = "updated" /\ i \in Live
  /\ \E time \in rows[i] + 1 .. MaxTime : rows' = [rows EXCEPT ![i] = time]
  /\ Moves({i})

Delete(i) ==
  /\ i \in Live /\ rows' = [rows EXCEPT ![i] = Gone]
  /\ Moves({i} \cup {j \in Live : order = "offset" /\ Behind(AnchorOf(j), AnchorOf(i))})

-----------------------------------------------------------------------------
(* useInfiniteQuery: the next page, or all its pages anew, one after the other; a
   fetch gives way to the next one *)
Fetches(start, wanted) ==
  /\ reads < MaxReads /\ reads' = reads + 1
  /\ query' = [pages |-> start.pages, stayed |-> start.stayed, fetching |-> TRUE, wanted |-> wanted]
  /\ UNCHANGED <<order, rows>>

FetchNextPage ==
  /\ CursorOf(data.pages) # NoCursor
  /\ Fetches(data, Len(data.pages) + 1) /\ UNCHANGED data

Refetch ==
  /\ data.pages # <<>>
  /\ Fetches(NoPages, Len(data.pages)) /\ UNCHANGED data

(* resetQueries, and the first fetch *)
Reset == Fetches(NoPages, 1) /\ data' = NoPages

ReadsPage ==
  /\ query.fetching
  /\ LET page == PageAfter(CursorOf(query.pages))
         now == [pages |-> Append(query.pages, page),
                 stayed |-> IF query.pages = <<>> THEN Live ELSE query.stayed]
     IN  IF Len(now.pages) = query.wanted \/ page.cursor = NoCursor
         THEN data' = now /\ query' = NoQuery
         ELSE /\ query' = [query EXCEPT !.pages = now.pages, !.stayed = now.stayed]
              /\ UNCHANGED data
  /\ UNCHANGED <<order, rows, reads>>

FetchFails ==
  /\ query.fetching /\ query' = NoQuery
  /\ UNCHANGED <<order, rows, data, reads>>

-----------------------------------------------------------------------------
Init ==
  /\ order \in {"created", "updated", "offset"}
  /\ rows \in [Ids -> NotYet .. MaxTime]
  /\ data = NoPages /\ query = NoQuery /\ reads = 0

Next ==
  \/ \E i \in Ids : Create(i) \/ Touch(i) \/ Delete(i)
  \/ FetchNextPage \/ Refetch \/ Reset \/ ReadsPage \/ FetchFails

Spec == Init /\ [][Next]_vars

-----------------------------------------------------------------------------
(* Every variable has its type. *)
TypeOK ==
  /\ \A i \in Ids : rows[i] \in Gone .. MaxTime
  /\ data.stayed \subseteq Live /\ query.stayed \subseteq Live
  /\ \A k \in DOMAIN data.pages : \A n \in DOMAIN data.pages[k].items : data.pages[k].items[n] \in Ids
  /\ query.fetching \in BOOLEAN

(* A row that nobody touched and, under an offset, before which none was deleted, is on
   the screen once, or still to come with the next pages, which are in order
   (pagination.py:83). *)
ToCome(i, cursor) ==
  /\ cursor # NoCursor
  /\ IF order = "offset" THEN Cardinality(Ahead(Live, i)) >= cursor.id
     ELSE Behind(AnchorOf(i), cursor)

IsWhole(pages, stayed) ==
  pages # <<>> => \A i \in stayed : Shown(pages, i) \/ ToCome(i, CursorOf(pages))
InOrder(pages, stayed) ==
  \A i, j \in stayed : ShownBefore(pages, i, j) => Behind(AnchorOf(j), AnchorOf(i))

ListsAreWhole == IsWhole(data.pages, data.stayed) /\ InOrder(data.pages, data.stayed)

=============================================================================
