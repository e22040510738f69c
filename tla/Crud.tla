-------------------------------- MODULE Crud --------------------------------
(***************************************************************************)
(* The REST handlers that crud() (crud.ts) makes for an entity, and the    *)
(* pages of its GET (crud.rs): a client follows next_page or prev_page     *)
(* links while others write.  A link carries a cursor: the sort keys and   *)
(* the values of the first or last row of the page it is on.               *)
(*                                                                         *)
(* The entity has an id and two optional numbers, a (to sort by) and b.    *)
(***************************************************************************)
EXTENDS Integers, Sequences, FiniteSets, SequencesExt

CONSTANTS
  Missing,     \* NULL, undefined, no row, an absent parameter
  CRows,       \* the tables to start from
  CRequests,   \* first requests: sort (field, ascending), size, offset, filter
  CPayloads,   \* bodies of POST, PUT and PATCH: functions from some of the fields; an
               \* id that is no UUID is Missing
  CIds,        \* ids
  MaxWrites    \* requests of other clients

Num       == Int \cup {Missing}
SortField == {"id", "a"}
CRow      == [id : CIds, a : Num, b : Num]
HeldRow   == [id : CIds \cup {Missing}, a : Num, b : Num]
SortKey   == [field : SortField, asc : BOOLEAN]
Axis      == [field : SortField, asc : BOOLEAN, value : Num]
Cursor    == [axes : Seq(Axis), forward : BOOLEAN, inclusive : BOOLEAN]
CFilter   == [field : SortField, op : {"Gt", "GtEq", "Lt", "LtEq", "Eq", "NotEq"}, value : Num]
CRequest  == [sort : Seq(SortKey), size : Nat, offset : Nat \cup {Missing},
              filter : CFilter \cup {Missing}, cursor : Cursor \cup {Missing}]

ASSUME CrudAssumption ==
  /\ CIds \subseteq Int /\ IsFiniteSet(CIds)
  /\ Missing \notin Int /\ Missing \notin Cursor /\ Missing \notin CRequest
  /\ \A t \in CRows : /\ t \in [CIds -> CRow \cup {Missing}]
                      /\ \A i \in CIds : t[i] # Missing => t[i].id = i
  /\ \A q \in CRequests : q \in CRequest /\ q.cursor = Missing
  /\ \A body \in CPayloads :
       /\ DOMAIN body \subseteq {"id", "a", "b"}
       /\ \A f \in DOMAIN body : body[f] \in IF f = "id" THEN CIds \cup {Missing} ELSE Num

VARIABLES
  rows,     \* the table: a row, or Missing, for each id
  request,  \* the client's next request; Missing when it has not started
  page,     \* the page it got last
  seen,     \* ids of the rows it got on the way forward
  stayed,   \* ids of rows that exist since it started, with the same key
  ended,    \* how its walk ended
  patching, \* PATCH handlers that have read the row: what they will save
  raced,    \* ids of rows written since a PATCH handler read them
  nwrites

cVars == <<rows, request, page, seen, stayed, ended, patching, raced, nwrites>>

CInit ==
  /\ rows = [i \in CIds |-> Missing] /\ request = Missing /\ page = << >> /\ seen = << >>
  /\ stayed = {} /\ ended = "no" /\ patching = << >> /\ raced = {} /\ nwrites = 0

-----------------------------------------------------------------------------
(* Requests and cursors.                                                   *)

Key(field, asc) == [field |-> field, asc |-> asc]

\* Pages need a total order.
ensure_sort_by_id(keys) ==
  IF \E i \in DOMAIN keys : keys[i].field = "id" THEN keys ELSE Append(keys, Key("id", TRUE))

\* A cursor sorts by its axes, in the opposite order when it goes backwards.
get_sort(cursor) ==
  [i \in DOMAIN cursor.axes |->
     Key(cursor.axes[i].field, cursor.axes[i].asc = cursor.forward)]

\* The order of the request, in which pages are returned.
Axes(q) ==
  IF q.cursor # Missing THEN [i \in DOMAIN q.cursor.axes |-> Key(q.cursor.axes[i].field, q.cursor.axes[i].asc)]
  ELSE ensure_sort_by_id(q.sort)

SortKeys(q) == IF q.cursor = Missing THEN ensure_sort_by_id(q.sort) ELSE get_sort(q.cursor)

\* json_to_value: a NULL is not a value to compare with.
json_to_value_fails(cursor) == \E i \in DOMAIN cursor.axes : cursor.axes[i].value = Missing

\* The comparison of an axis.
AxisOp(axis, cursor) ==
  IF axis.asc = cursor.forward
  THEN IF cursor.inclusive THEN "GtEq" ELSE "Gt"
  ELSE IF cursor.inclusive THEN "LtEq" ELSE "Lt"

\* In SQL, a comparison with NULL is not true.
Holds(op, l, r) ==
  /\ Missing \notin {l, r}
  /\ CASE op = "Gt" -> l > r [] op = "GtEq" -> l >= r [] op = "Lt" -> l < r
       [] op = "LtEq" -> l <= r [] op = "Eq" -> l = r [] op = "NotEq" -> l # r

\* (Mutant: later axes are compared whatever the earlier ones are.)
get_filter_loose(cursor, row) ==
  \E i \in DOMAIN cursor.axes :
    Holds(AxisOp(cursor.axes[i], cursor), row[cursor.axes[i].field], cursor.axes[i].value)

\* The rows after the pivot: greater on one axis and equal on those before it.
get_filter(cursor, row) ==
  \E i \in DOMAIN cursor.axes :
    /\ Holds(AxisOp(cursor.axes[i], cursor), row[cursor.axes[i].field], cursor.axes[i].value)
    /\ \A k \in 1 .. i - 1 : Holds("Eq", row[cursor.axes[k].field], cursor.axes[k].value)

\* filter_from_param: `.field~op=value'.
filter_from_param(f, row) == Holds(f.op, row[f.field], f.value)

\* from_url_query: the filters of a request, joined with AND.
Matches(q, row) ==
  /\ q.filter # Missing => filter_from_param(q.filter, row)
  /\ q.cursor # Missing => get_filter(q.cursor, row)

\* NULL is before every number.
Less(l, g) == l # g /\ (l = Missing \/ (g # Missing /\ l < g))

KeyLess(key, r, s) ==
  IF key.asc THEN Less(r[key.field], s[key.field]) ELSE Less(s[key.field], r[key.field])

\* ORDER BY: lexicographic ...
Before(keys, r, s) ==
  \E i \in DOMAIN keys :
    /\ \A k \in 1 .. i - 1 : r[keys[k].field] = s[keys[k].field]
    /\ KeyLess(keys[i], r, s)

\* ... so that there are k - 1 rows before the k-th.
Rank(keys, R, r) == Cardinality({s \in R : Before(keys, s, r)})

Sorted(keys, R) == [k \in 1 .. Cardinality(R) |-> CHOOSE r \in R : Rank(keys, R, r) = k - 1]

Table == {rows[i] : i \in CIds} \ {Missing}

\* make_query_ops: sort, filter, skip, take.
make_query_ops(q) ==
  LET sorted == Sorted(SortKeys(q), {r \in Table : Matches(q, r)})
      start  == IF q.offset = Missing THEN 0 ELSE q.offset
      end    == IF start + q.size < Len(sorted) THEN start + q.size ELSE Len(sorted)
  IN SubSeq(sorted, start + 1, end)

\* (Mutant: a page read backwards is returned backwards.)
page_as_read(q) == make_query_ops(q)

\* run_query: a page read backwards is turned round.
run_query(q) ==
  IF q.cursor # Missing /\ ~q.cursor.forward THEN Reverse(make_query_ops(q)) ELSE make_query_ops(q)

cursor_from_pivot(q, pivot, forward) ==
  [axes |-> [i \in DOMAIN Axes(q) |-> [field |-> Axes(q)[i].field, asc |-> Axes(q)[i].asc,
                                       value |-> pivot[Axes(q)[i].field]]],
   forward |-> forward, inclusive |-> FALSE]

\* An empty page is left through the cursor that led to it.
reversed(cursor) == [cursor EXCEPT !.forward = ~@, !.inclusive = ~@]

\* The parameters of the request except sort and cursor, and the new cursor.
make_page_url(q, cursor) == [q EXCEPT !.cursor = cursor, !.sort = << >>]

\* next_page (forward) or prev_page of a page, Missing if there is none.
get_page(q, results, forward) ==
  IF results # << >>
  THEN make_page_url(q, cursor_from_pivot(q, IF forward THEN Last(results) ELSE Head(results), forward))
  ELSE IF q.cursor # Missing /\ q.cursor.forward # forward
  THEN make_page_url(q, reversed(q.cursor)) ELSE Missing

Usable(q) == q.cursor # Missing => ~json_to_value_fails(q.cursor)

-----------------------------------------------------------------------------
(* The client that pages through the table.                                *)

c_setup(t) ==
  /\ request = Missing /\ Table = {} /\ rows' = t
  /\ UNCHANGED <<request, page, seen, stayed, ended, patching, raced, nwrites>>

get_first(q) ==
  /\ request = Missing /\ Table # {}
  /\ request' = q
  /\ stayed' = {i \in CIds : rows[i] # Missing}
  /\ UNCHANGED <<rows, page, seen, ended, patching, raced, nwrites>>

\* getAll: the page of the request, and on to the next.
getAll ==
  /\ request # Missing /\ ended = "no" /\ Usable(request)
  /\ LET results == run_query(request)
         next    == get_page(request, results, TRUE)
     IN /\ page' = results
        /\ seen' = seen \o [i \in DOMAIN results |-> results[i].id]
        /\ ended' = IF next = Missing THEN "end" ELSE "no"
        /\ request' = IF next = Missing THEN request ELSE next
  /\ UNCHANGED <<rows, stayed, patching, raced, nwrites>>

\* A cursor with a NULL is refused.
getAll_err ==
  /\ request # Missing /\ ended = "no" /\ ~Usable(request)
  /\ ended' = "error"
  /\ UNCHANGED <<rows, request, page, seen, stayed, patching, raced, nwrites>>

-----------------------------------------------------------------------------
(* Other clients.                                                          *)

\* Assigning the fields of a payload (mergeIntoEntity).
MergeInto(row, body) == [f \in DOMAIN row |-> IF f \in DOMAIN body THEN body[f] ELSE row[f]]

NoRow(i) == [id |-> i, a |-> Missing, b |-> Missing]

\* make_insert_query: INSERT, or UPDATE of the fields that the entity has.  Its id is i.
Saved(i, entity) ==
  [MergeInto(IF rows[i] = Missing THEN NoRow(i) ELSE rows[i], entity) EXCEPT !.id = i]

\* The row of id i is written.
Write(i, row) ==
  /\ nwrites < MaxWrites /\ nwrites' = nwrites + 1
  /\ rows' = [rows EXCEPT ![i] = row]
  /\ stayed' = IF rows[i] # Missing /\ row # Missing /\ rows[i].a = row.a
               THEN stayed ELSE stayed \ {i}
  /\ raced' = raced \cup {i}
  /\ UNCHANGED <<request, page, seen, ended>>

\* The id of the payload is ignored; a new one is one that was not used before.
post(i, body) ==
  /\ rows[i] = Missing /\ i \notin raced
  /\ Write(i, Saved(i, body)) /\ UNCHANGED patching

\* The id is that of the path.
put(i, body) == Write(i, Saved(i, body)) /\ UNCHANGED patching

\* PATCH reads the row of the path and assigns the payload, its id too.
patch_read(i, body) ==
  /\ rows[i] # Missing /\ patching = << >> /\ nwrites < MaxWrites
  /\ patching' = <<[id |-> i, body |-> body, row |-> MergeInto(rows[i], body)]>>
  /\ raced' = raced \ {i}
  /\ UNCHANGED <<rows, request, page, seen, stayed, ended, nwrites>>

\* (Mutant: only the fields of the payload are saved, and the others cleared.)
patch_save_defined ==
  /\ patching # << >>
  /\ LET p == Head(patching)
     IN /\ p.row.id # Missing
        /\ Write(p.row.id, [MergeInto(NoRow(p.row.id), p.body) EXCEPT !.id = p.row.id])
  /\ patching' = << >>

\* What the handler has, to the row whose id it has by now.
patch_save ==
  /\ patching # << >>
  /\ LET p == Head(patching)
         given == {f \in DOMAIN p.row : p.row[f] # Missing \/ f \in DOMAIN p.body}
     IN /\ p.row.id # Missing
        /\ Write(p.row.id, Saved(p.row.id, [f \in given |-> p.row[f]]))
  /\ patching' = << >>

\* An id that is no UUID is refused.
patch_err ==
  /\ patching # << >> /\ Head(patching).row.id = Missing /\ patching' = << >>
  /\ UNCHANGED <<rows, request, page, seen, stayed, ended, raced, nwrites>>

deleteOne(i) == Write(i, Missing) /\ UNCHANGED patching

\* delete_from_url_query: by a filter, or everything (all=true); with neither it is refused.
deleteAll(f) ==
  /\ nwrites < MaxWrites /\ nwrites' = nwrites + 1
  /\ LET gone == {i \in CIds : rows[i] # Missing /\ (f = Missing \/ filter_from_param(f, rows[i]))}
     IN /\ rows' = [i \in CIds |-> IF i \in gone THEN Missing ELSE rows[i]]
        /\ stayed' = stayed \ gone
        /\ raced' = raced \cup gone
  /\ UNCHANGED <<request, page, seen, ended, patching>>

c_done ==
  /\ ended # "no"
  /\ rows' = [i \in CIds |-> Missing] /\ request' = Missing /\ page' = << >> /\ seen' = << >>
  /\ stayed' = {} /\ ended' = "no" /\ patching' = << >> /\ raced' = {} /\ nwrites' = 0

CFilters == {q.filter : q \in CRequests} \ {Missing}

CNext ==
  \/ \E t \in CRows : c_setup(t)
  \/ \E q \in CRequests : get_first(q)
  \/ getAll \/ getAll_err \/ patch_save \/ patch_err \/ c_done
  \/ /\ request # Missing
     /\ \E i \in CIds : deleteOne(i)
          \/ \E body \in CPayloads : post(i, body) \/ put(i, body) \/ patch_read(i, body)
  \/ /\ request # Missing
     /\ \E f \in CFilters \cup {Missing} : deleteAll(f)

CSpec == CInit /\ [][CNext]_cVars

-----------------------------------------------------------------------------
(* Properties.                                                             *)

Times(i) == Cardinality({k \in DOMAIN seen : seen[k] = i})

\* The row has all sort keys, and passes the filter.
Wanted(i) ==
  /\ \A k \in DOMAIN Axes(request) : rows[i][Axes(request)[k].field] # Missing
  /\ request.filter # Missing => filter_from_param(request.filter, rows[i])

\* crud.rs 130-177, 352-393: following next_page to the end yields every row that
\* stays in place exactly once, whatever others insert, delete or move meanwhile.
\* (Rows with NULL in the sort key may be passed over, the offset of the first
\* request is applied to every page, and pages of size 0 are empty.)
WalkReturnsAll ==
  ended = "end" /\ request.offset = Missing =>
    \A i \in stayed : Times(i) <= 1 /\ (request.size > 0 /\ Wanted(i) => Times(i) = 1)

\* crud.rs 148-153, 339-347: the prev_page of the next page leads back to where the
\* client was, also from the empty page behind the last.
PrevUndoesNext ==
  page # << >> /\ ended = "no" /\ request.offset = Missing /\ Usable(request) /\ nwrites = 0 =>
    LET next == run_query(request)
        back == get_page(request, next, FALSE)
    IN Usable(back) /\ (\A r \in Table : r.a # Missing) =>
         IsSuffix(page, run_query(back)) /\ (next # << >> => run_query(back) = page)

\* The id that the handler saves to: one in the payload replaces that of the path.
PatchTarget(p) == IF "id" \in DOMAIN p.body THEN p.body.id ELSE p.id

\* crud.ts 121-134: a PATCH writes one row, that of its path or of the id in its
\* payload.  If this is the row it read, and nobody wrote it since, the fields that
\* the payload does not name stay as they are stored.
PatchKeepsOtherFields ==
  [][patch_save =>
       LET p == Head(patching)
           t == PatchTarget(p)
       IN /\ \A i \in CIds \ {t} : rows'[i] = rows[i]
          /\ t = p.id /\ t \notin raced =>
               \A f \in DOMAIN rows[t] \ DOMAIN p.body : rows'[t][f] = rows[t][f]]_cVars

\* What the inductive invariant of this needs: the handler has what it read, with
\* the payload, as long as nobody wrote the row.
PatchInv ==
  /\ DOMAIN rows = CIds
  /\ request = Missing => patching = << >>
  /\ patching # << >> =>
       LET p == Head(patching) IN
       /\ p.id \in CIds
       /\ p.id \notin raced => rows[p.id] # Missing /\ p.row = MergeInto(rows[p.id], p.body)

\* The rows have their ids; a link that leads forward has a key of its own for every
\* row, and the rows behind its pivot exclude the pivot.
CrudTypeOK ==
  /\ rows \in [CIds -> CRow \cup {Missing}]
  /\ \A i \in CIds : rows[i] # Missing => rows[i].id = i
  /\ stayed \subseteq {i \in CIds : rows[i] # Missing}
  /\ seen \in Seq(CIds) /\ page \in Seq(CRow) /\ nwrites \in Nat
  /\ request \in CRequest \cup {Missing}
  /\ request # Missing /\ request.cursor # Missing =>
       /\ request.cursor.forward /\ ~request.cursor.inclusive
       /\ \E k \in DOMAIN request.cursor.axes : request.cursor.axes[k].field = "id"
  /\ request = Missing => seen = << >> /\ page = << >> /\ patching = << >> /\ ended = "no"
  /\ ended = "end" => Usable(request)
  /\ patching # << >> =>
       LET p == Head(patching) IN
       p.id \in CIds /\ p.row \in HeldRow /\ p.row.id = PatchTarget(p)

\* The client has each row that stays once, or has passed it over, or it is behind
\* the cursor.
WalkInv ==
  request # Missing /\ request.offset = Missing /\ Usable(request) =>
    \A i \in stayed :
      /\ \A k, l \in DOMAIN seen : seen[k] = i /\ seen[l] = i => k = l
      /\ \A k \in DOMAIN seen : seen[k] = i =>
           request.cursor # Missing /\ ~get_filter(request.cursor, rows[i])
      /\ request.size > 0 /\ Wanted(i) =>
           \/ \E k \in DOMAIN seen : seen[k] = i
           \/ ended = "no" /\ (request.cursor # Missing => get_filter(request.cursor, rows[i]))

\* The rows that the pages of a request go through.
Selected(q) == {r \in Table : q.filter # Missing => filter_from_param(q.filter, r)}

\* As long as nobody writes, the page is the part of the sorted rows in front of the
\* cursor, full unless it is the last.
BackInv ==
  request # Missing /\ ended = "no" /\ request.offset = Missing /\ nwrites = 0
    /\ (\A r \in Table : r.a # Missing)
  => \/ page = << >> /\ request.cursor = Missing
     \/ /\ page # << >> /\ request.cursor = cursor_from_pivot(request, Last(page), TRUE)
        /\ \E m \in 0 .. Cardinality(Selected(request)) - Len(page) :
             /\ \A k \in DOMAIN page : page[k] = Sorted(Axes(request), Selected(request))[m + k]
             /\ \/ Len(page) = request.size
                \/ Len(page) < request.size /\ m + Len(page) = Cardinality(Selected(request))

CrudInv == CrudTypeOK /\ PatchInv /\ WalkInv /\ BackInv
=============================================================================
