------------------------------ MODULE Queries ------------------------------
(***************************************************************************)
(* Cursors.  User code builds a chain of operators on a ChiselCursor       *)
(* (datastore.ts).  When the cursor is iterated the longest prefix without *)
(* a JavaScript function goes to the database as one SQL query, which      *)
(* QueryPlan (query.rs) builds in nested segments, with the filters that   *)
(* the policies demand below the user's operators; the operators after the *)
(* prefix are applied to the rows in JavaScript, one row at a time.        *)
(* What a filter of the user selects is a parameter (see Pushdown).        *)
(*                                                                         *)
(* One entity: an id, an optional or required number `a' (perhaps with a   *)
(* default), and an owner, an AuthUser of another table.  A stream of rows *)
(* is a sequence; an exception ends it with Thrown.                        *)
(***************************************************************************)
EXTENDS Naturals, Sequences, FiniteSets, SequencesExt

CONSTANTS
  Null,      \* NULL and null, also undefined as the value of a field
  Undefined, \* undefined as the value of a restriction
  Thrown,    \* an exception or a panic while a row is read
  Anon,      \* what anonymization returns
  QSetups,   \* tables and policies to query
  QOps,      \* operators that the user's code may add
  QRestrictions, \* arguments of delete
  MaxChain,  \* length of the chains
  SqlFilter(_, _), \* a filter object, translated to SQL, on a row: TRUE, FALSE or Null
  JsFilter(_, _)   \* a filter object on a row, in JavaScript: TRUE, FALSE or Thrown

JsOnly     == {"Map", "PredicateFilter", "MinBy"}
Aggregates == {"Count", "MinBy"}
Operators  == JsOnly \cup Aggregates
                \cup {"Take", "Skip", "Select", "InternalFilter", "ExpressionFilter", "SortBy"}

\* A table with its policies: rows; users that exist; uid, login (the field owner is
\* match_login); the field a: required, default dflt, policy; the database.  No user
\* has the id 0.
IsSetup(su) ==
  /\ DOMAIN su = {"rows", "users", "uid", "login", "required", "dflt", "policy", "db"}
  /\ su.login \in BOOLEAN
  /\ su.rows \in Seq(ToSet(su.rows))
  /\ \A k \in DOMAIN su.rows : DOMAIN su.rows[k] = {"id", "a", "owner"} /\ su.rows[k].owner # 0
  /\ \A k, l \in DOMAIN su.rows : su.rows[k].id = su.rows[l].id => k = l

ASSUME QueriesAssumption ==
  /\ \A op \in QOps : op.op \in Operators /\ (op.op \in {"Take", "Skip"} => op.n \in Nat)
  /\ \A su \in QSetups : IsSetup(su)
  /\ \A r \in QRestrictions : DOMAIN r \subseteq {"id", "a", "owner"}

VARIABLES
  setup,   \* the table and its policies
  chain,   \* the operators of the cursor, the innermost first
  phase,   \* "build" the cursor, rows of "sql", or rows in "js"
  plan,    \* operators of the query that are not yet part of it
  rest,    \* operators that are not yet applied in JavaScript
  stream   \* the rows so far

qVars == <<setup, chain, phase, plan, rest, stream>>

NoSetup == [rows |-> << >>, users |-> {}, uid |-> Null, login |-> FALSE,
            required |-> FALSE, dflt |-> Null, policy |-> "keep", db |-> "sqlite"]

QInit ==
  /\ setup = NoSetup /\ chain = << >> /\ phase = "build"
  /\ plan = << >> /\ rest = << >> /\ stream = << >>

-----------------------------------------------------------------------------
(* Operators applied in JavaScript: from a stream to the possible streams. *)

Fails(s) == s # << >> /\ Last(s) = Thrown

\* The elements at some places, in their order.
Picked(s, I) ==
  [k \in 1 .. Cardinality(I) |-> s[CHOOSE i \in I : Cardinality({j \in I : j < i}) = k - 1]]

\* The elements that pass, up to an exception.
KeepIf(s, Test(_)) ==
  LET throws == {i \in DOMAIN s : s[i] = Thrown \/ Test(s[i]) = Thrown}
      before == {i \in DOMAIN s : \A t \in throws : i < t}
      kept   == Picked(s, {i \in before : Test(s[i])})
  IN IF throws = {} THEN kept ELSE Append(kept, Thrown)

Mapped(s, F(_)) == [i \in DOMAIN s |-> IF s[i] = Thrown THEN Thrown ELSE F(s[i])]

Orders(s) == SetToSeqs(ToSet(s))

\* For SQLite NULL is less than every number, for Postgres greater.
AtMost(l, r) ==
  \/ l = r
  \/ IF Null \in {l, r} THEN (l = Null) = (setup.db = "sqlite") ELSE l <= r

InOrder(l, r, asc) == IF asc THEN AtMost(l, r) ELSE AtMost(r, l)

SortedBy(s, asc) == \A i, j \in DOMAIN s : i < j => InOrder(s[i].a, s[j].a, asc)

Take(n, s) == SubSeq(s, 1, IF n < Len(s) THEN n ELSE Len(s))
Skip(n, s) == IF Fails(s) /\ Len(s) <= n THEN <<Thrown>> ELSE SubSeq(s, n + 1, Len(s))
MapOperator(s) == Mapped(s, LAMBDA e : [e EXCEPT !.a = IF @ \in {Null, Anon} THEN @ ELSE 3 - @])
ColumnsSelect(s) == Mapped(s, LAMBDA e : [e EXCEPT !.owner = Null])

\* A user's predicate, which compares without throwing: undefined is unordered.
Predicate(f, row) == LET x == JsFilter(f, row) IN IF x = Thrown THEN FALSE ELSE x

PredicateFilter(f, s)  == KeepIf(s, LAMBDA e : Predicate(f, e))
InternalFilter(f, s)   == KeepIf(s, LAMBDA e : Predicate(f, e))
ExpressionFilter(f, s) == KeepIf(s, LAMBDA e : JsFilter(f, e))

\* The stable sort of the language; with undefined keys the comparison is no
\* order and any permutation may result.
SortBy(asc, s) ==
  IF Fails(s) THEN {<<Thrown>>}
  ELSE LET at(e) == CHOOSE i \in DOMAIN s : s[i] = e
           defined == \A i \in DOMAIN s : s[i].a # Null
       IN {p \in Orders(s) :
             defined => /\ SortedBy(p, asc)
                        /\ \A i, j \in DOMAIN p : i < j /\ p[i].a = p[j].a => at(p[i]) < at(p[j])}

\* The one element of the stream of an aggregate.
Total(v) == [total |-> v]

Count(s) == IF Fails(s) THEN <<Thrown>> ELSE <<Total(Len(s))>>

\* AggregateBy: undefined values are skipped, and the least of none is undefined.
MinBy(s) ==
  LET vals == {s[i].a : i \in DOMAIN s} \ {Null}
  IN IF Fails(s) THEN <<Thrown>>
     ELSE <<Total(IF vals = {} THEN Null ELSE CHOOSE v \in vals : \A w \in vals : v = w \/ v < w)>>

apply(op, s) ==
  CASE op.op = "Take"   -> {Take(op.n, s)}
    [] op.op = "Skip"   -> {Skip(op.n, s)}
    [] op.op = "Map"    -> {MapOperator(s)}
    [] op.op = "Select" -> {ColumnsSelect(s)}
    [] op.op = "PredicateFilter"  -> {PredicateFilter(op.f, s)}
    [] op.op = "InternalFilter"   -> {InternalFilter(op.f, s)}
    [] op.op = "ExpressionFilter" -> {ExpressionFilter(op.f, s)}
    [] op.op = "SortBy" -> SortBy(op.asc, s)
    [] op.op = "Count"  -> {Count(s)}
    [] op.op = "MinBy"  -> {MinBy(s)}

-----------------------------------------------------------------------------
(* QueryPlan: the operators as a SQL query.                                *)

\* Conditions of a WHERE: a filter of the user, and the equality of a field and a value.
Filter(f)    == [c |-> "filter", f |-> f]
Equal(p, v)  == [c |-> "eq", p |-> p, v |-> v]
FilterOp(conds) == [op |-> "Filter", conds |-> conds]

\* A comparison with NULL is not true.
IsTrue(cond, row) ==
  IF cond.c = "filter" THEN SqlFilter(cond.f, row) = TRUE
  ELSE Null \notin {row[cond.p], cond.v} /\ row[cond.p] = cond.v

\* convert_ops.
convert_ops(c) ==
  [i \in DOMAIN c |->
     IF c[i].op \in {"ExpressionFilter", "InternalFilter"} THEN FilterOp({Filter(c[i].f)}) ELSE c[i]]

\* (Mutant: nobody is logged in, nothing is to be matched.)
login_filters_of_users ==
  IF setup.login /\ setup.uid # Null THEN <<FilterOp({Equal("owner", setup.uid)})>> ELSE << >>

\* The owner must be the user who is logged in; without one it is compared with
\* an id that no user has.
add_login_filters ==
  IF setup.login
  THEN <<FilterOp({Equal("owner", IF setup.uid = Null THEN 0 ELSE setup.uid)})>> ELSE << >>

\* The last projection counts, if no Count follows it.
allowed_fields(c) ==
  LET last == SelectLastInSeq(c, LAMBDA op : op.op \in {"Select", "Count"})
  IN IF last # 0 /\ c[last].op = "Select" THEN {"id", "a"} ELSE {"id", "a", "owner"}

\* from_op_chain: load_entity adds the policies' filters, then extend_operators
\* the chain without its projections.
from_op_chain(c) ==
  add_login_filters \o Picked(convert_ops(c), {i \in DOMAIN c : c[i].op # "Select"})

\* coalesce: the default stands for NULL.
make_column_string(r) == IF r.a = Null THEN setup.dflt ELSE r.a

\* LEFT JOIN: the owner's row, if there is one.
make_join_string(r) == IF r.owner \in setup.users THEN r.owner ELSE Null

\* The columns of the entity, and of the one it refers to.
load_entity_recursive(r) ==
  [id |-> r.id, a |-> make_column_string(r), owner |-> r.owner, joined |-> make_join_string(r)]

make_core_select == [i \in DOMAIN setup.rows |-> load_entity_recursive(setup.rows[i])]

\* (Mutant: only a Take ends a segment.)
split_at_take(q) ==
  LET i == SelectInSeq(q, LAMBDA op : op.op = "Take")
  IN IF i = 0 THEN Len(q) ELSE i

\* Where the first segment ends: at a Take or a Skip.
split_on_first_take(q) ==
  LET i == SelectInSeq(q, LAMBDA op : op.op \in {"Take", "Skip"})
  IN IF i = 0 THEN Len(q) ELSE i

\* gather_filters, with AND.
gather_filters(q, row) ==
  \A i \in DOMAIN q : q[i].op = "Filter" => \A cond \in q[i].conds : IsTrue(cond, row)

find_last_sort_by(q) == SelectLastInSeq(q, LAMBDA op : op.op = "SortBy")

\* LIMIT and OFFSET: a segment has at most one of them.
limit_and_offset(q, s) ==
  CASE Last(q).op = "Take" -> Take(Last(q).n, s)
    [] Last(q).op = "Skip" -> SubSeq(s, Last(q).n + 1, Len(s))
    [] OTHER -> s

\* SELECT ... FROM (s) WHERE ... ORDER BY ... LIMIT ... OFFSET: rows with equal
\* keys come in any order; without ORDER BY the order of the subquery is kept.
\* Postgres refuses to order a COUNT(*) by a column.
SelectFrom(q, s) ==
  LET kept   == Picked(s, {i \in DOMAIN s : gather_filters(q, s[i])})
      sort   == find_last_sort_by(q)
      orders == IF sort = 0 THEN {kept} ELSE {p \in Orders(kept) : SortedBy(p, q[sort].asc)}
  IN IF Last(q).op = "Count"
     THEN {IF sort # 0 /\ setup.db = "postgres" THEN <<Thrown>> ELSE <<Total(Len(kept))>>}
     ELSE {limit_and_offset(q, p) : p \in orders}

\* make_field_policies: the field is omitted, or its value is transformed.
field_policy(v) ==
  CASE setup.policy = "omit" \/ v = Null -> Null
    [] setup.policy = "anonymize" -> Anon
    [] OTHER -> v

\* Only the fields that the projection allows.
project(entity, fields) == [entity EXCEPT !.owner = IF "owner" \in fields THEN @ ELSE Null]

\* NULL in a required field, and a required owner that does not exist, cannot be read.
row_to_entity_value(row, fields) ==
  IF setup.required /\ (row.joined = Null \/ (row.a = Null /\ setup.policy # "omit")) THEN Thrown
  ELSE project([id |-> row.id, a |-> field_policy(row.a), owner |-> row.joined], fields)

-----------------------------------------------------------------------------
(* delete.                                                                 *)

\* A conjunction; undefined values are left out, and null becomes NULL.
restrictionsToFilterExpr(r) == FilterOp({Equal(k, r[k]) : k \in {k \in DOMAIN r : r[k] # Undefined}})

\* The ids that a query of filters selects.
Ids(q) ==
  {make_core_select[i].id : i \in {i \in DOMAIN make_core_select : gather_filters(q, make_core_select[i])}}

\* (Mutant: the policies do not restrict what is deleted.)
delete_unrestricted(r) == Ids(<<restrictionsToFilterExpr(r)>>)

\* Mutation: the ids that the filters of the policies and the restrictions select.
delete_from_expr(r) == Ids(add_login_filters \o <<restrictionsToFilterExpr(r)>>)

-----------------------------------------------------------------------------
(* Actions.                                                                *)

\* Some tables and policies, and no cursor.
q_setup == setup = NoSetup /\ setup' \in QSetups /\ UNCHANGED <<chain, phase, plan, rest, stream>>

\* A method of ChiselCursor.  count and minBy are the last.
cursor_op(op) ==
  /\ setup # NoSetup /\ phase = "build" /\ Len(chain) < MaxChain
  /\ chain # << >> => Last(chain).op \notin Aggregates
  /\ chain' = Append(chain, op)
  /\ UNCHANGED <<setup, phase, plan, rest, stream>>

\* The cursor is iterated.  Operator.eval: the operators in front of the first with a
\* JavaScript function are a query, from_op_chain.
asyncIterator ==
  /\ setup # NoSetup /\ phase = "build" /\ phase' = "sql"
  /\ LET i == SelectInSeq(chain, LAMBDA op : op.op \in JsOnly)
         n == IF i = 0 THEN Len(chain) ELSE i - 1
     IN /\ plan' = from_op_chain(SubSeq(chain, 1, n))
        /\ rest' = SubSeq(chain, n + 1, Len(chain))
  /\ stream' = make_core_select
  /\ UNCHANGED <<setup, chain>>

\* make_raw_query: a segment more is wrapped around the query.
make_raw_query ==
  /\ phase = "sql" /\ plan # << >>
  /\ LET n == split_on_first_take(plan)
     IN /\ stream' \in SelectFrom(SubSeq(plan, 1, n), stream)
        /\ plan' = SubSeq(plan, n + 1, Len(plan))
  /\ UNCHANGED <<setup, chain, phase, rest>>

\* The operators of the query.
Sent == SubSeq(chain, 1, Len(chain) - Len(rest))

\* The query is a count.
Counts == Sent # << >> /\ Last(Sent).op = "Count"

\* The rows as entities, up to the first that cannot be read.
ReadRows(s) ==
  LET read(row) == row_to_entity_value(row, allowed_fields(Sent))
      bad == SelectInSeq(s, LAMBDA row : read(row) = Thrown)
  IN Mapped(Take(IF bad = 0 THEN Len(s) ELSE bad, s), read)

\* runChiselQuery: iterate over the rows.
runChiselQuery ==
  /\ phase = "sql" /\ plan = << >> /\ phase' = "js"
  /\ stream' = IF Counts THEN stream ELSE ReadRows(stream)
  /\ UNCHANGED <<setup, chain, plan, rest>>

\* Operator.eval: the next operator is applied.
eval ==
  /\ phase = "js" /\ rest # << >>
  /\ stream' \in apply(Head(rest), stream)
  /\ rest' = Tail(rest)
  /\ UNCHANGED <<setup, chain, phase, plan>>

\* ChiselEntity.delete.
q_delete(r) ==
  /\ setup # NoSetup /\ phase = "build" /\ chain = << >>
  /\ setup' = [setup EXCEPT !.rows =
       Picked(@, {i \in DOMAIN @ : @[i].id \notin delete_from_expr(r)})]
  /\ UNCHANGED <<chain, phase, plan, rest, stream>>

q_done ==
  /\ setup # NoSetup /\ setup' = NoSetup /\ chain' = << >> /\ phase' = "build"
  /\ plan' = << >> /\ rest' = << >> /\ stream' = << >>

QNext ==
  \/ q_setup \/ q_done
  \/ \E op \in QOps : cursor_op(op)
  \/ asyncIterator \/ make_raw_query \/ runChiselQuery \/ eval
  \/ \E r \in QRestrictions : q_delete(r)

QSpec == QInit /\ [][QNext]_qVars

-----------------------------------------------------------------------------
(* Properties.                                                             *)

\* The result is not a row, but a total.
Aggregated == rest = << >> /\ chain # << >> /\ Last(chain).op \in Aggregates

\* An entity of the user who is logged in, without what the field's policy hides.
Allowed(e) ==
  /\ setup.login => setup.uid # Null /\ \E k \in DOMAIN setup.rows :
       setup.rows[k].id = e.id /\ setup.rows[k].owner = setup.uid
  /\ setup.policy = "omit" => e.a = Null
  /\ setup.policy = "anonymize" => e.a \in {Null, Anon}

\* query.rs 339-346, 432-470: no operators of the user, in the database or after,
\* make a cursor return a row of another user, nor the value of a field that the
\* policy omits or anonymizes; nor do the user's functions get to see one on the way.
PoliciesHold ==
  phase = "js" /\ ~Aggregated => \A i \in DOMAIN stream : stream[i] # Thrown => Allowed(stream[i])

\* query.rs 869-911, datastore.ts 1143-1184: a delete removes exactly the rows that
\* the policies permit and that have every value which is given.  A value that is
\* undefined is not given; one that is null no row has, not even one with NULL.
DeletesMatch ==
  [][\A r \in QRestrictions : setup # NoSetup /\ q_delete(r) =>
       ToSet(setup.rows) \ ToSet(setup'.rows) =
         {row \in ToSet(setup.rows) :
            /\ setup.login => setup.uid # Null /\ row.owner = setup.uid
            /\ \A k \in DOMAIN r : r[k] # Undefined =>
                 r[k] # Null /\ (IF k = "a" /\ row.a = Null THEN setup.dflt ELSE row[k]) = r[k]}]_qVars

-----------------------------------------------------------------------------
(* The inductive invariant of the proofs.                                  *)

QTypeOK ==
  /\ IsSetup(setup) /\ chain \in Seq(QOps) /\ phase \in {"build", "sql", "js"}
  /\ plan \in Seq(ToSet(plan)) /\ stream \in Seq(ToSet(stream))
  /\ \A i \in DOMAIN plan : plan[i].op \in {"Take", "Skip"} => plan[i].n \in Nat
  /\ setup = NoSetup => phase = "build"

\* An aggregate is the last operator, and JavaScript has the end of the chain to do.
ChainInv ==
  /\ \A i \in DOMAIN chain : chain[i].op \in Aggregates => i = Len(chain)
  /\ phase # "build" => \E n \in 0 .. Len(chain) : rest = SubSeq(chain, n + 1, Len(chain))

\* The rows of the table as the query reads them, and those that the policies permit.
CoreRows == ToSet(make_core_select)
MyRows   == {row \in CoreRows : setup.login => setup.uid # Null /\ row.owner = setup.uid}

\* Until the login filter is part of the query it is the first operator to become one.
SqlInv ==
  phase = "sql" /\ ~Counts =>
    /\ \A i \in DOMAIN plan : plan[i].op # "Count"
    /\ \/ stream \in Seq(MyRows)
       \/ stream \in Seq(CoreRows) /\ plan # << >> /\ add_login_filters = <<Head(plan)>>

\* An element of the stream that the user's code may see.
Shown(e) == e # Thrown => DOMAIN e = {"id", "a", "owner"} /\ Allowed(e)

JsInv == phase = "js" /\ ~Aggregated => \A i \in DOMAIN stream : Shown(stream[i])

QueriesInv == QTypeOK /\ ChainInv /\ SqlInv /\ JsInv
=============================================================================
