------------------------------ MODULE Pushdown ------------------------------
(***************************************************************************)
(* What the filters of a cursor select: in SQL, as filter.rs translates    *)
(* them to expressions, and in JavaScript, as evalFilter evaluates them.   *)
(* With these for its parameters, Queries must return what the chain of    *)
(* operators means, wherever the chain is cut between the database and     *)
(* JavaScript.                                                             *)
(***************************************************************************)
EXTENDS Queries

-----------------------------------------------------------------------------
(* Filters: the expressions of filter.ts, and their translation to SQL.    *)

Value(v)       == [e |-> "Value", v |-> v]
Property(p)    == [e |-> "Property", p |-> p]
Binary(op, l, r) == [e |-> "Binary", op |-> op, l |-> l, r |-> r]

BinaryOp(cmp) ==
  [eq |-> "Eq", ne |-> "NotEq", gt |-> "Gt", gte |-> "GtEq", lt |-> "Lt", lte |-> "LtEq"][cmp]

field_filter_to_expr(f) == Binary(BinaryOp(f.cmp), Property(f.k), Value(f.v))

RECURSIVE to_expr(_)

\* filter.rs: a filter object as an expression.
to_expr(f) ==
  CASE f.k = "and" -> FoldLeft(LAMBDA e, g : Binary("And", e, to_expr(g)), Value(TRUE), f.args)
    [] f.k = "or"  -> FoldLeft(LAMBDA e, g : Binary("Or", e, to_expr(g)), Value(FALSE), f.args)
    [] f.k = "not" -> [e |-> "Not", arg |-> to_expr(f.arg)]
    [] OTHER       -> field_filter_to_expr(f)

\* (A text is unequal to a number, and neither less nor greater.)
Compare(op, l, r) ==
  CASE op = "Eq" -> l = r   [] op = "NotEq" -> l # r
    [] Anon \in {l, r} -> FALSE
    [] op = "Gt" -> l > r   [] op = "GtEq"  -> l >= r
    [] op = "Lt" -> l < r   [] op = "LtEq"  -> l <= r

\* What the database makes of the text of filter_expr_to_string: three-valued logic.
RECURSIVE SqlEval(_, _)
SqlEval(e, row) ==
  CASE e.e = "Value"    -> e.v
    [] e.e = "Property" -> row[e.p]
    [] e.e = "Not"      -> LET x == SqlEval(e.arg, row) IN IF x = Null THEN Null ELSE ~x
    [] e.e = "Binary"   ->
         LET l == SqlEval(e.l, row)
             r == SqlEval(e.r, row)
         IN CASE e.op = "And" -> IF FALSE \in {l, r} THEN FALSE ELSE IF Null \in {l, r} THEN Null ELSE TRUE
              [] e.op = "Or"  -> IF TRUE \in {l, r} THEN TRUE ELSE IF Null \in {l, r} THEN Null ELSE FALSE
              [] OTHER -> IF Null \in {l, r} THEN Null ELSE Compare(e.op, l, r)

\* evalOperator: (in)equality with ===, the other comparisons throw on undefined.
evalOperator(cmp, filterValue, v) ==
  IF cmp \in {"eq", "ne"} THEN Compare(BinaryOp(cmp), v, filterValue)
  ELSE IF Null \in {v, filterValue} THEN Thrown
  ELSE Compare(BinaryOp(cmp), v, filterValue)

\* Array.every and Array.some stop at the first result that decides, or throws.
FirstOf(results, stop, dflt) ==
  LET hits == {i \in DOMAIN results : results[i] \in {stop, Thrown}}
  IN IF hits = {} THEN dflt ELSE results[CHOOSE i \in hits : \A j \in hits : i <= j]

RECURSIVE evalFilter(_, _)
evalFilter(f, row) ==
  CASE f.k = "and" -> FirstOf([i \in DOMAIN f.args |-> evalFilter(f.args[i], row)], FALSE, TRUE)
    [] f.k = "or"  -> FirstOf([i \in DOMAIN f.args |-> evalFilter(f.args[i], row)], TRUE, FALSE)
    [] f.k = "not" -> LET x == evalFilter(f.arg, row) IN IF x = Thrown THEN x ELSE ~x
    [] OTHER       -> evalOperator(f.cmp, f.v, row[f.k])

\* A filter object as the database evaluates it.
SqlOf(f, row) == SqlEval(to_expr(f), row)

-----------------------------------------------------------------------------
(* Properties.                                                             *)

\* The rows that the policies permit.
Permitted ==
  Picked(make_core_select, {i \in DOMAIN make_core_select :
    setup.login => setup.uid # Null /\ make_core_select[i].owner = setup.uid})

\* What the chain means: each operator applied in turn to the rows that the
\* policies permit; sortBy need not be stable.
RECURSIVE Meaning(_)
Meaning(c) ==
  IF c = << >> THEN {Mapped(Permitted, LAMBDA row : row_to_entity_value(row, {"id", "a", "owner"}))}
  ELSE UNION {IF Last(c).op = "SortBy"
              THEN {p \in Orders(s) : SortedBy(p, Last(c).asc)} ELSE apply(Last(c), s) :
                s \in Meaning(Front(c))}

Has(c, kinds) == \E i \in DOMAIN c : c[i].op \in kinds

\* The operators that go to the database, and those applied in JavaScript.
FirstJs == SelectInSeq(chain, LAMBDA op : op.op \in JsOnly)
Pushed  == IF FirstJs = 0 THEN chain ELSE SubSeq(chain, 1, FirstJs - 1)
InJs    == IF FirstJs = 0 THEN << >> ELSE SubSeq(chain, FirstJs, Len(chain))

Filters == {"ExpressionFilter", "InternalFilter"}

\* The two sides compare differently: NULL in a filter is neither true nor false in
\* SQL, undefined is no sort key in JavaScript, and a field with a policy is compared
\* in SQL before the policy is applied.
ComparesUnlike ==
  \/ /\ \E i \in DOMAIN setup.rows : make_core_select[i].a = Null
     /\ Has(Pushed, Filters) \/ Has(InJs, {"SortBy"})
  \/ setup.policy # "keep" /\ Has(Pushed, Filters \cup {"SortBy"})

Readable == \A i \in DOMAIN setup.rows : row_to_entity_value(make_core_select[i], {"id"}) # Thrown

\* A count in the database of rows that were sorted and not cut since.
CountsSorted ==
  /\ Pushed # << >> /\ Last(Pushed).op = "Count"
  /\ LET cut == SelectLastInSeq(Pushed, LAMBDA op : op.op \in {"Take", "Skip"})
     IN Has(SubSeq(Pushed, cut + 1, Len(Pushed)), {"SortBy"})

\* datastore.ts 32-75, query.rs 702-753: how much of a cursor the database
\* evaluates does not change its result, for chains that do not compare what the two
\* sides compare differently (ComparesUnlike) and rows that can be read; but for one
\* case: Postgres refuses to count rows that were sorted.
PushdownAgrees ==
  phase = "js" /\ rest = << >> /\ Readable /\ ~ComparesUnlike =>
    IF setup.db = "postgres" /\ CountsSorted THEN stream = <<Thrown>> ELSE stream \in Meaning(chain)
=============================================================================
