--------------------------- MODULE PolicyAnalysis ---------------------------
(***************************************************************************)
(* What chiselc infers from a policy's read function: it builds the        *)
(* control flow graph, cuts it into regions and infers under which         *)
(* condition the function returns Skip.  Each request evaluates that       *)
(* condition as far as its context is known, and the rest becomes SQL.     *)
(* With this, and what the functions return, for its parameters, Policies  *)
(* must return the rows that the function permits.                         *)
(*                                                                         *)
(* A function body is a sequence of statements: return Action.X, an        *)
(* expression, or an if with its two blocks.                               *)
(***************************************************************************)
EXTENDS Policies, Sequences, SequencesExt

-----------------------------------------------------------------------------
(* The control flow graph.  Node 0 is the start, node 1 the end.           *)

Edge(from, to, label) == [from |-> from, to |-> to, label |-> label]

add_stmt_node(b, s) ==
  LET n == Cardinality(DOMAIN b.stmts) + 2
  IN [b EXCEPT !.stmts = @ @@ (n :> s), !.previous = n]

merge_out(b, outs, to) ==
  [b EXCEPT !.edges = @ \cup {Edge(o.from, to, o.label) : o \in outs}]

\* Each returns the builder, the first node and the open ends.
RECURSIVE BuildStmt(_, _), BuildBlock(_, _)

\* block: without statements it begins at the node that was added last.
BuildBlock(b, stmts) ==
  IF stmts = << >> THEN [b |-> b, root |-> b.previous, outs |-> {}]
  ELSE LET first == BuildStmt(b, Head(stmts))
           rest  == BuildBlock(first.b, Tail(stmts))
       IN IF Tail(stmts) = << >> THEN first
          ELSE [b |-> merge_out(rest.b, first.outs, rest.root), root |-> first.root, outs |-> rest.outs]

BuildStmt(b, s) ==
  LET added == add_stmt_node(b, s)
      n     == added.previous
  IN CASE s.s = "expr"   -> [b |-> added, root |-> n, outs |-> {[from |-> n, label |-> "Flow"]}]
       [] s.s = "return" -> [b |-> merge_out(added, {[from |-> n, label |-> "Flow"]}, 1), root |-> n, outs |-> {}]
       [] s.s = "if"     ->
            LET cons  == BuildBlock(added, s.cons)
                consb == merge_out(cons.b, {[from |-> n, label |-> "True"]}, cons.root)
                alt   == BuildBlock(consb, s.alt)
            IN IF s.else
               THEN [b |-> merge_out(alt.b, {[from |-> n, label |-> "False"]}, alt.root),
                     root |-> n, outs |-> cons.outs \cup alt.outs]
               ELSE [b |-> consb, root |-> n, outs |-> cons.outs \cup {[from |-> n, label |-> "False"]}]

\* ControlFlow::build.
ControlFlow(body) ==
  LET built == BuildBlock([stmts |-> << >>, edges |-> {}, previous |-> 0], body)
  IN merge_out(merge_out(built.b, {[from |-> 0, label |-> "Flow"]}, built.root), built.outs, 1)

Out(cfg, n) == {e \in cfg.edges : e.from = n}
In(cfg, n)  == {e \in cfg.edges : e.to = n}

\* Nodes that are reached from some without passing through node d.
RECURSIVE ReachedWithout(_, _, _)
ReachedWithout(cfg, some, d) ==
  LET more == some \cup {e.to : e \in UNION {Out(cfg, n) : n \in some \ {d}}}
  IN IF more = some THEN some ELSE ReachedWithout(cfg, more, d)

strict_dominator(cfg, d, n) == d # n /\ n \notin ReachedWithout(cfg, {0}, d)

-----------------------------------------------------------------------------
(* Regions.                                                                *)

Block(nodes) == [r |-> "Block", nodes |-> nodes]

\* reduce: several regions in a row are a Seq.
Joined(regions) ==
  CASE Len(regions) = 0 -> Block(<< >>)
    [] Len(regions) = 1 -> Head(regions)
    [] OTHER -> [r |-> "Seq", regions |-> regions]

get_cond_target(cfg, n, label) == (CHOOSE e \in Out(cfg, n) : e.label = label).to

\* A node at which a basic block ends.
is_leader(cfg, n) ==
  \/ \E e \in In(cfg, n) : e.from = 0
  \/ n = 1 \/ Cardinality(In(cfg, n)) > 1 \/ Cardinality(Out(cfg, n)) > 1

RECURSIVE BlockFrom(_, _)
BlockFrom(cfg, n) ==
  LET next == (CHOOSE e \in Out(cfg, n) : TRUE).to
  IN IF is_leader(cfg, next) THEN [nodes |-> <<n>>, end |-> next]
     ELSE LET rest == BlockFrom(cfg, next) IN [rest EXCEPT !.nodes = <<n>> \o @]

make_basic_block(cfg, n) ==
  LET b == BlockFrom(cfg, n) IN [region |-> Block(b.nodes), end |-> b.end]

RECURSIVE make_seq_region(_, _, _)

\* Both branches must lead to the same node.
make_cond_region(cfg, n) ==
  LET cons == make_seq_region(cfg, get_cond_target(cfg, n, "True"), << >>)
      alt  == make_seq_region(cfg, get_cond_target(cfg, n, "False"), << >>)
  IN [region |-> IF cons.end # alt.end THEN Panic
                 ELSE [r |-> "Cond", test |-> cfg.stmts[n].test, cons |-> cons.region, alt |-> alt.region],
      end |-> cons.end]

make_region(cfg, n) ==
  IF cfg.stmts[n].s = "if" THEN make_cond_region(cfg, n) ELSE make_basic_block(cfg, n)

\* The regions from the root on, as far as it dominates (done: those before).
make_seq_region(cfg, root, done) ==
  LET current == IF done = << >> THEN root ELSE Last(done).end
  IN IF current = 1 \/ (done # << >> /\ ~strict_dominator(cfg, root, current))
     THEN [region |-> Joined([i \in DOMAIN done |-> done[i].region]), end |-> current]
     ELSE make_seq_region(cfg, root, Append(done, make_region(cfg, current)))

\* Region::from_cfg.  A body without statements panics, and so does an if with
\* an empty block, whose graph has a loop (the recursion does not end).
Regions(cfg) ==
  IF \E e \in cfg.edges : e.from = e.to THEN Panic
  ELSE make_seq_region(cfg, (CHOOSE e \in Out(cfg, 0) : TRUE).to, << >>).region

-----------------------------------------------------------------------------
(* Conditions: under which one does the function return an action?         *)

True  == [c |-> "True"]
False == [c |-> "False"]
Test(p)   == [c |-> "Predicate", p |-> p]
And(l, r) == [c |-> "And", l |-> l, r |-> r]
Or(l, r)  == [c |-> "Or", l |-> l, r |-> r]
Not(x)    == [c |-> "Not", x |-> x]

Rules(f) == [r |-> "Rules", of |-> f]

\* Actions::merge.
merge(x, y) ==
  IF Panic \in {x, y} THEN Panic
  ELSE Rules([a \in DOMAIN x.of \cup DOMAIN y.of |->
                IF a \notin DOMAIN y.of THEN x.of[a]
                ELSE IF a \notin DOMAIN x.of THEN y.of[a] ELSE Or(x.of[a], y.of[a])])

\* An empty block: the function returns undefined, which denies.
infer_basic_block(cfg, nodes, cond) ==
  CASE nodes = << >> -> Rules("Deny" :> cond)
    [] Len(nodes) = 1 /\ cfg.stmts[nodes[1]].s = "return" -> Rules(cfg.stmts[nodes[1]].action :> cond)
    [] OTHER -> Panic

\* (Mutant: the condition of the enclosing branch is dropped.)
alt_cond_alone(test, cond) == Not(test)

\* The condition of an else branch.
alt_cond(test, cond) == And(Not(test), cond)

RECURSIVE infer_rules_from_region(_, _, _)
infer_rules_from_region(cfg, region, cond) ==
  CASE region.r = "Block" -> infer_basic_block(cfg, region.nodes, cond)
    [] region.r = "Cond"  ->
         merge(infer_rules_from_region(cfg, region.cons, And(Test(region.test), cond)),
               infer_rules_from_region(cfg, region.alt, alt_cond(Test(region.test), cond)))
    [] OTHER -> Panic

RECURSIVE Terms(_), CondHolds(_, _)
Terms(c) ==
  CASE c.c = "Predicate" -> IF c.p.p = "Lit" THEN {} ELSE {c.p}
    [] c.c = "Not" -> Terms(c.x)
    [] c.c \in {"And", "Or"} -> Terms(c.l) \cup Terms(c.r)
    [] OTHER -> {}

\* to_bool: literals have their value, the predicates in `true' hold.
CondHolds(c, true) ==
  CASE c.c = "True" -> TRUE
    [] c.c = "False" -> FALSE
    [] c.c = "Not" -> ~CondHolds(c.x, true)
    [] c.c = "And" -> CondHolds(c.l, true) /\ CondHolds(c.r, true)
    [] c.c = "Or"  -> CondHolds(c.l, true) \/ CondHolds(c.r, true)
    [] c.c = "Predicate" -> IF c.p.p = "Lit" THEN c.p.v ELSE c.p \in true

\* Cond::simplify: an equivalent condition, constant if it can be.
simplify(c) ==
  LET holds == {t \in SUBSET Terms(c) : CondHolds(c, t)}
  IN IF holds = {} THEN False ELSE IF holds = SUBSET Terms(c) THEN True ELSE c

\* FilterPolicy::from_arrow with generate_where_from_rules: the rows to read are
\* those that are not skipped; PNull if nothing ever is.
where_conds(body) ==
  LET cfg   == ControlFlow(body)
      rules == infer_rules_from_region(cfg, Regions(cfg), True)
  IN IF rules = Panic THEN Panic
     ELSE IF "Skip" \notin DOMAIN rules.of THEN PNull ELSE simplify(Not(rules.of["Skip"]))

-----------------------------------------------------------------------------
(* The filter of a request.                                                *)

Lit(v) == [p |-> "Lit", v |-> v]

\* ctx.prop for a function, and for the condition, which knows user_id.
to_js_value(ctx, prop) == IF prop \in {"method", "userId"} THEN ctx[prop] ELSE PNull
to_value(ctx, prop) ==
  CASE prop = "method" -> ctx.method [] prop = "user_id" -> ctx.userId [] OTHER -> PNull

\* JavaScript: == on these values is =; null counts as 0, and text as no number.
eval_bin_lit(op, l, r) ==
  LET num(v) == IF v = PNull THEN 0 ELSE v
  IN CASE op = "Eq" -> l = r
       [] op = "Neq" -> l # r
       [] op = "Gt" -> Mask \notin {l, r} /\ num(l) > num(r)
       [] op = "And" -> l /\ r
       [] op = "Or"  -> l \/ r

\* interpreter::eval: what depends on the context only is evaluated.
RECURSIVE interpret(_, _)
interpret(p, ctx) ==
  CASE p.p = "Bin" ->
         LET l == interpret(p.l, ctx)
             r == interpret(p.r, ctx)
         IN IF l.p = "Lit" /\ r.p = "Lit" THEN Lit(eval_bin_lit(p.op, l.v, r.v)) ELSE [p EXCEPT !.l = l, !.r = r]
    [] p.p = "Not" -> LET x == interpret(p.x, ctx) IN IF x.p = "Lit" THEN Lit(~x.v) ELSE [p EXCEPT !.x = x]
    [] p.p = "Var" -> IF p.obj = "ctx" THEN Lit(to_value(ctx, p.prop)) ELSE p
    [] OTHER -> p

RECURSIVE EvalTerms(_, _)
EvalTerms(c, ctx) ==
  CASE c.c = "Predicate" -> Test(interpret(c.p, ctx))
    [] c.c = "Not" -> Not(EvalTerms(c.x, ctx))
    [] c.c \in {"And", "Or"} -> [c EXCEPT !.l = EvalTerms(@, ctx), !.r = EvalTerms(@, ctx)]
    [] OTHER -> c

eval_read_policy_expr(filter, ctx) == simplify(EvalTerms(filter, ctx))

And3(l, r) == IF FALSE \in {l, r} THEN FALSE ELSE IF PNull \in {l, r} THEN PNull ELSE TRUE
Not3(x)    == IF x = PNull THEN PNull ELSE ~x

\* predicate_to_expr, as SQL.
RECURSIVE predicate_to_expr(_, _)
predicate_to_expr(p, row) ==
  CASE p.p = "Lit" -> p.v
    [] p.p = "Var" -> row[p.prop]
    [] p.p = "Not" -> Not3(predicate_to_expr(p.x, row))
    [] p.p = "Bin" ->
         LET l == predicate_to_expr(p.l, row)
             r == predicate_to_expr(p.r, row)
         IN CASE p.op = "And" -> And3(l, r)
              [] p.op = "Or"  -> Not3(And3(Not3(l), Not3(r)))
              [] OTHER -> IF PNull \in {l, r} THEN PNull ELSE eval_bin_lit(p.op, l, r)

\* cond_to_expr.
RECURSIVE cond_to_expr(_, _)
cond_to_expr(c, row) ==
  CASE c.c = "True" -> TRUE
    [] c.c = "False" -> FALSE
    [] c.c = "Predicate" -> predicate_to_expr(c.p, row)
    [] c.c = "Not" -> Not3(cond_to_expr(c.x, row))
    [] c.c = "And" -> And3(cond_to_expr(c.l, row), cond_to_expr(c.r, row))
    [] c.c = "Or"  -> Not3(And3(Not3(cond_to_expr(c.l, row)), Not3(cond_to_expr(c.r, row))))

\* A row fulfils the condition of a request's query.
SqlSelects(filter, ctx, row) == cond_to_expr(eval_read_policy_expr(filter, ctx), row) = TRUE

-----------------------------------------------------------------------------
(* What the functions return.                                              *)

RECURSIVE Js(_, _, _), Exec(_, _, _)
Js(p, row, ctx) ==
  CASE p.p = "Lit" -> p.v
    [] p.p = "Var" -> IF p.obj = "ctx" THEN to_js_value(ctx, p.prop) ELSE row[p.prop]
    [] p.p = "Not" -> ~Js(p.x, row, ctx)
    [] p.p = "Bin" -> eval_bin_lit(p.op, Js(p.l, row, ctx), Js(p.r, row, ctx))

Exec(stmts, row, ctx) ==
  IF stmts = << >> THEN "undefined"
  ELSE LET s == Head(stmts)
       IN CASE s.s = "return" -> s.action
            [] s.s = "expr" -> Exec(Tail(stmts), row, ctx)
            [] s.s = "if" ->
                 LET x == Exec(IF Js(s.test, row, ctx) THEN s.cons ELSE s.alt, row, ctx)
                 IN IF x = "undefined" THEN Exec(Tail(stmts), row, ctx) ELSE x

-----------------------------------------------------------------------------
(* Properties.                                                             *)

RECURSIVE Blocks(_), Mentions(_, _)

\* The blocks of a body, and whether a predicate has ctx.prop.
Blocks(stmts) ==
  {stmts} \cup UNION {IF stmts[i].s # "if" THEN {}
                      ELSE Blocks(stmts[i].cons) \cup (IF stmts[i].else THEN Blocks(stmts[i].alt) ELSE {}) :
                        i \in DOMAIN stmts}
Mentions(p, prop) ==
  CASE p.p = "Var" -> p.obj = "ctx" /\ p.prop = prop
    [] p.p = "Not" -> Mentions(p.x, prop)
    [] p.p = "Bin" -> Mentions(p.l, prop) \/ Mentions(p.r, prop)
    [] OTHER -> FALSE

KnowsContext == \A p \in Terms(policy.filter) : ~Mentions(p, "userId")

WithoutNull(row) == PNull \notin {row.owner, row.a}

\* policy/engine.rs 148-150: "partially evaluate the read policy to extract its skip
\* condition".  Whatever the function and the context, a query leaves out exactly
\* the rows (without NULL) on which the function returns Skip.
FilterIsSkipCondition ==
  pctx # PNull =>
    \A i \in DOMAIN ptable : ptable[i] # PNull /\ WithoutNull(ptable[i]) =>
      (i \notin Filtered <=> get_read_action(ptable[i]) = "Skip")

\* chiselc policies.rs 568-591, policy/mod.rs 161-200: an iteration and a page of
\* the REST API return exactly the rows that the read function permits, or report
\* an error when it denies one.  (For functions without empty blocks that do not
\* use ctx.userId, and rows without NULL.)
ReadsArePermitted ==
  pctx # PNull /\ << >> \notin Blocks(policy.read)
    /\ (policy.filter # PNull => KnowsContext)
    /\ (\A i \in DOMAIN ptable : ptable[i] # PNull => WithoutNull(ptable[i]))
  => LET acts == [i \in {i \in DOMAIN ptable : ptable[i] # PNull} |-> get_read_action(ptable[i])]
     IN \A rs \in {cursor_rows, stream_rows} :
          /\ rs.err <=> \E i \in DOMAIN acts : acts[i] = "Deny"
          /\ ~rs.err => rs.ids = {i \in DOMAIN acts : acts[i] \in {"Allow", "Log"}}
=============================================================================
