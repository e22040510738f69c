----------------------------- MODULE MCRequests -----------------------------
(***************************************************************************)
(* Instances, for TLC, of what happens to a request: authorization, its    *)
(* route, its transaction, the queries of its handler, the generated CRUD  *)
(* handlers and the policies of entities.  They share no state here, so a  *)
(* behaviour runs one of them, and the others stay as they are.            *)
(***************************************************************************)
EXTENDS Authorization, Routing, Transactions, Pushdown, Crud, PolicyAnalysis

CONSTANTS u1, u2, GET, PUT  \* users and methods, for policies

VARIABLE focus  \* the component that runs

requestVars == <<focus, aVars, rVars, txVars, qVars, cVars, pVars>>

-----------------------------------------------------------------------------
(* Authorization: the paths /a, /a/, /a/b and /aa (1 is the slash), with   *)
(* rules on two of them.                                                   *)

PathA  == <<1, 2>>
PathAA == <<1, 2, 2>>
PathAB == <<1, 2, 1, 3>>
Dir    == <<1, 2, 1>>

Rule(path, users, header, methods) ==
  [path |-> path, users |-> users, header |-> header, methods |-> methods]
RouteRules ==
  {Rule(p, u, None, None) : p \in {PathA, PathAB, Dir}, u \in {{"ann"}, {"bob"}}}
  \cup {Rule(p, None, "required", m) : p \in {PathA, PathAB}, m \in {None, {"POST"}}}
Configs == {<< >>} \cup {<<r>> : r \in RouteRules} \cup RouteRules \X RouteRules

AuthRequests ==
  {[path |-> p, method |-> m, uid |-> u, token |-> None, header |-> h] :
     p \in {PathA, PathAB, PathAA, Dir}, m \in {"GET", "POST"}, u \in {None, 1}, h \in {None, "s1"}}
  \cup {[path |-> PathA, method |-> "GET", uid |-> 1, token |-> t, header |-> None] : t \in {"good", "bad"}}
SecretValues == {None, "s1"}
UserTables   == {<<"ann">>, <<"bob">>, << >>}

-----------------------------------------------------------------------------
(* Routing: up to three files of ten, with functions, nested maps, groups, *)
(* ignored files and an empty one.                                         *)

File(dirs, stem, code) == [dirs |-> dirs, stem |-> stem, empty |-> FALSE, code |-> code]
OnPath(on, methods, path) == [call |-> "route", on |-> on, methods |-> methods, path |-> path]
Under(on, path, of)  == [call |-> "prefix", on |-> on, path |-> path, of |-> of]
Through(on, handler) == [call |-> "middleware", on |-> on, handler |-> handler]
Flat  == <<OnPath("export", {"GET"}, <<"">>), OnPath("export", {"POST"}, <<"b">>)>>
Deep  == <<OnPath("inner", {"GET"}, <<":">>), Through("inner", "inner"), Under("export", <<"b">>, "inner"),
           Through("export", "outer"), Through("inner", "late"), OnPath("export", {"GET"}, <<"">>)>>
Twice == <<OnPath("inner", {"GET"}, <<"b">>), Under("export", << >>, "inner"), Through("inner", "inner"),
           OnPath("inner", {"POST"}, <<"z">>), Under("export", <<":">>, "inner")>>
Files == {File(<< >>, "a", convert), File(<<"a">>, "b", Flat), File(<<"a">>, "_root", Deep),
          File(<< >>, "[id]", Deep), File(<<"_util">>, "b", Flat), File(<<"a">>, "index", Flat),
          File(<<"a", "[id]">>, "b", convert), [File(<< >>, "b", Flat) EXCEPT !.empty = TRUE],
          File(<<"a">>, "z", Twice), File(<< >>, "index", Deep)}
Trees == UNION {kSubset(k, Files) : k \in 1 .. 3}
Names == <<"[id]", "_root", "_util", "a", "b", "index", "z">>
RoutedRequests ==
  [method : {"GET", "POST"},
   path : {<<"">>, <<"a">>, <<"a", "">>, <<"a", "b">>, <<"a", "b", "b">>, <<"b", "">>, <<"b", "b">>,
           <<"a", "z", "1", "b">>, <<"a", "b", "1">>, <<"z">>}]

-----------------------------------------------------------------------------
(* Queries: three rows with ties, NULLs and missing owners, with and       *)
(* without login filters and field policies.                               *)

QSetup(a, login, uid) ==
  [NoSetup EXCEPT !.users = {1, 2}, !.login = login, !.uid = uid,
                  !.rows = [i \in 1 .. 3 |-> [id |-> i, a |-> a[i], owner |-> IF i = 2 THEN 2 ELSE 1]]]
Setups ==
  {QSetup(a, TRUE, 1) : a \in [1 .. 3 -> {1, 2}]}
  \cup {[QSetup(<<Null, 2, Null>>, FALSE, Null) EXCEPT !.dflt = d, !.required = q] :
          d \in {Null, 1}, q \in BOOLEAN}
  \cup {[QSetup(<<1, 2, 1>>, TRUE, u) EXCEPT !.policy = p] : p \in {"omit", "anonymize"}, u \in {Null, 1}}
  \cup {[QSetup(<<2, 1, 1>>, FALSE, Null) EXCEPT !.users = {1}, !.required = TRUE]}
  \cup {[QSetup(a, FALSE, Null) EXCEPT !.db = "postgres"] : a \in {<<2, 1, 2>>, <<1, Null, 2>>}}

OnA(cmp, v)  == [k |-> "a", cmp |-> cmp, v |-> v]
OnId(cmp, v) == [k |-> "id", cmp |-> cmp, v |-> v]
Either  == [k |-> "or", args |-> <<OnA("lt", 2), OnId("eq", 2)>>]
NotBoth == [k |-> "not", arg |-> [k |-> "and", args |-> <<OnA("gte", 2), OnId("ne", 1)>>]]
ChainOps ==
  {[op |-> "Take", n |-> n] : n \in 0 .. 2} \cup {[op |-> "Skip", n |-> 1]}
  \cup {[op |-> "SortBy", asc |-> b] : b \in BOOLEAN}
  \cup {[op |-> "ExpressionFilter", f |-> f] : f \in {Either, NotBoth}}
  \cup {[op |-> "InternalFilter", f |-> OnA("gt", 1)], [op |-> "PredicateFilter", f |-> OnA("lte", 1)]}
  \cup {[op |-> o] : o \in {"Map", "Select", "Count", "MinBy"}}
Restrictions == {[a |-> 1], [id |-> 1, a |-> Undefined], [id |-> 1, a |-> Null], [owner |-> 2, a |-> 1]}

-----------------------------------------------------------------------------
(* Crud: three rows with ties and without a sort key, and a free id.       *)

CrudTable(a) == [i \in CIds |-> IF i \in DOMAIN a THEN [id |-> i, a |-> a[i], b |-> Missing] ELSE Missing]
CrudTables   == {CrudTable(<<1, 1, 2>>), CrudTable(<<2, 1, 2>>), CrudTable(<<Missing, 1, 1>>)}
Page(key, asc, size, offset, filter) ==
  [sort |-> <<Key(key, asc)>>, size |-> size, offset |-> offset, filter |-> filter, cursor |-> Missing]
PageRequests ==
  {Page("a", asc, n, Missing, Missing) : asc \in BOOLEAN, n \in {1, 2}}
  \cup {Page("id", FALSE, 1, Missing, [field |-> "a", op |-> "LtEq", value |-> 1]),
        Page("a", TRUE, 1, 1, Missing)}
Bodies == {[a |-> 1], [id |-> 2, b |-> 1], [id |-> Missing]}

-----------------------------------------------------------------------------
(* Policies: read policies of up to three branches, with and without a     *)
(* write policy, a transform of reads and one of writes.                   *)

Var(obj, prop)   == [p |-> "Var", obj |-> obj, prop |-> prop]
Bin(op, l, r)    == [p |-> "Bin", op |-> op, l |-> l, r |-> r]
Return(a)        == [s |-> "return", action |-> a]
If(t, c)         == [s |-> "if", test |-> t, cons |-> c, alt |-> << >>, else |-> FALSE]
IfElse(t, c, a)  == [s |-> "if", test |-> t, cons |-> c, alt |-> a, else |-> TRUE]
Expr  == [s |-> "expr"]
Big   == Bin("Gt", Var("entity", "a"), Lit(0))
Mine  == Bin("Eq", Var("entity", "owner"), Lit(u1))
IsGet == Bin("Eq", Var("ctx", "method"), Lit(GET))
Own   == Bin("Eq", Var("entity", "owner"), Var("ctx", "userId"))
Tests == {Big, Bin("And", IsGet, Mine), [p |-> "Not", x |-> Mine], Bin("Or", IsGet, Big), IsGet}
Acts  == {"Allow", "Deny", "Skip"}

ReadPolicies ==
  {<<Return(a)>> : a \in Acts \cup {"Log"}}
  \cup {<<If(t, <<Return(a)>>), Return(b)>> : t \in Tests, a \in Acts, b \in Acts}
  \cup {<<IfElse(t, <<If(Mine, <<Return(a)>>)>>, <<Return(b)>>), Return(c)>> :
          t \in {Big, IsGet}, a \in Acts, b \in Acts, c \in Acts}
  \cup {<<If(Big, <<Return(a)>>), IfElse(Mine, <<Return(b)>>, <<If(IsGet, <<Return(c)>>)>>)>> :
          a \in Acts, b \in Acts, c \in Acts}
  \cup {<< >>, <<Expr, Return("Allow")>>, <<If(Big, <<Expr>>), Return("Skip")>>,
        <<If(Big, << >>), Return("Skip")>>, <<IfElse(Big, <<Return("Skip")>>, << >>), Return("Allow")>>,
        <<If(Own, <<Return("Allow")>>), Return("Skip")>>}
EntityPolicies ==
  {[read |-> b, write |-> <<Return("Allow")>>, mask |-> FALSE, own |-> FALSE] : b \in ReadPolicies}
  \cup {[read |-> b, write |-> <<If(Big, <<Return("Deny")>>), Return("Log")>>, mask |-> m, own |-> o] :
          b \in {<<If(Big, <<Return("Skip")>>), Return("Allow")>>, <<Return("Allow")>>},
          m \in BOOLEAN, o \in BOOLEAN}
TwoRows(o1, a1, o2, a2) == <<[id |-> 1, owner |-> o1, a |-> a1], [id |-> 2, owner |-> o2, a |-> a2]>>
EntityTables == {TwoRows(u1, 1, u2, 0), TwoRows(u2, 1, u1, 1), TwoRows(u1, 0, u2, 1),
                 TwoRows(u1, PNull, u1, 1)}
Contexts == {[method |-> m, userId |-> u] : m \in {GET, PUT}, u \in {u1, PNull}}

-----------------------------------------------------------------------------
RequestsInit ==
  /\ focus \in {"auth", "route", "tx", "query", "crud", "policy"}
  /\ AInit /\ RInit /\ TxInit /\ QInit /\ CInit /\ PInit

RequestsNext ==
  /\ UNCHANGED focus
  /\ \/ focus = "auth" /\ ANext /\ UNCHANGED <<rVars, txVars, qVars, cVars, pVars>>
     \/ focus = "route" /\ RNext /\ UNCHANGED <<aVars, txVars, qVars, cVars, pVars>>
     \/ focus = "tx" /\ TxNext /\ UNCHANGED <<rVars, aVars, qVars, cVars, pVars>>
     \/ focus = "query" /\ QNext /\ UNCHANGED <<rVars, aVars, txVars, cVars, pVars>>
     \/ focus = "crud" /\ CNext /\ UNCHANGED <<rVars, aVars, txVars, qVars, pVars>>
     \/ focus = "policy" /\ PNext /\ UNCHANGED <<rVars, aVars, txVars, qVars, cVars>>

\* The loop of the worker and the operations it starts are polled.
RequestsSpec ==
  /\ RequestsInit /\ [][RequestsNext]_requestVars
  /\ WF_txVars(focus = "tx" /\ JobLoop)
  /\ WF_txVars(focus = "tx" /\ OpSteps)

\* The inductive invariants that the proofs about transactions, authorization, routes, the
\* generated handlers, policies and cursors rest on.
RequestsInv == TxInv /\ AuthInv /\ RoutingInv /\ CrudInv /\ PolicyInv /\ QueriesInv
=============================================================================
