------------------------------ MODULE Routing ------------------------------
(***************************************************************************)
(* From the files under routes/ to the handler of a request.  The command  *)
(* line tool lists the files (routes.rs) and generates code that puts what *)
(* each of them exports under a prefix (codegen.rs); in the worker this    *)
(* becomes a list of routes (routing.ts), of which the first that matches  *)
(* handles the request, through the middlewares of the route maps it is in *)
(* (http.ts).                                                              *)
(*                                                                         *)
(* A path is the sequence of its segments, "" after a final slash.  In a   *)
(* pattern ":" is a group, which matches any one segment, and "*" at the   *)
(* end is anything.  The code of a file is a sequence of the calls that it *)
(* makes on route maps; the one that it exports is "export".               *)
(***************************************************************************)
EXTENDS Naturals, Sequences, SequencesExt

CONSTANTS
  RTrees,    \* sets of files [dirs, stem, empty, code]
  RNames,    \* the names of files and directories, ordered by their bytes
  RMaps,     \* the route maps in the code of a file
  RRequests, \* requests [method, path]
  RMaxNext   \* how often a middleware calls next

IsSeq(s) == s \in Seq(ToSet(s))

\* A call of route, prefix or middleware; the path of a route begins with a slash.  (prefix
\* of a map into itself never returns.)
IsCall(c) ==
  /\ c.call \in {"route", "prefix", "middleware"} /\ c.on \in RMaps
  /\ c.call = "route"  => IsSeq(c.path) /\ c.path # << >>
  /\ c.call = "prefix" => IsSeq(c.path) /\ c.of \in RMaps \ {c.on}

ASSUME RoutingAssumption ==
  /\ "export" \in RMaps /\ RMaxNext \in Nat /\ IsSeq(RNames)
  /\ \A tree \in RTrees : \A f \in tree :
       /\ f.dirs \in Seq(ToSet(RNames)) /\ f.stem \in ToSet(RNames)
       /\ IsSeq(f.code) /\ \A k \in DOMAIN f.code : IsCall(f.code[k])
  /\ \A req \in RRequests : IsSeq(req.path) /\ req.path # << >>

VARIABLES
  rstage,  \* "none", "import" the files, run the "code" of one, "serve"
  rtree,   \* the files of the project
  rtodo,   \* those whose routes are not yet in the root map
  rfile,   \* the file whose code runs
  rdone,   \* how many of its calls were made
  rmaps,   \* its route maps
  rroot,   \* the route map that the generated code builds
  routes,  \* Router.routes of the version that was applied
  rreq,    \* the request that is handled
  rmatch,  \* what lookup returned for it
  rcalls   \* how often each element of the chain was called: the middlewares
           \* of the route, then its handler

rVars == <<rstage, rtree, rtodo, rfile, rdone, rmaps, rroot, routes, rreq, rmatch, rcalls>>

NoRequest   == [method |-> "none", path |-> << >>]
NoMatch     == [found |-> "none", route |-> << >>]
NewRouteMap == [routes |-> << >>, middlewares |-> << >>]
Special     == [dirs |-> << >>, stem |-> "special", empty |-> FALSE, code |-> << >>]

RInit ==
  /\ rstage = "none" /\ rtree = {} /\ rtodo = {} /\ rfile = Special /\ rdone = 0
  /\ rmaps = [m \in RMaps |-> NewRouteMap] /\ rroot = NewRouteMap
  /\ routes = << >> /\ rreq = NoRequest /\ rmatch = NoMatch /\ rcalls = << >>

-----------------------------------------------------------------------------
(* routes.rs                                                               *)

\* Names that start with an underscore are ignored, apart from _root.ts.
Ignored(name) == name \in {"_root", "_util"}

stem_to_pattern(stem) == IF stem = "[id]" THEN ":" ELSE stem

HasRoot(tree, dir) == \E f \in tree : f.dirs = dir /\ f.stem = "_root"

\* walk_dir comes to a directory.
Walked(tree, dir) ==
  \A i \in DOMAIN dir : ~Ignored(dir[i]) /\ ~HasRoot(tree, SubSeq(dir, 1, i - 1))

\* walk_dir and walk_dir_entry: _root.ts, or everything else; add_route leaves out
\* files without content.
walk_dir(tree) ==
  {f \in tree :
     /\ Walked(tree, f.dirs)
     /\ f.stem = "_root" \/ (~HasRoot(tree, f.dirs) /\ ~Ignored(f.stem))
     /\ ~f.empty}

path_pattern(f) ==
  [i \in DOMAIN f.dirs |-> stem_to_pattern(f.dirs[i])]
    \o (IF f.stem \in {"index", "_root"} THEN << >> ELSE <<stem_to_pattern(f.stem)>>)

\* The components of a path: a file's name has its extension.
Components(f) ==
  LET rank(name) == CHOOSE i \in DOMAIN RNames : RNames[i] = name
  IN [i \in DOMAIN f.dirs |-> <<rank(f.dirs[i]), 0>>] \o <<<<rank(f.stem), 1>>>>

ComponentLess(c, d) == c[1] < d[1] \/ (c[1] = d[1] /\ c[2] < d[2])

\* (Mutant: paths are ordered as strings, where "a.ts" comes before "a/b.ts".)
order_of_strings(f, g) ==
  LET p == Components(f)
      q == Components(g)
  IN \E i \in DOMAIN p \cap DOMAIN q :
       /\ SubSeq(p, 1, i - 1) = SubSeq(q, 1, i - 1)
       /\ p[i][1] < q[i][1] \/ (p[i][1] = q[i][1] /\ p[i][2] > q[i][2])

\* Paths are ordered by their components.
file_path_order(f, g) ==
  LET p == Components(f)
      q == Components(g)
  IN \E i \in DOMAIN p \cap DOMAIN q :
       SubSeq(p, 1, i - 1) = SubSeq(q, 1, i - 1) /\ ComponentLess(p[i], q[i])

\* The files in that order: f is the first of those that are left.
build_file_route_map(f) == f \in rtodo /\ \A g \in rtodo \ {f} : file_path_order(f, g)

-----------------------------------------------------------------------------
(* RouteMap                                                                *)

route(map, methods, pattern, handler) ==
  [map EXCEPT !.routes = Append(@, [methods |-> methods, pattern |-> pattern, handler |-> handler,
                                    middlewares |-> << >>])]

\* (Mutant: the middlewares of the map that is added are forgotten.)
prefix_routes_only(map, path, other) ==
  [map EXCEPT !.routes = @ \o [i \in DOMAIN other.routes |->
     [other.routes[i] EXCEPT !.pattern = path \o @]]]

prefix(map, path, other) ==
  [map EXCEPT !.routes = @ \o [i \in DOMAIN other.routes |->
     [other.routes[i] EXCEPT !.pattern = path \o @, !.middlewares = @ \o other.middlewares]]]

middleware(map, handler) == [map EXCEPT !.middlewares = Append(@, handler)]

\* convert: a function that is exported handles all methods and everything below its path.
convert == <<[call |-> "route", on |-> "export", methods |-> {"*"}, path |-> <<"*">>]>>

\* A handler is known by its file and the call that adds it.
Handler(f, k) == [file |-> f, at |-> k]

specialBefore ==
  route(route(NewRouteMap, {"GET"}, <<"">>, Handler(Special, 1)),
        {"GET"}, <<"__chiselstrike", "routes">>, Handler(Special, 2))

\* Router
Router(map) ==
  [i \in DOMAIN map.routes |-> [map.routes[i] EXCEPT !.middlewares = @ \o map.middlewares]]

-----------------------------------------------------------------------------
(* Router.lookup                                                           *)

\* URLPattern
exec(pattern, path) ==
  LET n == IF Last(pattern) = "*" THEN Len(pattern) - 1 ELSE Len(pattern)
  IN /\ IF n < Len(pattern) THEN Len(path) > n ELSE Len(path) = n
     /\ \A i \in 1 .. n : pattern[i] = path[i] \/ (pattern[i] = ":" /\ path[i] # "")

\* A path without a final slash is tried again with one.
testPathOnly(r, path) ==
  exec(r.pattern, path) \/ (Last(path) # "" /\ exec(r.pattern, Append(path, "")))

match(r, method, path) ==
  /\ {method, "*"} \cap r.methods # {}
  /\ exec(r.pattern, path) \/ (Last(path) # "" /\ exec(r.pattern, Append(path, "")))

lookup(method, path) ==
  LET matching == {i \in DOMAIN routes : match(routes[i], method, path)}
  IN IF matching # {}
     THEN [found |-> "match", route |-> routes[CHOOSE i \in matching : \A j \in matching : i <= j]]
     ELSE [found |-> IF \E i \in DOMAIN routes : testPathOnly(routes[i], path)
                     THEN "method_not_allowed" ELSE "not_found",
           route |-> << >>]

-----------------------------------------------------------------------------
(* Actions.                                                                *)

r_apply(tree) ==
  /\ rstage = "none" /\ rstage' = "import"
  /\ rtree' = tree /\ rtodo' = walk_dir(tree) /\ rroot' = NewRouteMap
  /\ UNCHANGED <<rfile, rdone, rmaps, routes, rreq, rmatch, rcalls>>

\* The generated code imports the files in their order.  (It imports all of them before
\* it adds the first, which makes no difference: no map belongs to two files.)
r_import(f) ==
  /\ rstage = "import" /\ rstage' = "code"
  /\ build_file_route_map(f)
  /\ rfile' = f /\ rdone' = 0 /\ rmaps' = [m \in RMaps |-> NewRouteMap]
  /\ UNCHANGED <<rtree, rtodo, rroot, routes, rreq, rmatch, rcalls>>

\* The next call of the file's code.
r_call ==
  /\ rstage = "code" /\ rdone < Len(rfile.code)
  /\ LET c == rfile.code[rdone + 1]
     IN rmaps' = [rmaps EXCEPT ![c.on] =
          CASE c.call = "route"  -> route(@, c.methods, c.path, Handler(rfile, rdone + 1))
            [] c.call = "prefix" -> prefix(@, c.path, rmaps[c.of])
            [] c.call = "middleware" -> middleware(@, c.handler)]
  /\ rdone' = rdone + 1
  /\ UNCHANGED <<rstage, rtree, rtodo, rfile, rroot, routes, rreq, rmatch, rcalls>>

\* codegen_route_map: what the file exports is put under its path.
codegen_route_map ==
  /\ rstage = "code" /\ rdone = Len(rfile.code) /\ rstage' = "import"
  /\ rroot' = prefix(rroot, path_pattern(rfile), rmaps["export"])
  /\ rtodo' = rtodo \ {rfile}
  /\ UNCHANGED <<rtree, rfile, rdone, rmaps, routes, rreq, rmatch, rcalls>>

\* run: the special routes, then the user's.
run ==
  /\ rstage = "import" /\ rtodo = {} /\ rstage' = "serve"
  /\ routes' = Router(prefix(specialBefore, << >>, rroot))
  /\ UNCHANGED <<rtree, rtodo, rfile, rdone, rmaps, rroot, rreq, rmatch, rcalls>>

\* handleHttpRequest: the chain of the route that was found is entered.
r_request(req) ==
  /\ rstage = "serve" /\ rreq = NoRequest
  /\ rreq' = req
  /\ rmatch' = lookup(req.method, req.path)
  /\ rcalls' = IF rmatch'.found = "match"
               THEN [i \in 1 .. Len(rmatch'.route.middlewares) + 1 |-> IF i = 1 THEN 1 ELSE 0]
               ELSE << >>
  /\ UNCHANGED <<rstage, rtree, rtodo, rfile, rdone, rmaps, rroot, routes>>

\* A middleware calls next, perhaps again.
next(i) ==
  /\ i + 1 \in DOMAIN rcalls /\ rcalls[i] > 0 /\ rcalls[i + 1] < RMaxNext
  /\ rcalls' = [rcalls EXCEPT ![i + 1] = @ + 1]
  /\ UNCHANGED <<rstage, rtree, rtodo, rfile, rdone, rmaps, rroot, routes, rreq, rmatch>>

\* The response; a middleware may have called nothing.
r_respond ==
  /\ rreq # NoRequest
  /\ rreq' = NoRequest /\ rmatch' = NoMatch /\ rcalls' = << >>
  /\ UNCHANGED <<rstage, rtree, rtodo, rfile, rdone, rmaps, rroot, routes>>

r_stop ==
  /\ rstage = "serve" /\ rreq = NoRequest /\ rstage' = "none"
  /\ rtree' = {} /\ rfile' = Special /\ rdone' = 0
  /\ rmaps' = [m \in RMaps |-> NewRouteMap] /\ rroot' = NewRouteMap /\ routes' = << >>
  /\ UNCHANGED <<rtodo, rreq, rmatch, rcalls>>

RNext ==
  \/ \E tree \in RTrees : r_apply(tree)
  \/ \E f \in rtodo : r_import(f)
  \/ r_call \/ codegen_route_map \/ run
  \/ \E req \in RRequests : r_request(req)
  \/ \E i \in DOMAIN rcalls : next(i)
  \/ r_respond \/ r_stop

RSpec == RInit /\ [][RNext]_rVars

-----------------------------------------------------------------------------
(* Properties.                                                             *)

IsFirst(C, k)    == k \in C /\ \A j \in C : k <= j
IsFinal(C, k)    == k \in C /\ \A j \in C : j <= k
Follows(C, k, l) == k \in C /\ l \in C /\ k < l /\ \A j \in C : j <= k \/ l <= j

\* The calls C bring a route into the map m: the first adds it to a map, and each
\* of the others puts the map of the one before under a prefix.
IsWay(code, C, m) ==
  /\ C # {}
  /\ \A k \in C : code[k].call = IF IsFirst(C, k) THEN "route" ELSE "prefix"
  /\ \A k, l \in C : Follows(C, k, l) => code[l].of = code[k].on
  /\ \A k \in C : IsFinal(C, k) => code[k].on = m

Ways(f) == {C \in SUBSET DOMAIN f.code : IsWay(f.code, C, "export")}

\* The segments after the first n of a path fit those of a pattern.
NoSlash(path) == IF Last(path) = "" THEN Front(path) ELSE path
Fits(segs, n, path) ==
  /\ n + Len(segs) <= Len(path)
  /\ \A i \in DOMAIN segs : segs[i] = path[n + i] \/ (segs[i] = ":" /\ path[n + i] # "")

\* A route at "/" is reached with and without a final slash, and a function
\* by everything below its path.
FitsEnd(segs, n, path) ==
  CASE Last(segs) = "*" -> Fits(Front(segs), n, NoSlash(path))
    [] Last(segs) = ""  -> Fits(Front(segs), n, NoSlash(path)) /\ n + Len(segs) - 1 = Len(NoSlash(path))
    [] OTHER            -> Fits(segs, n, path) /\ n + Len(segs) = Len(path)

\* Where the paths of the calls begin: the last call's behind b segments.
Places(code, C, b, at) ==
  /\ \A k \in C : IsFinal(C, k) => at[k] = b
  /\ \A k, l \in C : Follows(C, k, l) => at[k] = at[l] + Len(code[l].path)

\* A path is that of the file, followed by those of the calls.
OnWay(f, C, path) ==
  /\ Fits(path_pattern(f), 0, path)
  /\ \E at \in [C -> 0 .. Len(path)] :
       /\ Places(f.code, C, Len(path_pattern(f)), at)
       /\ \A k \in C : IF IsFirst(C, k) THEN FitsEnd(f.code[k].path, at[k], path)
                        ELSE Fits(f.code[k].path, at[k], path)

\* The ways of a file that lead to a handler for a request.
Serving(f, req) ==
  {C \in Ways(f) : /\ OnWay(f, C, req.path)
                   /\ \A k \in C : IsFirst(C, k) => {req.method, "*"} \cap f.code[k].methods # {}}

IsSpecial(path) == NoSlash(path) = << >> \/ path = <<"__chiselstrike", "routes">>

\* http.ts 36-58, routes.rs 38-47: a request for a path of the project is answered
\* 404 exactly if no file that is not ignored has a route there, 405 exactly if
\* there are routes and none takes the method, and otherwise by one that does.  The
\* file a.ts does not take the requests of the files in the directory a, although
\* its routes may cover their paths (routes.rs 70-72).
AnswerFitsFiles ==
  rreq # NoRequest /\ ~IsSpecial(rreq.path) =>
    LET files == walk_dir(rtree)
        h     == rmatch.route.handler
    IN /\ rmatch.found = "match" <=> \E f \in files : Serving(f, rreq) # {}
       /\ rmatch.found = "not_found" <=> \A f \in files : \A C \in Ways(f) : ~OnWay(f, C, rreq.path)
       /\ rmatch.found = "match" =>
            /\ h.file \in files /\ \E C \in Serving(h.file, rreq) : IsFirst(C, h.at)
            /\ ~\E f \in files : Serving(f, rreq) # {} /\ IsPrefix(Append(h.file.dirs, h.file.stem), f.dirs)

\* The middlewares of the map to which the call k adds, until it is put under another.
Guards(code, C, k) ==
  {code[j].handler : j \in {j \in DOMAIN code :
     /\ code[j].call = "middleware" /\ code[j].on = code[k].on
     /\ \A l \in C : Follows(C, k, l) => j < l}}

\* routing.ts 104-127 and 176-188, builtin_root.ts 18-27: a handler is called only after every
\* middleware of the maps that it is in, however deep it is nested and wherever the
\* calls of middleware stand.  (What is added to a map after it was put under a
\* prefix does not count.)
ThroughMiddlewares ==
  rcalls # << >> /\ Last(rcalls) > 0 /\ rmatch.route.handler.file # Special =>
    LET h == rmatch.route.handler
        called == {rmatch.route.middlewares[i] : i \in {i \in 1 .. Len(rcalls) - 1 : rcalls[i] > 0}}
    IN \E C \in Ways(h.file) :
         IsFirst(C, h.at) /\ \A k \in C : Guards(h.file.code, C, k) \subseteq called
-----------------------------------------------------------------------------
(* The inductive invariant of the proofs.                                  *)

IsRoute(r)  == DOMAIN r = {"methods", "pattern", "handler", "middlewares"} /\ IsSeq(r.middlewares)
                 /\ IsSeq(r.pattern) /\ r.pattern # << >>
IsMap(map)  == DOMAIN map = {"routes", "middlewares"} /\ IsSeq(map.routes) /\ IsSeq(map.middlewares)
                 /\ \A i \in DOMAIN map.routes : IsRoute(map.routes[i])

\* The pattern of r is b segments and the paths of the calls C, each at its place.
LiesAt(f, C, b, r, at) ==
  /\ Places(f.code, C, b, at)
  /\ \A k \in C : \A i \in DOMAIN f.code[k].path :
       at[k] + i <= Len(r.pattern) /\ r.pattern[at[k] + i] = f.code[k].path[i]
  /\ \A k \in C : IsFirst(C, k) =>
       /\ r.handler = Handler(f, k) /\ r.methods = f.code[k].methods
       /\ Len(r.pattern) = at[k] + Len(f.code[k].path) /\ b <= at[k]
       /\ \A l \in C \ {k} : at[l] + Len(f.code[l].path) <= at[k]
  /\ \A p \in DOMAIN r.pattern :
       p <= b \/ \E k \in C : \E i \in DOMAIN f.code[k].path : p = at[k] + i

Lies(f, C, b, r) == \E at \in [C -> 0 .. Len(r.pattern)] : LiesAt(f, C, b, r, at)

\* The routes of a map of the file whose code runs are those that ways lead to, and
\* have the middlewares of the maps that were put into it.
MapInv(m) ==
  /\ IsMap(rmaps[m])
  /\ \A j \in 1 .. rdone : rfile.code[j].call = "middleware" /\ rfile.code[j].on = m =>
       rfile.code[j].handler \in ToSet(rmaps[m].middlewares)
  /\ \A i \in DOMAIN rmaps[m].routes : \E C \in SUBSET (1 .. rdone) :
       /\ IsWay(rfile.code, C, m) /\ Lies(rfile, C, 0, rmaps[m].routes[i])
       /\ \A k, l \in C : Follows(C, k, l) =>
            Guards(rfile.code, C, k) \subseteq ToSet(rmaps[m].routes[i].middlewares)
  /\ \A C \in SUBSET (1 .. rdone) : IsWay(rfile.code, C, m) =>
       \E i \in DOMAIN rmaps[m].routes : Lies(rfile, C, 0, rmaps[m].routes[i])

CodeInv ==
  rstage = "code" => build_file_route_map(rfile) /\ rdone \in 0 .. Len(rfile.code)
                       /\ rmaps \in [RMaps -> {rmaps[m] : m \in RMaps}] /\ \A m \in RMaps : MapInv(m)

\* The route r is that of the way C of the file f.
RouteOf(f, C, r) ==
  LET p == path_pattern(f)
  IN Lies(f, C, Len(p), r) /\ \A i \in DOMAIN p : r.pattern[i] = p[i]

\* The routes of the root map are those of the files that were added, in their order,
\* and have all middlewares on their way.
RootInv ==
  rstage # "none" =>
    LET added == walk_dir(rtree) \ rtodo
        rs    == rroot.routes
    IN /\ rtree \in RTrees /\ rtodo \subseteq walk_dir(rtree)
       /\ IsMap(rroot) /\ rroot.middlewares = << >>
       /\ \A i \in DOMAIN rs : \E f \in added : \E C \in Ways(f) :
            RouteOf(f, C, rs[i]) /\ \A k \in C : Guards(f.code, C, k) \subseteq ToSet(rs[i].middlewares)
       /\ \A f \in added : \A C \in Ways(f) : \E i \in DOMAIN rs : RouteOf(f, C, rs[i])
       /\ \A f \in added : \A g \in rtodo : file_path_order(f, g)
       /\ \A i, j \in DOMAIN rs : i < j =>
            rs[i].handler.file = rs[j].handler.file
              \/ file_path_order(rs[i].handler.file, rs[j].handler.file)

ServeInv ==
  /\ rstage \in {"none", "import", "code", "serve"}
  /\ rstage = "serve" => rtodo = {} /\ routes = Router(prefix(specialBefore, << >>, rroot))
  /\ rreq = NoRequest => rcalls = << >>
  /\ rreq # NoRequest =>
       rstage = "serve" /\ rreq \in RRequests /\ rmatch = lookup(rreq.method, rreq.path)

\* What is called was called from in front of it.
ChainCalls ==
  rcalls # << >> =>
    /\ rmatch.found = "match" /\ rcalls \in Seq(Nat) /\ Len(rcalls) = Len(rmatch.route.middlewares) + 1
    /\ \A i, j \in DOMAIN rcalls : i < j /\ rcalls[j] > 0 => rcalls[i] > 0

RoutingInv == CodeInv /\ RootInv /\ ServeInv /\ ChainCalls
=============================================================================
