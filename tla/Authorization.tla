--------------------------- MODULE Authorization ---------------------------
(***************************************************************************)
(* Who may send a request where.  A version's policies (a YAML file) give  *)
(* paths a pattern of user names and a header that must hold a secret; the *)
(* route with the longest path that is a prefix of the request's decides.  *)
(* A request is authenticated, then its user is looked up in the database, *)
(* then its header is compared; users and secrets change meanwhile.        *)
(*                                                                         *)
(* Paths are sequences of numbers ordered as their characters are, with 1  *)
(* for the slash.                                                          *)
(***************************************************************************)
EXTENDS Naturals, Sequences, FiniteSets, SequencesExt

CONSTANTS
  None,        \* no user, no header, no secret, no claim
  AConfigs,    \* policy files: sequences of routes
               \* [path, users: a set of names or None, header: required or None, methods]
  ARequests,   \* requests: path, method, uid and token headers, the mandatory header's value
  ASecrets,    \* values of the secret, None when it is missing
  AUsers       \* tables of users: from ids to names

ASSUME AuthAssumption ==
  /\ \A config \in AConfigs : \A i \in DOMAIN config : config[i].path \in Seq(Nat)
  /\ \A req \in ARequests : req.path \in Seq(Nat)
  /\ None \notin Seq(Nat)

VARIABLES
  auth,    \* the policies of the version: the two PrefixMaps, None when not loaded
  asecret, \* the secret now
  ausers,  \* the users now
  areq,    \* the request that is being checked
  astep,   \* how far it is
  aname,   \* the user name that was found
  acheck   \* the secret it was checked with

aVars == <<auth, asecret, ausers, areq, astep, aname, acheck>>

AInit ==
  /\ auth = None /\ asecret = None /\ ausers = << >>
  /\ areq = None /\ astep = "idle" /\ aname = None /\ acheck = None

-----------------------------------------------------------------------------
(* PrefixMap.                                                              *)

\* (Mutant: any string prefix.)
is_string_prefix(needle, haystack) == IsPrefix(needle, haystack)

\* A prefix that ends at a slash.
is_path_prefix(needle, haystack) ==
  /\ IsPrefix(needle, haystack)
  /\ \/ needle # << >> /\ Last(needle) = 1
     \/ needle = haystack
     \/ haystack[Len(needle) + 1] = 1

\* The order of strings, in which the map is scanned from the path downwards.
StrLeq(s, t) ==
  \/ IsPrefix(s, t)
  \/ \E i \in DOMAIN s \cap DOMAIN t :
       SubSeq(s, 1, i - 1) = SubSeq(t, 1, i - 1) /\ s[i] < t[i]

\* The path of the entry that decides, None if there is none.
longest_prefix(map, path) ==
  LET hits == {p \in DOMAIN map : StrLeq(p, path) /\ is_path_prefix(p, path)}
  IN IF hits = {} THEN None ELSE CHOOSE p \in hits : \A q \in hits : StrLeq(q, p)

-----------------------------------------------------------------------------
(* Policies.                                                               *)

PathsOf(config, Has(_)) == {config[i].path : i \in {i \in DOMAIN config : Has(config[i])}}
Repeats(config, Has(_)) ==
  \E i, j \in DOMAIN config : i # j /\ Has(config[i]) /\ Has(config[j]) /\ config[i].path = config[j].path
EntryOf(config, path, Has(_)) == config[CHOOSE i \in DOMAIN config : config[i].path = path /\ Has(config[i])]

HasUsers(r)  == r.users # None
HasHeader(r) == r.header # None

\* PolicySystem::from_yaml: a path may be given once for each kind.
from_yaml(config) ==
  IF Repeats(config, HasUsers) \/ Repeats(config, HasHeader) THEN None
  ELSE [users   |-> [p \in PathsOf(config, HasUsers) |-> EntryOf(config, p, HasUsers).users],
        headers |-> [p \in PathsOf(config, HasHeader) |->
                       [methods |-> EntryOf(config, p, HasHeader).methods]]]

\* UserAuthorization::is_allowed.
user_is_allowed(username, path) ==
  LET p == longest_prefix(auth.users, path)
  IN p = None \/ (username # None /\ username \in auth.users[p])

\* SecretAuthorization::is_allowed: no secret, no access.
secret_is_allowed(req) ==
  LET p == longest_prefix(auth.headers, req.path)
  IN \/ p = None
     \/ auth.headers[p].methods # None /\ req.method \notin auth.headers[p].methods
     \/ asecret # None /\ req.header = asecret

-----------------------------------------------------------------------------
(* Actions.                                                                *)

apply_policies(config) ==
  /\ auth = None /\ from_yaml(config) # None
  /\ auth' = from_yaml(config) /\ asecret' \in ASecrets /\ ausers' \in AUsers
  /\ UNCHANGED <<areq, astep, aname, acheck>>

\* A request arrives; a token is validated instead of the user id, and refused
\* when it is bad.
authenticate(req) ==
  /\ auth # None /\ astep = "idle"
  /\ areq' = req
  /\ astep' = IF req.token = "bad" THEN "forbidden" ELSE "authenticated"
  /\ UNCHANGED <<auth, asecret, ausers, aname, acheck>>

user_id == IF areq.token # None THEN None ELSE areq.uid

\* The SELECT of the user's email: nobody, if there is no such row.
get_username_from_id ==
  /\ astep = "authenticated"
  /\ aname' = IF user_id # None /\ user_id \in DOMAIN ausers THEN ausers[user_id] ELSE None
  /\ astep' = "named"
  /\ UNCHANGED <<auth, asecret, ausers, areq, acheck>>

\* authorize: the user first, then the header with the secrets of now.
authorize ==
  /\ astep = "named"
  /\ acheck' = asecret
  /\ astep' = IF user_is_allowed(aname, areq.path) /\ secret_is_allowed(areq) THEN "admitted" ELSE "forbidden"
  /\ UNCHANGED <<auth, asecret, ausers, areq, aname>>

a_answer ==
  /\ astep \in {"admitted", "forbidden"}
  /\ areq' = None /\ astep' = "idle" /\ aname' = None /\ acheck' = None
  /\ UNCHANGED <<auth, asecret, ausers>>

\* Secrets are refreshed and users edited at any time.
a_change ==
  /\ auth # None /\ astep # "idle"
  /\ \/ asecret' \in ASecrets \ {asecret} /\ UNCHANGED ausers
     \/ ausers' \in AUsers \ {ausers} /\ UNCHANGED asecret
  /\ UNCHANGED <<auth, areq, astep, aname, acheck>>

a_stop ==
  /\ auth # None /\ astep = "idle"
  /\ auth' = None /\ asecret' = None /\ ausers' = << >>
  /\ UNCHANGED <<areq, astep, aname, acheck>>

ANext ==
  \/ \E config \in AConfigs : apply_policies(config)
  \/ \E req \in ARequests : authenticate(req)
  \/ get_username_from_id \/ authorize \/ a_answer \/ a_change \/ a_stop

ASpec == AInit /\ [][ANext]_aVars

-----------------------------------------------------------------------------
(* Properties.                                                             *)

\* Where the segments of a path start: behind its slashes, and at its beginning.
Cuts(path) == {i \in 0 .. Len(path) : i = 0 \/ path[i] = 1}

\* Where the segment behind cut i ends: before the next slash, or with the path.
SegmentEnd(path, i) ==
  CHOOSE e \in i .. Len(path) :
    /\ e = Len(path) \/ path[e + 1] = 1
    /\ \A k \in i + 1 .. e : path[k] # 1

Segment(path, i) == SubSeq(path, i + 1, SegmentEnd(path, i))

\* Path p contains path q: q has the segments of p and perhaps more, and it has
\* some if p ends with a slash.
Covers(p, q) ==
  \A i \in Cuts(p) :
    /\ i \in Cuts(q)
    /\ (i > 0 /\ i = Len(p)) \/ Segment(p, i) = Segment(q, i)

Deciding(paths, path) ==
  {p \in paths : Covers(p, path) /\ \A q \in paths : Covers(q, path) => Len(q) <= Len(p)}

\* policies.rs 43-46, 73-76, prefix_map.rs 20-47: whoever is admitted has, for the
\* longest of the paths that contain the request's, a user name that it permits and
\* the header that it demands, where no secret means that nobody is let in; a longer
\* string, such as /ab for /a, is not contained.  Nobody is refused where no path
\* contains the request's, unless the token is bad.
AdmittedByLongestPath ==
  /\ astep = "admitted" =>
       /\ \A p \in Deciding(DOMAIN auth.users, areq.path) : aname \in auth.users[p]
       /\ \A p \in Deciding(DOMAIN auth.headers, areq.path) :
            (auth.headers[p].methods # None => areq.method \in auth.headers[p].methods)
              => acheck # None /\ areq.header = acheck
  /\ astep = "forbidden" /\ areq.token # "bad" =>
       Deciding(DOMAIN auth.users, areq.path) \cup Deciding(DOMAIN auth.headers, areq.path) # {}

-----------------------------------------------------------------------------
(* The inductive invariant.                                                *)

\* The policies are those of a file, and stay while a request is checked.
PoliciesLoaded ==
  /\ auth # None => DOMAIN auth.users \cup DOMAIN auth.headers \subseteq Seq(Nat)
  /\ astep # "idle" => auth # None /\ areq \in ARequests

AuthInv == PoliciesLoaded /\ AdmittedByLongestPath
=============================================================================
