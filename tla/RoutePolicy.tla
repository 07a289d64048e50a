---------------------------- MODULE RoutePolicy ----------------------------
(***************************************************************************)
(* The routes of a site (config.rs, waf_l1.rs): how the entries of         *)
(* ferroada.toml are compiled into the routes of a backend, what the load  *)
(* rejects, and which inspection, authorization, L1, DLP and GraphQL rules *)
(* a request gets for the way it spells its path.                          *)
(*                                                                         *)
(* A spelled path is a sequence of tokens <<character, depth>>: the depth  *)
(* is the number of decoding passes after which the character stands there *)
(* in the clear.  "bad" is a % that starts no escape, "byte" a byte that   *)
(* is no UTF-8, "\\" the backslash.  A canonical path is the sequence of   *)
(* its segments, "/" the empty one.  A value that may be absent is a set   *)
(* of at most one element; for a lookup the empty set is a panic.          *)
(***************************************************************************)
EXTENDS Naturals, Sequences, FiniteSets, SequencesExt, FiniteSetsExt

CONSTANTS
  Sites,   \* tables [[sites]], see the MC module
  Uris,    \* the request targets that are asked for, spelled
  Media,   \* the content types of the requests
  Rounds   \* decoding passes (8 in config.rs)

RouteAssumption == Rounds \in Nat \ {0}

VARIABLES
  site,    \* the site as the file declares it
  phase,   \* "sugar", "entries", "checks", "live", or "rejected"
  todo,    \* the entries that are still to be merged
  routes,  \* the routes of the backend
  asked,   \* the last request, or none
  found    \* what the lookups gave for it

vars == <<site, phase, todo, routes, asked, found>>

-----------------------------------------------------------------------------
(***************************************************************************)
(* Paths.                                                                  *)
(***************************************************************************)
\* One pass over the escapes; a % that starts none ends it.
percent_decode(spelled) ==
  IF <<"bad", 0>> \in Range(spelled) THEN {}
  ELSE {[k \in DOMAIN spelled |-> <<spelled[k][1], IF spelled[k][2] = 0 THEN 0
                                                   ELSE spelled[k][2] - 1>>]}

\* The loop of passes; after one that changes nothing the others would not either.
Passes(spelled) ==
  LET after[n \in 0..Rounds] ==
        IF n = 0 THEN {spelled} ELSE UNION {percent_decode(s) : s \in after[n - 1]}
  IN after[Rounds]

\* Mutant: what the passes leave is taken as it is.
Decoded_Unstable(spelled) == Passes(spelled)

\* Decoded until it is stable, or not at all.
Decoded(spelled) == {s \in Passes(spelled) : percent_decode(s) = {s}}

\* The segments between slashes, empty and dot segments resolved.
Segments(characters) ==
  LET split == FoldLeft(LAMBDA parts, c :
                          IF c \in {"/", "\\"} THEN Append(parts, <<>>)
                          ELSE Front(parts) \o <<Append(Last(parts), c)>>,
                        <<<<>>>>, characters)
  IN FoldLeft(LAMBDA path, segment :
                CASE segment \in {<<>>, <<".">>} -> path
                  [] segment = <<".", ".">> -> IF path = <<>> THEN path ELSE Front(path)
                  [] OTHER -> Append(path, segment),
              <<>>, split)

Characters(spelled) == [k \in DOMAIN spelled |-> spelled[k][1]]

canonical_route_path(spelled) ==
  {Segments(Characters(s)) : s \in {t \in Decoded(spelled) : <<"byte", 0>> \notin Range(t)}}

\* The path of a request target ends at the first ? that is one.
PathOf(uri) ==
  LET marks == {k \in DOMAIN uri : uri[k] = <<"?", 0>>}
  IN canonical_route_path(IF marks = {} THEN uri ELSE SubSeq(uri, 1, Min(marks) - 1))

\* A prefix of the file: absolute, without a query, decodable.
parse_path_prefix(spelled) ==
  IF spelled[1] = <<"/", 0>> /\ <<"?", 0>> \notin Range(spelled)
  THEN canonical_route_path(spelled) ELSE {}

path_matches_prefix(path, prefix) == IsPrefix(prefix, path)

-----------------------------------------------------------------------------
(***************************************************************************)
(* Compiling a site.                                                       *)
(***************************************************************************)
NoPatch == [require_complete |-> {}, on_truncated |-> {}, on_parse_error |-> {},
            max_decoded_body |-> {}]
NoL1 == [blocking |-> {}, executing |-> {}, exclude |-> {}, exclusions |-> FALSE]

fail_closed_patch ==
  [NoPatch EXCEPT !.require_complete = {TRUE}, !.on_truncated = {"deny"},
                  !.on_parse_error = {"deny"}]

Or(first, second) == IF first # {} THEN first ELSE second
ValueOr(option, default) == IF option = {} THEN default ELSE CHOOSE v \in option : TRUE

merge_patches(base, overlay) == [f \in DOMAIN base |-> Or(overlay[f], base[f])]

\* shadow and anomaly_score_threshold are merged and overlaid as exclude is.
merge_l1_files(base, overlay) ==
  [blocking |-> Or(overlay.blocking, base.blocking),
   executing |-> Or(overlay.executing, base.executing),
   exclude |-> Or(overlay.exclude, base.exclude),
   exclusions |-> overlay.exclusions \/ base.exclusions]

\* A path listed in require_complete_waf_inspection.
Complete(prefix) ==
  [prefix |-> prefix, patch |-> fail_closed_patch, l1 |-> NoL1, graphql |-> <<>>,
   fields |-> <<>>, authz |-> {}]

Merged(route, entry) ==
  [route EXCEPT !.patch = merge_patches(@, entry.patch), !.l1 = merge_l1_files(@, entry.l1),
                !.fields = @ \o entry.fields, !.graphql = @ \o entry.graphql,
                !.authz = Or(@, entry.authz)]

\* An entry whose prefix a route already has is merged into the first such route.
merge_inspection_route(entry, prefix) ==
  LET same == {k \in DOMAIN routes : routes[k].prefix = prefix}
  IN IF same = {} THEN Append(routes, [entry EXCEPT !.prefix = prefix])
     ELSE [routes EXCEPT ![Min(same)] = Merged(@, entry)]

-----------------------------------------------------------------------------
(***************************************************************************)
(* Looking a request up.                                                   *)
(***************************************************************************)
\* The routes that match, by the length of their prefix and then as they are
\* declared: the ones that match are all prefixes of the path.
Matching(path) ==
  FlattenSeq([n \in 1..(Len(path) + 1) |->
                SelectSeq(routes, LAMBDA r : /\ path_matches_prefix(path, r.prefix)
                                             /\ Len(r.prefix) = n - 1)])

OpenPolicy == [require_complete |-> FALSE, on_truncated |-> "monitor",
               on_parse_error |-> "monitor", max_decoded_body |-> {}]
FailClosedPolicy == [require_complete |-> TRUE, on_truncated |-> "deny",
                     on_parse_error |-> "deny", max_decoded_body |-> {}]

patch_denies_incomplete(patch) ==
  \/ patch.require_complete = {TRUE}
  \/ "deny" \in patch.on_truncated \cup patch.on_parse_error

\* A patch that sets require_complete sets the actions it leaves out as well.
overlay_inspection_policy(base, patch) ==
  LET complete == ValueOr(patch.require_complete, base.require_complete)
      Action(named, inherited) ==
        ValueOr(named, IF patch.require_complete = {} THEN inherited
                       ELSE IF complete THEN "deny" ELSE "monitor")
  IN [require_complete |-> complete,
      on_truncated |-> Action(patch.on_truncated, base.on_truncated),
      on_parse_error |-> Action(patch.on_parse_error, base.on_parse_error),
      max_decoded_body |-> Or(patch.max_decoded_body, base.max_decoded_body)]

\* An action that is neither deny nor monitor is a panic.
inspection_policy(path) ==
  IF path = {}
  THEN {IF \E r \in Range(routes) : patch_denies_incomplete(r.patch)
        THEN FailClosedPolicy ELSE OpenPolicy}
  ELSE LET patches == [k \in DOMAIN Matching(ValueOr(path, <<>>)) |->
                         Matching(ValueOr(path, <<>>))[k].patch]
       IN IF \E p \in Range(patches) : ~(p.on_truncated \cup p.on_parse_error)
                                          \subseteq {"deny", "monitor"}
          THEN {} ELSE {FoldLeft(overlay_inspection_policy, OpenPolicy, patches)}

authz_for(path) ==
  LET candidates == IF path = {} THEN routes ELSE Reverse(Matching(ValueOr(path, <<>>)))
      asking == SelectSeq(candidates, LAMBDA r : r.authz # {})
  IN IF asking = <<>> THEN {} ELSE Head(asking).authz

\* What every matching route adds to what the site has; a path that cannot be
\* decoded gets what the site has.
Added(base, path, Of(_)) ==
  base \o (IF path = {} THEN <<>>
           ELSE FlattenSeq([k \in DOMAIN Matching(ValueOr(path, <<>>)) |->
                              Of(Matching(ValueOr(path, <<>>))[k])]))

dlp_fields_for(path) == Added(site.fields, path, LAMBDA r : r.fields)
graphql_for(path) == Added(site.graphql, path, LAMBDA r : r.graphql)

\* L1: executing rises with blocking unless it is named.
OverlayL1(settings, patch) ==
  LET blocking == ValueOr(patch.blocking, settings.blocking)
  IN [blocking |-> blocking,
      executing |-> ValueOr(patch.executing, Max({settings.executing, blocking})),
      exclude |-> ValueOr(patch.exclude, settings.exclude)]

Validated(settings) ==
  /\ {settings.blocking, settings.executing} \subseteq 1..4
  /\ settings.executing >= settings.blocking

\* The settings after each route that matches, the site's first.
L1Chain(path) ==
  IF path = {} THEN <<site.l1>>
  ELSE FoldLeft(LAMBDA chain, r : Append(chain, OverlayL1(Last(chain), r.l1)),
                <<site.l1>>, Matching(ValueOr(path, <<>>)))

ExclusionMatches(exclusion, path, media) ==
  /\ exclusion.prefix # {} => \E p \in path, prefix \in exclusion.prefix :
                                 path_matches_prefix(p, prefix)
  /\ exclusion.media # {} => media \cap exclusion.media # {}

\* A panic when the settings of some route on the way are not valid.
l1_for(path, media) ==
  LET chain == L1Chain(path)
      matching == {e \in site.exclusions : ExclusionMatches(e, path, media)}
  IN IF \A k \in 2..Len(chain) : Validated(chain[k])
     THEN {[settings |-> Last(chain),
            skip |-> Last(chain).exclude \/ \E e \in matching : e.parameters = {},
            parameters |-> UNION {e.parameters : e \in matching}]}
     ELSE {}

-----------------------------------------------------------------------------
Init ==
  /\ site \in Sites
  /\ phase = "sugar" /\ routes = <<>> /\ todo = site.entries
  /\ asked = {} /\ found = {}

Compile(next, compiled) ==
  /\ phase' = next /\ routes' = compiled
  /\ UNCHANGED <<site, asked, found>>

\* merge_inspection_routes: the listed paths first.
StartRoutes ==
  /\ phase = "sugar"
  /\ LET prefixes == [k \in DOMAIN site.complete |-> parse_path_prefix(site.complete[k])]
     IN IF {} \in Range(prefixes) THEN Compile("rejected", routes)
        ELSE Compile("entries", [k \in DOMAIN prefixes |-> Complete(ValueOr(prefixes[k], <<>>))])
  /\ UNCHANGED todo

\* One entry: a bad prefix, a callback without a token to name the caller, or a
\* second callback for a route rejects the file.
MergeEntry ==
  /\ phase = "entries" /\ todo # <<>>
  /\ LET entry == Head(todo)
         prefix == parse_path_prefix(entry.prefix)
         twice == \E r \in Range(routes) : r.prefix \in prefix /\ r.authz # {}
     IN IF prefix = {} \/ (entry.authz # {} /\ (~site.jwt \/ twice))
        THEN Compile("rejected", routes)
        ELSE Compile("entries", merge_inspection_route(entry, ValueOr(prefix, <<>>)))
  /\ todo' = Tail(todo)

Merge == StartRoutes \/ MergeEntry

\* validate_spool_routes: looked up at the prefix of each route.
SpoolRoutesValid ==
  \A r \in Range(routes) :
    /\ inspection_policy({r.prefix}) # {}
    /\ \A p \in inspection_policy({r.prefix}) : p.max_decoded_body # {} => p.require_complete

\* validate_l1_routes: each route over the settings of the site.
L1RoutesValid ==
  /\ Validated(site.l1)
  /\ \A r \in Range(routes) : Validated(OverlayL1(site.l1, r.l1)) /\ ~r.l1.exclusions

\* from_toml_in: the site is checked once its routes are merged.
Validate ==
  /\ phase = "entries" /\ todo = <<>>
  /\ Compile(IF SpoolRoutesValid /\ L1RoutesValid THEN "live" ELSE "rejected", routes)
  /\ UNCHANGED todo

\* A request to the site: each rule set is looked up by the target as it came.
\* The lookups keep nothing, so one request per behaviour is enough.
Request(uri, media) ==
  /\ phase = "live" /\ asked = {}
  /\ asked' = {[uri |-> uri, media |-> media]}
  /\ found' = {[policy |-> inspection_policy(PathOf(uri)), authz |-> authz_for(PathOf(uri)),
                l1 |-> l1_for(PathOf(uri), media), fields |-> dlp_fields_for(PathOf(uri)),
                graphql |-> graphql_for(PathOf(uri))]}
  /\ UNCHANGED <<site, phase, todo, routes>>

Next == Merge \/ Validate \/ \E uri \in Uris, media \in Media : Request(uri, media)

Spec == Init /\ [][Next]_vars

-----------------------------------------------------------------------------
(***************************************************************************)
(* What is expected of the routes, from the file as it is written.         *)
(***************************************************************************)
Clear(uri) == \A k \in DOMAIN uri : uri[k][1] \notin {"bad", "byte"} /\ uri[k][2] <= Rounds

\* The path without its query and its escapes.
Plain(uri) ==
  LET marks == {k \in DOMAIN uri : uri[k] = <<"?", 0>>}
      last == IF marks = {} THEN Len(uri) ELSE Min(marks) - 1
  IN Segments([k \in 1..last |-> uri[k][1]])

\* The declarations of the file, in its order, as [prefix, patch, authz, l1].
Declared ==
  [k \in 1..Len(site.complete) |-> Complete(Plain(site.complete[k]))]
    \o [k \in 1..Len(site.entries) |->
          [site.entries[k] EXCEPT !.prefix = Plain(site.entries[k].prefix)]]

\* The one that decides: the longest prefix of the path, the last declared of those.
Decides(path, Sets(_)) ==
  LET rows == Declared
      able == {k \in DOMAIN rows : IsPrefix(rows[k].prefix, path) /\ Sets(rows[k])}
      After(k, j) == \/ Len(rows[k].prefix) > Len(rows[j].prefix)
                     \/ Len(rows[k].prefix) = Len(rows[j].prefix) /\ k >= j
  IN {rows[k] : k \in {k \in able : \A j \in able : After(k, j)}}

Expected(path, SetsIt(_), ValueOf(_), default) ==
  LET by == Decides(path, SetsIt) IN IF by = {} THEN default ELSE ValueOf(CHOOSE d \in by : TRUE)

\* The declarations in force at a prefix ask for a complete inspection.
Denies(prefix) ==
  \/ Expected(prefix, LAMBDA d : d.patch.require_complete # {},
              LAMBDA d : d.patch.require_complete = {TRUE}, FALSE)
  \/ Expected(prefix, LAMBDA d : d.patch.on_truncated # {},
              LAMBDA d : "deny" \in d.patch.on_truncated, FALSE)
  \/ Expected(prefix, LAMBDA d : d.patch.on_parse_error # {},
              LAMBDA d : "deny" \in d.patch.on_parse_error, FALSE)

\* No spelling of a path escapes its route.  A path that can be decoded is
\* inspected, authorized and excluded from L1 as the nearest declaration says; one
\* that cannot is inspected in full if any route asks for it, is authorized if any
\* route is, and is excluded by no route; and whatever the path, a request that may
\* be spooled is inspected in full.  (Backend::inspection_policy, authz_for, l1_for.)
RoutesHold ==
  \A a \in asked, f \in found :
    LET path == Plain(a.uri)
        excused == \E e \in site.exclusions :
                     /\ e.parameters = {} /\ (e.media # {} => a.media \cap e.media # {})
                     /\ \A p \in e.prefix : Clear(a.uri) /\ IsPrefix(p, path)
    IN /\ f.policy # {}
       /\ \A p \in f.policy : p.max_decoded_body # {} => p.require_complete
       /\ Clear(a.uri) =>
            /\ \A p \in f.policy :
                 /\ p.require_complete = Expected(path, LAMBDA d : d.patch.require_complete # {},
                                           LAMBDA d : d.patch.require_complete = {TRUE}, FALSE)
                 /\ p.max_decoded_body = Expected(path, LAMBDA d : d.patch.max_decoded_body # {},
                                           LAMBDA d : d.patch.max_decoded_body, {})
            /\ f.authz = Expected(path, LAMBDA d : d.authz # {}, LAMBDA d : d.authz, {})
            /\ \A l \in f.l1 :
                 l.skip = (excused \/ Expected(path, LAMBDA d : d.l1.exclude # {},
                                        LAMBDA d : d.l1.exclude = {TRUE}, site.l1.exclude))
       /\ ~Clear(a.uri) =>
            /\ (\E k \in DOMAIN Declared : Denies(Declared[k].prefix))
                 => f.policy = {FailClosedPolicy}
            /\ (\E k \in DOMAIN Declared : Declared[k].authz # {}) => f.authz # {}
            /\ \A l \in f.l1 : l.skip = (excused \/ site.l1.exclude)

\* The settings that a loaded file gives a request pass the checks of the load:
\* executing_paranoia is not below blocking_paranoia.  (L1Settings::validated.)
LoadedSettingsValid == \A f \in found : f.l1 # {}
=============================================================================
