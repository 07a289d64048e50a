------------------------------ MODULE MCSites -------------------------------
(* Sites and request targets for RoutePolicy. *)
EXTENDS Naturals, Sequences

-----------------------------------------------------------------------------
\* Paths as they are spelled: in the clear, escaped once or more, or not a path.
At(depth, characters) == [k \in DOMAIN characters |-> <<characters[k], depth>>]
Clearly(characters) == At(0, characters)
RootPath == Clearly(<<"/">>)
PathA == Clearly(<<"/", "a">>)
PathAB == Clearly(<<"/", "a", "/", "b">>)

SpelledUris ==
  {RootPath, PathA, PathAB, Clearly(<<"/", "a", "b">>), Clearly(<<"/", "a", "\\", "b">>),
   Clearly(<<"/", "/", "a", "/", ".", "/", "b", "/">>),
   Clearly(<<"/", "a", "?", "/", ".", ".">>), PathA \o At(1, <<"?">>),
   PathA \o At(1, <<"/", "b">>), PathA \o At(2, <<"/", "b">>), PathA \o At(3, <<"/", "b">>),
   PathAB \o At(1, <<"/", ".">>) \o At(2, <<".">>), PathAB \o At(3, <<"/", ".", ".">>),
   PathA \o At(0, <<"bad">>), PathA \o At(2, <<"bad">>), PathA \o At(1, <<"byte">>)}

-----------------------------------------------------------------------------
Unset4 == [require_complete |-> {}, on_truncated |-> {}, on_parse_error |-> {},
           max_decoded_body |-> {}]
Plainly == [blocking |-> {}, executing |-> {}, exclude |-> {}, exclusions |-> FALSE]
Entry(prefix, patch) ==
  [prefix |-> prefix, patch |-> patch, l1 |-> Plainly, graphql |-> <<>>, fields |-> <<>>,
   authz |-> {}]
Settings(prefix, l1) == [Entry(prefix, Unset4) EXCEPT !.l1 = l1]
Callback(prefix, name) ==
  [Entry(prefix, Unset4) EXCEPT !.authz = {name}, !.fields = <<name>>, !.graphql = <<name>>]

Patches ==
  {[Unset4 EXCEPT !.require_complete = {FALSE}],
   [Unset4 EXCEPT !.max_decoded_body = {2}],
   [Unset4 EXCEPT !.require_complete = {TRUE}, !.max_decoded_body = {1}],
   [Unset4 EXCEPT !.on_parse_error = {"deny"}],
   [Unset4 EXCEPT !.on_truncated = {"monitor"}, !.on_parse_error = {"monitor"}]}

SomeEntries ==
  {Entry(prefix, patch) : prefix \in {RootPath, PathA, PathA \o At(1, <<"/">>) \o At(2, <<"b">>)},
                          patch \in Patches}
    \cup {Callback(PathA, "x"), Callback(PathA \o Clearly(<<"/">>), "y"), Callback(PathAB, "z"),
          Settings(PathA, [Plainly EXCEPT !.exclude = {TRUE}]),
          Settings(PathAB, [Plainly EXCEPT !.exclude = {FALSE}]),
          Settings(PathA, [Plainly EXCEPT !.blocking = {3}]),
          Settings(PathAB, [Plainly EXCEPT !.executing = {2}]),
          Settings(PathA, [Plainly EXCEPT !.blocking = {2}, !.executing = {1}]),
          Settings(PathA, [Plainly EXCEPT !.exclusions = TRUE]),
          Entry(PathA, [Unset4 EXCEPT !.on_truncated = {"junk"}]),
          Entry(Clearly(<<"a">>), Unset4), Entry(PathA \o At(0, <<"bad">>), Unset4)}

\* The site leaves the engine out under /a/b for forms, and skips one parameter.
Excluded == {[prefix |-> {<<<<"a">>, <<"b">>>>}, media |-> {"form"}, parameters |-> {}],
             [prefix |-> {}, media |-> {"form"}, parameters |-> {"q"}]}

NoSite ==
  [complete |-> <<>>, entries |-> <<>>, jwt |-> TRUE,
   l1 |-> [blocking |-> 1, executing |-> 1, exclude |-> FALSE], exclusions |-> Excluded,
   fields |-> <<"s">>, graphql |-> <<>>]
SomeSites ==
  [complete : {<<>>, <<PathA>>, <<PathAB \o Clearly(<<"/">>), RootPath>>},
   entries : UNION {[1..n -> SomeEntries] : n \in 0..2}, jwt : {TRUE},
   l1 : {[blocking |-> 1, executing |-> 1, exclude |-> FALSE]}, exclusions : {Excluded},
   fields : {<<"s">>}, graphql : {<<>>}]
    \cup [complete : {<<Clearly(<<"a">>)>>, <<PathA>>}, entries : {<<Callback(PathA, "x")>>},
          jwt : {FALSE}, l1 : {[blocking |-> 1, executing |-> 1, exclude |-> TRUE]},
          exclusions : {{}}, fields : {<<>>}, graphql : {<<>>}]
=============================================================================
