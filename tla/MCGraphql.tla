------------------------------ MODULE MCGraphql ------------------------------
(***************************************************************************)
(* An instance of Graphql for TLC whose fragments spread each other: a     *)
(* query is one of two shapes, with any item in each place, up to the one  *)
(* that doubles three times, {A A} A{B B} B{C C} C{f}.                     *)
(***************************************************************************)
EXTENDS Graphql

NoLimits == [key \in {"max_depth", "max_complexity", "max_aliases", "max_fragments",
                      "max_operations", "introspection", "persisted_only"} |-> {}]
SiteLimits == [key \in DOMAIN NoLimits \cup {"default_list_size"} |->
                 CASE key = "max_complexity" -> {2}
                   [] key = "default_list_size" -> {2}
                   [] OTHER -> NoLimits[key]]
RouteLimits == [SiteLimits EXCEPT !.max_complexity = {}]

Plain == <<"field", "plain">>
Items == Spread \cup {Plain}
Braced(places) == <<{Open}>> \o places \o <<{Shut}>>
Definition(name, places) == <<{<<"fragment", name>>}>> \o Braced(places)

Chain == Braced(<<Items, Items>>) \o Definition("A", <<Items, Items>>)
           \o Definition("B", <<Items, Items>>) \o Definition("C", <<Items>>)
Nested == Braced(<<Items, Items>>)
            \o Definition("A", <<{Inline}>> \o Braced(<<Items, Items>>))
            \o Definition("B", <<Items, {Plain}>>)

Follows(q, shape) == Len(q) < Len(shape) /\ \A k \in DOMAIN q : q[k] \in shape[k]
ShapedLexemes(q) == UNION {shape[Len(q) + 1] : shape \in {s \in {Chain, Nested} : Follows(q, s)}}
=============================================================================
