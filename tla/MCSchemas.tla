----------------------------- MODULE MCSchemas ------------------------------
(* Documents, values and requests for OpenApi. *)
EXTENDS Schemas

\* JSON values: flat objects, and objects in an object.
Text == [t |-> "string"]
Object(f) == [t |-> "object", f |-> f]
Values == {Object([n \in names |-> Text]) : names \in SUBSET {"a", "b", "c"}}
            \cup {Object([a |-> Object([n \in {name} |-> Text])]) : name \in {"a", "b", "c"}}
            \cup {Null, Text, NotJson, [t |-> "array", e |-> <<Text, Null>>]}

\* S composes T and U in every way a schema can; T may refer to S again.
Leaf == [Empty EXCEPT !.type = {"string"}]
PropSets == {{}, {<<"a", "L">>}}
SchemaT == {[Empty EXCEPT !.type = {"object"}, !.props = p, !.addl = x] :
              p \in PropSets \cup {{<<"a", "S">>}}, x \in {"absent", "true", "false", "L"}}
             \cup {[Empty EXCEPT !.props = p, !.required = {"a"}] : p \in PropSets}
SchemaU == {[Empty EXCEPT !.props = p] : p \in {{}, {<<"b", "L">>}}}
             \cup {[Empty EXCEPT !.nullable = TRUE, !.type = {"object"}],
                   [Empty EXCEPT !.enum = {Text, Null}]}
Compose == {Empty, [Empty EXCEPT !.ref = {"T"}], [Empty EXCEPT !.allOf = {"T"}],
            [Empty EXCEPT !.allOf = {"T", "U"}], [Empty EXCEPT !.anyOf = {"T", "U"}],
            [Empty EXCEPT !.oneOf = {"T", "U"}], [Empty EXCEPT !.items = {"L"}]}
SchemaS == {[k EXCEPT !.type = y, !.props = p, !.addl = x] :
              k \in Compose, y \in {{}, {"object", "null"}}, p \in {{}, {<<"a", "L">>}},
              x \in {"absent", "false"}}
             \cup {[k EXCEPT !.addl = "L"] : k \in Compose}
Tables == [S : SchemaS, T : SchemaT, U : SchemaU, L : {Leaf}]
\* S by itself: an object that may hold another of its kind, without end.
OneTable == [id \in {"S", "T", "U", "L"} |->
               IF id = "S" THEN [Empty EXCEPT !.type = {"object"}, !.props = {<<"a", "T">>}]
               ELSE IF id = "T" THEN [Empty EXCEPT !.ref = {"S"}] ELSE Leaf]

\* Three paths, of which two match /users/1.
Lit(name) == [literal |-> TRUE, name |-> name]
Par(name) == [literal |-> FALSE, name |-> name]
Op(params, body) == [params |-> params, body |-> body]
JsonBody == [required |-> TRUE, media |-> {"application/json", "text/plain"}, schema |-> "S"]
AnyBody == [required |-> FALSE, media |-> {"*/*"}, schema |-> "S"]
Id == [in |-> "path", name |-> "id", required |-> FALSE, types |-> {"integer"}, items |-> {}]
Tags == [in |-> "query", name |-> "tags", required |-> FALSE, types |-> {"array"},
         items |-> {"boolean", "integer"}]
Tok == [in |-> "header", name |-> "tok", required |-> TRUE, types |-> {"boolean", "number"},
        items |-> {}]
Api(unknown) ==
  [prefixes |-> {<<>>, <<"v1">>}, unknown |-> unknown, paths |->
     <<[segments |-> <<Par("kind"), Par("id")>>, methods |-> [get |-> Op({Tok}, {})]],
       [segments |-> <<Lit("users"), Par("id")>>,
        methods |-> [get |-> Op({Id}, {}), post |-> Op({Tags}, {AnyBody})]],
       [segments |-> <<Lit("users")>>, methods |-> [post |-> Op({}, {JsonBody})]]>>]
Unset == Api("unset")
Apis == {Api(unknown) : unknown \in {"unset", "observe", "deny"}}

\* Objects in objects, one of them deeper than the schema is followed, and one
\* with a field too many in its middle.
NestedValues ==
  LET In(v) == Object([a |-> v])
      None == Object([n \in {} |-> Null])
  IN {In(None), In(In(In(None))), In(Object([a |-> None, b |-> Text]))}

BodyRequests ==
  [method : {"post"}, path : {<<"users">>}, values : {[id |-> {}, tags |-> {}, tok |-> {}]},
   ctype : {{"application/json"}}, body : {{v} : v \in Values}, require_complete : {TRUE}]
PathRequests ==
  [method : {"get", "post"},
   path : {<<"users", "1">>, <<"v1", "users">>, <<"v1", "users", "1">>, <<"x", "y">>, <<"x">>},
   values : [id : {{raw} : raw \in {"integer", "number", "boolean", "text"}},
             tags : {{}, {"text"}, {"boolean", "integer"}},
             tok : {{}, {"integer"}, {"boolean"}}],
   ctype : {{}, {"application/json"}, {"image/png"}},
   body : {{}, {NotJson}} \cup {{v} : v \in NestedValues},
   require_complete : BOOLEAN]
=============================================================================
