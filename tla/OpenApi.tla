------------------------------ MODULE OpenApi -------------------------------
(***************************************************************************)
(* openapi.rs: a request against the OpenAPI document of its site.  The    *)
(* document is compiled when the configuration is loaded; a request is     *)
(* matched to an operation, its envelope (path, query, header and cookie   *)
(* parameters, content type) is validated, and then its JSON body.         *)
(*                                                                         *)
(* A document is a table of schema nodes: a child of a schema and the      *)
(* target of a $ref are entries of it, so that schemas can be recursive.   *)
(* JSON values are tagged with their type.  A parameter is a text, tagged  *)
(* with the narrowest type it parses as.                                   *)
(***************************************************************************)
EXTENDS Integers, Sequences, FiniteSets, Functions, Schemas

CONSTANTS Docs, Specs, Requests,
          MaxSchemaDepth   \* MAX_SCHEMA_DEPTH and MAX_REF_DEPTH

VARIABLES doc,      \* the schema table
          spec,     \* prefixes and paths, in the order of the document
          request,
          matched,  \* MatchedOp: the operation found, if any
          verdict

vars == <<doc, spec, request, matched, verdict>>

Init == /\ doc \in Docs
        /\ spec \in Specs
        /\ request \in Requests
        /\ matched = {}
        /\ verdict = "pending"

-----------------------------------------------------------------------------
\* Schemas.  props is a set of <<name, node>>; addl, the additionalProperties,
\* is "absent", "true", "false" or the name of a node.
Declares(node, name) == \E p \in node.props : p[1] = name
PropOf(node, name) == (CHOOSE p \in node.props : p[1] = name)[2]

\* The schemas a schema is composed of, but for its union branches.
Composed(d, node) == (node.ref \cup node.allOf) \cap DOMAIN d

\* collect_property_names and composition_allows_additional.
RECURSIVE collect_property_names(_, _, _), composition_allows_additional(_, _, _)
collect_property_names(d, node, depth) ==
  IF depth = 0 THEN {}
  ELSE {p[1] : p \in node.props}
         \cup UNION {collect_property_names(d, d[sub], depth - 1) : sub \in Composed(d, node)}

composition_allows_additional(d, node, depth) ==
  /\ depth > 0
  /\ \/ node.addl = "true"
     \/ \E sub \in Composed(d, node) : composition_allows_additional(d, d[sub], depth - 1)

RECURSIVE schema_ok(_, _, _, _, _)

\* check_array: the items are strict again.
check_array(d, node, v, depth) ==
  /\ v.t = "array"
  /\ \A item \in node.items : \A i \in DOMAIN v.e :
       schema_ok(d, d[item], v.e[i], depth - 1, TRUE)

\* check_object: a property that is not declared is held to
\* additionalProperties; without it, it is refused where the schema is strict.
check_object(d, node, v, depth, strict) ==
  /\ v.t = "object"
  /\ node.required \subseteq DOMAIN v.f
  /\ \A name \in DOMAIN v.f :
       CASE Declares(node, name) ->
              schema_ok(d, d[PropOf(node, name)], v.f[name], depth - 1, TRUE)
         [] ~Declares(node, name) /\ node.addl = "absent" -> ~strict
         [] ~Declares(node, name) /\ node.addl \in {"true", "false"} -> node.addl = "true"
         [] OTHER -> schema_ok(d, d[node.addl], v.f[name], depth - 1, TRUE)

check_type(d, node, type, v, depth, strict) ==
  CASE type = "object" -> check_object(d, node, v, depth, strict)
    [] type = "array" -> check_array(d, node, v, depth)
    [] type = "number" -> v.t \in {"integer", "number"}
    [] OTHER -> v.t = type

\* deny_undeclared: the properties of a composition are those of all its parts.
deny_undeclared(d, node, v, depth, strict) ==
  \/ v.t # "object"
  \/ composition_allows_additional(d, node, depth)
  \/ ~strict /\ node.addl # "false"
  \/ \A name \in DOMAIN v.f \ collect_property_names(d, node, depth) :
       /\ node.addl \notin {"absent", "false"}
       /\ schema_ok(d, d[node.addl], v.f[name], depth - 1, TRUE)

\* A schema without a type is an object's when it has an object's keywords.
Types(node) ==
  IF node.type # {} THEN node.type
  ELSE IF node.props # {} \/ node.addl # "absent" \/ node.required # {} THEN {"object"}
  ELSE IF node.items # {} THEN {"array"}
  ELSE {}

NullOk(node) == \/ node.nullable
                \/ "null" \in node.type
                \/ node.type = {} /\ node.enum = {} /\ node.props = {}

\* Whether a subschema holds is asked without strictness; the composition is
\* closed, where it is, by deny_undeclared.
Holds(d, subs, v, depth) == {sub \in subs : schema_ok(d, d[sub], v, depth - 1, FALSE)}

\* mutant: a branch that holds is enough
OneHolds_OrMore(d, subs, v, depth) == Holds(d, subs, v, depth) # {}
OneHolds(d, subs, v, depth) == Cardinality(Holds(d, subs, v, depth)) = 1

Keywords(d, node, v, depth, strict) ==
  /\ node.enum = {} \/ v \in node.enum
  /\ \/ v = Null /\ NullOk(node)
     \/ /\ v = Null => ~NullOk(node) /\ node.type = {}
        /\ node.allOf # {} => /\ Holds(d, node.allOf, v, depth) = node.allOf
                              /\ deny_undeclared(d, node, v, depth, strict)
        /\ node.anyOf # {} => Holds(d, node.anyOf, v, depth) # {}
        /\ node.oneOf # {} => OneHolds(d, node.oneOf, v, depth)
        /\ Types(node) # {} =>
             \E type \in Types(node) :
               check_type(d, node, type, v, depth, strict /\ node.allOf = {})

schema_ok(d, node, v, depth, strict) ==
  /\ depth > 0
  /\ IF node.ref = {} THEN Keywords(d, node, v, depth, strict)
     ELSE /\ node.ref \subseteq DOMAIN d
          /\ LET target == d[CHOOSE id \in node.ref : TRUE]
                 rest == [node EXCEPT !.ref = {}]
             IN IF rest = Empty THEN schema_ok(d, target, v, depth - 1, strict)
                ELSE /\ schema_ok(d, target, v, depth - 1, FALSE)
                     /\ schema_ok(d, rest, v, depth - 1, FALSE)
                     /\ deny_undeclared(d, node, v, depth, strict)

\* freeze: a schema that is only a $ref is replaced when the document is
\* compiled.  (A chain of such references that comes back to itself is followed
\* for ever; a target that is not there is refused.  Docs holds neither.)
RECURSIVE freeze(_, _)
freeze(d, id) ==
  IF d[id].ref # {} /\ [d[id] EXCEPT !.ref = {}] = Empty
  THEN freeze(d, CHOOSE target \in d[id].ref : TRUE) ELSE d[id]

-----------------------------------------------------------------------------
\* validate_stringy: the first of integer, number and boolean that the schema
\* names decides, unless the schema takes any text.
Rank == [integer |-> 1, number |-> 2, boolean |-> 3]

Parses(raw) == CASE raw = "integer" -> {"integer", "number"}
                 [] raw \in {"number", "boolean"} -> {raw}
                 [] OTHER -> {}

validate_stringy(types, raw) ==
  \/ types = {} \/ "string" \in types
  \/ \E type \in types \cap Parses(raw) :
       \A other \in types \cap DOMAIN Rank : Rank[type] <= Rank[other]

\* validate_query_values: the values of an array are coerced one by one to a
\* type that takes them.
coerce_item(types, raw) == types = {} \/ "string" \in types \/ types \cap Parses(raw) # {}

\* The values of a parameter.  One in the path is required whatever the
\* document says (compile_op); only queries and headers are read as arrays.
ParamOk(param, values) ==
  /\ param.required \/ param.in = "path" => values # {}
  /\ \A raw \in values :
       IF "array" \in param.types /\ param.in \in {"query", "header"}
       THEN coerce_item(param.items, raw) ELSE validate_stringy(param.types, raw)

-----------------------------------------------------------------------------
\* compile sorts the paths by their literals, then by their length; paths that
\* tie keep their order.
LiteralCount(segments) == Cardinality({i \in DOMAIN segments : segments[i].literal})

Before(i, j) ==
  LET a == spec.paths[i].segments
      b == spec.paths[j].segments
  IN \/ LiteralCount(a) > LiteralCount(b)
     \/ LiteralCount(a) = LiteralCount(b) /\ Len(a) > Len(b)
     \/ LiteralCount(a) = LiteralCount(b) /\ Len(a) = Len(b) /\ i < j

\* strip_prefix and match_segments.
Stripped(path, prefix) == SubSeq(path, Len(prefix) + 1, Len(path))
HasPrefix(path, prefix) == Len(prefix) <= Len(path) /\ SubSeq(path, 1, Len(prefix)) = prefix

MatchSegments(segments, path) ==
  /\ Len(segments) = Len(path)
  /\ \A i \in DOMAIN path : segments[i].literal => segments[i].name = path[i]

\* match_path: the prefixes are tried from the longest, the paths in the
\* compiled order; a path that has not the method is passed over.
Candidates(path) ==
  {c \in spec.prefixes \X DOMAIN spec.paths :
     /\ HasPrefix(path, c[1])
     /\ MatchSegments(spec.paths[c[2]].segments, Stripped(path, c[1]))}

Sooner(c, e) == \/ Len(c[1]) > Len(e[1])
                \/ Len(c[1]) = Len(e[1]) /\ (c[2] = e[2] \/ Before(c[2], e[2]))

match_path(path, method) ==
  LET having == {c \in Candidates(path) : method \in DOMAIN spec.paths[c[2]].methods}
  IN {c \in having : \A e \in having : Sooner(c, e)}

\* unknown_action: deny where the route must be inspected in full, unless the
\* configuration says otherwise.
UnknownVerdict ==
  IF spec.unknown = "deny" \/ (spec.unknown = "unset" /\ request.require_complete)
  THEN "deny" ELSE "observe"

MediaMatches(pattern, ctype) == pattern = "*/*" \/ pattern = ctype

EnvelopeOk(op) ==
  /\ \A param \in op.params : ParamOk(param, request.values[param.name])
  /\ \A body \in op.body : \A ctype \in request.ctype :
       \E m \in body.media : MediaMatches(m, ctype)

Envelope ==
  /\ verdict = "pending" /\ matched = {}
  /\ LET found == match_path(request.path, request.method)
     IN \/ /\ found = {}
           /\ verdict' = IF Candidates(request.path) # {} THEN "deny"
                         ELSE UnknownVerdict
           /\ UNCHANGED matched
        \/ \E c \in found :
             LET op == spec.paths[c[2]].methods[request.method]
             IN IF EnvelopeOk(op) THEN matched' = {op} /\ UNCHANGED verdict
                ELSE verdict' = "deny" /\ UNCHANGED matched
  /\ UNCHANGED <<doc, spec, request>>

\* validate_body: an empty body passes unless it is required; a body of
\* another media type than JSON is not looked into.
BodyOk(body) ==
  IF request.body = {} THEN ~body.required
  ELSE /\ request.ctype # {}
       /\ \A ctype \in request.ctype :
            /\ \E m \in body.media : MediaMatches(m, ctype)
            /\ "application/json" \in {ctype} \cup {m \in body.media : MediaMatches(m, ctype)} =>
                 \A v \in request.body :
                   /\ v # NotJson
                   /\ schema_ok(doc, freeze(doc, body.schema), v, MaxSchemaDepth, TRUE)

Body == /\ verdict = "pending" /\ matched # {}
        /\ \E op \in matched :
             verdict' = IF \A body \in op.body : BodyOk(body) THEN "allow" ELSE "deny"
        /\ UNCHANGED <<doc, spec, request, matched>>

Next == Envelope \/ Body

Spec == Init /\ [][Next]_vars

-----------------------------------------------------------------------------
\* The reference: what a schema says of a value, without a depth and without
\* strictness.  Valid is JSON Schema's meaning of the keywords, but for what
\* openapi.rs adds to it: a schema without a type that has an object's or an
\* array's keywords wants that type, a null passes where NullOk says so before
\* what the schema is composed of is looked at (openapi.rs:1078), and a value
\* inside another one has no field its schema does not know.
RefOnly(node) == node.ref # {} /\ [node EXCEPT !.ref = {}] = Empty

\* The nodes a schema is composed of, itself included, without its unions.
RECURSIVE Parts(_, _)
Parts(d, node) == {node} \cup UNION {Parts(d, d[id]) : id \in Composed(d, node)}

\* An object has the fields its schema declares: those of all the parts of a
\* composition, unless a part allows more or the schema itself describes them.
RECURSIVE Closed(_, _, _)
Closed(d, node, v) ==
  v.t = "object" =>
    IF RefOnly(node) THEN \A id \in node.ref : Closed(d, d[id], v)
    ELSE \/ node.addl \notin {"absent", "false"}
         \/ Composed(d, node) = {} /\ "object" \notin Types(node)
         \/ \E part \in Parts(d, node) : part.addl = "true"
         \/ \A name \in DOMAIN v.f : \E part \in Parts(d, node) : Declares(part, name)

RECURSIVE Valid(_, _, _)
Valid(d, node, v) ==
  LET Same(id) == Valid(d, d[id], v)
      Inside(id, w) == Valid(d, d[id], w) /\ Closed(d, d[id], w)
      Additional == {name \in DOMAIN v.f : ~Declares(node, name)}
  IN /\ \A id \in node.ref : Same(id)
     /\ node.enum # {} => v \in node.enum
     /\ \/ v = Null /\ NullOk(node)
        \/ /\ \A id \in node.allOf : Same(id)
           /\ node.anyOf # {} => \E id \in node.anyOf : Same(id)
           /\ node.oneOf # {} => \E id \in node.oneOf : {o \in node.oneOf : Same(o)} = {id}
           /\ Types(node) # {} => \E type \in Types(node) :
                v.t = type \/ (type = "number" /\ v.t = "integer")
           /\ v.t = "object" =>
                /\ node.required \subseteq DOMAIN v.f
                /\ \A p \in node.props : p[1] \in DOMAIN v.f => Inside(p[2], v.f[p[1]])
                /\ node.addl = "false" => Additional = {}
                /\ node.addl \in DOMAIN d => \A name \in Additional : Inside(node.addl, v.f[name])
           /\ v.t = "array" => \A id \in node.items, i \in DOMAIN v.e : Inside(id, v.e[i])

Conforms(id, v) == v # NotJson /\ Valid(doc, doc[id], v) /\ Closed(doc, doc[id], v)

\* The JSON bodies of a verdict, each with the schema it was held to.
Judged(v) == {x \in {b.schema : b \in UNION {op.body : op \in matched}} \X request.body :
                verdict = v /\ request.ctype = {"application/json"}}
JsonPassed == Judged("allow")

\* A JSON body that is let through conforms to its operation's schema: every
\* keyword holds, oneOf of exactly one branch, and no object in it has a field
\* that no part of its schema knows, however the schema is put together from
\* references, siblings of references, allOf, unions and recursion.
BodySound == \A x \in JsonPassed : Conforms(x[1], x[2])

\* And a body that conforms is let through, where the depth is enough for it.
BodyComplete == \A x \in Judged("deny") : ~Conforms(x[1], x[2])

\* The templates of the document that fit a path under one of its prefixes.
Fits(path) ==
  {c \in spec.prefixes \X DOMAIN spec.paths :
     /\ path = c[1] \o Stripped(path, c[1])
     /\ Len(path) = Len(c[1]) + Len(spec.paths[c[2]].segments)
     /\ \A i \in DOMAIN spec.paths[c[2]].segments :
          LET segment == spec.paths[c[2]].segments[i]
          IN segment.literal => segment.name = path[Len(c[1]) + i]}

\* The templates that fit and have the method, the most specific ones: under the
\* longest prefix, with the most segments spelled out.
Specific ==
  LET having == {c \in Fits(request.path) : request.method \in DOMAIN spec.paths[c[2]].methods}
      longest == {c \in having : \A e \in having : Len(c[1]) >= Len(e[1])}
  IN {c \in longest : \A e \in longest :
        LiteralCount(spec.paths[c[2]].segments) >= LiteralCount(spec.paths[e[2]].segments)}

\* A value of a parameter is of one of the types its schema names.
Admits(types, raw) == types = {} \/ types \cap (Parses(raw) \cup {"string"}) # {}

\* What the envelope lets through: a request is held to the operation of the most
\* specific template that fits and has its method, whatever the order of the
\* document; every parameter the operation or the path requires is there, and of
\* one of its types; a body that is required is there and of a media type that is
\* declared.  Only a path that no template fits is unknown: a method a known path
\* has not is refused and never merely observed.
EnvelopeSound ==
  /\ verdict = "observe" => Fits(request.path) = {}
  /\ \A op \in matched :
       /\ \E c \in Specific : op = spec.paths[c[2]].methods[request.method]
       /\ \A param \in op.params :
            LET types == IF param.in \in {"query", "header"} /\ "array" \in param.types
                         THEN param.items ELSE param.types
            IN /\ param.required \/ param.in = "path" => request.values[param.name] # {}
               /\ \A raw \in request.values[param.name] : Admits(types, raw)
       /\ verdict = "allow" => \A body \in op.body :
            /\ body.required => request.body # {}
            /\ request.body # {} => request.ctype # {} /\ request.ctype \subseteq
                 (body.media \cup (IF "*/*" \in body.media THEN request.ctype ELSE {}))

\* What a request that is let through satisfies: its envelope, and the schema its
\* JSON body is held to.
BodyContract == EnvelopeSound /\ BodySound

\* openapi.rs:3 for every document: "Extra JSON object fields are denied unless
\* the spec sets `additionalProperties: true`".  A field that no schema of the
\* document declares does not pass in a document that opens none.
ExtrasDenied ==
  \A x \in JsonPassed :
    /\ x[2].t = "object"
    /\ \E id \in DOMAIN doc : doc[id].props # {}
    /\ doc[x[1]] # Empty
    /\ \A id \in DOMAIN doc : doc[id].addl \in {"absent", "false"}
    => \A name \in DOMAIN x[2].f : \E id \in DOMAIN doc : Declares(doc[id], name)
=============================================================================
