------------------------------ MODULE Graphql -------------------------------
(***************************************************************************)
(* GraphqlPolicy::check of graphql.rs for one request: the body becomes a  *)
(* batch of operations, each is parsed, walked and held to the limits, and *)
(* the cost of all of them is what the quota is charged.                   *)
(*                                                                         *)
(* A query is a sequence of lexemes.  A lexeme is what the parser reads    *)
(* between two braces: a field with its alias, arguments and directives,   *)
(* a spread, the head of an inline fragment, of a fragment or of an        *)
(* operation; "bad" is any text the lexer or one of those heads rejects.   *)
(* The query is revealed to the parser lexeme by lexeme: Lexemes(q) are    *)
(* the ones that may follow the text q, and every query they make, of at   *)
(* most MaxLexemes, is parsed.  Word is the largest u64.                   *)
(***************************************************************************)
EXTENDS Integers, Sequences, SequencesExt, FiniteSetsExt

CONSTANTS Fragments,       \* the names fragments have
          Lexemes(_),      \* the lexemes that may follow a text
          Site, Route,     \* the limits of the site and of the route's overlay
          Production, ListArg, DefaultListSize, HardDepth, HardComplexity,
          HardOperations, Word, MaxLexemes, MaxBatch

\* An Option of the code is a set of at most one value.
Unset == {}

VARIABLES form,     \* the method, path and body of the request
          left,     \* the operations of the batch not parsed yet
          query,    \* the lexemes read of the current one
          nest,     \* the items of each selection set that is open
          want,     \* what the parser is reading: "def", "set", "item", "sub"
          head,     \* the fragment being defined, or "op"
          ops, frags,       \* where the selection sets of the document start
          frames, stack,    \* the walk: its calls, and the fragments on them
          stats, work,      \* what it counts; the sets it has entered
          totals,           \* operations and complexity over the batch
          verdict

vars == <<form, left, query, nest, want, head, ops, frags, frames, stack, stats,
          work, totals, verdict>>

parser == <<query, nest, want, head, ops, frags>>
walker == <<frames, stack, stats, work>>

-----------------------------------------------------------------------------
\* overlay_limits: a route's limit, where it sets one, replaces the site's.
\* The list size is "set" when it differs from the default.
overlay_limits(base, other) ==
  [key \in DOMAIN base |->
     IF other[key] # (IF key = "default_list_size" THEN {DefaultListSize} ELSE Unset)
     THEN other[key] ELSE base[key]]

Limits == overlay_limits(Site, Route)

Or(limit, default) == IF limit = Unset THEN default ELSE CHOOSE value \in limit : TRUE

Introspection == Or(Limits.introspection, ~Production)
PersistedOnly == Or(Limits.persisted_only, FALSE)
MaxOperations == Or(Limits.max_operations, HardOperations)
DepthCap == Min({Or(Limits.max_depth, HardDepth), HardDepth})
ComplexityCap == Min({Or(Limits.max_complexity, HardComplexity), HardComplexity})

Exceeds(n, limit) == \E max \in limit : n > max

-----------------------------------------------------------------------------
\* Lexemes.  list_multiplier: the largest of the list arguments, a variable
\* that is no integer counting as the default.
Multiplier == [plain |-> 1, alias |-> 1, schema |-> 1, list |-> ListArg,
               var |-> Or(Limits.default_list_size, DefaultListSize)]
Field == {"field"} \X DOMAIN Multiplier
Spread == {"spread"} \X Fragments
FragmentHead == {"fragment"} \X Fragments
Open == <<"{">>
Shut == <<"}">>
Inline == <<"inline">>
Operation == <<"operation">>
Lexeme == Field \cup Spread \cup FragmentHead
            \cup {Open, Shut, Inline, Operation, <<"bad">>}

\* What the request is.  extract_ops: a mime type that is neither GraphQL nor
\* JSON, a body that is no JSON and an object without an operation are refused
\* on a path the policy is dedicated to and left alone elsewhere.
Form == [post : BOOLEAN, path_ok : BOOLEAN, dedicated : BOOLEAN,
         body : {"other mime", "not utf8", "not json", "no operation",
                 "empty batch", "bad batch", "operations"}]

Failure(f) == [kind |-> "deny", why |-> f]
Skip == [kind |-> "skip", why |-> "none"]
Allow == [kind |-> "allow", why |-> "none"]
Pending == [kind |-> "pending", why |-> "none"]

Extract(f) ==
  CASE f.body = "operations" -> Pending
    [] f.body \in {"other mime", "not json", "no operation"} /\ ~f.dedicated -> Skip
    [] OTHER -> Failure("ParseError")

\* What an operation says of its persisted query, once its hash was compared.
Claim == {"none", "listed", "matches", "mismatch", "malformed", "only"}

ClaimFailure(claim) ==
  CASE claim \in {"mismatch", "malformed"} -> "persisted_query"
    [] claim = "only" -> IF PersistedOnly THEN "persisted_query" ELSE "ParseError"
    [] claim \in {"none", "matches"} /\ PersistedOnly -> "persisted_query"
    [] OTHER -> "ok"

NoStats == [depth |-> 0, complexity |-> 0, aliases |-> 0, introspection |-> FALSE]

Fresh == /\ query = <<>> /\ nest = <<>> /\ want = "def" /\ head = "op"
         /\ ops = <<>> /\ frags = <<>>
         /\ frames = <<>> /\ stack = <<>> /\ stats = NoStats /\ work = 0

Init == /\ form \in Form
        /\ left \in 1..MaxBatch
        /\ Fresh
        /\ totals = [operations |-> 0, complexity |-> 0]
        /\ verdict = Pending

Refuse(why) == verdict' = Failure(why)

-----------------------------------------------------------------------------
\* check and the head of evaluate.
Check ==
  /\ verdict = Pending
  /\ \/ /\ ~(form.post /\ form.path_ok) /\ verdict' = Skip
     \/ /\ form.post /\ form.path_ok /\ Extract(form) # Pending
        /\ verdict' = Extract(form)
     \/ /\ form.post /\ form.path_ok /\ Extract(form) = Pending
        /\ left > MaxOperations /\ Refuse("operations")
  /\ UNCHANGED <<form, left, parser, walker, totals>>

Admitted == /\ verdict = Pending /\ form.post /\ form.path_ok
            /\ Extract(form) = Pending /\ left <= MaxOperations

\* The hash an operation claims is settled before its query is parsed.
Claimed(claim) ==
  /\ Admitted /\ query = <<>> /\ ClaimFailure(claim) # "ok"
  /\ Refuse(ClaimFailure(claim))
  /\ UNCHANGED <<form, left, parser, walker, totals>>

-----------------------------------------------------------------------------
\* parse_document and the parse_ functions, one lexeme at a time.  nesting is
\* the number of selection sets that are open.
Read(x) == query' = Append(query, x)

Reading == Admitted /\ want # "walk" /\ Len(query) < MaxLexemes

ParseFail(why) == Refuse(why) /\ UNCHANGED <<form, left, parser, walker, totals>>

\* Which lexemes the grammar takes here; "sub" is right after a field, where a
\* brace opens its selection set.
Takes(x) ==
  CASE want = "def" -> x \in FragmentHead \cup {Open, Operation}
    [] want = "set" -> x = Open
    [] want = "item" -> \/ x \in Field \cup Spread \cup {Inline}
                        \/ x = Shut /\ Last(nest) > 0
    [] want = "sub" -> x \in Field \cup Spread \cup {Inline, Open, Shut}

Opens(x) == x = Open

\* The head of an operation, a fragment or an inline fragment wants a set.
ReadHead(x) ==
  /\ Reading /\ Takes(x) /\ x \in FragmentHead \cup {Operation, Inline}
  /\ Read(x) /\ want' = "set"
  /\ head' = IF x \in FragmentHead THEN x[2] ELSE head
  /\ nest' = IF x = Inline THEN [nest EXCEPT ![Len(nest)] = @ + 1] ELSE nest
  /\ UNCHANGED <<form, left, ops, frags, walker, totals, verdict>>

ReadItem(x) ==
  /\ Reading /\ Takes(x) /\ x \in Field \cup Spread
  /\ Read(x) /\ want' = IF x \in Field THEN "sub" ELSE "item"
  /\ nest' = [nest EXCEPT ![Len(nest)] = @ + 1]
  /\ UNCHANGED <<form, left, head, ops, frags, walker, totals, verdict>>

\* parse_selection_set looks at the nesting before it looks for the brace.
TooDeep(x) == Len(nest) >= HardDepth /\ (want = "set" \/ (want = "sub" /\ Opens(x)))

ReadOpen(x) ==
  /\ Reading /\ Takes(x) /\ Opens(x) /\ ~TooDeep(x)
  /\ Read(x) /\ want' = "item" /\ nest' = Append(nest, 0)
  /\ IF nest # <<>> THEN UNCHANGED <<ops, frags>>
     ELSE IF head = "op"
          THEN ops' = Append(ops, Len(query) + 1) /\ UNCHANGED frags
          ELSE frags' = Append(frags, <<head, Len(query) + 1>>) /\ UNCHANGED ops
  /\ UNCHANGED <<form, left, head, walker, totals, verdict>>

\* A fragment whose name is taken is found out when its set has been parsed.
Duplicate == \E i, j \in DOMAIN frags : i # j /\ frags[i][1] = frags[j][1]

ReadClose(x) ==
  /\ Reading /\ Takes(x) /\ x = Shut /\ ~(Len(nest) = 1 /\ Duplicate)
  /\ Read(x) /\ nest' = Front(nest)
  /\ want' = IF Len(nest) = 1 THEN "def" ELSE "item"
  /\ head' = IF Len(nest) = 1 THEN "op" ELSE head
  /\ UNCHANGED <<form, left, ops, frags, walker, totals, verdict>>

ReadWrong(x) ==
  /\ Reading
  /\ \/ TooDeep(x) /\ ParseFail("depth")
     \/ ~TooDeep(x) /\ ~Takes(x) /\ ParseFail("ParseError")
     \/ x = Shut /\ Takes(x) /\ Len(nest) = 1 /\ Duplicate /\ ParseFail("ParseError")

\* The end of the text, and the counts evaluate makes before it walks.
EndFailure ==
  CASE want = "set" /\ Len(nest) >= HardDepth -> "depth"
    [] want # "def" \/ query = <<>> -> "ParseError"
    [] totals.operations + Len(ops) > MaxOperations -> "operations"
    [] ops = <<>> -> "ParseError"
    [] Exceeds(Len(frags), Limits.max_fragments) -> "fragments"
    [] OTHER -> "ok"

EndOfQuery ==
  /\ Admitted /\ want # "walk"
  /\ IF EndFailure # "ok"
     THEN Refuse(EndFailure) /\ UNCHANGED <<want, totals>>
     ELSE /\ want' = "walk"
          /\ totals' = [totals EXCEPT !.operations = @ + Len(ops)]
          /\ UNCHANGED verdict
  /\ UNCHANGED <<form, left, query, nest, head, ops, frags, walker>>

-----------------------------------------------------------------------------
\* The walk over the syntax tree, which is the query with its braces: a set
\* starts after its opening brace and the items after it are past its closing
\* one.
Depth(q, k) == Cardinality({i \in 1..k : q[i] = Open}) - Cardinality({i \in 1..k : q[i] = Shut})
Close(q, open) == Min({k \in open..Len(q) : Depth(q, k) = Depth(q, open) - 1})

\* u64: saturating_add and saturating_mul.
\* mutant: the sums wrap around
Saturate_Wraps(n) == n % (Word + 1)
Saturate(n) == Min({n, Word})

Called(at, depth, kind, mult) ==
  [at |-> at, depth |-> depth, kind |-> kind, mult |-> mult, before |-> 0]

\* walk is called: the depth is looked at before anything else.
Enter(frame, counted) ==
  IF frame.depth > DepthCap
  THEN Refuse("depth") /\ UNCHANGED <<frames, stack, stats, work>>
  ELSE /\ frames' = Append([frames EXCEPT ![Len(frames)].at =
                              IF frame.kind = "spread" THEN @ + 1
                              ELSE Close(query, frame.at - 1) + 1],
                            [frame EXCEPT !.before = counted.complexity])
       /\ stats' = [counted EXCEPT !.depth = Max({@, frame.depth})]
       /\ work' = work + 1
       /\ UNCHANGED verdict

Walking == verdict = Pending /\ want = "walk"
Top == Last(frames)
Item == query[Top.at]

\* analyze_document walks the operations of the document in order.
WalkOperation ==
  /\ Walking /\ frames = <<>> /\ ops # <<>>
  /\ IF DepthCap < 1
     THEN Refuse("depth") /\ UNCHANGED <<frames, stats, work, ops>>
     ELSE /\ frames' = <<Called(Head(ops) + 1, 1, "op", 1)>>
          /\ stats' = [stats EXCEPT !.depth = Max({@, 1})]
          /\ work' = work + 1
          /\ ops' = Tail(ops)
          /\ UNCHANGED verdict
  /\ UNCHANGED <<form, left, query, nest, want, head, frags, stack, totals>>

\* Selection::Field.
Counted(f) ==
  [stats EXCEPT !.aliases = IF f[2] = "alias" THEN @ + 1 ELSE @,
                !.introspection = @ \/ f[2] = "schema",
                !.complexity = Saturate(@ + 1)]

\* mutant: the cost is left to the limits that follow the walk
OverCap_AtTheEnd(n) == FALSE
OverCap(n) == n > ComplexityCap

WalkField ==
  /\ Walking /\ frames # <<>> /\ Item \in Field
  /\ IF OverCap(Counted(Item).complexity)
     THEN Refuse("complexity") /\ UNCHANGED <<frames, stack, stats, work>>
     ELSE IF query[Top.at + 1] = Open
     THEN /\ Enter(Called(Top.at + 2, Top.depth + 1, "field", Multiplier[Item[2]]), Counted(Item))
          /\ UNCHANGED stack
     ELSE /\ frames' = [frames EXCEPT ![Len(frames)].at = @ + 1]
          /\ stats' = Counted(Item)
          /\ UNCHANGED <<stack, work, verdict>>
  /\ UNCHANGED <<form, left, parser, totals>>

\* Selection::Inline.
WalkInline ==
  /\ Walking /\ frames # <<>> /\ Item = Inline
  /\ Enter(Called(Top.at + 2, Top.depth, "inline", 1), stats)
  /\ UNCHANGED <<form, left, parser, stack, totals>>

\* Selection::Spread: a fragment that is being walked already is a cycle.
Body(name) == {frags[i][2] : i \in {i \in DOMAIN frags : frags[i][1] = name}}

InStack(name) == Contains(stack, name)

WalkSpread ==
  /\ Walking /\ frames # <<>> /\ Item \in Spread
  /\ IF InStack(Item[2])
     THEN Refuse("fragments") /\ UNCHANGED walker
     ELSE IF Body(Item[2]) = {}
     THEN Refuse("ParseError") /\ UNCHANGED walker
     ELSE \E open \in Body(Item[2]) :
            /\ Enter(Called(open + 1, Top.depth, "spread", 1), stats)
            /\ stack' = Append(stack, Item[2])
  /\ UNCHANGED <<form, left, parser, totals>>

\* walk returns: a field multiplies what its set has cost.
Multiplied ==
  LET child == stats.complexity - Top.before
  IN Saturate(stats.complexity + Saturate(child * (Top.mult - 1)))

\* The fragment is off the stack again when its walk has returned.
Popped(frame) == IF frame.kind = "spread" THEN Front(stack) ELSE stack

Return ==
  /\ Walking /\ frames # <<>> /\ Item = Shut
  /\ IF Top.mult > 1 /\ Multiplied > ComplexityCap
     THEN Refuse("complexity") /\ UNCHANGED walker
     ELSE /\ frames' = Front(frames)
          /\ stack' = Popped(Top)
          /\ stats' = [stats EXCEPT !.complexity = IF Top.mult > 1 THEN Multiplied ELSE @]
          /\ UNCHANGED <<work, verdict>>
  /\ UNCHANGED <<form, left, parser, totals>>

-----------------------------------------------------------------------------
\* evaluate holds the document to the limits the policy sets, then goes on to
\* the next operation of the batch, or to the quota.
LimitFailure ==
  CASE ~Introspection /\ stats.introspection -> "introspection"
    [] Exceeds(stats.depth, Limits.max_depth) -> "depth"
    [] Exceeds(stats.complexity, Limits.max_complexity) -> "complexity"
    [] Exceeds(stats.aliases, Limits.max_aliases) -> "aliases"
    [] OTHER -> "ok"

Judge ==
  /\ Walking /\ frames = <<>> /\ ops = <<>>
  /\ IF LimitFailure # "ok"
     THEN Refuse(LimitFailure) /\ UNCHANGED <<left, parser, walker, totals>>
     ELSE /\ totals' = [totals EXCEPT !.complexity =
                          Saturate(@ + Max({stats.complexity, 1}))]
          /\ left' = left - 1
          /\ IF left = 1
             THEN verdict' = Allow /\ UNCHANGED <<parser, walker>>
             ELSE /\ query' = <<>> /\ nest' = <<>> /\ want' = "def" /\ head' = "op"
                  /\ ops' = <<>> /\ frags' = <<>> /\ frames' = <<>> /\ stack' = <<>>
                  /\ stats' = NoStats /\ work' = 0
                  /\ UNCHANGED verdict
  /\ UNCHANGED form

Next == \/ Check \/ EndOfQuery \/ WalkOperation \/ WalkField \/ WalkInline
        \/ WalkSpread \/ Return \/ Judge
        \/ \E claim \in Claim : Claimed(claim)
        \/ \E x \in Lexemes(query) : \/ ReadHead(x) \/ ReadItem(x) \/ ReadOpen(x)
                                   \/ ReadClose(x) \/ ReadWrong(x)

Spec == Init /\ [][Next]_vars

-----------------------------------------------------------------------------
\* The reference: what the query asks for when every fragment is written out
\* where it is spread, as equations on the text.
Start(q, name) == Min({k \in 2..Len(q) : q[k] = Open /\ q[k - 1] = <<"fragment", name>>})
Defined(q) == {x[2] : x \in Range(q) \cap FragmentHead}

SpreadsIn(q, open) == {q[k][2] : k \in {k \in open..Close(q, open) : q[k] \in Spread}}
Operations(q) == {k \in 1..Len(q) :
                    /\ q[k] = Open /\ Depth(q, k) = 1
                    /\ k = 1 \/ q[k - 1] \notin FragmentHead}

RECURSIVE Reach(_, _)
Reach(q, names) ==
  LET more == names \cup UNION {SpreadsIn(q, Start(q, f)) : f \in names \cap Defined(q)}
  IN IF more = names THEN names ELSE Reach(q, more)

Spreads(q) == UNION {SpreadsIn(q, o) : o \in Operations(q)}
Used(q) == Reach(q, Spreads(q))
Cyclic(q) == \E f \in Used(q) \cap Defined(q) : f \in Reach(q, SpreadsIn(q, Start(q, f)))
Expandable(q) == Used(q) \subseteq Defined(q) /\ ~Cyclic(q)

\* The cost of the items from position k to the end of their set.
RECURSIVE Cost(_, _)
Cost(q, k) ==
  CASE q[k] = Shut -> 0
    [] q[k] \in Spread -> Cost(q, Start(q, q[k][2]) + 1) + Cost(q, k + 1)
    [] q[k] = Inline -> Cost(q, k + 2) + Cost(q, Close(q, k + 1) + 1)
    [] q[k] \in Field /\ q[k + 1] = Open ->
         1 + Max({Multiplier[q[k][2]], 1}) * Cost(q, k + 2) + Cost(q, Close(q, k + 1) + 1)
    [] OTHER -> 1 + Cost(q, k + 1)

RECURSIVE Height(_, _)
Height(q, k) ==
  CASE q[k] = Shut -> 1
    [] q[k] \in Spread -> Max({Height(q, Start(q, q[k][2]) + 1), Height(q, k + 1)})
    [] q[k] = Inline -> Max({Height(q, k + 2), Height(q, Close(q, k + 1) + 1)})
    [] q[k] \in Field /\ q[k + 1] = Open ->
         Max({1 + Height(q, k + 2), Height(q, Close(q, k + 1) + 1)})
    [] OTHER -> Height(q, k + 1)

TotalCost(q) == MapThenSumSet(LAMBDA o : Cost(q, o + 1), Operations(q))
TotalHeight(q) == Max({Height(q, o + 1) : o \in Operations(q)})

\* The limits are exact on what the query asks for once its fragments are
\* written out (README.md:166, docs/origin-gateway.md:1043): a query that is
\* allowed has no cycle and costs and nests what was counted, within the caps;
\* one that is refused by the walk for its cost, its depth or its fragments
\* really is over, or cannot be written out.
LimitsExact ==
  want = "walk" =>
    /\ verdict = Allow => /\ Expandable(query)
                          /\ stats.complexity = TotalCost(query)
                          /\ stats.complexity <= ComplexityCap
                          /\ stats.depth = TotalHeight(query)
                          /\ stats.depth <= DepthCap
    /\ verdict.kind = "deny" /\ Expandable(query) =>
         /\ verdict.why = "complexity" => TotalCost(query) > ComplexityCap
         /\ verdict.why = "depth" => TotalHeight(query) > DepthCap
         /\ verdict.why \notin {"fragments", "ParseError"}

\* The work of a query is bounded by the complexity cap and its text, never by
\* what it expands to: between two fields that are counted the walk enters each
\* fragment and each inline fragment at most once, and the field over the cap
\* ends it (graphql.rs:679), however often fragments that spread each other
\* double what the text asks for.
WorkBounded ==
  work <= (ComplexityCap + 1)
            * (1 + Len(frags) + Cardinality({k \in DOMAIN query : query[k] = Inline}))

\* Fragments that spread each other make the walk of graphql.rs neither wrong nor
\* long: a verdict still tells what the expanded query would cost, and the work to
\* reach it does not grow with the expansion.
WalkHeld == LimitsExact /\ WorkBounded
=============================================================================
