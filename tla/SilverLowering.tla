---------------------------- MODULE SilverLowering ----------------------------
(***************************************************************************)
(* The passes from the contract as it is written to the one code is        *)
(* generated for: calls of its own functions are replaced by their bodies  *)
(* (inline_functions.rs), appends become sums (array_append.rs), loops are *)
(* unrolled (for.rs), and locals used once are replaced by their values    *)
(* (locals.rs).  A pass counts the names it made; the checks of the types  *)
(* (static_check.rs) and the flattening of structs come before and are     *)
(* left out: a contract here has passed them.                              *)
(***************************************************************************)
EXTENDS SilverAst
LOCAL INSTANCE SequencesExt

Fresh(prefix, n, base) == prefix \o ToString(n) \o "_" \o base
Inlined(n, base) == Fresh("__inline_", n, base)
Unrolled(n, base) == Fresh("__for_", n, base)
\* A pass under way over statements: the names made so far and whether it went on.
Pass(scope, n) == [code |-> <<>>, scope |-> scope, n |-> n, ok |-> TRUE]
Emitted(p, statements) == [p EXCEPT !.code = @ \o statements]

-----------------------------------------------------------------------------
(* Functions into their callers.  A scope maps the names of the source to  *)
(* the names of the result; the context has the functions and the calls    *)
(* under way.  An expression comes back with the statements to run before  *)
(* the statement it is part of.                                            *)

Rename(x, scope) == IF x \in DOMAIN scope THEN scope[x] ELSE x
Callable(f, context) == \E i \in DOMAIN context.functions : context.functions[i].name = f /\ ~context.functions[i].entry
Callee(f, context) == context.functions[CHOOSE i \in DOMAIN context.functions : context.functions[i].name = f]
Bindings(types, names) == [i \in DOMAIN names |-> Param(types[i], names[i])]
FreshNames(names, n) == [i \in DOMAIN names |-> Inlined(n + i - 1, names[i])]
BindAll(scope, names, values) ==
  FoldLeft(LAMBDA s, i : Bind(s, names[i], values[i]), scope, [i \in DOMAIN names |-> i])

RECURSIVE InlineExpr(_, _, _, _), InlineStatement(_, _, _), InlineCall(_, _, _, _, _, _)
Inlining(pre, e, n, ok) == [pre |-> pre, e |-> e, n |-> n, ok |-> ok]
WithExpr(a, r) == [pre |-> a.pre \o r.pre, es |-> Append(a.es, r.e), n |-> r.n, ok |-> a.ok /\ r.ok]
InlineExprs(es, scope, context, n) ==
  FoldLeft(LAMBDA a, e : WithExpr(a, InlineExpr(e, scope, context, a.n)), [pre |-> <<>>, es |-> <<>>, n |-> n, ok |-> TRUE], es)

\* A call in an expression becomes a variable of its own, and its body goes before.
InlineValue(e, f, kids, scope, context) ==
  LET x == Inlined(kids.n, f.name)
      inlined(body) == Inlining(kids.pre \o body.code, Ident(x), body.n, kids.ok /\ body.ok)
  IN  IF Len(f.returns) # 1 THEN Inlining(<<>>, e, kids.n, FALSE)
      ELSE inlined(InlineCall(f, kids.es, <<Param(f.returns[1], x)>>, scope, context, kids.n + 1))
\* The values of both branches of an if-else expression go before it too, whichever is chosen.
InlineParent(e, kids, scope, context) ==
  IF e.op = "Call" /\ Callable(e.s, context) THEN InlineValue(e, Callee(e.s, context), kids, scope, context)
  ELSE Inlining(kids.pre, [e EXCEPT !.kids = kids.es], kids.n, kids.ok)
InlineTuple(e, f, args, scope, context, n) ==
  LET fields == FreshNames([i \in DOMAIN f.returns |-> f.name], n)
      inlined(tuple) == Inlining(tuple.code, Ident(fields[e.n + 1]), tuple.n, tuple.ok)
  IN  IF e.n \notin 0 .. Len(f.returns) - 1 THEN Inlining(<<>>, e, n, FALSE)
      ELSE inlined(InlineCall(f, args, Bindings(f.returns, fields), scope, context, n + Len(fields)))
InlineExpr(e, scope, context, n) ==
  CASE e.op = "Ident" -> Inlining(<<>>, Ident(Rename(e.s, scope)), n, TRUE)
    [] e.op = "TupleField" /\ e.kids[1].op = "Call" /\ Callable(e.kids[1].s, context) ->
         InlineTuple(e, Callee(e.kids[1].s, context), e.kids[1].kids, scope, context, n)
    [] OTHER -> InlineParent(e, InlineExprs(e.kids, scope, context, n), scope, context)

\* Parameters become variables in a scope of their own, arguments are read in the caller's; what is
\* returned becomes the bindings.  A function that is being inlined already is refused.
WithVar(p, scope, t, x, value) ==
  [code |-> p.code \o value.pre \o <<VarDef(t, x, value.e)>>, scope |-> scope, n |-> value.n, ok |-> p.ok /\ value.ok]
InlineParams(params, args, scope, inner, n) ==
  LET param(p, i) == WithVar(p, Bind(p.scope, params[i].name, Inlined(p.n, params[i].name)), params[i].type,
                             Inlined(p.n, params[i].name), InlineExpr(args[i], scope, inner, p.n + 1))
  IN  FoldLeft(param, Pass(<<>>, n), [i \in DOMAIN params |-> i])
InlineBody(given, f, bindings, inner) ==
  LET returns == f.body # <<>> /\ Last(f.body).op = "Return"
      result(p, i) == WithVar(p, p.scope, bindings[i].type, bindings[i].name,
                              InlineExpr(Last(f.body).exprs[i], p.scope, inner, p.n))
  IN  FoldLeft(result, FoldLeft(LAMBDA p, s : InlineStatement(p, s, inner), given, IF returns THEN Front(f.body) ELSE f.body),
               IF returns THEN [i \in DOMAIN bindings |-> i] ELSE <<>>)
InlineInto(f, args, bindings, scope, inner, n) == InlineBody(InlineParams(f.params, args, scope, inner, n), f, bindings, inner)
InlineCall(f, args, bindings, scope, context, n) ==
  IF f.name \in context.visited \/ Len(f.params) # Len(args) THEN [Pass(scope, n) EXCEPT !.ok = FALSE]
  ELSE InlineInto(f, args, bindings, scope, [context EXCEPT !.visited = @ \cup {f.name}], n)

InlineBlock(body, scope, context, n) ==
  FoldLeft(LAMBDA p, s : InlineStatement(p, s, context), Pass(scope, n), body)

\* A statement with its expressions renamed, behind what must run before it.
Behind(p, es, s) == [Emitted(p, es.pre \o <<[s EXCEPT !.exprs = es.es]>>) EXCEPT !.n = es.n, !.ok = @ /\ es.ok]
InlineSimple(p, s, context) ==
  Behind(p, InlineExprs(s.exprs, p.scope, context, p.n),
         IF s.op = "Assign" THEN [s EXCEPT !.names = <<Rename(s.names[1], p.scope)>>] ELSE s)
\* A name that is declared is new from its statement on: the expression still sees the one before.
Declaring(p, es, s, names) ==
  [Behind(p, es, [s EXCEPT !.names = names]) EXCEPT !.scope = BindAll(@, s.names, names), !.n = @ + Len(names)]
DeclaringFresh(p, es, s) == Declaring(p, es, s, FreshNames(s.names, es.n))
InlineDeclaration(p, s, context) == DeclaringFresh(p, InlineExprs(s.exprs, p.scope, context, p.n), s)
\* The names that take what a function returns are new, and known after its body.
AfterCall(p, call, s, names) ==
  [Emitted(p, call.code) EXCEPT !.scope = BindAll(@, Tail(s.names), names), !.n = call.n, !.ok = @ /\ call.ok]
InlineFunctionInto(p, s, names, context) ==
  AfterCall(p, InlineCall(Callee(s.names[1], context), s.exprs, Bindings(s.types, names), p.scope, context, p.n + Len(names)), s, names)
InlineFunctionStatement(p, s, context) == InlineFunctionInto(p, s, FreshNames(Tail(s.names), p.n), context)
\* What a branch declares ends with it.
WithBranch(q, b) == [code |-> Append(q.code, b.code), scope |-> q.scope, n |-> b.n, ok |-> q.ok /\ b.ok]
InlineBlocks(blocks, scope, context, n) ==
  FoldLeft(LAMBDA q, body : WithBranch(q, InlineBlock(body, scope, context, q.n)), Pass(scope, n), blocks)
Branching(p, s, es, branches) ==
  [Behind(p, es, [s EXCEPT !.blocks = branches.code]) EXCEPT !.n = branches.n, !.ok = @ /\ branches.ok]
BranchingAfter(p, s, es, context) == Branching(p, s, es, InlineBlocks(s.blocks, p.scope, context, es.n))
InlineBranches(p, s, context) == BranchingAfter(p, s, InlineExprs(s.exprs, p.scope, context, p.n), context)
\* The body is named before the range is, and what the range calls runs once, before the loop.
Looping(p, s, counter, body, range) ==
  [Behind(p, range, [s EXCEPT !.names = <<counter>>, !.blocks = <<body.code>>]) EXCEPT !.ok = @ /\ body.ok]
LoopingOver(p, s, counter, body, context) == Looping(p, s, counter, body, InlineExprs(s.exprs, p.scope, context, body.n))
InlineLoop(p, s, context) ==
  LET counter == Inlined(p.n, s.names[1])
  IN  LoopingOver(p, s, counter, InlineBlock(s.blocks[1], Bind(p.scope, s.names[1], counter), context, p.n + 1), context)
InlineStatement(p, s, context) ==
  CASE s.op \in {"Var", "Tuple", "ReadState"} -> InlineDeclaration(p, s, context)
    [] s.op \in {"Call", "CallInto"} /\ Callable(s.names[1], context) -> InlineFunctionStatement(p, s, context)
    [] s.op \in {"Block", "If"} -> InlineBranches(p, s, context)
    [] s.op = "For" -> InlineLoop(p, s, context)
    [] OTHER -> InlineSimple(p, s, context)

\* Functions one after the other under one count of names, and the contract with all of them.
WithFunction(a, f, b) == [functions |-> Append(a.functions, [f EXCEPT !.body = b.code]), n |-> b.n, ok |-> a.ok /\ b.ok]
NoFunctions == [functions |-> <<>>, n |-> 0, ok |-> TRUE]
WithFunctions(contract, all) == [contract |-> [contract EXCEPT !.functions = all.functions], ok |-> all.ok]

\* Only the entry points are left, their parameters under their own names.
OwnNames(names) == BindAll(<<>>, names, names)
InlineFunctions(contract) ==
  LET context == [functions |-> contract.functions, visited |-> {}]
      one(a, f) ==
        WithFunction(a, f, InlineBlock(f.body, OwnNames([i \in DOMAIN f.params |-> f.params[i].name]), context, a.n))
  IN  WithFunctions(contract, FoldLeft(one, NoFunctions, Entrypoints(contract)))

-----------------------------------------------------------------------------
(* Appends, loops and locals. *)

RECURSIVE SumOfAppend(_), AppendsIn(_)
SumOver(e, kids) == IF e.op = "Append" THEN Binary("Add", kids[1], ArrayLit(Tail(kids))) ELSE [e EXCEPT !.kids = kids]
SumOfAppend(e) == SumOver(e, [i \in DOMAIN e.kids |-> SumOfAppend(e.kids[i])])
AppendsIn(body) ==
  [i \in DOMAIN body |->
     [body[i] EXCEPT !.exprs = [k \in DOMAIN @ |-> SumOfAppend(@[k])], !.blocks = [b \in DOMAIN @ |-> AppendsIn(@[b])]]]
LowerAppends(contract) ==
  [contract EXCEPT !.functions = [i \in DOMAIN @ |-> [@[i] EXCEPT !.body = AppendsIn(@)]],
                   !.fields = [i \in DOMAIN @ |-> [@[i] EXCEPT !.value = SumOfAppend(@)]]]

RECURSIVE UnrollStatement(_, _, _)
UnrollBlock(body, constants, n) ==
  FoldLeft(LAMBDA p, s : UnrollStatement(p, s, constants), Pass(<<>>, n), body)

\* A range known now is that many blocks, if the bound allows it.
UnrollKnown(s, body, from, turns, max) ==
  IF turns > max THEN [body EXCEPT !.ok = FALSE]
  ELSE [body EXCEPT !.code = [k \in 1 .. turns |-> Block(<<VarDef(IntType, s.names[1], IntLit(from + k - 1))>> \o body.code)]]
\* Any other is the bound times the body, each under the test of a counter the body cannot reach,
\* after the requirement that the bound is enough.
UnrollUnknown(s, body, max) ==
  LET i == s.names[1]  from == s.exprs[1]  end == s.exprs[2]
      counter == Unrolled(body.n, i)
      turn == If(Binary("Lt", Ident(counter), end),
                 <<VarDef(IntType, i, Ident(counter))>> \o body.code \o <<Assign(counter, Binary("Add", Ident(i), IntLit(1)))>>)
      enough == Require(Binary("Le", Binary("Sub", end, from), IntLit(max)))
  IN  [body EXCEPT !.code = <<VarDef(IntType, counter, from), enough>> \o [k \in 1 .. max |-> turn], !.n = @ + 1]
UnrollRange(s, body, from, to, max) ==
  CASE max = <<>> \/ (max # <<>> /\ max[1] < 0) -> [body EXCEPT !.ok = FALSE]
    [] from # <<>> /\ to # <<>> -> UnrollKnown(s, body, from[1], to[1] - from[1], max[1])
    [] OTHER -> UnrollUnknown(s, body, max[1])
UnrollFor(s, constants, body) ==
  LET value(i) == ConstInt(s.exprs[i], constants)
  IN  UnrollRange(s, body, value(1), value(2), value(3))

Unrolling(p, code, made) == [Emitted(p, code) EXCEPT !.n = made.n, !.ok = @ /\ made.ok]
UnrolledLoop(p, loop) == Unrolling(p, loop.code, loop)
UnrolledBlocks(p, s, branches) == Unrolling(p, <<[s EXCEPT !.blocks = branches.code]>>, branches)
UnrollStatement(p, s, constants) ==
  IF s.op = "For" THEN UnrolledLoop(p, UnrollFor(s, constants, UnrollBlock(s.blocks[1], constants, p.n)))
  ELSE UnrolledBlocks(p, s, FoldLeft(LAMBDA q, body : WithBranch(q, UnrollBlock(body, constants, q.n)), Pass(<<>>, p.n), s.blocks))

\* One count of the names made for all functions.
UnrollLoops(contract) ==
  LET one(a, f) == WithFunction(a, f, UnrollBlock(f.body, contract.constants, a.n))
  IN  WithFunctions(contract, FoldLeft(one, NoFunctions, contract.functions))

RECURSIVE UsesIn(_, _)
\* How often a body reads a name, its blocks included.
UsesIn(body, x) ==
  LET exprs(s) == FoldLeft(LAMBDA n, e : n + Mentions(e, x), 0, s.exprs)
      blocks(s) == FoldLeft(LAMBDA n, b : n + UsesIn(b, x), 0, s.blocks)
  IN  FoldLeft(LAMBDA n, s : n + exprs(s) + blocks(s), 0, body)

\* A mistake: the value may use names that are assigned between its place and its reader.
AliasOfAssigned(s, whole) ==
  s.op = "Var" /\ s.exprs # <<>> /\ s.names[1] \notin AssignedIn(whole) /\ UsesIn(whole, s.names[1]) <= 1
\* A local that is read at most once and never assigned, and whose value no assignment can change,
\* is its value where it is read; a value nobody reads is gone.
Alias(s, whole) ==
  /\ s.op = "Var" /\ s.exprs # <<>>
  /\ s.names[1] \notin AssignedIn(whole) /\ UsesIn(whole, s.names[1]) <= 1
  /\ NamesIn(s.exprs[1]) \cap AssignedIn(whole) = {}
RECURSIVE SubstituteBody(_, _, _)
DeclaredBy(s) == IF s.op \in {"Var", "Tuple", "ReadState", "Assign", "For"} THEN {s.names[i] : i \in DOMAIN s.names} ELSE {}
WithAlias(a, s) == [a EXCEPT !.aliases = Bind(@, s.names[1], CoerceTo(Substitute(s.exprs[1], @), s.types[1]))]
Substituted(a, s, whole, seen) ==
  [code |-> Append(a.code, [s EXCEPT !.exprs = [i \in DOMAIN @ |-> Substitute(@[i], seen)],
                                     !.blocks = [b \in DOMAIN @ |-> SubstituteBody(@[b], whole, seen)]]),
   aliases |-> seen]
SubstituteBody(body, whole, aliases) ==
  FoldLeft(LAMBDA a, s : IF Alias(s, whole) THEN WithAlias(a, s) ELSE Substituted(a, s, whole, Unbind(a.aliases, DeclaredBy(s))),
           [code |-> <<>>, aliases |-> aliases], body).code
LowerAliases(contract) ==
  [contract EXCEPT !.functions = [i \in DOMAIN @ |-> [@[i] EXCEPT !.body = SubstituteBody(@, @, <<>>)]]]
=============================================================================
