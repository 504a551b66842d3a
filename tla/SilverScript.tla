----------------------------- MODULE SilverScript -----------------------------
(***************************************************************************)
(* The code of statements, entry points and the whole contract             *)
(* (compile.rs).  A unit is [code, scope, added, ok]: what has been        *)
(* emitted, the scope after it and the names it put on the stack.          *)
(***************************************************************************)
EXTENDS SilverCodegen
LOCAL INSTANCE SequencesExt

Unit(scope) == [code |-> <<>>, scope |-> scope, added |-> <<>>, ok |-> TRUE]
After(u, g, scope) == [u EXCEPT !.code = @ \o g.code, !.scope = scope, !.ok = @ /\ g.ok]
Failed(u) == [u EXCEPT !.ok = FALSE]
Compiled(e, u) == CompileExpr(e, u.scope, Emission)

\* A new name takes the place of the value its expression leaves on top.
Define(u, t, x, e) ==
  LET scope == [u.scope EXCEPT !.types = Bind(@, x, t)]
      g == CompileExpr(e, scope, Emission)
  IN  IF Bound(u.scope.names, x) THEN Failed(u)
      ELSE [After(u, g, [scope EXCEPT !.names = <<x>> \o @]) EXCEPT !.added = Append(@, x)]

DefineIfSet(u, t, x, value) == IF value = <<>> THEN Failed(u) ELSE Define(u, t, x, value[1])
\* What an array takes: an array of its type, anything that is not a name, or nothing.
ArrayInitialiser(t, init, types) ==
  CASE init = <<>> -> <<ArrayLit(<<>>)>>
    [] init # <<>> /\ init[1].op = "Ident" ->
         IF init[1].s \in DOMAIN types /\ TypeAssignable(types[init[1].s], t) THEN init ELSE <<>>
    [] OTHER -> init
Initialiser(t, init, types) ==
  CASE t = NoType -> <<>>
    [] IsArray(t) -> ArrayInitialiser(t, init, types)
    [] OTHER -> [i \in DOMAIN init |-> CoerceTo(init[i], t)]
SizedType(t, init, types) ==
  CASE ~IsArray(t) \/ Last(t.dims) # Inferred -> t
    [] init = <<>> -> NoType
    [] OTHER -> InferredArrayType(t, init[1], types)
DefineSized(u, t, x, init) == DefineIfSet(u, t, x, Initialiser(t, init, u.scope.types))
CompileVarDef(u, t, x, init) == DefineSized(u, SizedType(t, init, u.scope.types), x, init)

Rebound(u, g, layout) == After(u, Emit(g, layout.code, 0), [u.scope EXCEPT !.names = layout.names])
CompileAssign(u, x, e) ==
  IF x \notin DOMAIN u.scope.types \/ ~Bound(u.scope.names, x) THEN Failed(u)
  ELSE Rebound(u, Compiled(CoerceTo(e, u.scope.types[x]), u), Rebind(u.scope.names, x))

\* A requirement, or a bound on the age or the time of the transaction.
CheckOp(s) ==
  CASE s.op = "Require" -> Op("Verify")
    [] s.op = "Time" -> Op(IF s.names[1] = "this.age" THEN "CheckSequenceVerify" ELSE "CheckLockTimeVerify")
CompileCheck(u, s) == After(u, Emit(Compiled(s.exprs[1], u), <<CheckOp(s)>>, 0), u.scope)
CompileTuple(u, s) ==
  LET part(i) == Split(s.exprs[1].kids[1], s.exprs[1].kids[2], <<"left", "right">>[i])
  IN  IF s.exprs[1].op # "Split" THEN Failed(u)
      ELSE FoldLeft(LAMBDA v, i : Define(v, s.types[i], s.names[i], part(i)), u, <<1, 2>>)

-----------------------------------------------------------------------------
(* The state of a contract inside its script: every field is a push of its *)
(* fixed size, one after the other.                                        *)

ChunkSize(t) == Len(DataPrefix(FieldPayload(t))) + FieldPayload(t)
SumOf(sizes) == FoldLeft(LAMBDA sum, n : sum + n, 0, sizes)
StateLen(fields) == SumOf([i \in DOMAIN fields |-> ChunkSize(fields[i].type)])
StateStart(scope) == scope.prefix - StateLen(scope.fields)
FieldsFixed(fields) == fields # <<>> /\ \A i \in DOMAIN fields : FieldPayload(fields[i].type) # Unsized

\* A field as a slice of the script at the end of another input's signature script.
FieldOfInput(scope, index, i) ==
  LET before == SumOf([k \in 1 .. i - 1 |-> ChunkSize(scope.fields[k].type)])
      t == scope.fields[i].type
      payload == StateStart(scope) + before + Len(DataPrefix(FieldPayload(t)))
      base == Binary("Sub", Call("OpTxInputScriptSigLen", <<index>>), IntLit(scope.size))
      start == Binary("Add", base, IntLit(payload))
      slice == Call("OpTxInputScriptSigSubstr", <<index, start, Binary("Add", start, IntLit(FieldPayload(t)))>>)
  IN  IF IsArray(t) THEN ByteCast(Last(t.dims), <<slice>>) ELSE Call(t.base, <<slice>>)

CompileReadState(u, s) ==
  LET fields == u.scope.fields
  IN  IF ~FieldsFixed(fields) \/ u.scope.size = 0 \/ Len(s.names) # Len(fields)
         \/ \E i \in DOMAIN fields : s.types[i] # fields[i].type
      THEN Failed(u)
      ELSE FoldLeft(LAMBDA v, i : Define(v, fields[i].type, s.names[i], FieldOfInput(u.scope, s.exprs[1], i)),
                    u, [i \in DOMAIN fields |-> i])

\* The new state behind one another on the stack, each field with the prefix of its push.
Prefixed(g, number, size) ==
  Emit(g, (IF number THEN <<Num(size), Op("Num2Bin")>> ELSE <<>>) \o <<Push(DataPrefix(size)), Op("Swap"), Op("Cat")>>, 0)
EncodedAs(g, t, e, scope) ==
  IF FieldPayload(t) = Unsized THEN Refuse(g)
  ELSE Prefixed(CompileExpr(e, scope, g), t \in {IntType, BoolType}, FieldPayload(t))
EncodedState(values, scope) ==
  Emit(FoldLeft(LAMBDA g, e : EncodedAs(g, ValueType(e, scope.constants, scope.types), e, scope), Emission, values),
       [i \in 1 .. Len(values) - 1 |-> Op("Cat")], 1 - Len(values))

\* The output pays the script hash of this script with the new state in the place of the old.
BeforeState(size, start) ==
  IF start = 0 THEN <<>>
  ELSE <<Op("TxInputIndex"), Op("Dup"), Op("TxInputScriptSigLen"), Num(size), Op("Sub"), Op("Dup"),
         Num(start), Op("Add"), Op("TxInputScriptSigSubstr"), Op("Swap"), Op("Cat")>>
AfterState(size, prefix) ==
  <<Op("TxInputIndex"), Op("Dup"), Op("TxInputScriptSigLen"), Op("Dup"), Num(size), Op("Sub"),
    Num(prefix), Op("Add"), Op("Swap"), Op("TxInputScriptSigSubstr"), Op("Cat")>>
SplicedScript(state, scope) ==
  WrapScriptHash(Emit(state, BeforeState(scope.size, StateStart(scope)) \o AfterState(scope.size, scope.prefix) \o <<Op("Blake2b")>>, 0))
CompileValidateState(u, s) ==
  IF ~FieldsFixed(u.scope.fields) \/ u.scope.size = 0 \/ Len(s.exprs) # Len(u.scope.fields) + 1 THEN Failed(u)
  ELSE After(u, Emit(CompileExpr(s.exprs[1], u.scope, SplicedScript(EncodedState(Tail(s.exprs), u.scope), u.scope)),
                     <<Op("TxOutputSpk"), Op("Equal"), Op("Verify")>>, -2), u.scope)

-----------------------------------------------------------------------------
(* Blocks and branches. *)

RECURSIVE CompileStatement(_, _)
\* A block drops the names it put on the stack; their types go with them.
Dropped(u, locals, layout) ==
  [u EXCEPT !.code = @ \o layout.code, !.scope = [@ EXCEPT !.names = layout.names, !.types = Unbind(@, locals)]]
WithoutNames(u, locals) == Dropped(u, locals, DropBindings(u.scope.names, locals))
WithoutLocals(u) == WithoutNames(u, {u.added[i] : i \in DOMAIN u.added})
CompileBlock(u, body) ==
  [WithoutLocals(FoldLeft(CompileStatement, [u EXCEPT !.added = <<>>], body)) EXCEPT !.added = u.added]

CompileBlocks(u, blocks) == FoldLeft(LAMBDA done, body : Append(done, CompileBlock(u, body)), <<>>, blocks)

\* A mistake: the second branch leaves the stack in its own order.
BranchesUnordered(u, g, branches) ==
  After(u, Emit(g, branches[1].code \o (IF Len(branches) = 2 THEN <<Op("Else")>> \o branches[2].code ELSE <<>>) \o <<Op("EndIf")>>, 0),
        [u.scope EXCEPT !.names = IF Len(branches) = 2 THEN branches[1].scope.names ELSE @])
CompileIfUnordered(u, c, blocks) ==
  BranchesUnordered(u, Emit(Compiled(c, u), <<Op("If")>>, 0), CompileBlocks(Unit(u.scope), blocks))

\* Both branches start from the layout before the condition; the branch not taken last is
\* reordered, so that the code after EndIf finds one layout.
Ended(u, g, branches, codes, layout) ==
  After(u, [Emit(g, codes[1] \o (IF Len(codes) = 2 THEN <<Op("Else")>> \o codes[2] ELSE <<>>) \o <<Op("EndIf")>>, 0)
              EXCEPT !.ok = @ /\ \A b \in DOMAIN branches : branches[b].ok],
        [u.scope EXCEPT !.names = layout])
Reordered(branches, layout) ==
  [b \in DOMAIN branches |-> branches[b].code \o Reordering(branches[b].scope.names, layout)]
BranchesJoined(u, g, branches) ==
  LET layout == IF Len(branches) = 2 THEN branches[1].scope.names ELSE u.scope.names
  IN  Ended(u, g, branches, Reordered(branches, layout), layout)
CompileIf(u, c, blocks) ==
  BranchesJoined(u, Emit(Compiled(c, u), <<Op("If")>>, 0), CompileBlocks(Unit(u.scope), blocks))

CompileStatement(u, s) ==
  CASE s.op = "Var" -> CompileVarDef(u, s.types[1], s.names[1], s.exprs)
    [] s.op = "Tuple" -> CompileTuple(u, s)
    [] s.op = "Assign" -> CompileAssign(u, s.names[1], s.exprs[1])
    [] s.op \in {"Require", "Time"} -> CompileCheck(u, s)
    [] s.op = "Block" -> CompileBlock(u, s.blocks[1])
    [] s.op = "If" -> CompileIf(u, s.exprs[1], s.blocks)
    [] s.op = "ReadState" -> CompileReadState(u, s)
    [] s.op = "ValidateState" -> CompileValidateState(u, s)
    [] OTHER -> Failed(u)       \* calls and loops are lowered before

-----------------------------------------------------------------------------
(* Entry points and the contract. *)

Resolve(e, constants) == Substitute(e, constants)
\* A mistake: a number of the state takes as many bytes as it needs.
FieldPushMinimal(field, constants) ==
  LET value == Resolve(field.value, constants)
  IN  IF value.op = "Int" THEN <<Push(Item(value.n))>> ELSE <<Push(EncodeFixed(value, field.type)[1])>>
FieldPush(field, constants) ==
  LET value == Resolve(field.value, constants)
  IN  IF FieldPayload(field.type) # Unsized THEN <<Push(EncodeFixed(value, field.type)[1])>>
      ELSE CompileExpr(value, [names |-> <<>>, types |-> <<>>, constants |-> constants, size |-> 0], Emission).code
FieldsCode(contract) ==
  FlattenSeq([i \in DOMAIN contract.fields |-> FieldPush(contract.fields[i], contract.constants)])

TypeOfEntry(x, entries, constants) ==
  IF \E i \in DOMAIN entries : entries[i].name = x
  THEN entries[CHOOSE i \in DOMAIN entries : entries[i].name = x].type
  ELSE ValueType(constants[x], constants, <<>>)
EntryTypes(entries, constants) ==
  [x \in DOMAIN constants \cup {entries[i].name : i \in DOMAIN entries} |-> TypeOfEntry(x, entries, constants)]
\* The code for the state: a contract with several entry points first sets their choice aside.
StateCode(contract) ==
  IF Len(Entrypoints(contract)) = 1 THEN FieldsCode(contract) ELSE <<Op("ToAlt")>> \o FieldsCode(contract)
\* The last parameter is on top of the others, and the fields, the last one on top, on top of them.
EntryScope(contract, f, prefix, size) ==
  [names |-> Reverse([i \in DOMAIN f.params |-> f.params[i].name]
                       \o [i \in DOMAIN contract.fields |-> contract.fields[i].name]),
   types |-> EntryTypes(contract.fields \o f.params, contract.constants),
   constants |-> contract.constants, fields |-> contract.fields, prefix |-> prefix, size |-> size]

\* What is returned, then the drop of the rest of the stack from below it.
Times(n, ops) == FlattenSeq([i \in 1 .. n |-> ops])
Under(values, names) == Times(names, <<Num(values), Op("Roll"), Op("Drop")>>)
Cleanup(values, locals, given) ==
  Under(values, locals) \o (IF values = 0 THEN Times(given, <<Op("Drop")>>) \o <<Op("True")>> ELSE Under(values, given))
Finished(u, values, given, returned) ==
  [code |-> u.code \o returned.code \o Cleanup(values, Len(u.scope.names) - given, given), ok |-> u.ok /\ returned.ok]
FinishedWith(u, values, given) == Finished(u, Len(values), given, CompileAll(values, u.scope, Emission))
Returns(body) == body # <<>> /\ Last(body).op = "Return"
CompileEntrypoint(contract, f, prefix, size) ==
  FinishedWith(FoldLeft(CompileStatement, Unit(EntryScope(contract, f, prefix, size)), IF Returns(f.body) THEN Front(f.body) ELSE f.body),
               IF Returns(f.body) THEN Last(f.body).exprs ELSE <<>>, Len(f.params) + Len(contract.fields))

\* Several entry points are chosen by a number on top of the arguments, which waits on the
\* other stack while the state is pushed.
EntryBranch(i, code) == <<Op("Dup"), Num(i - 1), Op("NumEqual"), Op("If"), Op("Drop")>> \o code \o <<Op("Else")>>
Chosen(codes) ==
  FlattenSeq([i \in DOMAIN codes |-> EntryBranch(i, codes[i])]) \o <<Op("Drop"), Op("False"), Op("Verify")>>
    \o [i \in DOMAIN codes |-> Op("EndIf")]
Linked(state, entries) ==
  [code |-> state \o (IF Len(entries) = 1 THEN entries[1].code
                       ELSE <<Op("FromAlt")>> \o Chosen([i \in DOMAIN entries |-> entries[i].code])),
   ok |-> entries # <<>> /\ \A i \in DOMAIN entries : entries[i].ok]
CompileEntries(contract, entries, state, prefix, size) ==
  Linked(state, FoldLeft(LAMBDA done, f : Append(done, CompileEntrypoint(contract, f, prefix, size)), <<>>, entries))
CompileBehind(contract, state, size) ==
  CompileEntries(contract, Entrypoints(contract), state, Len(ScriptBytes(state)), size)
CompileContract(contract, size) == CompileBehind(contract, StateCode(contract), size)

RECURSIVE ExprUsesSize(_), BodyUsesSize(_)
ExprUsesSize(e) ==
  \/ e.op = "Nullary" /\ e.s \in {"ThisScriptSize", "ThisScriptSizeDataPrefix"}
  \/ \E i \in DOMAIN e.kids : ExprUsesSize(e.kids[i])
BodyUsesSize(body) ==
  \E i \in DOMAIN body :
    \/ body[i].op \in {"ReadState", "ValidateState"}
    \/ \E k \in DOMAIN body[i].exprs : ExprUsesSize(body[i].exprs[k])
    \/ \E b \in DOMAIN body[i].blocks : BodyUsesSize(body[i].blocks[b])
UsesScriptSize(contract) ==
  \/ \E x \in DOMAIN contract.constants : ExprUsesSize(contract.constants[x])
  \/ \E i \in DOMAIN contract.fields : ExprUsesSize(contract.fields[i].value)
  \/ \E i \in DOMAIN contract.functions : BodyUsesSize(contract.functions[i].body)

\* The signature script of a spend: the arguments in order, the place of the entry point if
\* there are several, and the script itself.
Selector(entries, entry) ==
  IF Len(entries) = 1 THEN <<>> ELSE <<Num((CHOOSE i \in DOMAIN entries : entries[i].name = entry) - 1)>>
SigScript(contract, entry, args, script) ==
  [i \in DOMAIN args |-> Push(args[i])] \o Selector(Entrypoints(contract), entry) \o <<Push(ScriptBytes(script))>>
=============================================================================
