---------------------------- MODULE SilverCodegen ----------------------------
(***************************************************************************)
(* The code of expressions and statements (compile.rs).  A scope is        *)
(* [names, types, constants, fields, prefix, size]: the layout of the      *)
(* stack, the types of names, the fields of the state, the bytes up to     *)
(* their end in the script and the size the script is compiled for.  An    *)
(* emission is [code, depth, ok]: the operations, the unnamed values above *)
(* the layout, and whether the compiler went on.                           *)
(***************************************************************************)
EXTENDS SilverAst, SilverMachine
LOCAL INSTANCE SequencesExt
LOCAL INSTANCE FiniteSetsExt

-----------------------------------------------------------------------------
(* Names on the stack (stack_bindings.rs).  The layout is the names from    *)
(* the top down; an expression under way has unnamed values above them,     *)
(* counted by the caller. *)

\* The depth of a name, 0 at the top.
DepthOf(names, x) == (CHOOSE i \in DOMAIN names : names[i] = x) - 1
Bound(names, x) == \E i \in DOMAIN names : names[i] = x
ToTop(names, x) == <<x>> \o RemoveAt(names, DepthOf(names, x) + 1)

DropFromDepth(depth) ==
  CASE depth = 0 -> <<Op("Drop")>>
    [] depth = 1 -> <<Op("Nip")>>
    [] depth = 2 -> <<Op("Rot"), Op("Drop")>>
    [] OTHER -> <<Num(depth), Op("Roll"), Op("Drop")>>
PickFromDepth(depth) ==
  CASE depth = 0 -> <<Op("Dup")>>
    [] depth = 1 -> <<Op("Over")>>
    [] OTHER -> <<Num(depth), Op("Pick")>>
RollFromDepth(depth) ==
  CASE depth = 0 -> <<>>
    [] depth = 1 -> <<Op("Swap")>>
    [] depth = 2 -> <<Op("Rot")>>
    [] OTHER -> <<Num(depth), Op("Roll")>>

\* The locals of a block go from the top down, each at the depth it then has.
DropBindings(names, locals) ==
  FoldLeft(LAMBDA g, x : IF x \in locals
             THEN [code |-> g.code \o DropFromDepth(DepthOf(g.names, x)), names |-> RemoveAt(g.names, DepthOf(g.names, x) + 1)]
             ELSE g,
           [code |-> <<>>, names |-> names], names)

\* The new value is on top: the old one goes, and the name moves up.
Rebind(names, x) == [code |-> DropFromDepth(DepthOf(names, x) + 1), names |-> ToTop(names, x)]

\* A layout as the places its names have in another one.
Permutation(names, target) == [i \in DOMAIN target |-> DepthOf(names, target[i])]
LocalOps == <<"Swap", "Rot", "2Swap", "2Rot">>
\* What a local operation makes of an order; <<>> if it reaches below it.
Applied(order, op) ==
  LET moved == Shuffle(op)[1]
  IN  IF Len(order) < Len(moved) THEN <<>>
      ELSE [i \in DOMAIN order |-> order[IF i <= Len(moved) THEN moved[i] ELSE i]]

\* The first single operation, or the first pair, that does the whole permutation.
Singles == {<<a>> : a \in DOMAIN LocalOps}
Pairs == {<<a, b>> : a \in DOMAIN LocalOps, b \in DOMAIN LocalOps}
AfterPath(order, path) == FoldLeft(LAMBDA o, i : IF o = <<>> THEN o ELSE Applied(o, LocalOps[i]), order, path)
LeadingTo(order, paths) == {path \in paths : AfterPath([i \in DOMAIN order |-> i - 1], path) = order}
\* No path is longer than two: the first is the one with the least first operation, then the least last.
FirstPath(paths) ==
  IF paths = {} THEN <<>>
  ELSE CHOOSE p \in paths : \A q \in paths : p[1] < q[1] \/ (p[1] = q[1] /\ p[Len(p)] <= q[Len(q)])
ShorterPath(singles, pairs) == FirstPath(IF singles # {} THEN singles ELSE pairs)
PathOps(path) == [i \in DOMAIN path |-> Op(LocalOps[path[i]])]
LocalReordering(order) == PathOps(ShorterPath(LeadingTo(order, Singles), LeadingTo(order, Pairs)))

\* Where the tail begins that is already in order at the bottom of the stack.
KeptFrom(order) ==
  IF order = <<>> THEN 0
  ELSE Min({j \in DOMAIN order : \A i \in j .. Len(order) - 1 : order[i] < order[i + 1]}) - 1

\* One layout made into another with the same names.
MovedAway(g, x) ==
  [code |-> g.code \o RollFromDepth(DepthOf(g.names, x)) \o <<Op("ToAlt")>>,
   names |-> RemoveAt(g.names, DepthOf(g.names, x) + 1)]
AroundAlt(names, moved) ==
  FoldLeft(MovedAway, [code |-> <<>>, names |-> names], moved).code \o [i \in DOMAIN moved |-> Op("FromAlt")]
OpsOr(ops, other) == IF ops # <<>> THEN ops ELSE other
ReorderedBy(order, names, target) ==
  OpsOr(LocalReordering(order), AroundAlt(names, SubSeq(target, 1, KeptFrom(order))))
Reordering(names, target) ==
  IF names = target THEN <<>> ELSE ReorderedBy(Permutation(names, target), names, target)

-----------------------------------------------------------------------------
(* Emissions. *)

Emission == [code |-> <<>>, depth |-> 0, ok |-> TRUE]
Emit(g, ops, change) == [g EXCEPT !.code = @ \o ops, !.depth = @ + change]
Refuse(g) == [g EXCEPT !.ok = FALSE]

-----------------------------------------------------------------------------
(* Literals. *)

\* The literals in one piece, or <<>> if one of them is not encoded.
Packed(parts) ==
  IF \A i \in DOMAIN parts : parts[i] # <<>> THEN <<FlattenSeq([i \in DOMAIN parts |-> parts[i][1]])>> ELSE <<>>
LiteralBytes(e) == [i \in DOMAIN e.kids |-> e.kids[i].n]
ByteSize(t) ==
  CASE ~IsArray(t) -> FixedTypeSize(t)
    [] ElementType(t) = ByteType -> ArraySize(t)
    [] OTHER -> Unsized

RECURSIVE EncodeFixed(_, _)
\* A literal in the bytes of its type: <<bytes>>, or <<>> if it is not of the type.
EncodeFixed(e, t) ==
  CASE t = IntType -> IF e.op = "Int" THEN Padded(e.n, 8) ELSE <<>>
    [] t = BoolType -> IF e.op = "Bool" THEN <<<<e.n>>>> ELSE <<>>
    [] t = ByteType -> IF e.op = "Byte" THEN <<<<e.n>>>> ELSE <<>>
    [] ~IsArray(t) \/ ByteSize(t) # Unsized ->
         IF e.op = "Array" /\ AllBytes(e.kids) /\ Len(e.kids) = ByteSize(t) THEN <<LiteralBytes(e)>> ELSE <<>>
    [] e.op = "Array" /\ Len(e.kids) = ArraySize(t) ->
         Packed([i \in DOMAIN e.kids |-> EncodeFixed(e.kids[i], ElementType(t))])
    [] OTHER -> <<>>

\* The elements of an array literal in one piece, if all of them are literals.
EncodeArray(es, element) == Packed([i \in DOMAIN es |-> EncodeFixed(es[i], element)])

\* The output script that only carries data: OP_RETURN and a push of every literal.
NullDataScript(items) ==
  LET literal(e) == IF e.op = "Int" THEN Num(e.n) ELSE Push(LiteralBytes(e))
  IN  IF \A i \in DOMAIN items : items[i].op = "Int" \/ (items[i].op = "Array" /\ AllBytes(items[i].kids))
      THEN <<<<0, 0>> \o ScriptBytes(<<Op("Return")>> \o [i \in DOMAIN items |-> literal(items[i])])>>
      ELSE <<>>

-----------------------------------------------------------------------------
(* Expressions. *)

BinaryOp ==
  [Or |-> "BoolOr", And |-> "BoolAnd", BitOr |-> "Or", BitXor |-> "Xor", BitAnd |-> "And", Eq |-> "NumEqual",
   Ne |-> "NumNotEqual", Lt |-> "Lt", Le |-> "Le", Gt |-> "Gt", Ge |-> "Ge", Add |-> "Add", Sub |-> "Sub",
   Mul |-> "Mul", Div |-> "Div", Mod |-> "Mod"]
Comparisons == {"Eq", "Ne", "Lt", "Le", "Gt", "Ge"}
NullaryCode ==
  [ActiveInputIndex |-> <<Op("TxInputIndex")>>, ActiveScriptPubKey |-> <<Op("TxInputIndex"), Op("TxInputSpk")>>,
   TxInputsLength |-> <<Op("TxInputCount")>>, TxOutputsLength |-> <<Op("TxOutputCount")>>,
   TxVersion |-> <<Op("TxVersion")>>, TxLockTime |-> <<Op("TxLockTime")>>]
IntrospectionCode ==
  [InputValue |-> <<Op("TxInputAmount")>>, InputScriptPubKey |-> <<Op("TxInputSpk")>>,
   InputSigScript |-> <<Op("Dup"), Op("TxInputScriptSigLen"), Num(0), Op("Swap"), Op("TxInputScriptSigSubstr")>>,
   InputSequenceNumber |-> <<Op("TxInputSeq")>>, OutputValue |-> <<Op("TxOutputAmount")>>,
   OutputScriptPubKey |-> <<Op("TxOutputSpk")>>]
\* Calls that are one opcode: the opcode and how many operands it takes.
OpcodeCalls ==
  [OpTxInputScriptSigLen |-> <<"TxInputScriptSigLen", 1>>, OpTxInputScriptSigSubstr |-> <<"TxInputScriptSigSubstr", 3>>,
   OpTxInputSpkLen |-> <<"TxInputSpkLen", 1>>, OpTxInputSpkSubstr |-> <<"TxInputSpkSubstr", 3>>,
   OpTxOutputSpkLen |-> <<"TxOutputSpkLen", 1>>, OpTxOutputSpkSubstr |-> <<"TxOutputSpkSubstr", 3>>,
   OpNum2Bin |-> <<"Num2Bin", 2>>, OpBin2Num |-> <<"Bin2Num", 1>>, sha256 |-> <<"Sha256", 1>>,
   blake2b |-> <<"Blake2b", 1>>, blake3 |-> <<"Blake3", 1>>, blake2bWithKey |-> <<"Blake2bWithKey", 2>>,
   blake3WithKey |-> <<"Blake3WithKey", 2>>, checkSig |-> <<"CheckSig", 2>>]
PassThrough == {"int", "byte", "bool", "sig", "pubkey", "datasig"}

\* The bytes of a pay-to-script-hash output around the hash on top of the stack.
WrapScriptHash(g) ==
  Emit(g, <<Push(<<0, 0>>), Push(<<OpByte("Blake2b")>>), Op("Cat"), Push(<<32>>), Op("Cat"), Op("Swap"), Op("Cat"),
            Push(<<OpByte("Equal")>>), Op("Cat")>>, 0)
SizedCopy(g, size) == Emit(g, <<Num(size), Op("Num2Bin")>>, 0)

\* templateHash(prefix, suffix): both parts behind their lengths in eight bytes.
TemplatePreimage(prefix, suffix) ==
  LET part(e) == Binary("Add", Call("bytes", <<Call("length", <<e>>), IntLit(8)>>), e)
  IN  Binary("Add", part(prefix), part(suffix))

NoCast == -9
CastSize(t) ==      \* the size of a value that is a byte sequence already; NoCast for one that is not
  CASE t = ByteType -> 1
    [] ~IsArray(t) /\ t.base \in {"pubkey", "sig", "datasig"} -> FixedTypeSize(t)
    [] t.base = "byte" /\ Len(t.dims) = 1 -> ArraySize(t)
    [] OTHER -> NoCast

RECURSIVE CompileExpr(_, _, _)
CompileAll(es, scope, g) == FoldLeft(LAMBDA h, e : CompileExpr(e, scope, h), g, es)

\* The elements one after the other, each in the bytes it takes in the array.
CompileElement(e, element, scope, g) ==
  CASE element = IntType -> SizedCopy(CompileExpr(e, scope, g), 8)
    [] element = BoolType -> CompileExpr(ByteCast(1, <<e>>), scope, g)
    [] OTHER -> CompileExpr(e, scope, g)
CompileElements(es, element, scope, g) ==
  FoldLeft(LAMBDA h, i : Emit(CompileElement(es[i], element, scope, h), IF i = 1 THEN <<>> ELSE <<Op("Cat")>>, IF i = 1 THEN 0 ELSE -1),
           g, [i \in DOMAIN es |-> i])
CompileArrayOf(es, element, whole, scope, g) ==
  CASE element = NoType -> Refuse(g)
    [] whole # <<>> -> Emit(g, <<Push(whole[1])>>, 1)
    [] OTHER -> CompileElements(es, element, scope, g)
CompileTyped(es, element, scope, g) == CompileArrayOf(es, element, EncodeArray(es, element), scope, g)
CompileArray(es, scope, g) ==
  IF es = <<>> THEN Emit(g, <<Push(<<>>)>>, 1)
  ELSE CompileTyped(es, ElementTypeOf(es, scope.constants, scope.types), scope, g)

\* A stack name is copied from its depth below the temporaries; a constant is compiled in place.
CompileIdent(x, scope, g) ==
  CASE Bound(scope.names, x) -> Emit(g, PickFromDepth(DepthOf(scope.names, x) + g.depth), 1)
    [] ~Bound(scope.names, x) /\ x \in DOMAIN scope.constants -> CompileExpr(scope.constants[x], scope, g)
    [] OTHER -> Refuse(g)

\* Both branches leave one value at the depth where the condition was.
CompileOtherwise(e, scope, chosen) ==
  LET other == Emit(CompileExpr(e.kids[2], scope, chosen), <<Op("Else")>>, 0)
      done == CompileExpr(e.kids[3], scope, [other EXCEPT !.depth = chosen.depth])
  IN  [Emit(done, <<Op("EndIf")>>, 0) EXCEPT !.depth = chosen.depth + 1]
CompileIfElse(e, scope, g) == CompileOtherwise(e, scope, Emit(CompileExpr(e.kids[1], scope, g), <<Op("If")>>, -1))

OnBytes(op, l, r, types) == op \in {"Eq", "Ne", "Add"} /\ (ExprIsBytes(l, types) \/ ExprIsBytes(r, types))
OnTruths(op, l, r, scope) ==
  op \in {"Eq", "Ne"} /\ \A x \in {l, r} : ValueType(x, scope.constants, scope.types) = BoolType
\* A number joined with bytes is one byte.
CompileBytes(x, scope, g) ==
  Emit(CompileExpr(x, scope, g), IF ExprIsBytes(x, scope.types) THEN <<>> ELSE <<Num(1), Op("Num2Bin")>>, 0)
CompileOperation(op, l, r, scope, g) ==
  IF ~OnBytes(op, l, r, scope.types)
  THEN Emit(CompileAll(<<l, r>>, scope, g),
            (IF OnTruths(op, l, r, scope) THEN <<Op("Not"), Op("Not"), Op("Swap"), Op("Not"), Op("Not")>> ELSE <<>>)
              \o <<Op(BinaryOp[op])>>, -1)
  ELSE IF op = "Add" THEN Emit(CompileBytes(r, scope, CompileBytes(l, scope, g)), <<Op("Cat")>>, -1)
  ELSE Emit(CompileAll(<<l, r>>, scope, g), IF op = "Eq" THEN <<Op("Equal")>> ELSE <<Op("Equal"), Op("Not")>>, -1)
CompileBinary(e, scope, g) ==
  CompileOperation(e.s, e.kids[1],
    IF e.s \in Comparisons THEN CoerceTo(e.kids[2], ValueType(e.kids[1], scope.constants, scope.types)) ELSE e.kids[2],
    scope, g)

\* The left part runs from 0 to the index, the right part from the index to the size.
CompileSplit(e, scope, g) ==
  LET left == e.s = "left"
      source == Emit(CompileExpr(e.kids[1], scope, g), IF left THEN <<>> ELSE <<Op("Size")>>, IF left THEN 0 ELSE 1)
  IN  Emit(CompileExpr(e.kids[2], scope, source),
           (IF left THEN <<Num(0)>> ELSE <<>>) \o <<Op("Swap"), Op("Substr")>>, IF left THEN -1 ELSE -2)

\* An element is the bytes from index * size to there plus size.
CompileSlice(g, size) ==
  IF size = Unsized THEN Refuse(g)
  ELSE Emit(g, <<Num(size), Op("Mul"), Op("Dup"), Num(size), Op("Add"), Op("Substr")>>, -1)
CompileElementAt(source, index, scope, g) ==
  CompileSlice(CompileAll(<<source, index>>, scope, g),
               FixedTypeSize(ElementType(ValueType(source, scope.constants, scope.types))))
CompileIndex(e, scope, g) ==
  CompileElementAt(IF e.kids[1].op = "Ident" THEN e.kids[1] ELSE Substitute(e.kids[1], scope.constants), e.kids[2], scope, g)

\* A fixed array has its length at compile time, any other its bytes over the size of an element.
KnownLength(source, types) ==
  CASE source.op = "Array" -> Len(source.kids)
    [] source.op = "Ident" /\ source.s \in DOMAIN types -> ArraySize(types[source.s])
    [] OTHER -> Unsized
CountedIn(g, size) == IF size = Unsized THEN g ELSE Emit(g, <<Num(size), Op("Div")>>, 0)
CompileLength(source, scope, g) ==
  IF KnownLength(source, scope.types) # Unsized THEN Emit(g, <<Num(KnownLength(source, scope.types))>>, 1)
  ELSE CountedIn(Emit(CompileExpr(source, scope, g), <<Op("Size"), Op("Swap"), Op("Drop")>>, 0),
                 IF source.op = "Ident" /\ source.s \in DOMAIN scope.types
                 THEN FixedTypeSize(ElementType(scope.types[source.s])) ELSE Unsized)

\* byte[n](e) keeps a byte sequence of that size and makes n bytes of a number; byte[](e, n)
\* counts its second operand twice (compile.rs:4663-4668).
CompileCast(n, size, g) ==
  CASE n # Dynamic /\ size = NoCast -> SizedCopy(g, n)
    [] n # Dynamic /\ size \notin {n, NoCast, Unsized} -> Refuse(g)
    [] OTHER -> g
CompileByteCast(e, scope, g) ==
  CASE e.n = Dynamic /\ Len(e.kids) = 2 -> Emit(CompileAll(e.kids, scope, g), <<Op("Num2Bin")>>, 0)
    [] Len(e.kids) = 1 ->
         CompileCast(e.n, CastSize(ValueType(e.kids[1], scope.constants, scope.types)), CompileExpr(e.kids[1], scope, g))
    [] OTHER -> Refuse(g)

CompileCall(e, scope, g) ==
  LET args == CompileAll(e.kids, scope, g)
  IN  CASE e.s \in DOMAIN OpcodeCalls ->
             IF Len(e.kids) = OpcodeCalls[e.s][2] THEN Emit(args, <<Op(OpcodeCalls[e.s][1])>>, 1 - Len(e.kids)) ELSE Refuse(g)
        [] e.s = "bytes" /\ Len(e.kids) = 2 -> Emit(args, <<Op("Num2Bin")>>, -1)
        [] e.s = "bytes" /\ Len(e.kids) = 1 ->
             IF ExprIsBytes(e.kids[1], scope.types) THEN args ELSE SizedCopy(args, 8)
        [] e.s = "length" /\ Len(e.kids) = 1 -> CompileLength(e.kids[1], scope, g)
        [] e.s \in PassThrough /\ Len(e.kids) = 1 -> args
        [] e.s = "templateHash" /\ Len(e.kids) = 2 ->
             Emit(CompileExpr(TemplatePreimage(e.kids[1], e.kids[2]), scope, g), <<Op("Blake2b")>>, 0)
        [] OTHER -> Refuse(g)

PushLiteral(g, data) == IF data = <<>> THEN Refuse(g) ELSE Emit(g, <<Push(data[1])>>, 1)
CompileNew(e, scope, g) ==
  LET arg == CompileExpr(e.kids[1], scope, g)
  IN  CASE e.s = "LockingBytecodeNullData" ->
             PushLiteral(g, IF e.kids[1].op = "Array" THEN NullDataScript(e.kids[1].kids) ELSE <<>>)
        [] e.s = "ScriptPubKeyP2PK" ->
             Emit(arg, <<Push(<<0, 0, 32>>), Op("Swap"), Op("Cat"), Push(<<OpByte("CheckSig")>>), Op("Cat")>>, 0)
        [] e.s \in {"ScriptPubKeyP2SH", "ScriptPubKeyP2SHFromRedeemScript"} ->
             WrapScriptHash(IF e.s = "ScriptPubKeyP2SH" THEN arg ELSE Emit(arg, <<Op("Blake2b")>>, 0))
        [] OTHER -> Refuse(g)

CompileNullary(e, scope, g) ==
  CASE e.s = "ThisScriptSize" -> IF scope.size = 0 THEN Refuse(g) ELSE Emit(g, <<Num(scope.size)>>, 1)
    [] e.s = "ThisScriptSizeDataPrefix" -> IF scope.size = 0 THEN Refuse(g) ELSE Emit(g, <<Push(DataPrefix(scope.size))>>, 1)
    [] OTHER -> Emit(g, NullaryCode[e.s], 1)

CompileExpr(e, scope, g) ==
  CASE e.op = "Int" -> Emit(g, <<Num(e.n)>>, 1)
    [] e.op = "Bool" -> Emit(g, <<Op(IF e.n = 1 THEN "True" ELSE "False")>>, 1)
    [] e.op = "Byte" -> Emit(g, <<Push(<<e.n>>)>>, 1)
    [] e.op = "Array" -> CompileArray(e.kids, scope, g)
    [] e.op = "Ident" -> CompileIdent(e.s, scope, g)
    [] e.op = "IfElse" -> CompileIfElse(e, scope, g)
    [] e.op = "Unary" -> Emit(CompileExpr(e.kids[1], scope, g), <<Op(IF e.s = "Not" THEN "Not" ELSE "Negate")>>, 0)
    [] e.op = "Binary" -> CompileBinary(e, scope, g)
    [] e.op = "Append" -> CompileExpr(Binary("Add", e.kids[1], ArrayLit(Tail(e.kids))), scope, g)
    [] e.op = "Split" -> CompileSplit(e, scope, g)
    [] e.op = "Slice" -> Emit(CompileAll(e.kids, scope, g), <<Op("Substr")>>, -2)
    [] e.op = "Index" -> CompileIndex(e, scope, g)
    [] e.op = "Length" -> CompileExpr(Call("length", e.kids), scope, g)
    [] e.op = "ByteCast" -> CompileByteCast(e, scope, g)
    [] e.op = "Call" -> CompileCall(e, scope, g)
    [] e.op = "New" -> CompileNew(e, scope, g)
    [] e.op = "Nullary" -> CompileNullary(e, scope, g)
    [] e.op = "Introspect" -> Emit(CompileExpr(e.kids[1], scope, g), IntrospectionCode[e.s], 0)
    [] OTHER -> Refuse(g)
=============================================================================
