------------------------------ MODULE SilverAst ------------------------------
(***************************************************************************)
(* The tree of a SilverScript contract as the passes of the compiler see   *)
(* it, and its types (ast/mod.rs, compile.rs, debug_value_types.rs).       *)
(*                                                                         *)
(* A type is a base and its array dimensions, outermost last; an           *)
(* expression is an operator with a name, a number and operands; a         *)
(* statement has names, types, expressions and blocks.  Positions in the   *)
(* text, strings, dates and dimensions named by a constant are left out.   *)
(***************************************************************************)
EXTENDS Integers, Sequences, TLC
LOCAL INSTANCE SequencesExt

Dynamic == -1       \* T[]
Inferred == -2      \* T[_]
Unsized == -1       \* the size of a type that has none

TypeRef(base, dims) == [base |-> base, dims |-> dims]
Scalar(base) == TypeRef(base, <<>>)
ArrayOf(t, size) == TypeRef(t.base, Append(t.dims, size))
NoType == Scalar("none")
IntType == Scalar("int")
BoolType == Scalar("bool")
ByteType == Scalar("byte")
Bytes == TypeRef("byte", <<Dynamic>>)

IsArray(t) == t.dims # <<>>
ElementType(t) == IF IsArray(t) THEN TypeRef(t.base, Front(t.dims)) ELSE NoType
ArraySize(t) == IF IsArray(t) /\ Last(t.dims) >= 0 THEN Last(t.dims) ELSE Unsized

ScalarSize == [int |-> 8, bool |-> 1, byte |-> 1, pubkey |-> 32, sig |-> 65, datasig |-> 64,
               string |-> Unsized, none |-> Unsized]
\* The size an element takes in a packed array: nested arrays have none.
FixedTypeSize(t) ==
  IF ~IsArray(t) THEN ScalarSize[t.base]
  ELSE IF Len(t.dims) = 1 /\ t.base \in {"byte", "int"} /\ ArraySize(t) # Unsized
       THEN ArraySize(t) * ScalarSize[t.base] ELSE Unsized
\* The size of a field of the state: every dimension counts.
FieldPayload(t) ==
  IF ScalarSize[t.base] = Unsized \/ \E i \in DOMAIN t.dims : t.dims[i] < 0 THEN Unsized
  ELSE FoldLeft(LAMBDA size, dim : size * dim, ScalarSize[t.base], t.dims)

TypeAssignable(actual, expected) ==
  \/ actual = expected
  \/ /\ IsArray(actual) /\ IsArray(expected) /\ ElementType(actual) = ElementType(expected)
     /\ \/ Last(expected.dims) \in {Dynamic, Inferred}
        \/ ArraySize(actual) # Unsized /\ ArraySize(actual) = ArraySize(expected)

BytesType(t) == t.base \in {"byte", "pubkey", "sig", "datasig", "string"} \/ IsArray(t)

Expr(op, name, number, kids) == [op |-> op, s |-> name, n |-> number, kids |-> kids]
IntLit(n) == Expr("Int", "", n, <<>>)
BoolLit(b) == Expr("Bool", "", IF b THEN 1 ELSE 0, <<>>)
ByteLit(n) == Expr("Byte", "", n, <<>>)
ArrayLit(es) == Expr("Array", "", 0, es)
Ident(x) == Expr("Ident", x, 0, <<>>)
Unary(op, e) == Expr("Unary", op, 0, <<e>>)
Binary(op, l, r) == Expr("Binary", op, 0, <<l, r>>)
IfElse(c, t, e) == Expr("IfElse", "", 0, <<c, t, e>>)
Call(f, args) == Expr("Call", f, 0, args)
\* A cast to byte[n] or, with n Dynamic, to byte[].
ByteCast(n, args) == Expr("ByteCast", "", n, args)
Split(source, index, part) == Expr("Split", part, 0, <<source, index>>)
Slice(source, from, to) == Expr("Slice", "", 0, <<source, from, to>>)
ArrayIndex(source, index) == Expr("Index", "", 0, <<source, index>>)
LengthOf(source) == Expr("Length", "", 0, <<source>>)
AppendTo(source, args) == Expr("Append", "", 0, <<source>> \o args)
Nullary(op) == Expr("Nullary", op, 0, <<>>)
Introspect(kind, index) == Expr("Introspect", kind, 0, <<index>>)
New(name, args) == Expr("New", name, 0, args)
TupleField(call, n) == Expr("TupleField", "", n, <<call>>)

Statement(op, names, types, exprs, blocks) ==
  [op |-> op, names |-> names, types |-> types, exprs |-> exprs, blocks |-> blocks]
VarDef(t, x, e) == Statement("Var", <<x>>, <<t>>, <<e>>, <<>>)
VarDecl(t, x) == Statement("Var", <<x>>, <<t>>, <<>>, <<>>)
TupleDef(tl, l, tr, r, e) == Statement("Tuple", <<l, r>>, <<tl, tr>>, <<e>>, <<>>)
Assign(x, e) == Statement("Assign", <<x>>, <<>>, <<e>>, <<>>)
Require(e) == Statement("Require", <<>>, <<>>, <<e>>, <<>>)
TimeOp(var, e) == Statement("Time", <<var>>, <<>>, <<e>>, <<>>)
Block(body) == Statement("Block", <<>>, <<>>, <<>>, <<body>>)
If(c, body) == Statement("If", <<>>, <<>>, <<c>>, <<body>>)
IfElseDo(c, body, other) == Statement("If", <<>>, <<>>, <<c>>, <<body, other>>)
For(i, from, to, max, body) == Statement("For", <<i>>, <<>>, <<from, to, max>>, <<body>>)
Do(f, args) == Statement("Call", <<f>>, <<>>, args, <<>>)
CallInto(ts, xs, f, args) == Statement("CallInto", <<f>> \o xs, ts, args, <<>>)
ReadState(ts, xs, index) == Statement("ReadState", xs, ts, <<index>>, <<>>)
ValidateState(index, values) == Statement("ValidateState", <<>>, <<>>, <<index>> \o values, <<>>)
Return(es) == Statement("Return", <<>>, <<>>, es, <<>>)

Param(t, x) == [type |-> t, name |-> x]
Field(t, x, e) == [type |-> t, name |-> x, value |-> e]
Function(name, entry, params, returns, body) ==
  [name |-> name, entry |-> entry, params |-> params, returns |-> returns, body |-> body]
\* Constants and constructor arguments are one function from names to expressions.
Contract(constants, fields, functions) == [constants |-> constants, fields |-> fields, functions |-> functions]
Entrypoints(contract) == SelectSeq(contract.functions, LAMBDA f : f.entry)

-----------------------------------------------------------------------------
(* The types of expressions. *)

\* One more name or a changed one in a function from names.
Bind(f, name, value) == (name :> value) @@ f
Unbind(f, names) == [x \in DOMAIN f \ names |-> f[x]]

IntCalls ==
  {"int", "OpBin2Num", "OpTxInputScriptSigLen", "OpTxInputSpkLen", "OpTxOutputSpkLen"}
BoolCalls == {"bool", "checkSig"}
HashCalls == {"blake2b", "blake2bWithKey", "blake3", "blake3WithKey", "templateHash", "sha256"}
\* Calls whose value is compared and joined as bytes (expr_is_bytes).
ByteCalls ==
  HashCalls \cup {"bytes", "OpTxInputScriptSigSubstr", "OpTxInputSpkSubstr", "OpTxOutputSpkSubstr", "OpNum2Bin"}
ByteIntrospection == {"InputScriptPubKey", "InputSigScript", "OutputScriptPubKey"}
ByteNullary == {"ActiveScriptPubKey", "ThisScriptSizeDataPrefix"}

AllBytes(es) == \A i \in DOMAIN es : es[i].op = "Byte"
CallType(f) ==
  CASE f \in IntCalls -> IntType
    [] f \in BoolCalls -> BoolType
    [] f \in {"pubkey", "sig", "datasig"} -> Scalar(f)
    [] f \in HashCalls -> ArrayOf(ByteType, 32)
    [] OTHER -> Bytes

TypeOfSum(l, r) ==
  CASE l = NoType \/ r = NoType -> NoType
    [] l = ByteType \/ r = ByteType -> IntType
    [] BytesType(l) -> l
    [] BytesType(r) -> r
    [] OTHER -> IntType
TypeOfChoice(l, r) == IF l = r \/ (BytesType(l) /\ BytesType(r)) THEN l ELSE Bytes
TypeOfElement(t) == IF IsArray(t) THEN ElementType(t) ELSE Bytes

RECURSIVE ValueType(_, _, _)
\* infer_debug_expr_value_type; NoType for an expression it cannot type.
ValueType(e, constants, types) ==
  LET of(i) == ValueType(e.kids[i], constants, types)
  IN  CASE e.op = "Int" -> IntType
        [] e.op = "Bool" -> BoolType
        [] e.op = "Byte" -> ByteType
        [] e.op = "Ident" ->
             IF e.s \in DOMAIN types THEN types[e.s]
             ELSE IF e.s \in DOMAIN constants THEN ValueType(constants[e.s], constants, types) ELSE NoType
        [] e.op = "Unary" -> IF e.s = "Not" THEN BoolType ELSE IntType
        [] e.op = "Binary" ->
             (CASE e.s \in {"Or", "And", "Eq", "Ne", "Lt", "Le", "Gt", "Ge"} -> BoolType
                [] e.s = "Add" -> TypeOfSum(of(1), of(2))
                [] OTHER -> IntType)
        [] e.op = "IfElse" -> TypeOfChoice(of(2), of(3))
        [] e.op = "Array" -> IF AllBytes(e.kids) THEN ArrayOf(ByteType, Len(e.kids)) ELSE Bytes
        [] e.op = "Append" -> of(1)
        [] e.op = "Index" -> TypeOfElement(of(1))
        [] e.op = "Length" -> IntType
        [] e.op = "Nullary" -> IF e.s \in ByteNullary THEN Bytes ELSE IntType
        [] e.op = "Introspect" -> IF e.s \in ByteIntrospection THEN Bytes ELSE IntType
        [] e.op = "ByteCast" -> ArrayOf(ByteType, e.n)
        [] e.op = "Call" -> CallType(e.s)
        [] e.op = "TupleField" -> NoType
        [] OTHER -> Bytes

RECURSIVE ExprIsBytes(_, _)
\* expr_is_bytes: whether equality and + work on bytes rather than on numbers.
ExprIsBytes(e, types) ==
  CASE e.op \in {"Byte", "Array", "Slice", "New", "Split", "ByteCast"} -> TRUE
    [] e.op = "Call" -> e.s \in ByteCalls
    [] e.op = "Binary" -> e.s = "Add" /\ \E i \in 1 .. 2 : ExprIsBytes(e.kids[i], types)
    [] e.op = "IfElse" -> \A i \in 2 .. 3 : ExprIsBytes(e.kids[i], types)
    [] e.op = "Introspect" -> e.s \in ByteIntrospection
    [] e.op = "Nullary" -> e.s \in ByteNullary
    [] e.op = "Index" ->
         /\ e.kids[1].op = "Ident" /\ e.kids[1].s \in DOMAIN types
         /\ IsArray(types[e.kids[1].s]) /\ ElementType(types[e.kids[1].s]) # IntType
    [] e.op = "Ident" -> e.s \in DOMAIN types /\ BytesType(types[e.s])
    [] OTHER -> FALSE

RECURSIVE LiteralType(_)
\* infer_fixed_array_literal_type, on the literal itself: NoType if it is not one.
LiteralType(e) ==
  CASE e.op = "Int" -> IntType
    [] e.op = "Bool" -> BoolType
    [] e.op = "Byte" -> ByteType
    [] e.op = "Array" /\ AllBytes(e.kids) -> ArrayOf(ByteType, Len(e.kids))
    [] OTHER -> NoType

\* The type of the elements of an array expression (infer_fixed_array_runtime_type).
OneSizedType(ts) == FixedTypeSize(Head(ts)) # Unsized /\ \A i \in DOMAIN ts : ts[i] = Head(ts)
FirstSized(literals, values) ==
  IF OneSizedType(literals) THEN Head(literals) ELSE IF OneSizedType(values) THEN Head(values) ELSE NoType
ElementTypeOf(es, constants, types) ==
  FirstSized([i \in DOMAIN es |-> LiteralType(es[i])], [i \in DOMAIN es |-> ValueType(es[i], constants, types)])

\* An integer literal in the range of a byte becomes one where a byte is declared or compared.
ByteInRange(e) == e.op = "Int" /\ e.n \in 0 .. 255
CoerceTo(e, t) == IF t = ByteType /\ ByteInRange(e) THEN ByteLit(e.n) ELSE e

ArrayLiteralMatches(es, t, types) ==
  /\ IsArray(t) /\ ArraySize(t) # Unsized => Len(es) = ArraySize(t)
  /\ \A i \in DOMAIN es :
       IF es[i].op = "Ident"
       THEN es[i].s \in DOMAIN types /\ TypeAssignable(types[es[i].s], ElementType(t))
       ELSE TypeAssignable(LiteralType(es[i]), ElementType(t)) \/ CoerceTo(es[i], ElementType(t)).op = "Byte"

\* The size a declaration T[_] takes from its initialiser; NoType if it shows none.
InferredArrayType(declared, init, types) ==
  LET sized(n) == ArrayOf(ElementType(declared), n)
  IN  CASE init.op = "Array" /\ ArrayLiteralMatches(init.kids, sized(Len(init.kids)), types) ->
             sized(Len(init.kids))
        [] init.op = "Ident" /\ init.s \in DOMAIN types /\ IsArray(types[init.s])
             /\ ElementType(types[init.s]) = ElementType(declared) /\ ArraySize(types[init.s]) # Unsized ->
             sized(ArraySize(types[init.s]))
        [] OTHER -> NoType

-----------------------------------------------------------------------------
(* The names of a tree. *)

RECURSIVE NamesIn(_)
NamesIn(e) == (IF e.op = "Ident" THEN {e.s} ELSE {}) \cup UNION {NamesIn(e.kids[i]) : i \in DOMAIN e.kids}

RECURSIVE Mentions(_, _)
\* How often an expression mentions a name.
Mentions(e, name) ==
  FoldLeft(LAMBDA n, kid : n + Mentions(kid, name), IF e.op = "Ident" /\ e.s = name THEN 1 ELSE 0, e.kids)

RECURSIVE AssignedIn(_)
\* The names a body assigns, the counters of its loops included.
AssignedIn(body) ==
  UNION {(IF body[i].op \in {"Assign", "For"} THEN {body[i].names[1]} ELSE {})
           \cup UNION {AssignedIn(body[i].blocks[b]) : b \in DOMAIN body[i].blocks} : i \in DOMAIN body}

RECURSIVE Substitute(_, _)
\* Names replaced by expressions, all at once.
Substitute(e, values) ==
  IF e.op = "Ident" THEN IF e.s \in DOMAIN values THEN values[e.s] ELSE e
  ELSE [e EXCEPT !.kids = [i \in DOMAIN e.kids |-> Substitute(e.kids[i], values)]]

\* Integers known when the contract is compiled: <<value>>, or <<>> if one is not constant.
ConstNegated(v) == [i \in DOMAIN v |-> -v[i]]
ConstOperation(op, left, right) ==
  LET l == left[1]  r == right[1]
  IN  CASE left = <<>> \/ right = <<>> -> <<>>
        [] op = "Add" -> <<l + r>>
        [] op = "Sub" -> <<l - r>>
        [] op = "Mul" -> <<l * r>>
        [] op = "Div" /\ r > 0 -> <<l \div r>>
        [] op = "Mod" /\ r > 0 -> <<l % r>>
        [] OTHER -> <<>>
RECURSIVE ConstInt(_, _)
ConstInt(e, constants) ==
  LET of(i) == ConstInt(e.kids[i], constants)
  IN  CASE e.op = "Int" -> <<e.n>>
        [] e.op = "Ident" /\ e.s \in DOMAIN constants -> ConstInt(constants[e.s], constants)
        [] e.op = "Unary" /\ e.s = "Neg" -> ConstNegated(of(1))
        [] e.op = "Binary" -> ConstOperation(e.s, of(1), of(2))
        [] OTHER -> <<>>
=============================================================================
