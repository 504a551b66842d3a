---------------------------- MODULE SilverMeaning -----------------------------
(***************************************************************************)
(* What a SilverScript contract says: the reference the compiler is held   *)
(* to.  An entry point permits a spend if every requirement it meets       *)
(* holds, and an expression without a value (a division by zero, a slice   *)
(* outside its source, an output that is not there) forbids it.            *)
(*                                                                         *)
(* Values are numbers, truths, byte strings and lists of numbers, not      *)
(* stack items; the parties of a transaction are keys and states of this   *)
(* contract, not scripts.  Only signatures, hashes and the two forms of an *)
(* output script are taken from the machine.                               *)
(***************************************************************************)
EXTENDS SilverAst, SilverMachine
LOCAL INSTANCE SequencesExt

Value(kind, n, bytes, items) == [kind |-> kind, n |-> n, b |-> bytes, items |-> items]
IntVal(n) == Value("int", n, <<>>, <<>>)
BoolVal(b) == Value("bool", IF b THEN 1 ELSE 0, <<>>, <<>>)
BytesVal(b) == Value("bytes", 0, b, <<>>)
ListVal(numbers) == Value("list", 0, <<>>, numbers)
True(v) == v.n # 0

\* A value as the item that stands for it; a number in an array or in the state takes eight bytes.
Wide(numbers) == FlattenSeq([i \in DOMAIN numbers |-> Padded(numbers[i], 8)[1]])
Encoded(v) ==
  CASE v.kind = "int" -> Item(v.n)
    [] v.kind = "bool" -> Truth(True(v))
    [] v.kind = "bytes" -> v.b
    [] v.kind = "list" -> Wide(v.items)

\* Who an output or an input belongs to.
ToKey(key) == [kind |-> "key", key |-> key, state |-> <<>>]
ToSelf(state) == [kind |-> "self", key |-> <<>>, state |-> state]
\* The bytes of its script, as far as a contract can tell them apart.
SpkOf(owner) ==
  IF owner.kind = "key" THEN PayToKey(owner.key)
  ELSE <<-1>> \o FlattenSeq([i \in DOMAIN owner.state |-> Append(Encoded(owner.state[i]), -1)])

-----------------------------------------------------------------------------
(* Names to values: a sequence of pairs, the newest last. *)

Pair(name, value) == [name |-> name, value |-> value]
Knows(env, x) == \E i \in DOMAIN env : env[i].name = x
Place(env, x) == CHOOSE i \in DOMAIN env : env[i].name = x /\ \A j \in i + 1 .. Len(env) : env[j].name # x

\* A place in the transaction: <<element>>, or <<>> if there is none.
At(seq, v) == IF v.n + 1 \in DOMAIN seq THEN <<seq[v.n + 1]>> ELSE <<>>
Some(v) == <<v>>
None == <<>>

Compare(op, l, r) ==
  CASE op = "Lt" -> l.n < r.n
    [] op = "Le" -> l.n <= r.n
    [] op = "Gt" -> l.n > r.n
    [] op = "Ge" -> l.n >= r.n
    [] op = "And" -> True(l) /\ True(r)
    [] op = "Or" -> True(l) \/ True(r)
\* A number compared with a byte is that byte, beside a byte string it is one byte of it.
OneByte(v) == IF v.kind = "int" THEN Padded(v.n, 1) ELSE Some(v.b)
SameValue(l, r) == IF l.kind # r.kind THEN OneByte(l) = OneByte(r) ELSE l = r
JoinedBytes(l, r) == IF l = None \/ r = None THEN None ELSE Some(BytesVal(l[1] \o r[1]))
Joined(l, r) ==
  CASE l.kind = "int" /\ r.kind = "int" -> Some(IntVal(l.n + r.n))
    [] l.kind = "list" -> Some(ListVal(l.items \o r.items))
    [] OTHER -> JoinedBytes(OneByte(l), OneByte(r))
Arithmetic(op, l, r) ==
  CASE op = "Add" -> Joined(l, r)
    [] op = "Sub" -> Some(IntVal(l.n - r.n))
    [] op = "Mul" -> Some(IntVal(l.n * r.n))
    [] op = "Eq" -> Some(BoolVal(SameValue(l, r)))
    [] op = "Ne" -> Some(BoolVal(~SameValue(l, r)))
    [] op \in {"Div", "Mod"} ->
         IF r.n = 0 THEN None
         ELSE Some(IntVal(IF op = "Div" THEN Quotient(l.n, r.n) ELSE l.n - r.n * Quotient(l.n, r.n)))
    [] OTHER -> Some(BoolVal(Compare(op, l, r)))

Part(v, from, to) ==
  IF 0 <= from /\ from <= to /\ to <= Len(v.b) THEN Some(BytesVal(SubSeq(v.b, from + 1, to))) ELSE None
BytesOf(bytes) == IF bytes = None THEN None ELSE Some(BytesVal(bytes[1]))
Sized(v, size) == IF v.kind = "bytes" THEN Some(v) ELSE BytesOf(Padded(v.n, size))
Measure(v) == IntVal(IF v.kind = "list" THEN Len(v.items) ELSE Len(v.b))
Builtin(f, a) ==
  CASE f \in {"int", "byte", "bool", "sig", "pubkey", "datasig"} -> Some(a[1])
    [] f = "bytes" -> Sized(a[1], IF Len(a) = 2 THEN a[2].n ELSE 8)
    [] f = "length" -> Some(Measure(a[1]))
    [] f \in {"blake2b", "blake3", "sha256"} -> Some(BytesVal(Hash(a[1].b)))
    [] f = "checkSig" -> Some(BoolVal(a[1].b = SignatureOf(a[2].b)))
    [] f = "ScriptPubKeyP2PK" -> Some(BytesVal(PayToKey(a[1].b)))
    [] OTHER -> None

SeenOf(what, party) ==
  CASE what \in {"InputValue", "OutputValue"} -> IntVal(party.value)
    [] what \in {"InputScriptPubKey", "OutputScriptPubKey"} -> BytesVal(SpkOf(party.to))
    [] what = "InputSequenceNumber" -> IntVal(party.seq)
SeenAt(what, party) == IF party = None THEN None ELSE Some(SeenOf(what, party[1]))
Seen(e, v, context) ==
  SeenAt(e.s, At(IF e.s \in {"InputValue", "InputScriptPubKey", "InputSequenceNumber"}
                 THEN context.tx.ins ELSE context.tx.outs, v))
Fact(op, context) ==
  LET tx == context.tx
  IN  CASE op = "ActiveInputIndex" -> IntVal(context.input - 1)
        [] op = "ActiveScriptPubKey" -> BytesVal(SpkOf(tx.ins[context.input].to))
        [] op = "TxInputsLength" -> IntVal(Len(tx.ins))
        [] op = "TxOutputsLength" -> IntVal(Len(tx.outs))
        [] op = "TxLockTime" -> IntVal(tx.lock)

-----------------------------------------------------------------------------
(* Expressions and statements.  Running is [env, ok, given]: the names and *)
(* their values, whether the spend is still permitted, what was returned.  *)

RECURSIVE Eval(_, _, _), Perform(_, _, _), CallOf(_, _, _)
\* All of them: a sequence of values, and whether each has one.
WithValue(all, v) == [ok |-> all.ok /\ v # None, values |-> all.values \o v]
EvalAll(es, env, context) ==
  FoldLeft(LAMBDA all, e : WithValue(all, Eval(e, env, context)), [ok |-> TRUE, values |-> <<>>], es)

OwnFunction(f, context) == \E i \in DOMAIN context.functions : context.functions[i].name = f /\ ~context.functions[i].entry

ElementAt(v, i) ==
  IF i \notin 0 .. Measure(v).n - 1 THEN None
  ELSE Some(IF v.kind = "list" THEN IntVal(v.items[i + 1]) ELSE BytesVal(<<v.b[i + 1]>>))
ListOf(v) ==
  IF \E i \in DOMAIN v : v[i].kind = "bytes" THEN BytesVal(FlattenSeq([i \in DOMAIN v |-> OneByte(v[i])[1]]))
  ELSE ListVal([i \in DOMAIN v |-> v[i].n])
Operation(e, v, context) ==
  CASE e.op = "Unary" -> Some(IF e.s = "Not" THEN BoolVal(~True(v[1])) ELSE IntVal(-v[1].n))
    [] e.op = "Binary" -> Arithmetic(e.s, v[1], v[2])
    [] e.op = "Array" -> Some(ListOf(v))
    [] e.op = "Append" -> Joined(v[1], IF v[1].kind = "list" THEN ListVal([i \in DOMAIN Tail(v) |-> Tail(v)[i].n]) ELSE v[2])
    [] e.op = "Split" -> IF e.s = "left" THEN Part(v[1], 0, v[2].n) ELSE Part(v[1], v[2].n, Len(v[1].b))
    [] e.op = "Slice" -> Part(v[1], v[2].n, v[3].n)
    [] e.op = "Index" -> ElementAt(v[1], v[2].n)
    [] e.op = "Length" -> Some(Measure(v[1]))
    [] e.op = "ByteCast" -> IF e.n = Dynamic /\ Len(v) = 1 THEN Some(v[1]) ELSE Sized(v[1], IF Len(v) = 2 THEN v[2].n ELSE e.n)
    [] e.op = "Introspect" -> Seen(e, v[1], context)
    [] OTHER -> Builtin(e.s, v)
OperationOf(e, all, context) == IF all.ok THEN Operation(e, all.values, context) ELSE None

NamedValue(x, env, context) ==
  CASE Knows(env, x) -> Some(env[Place(env, x)].value)
    [] ~Knows(env, x) /\ x \in DOMAIN context.constants -> Eval(context.constants[x], env, context)
    [] OTHER -> None
Choice(c, e, env, context) == IF c = None THEN None ELSE Eval(e.kids[IF True(c[1]) THEN 2 ELSE 3], env, context)
\* One of the values a call gave.
Given(r, i) == IF r.ok /\ i \in DOMAIN r.given THEN Some(r.given[i]) ELSE None
Only(r) == IF Len(r.given) = 1 THEN Given(r, 1) ELSE None
CallWith(call, env, context) == CallOf(call.s, EvalAll(call.kids, env, context), context)

Eval(e, env, context) ==
  CASE e.op = "Int" -> Some(IntVal(e.n))
    [] e.op = "Bool" -> Some(BoolVal(e.n = 1))
    [] e.op = "Byte" -> Some(BytesVal(<<e.n>>))
    [] e.op = "Nullary" -> Some(Fact(e.s, context))
    [] e.op = "Ident" -> NamedValue(e.s, env, context)
    [] e.op = "IfElse" -> Choice(Eval(e.kids[1], env, context), e, env, context)
    [] e.op = "Call" /\ OwnFunction(e.s, context) -> Only(CallWith(e, env, context))
    [] e.op = "TupleField" -> Given(CallWith(e.kids[1], env, context), e.n + 1)
    [] OTHER -> OperationOf(e, EvalAll(e.kids, env, context), context)

Running(env) == [env |-> env, ok |-> TRUE, given |-> <<>>]
Forbidden(r) == [r EXCEPT !.ok = FALSE]
\* A number given to a byte is that byte.
Typed(t, v) == IF t = ByteType /\ v.kind = "int" THEN BytesVal(<<v.n>>) ELSE v
Declared(r, types, names, values) ==
  [r EXCEPT !.env = @ \o [i \in DOMAIN names |-> Pair(names[i], Typed(types[i], values[i]))]]
\* The names of a block end with it, and what it assigned of the names around it stays.
Left(r, names) == [r EXCEPT !.env = SubSeq(@, 1, names)]
Inside(r, body, names, context) ==
  Left(FoldLeft(LAMBDA a, s : Perform(a, s, context), [r EXCEPT !.env = @ \o names], body), Len(r.env))
Turns(r, s, from, to, most, context) ==
  IF to - from > most THEN Forbidden(r)
  ELSE FoldLeft(LAMBDA a, i : Inside(a, s.blocks[1], <<Pair(s.names[1], IntVal(i))>>, context),
                r, [k \in 1 .. (IF to > from THEN to - from ELSE 0) |-> from + k - 1])
\* The branch that runs, as a sequence of no or one block.
Taken(c, blocks) == IF True(c) THEN <<Head(blocks)>> ELSE Tail(blocks)
EmptyOf(t) == IF t.base = "int" THEN ListVal(<<>>) ELSE BytesVal(<<>>)
Halves(r, s, left, right) == IF left = None \/ right = None THEN Forbidden(r) ELSE Declared(r, s.types, s.names, <<left[1], right[1]>>)
OtherState(r, s, other) ==
  IF other = None \/ (other # None /\ other[1].to.kind # "self") THEN Forbidden(r)
  ELSE Declared(r, s.types, s.names, other[1].to.state)
NewState(r, paid, values) == IF paid # None /\ paid[1].to = ToSelf(values) THEN r ELSE Forbidden(r)
\* What a call gave, into the names that take it.
Taking(r, s, call) ==
  CASE ~call.ok \/ (s.op = "CallInto" /\ Len(call.given) # Len(s.types)) -> Forbidden(r)
    [] s.op = "CallInto" -> Declared(r, s.types, Tail(s.names), call.given)
    [] OTHER -> r

PerformWith(r, s, v, context) ==
  CASE s.op = "Var" -> Declared(r, s.types, s.names, IF s.exprs = <<>> THEN <<EmptyOf(s.types[1])>> ELSE v)
    [] s.op = "Assign" -> [r EXCEPT !.env[Place(r.env, s.names[1])].value = IF @.kind = "bytes" THEN Typed(ByteType, v[1]) ELSE v[1]]
    [] s.op = "Require" -> IF True(v[1]) THEN r ELSE Forbidden(r)
    [] s.op = "Time" ->
         IF v[1].n <= (IF s.names[1] = "this.age" THEN context.tx.ins[context.input].seq ELSE context.tx.lock) THEN r ELSE Forbidden(r)
    [] s.op \in {"Block", "If"} ->
         FoldLeft(LAMBDA a, body : Inside(a, body, <<>>, context), r, IF s.op = "If" THEN Taken(v[1], s.blocks) ELSE s.blocks)
    [] s.op = "For" -> Turns(r, s, v[1].n, v[2].n, v[3].n, context)
    [] s.op \in {"Call", "CallInto"} -> Taking(r, s, CallOf(s.names[1], [ok |-> TRUE, values |-> v], context))
    [] s.op = "ReadState" -> OtherState(r, s, At(context.tx.ins, v[1]))
    [] s.op = "ValidateState" -> NewState(r, At(context.tx.outs, v[1]), Tail(v))
    [] s.op = "Return" -> [r EXCEPT !.given = v]
PerformIf(r, s, all, context) == IF all.ok THEN PerformWith(r, s, all.values, context) ELSE Forbidden(r)
Perform(r, s, context) ==
  CASE ~r.ok -> r
    [] s.op = "Tuple" ->
         LET half(p) == Eval(Split(s.exprs[1].kids[1], s.exprs[1].kids[2], p), r.env, context)
         IN  Halves(r, s, half("left"), half("right"))
    [] OTHER -> PerformIf(r, s, EvalAll(s.exprs, r.env, context), context)

Globals(context) == [i \in DOMAIN context.fields |-> Pair(context.fields[i].name, context.state[i])]
CallOfBody(g, values, context) ==
  FoldLeft(LAMBDA a, s : Perform(a, s, context),
           Running(Globals(context) \o [i \in DOMAIN g.params |-> Pair(g.params[i].name, Typed(g.params[i].type, values[i]))]), g.body)
CallOf(f, args, context) ==
  LET g == context.functions[CHOOSE i \in DOMAIN context.functions : context.functions[i].name = f]
  IN  IF ~args.ok \/ Len(args.values) # Len(g.params) THEN Forbidden(Running(<<>>))
      ELSE CallOfBody(g, args.values, context)

\* A spend is an entry point, its arguments, the transaction and the input that is the contract.
Permitted(r) == r.ok /\ (r.given = <<>> \/ (Len(r.given) = 1 /\ True(r.given[1])))
Permits(contract, spend) ==
  Permitted(CallOf(spend.entry, [ok |-> TRUE, values |-> spend.args],
                   [functions |-> contract.functions, constants |-> contract.constants, fields |-> contract.fields,
                    state |-> spend.tx.ins[spend.input].to.state, tx |-> spend.tx, input |-> spend.input]))
=============================================================================
