---------------------------- MODULE SilverMachine ----------------------------
(***************************************************************************)
(* The script machine of the Kaspa node (kaspa_txscript, outside this      *)
(* repository), as the compiler uses it: stack items are byte tuples,      *)
(* numbers little-endian with a sign bit, and a script is accepted when it *)
(* ends with one true item.                                                *)
(*                                                                         *)
(* A hash is its preimage behind a mark, so different items have different *)
(* hashes; an opcode's byte is its place in OpNames above the values of    *)
(* data.  Scripts are sequences of operations, and ScriptBytes is what the *)
(* node and the introspection opcodes see of them.                         *)
(***************************************************************************)
EXTENDS Integers, Sequences
LOCAL INSTANCE SequencesExt

\* Numbers as items: the least number of bytes, the sign in the last one.
RECURSIVE Magnitude(_)
Magnitude(n) == IF n = 0 THEN <<>> ELSE <<n % 256>> \o Magnitude(n \div 256)
SignBit == 128
HasSign(item) == item # <<>> /\ Last(item) >= SignBit
Signed(bytes, negative) ==
  IF HasSign(bytes) THEN Append(bytes, IF negative THEN SignBit ELSE 0)
  ELSE IF negative THEN [bytes EXCEPT ![Len(bytes)] = @ + SignBit] ELSE bytes
Item(n) == Signed(Magnitude(IF n < 0 THEN -n ELSE n), n < 0)
Truth(b) == IF b THEN <<1>> ELSE <<>>

Unsigned(bytes) == FoldRight(LAMBDA b, acc : acc * 256 + b, bytes, 0)
Number(item) ==
  IF HasSign(item) THEN -Unsigned([item EXCEPT ![Len(item)] = @ - SignBit]) ELSE Unsigned(item)
IsNumber(item) == Len(item) <= 8 /\ \A i \in DOMAIN item : item[i] \in 0 .. 255
\* A number in exactly so many bytes; the empty tuple of tuples if it does not fit.
\* The sign moves to the last byte.
PaddedItem(item, size) ==
  LET bare(i) == IF i < Len(item) THEN item[i] ELSE IF i = Len(item) THEN item[i] % SignBit ELSE 0
  IN  IF Len(item) > size THEN <<>>
      ELSE <<[i \in 1 .. size |-> bare(i) + (IF i = size /\ HasSign(item) THEN SignBit ELSE 0)]>>
Padded(n, size) == PaddedItem(Item(n), size)

Hash(item) == <<1000 + Len(item)>> \o item
SignatureOf(key) == <<900>> \o key

-----------------------------------------------------------------------------
(* Operations and the bytes they take. *)

Op(name) == [op |-> name, data |-> <<>>]
\* add_i64: the numbers -1 to 16 have an opcode of their own.
Num(n) == [op |-> "Num", data |-> Item(n)]
\* add_data_with_push_opcode: the length of the data, and the data.
Push(data) == [op |-> "Push", data |-> data]

OpNames ==
  <<"Dup", "Drop", "Nip", "Over", "Pick", "Roll", "Rot", "Swap", "2Swap", "2Rot", "ToAlt", "FromAlt", "If", "Else",
    "EndIf", "Verify", "Not", "Negate", "Add", "Sub", "Mul", "Div", "Mod", "NumEqual", "NumNotEqual", "Lt", "Le",
    "Gt", "Ge", "BoolAnd", "BoolOr", "Equal", "Cat", "Substr", "Size", "Num2Bin", "Bin2Num", "Blake2b", "CheckSig",
    "True", "False", "TxInputIndex", "TxInputSpk", "TxInputAmount", "TxInputSeq", "TxInputScriptSigLen",
    "TxInputScriptSigSubstr", "TxOutputSpk", "TxOutputAmount", "TxInputCount", "TxOutputCount", "TxLockTime",
    "CheckSequenceVerify", "CheckLockTimeVerify", "Sha256", "Blake3", "Blake2bWithKey", "Blake3WithKey",
    "TxOutputSpkLen", "TxInputSpkLen", "TxVersion", "Return", "And", "Or", "Xor", "TxOutputSpkSubstr",
    "TxInputSpkSubstr">>
OpByte(name) == 300 + CHOOSE i \in DOMAIN OpNames : OpNames[i] = name

DataPrefix(size) == IF size <= 75 THEN <<size>> ELSE IF size <= 255 THEN <<76, size>> ELSE <<77, size % 256, size \div 256>>
SmallNumber(item) == item \in {<<>>, <<129>>} \cup {<<n>> : n \in 1 .. 16}
OpBytes(op) ==
  CASE op.op = "Push" -> DataPrefix(Len(op.data)) \o op.data
    [] op.op = "Num" /\ SmallNumber(op.data) -> <<400 + Number(op.data)>>
    [] op.op = "Num" -> DataPrefix(Len(op.data)) \o op.data
    [] OTHER -> <<OpByte(op.op)>>
RECURSIVE ScriptBytes(_)
ScriptBytes(ops) ==
  LET half == Len(ops) \div 2
  IN  CASE ops = <<>> -> <<>>
        [] Len(ops) = 1 -> OpBytes(ops[1])
        [] OTHER -> ScriptBytes(SubSeq(ops, 1, half)) \o ScriptBytes(SubSeq(ops, half + 1, Len(ops)))

PayToScriptHash(script) == <<0, 0, OpByte("Blake2b"), 32>> \o Hash(script) \o <<OpByte("Equal")>>
PayToKey(key) == <<0, 0, 32>> \o key \o <<OpByte("CheckSig")>>

-----------------------------------------------------------------------------
(* One operation.  A machine is [pc, stack, alt, conds, status]: the top   *)
(* of the stack first, the innermost condition first; an operation that    *)
(* cannot be done rejects the script.                                      *)

Machine(stack) == [pc |-> 1, stack |-> stack, alt |-> <<>>, conds |-> <<>>, status |-> "running"]
Executing(vm) == \A i \in DOMAIN vm.conds : vm.conds[i] = "true"
Rejected(vm) == [vm EXCEPT !.status = "rejected"]
Drop(stack, n) == SubSeq(stack, n + 1, Len(stack))

\* What the operations on the order of the stack leave of it, and how deep they reach.
Shuffle(op) ==
  CASE op = "Dup" -> <<<<1, 1>>, 1>>
    [] op = "Drop" -> <<<<>>, 1>>
    [] op = "Nip" -> <<<<1>>, 2>>
    [] op = "Over" -> <<<<2, 1, 2>>, 2>>
    [] op = "Rot" -> <<<<3, 1, 2>>, 3>>
    [] op = "Swap" -> <<<<2, 1>>, 2>>
    [] op = "2Swap" -> <<<<3, 4, 1, 2>>, 4>>
    [] op = "2Rot" -> <<<<5, 6, 1, 2, 3, 4>>, 6>>
Shuffles == {"Dup", "Drop", "Nip", "Over", "Rot", "Swap", "2Swap", "2Rot"}

\* Operations of numbers: what they give for the operands in the order they were pushed.
NumericOps ==
  {"Add", "Sub", "Mul", "Div", "Mod", "NumEqual", "NumNotEqual", "Lt", "Le", "Gt", "Ge", "BoolAnd", "BoolOr"}
Quotient(a, b) == LET q == (IF a < 0 THEN -a ELSE a) \div (IF b < 0 THEN -b ELSE b) IN IF (a < 0) # (b < 0) THEN -q ELSE q
Numeric(op, a, b) ==
  CASE op = "Add" -> Item(a + b)
    [] op = "Sub" -> Item(a - b)
    [] op = "Mul" -> Item(a * b)
    [] op = "Div" -> Item(Quotient(a, b))
    [] op = "Mod" -> Item(a - b * Quotient(a, b))
    [] op = "NumEqual" -> Truth(a = b)
    [] op = "NumNotEqual" -> Truth(a # b)
    [] op = "Lt" -> Truth(a < b)
    [] op = "Le" -> Truth(a <= b)
    [] op = "Gt" -> Truth(a > b)
    [] op = "Ge" -> Truth(a >= b)
    [] op = "BoolAnd" -> Truth(a # 0 /\ b # 0)
    [] op = "BoolOr" -> Truth(a # 0 \/ b # 0)

\* What an operation of items gives: <<item>>, or <<>> where it fails.
SubstrOf(bytes, from, to) == IF 0 <= from /\ from <= to /\ to <= Len(bytes) THEN <<SubSeq(bytes, from + 1, to)>> ELSE <<>>
InputOf(tx, item) == IF IsNumber(item) /\ Number(item) + 1 \in DOMAIN tx.ins THEN <<tx.ins[Number(item) + 1]>> ELSE <<>>
OutputOf(tx, item) == IF IsNumber(item) /\ Number(item) + 1 \in DOMAIN tx.outs THEN <<tx.outs[Number(item) + 1]>> ELSE <<>>
InputOps == {"TxInputSpk", "TxInputAmount", "TxInputSeq", "TxInputScriptSigLen"}
OutputOps == {"TxOutputSpk", "TxOutputAmount"}
PlainOps(tx, input) ==
  [TxInputIndex |-> Item(input - 1), TxInputCount |-> Item(Len(tx.ins)), TxOutputCount |-> Item(Len(tx.outs)),
   TxLockTime |-> Item(tx.lock), True |-> <<1>>, False |-> <<>>]
Arity ==
  [Not |-> 1, Negate |-> 1, Equal |-> 2, Cat |-> 2, Substr |-> 3, Num2Bin |-> 2, Bin2Num |-> 1, Blake2b |-> 1,
   Blake3 |-> 1, Sha256 |-> 1, Blake2bWithKey |-> 2, Blake3WithKey |-> 2, CheckSig |-> 2, TxInputScriptSigSubstr |-> 3]

\* The operands are in the order they were pushed.
Result(op, a, tx) ==
  CASE op = "Not" -> IF IsNumber(a[1]) THEN <<Truth(Number(a[1]) = 0)>> ELSE <<>>
    [] op = "Negate" -> IF IsNumber(a[1]) THEN <<Item(-Number(a[1]))>> ELSE <<>>
    [] op = "Equal" -> <<Truth(a[1] = a[2])>>
    [] op = "Cat" -> <<a[1] \o a[2]>>
    [] op = "Substr" -> IF IsNumber(a[2]) /\ IsNumber(a[3]) THEN SubstrOf(a[1], Number(a[2]), Number(a[3])) ELSE <<>>
    [] op = "Num2Bin" -> IF IsNumber(a[1]) /\ IsNumber(a[2]) THEN Padded(Number(a[1]), Number(a[2])) ELSE <<>>
    [] op = "Bin2Num" -> IF IsNumber(a[1]) THEN <<Item(Number(a[1]))>> ELSE <<>>
    [] op \in {"Blake2b", "Blake3", "Sha256"} -> <<Hash(a[1])>>
    [] op \in {"Blake2bWithKey", "Blake3WithKey"} -> <<Hash(a[2] \o a[1])>>
    [] op = "CheckSig" -> <<Truth(a[1] = SignatureOf(a[2]))>>
    [] op = "TxInputScriptSigSubstr" ->
         IF InputOf(tx, a[1]) # <<>> /\ IsNumber(a[2]) /\ IsNumber(a[3])
         THEN SubstrOf(InputOf(tx, a[1])[1].sig, Number(a[2]), Number(a[3])) ELSE <<>>

\* A condition or a shuffle of a depth read from the stack.
Branch(vm, op) ==
  LET top == vm.stack[1]
      flip == [true |-> "false", false |-> "true", skip |-> "skip"]
  IN  CASE op = "If" /\ ~Executing(vm) -> [vm EXCEPT !.conds = <<"skip">> \o @]
        [] op = "If" /\ vm.stack # <<>> ->
             [vm EXCEPT !.stack = Tail(@), !.conds = <<IF Number(top) # 0 THEN "true" ELSE "false">> \o @]
        [] op = "Else" /\ vm.conds # <<>> -> [vm EXCEPT !.conds[1] = flip[@]]
        [] op = "EndIf" /\ vm.conds # <<>> -> [vm EXCEPT !.conds = Tail(@)]
        [] OTHER -> Rejected(vm)
Fetch(vm, op) ==
  LET n == Number(vm.stack[1])  rest == Tail(vm.stack)
  IN  IF n \notin 0 .. Len(rest) - 1 THEN Rejected(vm)
      ELSE [vm EXCEPT !.stack = <<rest[n + 1]>> \o (IF op = "Pick" THEN rest ELSE RemoveAt(rest, n + 1))]

Execute(vm, op, tx, input) ==
  LET s == vm.stack
      known(k) == Len(s) >= k
      place(items, k) == [vm EXCEPT !.stack = items \o Drop(s, k)]
      give(result, k) == IF result = <<>> THEN Rejected(vm) ELSE place(result, k)
      name == op.op
  IN  CASE name \in {"Push", "Num"} -> place(<<op.data>>, 0)
        [] name \in DOMAIN PlainOps(tx, input) -> place(<<PlainOps(tx, input)[name]>>, 0)
        [] name \in Shuffles /\ known(Shuffle(name)[2]) ->
             LET order == Shuffle(name)[1] IN place([i \in DOMAIN order |-> s[order[i]]], Shuffle(name)[2])
        [] name \in {"Pick", "Roll"} /\ known(1) -> Fetch(vm, name)
        [] name = "ToAlt" /\ known(1) -> [vm EXCEPT !.stack = Tail(@), !.alt = <<s[1]>> \o @]
        [] name = "FromAlt" /\ vm.alt # <<>> -> [vm EXCEPT !.stack = <<vm.alt[1]>> \o @, !.alt = Tail(@)]
        [] name = "Verify" /\ known(1) -> IF Number(s[1]) # 0 THEN place(<<>>, 1) ELSE Rejected(vm)
        [] name = "Size" /\ known(1) -> place(<<Item(Len(s[1]))>>, 0)
        [] name \in NumericOps /\ known(2) ->
             IF IsNumber(s[1]) /\ IsNumber(s[2]) /\ ~(name \in {"Div", "Mod"} /\ Number(s[1]) = 0)
             THEN place(<<Numeric(name, Number(s[2]), Number(s[1]))>>, 2) ELSE Rejected(vm)
        [] name \in DOMAIN Arity /\ known(Arity[name]) ->
             give(Result(name, Reverse(SubSeq(s, 1, Arity[name])), tx), Arity[name])
        [] name \in InputOps /\ known(1) /\ InputOf(tx, s[1]) # <<>> ->
             LET in == InputOf(tx, s[1])[1]
             IN  place(<<CASE name = "TxInputSpk" -> in.spk
                           [] name = "TxInputAmount" -> Item(in.value)
                           [] name = "TxInputSeq" -> Item(in.seq)
                           [] name = "TxInputScriptSigLen" -> Item(Len(in.sig))>>, 1)
        [] name \in OutputOps /\ known(1) /\ OutputOf(tx, s[1]) # <<>> ->
             LET out == OutputOf(tx, s[1])[1] IN place(<<IF name = "TxOutputSpk" THEN out.spk ELSE Item(out.value)>>, 1)
        [] name = "CheckSequenceVerify" /\ known(1) ->
             IF Number(s[1]) <= tx.ins[input].seq THEN place(<<>>, 1) ELSE Rejected(vm)
        [] name = "CheckLockTimeVerify" /\ known(1) ->
             IF Number(s[1]) <= tx.lock THEN place(<<>>, 1) ELSE Rejected(vm)
        [] OTHER -> Rejected(vm)

Dispatch(vm, op, tx, input) ==
  CASE op.op \in {"If", "Else", "EndIf"} -> Branch(vm, op.op)
    [] ~Executing(vm) -> vm
    [] OTHER -> Execute(vm, op, tx, input)
Stepped(vm, script, tx, input) ==
  IF vm.pc > Len(script)
  THEN [vm EXCEPT !.status = IF Len(vm.stack) = 1 /\ Number(vm.stack[1]) # 0 /\ vm.conds = <<>> THEN "accepted" ELSE "rejected"]
  ELSE [Dispatch(vm, script[vm.pc], tx, input) EXCEPT !.pc = @ + 1]
=============================================================================
