--------------------------- MODULE MCSilverCompiler ---------------------------
(***************************************************************************)
(* Contracts for the compiler: one per way in which code and source can    *)
(* come apart, each with spends that are permitted and spends that are     *)
(* not.                                                                    *)
(***************************************************************************)
EXTENDS SilverCompiler

Key(n) == [i \in 1 .. 32 |-> n]
Owner == Key(11)
Other == Key(12)
Lit(bytes) == ArrayLit([i \in DOMAIN bytes |-> ByteLit(bytes[i])])
X(name) == Ident(name)
Plus(l, r) == Binary("Add", l, r)
Equals(l, r) == Binary("Eq", l, r)
AtMost(l, r) == Binary("Le", l, r)
Ints == ArrayOf(IntType, Dynamic)
Tag == ArrayOf(ByteType, 2)

In(owner, seq) == [to |-> owner, value |-> 2, seq |-> seq]
Out(owner, value) == [to |-> owner, value |-> value]
SpendOf(entry, args, ins, outs) == [entry |-> entry, args |-> args, tx |-> [ins |-> ins, outs |-> outs, lock |-> 0], input |-> 1]
Plain(entry, args) == SpendOf(entry, args, <<In(ToSelf(<<>>), 0)>>, <<Out(ToKey(Owner), 2)>>)

-----------------------------------------------------------------------------
\* State, three entry points, a function that reads a field, time and signatures.
CounterState(n, tag) == <<IntVal(n), BytesVal(tag)>>
Counter == Contract(
  [owner |-> Lit(Owner), limit |-> IntLit(3)],
  <<Field(IntType, "count", IntLit(0)), Field(Tag, "tag", Lit(<<7, 8>>))>>,
  <<Function("bounded", FALSE, <<Param(IntType, "by")>>, <<IntType>>,
      <<Require(Binary("Gt", X("by"), IntLit(0))), VarDef(IntType, "next", Plus(X("count"), X("by"))),
        Require(AtMost(X("next"), X("limit"))), Return(<<X("next")>>)>>),
    Function("bump", TRUE, <<Param(IntType, "by")>>, <<>>,
      <<VarDef(IntType, "next", Call("bounded", <<X("by")>>)), ValidateState(IntLit(0), <<X("next"), X("tag")>>)>>),
    Function("close", TRUE, <<Param(Scalar("sig"), "s"), Param(IntType, "at")>>, <<>>,
      <<Require(Call("checkSig", <<X("s"), X("owner")>>)), TimeOp("this.age", IntLit(2)),
        Require(Equals(Introspect("OutputScriptPubKey", X("at")), New("ScriptPubKeyP2PK", <<X("owner")>>)))>>),
    Function("keep", TRUE, <<>>, <<>>,
      <<Require(Equals(Introspect("OutputScriptPubKey", IntLit(0)), Nullary("ActiveScriptPubKey"))),
        Require(Binary("Ge", Introspect("OutputValue", IntLit(0)), Introspect("InputValue", Nullary("ActiveInputIndex"))))>>)>>)
CounterSpends ==
  LET from(n) == <<In(ToSelf(CounterState(n, <<7, 8>>)), 1)>>
      to(n, tag) == <<Out(ToSelf(CounterState(n, tag)), 2)>>
      aged(seq) == <<In(ToSelf(CounterState(1, <<7, 8>>)), seq)>>
  IN  {SpendOf("bump", <<IntVal(by)>>, from(n), to(m, <<7, 8>>)) : by \in 0 .. 2, n \in {1, 2}, m \in {2, 3}}
      \cup {SpendOf("bump", <<IntVal(1)>>, from(1), to(2, <<7, 9>>)), SpendOf("bump", <<IntVal(1)>>, from(1), <<Out(ToKey(Owner), 2)>>)}
      \cup {SpendOf("close", <<BytesVal(SignatureOf(by)), IntVal(at)>>, aged(seq), <<Out(ToKey(Owner), 2)>>) :
              by \in {Owner, Other}, at \in {0, 1}, seq \in {1, 2}}
      \cup {SpendOf("keep", <<>>, from(2), <<Out(ToSelf(CounterState(n, <<7, 8>>)), v)>>) : n \in {1, 2}, v \in {1, 2}}

-----------------------------------------------------------------------------
\* A loop whose end is not known, with branches that assign in different orders.
Weigh == Contract(<<>>, <<>>,
  <<Function("weigh", TRUE, <<Param(IntType, "n"), Param(IntType, "k")>>, <<>>,
      <<VarDef(IntType, "low", IntLit(0)), VarDef(IntType, "high", IntLit(0)), VarDef(IntType, "once", Plus(X("k"), IntLit(1))),
        VarDef(IntType, "before", Plus(X("low"), IntLit(5))),
        For("i", IntLit(0), X("n"), IntLit(3),
          <<IfElseDo(Equals(Binary("Mod", X("i"), IntLit(2)), IntLit(0)),
              <<VarDef(IntType, "t", Plus(X("low"), X("k"))), Assign("high", Plus(X("high"), X("i"))), Assign("low", X("t"))>>,
              <<Assign("low", Plus(X("low"), IntLit(1))), VarDef(IntType, "u", X("k")), Assign("high", Plus(X("high"), X("u")))>>)>>),
        If(Binary("Gt", X("k"), IntLit(1)), <<Assign("high", Plus(X("high"), X("once")))>>),
        For("j", IntLit(1), IntLit(3), IntLit(2), <<Assign("low", Plus(X("low"), X("j")))>>),
        Require(Binary("And", Equals(X("before"), IntLit(5)), Binary("Ne", X("low"), X("high")))),
        Require(Binary("Lt", Plus(X("low"), X("high")), IntLit(9)))>>)>>)
WeighSpends == {Plain("weigh", <<IntVal(n), IntVal(k)>>) : n \in 0 .. 4, k \in 0 .. 3}

-----------------------------------------------------------------------------
\* Functions with the names of their callers, tuples, lists, bytes.
Functions == Contract([half |-> IntLit(2)], <<>>,
  <<Function("minus", FALSE, <<Param(IntType, "a"), Param(IntType, "b")>>, <<IntType>>,
      <<VarDef(IntType, "c", Binary("Sub", X("a"), X("b"))), Return(<<X("c")>>)>>),
    Function("twice", FALSE, <<Param(IntType, "a")>>, <<IntType>>, <<Return(<<Plus(X("a"), X("a"))>>)>>),
    Function("divide", FALSE, <<Param(IntType, "a"), Param(IntType, "b")>>, <<IntType, IntType>>,
      <<Return(<<Binary("Div", X("a"), X("b")), Binary("Mod", X("a"), X("b"))>>)>>),
    Function("positive", FALSE, <<Param(IntType, "a")>>, <<>>, <<Require(Binary("Gt", X("a"), IntLit(0)))>>),
    Function("mix", TRUE, <<Param(IntType, "a"), Param(IntType, "b")>>, <<BoolType>>,
      <<Do("positive", <<Plus(X("a"), X("b"))>>),
        CallInto(<<IntType, IntType>>, <<"q", "r">>, "divide", <<X("a"), X("b")>>),
        VarDef(IntType, "c", Call("minus", <<X("b"), X("a")>>)),
        VarDef(Ints, "list", ArrayLit(<<X("q"), X("r")>>)), Assign("list", AppendTo(X("list"), <<X("c")>>)),
        Require(Equals(ArrayIndex(X("list"), X("half")), Call("minus", <<X("b"), X("a")>>))),
        Require(Equals(LengthOf(X("list")), IntLit(3))),
        Require(Equals(TupleField(Call("divide", <<X("a"), X("half")>>), 1), X("r"))),
        VarDef(IntType, "m", IfElse(Binary("Lt", X("a"), X("b")), X("b"), Unary("Neg", X("a")))),
        Return(<<Binary("Ne", Call("twice", <<Call("twice", <<X("m")>>)>>), Binary("Mul", IntLit(4), X("c")))>>)>>)>>)
FunctionSpends == {Plain("mix", <<IntVal(a), IntVal(b)>>) : a \in -1 .. 3, b \in 0 .. 2}

\* Byte strings: parts, joins, casts, hashes.
Parts == Contract([secret |-> Lit(<<5, 6, 7>>)], <<>>,
  <<Function("open", TRUE, <<Param(Bytes, "d"), Param(IntType, "at")>>, <<>>,
      <<TupleDef(Bytes, "left", Bytes, "right", Split(X("d"), X("at"), "left")),
        VarDef(Tag, "b", ByteCast(2, <<X("at")>>)),
        Require(Equals(Call("blake2b", <<Plus(X("left"), X("right"))>>), Call("blake2b", <<X("secret")>>))),
        VarDef(ByteType, "first", IntLit(5)),
        Block(<<VarDef(IntType, "size", LengthOf(X("right"))), Require(Equals(Plus(X("size"), X("at")), IntLit(3)))>>),
        Require(Equals(Slice(X("b"), IntLit(0), IntLit(1)), Slice(Plus(X("b"), X("right")), IntLit(0), IntLit(1)))),
        Require(Equals(ArrayIndex(X("d"), IntLit(0)), X("first"))),
        Require(Binary("Ne", X("b"), Lit(<<2, 0>>)))>>)>>)
PartSpends == {Plain("open", <<BytesVal(d), IntVal(at)>>) : d \in {<<5, 6, 7>>, <<5, 6>>, <<6, 6, 7>>}, at \in 0 .. 4}

-----------------------------------------------------------------------------
\* Two coins of one contract become one: the state of the other input is read from its script.
Merge == Contract(<<>>, <<Field(IntType, "amount", IntLit(1)), Field(Tag, "tag", Lit(<<7, 8>>))>>,
  <<Function("merge", TRUE, <<Param(IntType, "with")>>, <<>>,
      <<ReadState(<<IntType, Tag>>, <<"more", "its">>, X("with")),
        Require(Equals(X("its"), X("tag"))), Require(Binary("Ne", X("with"), Nullary("ActiveInputIndex"))),
        VarDef(IntType, "sum", Plus(X("amount"), X("more"))),
        If(Binary("Gt", X("sum"), IntLit(3)), <<Require(Binary("Gt", Nullary("TxOutputsLength"), IntLit(1)))>>),
        ValidateState(Binary("Sub", X("with"), IntLit(1)), <<X("sum"), X("its")>>)>>)>>)
MergeState(n, tag) == <<IntVal(n), BytesVal(tag)>>
MergeSpends ==
  LET self(n, tag) == ToSelf(MergeState(n, tag))
  IN  {SpendOf("merge", <<IntVal(with)>>, <<In(self(a, <<7, 8>>), 0), In(self(b, tag), 0)>>, <<Out(self(sum, <<7, 8>>), 4)>>) :
         with \in {0, 1}, a \in {1, 2}, b \in {1, 2}, tag \in {<<7, 8>>, <<7, 9>>}, sum \in {2, 3, 4}}

\* What the compiler refuses: a function that calls itself, and a range longer than its bound.
Recursive == Contract(<<>>, <<>>,
  <<Function("again", FALSE, <<Param(IntType, "a")>>, <<IntType>>, <<Return(<<Call("again", <<X("a")>>)>>)>>),
    Function("run", TRUE, <<Param(IntType, "a")>>, <<>>, <<Require(Equals(Call("again", <<X("a")>>), X("a")))>>)>>)
TooLong == Contract(<<>>, <<>>,
  <<Function("run", TRUE, <<Param(IntType, "a")>>, <<>>,
      <<For("i", IntLit(0), IntLit(3), IntLit(2), <<Require(Binary("Ge", X("a"), X("i")))>>)>>)>>)
Untyped == Contract(<<>>, <<>>,
  <<Function("run", TRUE, <<Param(IntType, "a")>>, <<>>, <<Require(Equals(ArrayIndex(X("a"), IntLit(0)), IntLit(1)))>>)>>)

Sample(contract0, spends, legal) == [contract |-> contract0, spends |-> spends, legal |-> legal]
MCPrograms ==
  <<Sample(Counter, CounterSpends, TRUE), Sample(Weigh, WeighSpends, TRUE), Sample(Functions, FunctionSpends, TRUE),
    Sample(Parts, PartSpends, TRUE), Sample(Merge, MergeSpends, TRUE),
    Sample(Recursive, {}, FALSE), Sample(TooLong, {}, FALSE), Sample(Untyped, {}, FALSE)>>
=============================================================================
