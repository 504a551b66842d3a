---------------------------- MODULE SilverCompiler ----------------------------
(***************************************************************************)
(* The compiler at work: one contract goes through the passes of           *)
(* compile_contract_impl, its code is generated until the size it was      *)
(* generated for is its own, and then one spend of it runs on the script   *)
(* machine, one operation per step.                                        *)
(***************************************************************************)
EXTENDS SilverScript, SilverLowering, SilverMeaning
LOCAL INSTANCE SequencesExt
LOCAL INSTANCE FiniteSetsExt

CONSTANTS
  Programs,     \* a sequence of [contract, spends, legal]: what is compiled and then spent
  FirstSize,    \* the size assumed at first for a script that uses its own size
  MaxRounds     \* how often code is generated before the compiler gives up

VARIABLES
  program,      \* the index of the contract that is compiled
  contract,     \* the contract after the last pass
  stage,        \* "source", "inlined", "appended", "unrolled", "lowered", "ready", "spending", "refused"
  size,         \* the script size that code is generated for; 0 if it is not used
  rounds,       \* how often code has been generated
  spend,        \* the spend under way
  vm            \* the script machine

vars == <<program, contract, stage, size, rounds, spend, vm>>

NoSpend == [entry |-> "none", args |-> <<>>, tx |-> [ins |-> <<>>, outs |-> <<>>, lock |-> 0], input |-> 0]
Source == Programs[program].contract
Spends == Programs[program].spends

-----------------------------------------------------------------------------
(* The contract with a state, and a transaction of it in scripts. *)

LiteralOf(v) == IF v.kind = "int" THEN IntLit(v.n) ELSE ArrayLit([i \in DOMAIN v.b |-> ByteLit(v.b[i])])
WithState(c, state) == [c EXCEPT !.fields = [i \in DOMAIN @ |-> [@[i] EXCEPT !.value = LiteralOf(state[i])]]]
\* The states of this contract in a transaction, and the script of each.
StatesIn(tx) ==
  LET parties == {tx.ins[i].to : i \in DOMAIN tx.ins} \cup {tx.outs[i].to : i \in DOMAIN tx.outs}
  IN  {party.state : party \in {p \in parties : p.kind = "self"}}
ScriptsOf(states) ==
  FoldSet(LAMBDA state, scripts : Bind(scripts, state, CompileContract(WithState(contract, state), size).code), <<>>, states)

SpkBytes(owner, scripts) ==
  IF owner.kind = "key" THEN PayToKey(owner.key) ELSE PayToScriptHash(ScriptBytes(scripts[owner.state]))
Items(values) == [i \in DOMAIN values |-> Encoded(values[i])]
SigBytes(owner, s, scripts) ==
  IF owner.kind = "key" THEN <<>> ELSE ScriptBytes(SigScript(contract, s.entry, Items(s.args), scripts[owner.state]))
InScripts(s, scripts) ==
  [ins |-> [i \in DOMAIN s.tx.ins |->
              LET in == s.tx.ins[i]
              IN  [spk |-> SpkBytes(in.to, scripts), sig |-> SigBytes(in.to, s, scripts), value |-> in.value, seq |-> in.seq]],
   outs |-> [i \in DOMAIN s.tx.outs |-> [spk |-> SpkBytes(s.tx.outs[i].to, scripts), value |-> s.tx.outs[i].value]],
   lock |-> s.tx.lock]

\* What the signature script leaves on the stack for the contract: the choice of the entry point on
\* top, then the last argument.
Arguments(s) ==
  LET ops == SigScript(contract, s.entry, Items(s.args), <<>>)
  IN  Reverse([i \in 1 .. Len(ops) - 1 |-> ops[i].data])
ReadyWith(s, scripts) ==
  Machine(Arguments(s)) @@ [script |-> scripts[s.tx.ins[s.input].to.state], tx |-> InScripts(s, scripts)]
Ready(s) == ReadyWith(s, ScriptsOf(StatesIn(s.tx)))

-----------------------------------------------------------------------------
(* The passes. *)

Init ==
  /\ program \in DOMAIN Programs
  /\ contract = Source
  /\ stage = "source" /\ size = 0 /\ rounds = 0
  /\ spend = NoSpend /\ vm = Machine(<<>>)

PassTo(next, result) ==
  /\ stage' = IF result.ok THEN next ELSE "refused"
  /\ contract' = IF result.ok THEN result.contract ELSE contract
  /\ UNCHANGED <<program, size, rounds, spend, vm>>
Always(c) == [contract |-> c, ok |-> TRUE]

Inline == stage = "source" /\ PassTo("inlined", InlineFunctions(contract))
SumAppends == stage = "inlined" /\ PassTo("appended", Always(LowerAppends(contract)))
Unroll == stage = "appended" /\ PassTo("unrolled", UnrollLoops(contract))
\* With debug information the locals stay as they are.
LowerLocals ==
  /\ stage = "unrolled"
  /\ \E debug \in BOOLEAN :
       /\ contract' = IF debug THEN contract ELSE LowerAliases(contract)
       /\ size' = IF UsesScriptSize(contract') THEN FirstSize ELSE 0
  /\ stage' = "lowered"
  /\ UNCHANGED <<program, rounds, spend, vm>>

Generated == CompileContract(contract, size)
Settle(generated) ==
  IF size \in {0, generated} THEN stage' = "ready" /\ UNCHANGED size ELSE size' = generated /\ UNCHANGED stage

\* Code for the size of the code before, until both are the same.
Generate ==
  /\ stage = "lowered" /\ rounds < MaxRounds
  /\ \E code \in {Generated} : code.ok /\ Settle(Len(ScriptBytes(code.code)))
  /\ rounds' = rounds + 1
  /\ UNCHANGED <<program, contract, spend, vm>>
GiveUp ==
  /\ stage = "lowered" /\ (rounds = MaxRounds \/ ~Generated.ok)
  /\ stage' = "refused"
  /\ UNCHANGED <<program, contract, size, rounds, spend, vm>>

-----------------------------------------------------------------------------
(* A spend. *)

Spend ==
  /\ stage = "ready"
  /\ \E s \in Spends : spend' = s /\ vm' = Ready(s)
  /\ stage' = "spending"
  /\ UNCHANGED <<program, contract, size, rounds>>
Step ==
  /\ stage = "spending" /\ vm.status = "running"
  /\ vm' = Stepped(vm, vm.script, vm.tx, spend.input)
  /\ UNCHANGED <<program, contract, stage, size, rounds, spend>>

Next == Inline \/ SumAppends \/ Unroll \/ LowerLocals \/ Generate \/ GiveUp \/ Spend \/ Step
Spec == Init /\ [][Next]_vars

-----------------------------------------------------------------------------
(* What must hold. *)

\* The machine accepts a spend of the compiled contract exactly when the contract as it is written
\* permits it (compile_contract_impl, compile.rs:125-242): no branch, loop, call or temporary leaves
\* a name at another depth than the code that follows reads it at.
CompiledMeansSource ==
  stage = "spending" /\ vm.status # "running" => (vm.status = "accepted" <=> Permits(Source, spend))

\* No pass changes which spends a contract permits, and none refuses a contract that is legal
\* (inline_functions.rs, array_append.rs, for.rs, locals.rs): a renamed name is not caught by another
\* one, and a value that is moved to its reader is the same there.
PassesPreserveMeaning ==
  /\ stage = "refused" => ~Programs[program].legal
  /\ stage \in {"inlined", "appended", "unrolled", "lowered"} => \A s \in Spends : Permits(contract, s) = Permits(Source, s)

\* Replacing the state part of the script gives the script of the other state: what readInputState,
\* validateOutputState and template_hash (mod.rs:212-218) rely on.
States == UNION {StatesIn(s.tx) : s \in Spends}
Spliced(old, new, start, end) == SubSeq(old, 1, start) \o SubSeq(new, start + 1, end) \o SubSeq(old, end + 1, Len(old))
BytesOfScripts(scripts) == [state \in DOMAIN scripts |-> ScriptBytes(scripts[state])]
SpliceFrom(scripts, start) ==
  \A s, t \in DOMAIN scripts :
    /\ Spliced(scripts[s], scripts[t], start, start + StateLen(contract.fields)) = scripts[t]
    /\ size = 0 \/ Len(scripts[s]) = size
StateIsSpliceable ==
  stage = "ready" =>
    SpliceFrom(BytesOfScripts(ScriptsOf(States)), IF Len(Entrypoints(contract)) = 1 THEN 0 ELSE 1)
=============================================================================
