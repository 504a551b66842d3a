------------------------------- MODULE PsktDraft -------------------------------
(***************************************************************************)
(* The envelope of a transaction another program drafted and asks the      *)
(* wallet to sign (pskt.rs): which inputs, under which signature hashes,   *)
(* through which covenant scripts, and what the review says of the draft.  *)
(* The rules of the known dApp profiles are in modules that extend this    *)
(* one; PsktSigning dispatches to them and signs.                          *)
(*                                                                         *)
(* A draft is [version, native, ins, outs, payload, id]; an input carries  *)
(* the coin the request embeds and the witness it already holds (empty     *)
(* when unsigned).  A request is the draft with the sender, the selected   *)
(* inputs, the script requests and the terms of the profile.               *)
(***************************************************************************)
EXTENDS CoreTransaction
LOCAL INSTANCE SequencesExt
LOCAL INSTANCE FiniteSetsExt

CONSTANTS
  PsktLimit         \* MAX_INPUTS and MAX_OUTPUTS of a draft

ASSUME PsktAssumption == PsktLimit \in Nat \ {0}

Elements(s) == {s[i] : i \in DOMAIN s}

----------------------------------------------------------------------------
(* Signature hashes.  Commitment is what a signature of input i covers:    *)
(* the consensus rule, of which the wallet only chooses the type.          *)
Sighash(base, anyone) == [base |-> base, anyone |-> anyone]
All == Sighash("ALL", FALSE)
SellerSighash == Sighash("SINGLE", TRUE)          \* 132
Sighashes == {Sighash(b, a) : b \in {"ALL", "NONE", "SINGLE"}, a \in BOOLEAN}

Coin(in) == <<in.outpoint, in.amount, in.script>>
Sig(key, commitment) == <<"sig", key, commitment>>
Commitment(tx, i, hash) ==
  [version |-> tx.version, payload |-> tx.payload, hash |-> hash, coin |-> Coin(tx.ins[i]),
   ins |-> IF hash.anyone THEN <<>> ELSE [k \in DOMAIN tx.ins |-> tx.ins[k].outpoint],
   outs |-> CASE hash.base = "ALL" -> tx.outs
              [] hash.base = "SINGLE" /\ i <= Len(tx.outs) -> <<tx.outs[i]>>
              [] OTHER -> <<>>]

----------------------------------------------------------------------------
(* Script requests: a redeem script with a witness template, or a witness  *)
(* built elsewhere with empty places for the signature.                    *)
IsPrebuilt(s) == s.prebuilt # <<>>
SignatureArgs(s) == Cardinality({k \in DOMAIN s.args : s.args[k] = <<"signature">>})

ScriptRequestOk(s, tx) ==
  /\ s.index \in DOMAIN tx.ins
  /\ IF IsPrebuilt(s)
     THEN /\ s.redeem = <<>> /\ s.mode = "none"
          /\ s.offsets # {} /\ \A k \in s.offsets : k \in DOMAIN s.prebuilt /\ s.prebuilt[k] = <<"empty">>
          /\ s.expected # <<>>
     ELSE /\ s.offsets = {} /\ s.expected = <<>> /\ s.redeem # <<>>
          /\ CASE s.mode = "wrap" -> s.args = <<>>
               [] s.mode = "first" -> SignatureArgs(s) = 0
               [] s.mode = "ordered" -> SignatureArgs(s) = 1
               [] OTHER -> s.mode = "none"

\* The script request of input i, if there is one.
ScriptOf(req, i) == CHOOSE s \in Elements(req.scripts) : s.index = i
Scripted(req) == {s.index : s \in Elements(req.scripts)}
Chosen(req) == {s.index : s \in Elements(req.signInputs)}
Selected(req) == Chosen(req) \cup Scripted(req)

ChosenHash(req, i) == (CHOOSE s \in Elements(req.signInputs) : s.index = i).hash
SighashOf(req, i) ==
  IF i \in Chosen(req) THEN ChosenHash(req, i)
  ELSE IF ScriptOf(req, i).hash # <<>> THEN ScriptOf(req, i).hash[1] ELSE All

SelectionOk(req) ==
  /\ Selected(req) # {}
  /\ Selected(req) \subseteq DOMAIN req.tx.ins
  /\ Cardinality(Chosen(req)) = Len(req.signInputs)
  /\ Cardinality(Scripted(req)) = Len(req.scripts)
  /\ \A s \in Elements(req.scripts) :
       /\ ScriptRequestOk(s, req.tx)
       /\ s.index \in Chosen(req) /\ s.hash # <<>> => s.hash[1] = ChosenHash(req, s.index)
  /\ \A i \in Selected(req) : SighashOf(req, i).base = "SINGLE" => i \in DOMAIN req.tx.outs

----------------------------------------------------------------------------
(* The draft itself.                                                       *)
EnvelopeOk(tx) ==
  /\ tx.version \in 0 .. 1 /\ tx.native
  /\ Len(tx.ins) \in 1 .. PsktLimit /\ Len(tx.outs) \in 1 .. PsktLimit
  /\ \A k \in DOMAIN tx.outs :
       tx.outs[k].covenant # NoCovenant => tx.outs[k].covenant[2] \in DOMAIN tx.ins

InputsOk(req) ==
  /\ Cardinality(Outpoints(req.tx.ins)) = Len(req.tx.ins)
  /\ \A i \in DOMAIN req.tx.ins :
       LET in == req.tx.ins[i]
       IN  /\ ~in.coinbase
           /\ i \in Selected(req) /\ in.witness # <<>> =>
                i \in Scripted(req) /\ ScriptOf(req, i).prebuilt = in.witness
           /\ i \in Scripted(req) =>
                IF IsPrebuilt(ScriptOf(req, i)) THEN in.covenant # NoCovenant
                ELSE in.script = PayToScriptHash(ScriptOf(req, i).redeem)

\* The deployer's own digest of what is to be signed, where it is supplied.
ExpectedOk(req) ==
  LET given(i) == {s.expected : s \in {t \in Elements(req.signInputs) \cup Elements(req.scripts) :
                                       t.index = i /\ t.expected # <<>>}}
  IN  \A i \in Selected(req) :
        given(i) \subseteq {<<Commitment(req.tx, i, SighashOf(req, i))>>}

Deficit(tx) == Max({0, TotalOf(tx.outs) - TotalOf(tx.ins)})
AllSighashesAre(req, hash) == \A i \in Selected(req) : SighashOf(req, i) = hash
FinalFeeKnown(req) == AllSighashesAre(req, All)

\* An output some selected signature commits to.
SignatureBoundBySingle(req, k) ==
  \E i \in Selected(req) : SighashOf(req, i).base \in {"ALL", "SINGLE"}
SignatureBound(req, k) ==
  \E i \in Selected(req) :
    \/ SighashOf(req, i).base = "ALL"
    \/ SighashOf(req, i).base = "SINGLE" /\ i = k

SenderScript(req) == PayTo(req.sender)
OwnAmount(list, req) == SumOf([k \in DOMAIN list |->
                           IF list[k].script = SenderScript(req) THEN list[k].amount ELSE 0])

Warnings(req) ==
  LET tx == req.tx
      fee == TotalOf(tx.ins) - TotalOf(tx.outs)
      mention(text, when) == IF when THEN {text} ELSE {}
  IN  UNION {
        mention("covenant or non-standard input",
                \E i \in Selected(req) : tx.ins[i].script # SenderScript(req)),
        mention("unknown covenant", req.profile = "generic" /\
                \E s \in Elements(req.scripts) : IsPrebuilt(s)),
        mention("non-standard output", \E k \in DOMAIN tx.outs : tx.outs[k].script[1] # "pk"),
        mention("unfunded seller offer", Deficit(tx) > 0),
        mention("totals describe this draft only", ~FinalFeeKnown(req)),
        mention("high fee", fee > TotalOf(tx.ins) \div 10 /\ fee > 1000 * Dust),
        mention("partial signature", Cardinality(Selected(req)) # Len(tx.ins)),
        mention("parts may change", \E i \in Selected(req) : SighashOf(req, i) # All)}

\* Why the draft is refused before any profile is looked at.
DraftRefusals(req) ==
  {r \in {"envelope", "selection", "UntrustedUtxo", "outputs exceed", "expected sighash", "id"} :
     CASE r = "envelope" -> ~EnvelopeOk(req.tx)
       [] r = "selection" -> ~SelectionOk(req)
       [] r = "UntrustedUtxo" -> SelectionOk(req) /\ ~InputsOk(req)
       [] r = "outputs exceed" -> SelectionOk(req) /\ Deficit(req.tx) > 0 /\ ~AllSighashesAre(req, SellerSighash)
       [] r = "expected sighash" -> SelectionOk(req) /\ ~ExpectedOk(req)
       [] r = "id" -> req.tx.id # <<>> /\ req.tx.id # <<Outpoints(req.tx.ins), req.tx.outs>>}

DraftReviewOfTotals(req) ==
  [profile |-> req.profile, terms |-> req.terms, sender |-> req.sender, inputTotal |-> TotalOf(req.tx.ins),
   outputTotal |-> TotalOf(req.tx.outs), deficit |-> Deficit(req.tx), finalFeeKnown |-> FinalFeeKnown(req),
   walletInput |-> OwnAmount(req.tx.ins, req), walletOutput |-> OwnAmount(req.tx.outs, req),
   bound |-> {k \in DOMAIN req.tx.outs : SignatureBound(req, k)}, warnings |-> Warnings(req)]
DraftReview(req) ==
  [profile |-> req.profile, terms |-> req.terms, sender |-> req.sender, tx |-> req.tx,
   inputTotal |-> TotalOf(req.tx.ins), outputTotal |-> TotalOf(req.tx.outs),
   deficit |-> Deficit(req.tx), finalFeeKnown |-> FinalFeeKnown(req),
   walletInput |-> OwnAmount(req.tx.ins, req), walletOutput |-> OwnAmount(req.tx.outs, req),
   hashes |-> [i \in Selected(req) |-> SighashOf(req, i)],
   bound |-> {k \in DOMAIN req.tx.outs : SignatureBound(req, k)},
   warnings |-> Warnings(req), scripts |-> req.scripts]

----------------------------------------------------------------------------
(* The witness put into a selected input (assemble_*_signature_script),    *)
(* and into every input of what the core builds itself.                    *)
WithWitness(tx, W(_)) == [tx EXCEPT !.ins = [i \in DOMAIN @ |-> [outpoint |-> @[i].outpoint, amount |-> @[i].amount,
                            script |-> @[i].script, covenant |-> @[i].covenant, witness |-> W(i)]]]
WitnessFor(req, i, sig) ==
  IF i \notin Scripted(req) THEN <<sig>>
  ELSE LET s == ScriptOf(req, i)
           filled == [k \in DOMAIN s.args |-> IF s.args[k] = <<"signature">> THEN sig ELSE s.args[k]]
       IN  CASE IsPrebuilt(s) -> [k \in DOMAIN s.prebuilt |-> IF k \in s.offsets THEN sig ELSE s.prebuilt[k]]
             [] s.mode \in {"none", "wrap"} -> <<sig, s.redeem>>
             [] s.mode = "first" -> <<sig>> \o filled \o <<s.redeem>>
             [] s.mode = "ordered" -> filled \o <<s.redeem>>
=============================================================================
