------------------------------ MODULE PsktSigning ------------------------------
(***************************************************************************)
(* Signing a drafted transaction (pskt.rs): the rules of its profile are   *)
(* checked, the review is compared with the approved one, each selected    *)
(* input gets its witness and, for the profiles the wallet knows, the      *)
(* scripts are run before anything leaves the core.                        *)
(***************************************************************************)
EXTENDS BraidDeposits, TokenTransfers, KForgeSwap, CoreInscriptions
LOCAL INSTANCE SequencesExt
LOCAL INSTANCE FiniteSetsExt

ProfileOk(req) ==
  CASE req.profile = "generic" -> TRUE
    [] req.profile = "kasparocket" -> RocketOk(req)
    [] req.profile = "kasseal-swap" -> KassealSwapOk(req)
    [] req.profile = "kasseal-prepare" -> KassealPrepareOk(req)
    [] req.profile \in {"braid-deposit", "braid-reclaim"} -> BraidOk(req)
    [] req.profile = "kforge" -> KForgeOk(req)
    [] req.profile = "kasforge" -> req.sender.net = "testnet" /\ KasForgeOk(req)
    [] req.profile \in {"krc721", "kaspacom"} -> MarketOk(req)
    [] req.profile = "kcc20-standard-transfer" -> StandardTransferOk(req)
    [] req.profile = "kron-swap" -> KronSwapOk(req)
    [] req.profile = "kron-transfer" -> KronTransferOk(req)
    [] OTHER -> FALSE

Partial == "partial signature"
ProfileWarnings(req) ==
  CASE req.profile = "kasparocket" ->
         Warnings(req) \cup {"tickers are not unique"}
         \cup {w \in {"testnet only"} : req.sender.net = "testnet"}
    [] req.profile = "kforge" -> Warnings(req) \ {Partial, "unknown covenant"}
    [] req.profile = "kron-swap" -> Warnings(req) \ {Partial}
    [] OTHER -> Warnings(req)

\* build_pskt: a KForge draft is expanded first, every other taken as it is.
Drafted(req) == IF req.profile = "kforge" THEN Expand(req) ELSE req
BuildDraft(req, draft) ==
  IF DraftRefusals(draft) # {} THEN Refused(DraftRefusals(draft))
  ELSE IF ~ProfileOk(req) THEN Refused("profile")
  ELSE Built(draft.tx, [DraftReview(draft) EXCEPT !.warnings = ProfileWarnings(draft)])
BuildPskt(req) ==
  IF req.profile = "kforge" /\ ~KForgeOk(req) THEN Refused("profile") ELSE BuildDraft(req, Drafted(req))

----------------------------------------------------------------------------
(* The scripts the wallet can run: a plain key, the wallet's own one-key   *)
(* programs, a router's reclaim and the reference note.  Of a venue's      *)
(* program, which the repository holds as bytes, only that it has a        *)
(* witness is known here.                                                  *)
SignedBy(sig, key, tx, i) == \E h \in Sighashes : sig = Sig(key, Commitment(tx, i, h))
OneKeyPrograms == {"listing", "inscription", "kip22"}
KeyOf(redeem) == IF redeem[1] = "listing" THEN redeem[3] ELSE redeem[2]

NoteOpens(tx, i, note, w) ==
  CASE note[2][1] = "key" /\ note[4][1] = "standard" ->
         \/ SignedBy(w[2], note[2][2], tx, i)
         \/ Borrow(note) = 1 /\ w[2] = <<"borrowed">>
    [] note[2][1] = "key" /\ note[4][1] = "kron" ->
         \* presence: an input the same key signs
         \E k \in DOMAIN tx.ins : tx.ins[k].script = <<"pk", note[2][2]>>
    [] OTHER -> TRUE

Opens(tx, i) ==
  LET script == tx.ins[i].script
      redeem == Program(script)
      w == tx.ins[i].witness
  IN  /\ w # <<>>
      /\ CASE script[1] = "pk" -> Len(w) = 1 /\ SignedBy(w[1], script[2], tx, i)
           [] redeem[1] \in OneKeyPrograms -> Len(w) = 2 /\ w[2] = redeem /\ SignedBy(w[1], KeyOf(redeem), tx, i)
           [] redeem[1] = "router" -> /\ w[Len(w)] = redeem /\ SignedBy(w[1], redeem[2].refund, tx, i)
                                      /\ tx.lock >= redeem[2].deadline
           [] redeem[1] = "note" -> NoteOpens(tx, i, redeem, w)
           [] OTHER -> TRUE

Simulated(tx) == \A i \in DOMAIN tx.ins : Opens(tx, i)
LocallyRun(req) ==
  \/ req.profile \in {"kforge", "kasforge", "braid-deposit", "braid-reclaim", "krc721", "kron-transfer",
                      "kcc20-standard-transfer", "kron-swap", "kasseal-swap", "kasseal-prepare"}
  \/ req.profile = "kasparocket" /\ req.sender.net = "mainnet"
  \/ req.profile = "kaspacom" /\ req.side = "cancel"

\* sign_pskt, with the key the sender's address stands for.
Signature(req, tx, i) == Sig(req.sender.key, Commitment(tx, i, SighashOf(req, i)))
SignedDraft(draft) ==
  [draft.tx EXCEPT !.ins = [i \in DOMAIN @ |->
     IF i \in Selected(draft) THEN [@[i] EXCEPT !.witness = WitnessFor(draft, i, Signature(draft, draft.tx, i))]
     ELSE @[i]]]
SignedPskt(req) == SignedDraft(Drafted(req))
\* A released transaction has been run, where the wallet can run it.
Validated(req, tx, review) ==
  IF LocallyRun(req) /\ Deficit(tx) = 0 /\ ~Simulated(tx) THEN Refused("script validation") ELSE Built(tx, review)
SignApproved(req, built, approved) ==
  IF ~built.ok THEN built
  ELSE IF built.review # approved THEN Refused("ReviewMismatch")
  ELSE Validated(req, SignedPskt(req), built.review)
SignPskt(req, approved) == SignApproved(req, BuildPskt(req), approved)
\* An offer without its buyer's coins is signed but cannot be sent.
Submittable(req) == Deficit(req.tx) = 0
=============================================================================
