--------------------------- MODULE MCCovenantLives ---------------------------
(* Two users, one Wyrm and one vault; half a day is one DAA score.         *)
EXTENDS CovenantLives

MCUsers == {"u", "v"}
MCStartCoins == 
  LET coin(n, a) == [outpoint |-> <<0, n>>, amount |-> a]
  IN  [u |-> <<coin(1, 60)>>, v |-> <<coin(2, 20)>>]
MCInactivity == 2 .. 5
MCTerms ==
  {[kind |-> "timeLock", owner |-> "u", beneficiary |-> "nobody", limit |-> 4, instance |-> 1],
   [kind |-> "deadManSwitch", owner |-> "u", beneficiary |-> "v", limit |-> 3, instance |-> 1]}
\* No Wyrm yet, or one in the middle of its life.
MCLives ==
  LET egg == GenesisState("u", 1, 0)
      born == [egg EXCEPT !.phase = Alive, !.warmed = TRUE, !.anchor = 1]
  IN  {{}, {[egg EXCEPT !.phase = Incubating, !.anchor = 1]},
       {[egg EXCEPT !.phase = Incubating, !.warmed = TRUE, !.anchor = 1]},
       {[born EXCEPT !.care = 2, !.days = 2, !.stage = 1, !.feeds = <<1, 1, 0, 0, 0>>]},
       {[born EXCEPT !.care = 1, !.days = 1]},
       {[born EXCEPT !.phase = Asleep, !.sleep = 1]}}
MCNeeds == <<1, 2, 3>>
\* With both covenants alive only the states in which no draft is open are
\* explored further.
OneAtATime == wyrm = {} \/ vault = {} \/ draft = {}
MCPassword == [length |-> 12]
=============================================================================
