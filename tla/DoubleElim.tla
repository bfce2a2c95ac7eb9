------------------------------ MODULE DoubleElim ------------------------------
(***************************************************************************)
(* The bracket of server/managers/tournament/pairing/doubleElim.js.  A     *)
(* match is named <<bracket, round, place>> ('W1M2' is <<"W", 1, 2>>); a   *)
(* slot says whose seat it is: a seed, or the winner or loser of another   *)
(* match.  Pure operators.                                                 *)
(***************************************************************************)
EXTENDS Standings

\* Nobody is also a phantom seed, and the loser of a bye.
CONSTANT Pending  \* undefined: not determined yet

\* nextPowerOfTwo(max(n, 2)), as an exponent: the rounds of the winners bracket.
WinnersRounds(n) == CHOOSE k \in 1..n : TwoTo[k] >= n /\ (k = 1 \/ TwoTo[k - 1] < n)

\* computeSeedOrder: each round of doubling puts size + 1 - s next to s.
SeedOrder(k) ==
  LET order[j \in 1..k] ==
        IF j = 1 THEN <<1, 2>>
        ELSE [i \in 1..TwoTo[j] |-> LET s == order[j - 1][(i + 1) \div 2]
                                    IN  IF i % 2 = 1 THEN s ELSE TwoTo[j] + 1 - s]
  IN  order[k]

Seed(s)   == [type |-> "seed", seed |-> s]
Winner(m) == [type |-> "winner", match |-> m]
Loser(m)  == [type |-> "loser", match |-> m]

GrandFinal == <<"GF", 1, 1>>
GFReset    == <<"GF_RESET", 1, 1>>

WinnersMatches(k) ==
  UNION {{<<"W", r, i>> : i \in 1..TwoTo[k - r]} : r \in 1..k}

\* The losers bracket: round 1 of the losers of round 1, round 2(w - 1) where
\* the losers of winners round w drop in, round 2w - 1 among the survivors.
LosersRounds(k) == 2 * (k - 1)
LosersLength(k, r) == TwoTo[k - 1 - (r + 1) \div 2]
LosersMatches(k) ==
  UNION {{<<"L", r, i>> : i \in 1..LosersLength(k, r)} : r \in 1..LosersRounds(k)}

\* The drop-in order is crossed on the even winners rounds.
DropIn(k, r, i) ==
  LET w == r \div 2 + 1
  IN  <<"W", w, IF w % 2 = 0 THEN LosersLength(k, r) + 1 - i ELSE i>>

SlotsOf(k, m) ==
  LET i == m[3]
      r == m[2]
  IN  CASE m[1] = "W" /\ r = 1 ->
             <<Seed(SeedOrder(k)[2 * i - 1]), Seed(SeedOrder(k)[2 * i])>>
        [] m[1] = "W" /\ r > 1 ->
             <<Winner(<<"W", r - 1, 2 * i - 1>>), Winner(<<"W", r - 1, 2 * i>>)>>
        [] m[1] = "L" /\ r = 1 ->
             <<Loser(<<"W", 1, 2 * i - 1>>), Loser(<<"W", 1, 2 * i>>)>>
        [] m[1] = "L" /\ r % 2 = 0 ->
             <<Winner(<<"L", r - 1, i>>), Loser(DropIn(k, r, i))>>
        [] m[1] = "L" /\ r % 2 = 1 /\ r > 1 ->
             <<Winner(<<"L", r - 1, 2 * i - 1>>), Winner(<<"L", r - 1, 2 * i>>)>>
        [] m = GrandFinal -> <<Winner(<<"W", k, 1>>), Winner(<<"L", LosersRounds(k), 1>>)>>

\* generateBracket; a field of two has no losers bracket and no grand final.
GenerateBracket(players) ==
  LET k == WinnersRounds(Len(players))
      matches == WinnersMatches(k)
                   \cup (IF k > 1 THEN LosersMatches(k) \cup {GrandFinal} ELSE {})
  IN  [rounds        |-> k,
       playersBySeed |-> [s \in 1..TwoTo[k] |-> IF s <= Len(players) THEN players[s] ELSE Nobody],
       slots         |-> [m \in matches |-> SlotsOf(k, m)]]

HasGrandFinal(bracket) == GrandFinal \in DOMAIN bracket.slots

\* The match that decides the tournament unless the grand final is reset.
FinalMatch(bracket) == IF HasGrandFinal(bracket) THEN GrandFinal ELSE <<"W", 1, 1>>

\* resolveMatch: who sits in match m, who won it and who lost it, as far as the
\* results say.  A seat against a phantom is a bye.
ResolveMatch(m, a, b, results) ==
  LET outcome(w, l) == [player1 |-> a, player2 |-> b, winner |-> w, loser |-> l]
  IN  IF Pending \in {a, b}  THEN outcome(Pending, Pending)
      ELSE IF a = Nobody     THEN outcome(b, Nobody)
      ELSE IF b = Nobody     THEN outcome(a, Nobody)
      ELSE IF m \in DOMAIN results
           THEN outcome(results[m], IF results[m] = a THEN b ELSE a)
      ELSE outcome(Pending, Pending)

\* resolveBracket
ResolveBracket(bracket, results) ==
  LET resolved[m \in DOMAIN bracket.slots] ==
        LET seat(slot) ==
              IF slot.type = "seed" THEN bracket.playersBySeed[slot.seed]
              ELSE IF slot.type = "winner" THEN resolved[slot.match].winner
              ELSE resolved[slot.match].loser
        IN  ResolveMatch(m, seat(bracket.slots[m][1]), seat(bracket.slots[m][2]), results)
  IN  resolved

\* Mutant: the grand final is always the last match.
NeedsBracketReset_Never(bracket, results) == FALSE

\* Whether the finalist from the losers bracket won the grand final.
NeedsBracketReset(bracket, results) ==
  /\ HasGrandFinal(bracket)
  /\ LET gf == ResolveBracket(bracket, results)[GrandFinal]
     IN  gf.winner \notin {Pending, Nobody} /\ gf.winner = gf.player2

\* computeEliminationGroups: who fell in each losers round, the last first.
EliminationGroups(rounds, resolved) ==
  LET last   == IF rounds > 1 THEN LosersRounds(rounds) ELSE 0
      out(r) == {resolved[m].loser : m \in {x \in DOMAIN resolved : x[1] = "L" /\ x[2] = r}}
                  \ {Nobody, Pending}
  IN  SelectSeq([j \in 1..last |-> out(last + 1 - j)], LAMBDA g : g # {})

\* The order in which resolveBracket lists the matches, and the bracket creates
\* those of one player: round by round, the winners bracket first.
Stage(m) == IF m[1] = "W" THEN 0 ELSE IF m[1] = "L" THEN 1 ELSE 2
Before(m, n) ==
  \/ Stage(m) < Stage(n)
  \/ Stage(m) = Stage(n) /\ m[2] < n[2]
First(S) == CHOOSE m \in S : \A n \in S \ {m} : ~Before(n, m)
=============================================================================
