------------------------------ MODULE Standings ------------------------------
(***************************************************************************)
(* The score table of server/managers/tournament/standings.js and the two  *)
(* pairing engines that work round by round: pairing/swiss.js and          *)
(* pairing/roundRobin.js.  Pure operators.                                 *)
(*                                                                         *)
(* An entry is the number of its registration, a result a record           *)
(* [player1, player2, winner, round] with player2 = Nobody for a bye and   *)
(* winner = Draw for a draw.  completed is the list completedPairings, as  *)
(* a bag: its order matters only between the results of two players who    *)
(* met twice, where the latest round is taken.  Points are counted in      *)
(* halves, so that a draw is 1 and a win 2.                                *)
(***************************************************************************)
EXTENDS Integers, Sequences, FiniteSets, SequencesExt, Bags, Subsequences

CONSTANTS
  Nobody,  \* null: the empty seat of a bye, and the winner of nothing
  Draw     \* the winner 'draw'

\* f itself; TLC then tabulates it instead of computing f[x] at every use.
Tabulated(f) == CHOOSE g \in {f} : g = f

\* f with v at x.
With(f, x, v) == Tabulated([y \in DOMAIN f \cup {x} |-> IF y = x THEN v ELSE f[y]])

IsBye(r) == r.player2 = Nobody

(***************************************************************************)
(* standings.js                                                            *)
(***************************************************************************)
Points(e, r) ==
  IF IsBye(r) THEN IF r.player1 = e THEN 2 ELSE 0
  ELSE IF r.winner = Draw /\ e \in {r.player1, r.player2} THEN 1
  ELSE IF r.winner = e THEN 2 ELSE 0

SumOver(f, S) == MapThenFoldSet(LAMBDA x, y : x + y, 0, LAMBDA x : f[x],
                                LAMBDA T : CHOOSE x \in T : TRUE, S)

Score(e, completed) ==
  SumOver([r \in DOMAIN completed |-> completed[r] * Points(e, r)], DOMAIN completed)

Met(e, completed) == {r \in DOMAIN completed : ~IsBye(r) /\ e \in {r.player1, r.player2}}
Opponents(e, completed) == UNION {{r.player1, r.player2} \ {e} : r \in Met(e, completed)}

\* resultsAgainst: the last result recorded between the two.
LastResult(e, o, completed) ==
  LET met == Met(e, completed) \cap Met(o, completed)
  IN  (CHOOSE r \in met : \A x \in met : x.round <= r.round).winner

\* pts: the scores of everybody in the table.
Table(field, completed) == Tabulated([e \in field |-> Score(e, completed)])

Buchholz(e, pts, completed) ==
  SumOver(pts, Opponents(e, completed) \cap DOMAIN pts)

\* What e took from o when they last met, in halves.
Taken(e, o, completed) ==
  LET w == LastResult(e, o, completed)
  IN  IF w = e THEN 2 ELSE IF w = Draw THEN 1 ELSE 0

\* In quarter points: a defeated opponent counts twice its half points, a
\* drawn one once.
SonnebornBerger(e, pts, completed) ==
  LET met == Opponents(e, completed) \cap DOMAIN pts
  IN  SumOver([o \in met |-> Taken(e, o, completed) * pts[o]], met)

\* headToHead: the points taken from those on the same score.
HeadToHead(e, pts, completed) ==
  LET level == {o \in Opponents(e, completed) \cap DOMAIN pts : pts[o] = pts[e]}
  IN  SumOver([o \in level |-> Taken(e, o, completed)], level)

Wins(e, completed) ==
  Cardinality({r \in DOMAIN completed : ~IsBye(r) /\ r.winner = e})

RankingKey(e, pts, completed, roundRobin) ==
  IF roundRobin
  THEN <<pts[e], HeadToHead(e, pts, completed), Wins(e, completed),
         SonnebornBerger(e, pts, completed)>>
  ELSE <<pts[e], Buchholz(e, pts, completed), SonnebornBerger(e, pts, completed)>>

\* The comparator of the sorts: the first key that differs decides.
Ahead(a, b) == \E i \in DOMAIN a : a[i] > b[i] /\ \A j \in 1..(i - 1) : a[j] = b[j]

\* Mutant: the next rank is one more than the last.
FinalTable_Dense(field, completed, roundRobin) ==
  LET pts == Table(field, completed)
      key == Tabulated([e \in field |-> RankingKey(e, pts, completed, roundRobin)])
  IN  [e \in field |-> 1 + Cardinality({key[o] : o \in {x \in field : Ahead(key[x], key[e])}})]

\* rankStandings, rankRoundRobinStandings: equal keys share a rank, the next
\* rank is the position in the sorted table.
FinalTable(field, completed, roundRobin) ==
  LET pts == Table(field, completed)
      key == Tabulated([e \in field |-> RankingKey(e, pts, completed, roundRobin)])
  IN  [e \in field |-> 1 + Cardinality({o \in field : Ahead(key[o], key[e])})]

(***************************************************************************)
(* swiss.js.  A pairing is a pair <<player1, player2>>.                    *)
(***************************************************************************)

\* The table before a round: rows is a sequence of [id, score, opponents,
\* hadBye] in registration order.  The sort is stable.
SortedByScore(rows) ==
  LET place(i) == 1 + Cardinality({j \in DOMAIN rows :
                        \/ rows[j].score > rows[i].score
                        \/ rows[j].score = rows[i].score /\ j < i})
  IN  Tabulated([k \in DOMAIN rows |-> rows[CHOOSE i \in DOMAIN rows : place(i) = k]])

\* The lowest without a bye, else the lowest.
ByePlace(sorted) ==
  LET without == {i \in DOMAIN sorted : ~sorted[i].hadBye}
  IN  IF without # {} THEN Max(without) ELSE Len(sorted)

\* Top half against bottom half; whom each of the top half has met already is
\* passed over as long as somebody else is left.
FoldPairs(group) ==
  LET half == Len(group) \div 2
      taken[i \in 0..half] ==
        IF i = 0 THEN {}
        ELSE LET free  == (half + 1)..(2 * half) \ taken[i - 1]
                 fresh == {j \in free : group[j].id \notin group[i].opponents}
             IN  taken[i - 1] \cup {Min(IF fresh # {} THEN fresh ELSE free)}
  IN  [i \in 1..half |->
         <<group[i].id, group[CHOOSE j \in taken[i] \ taken[i - 1] : TRUE].id>>]

\* Score groups from the top; the last of an odd group joins the next one.
PairByScore(pairable) ==
  LET scores     == {r.score : r \in Range(pairable)}
      groupOf(v) == Picked(pairable, {i \in DOMAIN pairable : pairable[i].score = v})
      add(done, g) ==
        IF Len(g) % 2 = 1
        THEN [carry |-> <<Last(g)>>, pairs |-> done \o FoldPairs(Front(g))]
        ELSE [carry |-> <<>>, pairs |-> done \o FoldPairs(g)]
      from[k \in 0..Cardinality(scores)] ==
        IF k = 0 THEN [carry |-> <<>>, pairs |-> <<>>]
        ELSE LET v == CHOOSE x \in scores : Cardinality({y \in scores : y > x}) = k - 1
             IN  add(from[k - 1].pairs, from[k - 1].carry \o groupOf(v))
  IN  from[Cardinality(scores)].pairs

GenerateNextRound(rows) ==
  LET sorted == SortedByScore(rows)
      place  == ByePlace(sorted)
  IN  IF Len(rows) % 2 = 0 THEN PairByScore(sorted)
      ELSE Append(PairByScore(RemoveAt(sorted, place)), <<sorted[place].id, Nobody>>)

TwoTo[k \in Nat] == IF k = 0 THEN 1 ELSE 2 * TwoTo[k - 1]

\* Math.max(1, Math.ceil(Math.log2(n)))
SwissRounds(n) == CHOOSE k \in 1..n : TwoTo[k] >= n /\ (k = 1 \/ TwoTo[k - 1] < n)

(***************************************************************************)
(* roundRobin.js: the first seat stays, the others move on by one a round, *)
(* seats opposite each other meet; an odd field has an empty seat.         *)
(***************************************************************************)
\* Mutant: all seats move on.
GenerateAllRounds_AllMove(players) ==
  LET list == IF Len(players) % 2 = 0 THEN players ELSE Append(players, Nobody)
      n    == Len(list)
      seat(r, i) == list[1 + ((i + n - r) % n)]
      meeting(r, i) == LET a == seat(r, i)
                           b == seat(r, n - 1 - i)
                       IN  IF a = Nobody THEN <<b, Nobody>> ELSE <<a, b>>
  IN  [r \in 1..(n - 1) |-> [i \in 1..(n \div 2) |-> meeting(r - 1, i - 1)]]

GenerateAllRounds(players) ==
  LET list == IF Len(players) % 2 = 0 THEN players ELSE Append(players, Nobody)
      n    == Len(list)
      seat(r, i) == IF i = 0 THEN list[1] ELSE list[2 + ((i - 1 - r) % (n - 1))]
      meeting(r, i) == LET a == seat(r, i)
                           b == seat(r, n - 1 - i)
                       IN  IF a = Nobody THEN <<b, Nobody>> ELSE <<a, b>>
  IN  [r \in 1..(n - 1) |-> [i \in 1..(n \div 2) |-> meeting(r - 1, i - 1)]]
=============================================================================
