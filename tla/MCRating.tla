------------------------------ MODULE MCRating ------------------------------
EXTENDS RatingProperties, TLC

CONSTANTS a, b, c, m, n, t, q, r, s

Alike == Permutations(Call)

Duel(match, result, roster, claim) ==
  [match |-> match, result |-> result, roster |-> roster, claim |-> claim,
   team |-> FALSE, algorithm |-> "elo"]

\* Two matches of two players that share one, a result that contradicts the second
\* under the result id of the first, and a team match.
MCInput ==
  [i \in Submission |->
    CASE i = 1 -> Duel(m, q, {a, b}, "won")
      [] i = 2 -> Duel(n, r, {b, c}, "won")
      [] i = 3 -> Duel(n, q, {b, c}, "lost")
      [] i = 4 -> [Duel(t, s, {a, b}, "won") EXCEPT !.team = TRUE]]
=============================================================================
