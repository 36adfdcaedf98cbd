------------------------------- MODULE MCRunDb -------------------------------
(* Instances of RunDb for TLC: values for its constants. *)
EXTENDS RunDbInvariant, TLC

CONSTANTS r1, r2, c1, c2, n1, n2, a1, a2, u1, u2

\* Two clients with the same short name: the name tells the number of cores, so
\* that they have the same number.  Two clients with different names.
SameName == [c \in Client |-> n1]
TwoCores == [c \in Client |-> 2]
DistinctNames == [c \in Client |-> IF c = c1 THEN n1 ELSE n2]
UnequalCores == [c \in Client |-> IF c = c1 THEN 1 ELSE 2]

\* Tasks of one or two pairs of games.
Pairs == [c \in Client |-> 2]
TwoPairs == [c \in Client |-> 4]

\* Users are interchangeable; so are runs, addresses, and clients with one name.
UserSymmetry == Permutations(User)
ClientSymmetry == Permutations(Client)
FullSymmetry == Permutations(Run) \cup Permutations(Client) \cup Permutations(Addr)

Result(w, l, x) == [wins |-> w, losses |-> l, crashes |-> x]

\* A pair of games; also one game only, and two pairs with a crash; ...
OneReport == {Result(2, 0, 0)}
MixedReports == {Result(1, 0, 0), Result(2, 0, 0), Result(1, 3, 1)}
CrashReports == {Result(2, 0, 0), Result(0, 2, 1)}

\* The patch is accepted when it is two games ahead, and rejected when it is four
\* games behind.
TwoAhead(results) == results.wins >= results.losses + 2
FourBehind(results) == results.losses >= results.wins + 4
=============================================================================
