------------------------------ MODULE MCKhatmil ------------------------------
(* Values of the constants of Khatmil for TLC: two juz that meet inside a     *)
(* surah, and a position past the end of the first one's first surah.         *)
EXTENDS Khatmil, TLC

MCJuz  == {1, 2}
MCAyat == <<{<<1, 7>>, <<2, 1>>}, {<<2, 2>>, <<3, 1>>}>>

\* 1:9 and 1:1500 lie in juz 1, which ends in surah 2, and surah 1 has no such
\* verses; 2:1 and 3:1 are the last verses of the juz, 2:2 the first of juz 2.
MCPositions == {<<1, 9>>, <<1, 1500>>, <<2, 1>>, <<2, 2>>, <<3, 1>>}

Alike == Permutations(Users) \cup Permutations(Rows)
           \cup Permutations(Requests)
=============================================================================
