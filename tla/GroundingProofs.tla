----------------------------- MODULE GroundingProofs -----------------------------
(***************************************************************************)
(* What holds of the way from captions to citations for every value of the *)
(* constants: any talk and any tokens, any window and overlap, any number  *)
(* of channels, candidates, sources and turns.                             *)
(*                                                                         *)
(* Two inductive invariants carry it, TalkInv for Transcript and           *)
(* GroundingInv for the turn.  Most of the work is about the operators     *)
(* they are made of: folds and choices compute what the steps need only if *)
(* something satisfies the equation or the condition chosen by, and that   *)
(* is shown here by induction, as the least counterexample in a set.       *)
(***************************************************************************)
EXTENDS Grounding, WellFoundedInduction, FiniteSetTheorems, TLAPS

-----------------------------------------------------------------------------
\* Induction, and what a fold computes; the tokens of a window; where a window
\* ends and the next one begins.

\* Induction, without an induction theorem that takes an operator: a set of
\* numbers that is not empty has a least member, for < is well-founded.
LEMMA LeastNumber ==
    ASSUME NEW T \in SUBSET Nat, T # {}
    PROVE  \E n \in T : \A m \in T : n <= m
<1>1. \E n \in T : \A m \in T : <<m, n>> \notin OpToRel(<, Nat)
    BY NatLessThanWellFounded, WFMin
<1>2. \A m, n \in Nat : <<m, n>> \in OpToRel(<, Nat) <=> m < n
    BY DEF OpToRel
<1>3. PICK n \in T : \A m \in T : <<m, n>> \notin OpToRel(<, Nat)
    BY <1>1
<1>4. \A m \in T : ~(m < n)
    BY <1>2, <1>3
<1>5. \A m \in T : n <= m
    BY <1>4
<1> QED
    BY <1>5

\* Induction over a set: a set with 0 and, with every number, the next one up to n
\* has all of them.
LEMMA SetInduction ==
    ASSUME NEW n \in Nat, NEW S, 0 \in S, \A k \in 1..n : k - 1 \in S => k \in S
    PROVE  0..n \subseteq S
<1> DEFINE T == {k \in 0..n : k \notin S}
<1> SUFFICES ASSUME T # {} PROVE FALSE
    OBVIOUS
<1>1. T \in SUBSET Nat
    OBVIOUS
<1>2. PICK k \in T : \A m \in T : k <= m
    <2> HIDE DEF T
    <2> QED BY <1>1, LeastNumber
<1>3. k \in 1..n /\ k - 1 \in 0..n
    OBVIOUS
<1>4. k - 1 \notin T
    BY <1>2, <1>3
<1> QED
    BY <1>3, <1>4

\* The largest member of a set of numbers, as MapThenFoldSet picks it.
LEMMA MaxOfNumbers ==
    ASSUME NEW n \in Nat, NEW t \in SUBSET (1..n), t # {}
    PROVE  Max(t) \in t /\ \A y \in t : y <= Max(t)
<1> DEFINE T == {k \in 0..n : n - k \in t}
<1>1. T \in SUBSET Nat
    OBVIOUS
<1>2. T # {}
    <2>1. PICK y \in t : TRUE
        OBVIOUS
    <2>2. n - y \in T
        BY <2>1
    <2> QED BY <2>2
<1>3. PICK k \in T : \A m \in T : k <= m
    <2> HIDE DEF T
    <2> QED BY <1>1, <1>2, LeastNumber
<1>4. n - k \in t /\ \A y \in t : n - k >= y
    <2>1. ASSUME NEW y \in t PROVE n - k >= y
        <3>1. n - y \in T
            OBVIOUS
        <3> QED BY <1>3, <3>1
    <2> QED BY <1>3, <2>1
<1>5. \E x \in t : \A y \in t : x >= y
    BY <1>4
<1> DEFINE x == Max(t)
<1>6. x \in t /\ \A y \in t : x >= y
    BY <1>5 DEF Max
<1> QED
    BY <1>6

\* The largest of a set of numbers up to n + 1 that has n + 1 is n + 1.
LEMMA MaxOfTop ==
    ASSUME NEW n \in Nat, NEW t \in SUBSET (1..n + 1), n + 1 \in t
    PROVE  Max(t) = n + 1
<1>1. n + 1 \in Nat /\ t # {}
    OBVIOUS
<1>2. Max(t) \in t /\ \A y \in t : y <= Max(t)
    BY <1>1, MaxOfNumbers
<1>3. n + 1 <= Max(t)
    BY <1>2
<1>4. Max(t) \in 1..n + 1
    BY <1>2
<1> QED
    BY <1>3, <1>4

\* The equation of the recursive function inside MapThenFoldSet, on which
\* FoldLeft rests: h on the members of a set of positions, the largest last.
FoldStep(b, h, n, it) ==
    it = [t \in SUBSET (1..n) |-> IF t = {} THEN b ELSE h[<<it[t \ {Max(t)}], Max(t)>>]]

\* A function that satisfies this equation exists, so the one the fold chooses
\* satisfies it too: built from n - 1 to n by leaving n out.
LEMMA FoldExists ==
    ASSUME NEW n \in Nat, NEW V, NEW b \in V, NEW h \in [V \X (1..n) -> V]
    PROVE  \E it \in [SUBSET (1..n) -> V] : FoldStep(b, h, n, it)
<1> DEFINE Exists(m) == \E it \in [SUBSET (1..m) -> V] : FoldStep(b, h, m, it)
           S == {m \in 0..n : Exists(m)}
<1>1. 0 \in S
    <2> DEFINE it == [t \in SUBSET (1..0) |-> b]
    <2>1. SUBSET (1..0) = {{}}
        OBVIOUS
    <2>2. it \in [SUBSET (1..0) -> V]
        OBVIOUS
    <2>3. FoldStep(b, h, 0, it)
        BY <2>1 DEF FoldStep
    <2> QED BY <2>2, <2>3
<1>2. ASSUME NEW k \in 1..n, k - 1 \in S
      PROVE  k \in S
    <2> DEFINE m == k - 1
    <2>1. m \in Nat /\ k = m + 1 /\ 1..k = 1..m \cup {k} /\ k \notin 1..m
        OBVIOUS
    <2>2. PICK g \in [SUBSET (1..m) -> V] : FoldStep(b, h, m, g)
        BY <1>2
    <2> DEFINE it == [t \in SUBSET (1..k) |-> IF k \in t THEN h[<<g[t \ {k}], k>>] ELSE g[t]]
    <2>3. \A t \in SUBSET (1..k) : t \ {k} \in SUBSET (1..m) /\ (k \notin t => t \in SUBSET (1..m))
        BY <2>1
    <2>4. it \in [SUBSET (1..k) -> V]
        BY <2>3
    <2>5. ASSUME NEW t \in SUBSET (1..k)
          PROVE  it[t] = IF t = {} THEN b ELSE h[<<it[t \ {Max(t)}], Max(t)>>]
        <3>1. CASE k \in t
            <4>1. Max(t) = k
                BY <3>1, <2>1, MaxOfTop
            <4>2. it[t \ {k}] = g[t \ {k}]
                BY <2>3
            <4> QED BY <3>1, <4>1, <4>2
        <3>2. CASE k \notin t
            <4>1. t \in SUBSET (1..m)
                BY <3>2, <2>3
            <4>2. it[t] = g[t]
                BY <3>2
            <4>3. CASE t = {}
                BY <4>1, <4>2, <4>3, <2>2 DEF FoldStep
            <4>4. CASE t # {}
                <5>1. g[t] = h[<<g[t \ {Max(t)}], Max(t)>>]
                    BY <4>1, <4>4, <2>2 DEF FoldStep
                <5>2. t \ {Max(t)} \in SUBSET (1..k) /\ k \notin t \ {Max(t)}
                    BY <3>2
                <5>3. it[t \ {Max(t)}] = g[t \ {Max(t)}]
                    BY <5>2
                <5> QED BY <4>2, <4>4, <5>1, <5>3
            <4> QED BY <4>3, <4>4
        <3> QED BY <3>1, <3>2
    <2>6. FoldStep(b, h, k, it)
        <3> HIDE DEF it
        <3> QED BY <2>4, <2>5 DEF FoldStep
    <2>7. Exists(k)
        <3> HIDE DEF it
        <3> QED BY <2>4, <2>6
    <2> QED
        <3> HIDE DEF Exists
        <3> QED BY <2>7
<1>3. 0..n \subseteq S
    <2> HIDE DEF S
    <2> QED BY <1>1, <1>2, SetInduction
<1>4. Exists(n)
    <2> HIDE DEF Exists
    <2> QED BY <1>3
<1> QED
    BY <1>4

\* The largest of the first k numbers is k.
LEMMA MaxOfInterval ==
    ASSUME NEW k \in Nat \ {0}
    PROVE  Max(1..k) = k
<1>1. k - 1 \in Nat /\ k = (k - 1) + 1 /\ 1..k \in SUBSET (1..(k - 1) + 1) /\ (k - 1) + 1 \in 1..k
    OBVIOUS
<1>2. Max(1..k) = (k - 1) + 1
    BY <1>1, MaxOfTop
<1> QED
    BY <1>2

\* What is known of the function the fold chooses.
Unfolds(it, V, b, h, n) ==
    /\ it[{}] = b
    /\ \A t \in SUBSET (1..n) : t # {} /\ it[t \ {Max(t)}] \in V
            => it[t] = h[<<it[t \ {Max(t)}], Max(t)>>]

\* P[k] is the value of the fold over the first k members.
FoldsOf(P, it, V, b, h, n) ==
    /\ P \in [0..n -> V]
    /\ P[0] = b
    /\ \A k \in 1..n : P[k] = h[<<P[k - 1], k>>]
    /\ P[n] = it[1..n]

\* A fold has a value for every prefix, each made of the one before.
LEMMA FoldPrefixes ==
    ASSUME NEW n \in Nat, NEW V, NEW b \in V, NEW h \in [V \X (1..n) -> V], NEW it,
           Unfolds(it, V, b, h, n)
    PROVE  \E P : FoldsOf(P, it, V, b, h, n)
<1> DEFINE P == [k \in 0..n |-> it[1..k]]
           S == {k \in 0..n : it[1..k] \in V}
<1>1. 1..0 = {}
    OBVIOUS
<1>2. 0 \in S
    BY <1>1 DEF Unfolds
<1>3. ASSUME NEW k \in 1..n, it[1..k - 1] \in V
      PROVE  it[1..k] = h[<<it[1..k - 1], k>>]
    <2>1. k \in Nat /\ k >= 1 /\ k <= n
        OBVIOUS
    <2>2. 1..k \in SUBSET (1..n) /\ k \in 1..k
        BY <2>1
    <2>3. (1..k) \ {k} = 1..k - 1
        BY <2>1
    <2>4. Max(1..k) = k
        BY <2>1, MaxOfInterval
    <2> QED BY <1>3, <2>2, <2>3, <2>4 DEF Unfolds
<1>4. ASSUME NEW k \in 1..n, k - 1 \in S
      PROVE  k \in S
    <2>1. it[1..k - 1] \in V
        BY <1>4
    <2>2. <<it[1..k - 1], k>> \in V \X (1..n)
        BY <2>1
    <2>3. h[<<it[1..k - 1], k>>] \in V
        BY <2>2
    <2>4. it[1..k] \in V
        BY <1>3, <2>1, <2>3
    <2> QED BY <2>4
<1>5. 0..n \subseteq S
    <2> HIDE DEF S
    <2> QED BY <1>2, <1>4, SetInduction
<1>6. P \in [0..n -> V]
    BY <1>5
<1>7. \A k \in 1..n : P[k] = h[<<P[k - 1], k>>]
    <2>1. \A k \in 1..n : k \in 0..n /\ k - 1 \in 0..n /\ it[1..k - 1] \in V
        BY <1>5
    <2> QED BY <1>3, <2>1
<1>8. P[0] = b /\ P[n] = it[1..n]
    BY <1>1 DEF Unfolds
<1>9. FoldsOf(P, it, V, b, h, n)
    <2> HIDE DEF P
    <2> QED BY <1>6, <1>7, <1>8 DEF FoldsOf
<1> QED
    BY <1>8, <1>9

\* A word and its time; the tokens of the words i..j of a text.
TimedWords == [text : Words, at : Nat]
TokensOf(ws, i, j) == FoldLeft(LAMBDA n, w : n + TokenCount[w.text], 0, SubSeq(ws, i, j))

\* Tokens of Transcript, for any sequence of words.
LEMMA TokensIsTokensOf ==
    \A i, j : Tokens(i, j) = TokensOf(timed, i, j)
BY DEF Tokens, TokensOf

\* P[k] is the number of tokens of the first k words of s.
IsSum(P, s) ==
    /\ P \in [0..Len(s) -> Nat]
    /\ P[0] = 0
    /\ \A k \in 1..Len(s) : P[k] = P[k - 1] + TokenCount[s[k].text]

\* Every text has such sums, and FoldLeft computes the last of them.
LEMMA SumExists ==
    ASSUME NEW s \in Seq(TimedWords)
    PROVE  \E P : IsSum(P, s)
           /\ FoldLeft(LAMBDA n, w : n + TokenCount[w.text], 0, s) = P[Len(s)]
<1> DEFINE n == Len(s)
           Step(it) == it = [t \in SUBSET (1..n) |->
                        IF t = {} THEN 0 ELSE it[t \ {Max(t)}] + TokenCount[s[Max(t)].text]]
           it == CHOOSE f : Step(f)
           h == [p \in Nat \X (1..n) |-> p[1] + TokenCount[s[p[2]].text]]
<1>1. n \in Nat /\ DOMAIN s = 1..n
    OBVIOUS
<1>2. \A k \in 1..n : TokenCount[s[k].text] \in Nat
    <2>1. \A k \in 1..n : s[k] \in TimedWords
        OBVIOUS
    <2> QED BY <2>1, TokenAssumption DEF TimedWords
<1>3. h \in [Nat \X (1..n) -> Nat]
    BY <1>2
<1>4. \A v \in Nat, k \in 1..n : h[<<v, k>>] = v + TokenCount[s[k].text]
    OBVIOUS
<1>5. PICK g \in [SUBSET (1..n) -> Nat] : FoldStep(0, h, n, g)
    <2> HIDE DEF h, n
    <2> QED BY <1>1, <1>3, FoldExists
<1>6. \A t \in SUBSET (1..n) : t # {} => Max(t) \in 1..n
    <2> HIDE DEF n
    <2> QED BY <1>1, MaxOfNumbers
<1>7. Step(g)
    <2>1. \A t \in SUBSET (1..n) :
            g[t] = IF t = {} THEN 0 ELSE g[t \ {Max(t)}] + TokenCount[s[Max(t)].text]
        <3> SUFFICES ASSUME NEW t \in SUBSET (1..n)
                     PROVE  g[t] = IF t = {} THEN 0 ELSE g[t \ {Max(t)}] + TokenCount[s[Max(t)].text]
            OBVIOUS
        <3>1. g[t] = IF t = {} THEN 0 ELSE h[<<g[t \ {Max(t)}], Max(t)>>]
            BY <1>5 DEF FoldStep
        <3>2. g[t \ {Max(t)}] \in Nat
            BY <1>5
        <3> HIDE DEF h, n
        <3> QED BY <3>1, <3>2, <1>4, <1>6
    <2> HIDE DEF h, n
    <2> QED BY <2>1
<1>8. Step(it)
    <2> HIDE DEF Step
    <2> QED BY <1>7
<1>9. FoldLeft(LAMBDA m, w : m + TokenCount[w.text], 0, s) = it[1..n]
    BY <1>1 DEF FoldLeft, MapThenFoldSet
<1>10. it[{}] = 0
    <2> HIDE DEF it
    <2> QED BY <1>8
<1>11. \A t \in SUBSET (1..n) : t # {} /\ it[t \ {Max(t)}] \in Nat
            => it[t] = h[<<it[t \ {Max(t)}], Max(t)>>]
    <2> SUFFICES ASSUME NEW t \in SUBSET (1..n), t # {}, it[t \ {Max(t)}] \in Nat
                 PROVE  it[t] = h[<<it[t \ {Max(t)}], Max(t)>>]
        OBVIOUS
    <2>1. it[t] = it[t \ {Max(t)}] + TokenCount[s[Max(t)].text]
        <3> HIDE DEF it
        <3> QED BY <1>8
    <2> HIDE DEF it, h, n
    <2> QED BY <1>4, <1>6, <2>1
<1>12. Unfolds(it, Nat, 0, h, n)
    <2> HIDE DEF it, h, n
    <2> QED BY <1>10, <1>11 DEF Unfolds
<1>14. PICK P : FoldsOf(P, it, Nat, 0, h, n)
    <2> HIDE DEF it, h, n
    <2> QED BY <1>1, <1>3, <1>12, FoldPrefixes
<1>13. IsSum(P, s)
    <2>1. ASSUME NEW k \in 1..n
          PROVE  P[k] = P[k - 1] + TokenCount[s[k].text]
        <3>1. k - 1 \in 0..n
            BY <1>1
        <3>2. P[k - 1] \in Nat
            BY <1>14, <3>1 DEF FoldsOf
        <3> HIDE DEF it, h, n
        <3> QED BY <1>4, <1>14, <3>2 DEF FoldsOf
    <2> QED BY <1>14, <2>1 DEF IsSum, FoldsOf
<1> HIDE DEF it
<1> QED
    BY <1>9, <1>13, <1>14 DEF FoldsOf

\* What a window weighs is the difference of two sums.
LEMMA TokensAreDifferences ==
    ASSUME NEW ws \in Seq(TimedWords), NEW P, IsSum(P, ws),
           NEW i \in 1..Len(ws) + 1, NEW j \in i - 1..Len(ws)
    PROVE  TokensOf(ws, i, j) = P[j] - P[i - 1]
<1> DEFINE s == SubSeq(ws, i, j)
           n == j - (i - 1)
<1>1. n \in Nat /\ i \in Int /\ j \in Int /\ i >= 1 /\ j <= Len(ws)
    OBVIOUS
<1>2. /\ s \in Seq(TimedWords) /\ Len(s) = n
      /\ \A k \in 1..n : s[k] = ws[i - 1 + k]
    <2>1. \A k \in i..j : ws[k] \in TimedWords
        BY <1>1
    <2> QED BY <1>1, <2>1
<1>3. PICK Q : IsSum(Q, s) /\ TokensOf(ws, i, j) = Q[Len(s)]
    <2> HIDE DEF s
    <2>1. PICK Q : IsSum(Q, s) /\ FoldLeft(LAMBDA m, w : m + TokenCount[w.text], 0, s) = Q[Len(s)]
        BY <1>2, SumExists
    <2> QED BY <2>1 DEF TokensOf, s
<1>4. /\ Q \in [0..n -> Nat] /\ Q[0] = 0
      /\ \A k \in 1..n : Q[k] = Q[k - 1] + TokenCount[ws[i - 1 + k].text]
    <2> HIDE DEF s, n
    <2> QED BY <1>2, <1>3 DEF IsSum
<1>5. /\ P \in [0..Len(ws) -> Nat]
      /\ \A k \in 1..Len(ws) : P[k] = P[k - 1] + TokenCount[ws[k].text]
    BY DEF IsSum
<1> DEFINE S == {k \in 0..n : Q[k] = P[i - 1 + k] - P[i - 1]}
<1>6. 0 \in S
    <2>1. i - 1 \in 0..Len(ws) /\ i - 1 + 0 = i - 1
        BY <1>1
    <2>2. P[i - 1] \in Nat
        BY <1>5, <2>1
    <2> QED BY <1>1, <1>4, <2>1, <2>2
<1>7. ASSUME NEW k \in 1..n, k - 1 \in S
      PROVE  k \in S
    <2> DEFINE m == i - 1 + k
    <2>1. m \in 1..Len(ws) /\ m - 1 = i - 1 + (k - 1) /\ k - 1 \in 0..n /\ i - 1 \in 0..Len(ws)
        BY <1>1
    <2>2. P[m] = P[m - 1] + TokenCount[ws[m].text]
        BY <1>5, <2>1
    <2>3. Q[k] = Q[k - 1] + TokenCount[ws[m].text]
        BY <1>4
    <2>4. Q[k - 1] = P[m - 1] - P[i - 1]
        BY <1>7, <2>1
    <2>5. P[m] \in Nat /\ P[m - 1] \in Nat /\ P[i - 1] \in Nat
        <3>1. m \in 0..Len(ws) /\ m - 1 \in 0..Len(ws) /\ i - 1 \in 0..Len(ws)
            BY <2>1
        <3> HIDE DEF m
        <3> QED BY <1>5, <3>1
    <2> HIDE DEF m, n
    <2>6. TokenCount[ws[m].text] = P[m] - P[m - 1]
        <3>1. m \in 1..Len(ws)
            BY <2>1
        <3>2. ws[m] \in TimedWords
            BY <3>1
        <3>3. TokenCount[ws[m].text] \in Nat
            BY <3>2, TokenAssumption DEF TimedWords
        <3> QED BY <2>2, <2>5, <3>3
    <2>7. Q[k] = P[m] - P[i - 1]
        BY <2>3, <2>4, <2>5, <2>6
    <2> QED BY <2>7 DEF m
<1>8. 0..n \subseteq S
    <2> HIDE DEF S, n
    <2> QED BY <1>1, <1>6, <1>7, SetInduction
<1>9. Q[n] = P[j] - P[i - 1]
    <2>1. n \in S /\ i - 1 + n = j
        BY <1>1, <1>8
    <2> QED BY <2>1
<1> QED
    BY <1>2, <1>3, <1>9

\* A window without a word weighs nothing, and the next word adds its tokens, at
\* least one.
LEMMA SumGrows ==
    ASSUME NEW ws \in Seq(TimedWords)
    PROVE  /\ \A i \in 1..Len(ws) + 1 : TokensOf(ws, i, i - 1) = 0
           /\ \A i \in 1..Len(ws) + 1 : \A j \in i - 1..Len(ws) : TokensOf(ws, i, j) \in Nat
           /\ \A i \in 1..Len(ws) : \A j \in i - 1..Len(ws) - 1 :
                TokensOf(ws, i, j + 1) = TokensOf(ws, i, j) + TokenCount[ws[j + 1].text]
           /\ \A k \in 1..Len(ws) : TokenCount[ws[k].text] \in Nat \ {0}
<1>1. PICK P : IsSum(P, ws)
    BY SumExists
<1>2. /\ P \in [0..Len(ws) -> Nat]
      /\ \A k \in 1..Len(ws) : P[k] = P[k - 1] + TokenCount[ws[k].text]
    BY <1>1 DEF IsSum
<1>p. \A k \in 0..Len(ws) : P[k] \in Nat
    BY <1>2
<1>3. ASSUME NEW k \in 1..Len(ws)
      PROVE  TokenCount[ws[k].text] \in Nat \ {0}
    <2>1. ws[k] \in TimedWords
        OBVIOUS
    <2> QED BY <2>1, TokenAssumption DEF TimedWords
<1> DEFINE S == {k \in 0..Len(ws) : \A m \in 0..k : P[m] <= P[k]}
<1>4. ASSUME NEW k \in 0..Len(ws), NEW m \in 0..k
      PROVE  P[m] <= P[k]
    <2>1. 0 \in S
        BY <1>2
    <2>2. ASSUME NEW j \in 1..Len(ws), j - 1 \in S
          PROVE  j \in S
        <3>1. P[j] = P[j - 1] + TokenCount[ws[j].text] /\ P[j] \in Nat /\ P[j - 1] \in Nat
            BY <1>2
        <3>2. P[j - 1] <= P[j]
            BY <3>1, <1>3
        <3>3. ASSUME NEW i \in 0..j
              PROVE  P[i] <= P[j]
            <4>1. CASE i = j
                BY <4>1, <3>1
            <4>2. CASE i \in 0..j - 1
                <5>1. P[i] <= P[j - 1] /\ P[i] \in Nat
                    BY <2>2, <4>2, <1>2
                <5> QED BY <5>1, <3>1, <3>2
            <4> QED BY <4>1, <4>2
        <3> QED BY <3>3
    <2>3. 0..Len(ws) \subseteq S
        <3>1. Len(ws) \in Nat
            OBVIOUS
        <3> HIDE DEF S
        <3> QED BY <2>1, <2>2, <3>1, SetInduction
    <2> QED BY <2>3
<1>5. ASSUME NEW i \in 1..Len(ws) + 1, NEW j \in i - 1..Len(ws)
      PROVE  TokensOf(ws, i, j) = P[j] - P[i - 1] /\ TokensOf(ws, i, j) \in Nat
    <2>1. TokensOf(ws, i, j) = P[j] - P[i - 1]
        BY <1>1, TokensAreDifferences
    <2>2. j \in 0..Len(ws) /\ i - 1 \in 0..j
        OBVIOUS
    <2>3. P[i - 1] <= P[j]
        BY <2>2, <1>4
    <2>4. P[j] \in Nat /\ P[i - 1] \in Nat
        <3>1. i - 1 \in 0..Len(ws)
            BY <2>2
        <3> QED BY <1>p, <2>2, <3>1
    <2> QED BY <2>1, <2>3, <2>4
<1>6. ASSUME NEW i \in 1..Len(ws) + 1
      PROVE  TokensOf(ws, i, i - 1) = 0
    <2>1. i - 1 \in i - 1..Len(ws) /\ i - 1 \in 0..Len(ws)
        OBVIOUS
    <2>2. TokensOf(ws, i, i - 1) = P[i - 1] - P[i - 1]
        BY <2>1, <1>5
    <2>3. P[i - 1] \in Nat
        BY <1>2, <2>1
    <2> QED BY <2>2, <2>3
<1>7. ASSUME NEW i \in 1..Len(ws), NEW j \in i - 1..Len(ws) - 1
      PROVE  TokensOf(ws, i, j + 1) = TokensOf(ws, i, j) + TokenCount[ws[j + 1].text]
    <2>1. /\ i \in 1..Len(ws) + 1 /\ j \in i - 1..Len(ws) /\ j + 1 \in i - 1..Len(ws)
          /\ j + 1 \in 1..Len(ws) /\ (j + 1) - 1 = j
        OBVIOUS
    <2>2. TokensOf(ws, i, j) = P[j] - P[i - 1] /\ TokensOf(ws, i, j + 1) = P[j + 1] - P[i - 1]
        BY <2>1, <1>5
    <2>3. P[j + 1] = P[j] + TokenCount[ws[j + 1].text]
        BY <1>2, <2>1
    <2>4. P[j] \in Nat /\ P[i - 1] \in Nat /\ P[j + 1] \in Nat
        <3>1. j \in 0..Len(ws) /\ i - 1 \in 0..Len(ws) /\ j + 1 \in 0..Len(ws)
            BY <2>1
        <3> QED BY <1>p, <3>1
    <2>5. TokenCount[ws[j + 1].text] \in Nat
        BY <1>3, <2>1
    <2> QED BY <2>2, <2>3, <2>4, <2>5
<1> QED
    BY <1>3, <1>5, <1>6, <1>7

\* WindowEnd is well defined: there is a longest window that fits, or is one word.
LEMMA WindowEndFits ==
    ASSUME timed \in Seq(TimedWords), NEW i \in 1..Len(timed)
    PROVE  /\ WindowEnd(i) \in i..Len(timed)
           /\ WindowEnd(i) = i \/ TokensOf(timed, i, WindowEnd(i)) <= TargetTokens
           /\ WindowEnd(i) < Len(timed) => TokensOf(timed, i, WindowEnd(i) + 1) > TargetTokens
<1> DEFINE Fits(j) == j = i \/ TokensOf(timed, i, j) <= TargetTokens
           T == {j \in i..Len(timed) : Fits(j)}
           n == Len(timed)
<1>1. n \in Nat /\ T \in SUBSET (1..n) /\ i \in T
    OBVIOUS
<1>2. Max(T) \in T /\ \A y \in T : y <= Max(T)
    <2> HIDE DEF T, n
    <2> QED BY <1>1, MaxOfNumbers
<1> DEFINE m == Max(T)
<1>3. m \in i..n /\ Fits(m)
    BY <1>2
<1>4. m < n => TokensOf(timed, i, m + 1) > TargetTokens
    <2> SUFFICES ASSUME m < n PROVE TokensOf(timed, i, m + 1) > TargetTokens
        OBVIOUS
    <2>1. m + 1 \in i..n /\ m + 1 # i
        BY <1>3
    <2>2. m + 1 \notin T
        <3> HIDE DEF T
        <3> QED BY <1>2, <1>3
    <2>3. ~(TokensOf(timed, i, m + 1) <= TargetTokens)
        <3> HIDE DEF m
        <3> QED BY <2>1, <2>2
    <2>4. TokensOf(timed, i, m + 1) \in Nat
        <3>1. i \in 1..Len(timed) + 1 /\ m + 1 \in i - 1..Len(timed)
            BY <2>1
        <3> HIDE DEF m
        <3> QED BY <3>1, SumGrows
    <2> QED BY <2>3, <2>4, TokenAssumption
<1> DEFINE Good(j) == Fits(j) /\ (j < n => TokensOf(timed, i, j + 1) > TargetTokens)
<1>5. WindowEnd(i) = CHOOSE j \in i..n : Good(j)
    BY TokensIsTokensOf DEF WindowEnd
<1>6. \E j \in i..n : Good(j)
    <2> HIDE DEF m
    <2> QED BY <1>3, <1>4
<1>7. WindowEnd(i) \in i..n /\ Good(WindowEnd(i))
    <2> HIDE DEF Good
    <2> QED BY <1>5, <1>6
<1> QED
    BY <1>7

\* NextStart is well defined, goes forward, leaves no word out, and shares no more
\* than the overlap.
LEMMA NextStartAdvances ==
    ASSUME timed \in Seq(TimedWords), NEW i \in 1..Len(timed), NEW j \in i..Len(timed)
    PROVE  /\ NextStart(i, j) \in i + 1..j + 1
           /\ TokensOf(timed, NextStart(i, j), j) <= OverlapTokens
<1> DEFINE Good(b) == /\ TokensOf(timed, b, j) <= OverlapTokens
                      /\ b > i => TokensOf(timed, b - 1, j) > OverlapTokens
           T == {b \in i..j + 1 : TokensOf(timed, b, j) <= OverlapTokens}
           GoodT(b) == /\ Tokens(b, j) <= OverlapTokens
                       /\ b > i => Tokens(b - 1, j) > OverlapTokens
           back == CHOOSE b \in i..j + 1 : GoodT(b)
<1>1. TokensOf(timed, j + 1, j) <= OverlapTokens
    <2>1. j + 1 \in 1..Len(timed) + 1 /\ (j + 1) - 1 = j
        OBVIOUS
    <2>2. TokensOf(timed, j + 1, j) = 0
        BY <2>1, SumGrows
    <2> QED BY <2>2, TokenAssumption
<1>2. T \in SUBSET Nat /\ j + 1 \in T
    BY <1>1
<1>3. PICK m \in T : \A b \in T : m <= b
    <2> HIDE DEF T
    <2> QED BY <1>2, LeastNumber
<1>4. m > i => TokensOf(timed, m - 1, j) > OverlapTokens
    <2> SUFFICES ASSUME m > i PROVE TokensOf(timed, m - 1, j) > OverlapTokens
        OBVIOUS
    <2>1. m - 1 \in i..j + 1 /\ m - 1 \notin T
        BY <1>3
    <2>2. ~(TokensOf(timed, m - 1, j) <= OverlapTokens)
        BY <2>1
    <2>3. TokensOf(timed, m - 1, j) \in Nat
        <3>1. m - 1 \in 1..Len(timed) + 1 /\ j \in (m - 1) - 1..Len(timed)
            BY <2>1
        <3> QED BY <3>1, SumGrows
    <2> QED BY <2>2, <2>3, TokenAssumption
<1>5. \E b \in i..j + 1 : Good(b)
    BY <1>3, <1>4
<1>6. back \in i..j + 1 /\ Good(back)
    <2>1. \A b : GoodT(b) <=> Good(b)
        BY TokensIsTokensOf
    <2> HIDE DEF Good, GoodT
    <2> QED BY <1>5, <2>1
<1>7. NextStart(i, j) = IF back > i THEN back ELSE j + 1
    BY DEF NextStart
<1> HIDE DEF back
<1>8. CASE back > i
    <2>1. NextStart(i, j) = back
        BY <1>7, <1>8
    <2> QED BY <1>6, <1>8, <2>1
<1>9. CASE ~(back > i)
    <2>1. NextStart(i, j) = j + 1
        BY <1>7, <1>9
    <2> QED BY <1>1, <2>1
<1> QED
    BY <1>8, <1>9

-----------------------------------------------------------------------------
\* How far a cue overlaps what was shown.

\* Overlap is well defined: it is the longest suffix of what was shown that the cue
\* begins with.
LEMMA OverlapIsLongest ==
    ASSUME NEW S, NEW shown \in Seq(S), NEW cue \in Seq(S)
    PROVE  /\ Overlap(shown, cue) \in 0..Len(cue)
           /\ Overlap(shown, cue) <= Len(shown)
           /\ LastWords(shown, Overlap(shown, cue)) = SubSeq(cue, 1, Overlap(shown, cue))
           /\ \A j \in Overlap(shown, cue) + 1..Len(cue) :
                j <= Len(shown) => LastWords(shown, j) # SubSeq(cue, 1, j)
<1> DEFINE Same(k) == k <= Len(shown) /\ LastWords(shown, k) = SubSeq(cue, 1, k)
           Longest(k) == Same(k) /\ \A j \in k + 1..Len(cue) :
                            j <= Len(shown) => LastWords(shown, j) # SubSeq(cue, 1, j)
           n == Len(cue)
           T == {d \in 0..n : Same(n - d)}
<1>1. n \in Nat /\ Len(shown) \in Nat
    OBVIOUS
<1>2. Same(0)
    <2>1. SubSeq(shown, Len(shown) + 1, Len(shown)) = <<>> /\ SubSeq(cue, 1, 0) = <<>>
        BY <1>1
    <2>2. LastWords(shown, 0) = SubSeq(shown, Len(shown) + 1, Len(shown))
        BY <1>1 DEF LastWords
    <2> QED BY <1>1, <2>1, <2>2
<1>3. T \in SUBSET Nat /\ n \in T
    <2> HIDE DEF Same, n
    <2> QED BY <1>1, <1>2
<1>4. PICK d \in T : \A e \in T : d <= e
    <2> HIDE DEF T
    <2> QED BY <1>3, LeastNumber
<1>5. Longest(n - d)
    <2>1. Same(n - d) /\ d \in 0..n
        BY <1>4
    <2>2. ASSUME NEW j \in (n - d) + 1..n
          PROVE  ~Same(j)
        <3>1. n - j \in 0..n /\ n - j < d /\ n - (n - j) = j
            BY <1>1, <2>1
        <3>2. n - j \notin T
            <4> HIDE DEF T
            <4> QED BY <1>4, <2>1, <3>1
        <3> HIDE DEF Same, n
        <3> QED BY <3>1, <3>2
    <2> QED BY <2>1, <2>2
<1>6. \E k \in 0..n : Longest(k)
    <2>1. n - d \in 0..n
        BY <1>1, <1>4
    <2> HIDE DEF Longest, n
    <2> QED BY <1>5, <2>1
<1>7. Overlap(shown, cue) = CHOOSE k \in 0..n : Longest(k)
    BY DEF Overlap
<1>8. Overlap(shown, cue) \in 0..n /\ Longest(Overlap(shown, cue))
    <2> HIDE DEF Longest, n
    <2> QED BY <1>6, <1>7
<1> QED
    BY <1>8

\* Of a talk that repeats no word, a cue that begins with the last words shown
\* overlaps in just these.
LEMMA RollsByWhatIsShownAgain ==
    ASSUME NEW S, NEW s \in Seq(S), NEW new \in Seq(S), IsInjective(s \o new),
           NEW back \in 0..Len(s), NEW c \in Seq(S), Len(c) = back + Len(new),
           \A i \in 1..back : c[i] = s[Len(s) - back + i],
           \A i \in back + 1..back + Len(new) : c[i] = new[i - back]
    PROVE  Overlap(s, c) = back
<1> DEFINE k == Overlap(s, c)
           n == Len(s)
<1>1. /\ k \in 0..Len(c) /\ k <= n
      /\ LastWords(s, k) = SubSeq(c, 1, k)
      /\ \A j \in k + 1..Len(c) : j <= n => LastWords(s, j) # SubSeq(c, 1, j)
    BY OverlapIsLongest
<1>2. n \in Nat /\ Len(new) \in Nat /\ back \in Nat /\ back <= n
    OBVIOUS
<1>3. LastWords(s, back) = SubSeq(c, 1, back)
    <2>1. LastWords(s, back) = [i \in 1..back |-> s[n - back + i]]
        BY <1>2 DEF LastWords
    <2>2. SubSeq(c, 1, back) = [i \in 1..back |-> c[i]]
        BY <1>2
    <2> QED BY <2>1, <2>2
<1>4. ~(back > k)
    <2> HIDE DEF k
    <2> QED BY <1>1, <1>2, <1>3
<1>5. ~(k > back)
    <2> SUFFICES ASSUME k > back PROVE FALSE
        OBVIOUS
    <2>1. /\ k \in 1..n /\ k - back \in 1..Len(new) /\ k \in 1..k
          /\ k \in back + 1..back + Len(new)
        <3> HIDE DEF k
        <3> QED BY <1>1, <1>2
    <2>2. LastWords(s, k)[k] = s[n]
        <3> HIDE DEF k
        <3>1. LastWords(s, k) = [i \in 1..k |-> s[n - k + i]]
            BY <1>2, <2>1 DEF LastWords
        <3> QED BY <2>1, <3>1
    <2>3. SubSeq(c, 1, k)[k] = c[k]
        <3> HIDE DEF k
        <3>1. SubSeq(c, 1, k) = [i \in 1..k |-> c[i]]
            BY <1>1, <2>1
        <3> QED BY <2>1, <3>1
    <2>4. s[n] = new[k - back]
        <3> HIDE DEF k, n
        <3> QED BY <1>1, <2>1, <2>2, <2>3
    <2>5. /\ (s \o new)[n] = s[n] /\ (s \o new)[n + (k - back)] = new[k - back]
          /\ n \in DOMAIN (s \o new) /\ n + (k - back) \in DOMAIN (s \o new)
        <3> HIDE DEF k
        <3> QED BY <1>2, <2>1
    <2>6. n = n + (k - back)
        <3> HIDE DEF k, n
        <3> QED BY <2>4, <2>5 DEF IsInjective
    <2> HIDE DEF k, n
    <2> QED BY <1>1, <1>2, <2>6
<1> HIDE DEF k
<1>6. k = back
    BY <1>1, <1>2, <1>4, <1>5
<1> QED
    BY <1>6 DEF k

\* A talk that repeats no word repeated none before its last words.
LEMMA PrefixOfInjective ==
    ASSUME NEW S, NEW s \in Seq(S), NEW t \in Seq(S), IsInjective(s \o t)
    PROVE  IsInjective(s)
<1>1. \A i \in DOMAIN s : i \in DOMAIN (s \o t) /\ (s \o t)[i] = s[i]
    OBVIOUS
<1> QED
    BY <1>1 DEF IsInjective

-----------------------------------------------------------------------------
\* The talk: the inductive invariant of the ingest, step by step.

\* Facts of sequences the steps below cite: concatenation,
LEMMA ConcatIs ==
    ASSUME NEW S, NEW s \in Seq(S), NEW t \in Seq(S)
    PROVE  /\ s \o t \in Seq(S) /\ Len(s \o t) = Len(s) + Len(t)
           /\ Len(s) \in Nat /\ Len(t) \in Nat
           /\ DOMAIN (s \o t) = 1..Len(s) + Len(t)
           /\ \A i \in 1..Len(s) : (s \o t)[i] = s[i]
           /\ \A i \in Len(s) + 1..Len(s) + Len(t) : (s \o t)[i] = t[i - Len(s)]
OBVIOUS

\* a function on 1..n as a sequence,
LEMMA FunIsSeq ==
    ASSUME NEW S, NEW n \in Nat, NEW f \in [1..n -> S]
    PROVE  f \in Seq(S) /\ Len(f) = n
OBVIOUS

\* a sequence as a function,
LEMMA SeqIsFun ==
    ASSUME NEW S, NEW s \in Seq(S)
    PROVE  /\ s = [i \in 1..Len(s) |-> s[i]]
           /\ Len(s) \in Nat /\ DOMAIN s = 1..Len(s)
           /\ \A i \in 1..Len(s) : s[i] \in S
OBVIOUS

\* a part of a sequence,
LEMMA SubSeqIs ==
    ASSUME NEW S, NEW s \in Seq(S), NEW a \in Nat \ {0}, NEW b \in a - 1..Len(s)
    PROVE  /\ SubSeq(s, a, b) \in Seq(S) /\ Len(SubSeq(s, a, b)) = b - a + 1
           /\ \A i \in 1..b - a + 1 : SubSeq(s, a, b)[i] = s[a - 1 + i]
<1>1. \A k \in a..b : s[k] \in S
    OBVIOUS
<1> QED
    BY <1>1

\* and equality, place by place.
LEMMA SameSeq ==
    ASSUME NEW S, NEW s \in Seq(S), NEW t \in Seq(S), Len(s) = Len(t),
           \A i \in 1..Len(s) : s[i] = t[i]
    PROVE  s = t
OBVIOUS

\* The types of Transcript's variables; a chunk is a window of the words.
ChunkDrafts == [first : Nat, last : Nat, tokens : Nat]

TalkShape ==
    /\ said \in Seq(Words) /\ timed \in Seq(TimedWords)
    /\ stage \in {"captions", "chunking", "ready", "stored"}
    /\ chunks \in Seq(ChunkDrafts)
    /\ \A i \in DOMAIN chunks :
        chunks[i].first \in 1..chunks[i].last /\ chunks[i].last \in 1..Len(timed)

\* The next window begins after the last one did, at most the overlap back, and
\* there are words left for it.
Ahead(ws, cs, next) ==
    IF cs = <<>> THEN next = 1
    ELSE LET b == cs[Len(cs)] IN
        /\ b.last < Len(ws)
        /\ b.first < next /\ next <= b.last + 1
        /\ TokensOf(ws, next, b.last) <= OverlapTokens

WindowAhead ==
    /\ stage = "captions" => chunks = <<>> /\ start = 1
    /\ stage = "chunking" => start \in 1..Len(timed) /\ Ahead(timed, chunks, start)

\* What ChunksCoverTalk says of one chunk, as a formula of values, so that a step
\* can speak of the words and chunks after it.
WellCut(ws, cs, i) ==
    LET c == cs[i] IN
    /\ c.tokens <= TargetTokens \/ c.first = c.last
    /\ i = 1 => c.first = 1
    /\ i > 1 => LET b == cs[i - 1] IN
        /\ b.first < c.first /\ c.first <= b.last + 1
        /\ TokensOf(ws, c.first, b.last) <= OverlapTokens
        /\ c.last > b.last \/ TokenCount[ws[b.last + 1].text] > TargetTokens - OverlapTokens

\* ChunksCoverTalk as a formula of values.
Covered(ws, cs, st) ==
    /\ \A i \in DOMAIN cs : WellCut(ws, cs, i)
    /\ st = "ready" /\ ws # <<>> => cs # <<>> /\ cs[Len(cs)].last = Len(ws)

\* Covered is ChunksCoverTalk, of the state.
LEMMA CoveredIsCoverage == ChunksCoverTalk <=> Covered(timed, chunks, stage)
BY TokensIsTokensOf DEF ChunksCoverTalk, Covered, WellCut, Last

\* The inductive invariant of the ingest: ChunksCoverTalk needs to know where the
\* next window begins, RollingCaptionsCollapse only the types.
TalkInv == TalkShape /\ WindowAhead /\ Covered(timed, chunks, stage) /\ RollingCaptionsCollapse

\* It holds before the first cue.
LEMMA TalkInit == TranscriptInit => TalkInv
<1> SUFFICES ASSUME TranscriptInit PROVE TalkInv
    OBVIOUS
<1>1. TalkShape
    BY DEF TranscriptInit, TalkShape
<1>2. WindowAhead
    BY DEF TranscriptInit, WindowAhead
<1>3. Covered(timed, chunks, stage)
    BY DEF TranscriptInit, Covered
<1>4. RollingCaptionsCollapse
    BY DEF TranscriptInit, RollingCaptionsCollapse, Texts
<1> QED
    BY <1>1, <1>2, <1>3, <1>4 DEF TalkInv

\* A cue keeps it (dedupe_rolling_cues): what the cue shows again is what Overlap
\* finds, so only the new words are appended, with the time the cue gave them.
LEMMA CueIsShown ==
    ASSUME TalkInv, ShowCue
    PROVE  TalkInv'
<1>1. /\ said \in Seq(Words) /\ timed \in Seq(TimedWords)
      /\ stage = "captions" /\ chunks = <<>> /\ start = 1
    BY DEF TalkInv, TalkShape, WindowAhead, ShowCue
<1>2. stage' = stage /\ chunks' = chunks /\ start' = start
    BY DEF ShowCue
<1>3. PICK back \in 0..Len(said), new \in BoundedSeq(Words, MaxTalk - Len(said)), tagged \in BOOLEAN :
        /\ said' = said \o new
        /\ timed' = timed \o SubSeq(CueWords(back, new, tagged),
                            Overlap(Texts(timed), Texts(CueWords(back, new, tagged))) + 1,
                            Len(CueWords(back, new, tagged)))
    BY DEF ShowCue
<1> DEFINE cue == CueWords(back, new, tagged)
           k == Overlap(Texts(timed), Texts(cue))
<1>4. new \in Seq(Words)
    BY DEF BoundedSeq, SeqOf
<1> DEFINE n == Len(said)
           m == Len(new)
<1>5. n \in Nat /\ m \in Nat /\ back \in 0..n
    BY <1>1, <1>4
<1>6. /\ cue \in Seq(TimedWords) /\ Len(cue) = back + m
      /\ \A i \in 1..back : cue[i].text = said[n - back + i]
      /\ \A i \in back + 1..back + m :
            /\ cue[i].text = new[i - back]
            /\ cue[i].at \in n + 1..n + (i - back)
      /\ \A i, j \in back + 1..back + m : i < j => cue[i].at <= cue[j].at
    <2>1. \A i \in 1..back + m : i \notin 1..back => i - back \in 1..m
        BY <1>5
    <2>2. \A i \in 1..back : n - back + i \in 1..n
        BY <1>5
    <2>3. \A i \in 1..m : new[i] \in Words
        BY <1>4
    <2>4. \A i \in 1..n : said[i] \in Words
        BY <1>1
    <2>5. cue = [i \in 1..back + m |->
                    IF i <= back THEN [text |-> said[n - back + i], at |-> n + 1]
                    ELSE [text |-> new[i - back], at |-> n + (IF tagged THEN i - back ELSE 1)]]
        BY DEF CueWords
    <2> HIDE DEF cue, n, m
    <2>6. \A i \in 1..back + m : cue[i] \in TimedWords
        <3> SUFFICES ASSUME NEW i \in 1..back + m PROVE cue[i] \in TimedWords
            OBVIOUS
        <3>1. CASE i <= back
            <4>1. i \in 1..back
                BY <1>5, <3>1
            <4>2. cue[i] = [text |-> said[n - back + i], at |-> n + 1]
                BY <2>5, <3>1
            <4> QED BY <1>5, <2>2, <2>4, <4>1, <4>2 DEF TimedWords
        <3>2. CASE ~(i <= back)
            <4>1. i - back \in 1..m
                BY <1>5, <2>1, <3>2
            <4>2. cue[i] = [text |-> new[i - back], at |-> n + (IF tagged THEN i - back ELSE 1)]
                BY <2>5, <3>2
            <4> QED BY <1>5, <2>3, <4>1, <4>2 DEF TimedWords
        <3> QED BY <3>1, <3>2
    <2>7. cue \in Seq(TimedWords) /\ Len(cue) = back + m
        <3> DEFINE D == 1..back + m
        <3>a. DOMAIN cue = D /\ cue = [i \in D |-> cue[i]]
            BY <2>5
        <3>b. \A i \in D : cue[i] \in TimedWords
            BY <2>6
        <3>c. cue \in [D -> TimedWords]
            <4> HIDE DEF D
            <4> QED BY <3>a, <3>b
        <3>1. cue \in [1..back + m -> TimedWords] /\ back + m \in Nat
            BY <1>5, <3>c
        <3> QED BY <3>1, FunIsSeq
    <2>8. \A i \in 1..back : cue[i].text = said[n - back + i]
        BY <1>5, <2>5
    <2>9. \A i \in back + 1..back + m :
            /\ cue[i].text = new[i - back]
            /\ cue[i].at = n + (IF tagged THEN i - back ELSE 1)
        <3> SUFFICES ASSUME NEW i \in back + 1..back + m
                     PROVE  /\ cue[i].text = new[i - back]
                            /\ cue[i].at = n + (IF tagged THEN i - back ELSE 1)
            OBVIOUS
        <3>1. i \in 1..back + m /\ ~(i <= back)
            BY <1>5
        <3>2. cue[i] = [text |-> new[i - back], at |-> n + (IF tagged THEN i - back ELSE 1)]
            BY <2>5, <3>1
        <3> QED BY <3>2
    <2> QED BY <1>5, <2>7, <2>8, <2>9
<1>7. /\ Texts(timed) \in Seq(Words) /\ Len(Texts(timed)) = Len(timed)
      /\ Texts(cue) \in Seq(Words) /\ Len(Texts(cue)) = Len(cue)
      /\ \A i \in 1..Len(cue) : Texts(cue)[i] = cue[i].text
    <2> HIDE DEF cue
    <2>1. \A i \in 1..Len(cue) : cue[i].text \in Words
        <3>1. \A i \in 1..Len(cue) : cue[i] \in TimedWords
            BY <1>6
        <3> QED BY <3>1 DEF TimedWords
    <2>2. \A i \in 1..Len(timed) : timed[i].text \in Words
        <3>1. \A i \in 1..Len(timed) : timed[i] \in TimedWords
            BY <1>1
        <3> QED BY <3>1 DEF TimedWords
    <2>3. Texts(cue) = [i \in 1..Len(cue) |-> cue[i].text]
        BY <1>6 DEF Texts
    <2>4. Texts(timed) = [i \in 1..Len(timed) |-> timed[i].text]
        BY <1>1 DEF Texts
    <2>5. Len(timed) \in Nat /\ Len(cue) \in Nat
        BY <1>1, <1>6
    <2>6. Texts(cue) \in Seq(Words) /\ Len(Texts(cue)) = Len(cue)
        BY <2>1, <2>3, <2>5
    <2>7. Texts(timed) \in Seq(Words) /\ Len(Texts(timed)) = Len(timed)
        BY <2>2, <2>4, <2>5
    <2> QED BY <2>3, <2>6, <2>7
<1>8. k \in 0..Len(cue)
    <2> HIDE DEF cue
    <2> QED BY <1>7, OverlapIsLongest
<1> DEFINE rest == SubSeq(cue, k + 1, Len(cue))
<1>9. /\ rest \in Seq(TimedWords) /\ Len(rest) = Len(cue) - k
      /\ \A i \in 1..Len(rest) : rest[i] = cue[k + i]
    <2> HIDE DEF cue, k
    <2> DEFINE a == k + 1
               b == Len(cue)
    <2>1. a \in Nat \ {0} /\ b \in Nat /\ b \in a - 1..Len(cue) /\ b - a + 1 = b - k /\ a - 1 = k
        BY <1>6, <1>8
    <2>2. rest = SubSeq(cue, a, b)
        OBVIOUS
    <2> HIDE DEF rest, a, b
    <2>3. /\ SubSeq(cue, a, b) \in Seq(TimedWords) /\ Len(SubSeq(cue, a, b)) = b - a + 1
          /\ \A i \in 1..b - a + 1 : SubSeq(cue, a, b)[i] = cue[a - 1 + i]
        BY <1>6, <2>1, SubSeqIs
    <2> QED BY <2>1, <2>2, <2>3 DEF b
<1>10. timed' = timed \o rest
    BY <1>3
<1> HIDE DEF rest, k, cue
<1>11. TalkShape'
    <2>1. timed' \in Seq(TimedWords)
        BY <1>1, <1>9, <1>10
    <2>2. said' \in Seq(Words)
        BY <1>1, <1>3, <1>4
    <2> QED BY <1>1, <1>2, <2>1, <2>2 DEF TalkShape
<1>12. WindowAhead'
    BY <1>1, <1>2 DEF WindowAhead
<1>13. Covered(timed, chunks, stage)'
    BY <1>1, <1>2 DEF Covered
<1>14. RollingCaptionsCollapse'
    <2> SUFFICES ASSUME IsInjective(said \o new)
                 PROVE  /\ Texts(timed \o rest) = said \o new
                        /\ \A i \in DOMAIN (timed \o rest) :
                            /\ (timed \o rest)[i].at <= i
                            /\ i > 1 => (timed \o rest)[i - 1].at <= (timed \o rest)[i].at
        BY <1>3, <1>10 DEF RollingCaptionsCollapse
    <2>1. /\ Texts(timed) = said
          /\ \A i \in DOMAIN timed : /\ timed[i].at <= i
                                     /\ i > 1 => timed[i - 1].at <= timed[i].at
        BY <1>1, <1>4, PrefixOfInjective DEF TalkInv, RollingCaptionsCollapse
    <2>2. k = back
        <3>1. Len(Texts(cue)) = back + Len(new)
            BY <1>6, <1>7
        <3>2. \A i \in 1..back : Texts(cue)[i] = said[Len(said) - back + i]
            BY <1>5, <1>6, <1>7
        <3>3. \A i \in back + 1..back + Len(new) : Texts(cue)[i] = new[i - back]
            <4>1. \A i \in back + 1..back + Len(new) : i \in 1..Len(cue)
                BY <1>5, <1>6
            <4> QED BY <1>6, <1>7, <4>1
        <3>4. Overlap(said, Texts(cue)) = back
            BY <1>1, <1>4, <1>7, <3>1, <3>2, <3>3, RollsByWhatIsShownAgain
        <3> QED BY <2>1, <3>4 DEF k
    <2>3. Len(timed) = n /\ \A i \in 1..n : timed[i].text = said[i]
        <3>1. DOMAIN Texts(timed) = DOMAIN timed /\ DOMAIN timed = 1..Len(timed) /\ DOMAIN said = 1..n
            BY <1>1 DEF Texts
        <3>2. Len(timed) = n
            BY <1>1, <1>7, <2>1
        <3> QED BY <2>1, <3>1, <3>2 DEF Texts
    <2> DEFINE ts == timed \o rest
    <2>4. Len(rest) = m /\ ts \in Seq(TimedWords) /\ Len(ts) = n + m
        <3>1. Len(rest) = m
            BY <1>5, <1>6, <1>9, <2>2
        <3>2. ts \in Seq(TimedWords) /\ Len(ts) = Len(timed) + Len(rest)
            BY <1>1, <1>9, ConcatIs
        <3> HIDE DEF ts
        <3> QED BY <2>3, <3>1, <3>2
    <2>5. /\ \A i \in 1..n : ts[i] = timed[i]
          /\ \A i \in n + 1..n + m : ts[i] = rest[i - n]
        BY <1>1, <1>9, <2>3, <2>4, ConcatIs
    <2>6. \A i \in n + 1..n + m : /\ ts[i] = cue[back + (i - n)]
                                  /\ back + (i - n) \in back + 1..back + m
        <3> SUFFICES ASSUME NEW i \in n + 1..n + m
                     PROVE  /\ ts[i] = cue[back + (i - n)]
                            /\ back + (i - n) \in back + 1..back + m
            OBVIOUS
        <3>1. i - n \in 1..m
            BY <1>5
        <3>2. ts[i] = rest[i - n]
            BY <2>5
        <3>3. rest[i - n] = cue[back + (i - n)]
            BY <1>9, <2>2, <2>4, <3>1
        <3> QED BY <1>5, <3>1, <3>2, <3>3
    <2>7. Texts(ts) = said \o new
        <3>1. \A i \in 1..n + m : ts[i].text = (said \o new)[i]
            <4> SUFFICES ASSUME NEW i \in 1..n + m PROVE ts[i].text = (said \o new)[i]
                OBVIOUS
            <4>1. CASE i \in 1..n
                <5>1. (said \o new)[i] = said[i]
                    BY <1>1, <1>4, <4>1
                <5> HIDE DEF ts
                <5> QED BY <2>3, <2>5, <4>1, <5>1
            <4>2. CASE i \in n + 1..n + m
                <5>1. (said \o new)[i] = new[i - n]
                    BY <1>1, <1>4, <1>5, <4>2
                <5>2. ts[i] = cue[back + (i - n)] /\ back + (i - n) \in back + 1..back + m
                    BY <2>6, <4>2
                <5>3. cue[back + (i - n)].text = new[(back + (i - n)) - back]
                    BY <1>6, <5>2
                <5>4. (back + (i - n)) - back = i - n
                    BY <1>5
                <5> HIDE DEF ts
                <5> QED BY <5>1, <5>2, <5>3, <5>4
            <4>3. i \in 1..n \/ i \in n + 1..n + m
                BY <1>5
            <4> QED BY <4>1, <4>2, <4>3
        <3>2. Texts(ts) = [i \in 1..n + m |-> ts[i].text]
            <4> HIDE DEF ts
            <4>1. DOMAIN ts = 1..n + m
                BY <2>4
            <4> QED BY <4>1 DEF Texts
        <3>3. said \o new \in Seq(Words) /\ Len(said \o new) = n + m
            BY <1>1, <1>4, ConcatIs
        <3>4. said \o new = [i \in 1..n + m |-> (said \o new)[i]]
            <4> DEFINE u == said \o new
            <4>1. u \in Seq(Words) /\ Len(u) = n + m
                BY <3>3
            <4> HIDE DEF u, n, m
            <4>2. u = [i \in 1..Len(u) |-> u[i]]
                BY <4>1, SeqIsFun
            <4>3. u = [i \in 1..n + m |-> u[i]]
                BY <4>1, <4>2
            <4> QED BY <4>3 DEF u
        <3> HIDE DEF ts, n, m
        <3> QED BY <3>1, <3>2, <3>4
    <2>8. \A i \in n + 1..n + m : ts[i].at \in n + 1..i
        <3> SUFFICES ASSUME NEW i \in n + 1..n + m PROVE ts[i].at \in n + 1..i
            OBVIOUS
        <3>1. ts[i] = cue[back + (i - n)] /\ back + (i - n) \in back + 1..back + m
            BY <2>6
        <3>2. cue[back + (i - n)].at \in n + 1..n + ((back + (i - n)) - back)
            BY <1>6, <3>1
        <3>3. n + ((back + (i - n)) - back) = i
            BY <1>5
        <3> HIDE DEF ts
        <3> QED BY <3>1, <3>2, <3>3
    <2>9. \A i \in 1..n : ts[i].at \in Nat /\ ts[i].at <= i /\ (i > 1 => ts[i - 1].at <= ts[i].at)
        <3>1. \A i \in 1..n : i > 1 => i - 1 \in 1..n
            BY <1>5
        <3>2. \A i \in 1..n : timed[i] \in TimedWords /\ i \in DOMAIN timed
            BY <1>1, <2>3
        <3> HIDE DEF ts
        <3> QED BY <2>1, <2>5, <3>1, <3>2 DEF TimedWords
    <2>10. ASSUME NEW i \in n + 1..n + m, i > 1
           PROVE  ts[i - 1].at <= ts[i].at
        <3> HIDE DEF ts
        <3>1. CASE i = n + 1
            <4>1. i - 1 = n /\ n \in 1..n
                BY <1>5, <2>10, <3>1
            <4>2. ts[n].at \in Nat /\ ts[n].at <= n
                BY <2>9, <4>1
            <4>3. ts[i].at \in n + 1..i
                BY <2>8
            <4> QED BY <1>5, <4>1, <4>2, <4>3
        <3>2. CASE i # n + 1
            <4>1. i - 1 \in n + 1..n + m
                BY <1>5, <3>2
            <4>2. /\ ts[i] = cue[back + (i - n)] /\ back + (i - n) \in back + 1..back + m
                  /\ ts[i - 1] = cue[back + (i - 1 - n)] /\ back + (i - 1 - n) \in back + 1..back + m
                BY <2>6, <4>1
            <4>3. back + (i - 1 - n) < back + (i - n)
                BY <1>5
            <4> QED BY <1>6, <4>2, <4>3
        <3> QED BY <3>1, <3>2
    <2>11. \A i \in DOMAIN ts : ts[i].at <= i /\ (i > 1 => ts[i - 1].at <= ts[i].at)
        <3> HIDE DEF ts
        <3>1. DOMAIN ts = 1..n \cup (n + 1..n + m)
            BY <1>5, <2>4
        <3>2. \A i \in n + 1..n + m : ts[i].at <= i
            BY <1>5, <2>8
        <3> QED BY <2>9, <2>10, <3>1, <3>2
    <2> QED BY <2>7, <2>11
<1> QED
    BY <1>11, <1>12, <1>13, <1>14 DEF TalkInv

\* The end of the track keeps it: no chunk yet, the first window begins at 1.
LEMMA TrackEnds ==
    ASSUME TalkInv, EndOfTrack
    PROVE  TalkInv'
<1>1. /\ timed \in Seq(TimedWords) /\ chunks = <<>> /\ start = 1
      /\ UNCHANGED <<said, timed, start, chunks>>
      /\ stage' = IF timed = <<>> THEN "ready" ELSE "chunking"
    BY DEF TalkInv, TalkShape, WindowAhead, EndOfTrack
<1>2. TalkShape'
    BY <1>1 DEF TalkInv, TalkShape
<1>3. WindowAhead'
    <2>1. timed # <<>> => 1 \in 1..Len(timed)
        BY <1>1
    <2> QED BY <1>1, <2>1 DEF WindowAhead, Ahead
<1>4. Covered(timed, chunks, stage)'
    BY <1>1 DEF Covered
<1>5. RollingCaptionsCollapse'
    BY <1>1 DEF TalkInv, RollingCaptionsCollapse, Texts
<1> QED
    BY <1>2, <1>3, <1>4, <1>5 DEF TalkInv

\* What Append appends.
LEMMA AppendIs ==
    ASSUME NEW S, NEW s \in Seq(S), NEW x \in S
    PROVE  /\ Append(s, x) \in Seq(S) /\ Len(Append(s, x)) = Len(s) + 1 /\ Len(s) \in Nat
           /\ DOMAIN Append(s, x) = 1..Len(s) + 1 /\ DOMAIN s = 1..Len(s)
           /\ \A i \in 1..Len(s) : Append(s, x)[i] = s[i]
           /\ Append(s, x)[Len(s) + 1] = x
OBVIOUS

\* A window keeps it (chunk_transcript): a window that ends no later than the one
\* before would mean that everything up to there is too much already, though it is
\* no more than the overlap; so it ends there, for the next word does not fit.
LEMMA WindowIsCut ==
    ASSUME TalkInv, NextWindow
    PROVE  TalkInv'
<1>1. /\ said \in Seq(Words) /\ timed \in Seq(TimedWords) /\ chunks \in Seq(ChunkDrafts)
      /\ \A i \in DOMAIN chunks :
            chunks[i].first \in 1..chunks[i].last /\ chunks[i].last \in 1..Len(timed)
      /\ stage = "chunking" /\ start \in 1..Len(timed) /\ Ahead(timed, chunks, start)
      /\ said' = said /\ timed' = timed
    BY DEF TalkInv, TalkShape, WindowAhead, NextWindow
<1> DEFINE last == WindowEnd(start)
           c == [first |-> start, last |-> last, tokens |-> Tokens(start, last)]
           n == Len(chunks)
<1>2. /\ last \in start..Len(timed)
      /\ last = start \/ TokensOf(timed, start, last) <= TargetTokens
      /\ last < Len(timed) => TokensOf(timed, start, last + 1) > TargetTokens
    BY <1>1, WindowEndFits
<1>3. /\ chunks' = Append(chunks, c)
      /\ \/ last = Len(timed) /\ stage' = "ready" /\ start' = start
         \/ last # Len(timed) /\ stage' = "chunking" /\ start' = NextStart(start, last)
    BY <1>1 DEF NextWindow
<1>4. c.tokens = TokensOf(timed, start, last) /\ c.first = start /\ c.last = last
    BY TokensIsTokensOf
<1> HIDE DEF last
<1>5. c \in ChunkDrafts
    <2>1. start \in 1..Len(timed) + 1 /\ last \in start - 1..Len(timed)
        BY <1>1, <1>2
    <2>2. TokensOf(timed, start, last) \in Nat
        BY <1>1, <2>1, SumGrows
    <2> QED BY <1>1, <1>2, <1>4, <2>2 DEF ChunkDrafts
<1> HIDE DEF c
<1>6. /\ chunks' \in Seq(ChunkDrafts) /\ Len(chunks') = n + 1 /\ n \in Nat
      /\ DOMAIN chunks' = 1..n + 1 /\ DOMAIN chunks = 1..n
      /\ \A i \in 1..n : chunks'[i] = chunks[i]
      /\ chunks'[n + 1] = c
      /\ chunks' # <<>>
    BY <1>1, <1>3, <1>5, AppendIs
<1> HIDE DEF n
<1>7. TalkShape'
    <2>1. \A i \in DOMAIN chunks' :
            chunks'[i].first \in 1..chunks'[i].last /\ chunks'[i].last \in 1..Len(timed)
        <3> SUFFICES ASSUME NEW i \in 1..n + 1
                     PROVE  /\ chunks'[i].first \in 1..chunks'[i].last
                            /\ chunks'[i].last \in 1..Len(timed)
            BY <1>6
        <3>1. CASE i \in 1..n
            BY <1>1, <1>6, <3>1
        <3>2. CASE i = n + 1
            BY <1>1, <1>2, <1>4, <1>6, <3>2
        <3> QED BY <1>6, <3>1, <3>2
    <2>2. stage' \in {"ready", "chunking"}
        BY <1>3
    <2> QED BY <1>1, <1>6, <2>1, <2>2 DEF TalkShape
<1>8. WindowAhead'
    <2>1. stage' # "captions"
        BY <1>3
    <2>2. ASSUME stage' = "chunking"
          PROVE  start' \in 1..Len(timed) /\ Ahead(timed, chunks', start')
        <3>1. last # Len(timed) /\ start' = NextStart(start, last)
            BY <1>3, <2>2
        <3>2. /\ NextStart(start, last) \in start + 1..last + 1
              /\ TokensOf(timed, NextStart(start, last), last) <= OverlapTokens
            BY <1>1, <1>2, NextStartAdvances
        <3>3. last < Len(timed) /\ Len(timed) \in Nat
            BY <1>1, <1>2, <3>1
        <3>4. start' \in 1..Len(timed)
            BY <1>1, <1>2, <3>1, <3>2, <3>3
        <3>5. chunks'[Len(chunks')].last = last /\ chunks'[Len(chunks')].first = start
            BY <1>4, <1>6
        <3> QED BY <1>1, <1>2, <1>6, <3>1, <3>2, <3>3, <3>4, <3>5 DEF Ahead
    <2> QED BY <1>1, <2>1, <2>2 DEF WindowAhead
<1>9. WellCut(timed, chunks', n + 1)
    <2>1. c.tokens <= TargetTokens \/ c.first = c.last
        BY <1>2, <1>4
    <2>2. CASE n = 0
        <3>1. chunks = <<>>
            BY <1>1, <2>2 DEF n
        <3>2. start = 1
            BY <1>1, <3>1 DEF Ahead
        <3> QED BY <1>4, <1>6, <2>1, <2>2, <3>2 DEF WellCut
    <2>3. CASE n # 0
        <3> DEFINE b == chunks[n]
        <3>1. n \in 1..n /\ chunks # <<>> /\ n > 0
            BY <1>1, <1>6, <2>3 DEF n
        <3>2. /\ b.last < Len(timed)
              /\ b.first < start /\ start <= b.last + 1
              /\ TokensOf(timed, start, b.last) <= OverlapTokens
            BY <1>1, <3>1 DEF Ahead, n
        <3>3. b.first \in 1..b.last /\ b.last \in 1..Len(timed)
            BY <1>1, <1>6, <3>1
        <3> HIDE DEF b
        <3>4. ASSUME ~(last > b.last)
              PROVE  TokenCount[timed[b.last + 1].text] > TargetTokens - OverlapTokens
            <4>0. start \in Nat /\ last \in Nat /\ Len(timed) \in Nat /\ b.last \in Nat
                BY <1>1, <1>2, <3>3
            <4>1. last < Len(timed) /\ last <= b.last
                BY <3>2, <3>4, <4>0
            <4>2. TokensOf(timed, start, last + 1) > TargetTokens
                BY <1>2, <4>1
            <4>3. \A j \in last + 1..b.last : TokensOf(timed, start, j) > TargetTokens
                <5> DEFINE S == {k \in 0..b.last - (last + 1) :
                                    TokensOf(timed, start, last + 1 + k) > TargetTokens}
                <5>1. CASE last = b.last
                    BY <4>0, <5>1
                <5>2. CASE last < b.last
                    <6>1. 0 \in S
                        BY <4>0, <4>2, <5>2
                    <6>2. ASSUME NEW k \in 1..b.last - (last + 1), k - 1 \in S
                          PROVE  k \in S
                        <7> DEFINE j == last + k
                        <7>1. /\ j \in start - 1..Len(timed) - 1 /\ j + 1 = last + 1 + k
                              /\ j = last + 1 + (k - 1) /\ j + 1 \in 1..Len(timed)
                              /\ start \in 1..Len(timed) + 1 /\ j \in start - 1..Len(timed)
                              /\ k \in 0..b.last - (last + 1)
                            BY <1>1, <1>2, <3>3, <4>0
                        <7>2. TokensOf(timed, start, j) > TargetTokens
                            <8> HIDE DEF j
                            <8> QED BY <6>2, <7>1
                        <7> HIDE DEF j
                        <7>3. TokensOf(timed, start, j + 1)
                                = TokensOf(timed, start, j) + TokenCount[timed[j + 1].text]
                            BY <1>1, <7>1, SumGrows
                        <7>4. TokenCount[timed[j + 1].text] \in Nat /\ TokensOf(timed, start, j) \in Nat
                            BY <1>1, <7>1, SumGrows
                        <7>5. TokensOf(timed, start, j + 1) > TargetTokens
                            BY <7>2, <7>3, <7>4, TokenAssumption
                        <7> QED BY <7>1, <7>5
                    <6>3. b.last - (last + 1) \in Nat
                        BY <4>0, <5>2
                    <6>4. 0..b.last - (last + 1) \subseteq S
                        <7> HIDE DEF S
                        <7> QED BY <6>1, <6>2, <6>3, SetInduction
                    <6>5. ASSUME NEW j \in last + 1..b.last
                          PROVE  TokensOf(timed, start, j) > TargetTokens
                        <7>1. j - (last + 1) \in 0..b.last - (last + 1) /\ last + 1 + (j - (last + 1)) = j
                            BY <4>0
                        <7>2. j - (last + 1) \in S
                            BY <6>4, <7>1
                        <7> QED BY <7>1, <7>2
                    <6> QED BY <6>5
                <5> QED BY <4>0, <4>1, <5>1, <5>2
            <4>4. start - 1 <= b.last
                BY <3>2, <4>0
            <4>5. last = b.last
                <5> SUFFICES ASSUME last < b.last PROVE FALSE
                    BY <4>0, <4>1
                <5>1. TokensOf(timed, start, b.last) > TargetTokens
                    BY <4>0, <4>3
                <5>2. start \in 1..Len(timed) + 1 /\ b.last \in start - 1..Len(timed)
                    BY <1>1, <3>3, <4>0, <4>4
                <5>3. TokensOf(timed, start, b.last) \in Nat
                    BY <1>1, <5>2, SumGrows
                <5> QED BY <3>2, <5>1, <5>3, TokenAssumption
            <4>6. /\ start \in 1..Len(timed) /\ b.last \in start - 1..Len(timed) - 1
                  /\ b.last + 1 \in 1..Len(timed)
                BY <1>1, <3>2, <3>3, <4>0, <4>4
            <4>7. /\ TokensOf(timed, start, b.last + 1)
                        = TokensOf(timed, start, b.last) + TokenCount[timed[b.last + 1].text]
                  /\ TokenCount[timed[b.last + 1].text] \in Nat
                BY <1>1, <4>6, SumGrows
            <4>8. TokensOf(timed, start, b.last) \in Nat
                <5>1. start \in 1..Len(timed) + 1 /\ b.last \in start - 1..Len(timed)
                    BY <4>0, <4>6
                <5> QED BY <1>1, <5>1, SumGrows
            <4>9. TokensOf(timed, start, b.last + 1) > TargetTokens
                BY <4>2, <4>5
            <4> QED BY <3>2, <4>7, <4>8, <4>9, TokenAssumption
        <3>5. chunks'[n + 1] = c /\ chunks'[(n + 1) - 1] = b
            BY <1>6, <3>1 DEF b
        <3>6. /\ b.first < c.first /\ c.first <= b.last + 1
              /\ TokensOf(timed, c.first, b.last) <= OverlapTokens
              /\ c.last > b.last \/ TokenCount[timed[b.last + 1].text] > TargetTokens - OverlapTokens
            BY <1>4, <3>2, <3>4
        <3>7. n + 1 # 1
            BY <1>6, <2>3
        <3> QED BY <2>1, <3>5, <3>6, <3>7 DEF WellCut
    <2> QED BY <2>2, <2>3
<1>10. Covered(timed, chunks, stage)'
    <2>1. \A i \in DOMAIN chunks' : WellCut(timed, chunks', i)
        <3> SUFFICES ASSUME NEW i \in 1..n + 1 PROVE WellCut(timed, chunks', i)
            BY <1>6
        <3>1. CASE i \in 1..n
            <4>1. WellCut(timed, chunks, i)
                BY <1>6, <3>1 DEF TalkInv, Covered
            <4>2. chunks'[i] = chunks[i] /\ (i > 1 => chunks'[i - 1] = chunks[i - 1])
                BY <1>6, <3>1
            <4> QED BY <3>1, <4>1, <4>2 DEF WellCut
        <3>2. CASE i = n + 1
            BY <1>9, <3>2
        <3> QED BY <1>6, <3>1, <3>2
    <2>2. stage' = "ready" => chunks'[Len(chunks')].last = Len(timed)
        BY <1>3, <1>4, <1>6
    <2> QED BY <1>1, <1>6, <2>1, <2>2 DEF Covered
<1>11. RollingCaptionsCollapse'
    BY <1>1 DEF TalkInv, RollingCaptionsCollapse, Texts
<1> QED
    BY <1>7, <1>8, <1>10, <1>11 DEF TalkInv

\* Loading the video forgets the words and the chunks.
LEMMA TalkIsStored ==
    ASSUME TalkInv, LoadVideo
    PROVE  TalkInv'
<1>1. stage' = "stored" /\ said' = <<>> /\ timed' = <<>> /\ start' = 1 /\ chunks' = <<>>
    BY DEF LoadVideo
<1>2. TalkShape'
    BY <1>1 DEF TalkShape
<1>3. WindowAhead'
    BY <1>1 DEF WindowAhead
<1>4. Covered(timed, chunks, stage)'
    BY <1>1 DEF Covered
<1>5. RollingCaptionsCollapse'
    BY <1>1 DEF RollingCaptionsCollapse, Texts
<1> QED
    BY <1>2, <1>3, <1>4, <1>5 DEF TalkInv

\* A step that leaves Transcript's variables alone keeps it.
LEMMA TalkStutters ==
    ASSUME TalkInv, UNCHANGED transcriptVars
    PROVE  TalkInv'
BY DEF TalkInv, TalkShape, WindowAhead, RollingCaptionsCollapse, Texts, transcriptVars

\* Whatever the track shows, however cues roll and texts tokenize, and whatever a
\* chat does meanwhile, the inductive invariant of the ingest holds
\* (dedupe_rolling_cues, chunk_transcript).
THEOREM TalkInvariant == Spec => []TalkInv
<1>1. Init => TalkInv
    BY TalkInit DEF Init
<1>2. TalkInv /\ [Next]_vars => TalkInv'
    <2> SUFFICES ASSUME TalkInv, [Next]_vars PROVE TalkInv'
        OBVIOUS
    <2>1. CASE TranscriptNext
        BY <2>1, CueIsShown, TrackEnds, WindowIsCut DEF TranscriptNext
    <2>2. CASE LoadVideo
        BY <2>2, TalkIsStored
    <2>3. CASE UNCHANGED transcriptVars
        BY <2>3, TalkStutters
    <2> QED
        BY <2>1, <2>2, <2>3
        DEF Next, vars, OpenTurn, DenseQuery, LexicalQuery, Fuse, Probe, Answer, AnswerFails
<1> QED
    BY <1>1, <1>2, PTL DEF Spec

-----------------------------------------------------------------------------
\* Orders of finite sets, for the fused ranking.

\* R orders the members of S strictly and totally.
Orders(R, S) ==
    /\ \A x, y \in S : x # y => (<<x, y>> \in R <=> <<y, x>> \notin R)
    /\ \A x, y, z \in S : <<x, y>> \in R /\ <<y, z>> \in R => <<x, z>> \in R

\* Induction over a finite set: a family with {} and, with every set, those of one
\* member more has the whole set.
LEMMA EveryCount ==
    ASSUME NEW S, IsFiniteSet(S), NEW G,
           {} \in G,
           \A T \in SUBSET S : T # {} => \E x \in T : T \ {x} \in G => T \in G
    PROVE  S \in G
<1> DEFINE N == {k \in 0..Cardinality(S) : \A T \in SUBSET S : Cardinality(T) = k => T \in G}
<1>1. \A T \in SUBSET S : IsFiniteSet(T) /\ Cardinality(T) \in Nat
    BY FS_Subset, FS_CardinalityType
<1>2. Cardinality(S) \in Nat
    BY <1>1
<1>3. 0 \in N
    <2>1. \A T \in SUBSET S : Cardinality(T) = 0 => T \in G
        <3> SUFFICES ASSUME NEW T \in SUBSET S, Cardinality(T) = 0 PROVE T \in G
            OBVIOUS
        <3>1. IsFiniteSet(T)
            BY <1>1
        <3> HIDE DEF N
        <3>2. T = {}
            BY <3>1, FS_EmptySet, Zenon
        <3> QED BY <3>2
    <2> QED BY <1>2, <2>1
<1>4. ASSUME NEW k \in 1..Cardinality(S), k - 1 \in N
      PROVE  k \in N
    <2>1. ASSUME NEW T \in SUBSET S, Cardinality(T) = k
          PROVE  T \in G
        <3>1. T # {}
            <4>1. k # 0 /\ Cardinality({}) = 0
                BY FS_EmptySet, <1>2
            <4> HIDE DEF N
            <4> QED BY <2>1, <4>1
        <3>2. PICK x \in T : T \ {x} \in G => T \in G
            BY <3>1
        <3>3. Cardinality(T \ {x}) = k - 1
            BY <1>1, <2>1, FS_RemoveElement
        <3>4. T \ {x} \in SUBSET S
            OBVIOUS
        <3>5. T \ {x} \in G
            BY <1>4, <3>3, <3>4
        <3> QED BY <3>2, <3>5
    <2> QED BY <1>2, <2>1
<1>5. 0..Cardinality(S) \subseteq N
    <2> HIDE DEF N
    <2> QED BY <1>2, <1>3, <1>4, SetInduction
<1>6. Cardinality(S) \in 0..Cardinality(S)
    BY <1>2
<1> QED
    BY <1>5, <1>6

\* A finite set that is ordered has a last member.
LEMMA LastExists ==
    ASSUME NEW S, IsFiniteSet(S), NEW R, Orders(R, S), S # {}
    PROVE  \E x \in S : \A y \in S \ {x} : <<y, x>> \in R
<1> DEFINE Ends(T) == \E x \in T : \A y \in T \ {x} : <<y, x>> \in R
           G == {T \in SUBSET S : T = {} \/ Ends(T)}
<1>1. ASSUME NEW T \in SUBSET S, NEW x \in T, T \ {x} \in G
      PROVE  T \in G
    <2>1. CASE T \ {x} = {}
        <3>1. \A y \in T \ {x} : <<y, x>> \in R
            BY <2>1
        <3> QED BY <3>1
    <2>2. CASE T \ {x} # {}
        <3>1. PICK z \in T \ {x} : \A y \in (T \ {x}) \ {z} : <<y, z>> \in R
            BY <1>1, <2>2
        <3>2. CASE <<x, z>> \in R
            <4>1. \A y \in T \ {z} : <<y, z>> \in R
                BY <3>1, <3>2
            <4> QED BY <4>1
        <3>3. CASE <<x, z>> \notin R
            <4>1. <<z, x>> \in R
                BY <3>3 DEF Orders
            <4>2. \A y \in T \ {x} : <<y, x>> \in R
                BY <3>1, <4>1 DEF Orders
            <4> QED BY <4>2
        <3> QED BY <3>2, <3>3
    <2> QED BY <2>1, <2>2
<1>2. S \in G
    <2>1. {} \in G
        OBVIOUS
    <2> HIDE DEF G
    <2>2. \A T \in SUBSET S : T # {} => \E x \in T : T \ {x} \in G => T \in G
        BY <1>1
    <2> QED BY <2>1, <2>2, EveryCount
<1> QED
    BY <1>2

\* A finite set that is ordered can be sorted: the last member goes to the end of
\* the others, sorted.
LEMMA SortExists ==
    ASSUME NEW S, IsFiniteSet(S), NEW R, Orders(R, S)
    PROVE  \E r \in SetToSeqs(S) : \A i, j \in DOMAIN r : i < j => <<r[i], r[j]>> \in R
<1> DEFINE Sorts(r, T) == /\ r \in [1..Cardinality(T) -> T]
                          /\ \A i, j \in 1..Cardinality(T) : i < j => r[i] # r[j] /\ <<r[i], r[j]>> \in R
           G == {T \in SUBSET S : \E r : Sorts(r, T)}
<1>1. \A T \in SUBSET S : IsFiniteSet(T) /\ Cardinality(T) \in Nat
    BY FS_Subset, FS_CardinalityType
<1>2. ASSUME NEW T \in SUBSET S, T # {}
      PROVE  \E x \in T : T \ {x} \in G => T \in G
    <2>1. PICK x \in T : \A y \in T \ {x} : <<y, x>> \in R
        <3>1. Orders(R, T)
            BY DEF Orders
        <3> QED BY <1>1, <1>2, <3>1, LastExists
    <2>2. ASSUME T \ {x} \in G PROVE T \in G
        <3> DEFINE n == Cardinality(T)
        <3>1. n \in Nat /\ Cardinality(T \ {x}) = n - 1 /\ n - 1 \in Nat
            <4>1. IsFiniteSet(T) /\ n \in Nat /\ Cardinality(T \ {x}) \in Nat
                BY <1>1
            <4>2. Cardinality(T \ {x}) = n - 1
                <5> HIDE DEF G
                <5> QED BY <4>1, FS_RemoveElement
            <4> HIDE DEF n, G
            <4> QED BY <4>1, <4>2
        <3>2. PICK q : Sorts(q, T \ {x})
            BY <2>2
        <3> DEFINE r == [i \in 1..n |-> IF i = n THEN x ELSE q[i]]
        <3>3. \A i \in 1..n : i = n \/ i \in 1..n - 1
            BY <3>1
        <3>4. q \in [1..n - 1 -> T \ {x}]
            BY <3>1, <3>2
        <3>5. r \in [1..n -> T]
            BY <3>3, <3>4
        <3>6. ASSUME NEW i \in 1..n, NEW j \in 1..n, i < j
              PROVE  r[i] # r[j] /\ <<r[i], r[j]>> \in R
            <4>1. i \in 1..n - 1 /\ i # n
                BY <3>1, <3>6
            <4>2. r[i] = q[i] /\ q[i] \in T \ {x}
                BY <4>1, <3>4
            <4>3. CASE j = n
                BY <2>1, <4>2, <4>3
            <4>4. CASE j \in 1..n - 1
                <5>1. r[j] = q[j]
                    BY <3>1, <4>4
                <5> QED BY <3>1, <3>2, <3>6, <4>1, <4>2, <4>4, <5>1
            <4> QED BY <3>3, <4>3, <4>4
        <3>7. Sorts(r, T)
            <4> HIDE DEF r
            <4> QED BY <3>5, <3>6
        <3> QED
            <4> HIDE DEF Sorts
            <4> QED BY <3>7
    <2> QED BY <2>2
<1>3. {} \in G
    <2>1. Cardinality({}) = 0
        BY FS_EmptySet
    <2>2. Sorts(<<>>, {})
        BY <2>1
    <2> QED
        <3> HIDE DEF Sorts
        <3> QED BY <2>2
<1>4. S \in G
    <2> HIDE DEF G
    <2> QED BY <1>2, <1>3, EveryCount
<1>5. PICK r : Sorts(r, S)
    BY <1>4
<1>6. \A i, j \in 1..Cardinality(S) : i # j => r[i] # r[j]
    <2> DEFINE n == Cardinality(S)
    <2>1. n \in Nat /\ \A i, j \in 1..n : i < j => r[i] # r[j]
        BY <1>1, <1>5
    <2> HIDE DEF n, G
    <2>2. \A i, j \in 1..n : i # j => i < j \/ j < i
        BY <2>1
    <2>3. \A i, j \in 1..n : i # j => r[i] # r[j]
        BY <2>1, <2>2
    <2> QED BY <2>3 DEF n
<1>7. r \in SetToSeqs(S)
    BY <1>5, <1>6 DEF SetToSeqs
<1>8. DOMAIN r = 1..Cardinality(S)
    BY <1>5
<1> QED
    BY <1>5, <1>7, <1>8

\* A permutation of a finite set leaves nothing out.
LEMMA PermutationIsOnto ==
    ASSUME NEW S, IsFiniteSet(S), NEW r \in SetToSeqs(S)
    PROVE  /\ r \in Seq(S) /\ Len(r) = Cardinality(S) /\ IsInjective(r)
           /\ ToSet(r) = S
<1> DEFINE n == Cardinality(S)
<1>1. n \in Nat
    BY FS_CardinalityType
<1>2. r \in [1..n -> S] /\ \A i, j \in 1..n : i # j => r[i] # r[j]
    BY DEF SetToSeqs
<1>3. IsInjective(r)
    BY <1>2 DEF IsInjective
<1>4. r \in Seq(S) /\ Len(r) = n
    BY <1>1, <1>2, FunIsSeq
<1>5. ASSUME NEW x \in S, x \notin ToSet(r)
      PROVE  FALSE
    <2> DEFINE T == S \ {x}
    <2>1. IsFiniteSet(T) /\ Cardinality(T) = n - 1
        BY FS_RemoveElement
    <2>2. r \in [1..n -> T]
        BY <1>2, <1>5 DEF ToSet
    <2>3. IsFiniteSet(1..n) /\ Cardinality(1..n) = n
        BY <1>1, FS_Interval
    <2>4. Cardinality(T) < Cardinality(1..n)
        BY <1>1, <2>1, <2>3
    <2>5. \E i, j \in 1..n : i # j /\ r[i] = r[j]
        <3> HIDE DEF T, n
        <3> QED BY <2>1, <2>2, <2>3, <2>4, FS_PigeonHole
    <2> QED BY <1>2, <2>5
<1>6. ToSet(r) = S
    BY <1>2, <1>5 DEF ToSet
<1> QED
    BY <1>3, <1>4, <1>6

-----------------------------------------------------------------------------
\* Ranks and scores.

\* Where an element stands first in a list, 0 when it does not.
RankOf(l, x) == SelectInSeq(l, LAMBDA y : y = x)

\* SelectInSeq finds the first place, which FoldSet's choice of a least position
\* makes well defined.
LEMMA FirstRank ==
    ASSUME NEW S, NEW l \in Seq(S), NEW x
    PROVE  IF Contains(l, x)
           THEN /\ RankOf(l, x) \in 1..Len(l) /\ l[RankOf(l, x)] = x
                /\ \A i \in 1..Len(l) : l[i] = x => RankOf(l, x) <= i
           ELSE RankOf(l, x) = 0
<1> DEFINE I == {i \in 1..Len(l) : l[i] = x}
<1>1. RankOf(l, x) = IF I # {} THEN Min(I) ELSE 0
    BY DEF RankOf, SelectInSeq
<1>2. Contains(l, x) <=> I # {}
    BY DEF Contains
<1>3. CASE I # {}
    <2>1. I \in SUBSET Nat
        OBVIOUS
    <2>2. \E i \in I : \A j \in I : i <= j
        <3> HIDE DEF I
        <3> QED BY <1>3, <2>1, LeastNumber
    <2>3. Min(I) \in I /\ \A j \in I : Min(I) <= j
        <3> HIDE DEF I
        <3> QED BY <2>2 DEF Min
    <2> QED BY <1>1, <1>2, <1>3, <2>3
<1>4. CASE I = {}
    BY <1>1, <1>2, <1>4
<1> QED
    BY <1>3, <1>4

\* In a list without repetition every member stands at its rank.
LEMMA RankOfInjective ==
    ASSUME NEW S, NEW l \in Seq(S), IsInjective(l), NEW i \in 1..Len(l)
    PROVE  RankOf(l, l[i]) = i
<1>1. Contains(l, l[i])
    BY DEF Contains
<1>2. RankOf(l, l[i]) \in 1..Len(l) /\ l[RankOf(l, l[i])] = l[i]
    BY <1>1, FirstRank
<1> QED
    BY <1>2 DEF IsInjective

\* What one list adds to the score of an element.
Part(l, x) == IF Contains(l, x) THEN Product \div (RrfK + RankOf(l, x)) ELSE 0

\* Arithmetic on products that are not linear, which the SMT solver does only in
\* small steps.
LEMMA ProductOfRanks ==
    ASSUME NEW a \in Int, NEW b \in Int, NEW c \in Int
    PROVE  (a * b) * c = (a * c) * b
OBVIOUS

\* A multiple divides into its factor.
LEMMA QuotientIs ==
    ASSUME NEW q \in Nat, NEW d \in Nat \ {0}
    PROVE  (q * d) \div d = q
OBVIOUS

\* Every RrfK + rank divides Product, so that Score counts exact multiples of
\* 1 / Product.
LEMMA ProductIsDivisible ==
    /\ Product \in Nat \ {0}
    /\ \A r \in 1..RetrievalCandidates : \E q \in Nat \ {0} : Product = q * (RrfK + r)
<1> DEFINE n == RetrievalCandidates
           s == [r \in 1..n |-> RrfK + r]
           Step(it) == it = [t \in SUBSET (1..n) |->
                        IF t = {} THEN 1 ELSE it[t \ {Max(t)}] * s[Max(t)]]
           it == CHOOSE f : Step(f)
           h == [p \in Nat \X (1..n) |-> p[1] * s[p[2]]]
<1>1. n \in Nat /\ RrfK \in Nat /\ Len(s) = n
    BY NumberAssumption
<1>2. \A r \in 1..n : s[r] = RrfK + r /\ s[r] \in Nat \ {0}
    BY <1>1
<1> HIDE DEF s
<1>3. /\ h \in [Nat \X (1..n) -> Nat]
      /\ \A v \in Nat, k \in 1..n : h[<<v, k>>] = v * s[k]
    <2>1. \A p \in Nat \X (1..n) : p[1] * s[p[2]] \in Nat
        <3> SUFFICES ASSUME NEW v \in Nat, NEW k \in 1..n PROVE v * s[k] \in Nat
            OBVIOUS
        <3> QED BY <1>2
    <2> QED BY <2>1
<1>4. PICK g \in [SUBSET (1..n) -> Nat] : FoldStep(1, h, n, g)
    <2>1. 1 \in Nat
        OBVIOUS
    <2> HIDE DEF h, n
    <2> QED BY <1>1, <1>3, <2>1, FoldExists
<1>5. \A t \in SUBSET (1..n) : t # {} => Max(t) \in 1..n
    <2> HIDE DEF n
    <2> QED BY <1>1, MaxOfNumbers
<1>6. Step(g)
    <2>1. \A t \in SUBSET (1..n) :
            g[t] = IF t = {} THEN 1 ELSE g[t \ {Max(t)}] * s[Max(t)]
        <3> SUFFICES ASSUME NEW t \in SUBSET (1..n)
                     PROVE  g[t] = IF t = {} THEN 1 ELSE g[t \ {Max(t)}] * s[Max(t)]
            OBVIOUS
        <3>1. g[t] = IF t = {} THEN 1 ELSE h[<<g[t \ {Max(t)}], Max(t)>>]
            BY <1>4 DEF FoldStep
        <3>2. g[t \ {Max(t)}] \in Nat
            BY <1>4
        <3> HIDE DEF h, n
        <3> QED BY <3>1, <3>2, <1>3, <1>5
    <2> HIDE DEF h, n
    <2> QED BY <2>1
<1>7. Step(it)
    <2> HIDE DEF Step
    <2> QED BY <1>6
<1>8. Product = it[1..n]
    <2>1. Product = FoldLeft(LAMBDA a, b : a * b, 1, s)
        BY DEF Product, s
    <2>2. FoldLeft(LAMBDA a, b : a * b, 1, s) = it[1..n]
        BY <1>1 DEF FoldLeft, MapThenFoldSet
    <2> HIDE DEF it
    <2> QED BY <2>1, <2>2
<1> HIDE DEF it
<1>9. Unfolds(it, Nat, 1, h, n)
    <2>1. it[{}] = 1
        BY <1>7
    <2>2. ASSUME NEW t \in SUBSET (1..n), t # {}, it[t \ {Max(t)}] \in Nat
          PROVE  it[t] = h[<<it[t \ {Max(t)}], Max(t)>>]
        <3>1. it[t] = it[t \ {Max(t)}] * s[Max(t)]
            BY <1>7, <2>2
        <3> HIDE DEF h, n
        <3> QED BY <1>3, <1>5, <2>2, <3>1
    <2> HIDE DEF h, n
    <2> QED BY <2>1, <2>2 DEF Unfolds
<1>10. PICK P : FoldsOf(P, it, Nat, 1, h, n)
    <2>1. 1 \in Nat
        OBVIOUS
    <2> HIDE DEF h, n
    <2> QED BY <1>1, <1>3, <1>9, <2>1, FoldPrefixes
<1>11. /\ P \in [0..n -> Nat] /\ P[0] = 1 /\ Product = P[n]
       /\ \A k \in 1..n : P[k] = P[k - 1] * s[k]
    <2>1. ASSUME NEW k \in 1..n PROVE P[k] = P[k - 1] * s[k]
        <3>1. k - 1 \in 0..n
            BY <1>1
        <3>2. P[k - 1] \in Nat
            BY <1>10, <3>1 DEF FoldsOf
        <3> HIDE DEF h, n
        <3> QED BY <1>3, <1>10, <3>2 DEF FoldsOf
    <2> QED BY <1>8, <1>10, <2>1 DEF FoldsOf
<1> HIDE DEF h, n
<1> DEFINE Divides(k, j) == \E q \in Nat \ {0} : P[k] = q * s[j]
           S == {k \in 0..n : P[k] \in Nat \ {0} /\ \A j \in 1..k : Divides(k, j)}
<1>12. 0 \in S
    BY <1>1, <1>11
<1>13. ASSUME NEW k \in 1..n, k - 1 \in S
       PROVE  k \in S
    <2>1. k \in 0..n /\ k - 1 \in 0..n /\ k \in Nat
        BY <1>1
    <2>2. P[k - 1] \in Nat \ {0} /\ s[k] \in Nat \ {0} /\ P[k] = P[k - 1] * s[k]
        BY <1>2, <1>11, <1>13
    <2>3. P[k] \in Nat \ {0}
        BY <2>2
    <2>4. ASSUME NEW j \in 1..k PROVE Divides(k, j)
        <3>1. CASE j = k
            BY <2>2, <3>1
        <3>2. CASE j # k
            <4>1. j \in 1..k - 1 /\ j \in 1..n
                <5> HIDE DEF S, Step, Divides
                <5> QED BY <1>1, <2>1, <3>2
            <4>2. Divides(k - 1, j)
                <5> HIDE DEF Divides
                <5> QED BY <1>13, <4>1
            <4>3. PICK q \in Nat \ {0} : P[k - 1] = q * s[j]
                BY <4>2
            <4>4. s[j] \in Nat \ {0}
                BY <1>2, <4>1
            <4>5. P[k] = (q * s[k]) * s[j]
                BY <2>2, <4>3, <4>4, ProductOfRanks
            <4>6. q * s[k] \in Nat \ {0}
                BY <2>2
            <4> QED BY <4>5, <4>6
        <3> QED BY <3>1, <3>2
    <2> HIDE DEF Divides
    <2> QED BY <2>1, <2>3, <2>4
<1>14. n \in S
    <2>1. 0..n \subseteq S
        <3> HIDE DEF S
        <3> QED BY <1>1, <1>12, <1>13, SetInduction
    <2> QED BY <1>1, <2>1
<1> QED
    BY <1>2, <1>11, <1>14 DEF n

\* Multiplication is monotone.
LEMMA ProductGrows ==
    ASSUME NEW a \in Nat, NEW b \in Nat, NEW c \in Nat \ {0}
    PROVE  /\ a <= b => a * c <= b * c
           /\ a < b => c * a < c * b
OBVIOUS

\* The damped share of a rank: smaller further down, never by half or more.
LEMMA Damping ==
    ASSUME NEW r \in 1..RetrievalCandidates, NEW s \in 1..RetrievalCandidates
    PROVE  /\ Product \div (RrfK + r) \in Nat \ {0}
           /\ r < s => Product \div (RrfK + s) < Product \div (RrfK + r)
           /\ 2 * (Product \div (RrfK + r)) > Product \div (RrfK + s)
<1> DEFINE d == RrfK + r
           e == RrfK + s
<1>1. /\ RetrievalCandidates \in Nat /\ RrfK \in Nat /\ RetrievalCandidates <= RrfK
      /\ r \in Nat /\ s \in Nat /\ 1 <= r /\ 1 <= s
      /\ r <= RetrievalCandidates /\ s <= RetrievalCandidates
    BY NumberAssumption, DampingAssumption
<1>2. PICK p \in Nat \ {0} : Product = p * d
    BY ProductIsDivisible
<1>3. PICK q \in Nat \ {0} : Product = q * e
    BY ProductIsDivisible
<1>4. d \in Nat \ {0} /\ e \in Nat \ {0} /\ (r < s <=> d < e) /\ d < 2 * e
    BY <1>1
<1> HIDE DEF d, e
<1>5. Product \div d = p /\ Product \div e = q
    BY <1>2, <1>3, <1>4, QuotientIs
<1>6. ASSUME d < e PROVE q < p
    <2> SUFFICES ASSUME p <= q PROVE FALSE
        OBVIOUS
    <2>1. p * d <= q * d
        BY <1>4, ProductGrows
    <2>2. q * d < q * e
        BY <1>4, <1>6, ProductGrows
    <2>3. p * d \in Nat /\ q * d \in Nat /\ q * e \in Nat
        BY <1>4
    <2> QED BY <1>2, <1>3, <2>1, <2>2, <2>3
<1>7. 2 * p > q
    <2> SUFFICES ASSUME 2 * p <= q PROVE FALSE
        OBVIOUS
    <2>1. 2 * p \in Nat /\ 2 * e \in Nat
        BY <1>4
    <2>2. (2 * p) * d <= q * d
        BY <1>4, <2>1, ProductGrows
    <2>3. q * d < q * (2 * e)
        BY <1>4, <2>1, ProductGrows
    <2>4. (2 * p) * d = 2 * Product
        BY <1>2, <1>4
    <2>5. q * (2 * e) = 2 * Product
        BY <1>3, <1>4
    <2>6. q * d \in Nat /\ Product \in Nat
        BY <1>3, <1>4
    <2> QED BY <2>2, <2>3, <2>4, <2>5, <2>6
<1> QED
    BY <1>4, <1>5, <1>6, <1>7 DEF d, e

\* The score of a chunk in two lists is the sum of what each of them gives.
LEMMA ScoreIsSum ==
    ASSUME NEW S, NEW l \in Seq(S), NEW m \in Seq(S), NEW x,
           Len(l) <= RetrievalCandidates, Len(m) <= RetrievalCandidates
    PROVE  /\ Part(l, x) \in Nat /\ Part(m, x) \in Nat
           /\ Score(<<l, m>>, x) = Part(l, x) + Part(m, x)
<1> DEFINE s == <<l, m>>
           n == 2
           PartOf(k) == IF Contains(k, x) THEN Product \div (RrfK + SelectInSeq(k, LAMBDA y : y = x)) ELSE 0
           Step(it) == it = [t \in SUBSET (1..n) |->
                        IF t = {} THEN 0 ELSE it[t \ {Max(t)}] + PartOf(s[Max(t)])]
           it == CHOOSE f : Step(f)
           h == [p \in Nat \X (1..n) |-> p[1] + Part(s[p[2]], x)]
<1>1. \A k : PartOf(k) = Part(k, x)
    BY DEF Part, RankOf
<1>2. ASSUME NEW k \in Seq(S), Len(k) <= RetrievalCandidates
      PROVE  Part(k, x) \in Nat
    <2>1. CASE Contains(k, x)
        <3>1. RankOf(k, x) \in 1..Len(k)
            BY <2>1, FirstRank
        <3>2. RankOf(k, x) \in 1..RetrievalCandidates
            BY <1>2, <3>1, NumberAssumption
        <3> QED BY <2>1, <3>2, Damping DEF Part
    <2>2. CASE ~Contains(k, x)
        BY <2>2 DEF Part
    <2> QED BY <2>1, <2>2
<1>3. Len(s) = n /\ s[1] = l /\ s[2] = m
    OBVIOUS
<1>4. Score(s, x) = it[1..n]
    <2>1. Score(s, x) = FoldLeft(LAMBDA v, k : v + PartOf(k), 0, s)
        BY DEF Score
    <2>2. FoldLeft(LAMBDA v, k : v + PartOf(k), 0, s) = it[1..n]
        <3> HIDE DEF PartOf
        <3> QED BY <1>3 DEF FoldLeft, MapThenFoldSet
    <2> HIDE DEF it, PartOf
    <2> QED BY <2>1, <2>2
<1>5. /\ Part(s[1], x) \in Nat /\ Part(s[2], x) \in Nat
      /\ \A k \in 1..n : Part(s[k], x) \in Nat
    BY <1>2, <1>3
<1>6. /\ h \in [Nat \X (1..n) -> Nat]
      /\ \A v \in Nat, k \in 1..n : h[<<v, k>>] = v + Part(s[k], x)
    <2> HIDE DEF s, n
    <2> QED BY <1>5
<1>7. PICK g \in [SUBSET (1..n) -> Nat] : FoldStep(0, h, n, g)
    <2>1. n \in Nat /\ 0 \in Nat
        OBVIOUS
    <2> HIDE DEF h, n
    <2> QED BY <1>6, <2>1, FoldExists
<1>8. \A t \in SUBSET (1..n) : t # {} => Max(t) \in 1..n
    <2>1. n \in Nat
        OBVIOUS
    <2> HIDE DEF n
    <2> QED BY <2>1, MaxOfNumbers
<1>9. Step(g)
    <2>1. \A t \in SUBSET (1..n) :
            g[t] = IF t = {} THEN 0 ELSE g[t \ {Max(t)}] + PartOf(s[Max(t)])
        <3> SUFFICES ASSUME NEW t \in SUBSET (1..n)
                     PROVE  g[t] = IF t = {} THEN 0 ELSE g[t \ {Max(t)}] + PartOf(s[Max(t)])
            OBVIOUS
        <3>1. g[t] = IF t = {} THEN 0 ELSE h[<<g[t \ {Max(t)}], Max(t)>>]
            BY <1>7 DEF FoldStep
        <3>2. g[t \ {Max(t)}] \in Nat
            BY <1>7
        <3> HIDE DEF h, n, s, PartOf
        <3> QED BY <3>1, <3>2, <1>1, <1>6, <1>8
    <2> HIDE DEF h, n, s, PartOf
    <2> QED BY <2>1
<1>10. Step(it)
    <2> HIDE DEF Step
    <2> QED BY <1>9
<1> HIDE DEF it
<1>11. Unfolds(it, Nat, 0, h, n)
    <2>1. it[{}] = 0
        BY <1>10
    <2>2. ASSUME NEW t \in SUBSET (1..n), t # {}, it[t \ {Max(t)}] \in Nat
          PROVE  it[t] = h[<<it[t \ {Max(t)}], Max(t)>>]
        <3>1. it[t] = it[t \ {Max(t)}] + PartOf(s[Max(t)])
            <4> HIDE DEF PartOf, s, n
            <4> QED BY <1>10, <2>2
        <3> HIDE DEF h, n, s, PartOf
        <3> QED BY <1>1, <1>6, <1>8, <2>2, <3>1
    <2> HIDE DEF h, n
    <2> QED BY <2>1, <2>2 DEF Unfolds
<1>12. PICK P : FoldsOf(P, it, Nat, 0, h, n)
    <2>1. n \in Nat /\ 0 \in Nat
        OBVIOUS
    <2> HIDE DEF h, n
    <2> QED BY <1>6, <1>11, <2>1, FoldPrefixes
<1>13. P[1] = P[0] + Part(l, x) /\ P[2] = P[1] + Part(m, x) /\ P[0] = 0 /\ P[2] = it[1..n]
    <2>1. P[0] \in Nat /\ P[1] \in Nat /\ P[0] = 0 /\ P[2] = it[1..n]
        <3> HIDE DEF h
        <3> QED BY <1>12 DEF FoldsOf
    <2>2. P[1] = h[<<P[1 - 1], 1>>] /\ P[2] = h[<<P[2 - 1], 2>>]
        <3> HIDE DEF h
        <3> QED BY <1>12 DEF FoldsOf
    <2>3. 1 \in 1..n /\ 2 \in 1..n /\ 1 - 1 = 0 /\ 2 - 1 = 1
        OBVIOUS
    <2>4. h[<<P[0], 1>>] = P[0] + Part(s[1], x) /\ h[<<P[1], 2>>] = P[1] + Part(s[2], x)
        <3> HIDE DEF h, n, s
        <3> QED BY <1>6, <2>1, <2>3
    <2> HIDE DEF h, n, s
    <2> QED BY <1>3, <2>1, <2>2, <2>3, <2>4
<1> HIDE DEF h, n, PartOf
<1> QED
    BY <1>3, <1>4, <1>5, <1>13

-----------------------------------------------------------------------------
\* The fused ranking.

\* F[k] is the concatenation of the first k of the sequences.
Joins(F, seqs, S) ==
    /\ F \in [0..Len(seqs) -> Seq(S)]
    /\ F[0] = <<>>
    /\ \A k \in 1..Len(seqs) : F[k] = F[k - 1] \o seqs[k]

\* Every list of sequences has such prefixes, and FlattenSeq is the last of them.
LEMMA FlattenIs ==
    ASSUME NEW S, NEW seqs \in Seq(Seq(S))
    PROVE  \E F : Joins(F, seqs, S) /\ FlattenSeq(seqs) = F[Len(seqs)]
<1> DEFINE n == Len(seqs)
           h == [p \in Seq(S) \X (1..n) |-> p[1] \o seqs[p[2]]]
           Step(f) == f = [i \in 1..n |-> IF i = 1 THEN seqs[i] ELSE f[i - 1] \o seqs[i]]
           flatten == CHOOSE f : Step(f)
<1>1. n \in Nat /\ \A k \in 1..n : seqs[k] \in Seq(S)
    OBVIOUS
<1>2. /\ h \in [Seq(S) \X (1..n) -> Seq(S)]
      /\ \A v \in Seq(S), k \in 1..n : h[<<v, k>>] = v \o seqs[k]
    <2>1. \A p \in Seq(S) \X (1..n) : p[1] \o seqs[p[2]] \in Seq(S)
        <3> SUFFICES ASSUME NEW v \in Seq(S), NEW k \in 1..n PROVE v \o seqs[k] \in Seq(S)
            OBVIOUS
        <3> QED BY <1>1, ConcatIs
    <2> QED BY <2>1
<1>3. <<>> \in Seq(S)
    OBVIOUS
<1> HIDE DEF n, h
<1>4. PICK g \in [SUBSET (1..n) -> Seq(S)] : FoldStep(<<>>, h, n, g)
    BY <1>1, <1>2, <1>3, FoldExists
<1>5. Unfolds(g, Seq(S), <<>>, h, n)
    BY <1>4 DEF FoldStep, Unfolds
<1>6. PICK F : FoldsOf(F, g, Seq(S), <<>>, h, n)
    BY <1>1, <1>2, <1>3, <1>5, FoldPrefixes
<1>7. /\ F \in [0..n -> Seq(S)] /\ F[0] = <<>>
      /\ \A k \in 1..n : F[k] = F[k - 1] \o seqs[k]
    <2>1. ASSUME NEW k \in 1..n PROVE F[k] = F[k - 1] \o seqs[k]
        <3>1. k - 1 \in 0..n
            BY <1>1
        <3>2. F[k - 1] \in Seq(S) /\ F[k] = h[<<F[k - 1], k>>]
            BY <1>6, <3>1 DEF FoldsOf
        <3> QED BY <1>2, <3>2
    <2> QED BY <1>6, <2>1 DEF FoldsOf
<1>8. Joins(F, seqs, S)
    BY <1>7 DEF Joins, n
<1>9. CASE n = 0
    <2>1. FlattenSeq(seqs) = seqs /\ seqs = <<>>
        BY <1>9 DEF FlattenSeq, n
    <2> QED BY <1>7, <1>8, <1>9, <2>1 DEF n
<1>10. CASE n # 0
    <2> DEFINE f == [k \in 1..n |-> F[k]]
    <2>1. \A i \in 1..n : f[i] = IF i = 1 THEN seqs[i] ELSE f[i - 1] \o seqs[i]
        <3> SUFFICES ASSUME NEW i \in 1..n
                     PROVE  f[i] = IF i = 1 THEN seqs[i] ELSE f[i - 1] \o seqs[i]
            OBVIOUS
        <3>1. CASE i = 1
            <4>1. 1 \in 1..n /\ 1 - 1 = 0
                BY <3>1
            <4>2. F[1] = F[0] \o seqs[1] /\ seqs[1] \in Seq(S)
                BY <1>1, <1>7, <4>1
            <4>3. F[1] = seqs[1]
                BY <1>7, <4>2
            <4> QED BY <3>1, <4>3
        <3>2. CASE i # 1
            <4>1. i - 1 \in 1..n
                BY <1>1, <3>2
            <4> QED BY <1>7, <3>2, <4>1
        <3> QED BY <3>1, <3>2
    <2>2. Step(f)
        <3> HIDE DEF Step
        <3>1. f = [i \in 1..n |-> f[i]]
            OBVIOUS
        <3> HIDE DEF f
        <3> QED BY <2>1, <3>1 DEF Step
    <2>3. Step(flatten)
        <3> HIDE DEF Step
        <3> QED BY <2>2
    <2>4. FlattenSeq(seqs) = flatten[n]
        BY <1>10 DEF FlattenSeq, n
    <2> HIDE DEF flatten
    <2> DEFINE T == {k \in 0..n : k = 0 \/ flatten[k] = F[k]}
    <2>5. ASSUME NEW i \in 1..n, i - 1 \in T PROVE i \in T
        <3>1. flatten[i] = IF i = 1 THEN seqs[i] ELSE flatten[i - 1] \o seqs[i]
            BY <2>3
        <3>2. F[i] = IF i = 1 THEN seqs[i] ELSE F[i - 1] \o seqs[i]
            BY <1>7, <2>1
        <3>3. i # 1 => flatten[i - 1] = F[i - 1]
            BY <2>5
        <3>4. flatten[i] = F[i]
            <4> HIDE DEF T, Step, f
            <4> QED BY <3>1, <3>2, <3>3
        <3> QED BY <3>4
    <2>6. n \in T
        <3>1. 0 \in T
            BY <1>1
        <3>2. 0..n \subseteq T
            <4> HIDE DEF T
            <4> QED BY <1>1, <2>5, <3>1, SetInduction
        <3> QED BY <1>1, <3>2
    <2>7. flatten[n] = F[n]
        BY <1>10, <2>6
    <2> QED BY <1>8, <2>4, <2>7 DEF n
<1> QED
    BY <1>9, <1>10

\* Two lists in a row are their concatenation.
LEMMA FlattenOfTwo ==
    ASSUME NEW S, NEW l \in Seq(S), NEW m \in Seq(S)
    PROVE  FlattenSeq(<<l, m>>) = l \o m
<1> DEFINE s == <<l, m>>
<1>1. s \in Seq(Seq(S)) /\ Len(s) = 2 /\ s[1] = l /\ s[2] = m
    OBVIOUS
<1> HIDE DEF s
<1>2. PICK F : Joins(F, s, S) /\ FlattenSeq(s) = F[2]
    BY <1>1, FlattenIs
<1>3. F[0] = <<>> /\ F[1] = F[0] \o l /\ F[2] = F[1] \o m
    <2>1. \A k \in 1..2 : F[k] = F[k - 1] \o s[k]
        BY <1>1, <1>2 DEF Joins
    <2>2. F[1] = F[1 - 1] \o s[1] /\ F[2] = F[2 - 1] \o s[2]
        <3>1. 1 \in 1..2 /\ 2 \in 1..2
            OBVIOUS
        <3> QED BY <2>1, <3>1, Zenon
    <2>3. 1 - 1 = 0 /\ 2 - 1 = 1
        OBVIOUS
    <2> QED BY <1>1, <1>2, <2>2, <2>3 DEF Joins
<1>4. F[1] = l
    BY <1>3
<1> QED
    BY <1>2, <1>3, <1>4 DEF s

\* The fused order of two lists.
Above(lists, seen, x, y) ==
    \/ Score(lists, x) > Score(lists, y)
    \/ Score(lists, x) = Score(lists, y) /\ RankOf(seen, x) < RankOf(seen, y)

\* Fused is well defined: a ranking of all chunks of both lists, sorted by score and
\* then by first appearance.
LEMMA FusedIsSorted ==
    ASSUME NEW S, NEW l \in Seq(S), NEW m \in Seq(S),
           Len(l) <= RetrievalCandidates, Len(m) <= RetrievalCandidates
    PROVE  LET lists == <<l, m>> r == Fused(lists) IN
           /\ r \in Seq(ToSet(l) \cup ToSet(m)) /\ IsInjective(r)
           /\ ToSet(r) = ToSet(l) \cup ToSet(m)
           /\ \A i, j \in 1..Len(r) : i < j => Above(lists, l \o m, r[i], r[j])
<1> DEFINE lists == <<l, m>>
           seen == l \o m
           T == ToSet(seen)
           R == {p \in T \X T : Above(lists, seen, p[1], p[2])}
<1>1. FlattenSeq(lists) = seen
    BY FlattenOfTwo
<1>2. /\ seen \in Seq(S) /\ Len(seen) \in Nat
      /\ T = ToSet(l) \cup ToSet(m)
    <2>1. /\ seen \in Seq(S) /\ Len(seen) = Len(l) + Len(m) /\ Len(l) \in Nat /\ Len(m) \in Nat
          /\ DOMAIN seen = 1..Len(l) + Len(m)
          /\ \A i \in 1..Len(l) : seen[i] = l[i]
          /\ \A i \in Len(l) + 1..Len(l) + Len(m) : seen[i] = m[i - Len(l)]
        BY ConcatIs
    <2>2. DOMAIN l = 1..Len(l) /\ DOMAIN m = 1..Len(m)
        OBVIOUS
    <2> HIDE DEF seen
    <2>3. \A i \in 1..Len(m) : seen[Len(l) + i] = m[i] /\ Len(l) + i \in DOMAIN seen
        BY <2>1
    <2>4. \A x \in T : x \in ToSet(l) \/ x \in ToSet(m)
        <3> SUFFICES ASSUME NEW i \in 1..Len(l) + Len(m)
                     PROVE  seen[i] \in ToSet(l) \/ seen[i] \in ToSet(m)
            BY <2>1 DEF ToSet
        <3>1. CASE i \in 1..Len(l)
            BY <2>1, <2>2, <3>1 DEF ToSet
        <3>2. CASE i \in Len(l) + 1..Len(l) + Len(m)
            <4>1. i - Len(l) \in 1..Len(m)
                BY <2>1, <3>2
            <4> QED BY <2>1, <2>2, <3>2, <4>1 DEF ToSet
        <3> QED BY <2>1, <3>1, <3>2
    <2>5. ToSet(l) \subseteq T
        <3>1. \A i \in DOMAIN l : i \in DOMAIN seen /\ seen[i] = l[i]
            BY <2>1, <2>2
        <3> QED BY <3>1 DEF ToSet
    <2>6. ToSet(m) \subseteq T
        <3>1. \A i \in DOMAIN m : Len(l) + i \in DOMAIN seen /\ seen[Len(l) + i] = m[i]
            BY <2>2, <2>3
        <3> QED BY <3>1 DEF ToSet
    <2> QED BY <2>1, <2>4, <2>5, <2>6
<1>3. IsFiniteSet(T)
    <2>1. DOMAIN seen = 1..Len(seen)
        BY <1>2, SeqIsFun
    <2>2. seen \in Surjection(1..Len(seen), T)
        <3> HIDE DEF seen
        <3>1. seen \in [1..Len(seen) -> T]
            BY <1>2, <2>1 DEF ToSet
        <3> QED BY <2>1, <3>1 DEF Surjection, ToSet
    <2>3. IsFiniteSet(1..Len(seen))
        BY <1>2, FS_Interval
    <2> QED BY <2>2, <2>3, FS_Surjection
<1> HIDE DEF T
<1>4. \A x \in T : /\ Score(lists, x) \in Nat
                   /\ RankOf(seen, x) \in Nat /\ seen[RankOf(seen, x)] = x
    <2> SUFFICES ASSUME NEW x \in T
                 PROVE  /\ Score(lists, x) \in Nat
                        /\ RankOf(seen, x) \in Nat /\ seen[RankOf(seen, x)] = x
        OBVIOUS
    <2>1. Score(lists, x) \in Nat
        BY ScoreIsSum
    <2>2. Contains(seen, x)
        <3>1. DOMAIN seen = 1..Len(seen)
            BY <1>2, SeqIsFun
        <3> HIDE DEF seen
        <3> QED BY <3>1 DEF T, ToSet, Contains
    <2> HIDE DEF seen, lists
    <2> QED BY <1>2, <2>1, <2>2, FirstRank
<1> HIDE DEF lists, seen
<1>5. Orders(R, T)
    <2>1. \A x, y \in T : <<x, y>> \in R <=> Above(lists, seen, x, y)
        OBVIOUS
    <2>2. ASSUME NEW x \in T, NEW y \in T, x # y
          PROVE  Above(lists, seen, x, y) <=> ~Above(lists, seen, y, x)
        <3>1. RankOf(seen, x) # RankOf(seen, y)
            BY <1>4, <2>2
        <3> QED BY <1>4, <3>1 DEF Above
    <2>3. ASSUME NEW x \in T, NEW y \in T, NEW z \in T,
                 Above(lists, seen, x, y), Above(lists, seen, y, z)
          PROVE  Above(lists, seen, x, z)
        BY <1>4, <2>3 DEF Above
    <2> HIDE DEF R
    <2> QED BY <2>1, <2>2, <2>3 DEF Orders
<1> DEFINE Sorted(r) == \A i, j \in DOMAIN r : i < j => Above(lists, seen, r[i], r[j])
<1>6. \E r \in SetToSeqs(T) : Sorted(r)
    <2>1. PICK r \in SetToSeqs(T) : \A i, j \in DOMAIN r : i < j => <<r[i], r[j]>> \in R
        <3> HIDE DEF R
        <3> QED BY <1>3, <1>5, SortExists
    <2> QED BY <2>1
<1>7. Fused(lists) = CHOOSE r \in SetToSeqs(T) : Sorted(r)
    BY <1>1 DEF Fused, Above, RankOf, T
<1>8. Fused(lists) \in SetToSeqs(T) /\ Sorted(Fused(lists))
    <2> HIDE DEF Sorted
    <2> QED BY <1>6, <1>7
<1> DEFINE r == Fused(lists)
<1> HIDE DEF r
<1>9. r \in Seq(T) /\ IsInjective(r) /\ ToSet(r) = T
    BY <1>3, <1>8, PermutationIsOnto DEF r
<1>10. DOMAIN r = 1..Len(r)
    BY <1>9, SeqIsFun
<1> QED
    BY <1>2, <1>8, <1>9, <1>10 DEF r, lists, seen

\* Before by ranks.
LEMMA BeforeIs ==
    \A l, x, y : Before(l, x, y) <=> /\ Contains(l, x)
                                     /\ Contains(l, y) => RankOf(l, x) < RankOf(l, y)
BY DEF Before, RankOf

\* What a list gives a chunk it found.
LEMMA PartOfFound ==
    ASSUME NEW S, NEW l \in Seq(S), Len(l) <= RetrievalCandidates, NEW z, Contains(l, z)
    PROVE  /\ RankOf(l, z) \in 1..RetrievalCandidates
           /\ Part(l, z) = Product \div (RrfK + RankOf(l, z))
<1>1. RankOf(l, z) \in 1..Len(l)
    BY FirstRank
<1> QED
    BY <1>1, NumberAssumption DEF Part

\* What two lists give to one chunk is more than any list gives to another.
LEMMA PartsOfTwo ==
    ASSUME NEW S, NEW l \in Seq(S), NEW m \in Seq(S), NEW k \in Seq(S),
           Len(l) <= RetrievalCandidates, Len(m) <= RetrievalCandidates,
           Len(k) <= RetrievalCandidates,
           NEW x, NEW y, Contains(l, x), Contains(m, x), Contains(k, y)
    PROVE  Part(l, x) + Part(m, x) > Part(k, y)
<1>1. Part(l, x) \in Nat /\ Part(m, x) \in Nat /\ Part(k, y) \in Nat
    BY ScoreIsSum
<1>2. 2 * Part(l, x) > Part(k, y) /\ 2 * Part(m, x) > Part(k, y)
    BY PartOfFound, Damping
<1> QED
    BY <1>1, <1>2

\* One list gives more to what it has before.
LEMMA PartOfBefore ==
    ASSUME NEW S, NEW l \in Seq(S), Len(l) <= RetrievalCandidates, NEW x, NEW y
    PROVE  /\ Part(l, x) \in Nat /\ Part(l, y) \in Nat
           /\ Contains(l, y) /\ Before(l, x, y) => Part(l, x) > Part(l, y)
           /\ ~Contains(l, y) => Part(l, x) >= Part(l, y) /\ Part(l, y) = 0
<1>1. Part(l, x) \in Nat /\ Part(l, y) \in Nat
    BY ScoreIsSum
<1>3. ASSUME Contains(l, y), Before(l, x, y)
      PROVE  Part(l, x) > Part(l, y)
    <2>1. Contains(l, x) /\ RankOf(l, x) < RankOf(l, y)
        BY <1>3, BeforeIs
    <2>2. Product \div (RrfK + RankOf(l, y)) < Product \div (RrfK + RankOf(l, x))
        BY <1>3, <2>1, PartOfFound, Damping
    <2> QED BY <1>1, <1>3, <2>1, <2>2, PartOfFound
<1>4. ASSUME ~Contains(l, y)
      PROVE  Part(l, x) >= Part(l, y) /\ Part(l, y) = 0
    <2>1. Part(l, y) = 0
        BY <1>4 DEF Part
    <2> QED BY <1>1, <2>1
<1> QED
    BY <1>1, <1>3, <1>4

\* No chunk comes before one that both lists have at least as far up, or that both
\* found while it was found once (hybrid.py).
LEMMA FusionAgrees ==
    ASSUME NEW S, NEW l \in Seq(S), NEW m \in Seq(S),
           Len(l) <= RetrievalCandidates, Len(m) <= RetrievalCandidates,
           NEW x \in ToSet(l) \cup ToSet(m), NEW y \in ToSet(l) \cup ToSet(m),
           \/ /\ x # y
              /\ Before(l, x, y) \/ ~Contains(l, y)
              /\ Before(m, x, y) \/ ~Contains(m, y)
           \/ /\ Contains(l, x) /\ Contains(m, x)
              /\ ~Contains(l, y) \/ ~Contains(m, y)
    PROVE  Before(Fused(<<l, m>>), x, y)
<1> DEFINE lists == <<l, m>>
           r == Fused(lists)
           T == ToSet(l) \cup ToSet(m)
<1>1. /\ r \in Seq(T) /\ IsInjective(r) /\ ToSet(r) = T
      /\ \A i, j \in 1..Len(r) : i < j => Above(lists, l \o m, r[i], r[j])
    BY FusedIsSorted
<1>2. Score(lists, x) = Part(l, x) + Part(m, x) /\ Score(lists, y) = Part(l, y) + Part(m, y)
    BY ScoreIsSum
<1>3. Contains(l, y) \/ Contains(m, y)
    <2>1. DOMAIN l = 1..Len(l) /\ DOMAIN m = 1..Len(m)
        OBVIOUS
    <2> QED BY <2>1 DEF ToSet, Contains
<1> HIDE DEF r, T, lists
<1>4. Score(lists, x) > Score(lists, y)
    <2>1. /\ Part(l, x) \in Nat /\ Part(l, y) \in Nat
          /\ Contains(l, y) /\ Before(l, x, y) => Part(l, x) > Part(l, y)
          /\ ~Contains(l, y) => Part(l, x) >= Part(l, y) /\ Part(l, y) = 0
        BY PartOfBefore
    <2>2. /\ Part(m, x) \in Nat /\ Part(m, y) \in Nat
          /\ Contains(m, y) /\ Before(m, x, y) => Part(m, x) > Part(m, y)
          /\ ~Contains(m, y) => Part(m, x) >= Part(m, y) /\ Part(m, y) = 0
        BY PartOfBefore
    <2>3. CASE /\ Before(l, x, y) \/ ~Contains(l, y)
               /\ Before(m, x, y) \/ ~Contains(m, y)
        BY <1>2, <1>3, <2>1, <2>2, <2>3
    <2>4. CASE /\ Contains(l, x) /\ Contains(m, x)
               /\ ~Contains(l, y) \/ ~Contains(m, y)
        <3>1. CASE Contains(l, y)
            <4>1. Part(l, x) + Part(m, x) > Part(l, y)
                BY <2>4, <3>1, PartsOfTwo
            <4> QED BY <1>2, <2>1, <2>2, <2>4, <3>1, <4>1
        <3>2. CASE Contains(m, y)
            <4>1. Part(l, x) + Part(m, x) > Part(m, y)
                BY <2>4, <3>2, PartsOfTwo
            <4> QED BY <1>2, <2>1, <2>2, <2>4, <3>2, <4>1
        <3> QED BY <1>3, <3>1, <3>2
    <2> QED BY <2>3, <2>4
<1>5. PICK i \in 1..Len(r) : r[i] = x
    <2>1. DOMAIN r = 1..Len(r)
        BY <1>1, SeqIsFun
    <2> QED BY <1>1, <2>1 DEF ToSet, T
<1>6. PICK j \in 1..Len(r) : r[j] = y
    <2>1. DOMAIN r = 1..Len(r)
        BY <1>1, SeqIsFun
    <2> QED BY <1>1, <2>1 DEF ToSet, T
<1>7. i < j
    <2>1. Score(lists, x) \in Nat /\ Score(lists, y) \in Nat
        BY <1>2, PartOfBefore
    <2>2. i # j
        BY <1>4, <1>5, <1>6, <2>1
    <2>3. ~(j < i)
        BY <1>1, <1>4, <1>5, <1>6, <2>1 DEF Above
    <2> QED BY <2>2, <2>3
<1>8. RankOf(r, x) = i /\ RankOf(r, y) = j
    BY <1>1, <1>5, <1>6, RankOfInjective
<1>9. Contains(r, x)
    BY <1>5 DEF Contains
<1> QED
    BY <1>7, <1>8, <1>9, BeforeIs DEF r, lists

-----------------------------------------------------------------------------
\* The numbers of the blocks.

\* The intervals L[k - 1] + 1..L[k], of M[k] numbers each, one after another from 1.
Adjoin(L, M, n) ==
    /\ L \in [0..n -> Nat] /\ M \in [1..n -> Nat] /\ L[0] = 0
    /\ \A k \in 1..n : L[k] = L[k - 1] + M[k]

\* The ends of the intervals do not go back.
LEMMA IntervalsGrow ==
    ASSUME NEW n \in Nat, NEW L, NEW M, Adjoin(L, M, n)
    PROVE  \A j \in 0..n : \A k \in 0..j : L[k] <= L[j]
<1> DEFINE T == {j \in 0..n : \A k \in 0..j : L[k] <= L[j]}
<1>1. /\ \A k \in 0..n : L[k] \in Nat
      /\ \A k \in 1..n : k - 1 \in 0..n /\ k \in 0..n /\ M[k] \in Nat /\ L[k] = L[k - 1] + M[k]
    BY DEF Adjoin
<1>2. 0 \in T
    BY <1>1
<1>3. ASSUME NEW j \in 1..n, j - 1 \in T PROVE j \in T
    <2>1. ASSUME NEW k \in 0..j PROVE L[k] <= L[j]
        <3>1. CASE k = j
            BY <1>1, <3>1
        <3>2. CASE k # j
            <4>1. k \in 0..j - 1 /\ k \in 0..n
                BY <3>2
            <4>2. L[k] <= L[j - 1]
                BY <1>3, <4>1
            <4> HIDE DEF T
            <4> QED BY <1>1, <4>1, <4>2
        <3> QED BY <3>1, <3>2
    <2> QED BY <1>1, <2>1
<1>4. 0..n \subseteq T
    <2> HIDE DEF T
    <2> QED BY <1>2, <1>3, SetInduction
<1> QED
    BY <1>4

\* Every number up to L[n] is in one of them, at one place.
Tiles(L, M, n) ==
    /\ \A k \in 1..n : \A i \in 1..M[k] : L[k - 1] + i \in 1..L[k] /\ L[k - 1] + i \in 1..L[n]
    /\ \A p \in 1..L[n] : \E k \in 1..n : \E i \in 1..M[k] : p = L[k - 1] + i
    /\ \A j, k \in 1..n : \A i \in 1..M[j] : \A m \in 1..M[k] :
         L[j - 1] + i = L[k - 1] + m => j = k /\ i = m

\* Intervals that adjoin leave no number out and share none.
LEMMA IntervalsPartition ==
    ASSUME NEW n \in Nat, NEW L, NEW M, Adjoin(L, M, n)
    PROVE  Tiles(L, M, n)
<1>1. /\ \A k \in 0..n : L[k] \in Nat
      /\ \A k \in 1..n : k - 1 \in 0..n /\ k \in 0..n /\ M[k] \in Nat /\ L[k] = L[k - 1] + M[k]
      /\ L[0] = 0
    BY DEF Adjoin
<1>2. \A j \in 0..n : \A k \in 0..j : L[k] <= L[j]
    BY IntervalsGrow
<1>3. ASSUME NEW k \in 1..n, NEW i \in 1..M[k]
      PROVE  L[k - 1] + i \in 1..L[k] /\ L[k - 1] + i \in 1..L[n]
    <2>1. n \in 0..n /\ k \in 0..n
        OBVIOUS
    <2>2. L[k] <= L[n] /\ L[k - 1] \in Nat /\ M[k] \in Nat /\ L[k] \in Nat /\ L[n] \in Nat
        BY <1>1, <1>2, <2>1
    <2> QED BY <1>1, <2>2
<1>4. ASSUME NEW p \in 1..L[n]
      PROVE  \E k \in 1..n : \E i \in 1..M[k] : p = L[k - 1] + i
    <2> DEFINE T == {k \in 0..n : p <= L[k]}
    <2>1. T \in SUBSET Nat /\ n \in T
        BY <1>1
    <2>2. PICK k \in T : \A j \in T : k <= j
        <3> HIDE DEF T
        <3> QED BY <2>1, LeastNumber
    <2>3. k # 0
        BY <1>1, <2>2
    <2>4. k \in 1..n /\ k - 1 \in 0..n
        BY <2>2, <2>3
    <2>5. k - 1 \notin T
        <3> HIDE DEF T
        <3> QED BY <2>2, <2>4
    <2>6. p > L[k - 1] /\ p <= L[k]
        BY <1>1, <2>2, <2>4, <2>5
    <2>7. p - L[k - 1] \in 1..M[k] /\ p = L[k - 1] + (p - L[k - 1])
        BY <1>1, <2>4, <2>6
    <2> QED BY <2>4, <2>7
<1>5. ASSUME NEW j \in 1..n, NEW k \in 1..n, NEW i \in 1..M[j], NEW m \in 1..M[k],
             L[j - 1] + i = L[k - 1] + m
      PROVE  j = k /\ i = m
    <2>1. /\ L[j] = L[j - 1] + M[j] /\ L[k] = L[k - 1] + M[k]
          /\ L[j - 1] \in Nat /\ L[k - 1] \in Nat
          /\ L[j] \in Nat /\ L[k] \in Nat /\ M[j] \in Nat /\ M[k] \in Nat
        BY <1>1
    <2>2. ASSUME j < k PROVE FALSE
        <3>1. k - 1 \in 0..n /\ j \in 0..k - 1
            BY <2>2
        <3>2. L[j] <= L[k - 1]
            BY <1>2, <3>1
        <3> QED BY <1>5, <2>1, <3>2
    <2>3. ASSUME k < j PROVE FALSE
        <3>1. j - 1 \in 0..n /\ k \in 0..j - 1
            BY <2>3
        <3>2. L[k] <= L[j - 1]
            BY <1>2, <3>1
        <3> QED BY <1>5, <2>1, <3>2
    <2>4. j = k
        BY <2>2, <2>3
    <2> QED BY <1>5, <2>1, <2>4
<1> QED
    BY <1>3, <1>4, <1>5 DEF Tiles

\* c is the concatenation of seqs, the k-th of which begins after L[k - 1].
Places(seqs, L, c) ==
    /\ Adjoin(L, [k \in 1..Len(seqs) |-> Len(seqs[k])], Len(seqs))
    /\ DOMAIN c = 1..L[Len(seqs)]
    /\ \A k \in 1..Len(seqs) : \A i \in 1..Len(seqs[k]) : c[L[k - 1] + i] = seqs[k][i]

\* The concatenation of sequences puts each in an interval of its own.
LEMMA FlattenPlaces ==
    ASSUME NEW S, NEW seqs \in Seq(Seq(S))
    PROVE  \E L : Places(seqs, L, FlattenSeq(seqs))
<1> DEFINE n == Len(seqs)
           M == [k \in 1..n |-> Len(seqs[k])]
<1>1. n \in Nat /\ \A k \in 1..n : seqs[k] \in Seq(S) /\ M[k] = Len(seqs[k]) /\ M[k] \in Nat
    <2>1. n \in Nat /\ \A k \in 1..n : seqs[k] \in Seq(S)
        OBVIOUS
    <2>2. \A k \in 1..n : Len(seqs[k]) \in Nat
        BY <2>1, SeqIsFun
    <2> HIDE DEF n
    <2> QED BY <2>1, <2>2
<1>2. PICK F : Joins(F, seqs, S) /\ FlattenSeq(seqs) = F[n]
    BY FlattenIs
<1>3. /\ F \in [0..n -> Seq(S)] /\ F[0] = <<>>
      /\ \A k \in 1..n : F[k] = F[k - 1] \o seqs[k]
    BY <1>2 DEF Joins
<1> HIDE DEF n
<1> DEFINE L == [k \in 0..n |-> Len(F[k])]
<1>4. \A k \in 0..n : F[k] \in Seq(S) /\ L[k] = Len(F[k]) /\ L[k] \in Nat /\ DOMAIN F[k] = 1..L[k]
    <2>1. \A k \in 0..n : F[k] \in Seq(S)
        BY <1>3
    <2>2. \A k \in 0..n : Len(F[k]) \in Nat /\ DOMAIN F[k] = 1..Len(F[k])
        BY <2>1, SeqIsFun
    <2> QED BY <2>1, <2>2
<1>5. ASSUME NEW k \in 1..n
      PROVE  /\ L[k] = L[k - 1] + M[k]
             /\ \A i \in 1..L[k - 1] : F[k][i] = F[k - 1][i]
             /\ \A i \in 1..M[k] : F[k][L[k - 1] + i] = seqs[k][i]
    <2> DEFINE s == F[k - 1]
               t == seqs[k]
    <2>1. /\ s \in Seq(S) /\ t \in Seq(S) /\ F[k] = s \o t
          /\ L[k - 1] = Len(s) /\ L[k] = Len(F[k]) /\ M[k] = Len(t)
        <3>1. k - 1 \in 0..n /\ k \in 0..n
            BY <1>1
        <3> HIDE DEF L, M
        <3> QED BY <1>1, <1>3, <1>4, <3>1
    <2> HIDE DEF s, t, L, M
    <2>2. /\ Len(s \o t) = Len(s) + Len(t) /\ Len(s) \in Nat /\ Len(t) \in Nat
          /\ \A i \in 1..Len(s) : (s \o t)[i] = s[i]
          /\ \A i \in Len(s) + 1..Len(s) + Len(t) : (s \o t)[i] = t[i - Len(s)]
        BY <2>1, ConcatIs
    <2>3. \A i \in 1..Len(t) : (s \o t)[Len(s) + i] = t[i]
        BY <2>2
    <2> QED BY <2>1, <2>2, <2>3 DEF s, t
<1>6. Adjoin(L, M, n)
    <2>1. L[0] = 0
        BY <1>1, <1>3
    <2>2. L \in [0..n -> Nat] /\ M \in [1..n -> Nat]
        BY <1>1, <1>4
    <2> HIDE DEF L, M
    <2> QED BY <1>5, <2>1, <2>2 DEF Adjoin
<1> HIDE DEF L, M
<1> DEFINE T == {k \in 0..n : \A j \in 1..k : \A i \in 1..M[j] : F[k][L[j - 1] + i] = seqs[j][i]}
<1>7. 0 \in T
    BY <1>1
<1>8. ASSUME NEW k \in 1..n, k - 1 \in T PROVE k \in T
    <2>1. k \in 0..n
        BY <1>1
    <2>2. ASSUME NEW j \in 1..k, NEW i \in 1..M[j]
          PROVE  F[k][L[j - 1] + i] = seqs[j][i]
        <3>1. CASE j = k
            BY <1>5, <3>1
        <3>2. CASE j # k
            <4>1. j \in 1..k - 1 /\ j \in 1..n /\ j \in 0..k - 1 /\ k - 1 \in 0..n /\ j \in 0..n
                BY <1>1, <3>2
            <4>2. F[k - 1][L[j - 1] + i] = seqs[j][i]
                BY <1>8, <4>1
            <4>3. L[j - 1] + i \in 1..L[j]
                BY <1>1, <1>6, <4>1, IntervalsPartition DEF Tiles
            <4>4. L[j] <= L[k - 1] /\ L[j] \in Nat /\ L[k - 1] \in Nat
                BY <1>1, <1>4, <1>6, <4>1, IntervalsGrow
            <4>5. L[j - 1] + i \in 1..L[k - 1]
                BY <4>3, <4>4
            <4> QED BY <1>5, <4>2, <4>5
        <3> QED BY <3>1, <3>2
    <2> QED BY <2>1, <2>2
<1>9. n \in T
    <2>1. 0..n \subseteq T
        <3> HIDE DEF T
        <3> QED BY <1>1, <1>7, <1>8, SetInduction
    <2>2. n \in 0..n
        BY <1>1
    <2> HIDE DEF T
    <2> QED BY <2>1, <2>2
<1>10. Places(seqs, L, F[n])
    <2>1. Adjoin(L, [k \in 1..Len(seqs) |-> Len(seqs[k])], Len(seqs))
        BY <1>6 DEF M, n
    <2>2. DOMAIN F[n] = 1..L[n]
        BY <1>1, <1>4
    <2>3. \A k \in 1..n : \A i \in 1..Len(seqs[k]) : F[n][L[k - 1] + i] = seqs[k][i]
        BY <1>1, <1>9
    <2> QED BY <2>1, <2>2, <2>3 DEF Places, n
<1> QED
    BY <1>2, <1>10

\* A chunk: its channel and its number.
Chunks == Channels \X Nat

\* The groups of a turn: each source with chunks of its own.
Groups == UNION {[channel : {c}, results : Seq({c} \X Nat)] : c \in Channels}

\* The chunks of the groups.
ResultsOf(groups) == [i \in DOMAIN groups |-> groups[i].results]

\* What a group is made of.
LEMMA GroupIs ==
    ASSUME NEW g \in Groups
    PROVE  /\ g.channel \in Channels /\ g.results \in Seq(Chunks)
           /\ Len(g.results) \in Nat /\ DOMAIN g.results = 1..Len(g.results)
           /\ \A i \in 1..Len(g.results) : g.results[i] \in Chunks /\ g.results[i][1] = g.channel
<1>1. PICK c \in Channels : g \in [channel : {c}, results : Seq({c} \X Nat)]
    BY DEF Groups
<1>2. g.channel = c /\ g.results \in Seq({c} \X Nat)
    BY <1>1
<1> DEFINE s == g.results
<1> HIDE DEF s
<1>3. /\ Len(s) \in Nat /\ DOMAIN s = 1..Len(s) /\ s = [i \in 1..Len(s) |-> s[i]]
      /\ \A i \in 1..Len(s) : s[i] \in {c} \X Nat
    BY <1>2, SeqIsFun DEF s
<1>4. \A i \in 1..Len(s) : s[i] \in Chunks /\ s[i][1] = c
    BY <1>3 DEF Chunks
<1>5. s \in Seq(Chunks)
    <2>1. s \in [1..Len(s) -> Chunks]
        BY <1>3, <1>4
    <2> QED BY <1>3, <2>1, FunIsSeq
<1> QED
    BY <1>2, <1>3, <1>4, <1>5 DEF s

\* The chunks of the groups are a sequence for each group.
LEMMA ResultsOfGroups ==
    ASSUME NEW groups \in Seq(Groups)
    PROVE  /\ ResultsOf(groups) \in Seq(Seq(Chunks)) /\ Len(ResultsOf(groups)) = Len(groups)
           /\ Len(groups) \in Nat /\ DOMAIN groups = 1..Len(groups)
           /\ \A k \in 1..Len(groups) : groups[k] \in Groups /\ ResultsOf(groups)[k] = groups[k].results
<1>1. /\ Len(groups) \in Nat /\ DOMAIN groups = 1..Len(groups)
      /\ \A k \in 1..Len(groups) : groups[k] \in Groups
    BY SeqIsFun
<1>2. ResultsOf(groups) \in [1..Len(groups) -> Seq(Chunks)]
    BY <1>1, GroupIs DEF ResultsOf
<1>3. \A k \in 1..Len(groups) : ResultsOf(groups)[k] = groups[k].results
    BY <1>1 DEF ResultsOf
<1> QED
    BY <1>1, <1>2, <1>3, FunIsSeq

\* Append adds one member.
LEMMA ToSetOfAppend ==
    ASSUME NEW S, NEW s \in Seq(S), NEW x \in S
    PROVE  ToSet(Append(s, x)) = ToSet(s) \cup {x}
<1>1. /\ DOMAIN Append(s, x) = 1..Len(s) + 1 /\ DOMAIN s = 1..Len(s) /\ Len(s) \in Nat
      /\ \A i \in 1..Len(s) : Append(s, x)[i] = s[i]
      /\ Append(s, x)[Len(s) + 1] = x
    BY AppendIs
<1> DEFINE t == Append(s, x)
           n == Len(s)
<1> HIDE DEF t, n
<1>2. DOMAIN t = 1..n + 1 /\ DOMAIN s = 1..n /\ n \in Nat /\ t[n + 1] = x /\ \A i \in 1..n : t[i] = s[i]
    BY <1>1 DEF t, n
<1>3. 1..n + 1 = 1..n \cup {n + 1}
    BY <1>2
<1>4. ToSet(t) = ToSet(s) \cup {x}
    BY <1>2, <1>3 DEF ToSet
<1> QED
    BY <1>4 DEF t

\* The ranges of the first k groups.
RangesOf(groups, L, k) ==
    {[group |-> groups[j], first |-> L[j - 1] + 1] : j \in {i \in 1..k : groups[i].results # <<>>}}

\* _group_ranges: the numbers of a group begin where FlattenSeq puts its first
\* chunk, though groups without a chunk are left out.
LEMMA RangesAre ==
    ASSUME NEW groups \in Seq(Groups), NEW L, NEW c, Places(ResultsOf(groups), L, c)
    PROVE  ToSet(GroupRanges(groups)) = RangesOf(groups, L, Len(groups))
<1> DEFINE n == Len(groups)
           Numbered == [group : Groups, first : Nat]
           V == [next : Nat, ranges : Seq(Numbered)]
           b == [next |-> 1, ranges |-> <<>>]
           After(acc, g) == IF g.results = <<>> THEN acc
                            ELSE [next |-> acc.next + Len(g.results),
                                  ranges |-> Append(acc.ranges, [group |-> g, first |-> acc.next])]
           Step(it) == it = [t \in SUBSET (1..n) |->
                        IF t = {} THEN b ELSE After(it[t \ {Max(t)}], groups[Max(t)])]
           it == CHOOSE f : Step(f)
           h == [p \in V \X (1..n) |-> After(p[1], groups[p[2]])]
<1>1. /\ n \in Nat /\ DOMAIN groups = 1..n
      /\ \A k \in 1..n : groups[k] \in Groups /\ Len(groups[k].results) \in Nat
    BY ResultsOfGroups, GroupIs
<1>2. GroupRanges(groups) = it[1..n].ranges
    <2>1. GroupRanges(groups) = FoldLeft(LAMBDA acc, g : After(acc, g), b, groups).ranges
        BY DEF GroupRanges
    <2>2. FoldLeft(LAMBDA acc, g : After(acc, g), b, groups) = it[1..n]
        <3> HIDE DEF After, b
        <3> QED BY <1>1 DEF FoldLeft, MapThenFoldSet
    <2> HIDE DEF it, After
    <2> QED BY <2>1, <2>2
<1>3. b \in V
    OBVIOUS
<1>4. \A v \in V, g \in Groups : After(v, g) \in V
    <2> SUFFICES ASSUME NEW v \in V, NEW g \in Groups PROVE After(v, g) \in V
        OBVIOUS
    <2>1. v.next \in Nat /\ v.ranges \in Seq(Numbered)
        OBVIOUS
    <2>2. Len(g.results) \in Nat
        BY GroupIs
    <2>3. [group |-> g, first |-> v.next] \in Numbered
        BY <2>1
    <2>4. Append(v.ranges, [group |-> g, first |-> v.next]) \in Seq(Numbered)
        <3> HIDE DEF Numbered
        <3> QED BY <2>1, <2>3, AppendIs
    <2> HIDE DEF Numbered
    <2> QED BY <2>1, <2>2, <2>4
<1> HIDE DEF b, V, After, n
<1>5. /\ h \in [V \X (1..n) -> V]
      /\ \A v \in V, k \in 1..n : h[<<v, k>>] = After(v, groups[k])
    BY <1>1, <1>4
<1> HIDE DEF h
<1>6. PICK F \in [SUBSET (1..n) -> V] : FoldStep(b, h, n, F)
    BY <1>1, <1>3, <1>5, FoldExists
<1>7. \A t \in SUBSET (1..n) : t # {} => Max(t) \in 1..n
    BY <1>1, MaxOfNumbers
<1>8. Step(F)
    <2>1. \A t \in SUBSET (1..n) :
            F[t] = IF t = {} THEN b ELSE After(F[t \ {Max(t)}], groups[Max(t)])
        <3> SUFFICES ASSUME NEW t \in SUBSET (1..n)
                     PROVE  F[t] = IF t = {} THEN b ELSE After(F[t \ {Max(t)}], groups[Max(t)])
            OBVIOUS
        <3>1. F[t] = IF t = {} THEN b ELSE h[<<F[t \ {Max(t)}], Max(t)>>]
            BY <1>6 DEF FoldStep
        <3>2. F[t \ {Max(t)}] \in V
            BY <1>6
        <3> QED BY <3>1, <3>2, <1>5, <1>7
    <2> QED BY <2>1
<1>9. Step(it)
    <2> HIDE DEF Step
    <2> QED BY <1>8
<1> HIDE DEF it
<1>10. Unfolds(it, V, b, h, n)
    <2>1. it[{}] = b
        BY <1>9
    <2>2. ASSUME NEW t \in SUBSET (1..n), t # {}, it[t \ {Max(t)}] \in V
          PROVE  it[t] = h[<<it[t \ {Max(t)}], Max(t)>>]
        <3>1. it[t] = After(it[t \ {Max(t)}], groups[Max(t)])
            BY <1>9, <2>2
        <3> QED BY <1>5, <1>7, <2>2, <3>1
    <2> QED BY <2>1, <2>2 DEF Unfolds
<1>11. PICK P : FoldsOf(P, it, V, b, h, n)
    BY <1>1, <1>3, <1>5, <1>10, FoldPrefixes
<1>12. /\ \A k \in 0..n : P[k] \in V
       /\ P[0] = b /\ P[n] = it[1..n]
       /\ \A k \in 1..n : P[k] = After(P[k - 1], groups[k])
    <2>1. \A k \in 0..n : P[k] \in V
        BY <1>11 DEF FoldsOf
    <2>2. ASSUME NEW k \in 1..n PROVE P[k] = After(P[k - 1], groups[k])
        <3>1. k - 1 \in 0..n
            BY <1>1
        <3> QED BY <1>5, <1>11, <2>1, <3>1 DEF FoldsOf
    <2> QED BY <1>11, <2>1, <2>2 DEF FoldsOf
<1>13. /\ L[0] = 0 /\ \A k \in 0..n : L[k] \in Nat
       /\ \A k \in 1..n : L[k] = L[k - 1] + Len(groups[k].results)
    <2> DEFINE M == [k \in 1..n |-> Len(ResultsOf(groups)[k])]
    <2>1. Adjoin(L, M, n)
        BY ResultsOfGroups DEF Places, n
    <2>2. \A k \in 1..n : M[k] = Len(groups[k].results)
        BY ResultsOfGroups DEF n
    <2> HIDE DEF M
    <2> QED BY <2>1, <2>2 DEF Adjoin
<1> DEFINE T == {k \in 0..n : P[k].next = L[k] + 1 /\ ToSet(P[k].ranges) = RangesOf(groups, L, k)}
<1>14. 0 \in T
    <2>1. P[0].next = L[0] + 1
        BY <1>12, <1>13 DEF b
    <2>2. ToSet(P[0].ranges) = {}
        BY <1>12 DEF b, ToSet
    <2>3. RangesOf(groups, L, 0) = {}
        BY DEF RangesOf
    <2>4. 0 \in 0..n /\ ToSet(P[0].ranges) = RangesOf(groups, L, 0)
        BY <1>1, <2>2, <2>3
    <2> HIDE DEF Numbered, Step
    <2> QED BY <2>1, <2>4
<1>15. ASSUME NEW k \in 1..n, k - 1 \in T PROVE k \in T
    <2> DEFINE p == P[k - 1]
               g == groups[k]
               r == [group |-> g, first |-> p.next]
    <2>1. /\ k \in 0..n /\ k - 1 \in 0..n
          /\ p.next = L[k - 1] + 1 /\ ToSet(p.ranges) = RangesOf(groups, L, k - 1)
          /\ P[k] = After(p, g) /\ p.next \in Nat /\ p.ranges \in Seq(Numbered)
          /\ g \in Groups /\ L[k] = L[k - 1] + Len(g.results)
          /\ Len(g.results) \in Nat /\ L[k - 1] \in Nat
        <3>1. k \in 0..n /\ k - 1 \in 0..n
            BY <1>1
        <3>2. p.next = L[k - 1] + 1 /\ ToSet(p.ranges) = RangesOf(groups, L, k - 1)
            BY <1>15
        <3>3. P[k] = After(p, g) /\ p \in V
            BY <1>12, <3>1
        <3>4. p.next \in Nat /\ p.ranges \in Seq(Numbered)
            <4> HIDE DEF p, Numbered
            <4> QED BY <3>3 DEF V
        <3>5. g \in Groups /\ Len(g.results) \in Nat
            BY <1>1
        <3>6. L[k] = L[k - 1] + Len(g.results) /\ L[k - 1] \in Nat
            BY <1>13, <3>1
        <3> HIDE DEF p, g, Numbered
        <3> QED BY <3>1, <3>2, <3>3, <3>4, <3>5, <3>6
    <2>2. \A i \in 1..k : i = k \/ i \in 1..k - 1
        BY <1>1
    <2>3. \A i \in 1..k - 1 : i \in 1..k
        BY <1>1
    <2> HIDE DEF p, Numbered
    <2>4. CASE g.results = <<>>
        <3>1. P[k] = p /\ Len(g.results) = 0
            BY <2>1, <2>4 DEF After
        <3>2. RangesOf(groups, L, k) = RangesOf(groups, L, k - 1)
            BY <2>2, <2>3, <2>4 DEF RangesOf
        <3> QED BY <2>1, <3>1, <3>2
    <2>5. CASE g.results # <<>>
        <3>1. P[k].next = p.next + Len(g.results) /\ P[k].ranges = Append(p.ranges, r)
            BY <2>1, <2>5 DEF After
        <3>2. r \in Numbered
            BY <2>1 DEF Numbered
        <3>3. ToSet(P[k].ranges) = ToSet(p.ranges) \cup {r}
            BY <2>1, <3>1, <3>2, ToSetOfAppend
        <3>4. r = [group |-> groups[k], first |-> L[k - 1] + 1]
            BY <2>1
        <3>5. RangesOf(groups, L, k) = RangesOf(groups, L, k - 1) \cup {r}
            <4> DEFINE R(j) == [group |-> groups[j], first |-> L[j - 1] + 1]
                       I(m) == {i \in 1..m : groups[i].results # <<>>}
            <4>1. I(k) = I(k - 1) \cup {k}
                BY <2>2, <2>3, <2>5
            <4>2. r = R(k)
                BY <3>4
            <4>3. \A m : RangesOf(groups, L, m) = {R(j) : j \in I(m)}
                BY DEF RangesOf
            <4> HIDE DEF R, I, r
            <4> QED BY <4>1, <4>2, <4>3
        <3>6. P[k].next = L[k] + 1
            <4> HIDE DEF g, T
            <4> QED BY <2>1, <3>1
        <3> QED BY <2>1, <3>3, <3>5, <3>6
    <2> QED BY <2>4, <2>5
<1>16. n \in T
    <2>1. 0..n \subseteq T
        <3> HIDE DEF T
        <3> QED BY <1>1, <1>14, <1>15, SetInduction
    <2>2. n \in 0..n
        BY <1>1
    <2> HIDE DEF T
    <2> QED BY <2>1, <2>2
<1> QED
    BY <1>2, <1>12, <1>16 DEF n

\* The block of the i-th result of group k.
BlockAt(groups, L, k, i) ==
    [n |-> L[k - 1] + i, channel |-> groups[k].channel, chunk |-> groups[k].results[i]]

\* build_context_blocks: the blocks are the results of the groups, in their places.
LEMMA BlocksAre ==
    ASSUME NEW groups \in Seq(Groups), NEW L, NEW c, Places(ResultsOf(groups), L, c)
    PROVE  \A b : b \in Blocks(groups) <=>
                \E k \in 1..Len(groups) : \E i \in 1..Len(groups[k].results) : b = BlockAt(groups, L, k, i)
<1>1. /\ Len(groups) \in Nat /\ DOMAIN groups = 1..Len(groups)
      /\ \A k \in 1..Len(groups) : /\ groups[k] \in Groups /\ k - 1 \in 0..Len(groups)
                                   /\ DOMAIN groups[k].results = 1..Len(groups[k].results)
    BY ResultsOfGroups, GroupIs
<1>2. \A k \in 1..Len(groups) : L[k - 1] \in Nat
    BY <1>1, ResultsOfGroups DEF Places, Adjoin
<1>3. \A k \in 1..Len(groups) : \A i \in 1..Len(groups[k].results) :
        (L[k - 1] + 1) + i - 1 = L[k - 1] + i /\ groups[k].results # <<>>
    BY <1>1, <1>2
<1>4. ToSet(GroupRanges(groups)) = RangesOf(groups, L, Len(groups))
    BY RangesAre
<1> DEFINE Of(r) == {[n |-> r.first + i - 1, channel |-> r.group.channel, chunk |-> r.group.results[i]] :
                        i \in DOMAIN r.group.results}
<1>5. Blocks(groups) = UNION {Of(r) : r \in RangesOf(groups, L, Len(groups))}
    BY <1>4 DEF Blocks
<1>6. ASSUME NEW b \in Blocks(groups)
      PROVE  \E k \in 1..Len(groups) : \E i \in 1..Len(groups[k].results) : b = BlockAt(groups, L, k, i)
    <2>1. PICK r \in RangesOf(groups, L, Len(groups)) : b \in Of(r)
        <3> HIDE DEF Of
        <3> QED BY <1>5
    <2>2. PICK k \in 1..Len(groups) : r = [group |-> groups[k], first |-> L[k - 1] + 1]
        BY DEF RangesOf
    <2>3. r.group = groups[k] /\ r.first = L[k - 1] + 1
        BY <2>2
    <2>4. PICK i \in 1..Len(groups[k].results) :
            b = [n |-> r.first + i - 1, channel |-> groups[k].channel, chunk |-> groups[k].results[i]]
        BY <1>1, <2>1, <2>3
    <2>5. r.first + i - 1 = L[k - 1] + i
        BY <1>3, <2>3
    <2> QED BY <2>4, <2>5 DEF BlockAt
<1>7. ASSUME NEW k \in 1..Len(groups), NEW i \in 1..Len(groups[k].results)
      PROVE  BlockAt(groups, L, k, i) \in Blocks(groups)
    <2> DEFINE r == [group |-> groups[k], first |-> L[k - 1] + 1]
    <2>1. r \in RangesOf(groups, L, Len(groups))
        BY <1>3 DEF RangesOf
    <2>2. r.group = groups[k] /\ r.first = L[k - 1] + 1 /\ r.first + i - 1 = L[k - 1] + i
        BY <1>3
    <2> HIDE DEF r
    <2>3. BlockAt(groups, L, k, i) \in Of(r)
        BY <1>1, <2>2 DEF BlockAt
    <2> HIDE DEF Of
    <2> QED BY <1>5, <2>1, <2>3
<1> QED
    BY <1>6, <1>7

\* build_system_prompt: the voice's numbers are the places of its own groups.
LEMMA VoiceNumbersAre ==
    ASSUME NEW groups \in Seq(Groups), NEW L, NEW c, Places(ResultsOf(groups), L, c), NEW voice
    PROVE  \A p : p \in VoiceNumbers(groups, voice) <=>
                \E k \in 1..Len(groups) : \E i \in 1..Len(groups[k].results) :
                    groups[k].channel = voice /\ p = L[k - 1] + i
<1>1. /\ Len(groups) \in Nat /\ DOMAIN groups = 1..Len(groups)
      /\ \A k \in 1..Len(groups) : /\ groups[k] \in Groups /\ k - 1 \in 0..Len(groups)
                                   /\ Len(groups[k].results) \in Nat
    BY ResultsOfGroups, GroupIs
<1>2. \A k \in 1..Len(groups) : L[k - 1] \in Nat
    BY <1>1, ResultsOfGroups DEF Places, Adjoin
<1>4. ToSet(GroupRanges(groups)) = RangesOf(groups, L, Len(groups))
    BY RangesAre
<1> DEFINE Spoken == {q \in RangesOf(groups, L, Len(groups)) : q.group.channel = voice}
           Of(r) == r.first..r.first + Len(r.group.results) - 1
<1>5. VoiceNumbers(groups, voice) = UNION {Of(r) : r \in Spoken}
    BY <1>4 DEF VoiceNumbers
<1>6. ASSUME NEW p \in VoiceNumbers(groups, voice)
      PROVE  \E k \in 1..Len(groups) : \E i \in 1..Len(groups[k].results) :
                groups[k].channel = voice /\ p = L[k - 1] + i
    <2>1. PICK r \in Spoken : p \in Of(r)
        <3> HIDE DEF Of, Spoken
        <3> QED BY <1>5
    <2>2. PICK k \in 1..Len(groups) : r = [group |-> groups[k], first |-> L[k - 1] + 1]
        BY DEF RangesOf
    <2>3. r.group = groups[k] /\ r.first = L[k - 1] + 1 /\ groups[k].channel = voice
        BY <2>1, <2>2
    <2> DEFINE a == L[k - 1]
               m == Len(groups[k].results)
    <2>4. a \in Nat /\ m \in Nat /\ p \in a + 1..a + 1 + m - 1
        BY <1>1, <1>2, <2>1, <2>3
    <2> HIDE DEF a, m
    <2>5. p - a \in 1..m /\ p = a + (p - a)
        BY <2>4
    <2> QED BY <2>3, <2>5 DEF a, m
<1>7. ASSUME NEW k \in 1..Len(groups), NEW i \in 1..Len(groups[k].results), groups[k].channel = voice
      PROVE  L[k - 1] + i \in VoiceNumbers(groups, voice)
    <2> DEFINE r == [group |-> groups[k], first |-> L[k - 1] + 1]
    <2>1. groups[k].results # <<>>
        BY <1>1
    <2>2. r \in Spoken
        BY <1>7, <2>1 DEF RangesOf
    <2>3. r.group = groups[k] /\ r.first = L[k - 1] + 1
        OBVIOUS
    <2> HIDE DEF r
    <2> DEFINE a == L[k - 1]
               m == Len(groups[k].results)
    <2>4. a \in Nat /\ m \in Nat /\ i \in 1..m
        BY <1>1, <1>2
    <2> HIDE DEF a, m
    <2>5. a + i \in a + 1..a + 1 + m - 1
        BY <2>4
    <2>6. a + i \in Of(r)
        BY <2>3, <2>5 DEF a, m
    <2> HIDE DEF Of, Spoken
    <2> QED BY <1>5, <2>2, <2>6 DEF a
<1> QED
    BY <1>6, <1>7

\* A context is numbered as its blocks are.
LEMMA ContextIsNumbered ==
    ASSUME NEW groups \in Seq(Groups)
    PROVE  LET context == FlattenContext(groups) IN
           /\ DOMAIN context = 1..Cardinality(Blocks(groups)) /\ Cardinality(Blocks(groups)) \in Nat
           /\ \A b \in Blocks(groups) :
                /\ b.n \in DOMAIN context /\ context[b.n] = b.chunk
                /\ b.chunk \in Chunks /\ b.chunk[1] = b.channel
                /\ \A voice : b.n \in VoiceNumbers(groups, voice) <=> b.channel = voice
<1> DEFINE context == FlattenContext(groups)
           seqs == ResultsOf(groups)
           n == Len(groups)
<1>1. /\ seqs \in Seq(Seq(Chunks)) /\ Len(seqs) = n /\ n \in Nat
      /\ \A k \in 1..n : groups[k] \in Groups /\ seqs[k] = groups[k].results
    BY ResultsOfGroups
<1>2. context = FlattenSeq(seqs)
    BY DEF FlattenContext, ResultsOf
<1> HIDE DEF context, seqs
<1>3. PICK L : Places(seqs, L, context)
    BY <1>1, <1>2, FlattenPlaces
<1> DEFINE M == [k \in 1..n |-> Len(seqs[k])]
           card == L[n]
<1>4. Adjoin(L, M, n) /\ DOMAIN context = 1..card
    BY <1>1, <1>3 DEF Places
<1>5. \A k \in 1..n : \A i \in 1..M[k] : context[L[k - 1] + i] = groups[k].results[i]
    BY <1>1, <1>3 DEF Places
<1>6. \A k \in 1..n : M[k] = Len(groups[k].results)
    BY <1>1
<1>7. card \in Nat
    BY <1>1, <1>4 DEF Adjoin
<1> HIDE DEF M, card
<1>8. /\ \A k \in 1..n : \A i \in 1..M[k] : L[k - 1] + i \in 1..card
      /\ \A p \in 1..card : \E k \in 1..n : \E i \in 1..M[k] : p = L[k - 1] + i
      /\ \A j, k \in 1..n : \A i \in 1..M[j] : \A m \in 1..M[k] :
            L[j - 1] + i = L[k - 1] + m => j = k /\ i = m
    <2>1. Tiles(L, M, n)
        BY <1>1, <1>4, IntervalsPartition
    <2> QED BY <2>1 DEF Tiles, card
<1>9. \A b : b \in Blocks(groups) <=> \E k \in 1..n : \E i \in 1..M[k] : b = BlockAt(groups, L, k, i)
    BY <1>3, <1>6, BlocksAre DEF seqs
<1>10. \A voice, p : p \in VoiceNumbers(groups, voice) <=>
            \E k \in 1..n : \E i \in 1..M[k] : groups[k].channel = voice /\ p = L[k - 1] + i
    BY <1>3, <1>6, VoiceNumbersAre DEF seqs
<1>11. ASSUME NEW b \in Blocks(groups)
       PROVE  /\ b.n \in DOMAIN context /\ context[b.n] = b.chunk
              /\ b.chunk \in Chunks /\ b.chunk[1] = b.channel
              /\ \A voice : b.n \in VoiceNumbers(groups, voice) <=> b.channel = voice
    <2>1. PICK k \in 1..n : \E i \in 1..M[k] : b = BlockAt(groups, L, k, i)
        BY <1>9
    <2>1a. PICK i \in 1..M[k] : b = BlockAt(groups, L, k, i)
        BY <2>1
    <2>2. b.n = L[k - 1] + i /\ b.channel = groups[k].channel /\ b.chunk = groups[k].results[i]
        BY <2>1a DEF BlockAt
    <2>3. b.n \in DOMAIN context /\ context[b.n] = b.chunk
        BY <1>4, <1>5, <1>8, <2>2
    <2>4. b.chunk \in Chunks /\ b.chunk[1] = b.channel
        BY <1>1, <1>6, <2>2, GroupIs
    <2>5. ASSUME NEW voice
          PROVE  b.n \in VoiceNumbers(groups, voice) <=> b.channel = voice
        <3>1. ASSUME b.n \in VoiceNumbers(groups, voice)
              PROVE  b.channel = voice
            <4>1. PICK j \in 1..n : \E m \in 1..M[j] : groups[j].channel = voice /\ b.n = L[j - 1] + m
                BY <1>10, <3>1
            <4>1a. PICK m \in 1..M[j] : groups[j].channel = voice /\ b.n = L[j - 1] + m
                BY <4>1
            <4>2. j = k
                BY <1>8, <2>2, <4>1a
            <4> QED BY <2>2, <4>1a, <4>2
        <3>2. ASSUME b.channel = voice
              PROVE  b.n \in VoiceNumbers(groups, voice)
            <4>1. L[k - 1] + i \in VoiceNumbers(groups, voice)
                BY <1>10, <2>2, <3>2
            <4> QED BY <2>2, <4>1
        <3> QED BY <3>1, <3>2
    <2> QED BY <2>3, <2>4, <2>5
<1>12. Cardinality(Blocks(groups)) = card
    <2> DEFINE B == Blocks(groups)
               f == [p \in 1..card |-> CHOOSE b \in B : b.n = p]
    <2>1. \A p \in 1..card : f[p] \in B /\ f[p].n = p
        <3> SUFFICES ASSUME NEW p \in 1..card PROVE \E b \in B : b.n = p
            OBVIOUS
        <3>1. PICK k \in 1..n : \E i \in 1..M[k] : p = L[k - 1] + i
            BY <1>8
        <3>1a. PICK i \in 1..M[k] : p = L[k - 1] + i
            BY <3>1
        <3>2. BlockAt(groups, L, k, i) \in B /\ BlockAt(groups, L, k, i).n = p
            BY <1>9, <3>1a DEF BlockAt
        <3> QED BY <3>2
    <2>2. \A b \in B : b.n \in 1..card
        BY <1>4, <1>11
    <2>3. ASSUME NEW b \in B, NEW d \in B, b.n = d.n
          PROVE  b = d
        <3>1. PICK k \in 1..n : \E i \in 1..M[k] : b = BlockAt(groups, L, k, i)
            BY <1>9
        <3>1a. PICK i \in 1..M[k] : b = BlockAt(groups, L, k, i)
            BY <3>1
        <3>2. PICK j \in 1..n : \E m \in 1..M[j] : d = BlockAt(groups, L, j, m)
            BY <1>9
        <3>2a. PICK m \in 1..M[j] : d = BlockAt(groups, L, j, m)
            BY <3>2
        <3>3. b.n = L[k - 1] + i /\ d.n = L[j - 1] + m
            BY <3>1a, <3>2a DEF BlockAt
        <3>4. k = j /\ i = m
            <4>1. L[k - 1] + i = L[j - 1] + m
                BY <2>3, <3>3
            <4> HIDE DEF f, B
            <4> QED BY <1>8, <4>1
        <3> QED BY <3>1a, <3>2a, <3>4
    <2>4. f \in Bijection(1..card, B)
        <3>1. f \in [1..card -> B]
            <4>1. f = [p \in 1..card |-> f[p]]
                OBVIOUS
            <4> HIDE DEF f, B
            <4> QED BY <2>1, <4>1
        <3> HIDE DEF f, B
        <3>2. IsInjective(f)
            BY <2>1, <3>1 DEF IsInjective
        <3>3. \A b \in B : \E p \in 1..card : f[p] = b
            BY <2>1, <2>2, <2>3
        <3> QED BY <3>1, <3>2, <3>3 DEF Bijection, Injection, Surjection
    <2>5. ExistsBijection(1..card, B)
        BY <2>4 DEF ExistsBijection
    <2> QED BY <1>7, <2>5, FS_CountingElements
<1> QED
    BY <1>4, <1>7, <1>11, <1>12 DEF context

-----------------------------------------------------------------------------
\* The turn: the inductive invariant of the chat, step by step.

\* What one query may return of one source.
RankingsOf(c) == {r \in Seq({c} \X Nat) : IsInjective(r) /\ Len(r) <= RetrievalCandidates}

\* The types of a turn.
Marks == [n : Nat, meant : Chunks \cup {Nothing}]
Messages == [role : {"user", "assistant"}, marks : SUBSET Marks]
Turns == [pc : {"idle", "search", "lexical", "fuse", "probe", "answer", "answered"},
          sources : Seq(Channels), voice : Channels \cup {Nothing}, groups : Seq(Groups),
          dense : Seq(Chunks), lexical : Seq(Chunks), candidates : SUBSET Channels]

\* A turn has a source left to search until it probes; the rankings of its two
\* queries are of that source.
TurnShape ==
    /\ library \in [Channels -> Nat]
    /\ turn \in Turns
    /\ turn.pc \in {"search", "lexical", "fuse"} => Len(turn.groups) < Len(turn.sources)
    /\ turn.pc \in {"lexical", "fuse"} => turn.dense \in RankingsOf(Searched)
    /\ turn.pc = "fuse" => turn.lexical \in RankingsOf(Searched)
    /\ messages \in Seq(Messages)

\* The first k of a ranking are a ranking.
LEMMA TakeIs ==
    ASSUME NEW S, NEW s \in Seq(S), NEW k \in Nat
    PROVE  /\ Take(s, k) \in Seq(S) /\ Len(Take(s, k)) <= k
           /\ IsInjective(s) => IsInjective(Take(s, k))
<1> DEFINE m == IF k < Len(s) THEN k ELSE Len(s)
<1>1. m \in Nat /\ m <= k /\ m \in 1 - 1..Len(s) /\ m - 1 + 1 = m
    OBVIOUS
<1>2. Take(s, k) = SubSeq(s, 1, m)
    BY DEF Take
<1> HIDE DEF m
<1>3. /\ Take(s, k) \in Seq(S) /\ Len(Take(s, k)) = m
      /\ \A i \in 1..m : Take(s, k)[i] = s[i]
    <2>1. /\ SubSeq(s, 1, m) \in Seq(S) /\ Len(SubSeq(s, 1, m)) = m - 1 + 1
          /\ \A i \in 1..m - 1 + 1 : SubSeq(s, 1, m)[i] = s[1 - 1 + i]
        BY <1>1, SubSeqIs
    <2>2. \A i \in 1..m : 1 - 1 + i = i
        OBVIOUS
    <2> QED BY <1>1, <1>2, <2>1, <2>2
<1>4. ASSUME IsInjective(s) PROVE IsInjective(Take(s, k))
    <2>1. DOMAIN Take(s, k) = 1..m /\ DOMAIN s = 1..Len(s)
        BY <1>3, SeqIsFun
    <2>2. 1..m \subseteq 1..Len(s)
        BY <1>1
    <2> QED BY <1>3, <1>4, <2>1, <2>2 DEF IsInjective
<1> QED
    BY <1>1, <1>3, <1>4

\* A source has finitely many chunks, all its own.
LEMMA ChunksOfSource ==
    ASSUME library \in [Channels -> Nat], NEW c \in Channels
    PROVE  IsFiniteSet(ChunksOf(c)) /\ ChunksOf(c) \subseteq {c} \X Nat
<1> DEFINE n == library[c]
           f == [i \in 1..n |-> <<c, i>>]
<1>1. n \in Nat
    OBVIOUS
<1>2. f \in Surjection(1..n, ChunksOf(c))
    BY DEF Surjection, ChunksOf
<1>3. IsFiniteSet(1..n)
    BY <1>1, FS_Interval
<1>4. IsFiniteSet(ChunksOf(c))
    <2> HIDE DEF f
    <2> QED BY <1>2, <1>3, FS_Surjection
<1> QED
    BY <1>1, <1>4 DEF ChunksOf

\* A sequence of some is a sequence of more.
LEMMA SeqOfSubset ==
    ASSUME NEW S, NEW T, S \subseteq T, NEW s \in Seq(S)
    PROVE  s \in Seq(T)
OBVIOUS

\* A share of a number is a number.
LEMMA QuotientIsNat ==
    ASSUME NEW a \in Nat, NEW d \in Nat \ {0}
    PROVE  a \div d \in Nat
OBVIOUS

\* While groups are missing there is a source to search.
LEMMA SearchedIsSource ==
    ASSUME TurnShape, Len(turn.groups) < Len(turn.sources)
    PROVE  Searched \in Channels /\ Len(turn.groups) \in Nat /\ Len(turn.sources) \in Nat \ {0}
<1>1. turn.sources \in Seq(Channels) /\ turn.groups \in Seq(Groups)
    BY DEF TurnShape, Turns
<1>2. Len(turn.groups) \in Nat /\ Len(turn.sources) \in Nat
    BY <1>1, SeqIsFun
<1>3. Len(turn.groups) + 1 \in 1..Len(turn.sources)
    BY <1>2
<1> QED
    BY <1>1, <1>2, <1>3, SeqIsFun DEF Searched

\* What a source answered becomes a group, and the turn goes on.
LEMMA SourceIsGrouped ==
    ASSUME TurnShape, Len(turn.groups) < Len(turn.sources),
           NEW results \in Seq({Searched} \X Nat),
           turn' = Grouped(results), UNCHANGED <<library, messages>>
    PROVE  TurnShape' /\ turn'.pc \in {"search", "probe"}
<1> DEFINE g == [channel |-> Searched, results |-> Take(results, PerSource)]
<1>1. Searched \in Channels /\ Len(turn.groups) \in Nat /\ Len(turn.sources) \in Nat \ {0}
    BY SearchedIsSource
<1>2. PerSource \in Nat
    <2>1. TopK \in Nat /\ MinBlocksPerSource \in Nat
        BY NumberAssumption
    <2>2. TopK \div Len(turn.sources) \in Nat
        BY <1>1, <2>1, QuotientIsNat
    <2> QED BY <2>1, <2>2 DEF PerSource
<1>3. g \in Groups
    <2>1. Take(results, PerSource) \in Seq({Searched} \X Nat)
        BY <1>2, TakeIs
    <2>2. g \in [channel : {Searched}, results : Seq({Searched} \X Nat)]
        BY <2>1
    <2> HIDE DEF g
    <2> QED BY <1>1, <2>2 DEF Groups
<1> DEFINE groups == Append(turn.groups, g)
           pc == IF Len(turn.groups) + 1 = Len(turn.sources) THEN "probe" ELSE "search"
<1>4. turn' = [turn EXCEPT !.groups = groups, !.dense = <<>>, !.lexical = <<>>, !.pc = pc]
    BY DEF Grouped
<1>5. turn \in Turns
    BY DEF TurnShape
<1>6. groups \in Seq(Groups) /\ Len(groups) = Len(turn.groups) + 1
    <2>1. turn.groups \in Seq(Groups)
        BY <1>5 DEF Turns
    <2> HIDE DEF g
    <2> QED BY <1>3, <2>1, AppendIs
<1>7. pc \in {"search", "probe"} /\ (pc = "search" => Len(groups) < Len(turn.sources))
    BY <1>1, <1>6
<1> HIDE DEF groups, pc
<1>8. /\ turn' \in Turns /\ turn'.pc = pc
      /\ turn'.groups = groups /\ turn'.sources = turn.sources
    <2>1. <<>> \in Seq(Chunks)
        OBVIOUS
    <2>2. pc \in {"search", "probe"} /\ groups \in Seq(Groups)
        BY <1>6, <1>7
    <2> HIDE DEF g
    <2> QED BY ONLY <1>4, <1>5, <2>1, <2>2 DEF Turns
<1> QED
    BY <1>7, <1>8 DEF TurnShape

\* A new turn has sources and no group (_prepare_turn).
LEMMA TurnOpens ==
    ASSUME TurnShape, OpenTurn
    PROVE  TurnShape' /\ turn'.pc = "search"
<1>1. PICK k \in 1..MaxSources : \E S \in kSubset(k, Channels) : \E voice \in S \cup {Nothing} :
        \E others \in SetToSeqs(S \ {voice}) :
            turn' = [NoTurn EXCEPT
                !.pc = "search", !.voice = voice,
                !.sources = IF voice = Nothing THEN others ELSE <<voice>> \o others]
    BY DEF OpenTurn
<1>2. PICK S \in kSubset(k, Channels) : \E voice \in S \cup {Nothing} :
        \E others \in SetToSeqs(S \ {voice}) :
            turn' = [NoTurn EXCEPT
                !.pc = "search", !.voice = voice,
                !.sources = IF voice = Nothing THEN others ELSE <<voice>> \o others]
    BY <1>1
<1>3. PICK voice \in S \cup {Nothing} : \E others \in SetToSeqs(S \ {voice}) :
            turn' = [NoTurn EXCEPT
                !.pc = "search", !.voice = voice,
                !.sources = IF voice = Nothing THEN others ELSE <<voice>> \o others]
    BY <1>2
<1>4. PICK others \in SetToSeqs(S \ {voice}) :
            turn' = [NoTurn EXCEPT
                !.pc = "search", !.voice = voice,
                !.sources = IF voice = Nothing THEN others ELSE <<voice>> \o others]
    BY <1>3
<1> DEFINE sources == IF voice = Nothing THEN others ELSE <<voice>> \o others
<1>5. S \in SUBSET Channels /\ IsFiniteSet(S) /\ Cardinality(S) = k /\ k \in Nat /\ k >= 1
    <2>1. S \in SUBSET Channels /\ Cardinality(S) = k
        BY DEF kSubset
    <2>2. k \in Nat /\ k >= 1
        BY NumberAssumption
    <2> QED BY <2>1, <2>2, ChannelAssumption, FS_Subset
<1>6. IsFiniteSet(S \ {voice})
    BY <1>5, FS_RemoveElement
<1>7. others \in Seq(Channels) /\ Len(others) = Cardinality(S \ {voice})
    <2>1. others \in Seq(S \ {voice}) /\ Len(others) = Cardinality(S \ {voice})
        BY <1>6, PermutationIsOnto
    <2>2. S \ {voice} \subseteq Channels
        BY <1>5
    <2> QED BY <2>1, <2>2, SeqOfSubset
<1>8. sources \in Seq(Channels) /\ Len(sources) > 0
    <2>1. CASE voice = Nothing
        <3>1. Nothing \notin S
            BY <1>5, ChannelAssumption
        <3>2. S \ {voice} = S
            BY <2>1, <3>1
        <3>3. Len(others) = k /\ sources = others
            BY <1>5, <1>7, <2>1, <3>2
        <3> HIDE DEF sources
        <3> QED BY <1>5, <1>7, <3>3
    <2>2. CASE voice # Nothing
        <3>1. voice \in Channels
            BY <1>5, <2>2
        <3>2. <<voice>> \in Seq(Channels) /\ Len(<<voice>>) = 1
            BY <3>1
        <3>3. /\ <<voice>> \o others \in Seq(Channels) /\ Len(others) \in Nat
              /\ Len(<<voice>> \o others) = 1 + Len(others)
            BY <1>7, <3>2, ConcatIs
        <3> QED BY <2>2, <3>3
    <2> QED BY <2>1, <2>2
<1> HIDE DEF sources
<1>9. turn' = [pc |-> "search", sources |-> sources, voice |-> voice, groups |-> <<>>,
               dense |-> <<>>, lexical |-> <<>>, candidates |-> {}]
    BY <1>4 DEF sources, NoTurn
<1>10. turn' \in Turns
    <2>1. voice \in Channels \cup {Nothing}
        BY <1>5
    <2> QED BY <1>8, <1>9, <2>1 DEF Turns
<1>11. turn'.pc = "search" /\ turn'.groups = <<>> /\ turn'.sources = sources
    BY <1>9
<1>12. Len(turn'.groups) < Len(turn'.sources)
    BY <1>8, <1>11
<1> QED
    BY <1>10, <1>11, <1>12 DEF OpenTurn, TurnShape

\* The dense query ranks chunks of the source it searches.
LEMMA SourceIsAsked ==
    ASSUME TurnShape, DenseQuery
    PROVE  TurnShape' /\ turn'.pc \in {"search", "probe", "lexical"}
<1>1. turn.pc = "search" /\ UNCHANGED <<library, messages>> /\ Len(turn.groups) < Len(turn.sources)
    BY DEF DenseQuery, TurnShape
<1>2. PICK dense \in SetToSeqs(ChunksOf(Searched)) :
        \/ turn' = Grouped(dense)
        \/ turn' = [turn EXCEPT !.dense = Take(dense, RetrievalCandidates), !.pc = "lexical"]
    BY DEF DenseQuery
<1>3. Searched \in Channels
    BY <1>1, SearchedIsSource
<1>4. IsFiniteSet(ChunksOf(Searched)) /\ ChunksOf(Searched) \subseteq {Searched} \X Nat
    BY <1>3, ChunksOfSource DEF TurnShape
<1>5. dense \in Seq({Searched} \X Nat) /\ IsInjective(dense)
    BY <1>4, PermutationIsOnto, SeqOfSubset
<1>6. CASE turn' = Grouped(dense)
    BY <1>1, <1>5, <1>6, SourceIsGrouped
<1>7. CASE turn' = [turn EXCEPT !.dense = Take(dense, RetrievalCandidates), !.pc = "lexical"]
    <2> DEFINE s == Take(dense, RetrievalCandidates)
    <2>1. s \in RankingsOf(Searched)
        BY <1>5, TakeIs, NumberAssumption DEF RankingsOf
    <2>2. s \in Seq(Chunks)
        <3>1. {Searched} \X Nat \subseteq Chunks
            BY <1>3 DEF Chunks
        <3> QED BY <2>1, <3>1, SeqOfSubset DEF RankingsOf
    <2> HIDE DEF s
    <2>3. /\ turn' \in Turns /\ turn'.pc = "lexical" /\ turn'.dense = s
          /\ turn'.groups = turn.groups /\ turn'.sources = turn.sources
        BY <1>7, <2>2 DEF s, TurnShape, Turns
    <2>4. Searched' = Searched
        BY <2>3 DEF Searched
    <2> QED BY <1>1, <2>1, <2>3, <2>4 DEF TurnShape, RankingsOf
<1> QED
    BY <1>2, <1>6, <1>7

\* So does the query by words.
LEMMA WordsAreAsked ==
    ASSUME TurnShape, LexicalQuery
    PROVE  TurnShape' /\ turn'.pc = "fuse"
<1>1. /\ turn.pc = "lexical" /\ UNCHANGED <<library, messages>> /\ Len(turn.groups) < Len(turn.sources)
      /\ turn.dense \in RankingsOf(Searched)
    BY DEF LexicalQuery, TurnShape
<1>2. PICK lexical \in Rankings(ChunksOf(Searched)) :
        turn' = [turn EXCEPT !.lexical = Take(lexical, RetrievalCandidates), !.pc = "fuse"]
    BY DEF LexicalQuery
<1>3. Searched \in Channels
    BY <1>1, SearchedIsSource
<1>4. IsFiniteSet(ChunksOf(Searched)) /\ ChunksOf(Searched) \subseteq {Searched} \X Nat
    BY <1>3, ChunksOfSource DEF TurnShape
<1>5. lexical \in Seq({Searched} \X Nat) /\ IsInjective(lexical)
    <2> DEFINE S == ChunksOf(Searched)
               n == Cardinality(S)
    <2>1. n \in Nat
        BY <1>4, FS_CardinalityType
    <2>2. lexical \in UNION {[1..m -> S] : m \in 0..n} /\ IsInjective(lexical)
        BY DEF Rankings, BoundedSeq, SeqOf
    <2> HIDE DEF n, S
    <2>3. PICK m \in 0..n : lexical \in [1..m -> S]
        BY <2>2
    <2>4. lexical \in Seq(S)
        BY <2>1, <2>3, FunIsSeq
    <2> QED BY <1>4, <2>2, <2>4, SeqOfSubset DEF S
<1> DEFINE s == Take(lexical, RetrievalCandidates)
<1>6. s \in RankingsOf(Searched)
    BY <1>5, TakeIs, NumberAssumption DEF RankingsOf
<1>7. s \in Seq(Chunks)
    <2>1. {Searched} \X Nat \subseteq Chunks
        BY <1>3 DEF Chunks
    <2> QED BY <1>6, <2>1, SeqOfSubset DEF RankingsOf
<1> HIDE DEF s
<1>8. /\ turn' \in Turns /\ turn'.pc = "fuse" /\ turn'.dense = turn.dense /\ turn'.lexical = s
      /\ turn'.groups = turn.groups /\ turn'.sources = turn.sources
    BY <1>2, <1>7 DEF s, TurnShape, Turns
<1>9. Searched' = Searched
    BY <1>8 DEF Searched
<1> QED
    BY <1>1, <1>6, <1>8, <1>9 DEF TurnShape, RankingsOf

\* The fused ranking is of the same source (PgVectorStore.search).
LEMMA RankingsAreFused ==
    ASSUME TurnShape, Fuse
    PROVE  TurnShape' /\ turn'.pc \in {"search", "probe"}
<1>1. /\ turn.pc = "fuse" /\ UNCHANGED <<library, messages>> /\ Len(turn.groups) < Len(turn.sources)
      /\ turn.dense \in RankingsOf(Searched) /\ turn.lexical \in RankingsOf(Searched)
      /\ turn' = Grouped(Fused(<<turn.dense, turn.lexical>>))
    BY DEF Fuse, TurnShape
<1> DEFINE l == turn.dense
           m == turn.lexical
           S == {Searched} \X Nat
           r == Fused(<<l, m>>)
<1>2. /\ l \in Seq(S) /\ m \in Seq(S)
      /\ Len(l) <= RetrievalCandidates /\ Len(m) <= RetrievalCandidates
    BY <1>1 DEF RankingsOf
<1> HIDE DEF l, m, S
<1>3. r \in Seq(ToSet(l) \cup ToSet(m))
    BY <1>2, FusedIsSorted
<1>4. ToSet(l) \cup ToSet(m) \subseteq S
    BY <1>2, SeqIsFun DEF ToSet
<1>5. r \in Seq(S)
    BY <1>3, <1>4, SeqOfSubset
<1> QED
    BY <1>1, <1>5, SourceIsGrouped DEF r, l, m, S

\* What the model may write: the marker of a block, or one beyond them all.
LEMMA VisibleIs ==
    ASSUME NEW mark \in Visible
    PROVE  \/ \E b \in Blocks(turn.groups) : mark = [n |-> b.n, meant |-> b.chunk]
           \/ mark = [n |-> Cardinality(Blocks(turn.groups)) + 1, meant |-> Nothing]
<1>1. ASSUME NEW m \in ToSet(SentHistory(messages)) PROVE m.marks = {}
    <2> DEFINE window == IF Len(messages) <= HistoryWindow THEN messages
                         ELSE SubSeq(messages, Len(messages) - HistoryWindow + 1, Len(messages))
               sent == SubSeq(window, SelectInSeq(window, LAMBDA k : k.role = "user"), Len(window))
               clean == [i \in DOMAIN sent |-> [role |-> sent[i].role, marks |-> {}]]
    <2>1. SentHistory(messages) = IF \E i \in DOMAIN window : window[i].role = "user" THEN clean ELSE <<>>
        BY DEF SentHistory
    <2> HIDE DEF window, sent
    <2>2. \A k \in ToSet(clean) : k.marks = {}
        BY DEF ToSet
    <2>3. ToSet(<<>>) = {}
        BY DEF ToSet
    <2> HIDE DEF clean
    <2> QED BY <2>1, <2>2, <2>3
<1> DEFINE Own == {[n |-> b.n, meant |-> b.chunk] : b \in Blocks(turn.groups)}
           Sent == {m.marks : m \in ToSet(SentHistory(messages))}
           Beyond == [n |-> Cardinality(Blocks(turn.groups)) + 1, meant |-> Nothing]
<1>2. Visible = Own \cup (UNION Sent) \cup {Beyond}
    BY DEF Visible
<1>3. \A k \in Sent : k = {}
    BY <1>1
<1>4. UNION Sent = {}
    <2> HIDE DEF Sent
    <2> QED BY <1>3
<1>5. mark \in Own \/ mark = Beyond
    <2> HIDE DEF Own, Sent, Beyond
    <2> QED BY <1>2, <1>4
<1> QED
    BY <1>5

\* The answer's receipts are the chunks its marks meant (parse_citations): marks of
\* earlier answers are gone from what was sent, and a number beyond the blocks is
\* dropped.
LEMMA TurnIsAnswered ==
    ASSUME TurnShape, Answer
    PROVE  TurnShape' /\ CitationHitsItsBlock'
<1> DEFINE groups == turn.groups
           context == FlattenContext(groups)
           card == Cardinality(Blocks(groups))
<1>1. PICK mark \in Visible : \E marks \in {{}, {mark}} :
        /\ messages' = messages \o <<Question, [role |-> "assistant", marks |-> marks]>>
        /\ receipts' = ParseCitations(marks, context)
    BY DEF Answer
<1>2. PICK marks \in {{}, {mark}} :
        /\ messages' = messages \o <<Question, [role |-> "assistant", marks |-> marks]>>
        /\ receipts' = ParseCitations(marks, context)
    BY <1>1
<1>3. /\ groups \in Seq(Groups) /\ turn \in Turns /\ messages \in Seq(Messages)
      /\ turn' = [turn EXCEPT !.pc = "answered"] /\ UNCHANGED library
    BY DEF Answer, TurnShape, Turns
<1>4. /\ DOMAIN context = 1..card /\ card \in Nat
      /\ \A b \in Blocks(groups) :
            /\ b.n \in DOMAIN context /\ context[b.n] = b.chunk
            /\ b.chunk \in Chunks /\ b.chunk[1] = b.channel
            /\ \A voice : b.n \in VoiceNumbers(groups, voice) <=> b.channel = voice
    BY <1>3, ContextIsNumbered
<1>5. \/ \E b \in Blocks(groups) : mark = [n |-> b.n, meant |-> b.chunk]
      \/ mark = [n |-> card + 1, meant |-> Nothing]
    BY VisibleIs
<1> HIDE DEF context, card
<1>6. mark \in Marks
    BY <1>4, <1>5 DEF Marks
<1> DEFINE answer == [role |-> "assistant", marks |-> marks]
<1>7. Question \in Messages /\ answer \in Messages
    BY <1>6 DEF Question, Messages
<1>8. messages' \in Seq(Messages) /\ Last(messages') = answer
    <2>1. <<Question, answer>> \in Seq(Messages) /\ Len(<<Question, answer>>) = 2
          /\ <<Question, answer>>[2] = answer
        BY <1>7
    <2> DEFINE s == <<Question, answer>>
               n == Len(messages)
    <2>2. /\ messages' = messages \o s /\ s \in Seq(Messages) /\ Len(s) = 2 /\ s[2] = answer
        BY <1>2, <2>1
    <2> HIDE DEF s, answer
    <2>6. /\ messages \o s \in Seq(Messages) /\ Len(messages \o s) = Len(messages) + Len(s)
          /\ Len(messages) \in Nat
          /\ \A i \in Len(messages) + 1..Len(messages) + Len(s) : (messages \o s)[i] = s[i - Len(messages)]
        BY <1>3, <2>2, ConcatIs
    <2>3. /\ messages \o s \in Seq(Messages) /\ Len(messages \o s) = n + 2 /\ n \in Nat
          /\ \A i \in n + 1..n + 2 : (messages \o s)[i] = s[i - n]
        BY <2>2, <2>6
    <2> HIDE DEF n
    <2>4. n + 2 \in n + 1..n + 2 /\ (n + 2) - n = 2
        BY <2>3
    <2>5. (messages \o s)[n + 2] = s[2]
        BY <2>3, <2>4
    <2> QED BY <2>2, <2>3, <2>5 DEF Last
<1>9. turn' \in Turns /\ turn'.pc = "answered" /\ turn'.groups = groups /\ turn'.voice = turn.voice
    BY <1>3 DEF Turns
<1>10. TurnShape'
    <2>1. library' \in [Channels -> Nat]
        BY <1>3 DEF TurnShape
    <2> QED BY <1>8, <1>9, <2>1 DEF TurnShape
<1>11. {[n |-> m.n, chunk |-> m.meant] : m \in {k \in marks : k.meant # Nothing}} = receipts'
    <2>1. receipts' = {[n |-> m.n, chunk |-> context[m.n]] : m \in {k \in marks : k.n \in DOMAIN context}}
        BY <1>2 DEF ParseCitations
    <2>2. CASE marks = {}
        BY <2>1, <2>2
    <2>3. CASE marks = {mark} /\ \E b \in Blocks(groups) : mark = [n |-> b.n, meant |-> b.chunk]
        <3>1. PICK b \in Blocks(groups) : mark = [n |-> b.n, meant |-> b.chunk]
            BY <2>3
        <3>2. mark.n \in DOMAIN context /\ context[mark.n] = mark.meant /\ mark.meant # Nothing
            BY <1>4, <3>1, ChannelAssumption DEF Chunks
        <3>3. {k \in marks : k.meant # Nothing} = {mark} /\ {k \in marks : k.n \in DOMAIN context} = {mark}
            BY <2>3, <3>2
        <3> QED BY <2>1, <3>2, <3>3
    <2>4. CASE marks = {mark} /\ mark = [n |-> card + 1, meant |-> Nothing]
        <3>1. mark.n \notin DOMAIN context /\ mark.meant = Nothing
            BY <1>4, <2>4
        <3>2. {k \in marks : k.meant # Nothing} = {} /\ {k \in marks : k.n \in DOMAIN context} = {}
            BY <2>4, <3>1
        <3> QED BY <2>1, <3>2
    <2> QED BY <1>2, <1>5, <2>2, <2>3, <2>4
<1>12. CitationHitsItsBlock'
    <2>1. Last(messages').marks = marks
        BY <1>8
    <2>2. \A b \in Blocks(groups) :
            /\ b.chunk[1] = b.channel
            /\ b.n \in VoiceNumbers(groups, turn.voice) <=> b.channel = turn.voice
        BY <1>4
    <2> HIDE DEF groups, answer
    <2> QED BY <1>9, <1>11, <2>1, <2>2 DEF CitationHitsItsBlock
<1> QED
    BY <1>10, <1>12

\* The probe of the other channels changes no group.
LEMMA TurnIsProbed ==
    ASSUME TurnShape, Probe
    PROVE  TurnShape' /\ turn'.pc = "answer"
<1>1. PICK found \in SUBSET {c \in Channels \ ToSet(turn.sources) : library[c] > 0} :
        turn' = [turn EXCEPT !.candidates = found, !.pc = "answer"]
    BY DEF Probe
<1>2. found \in SUBSET Channels
    OBVIOUS
<1>3. turn' \in Turns /\ turn'.pc = "answer"
    BY <1>1, <1>2 DEF TurnShape, Turns
<1> QED
    BY <1>3 DEF TurnShape, Probe

\* A turn that failed has no group left to cite.
LEMMA TurnFails ==
    ASSUME TurnShape, AnswerFails
    PROVE  TurnShape' /\ CitationHitsItsBlock'
<1>1. /\ turn' = [NoTurn EXCEPT !.pc = "answered"] /\ UNCHANGED library
      /\ messages' = Append(messages, Question) /\ messages \in Seq(Messages)
    BY DEF AnswerFails, TurnShape
<1>2. messages' \in Seq(Messages)
    <2>1. Question \in Messages
        BY DEF Question, Messages
    <2> QED BY <1>1, <2>1, AppendIs
<1>3. turn' \in Turns /\ turn'.pc = "answered" /\ turn'.groups = <<>>
    <2>1. turn' = [pc |-> "answered", sources |-> <<>>, voice |-> Nothing, groups |-> <<>>,
                   dense |-> <<>>, lexical |-> <<>>, candidates |-> {}]
        BY <1>1 DEF NoTurn
    <2>2. <<>> \in Seq(Channels) /\ <<>> \in Seq(Groups) /\ <<>> \in Seq(Chunks)
        OBVIOUS
    <2> QED BY <2>1, <2>2 DEF Turns
<1> QED
    BY <1>1, <1>2, <1>3 DEF TurnShape, CitationHitsItsBlock

\* The inductive invariant of the chat: FusionRewardsAgreement follows from the
\* shape of the turn alone.
GroundingInv == TurnShape /\ CitationHitsItsBlock

\* It holds at first.
LEMMA GroundingInit == Init => GroundingInv
<1> SUFFICES ASSUME Init PROVE GroundingInv
    OBVIOUS
<1>1. turn = NoTurn /\ messages = <<>> /\ library \in [Channels -> Nat]
    BY ChannelAssumption DEF Init
<1>2. turn \in Turns /\ turn.pc = "idle"
    BY <1>1 DEF NoTurn, Turns
<1>3. messages \in Seq(Messages)
    BY <1>1
<1> QED
    BY <1>1, <1>2, <1>3 DEF GroundingInv, TurnShape, CitationHitsItsBlock

\* Only an answered turn has receipts to speak of.
LEMMA NotAnswered ==
    ASSUME TurnShape', turn'.pc # "answered"
    PROVE  GroundingInv'
BY DEF GroundingInv, CitationHitsItsBlock

\* Ingest, which may load a video between two queries, keeps it.
LEMMA TurnStutters ==
    ASSUME GroundingInv, UNCHANGED turnVars, library' \in [Channels -> Nat]
    PROVE  GroundingInv'
<1>1. turn' = turn /\ messages' = messages /\ receipts' = receipts
    BY DEF turnVars
<1>2. TurnShape'
    BY <1>1 DEF GroundingInv, TurnShape, Searched
<1>3. CitationHitsItsBlock'
    BY <1>1 DEF GroundingInv, CitationHitsItsBlock
<1> QED
    BY <1>2, <1>3 DEF GroundingInv

\* For any number of channels, chunks, sources and turns, any rankings and any
\* marks the model copies or makes up, the inductive invariant of the chat holds
\* (_prepare_turn, PgVectorStore.search, build_context_blocks, parse_citations).
THEOREM GroundingInvariant == Spec => []GroundingInv
<1>1. TalkInv /\ GroundingInv /\ [Next]_vars => GroundingInv'
    <2> SUFFICES ASSUME TalkInv, GroundingInv, [Next]_vars PROVE GroundingInv'
        OBVIOUS
    <2>1. TurnShape /\ library \in [Channels -> Nat]
        BY DEF GroundingInv, TurnShape
    <2>2. CASE TranscriptNext /\ UNCHANGED <<library, turnVars>>
        BY <2>1, <2>2, TurnStutters
    <2>3. CASE LoadVideo
        <3>1. Len(chunks) \in Nat
            BY SeqIsFun DEF TalkInv, TalkShape
        <3>2. library' \in [Channels -> Nat]
            BY <2>1, <2>3, <3>1 DEF LoadVideo
        <3> QED BY <2>3, <3>2, TurnStutters DEF LoadVideo
    <2>4. CASE OpenTurn
        BY <2>1, <2>4, TurnOpens, NotAnswered
    <2>5. CASE DenseQuery
        BY <2>1, <2>5, SourceIsAsked, NotAnswered
    <2>6. CASE LexicalQuery
        BY <2>1, <2>6, WordsAreAsked, NotAnswered
    <2>7. CASE Fuse
        BY <2>1, <2>7, RankingsAreFused, NotAnswered
    <2>8. CASE Probe
        BY <2>1, <2>8, TurnIsProbed, NotAnswered
    <2>9. CASE Answer
        BY <2>1, <2>9, TurnIsAnswered DEF GroundingInv
    <2>10. CASE AnswerFails
        BY <2>1, <2>10, TurnFails DEF GroundingInv
    <2>11. CASE UNCHANGED vars
        BY <2>1, <2>11, TurnStutters DEF vars, turnVars
    <2> QED
        BY <2>2, <2>3, <2>4, <2>5, <2>6, <2>7, <2>8, <2>9, <2>10, <2>11 DEF Next
<1> QED
    BY <1>1, GroundingInit, TalkInvariant, PTL DEF Spec

\* Of a talk that repeats no word, of any length and however its captions roll, the
\* parser keeps every word once, in its place and timed no later than it is said
\* (dedupe_rolling_cues).
THEOREM Collapse == Spec => []RollingCaptionsCollapse
<1>1. TalkInv => RollingCaptionsCollapse
    BY DEF TalkInv
<1> QED
    BY <1>1, TalkInvariant, PTL

\* Whatever the words weigh in tokens, and for every target and every overlap
\* smaller than it, the chunks leave no word out, go forward, overlap no more than
\* they may, and bring a new word unless it does not fit beside the overlap
\* (chunk_transcript).
THEOREM Coverage == Spec => []ChunksCoverTalk
<1>1. TalkInv => ChunksCoverTalk
    BY CoveredIsCoverage DEF TalkInv
<1> QED
    BY <1>1, TalkInvariant, PTL

\* For any scope, any rankings and any history, every receipt is the chunk the model
\* had before it under that number, no mark of a block is lost, and the voice speaks
\* for its own blocks only (build_context_blocks, parse_citations).
THEOREM Citations == Spec => []CitationHitsItsBlock
<1>1. GroundingInv => CitationHitsItsBlock
    BY DEF GroundingInv
<1> QED
    BY <1>1, GroundingInvariant, PTL

\* For any number of candidates up to the damping constant, the fused ranking loses
\* and invents no chunk, puts none behind another that no list has before it, and
\* puts what both queries found before what only one did (hybrid.py).
THEOREM Fusion == Spec => []FusionRewardsAgreement
<1>1. GroundingInv => FusionRewardsAgreement
    <2> SUFFICES ASSUME GroundingInv, turn.pc = "fuse" PROVE FusionRewardsAgreement
        BY DEF FusionRewardsAgreement
    <2> DEFINE l == turn.dense
               m == turn.lexical
               lists == <<l, m>>
               fused == Fused(lists)
               S == {Searched} \X Nat
    <2>1. /\ l \in Seq(S) /\ m \in Seq(S)
          /\ Len(l) <= RetrievalCandidates /\ Len(m) <= RetrievalCandidates
        BY DEF GroundingInv, TurnShape, RankingsOf
    <2> HIDE DEF l, m, S
    <2>2. ToSet(fused) = ToSet(l) \cup ToSet(m) /\ IsInjective(fused)
        BY <2>1, FusedIsSorted
    <2>3. \A i \in 1..2 : (i = 1 /\ lists[i] = l) \/ (i = 2 /\ lists[i] = m)
        OBVIOUS
    <2>4. lists[1] = l /\ lists[2] = m /\ 1 \in 1..2 /\ 2 \in 1..2
        OBVIOUS
    <2> HIDE DEF lists
    <2>5. ASSUME NEW x \in ToSet(fused), NEW y \in ToSet(fused),
                 \/ x # y /\ \A i \in 1..2 : Before(lists[i], x, y) \/ ~Contains(lists[i], y)
                 \/ (\A i \in 1..2 : Contains(lists[i], x)) /\ \E i \in 1..2 : ~Contains(lists[i], y)
          PROVE  Before(fused, x, y)
        <3>1. \/ /\ x # y
                 /\ Before(l, x, y) \/ ~Contains(l, y)
                 /\ Before(m, x, y) \/ ~Contains(m, y)
              \/ /\ Contains(l, x) /\ Contains(m, x)
                 /\ ~Contains(l, y) \/ ~Contains(m, y)
            BY <2>3, <2>4, <2>5
        <3> QED BY <2>1, <2>2, <3>1, FusionAgrees DEF lists
    <2> QED
        <3> HIDE DEF fused
        <3> QED BY <2>2, <2>5 DEF FusionRewardsAgreement, fused, lists, l, m
<1> QED
    BY <1>1, GroundingInvariant, PTL
=============================================================================
