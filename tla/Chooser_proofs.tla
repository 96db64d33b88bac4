---------------------------- MODULE Chooser_proofs ----------------------------
(***************************************************************************)
(* What is proved of the agent's loop for any repository, requests, finds  *)
(* and proposals of a model: what it tells the user at the end, when it    *)
(* asks, which files it edits on its own, that it does nothing twice on    *)
(* its own, that it does not end without an attempt to edit, how many      *)
(* turns and steps it takes at most, and that its state is well typed.     *)
(*                                                                         *)
(* Recursive functions (the ranking of files, the files kept from a list,  *)
(* the files that names stand for) are reasoned about by induction over    *)
(* one set of numbers at a time; the choosers are sorted by what they may  *)
(* propose (SortOf, Fresh), the steps of the loop by what they do to the   *)
(* run (StepsAre).                                                         *)
(***************************************************************************)
EXTENDS Chooser, TLAPS, WellFoundedInduction, FiniteSetTheorems, SequenceTheorems

\* the natural numbers have a least one of each set of them
LEMMA LeastElement ==
    ASSUME NEW T \in SUBSET Nat, T # {}
    PROVE  \E x \in T : \A y \in T : x <= y
<1> DEFINE R == OpToRel(<, Nat)
<1>1. IsWellFoundedOn(R, Nat)
  BY NatLessThanWellFounded
<1>2. PICK x \in T : \A y \in T : <<y, x>> \notin R
  <2> HIDE DEF R
  <2> QED BY <1>1, WFMin
<1>3. \A y \in T : ~(y < x)
  <2> SUFFICES ASSUME NEW y \in T, y < x PROVE FALSE
    OBVIOUS
  <2>1. <<y, x>> \in Nat \X Nat /\ <<y, x>>[1] < <<y, x>>[2]
    OBVIOUS
  <2>2. <<y, x>> \in R
    BY <2>1 DEF OpToRel
  <2> QED BY <1>2, <2>2
<1> QED BY <1>3

\* induction over the natural numbers, for a set of them
LEMMA NatIsReached ==
    ASSUME NEW T \in SUBSET Nat, 0 \in T, \A n \in T : n + 1 \in T
    PROVE  \A n \in Nat : n \in T
<1> SUFFICES ASSUME Nat \ T # {} PROVE FALSE
  OBVIOUS
<1>1. PICK x \in Nat \ T : \A y \in Nat \ T : x <= y
  <2>1. Nat \ T \in SUBSET Nat
    OBVIOUS
  <2> QED BY <2>1, LeastElement
<1>2. x - 1 \in Nat /\ ~(x <= x - 1)
  BY <1>1
<1>3. x - 1 \in T
  BY <1>1, <1>2
<1> QED BY <1>1, <1>2, <1>3

LEMMA MinOf ==
    ASSUME NEW T \in SUBSET Nat, T # {}
    PROVE  Min(T) \in T /\ \A x \in T : Min(T) <= x
<1>1. \E x \in T : \A y \in T : x <= y
  BY LeastElement
<1> QED BY <1>1 DEF Min

LEMMA MaxOf ==
    ASSUME NEW n \in Nat, NEW s \in SUBSET (1..n), s # {}
    PROVE  Max(s) \in s /\ \A x \in s : x <= Max(s)
<1> DEFINE T == {n - x : x \in s}
<1>1. PICK t \in T : \A u \in T : t <= u
  <2>1. \A x \in s : n - x \in Nat
    OBVIOUS
  <2>2. T \in SUBSET Nat /\ T # {}
    BY <2>1
  <2> HIDE DEF T
  <2> QED BY <2>2, LeastElement
<1>2. PICK x \in s : t = n - x
  OBVIOUS
<1>3. \A y \in s : n - y \in T /\ y \in Int
  OBVIOUS
<1> HIDE DEF T
<1>4. \A y \in s : x >= y
  BY <1>1, <1>2, <1>3
<1>5. Max(s) \in s /\ \A y \in s : Max(s) >= y
  BY <1>2, <1>4 DEF Max
<1>6. Max(s) \in Int
  BY <1>3, <1>5
<1> QED BY <1>3, <1>5, <1>6

----------------------------------------------------------------------------
\* f starts from the empty sequence and goes on by g
GoesOn(f, g, n) ==
    f[0] = <<>> /\ \A i \in 1..n : f[i] = g[<<f[i-1], i>>]

\* a recursion over 1..n has a function
LEMMA RecursionIsDefined ==
    ASSUME NEW n \in Nat, NEW V, <<>> \in V, NEW g \in [V \X (1..n) -> V]
    PROVE  \E f \in [0..n -> V] : GoesOn(f, g, n)
<1> DEFINE Upto(f, k) == f[0] = <<>> /\ \A i \in 1..n : i <= k => f[i] = g[<<f[i-1], i>>]
           Defined(k) == \E f \in [0..n -> V] : Upto(f, k)
           K == {k \in Nat : Defined(k)}
<1>1. 0 \in K
  <2> DEFINE f == [i \in 0..n |-> <<>>]
  <2>1. f \in [0..n -> V] /\ Upto(f, 0)
    OBVIOUS
  <2> HIDE DEF f, Upto
  <2> QED BY <2>1
<1>2. ASSUME NEW k \in K PROVE k + 1 \in K
  <2>1. PICK h \in [0..n -> V] : Upto(h, k)
    OBVIOUS
  <2>2. k \in Nat
    OBVIOUS
  <2> DEFINE f == [i \in 0..n |-> IF i = k + 1 THEN g[<<h[i-1], i>>] ELSE h[i]]
  <2>3. f \in [0..n -> V]
    <3>1. \A i \in 0..n : i = k + 1 => i - 1 \in 0..n /\ i \in 1..n
      BY <2>2
    <3> QED BY <3>1
  <2>4. Upto(f, k + 1)
    <3>1. f[0] = <<>>
      BY <2>1, <2>2
    <3>2. ASSUME NEW i \in 1..n, i <= k + 1 PROVE f[i] = g[<<f[i-1], i>>]
      <4>1. i - 1 \in 0..n /\ i - 1 # k + 1 /\ f[i-1] = h[i-1]
        BY <2>2, <3>2
      <4>2. CASE i = k + 1
        BY <4>1, <4>2
      <4>3. CASE i # k + 1
        <5>1. i <= k /\ f[i] = h[i]
          BY <2>2, <3>2, <4>3
        <5> QED BY <2>1, <4>1, <5>1
      <4> QED BY <4>2, <4>3
    <3> QED BY <3>1, <3>2
  <2> HIDE DEF f, Upto
  <2> QED BY <2>2, <2>3, <2>4
<1>3. n \in K
  <2>1. K \in SUBSET Nat
    OBVIOUS
  <2> HIDE DEF K
  <2> QED BY <1>1, <1>2, <2>1, NatIsReached
<1>4. PICK f \in [0..n -> V] : Upto(f, n)
  <2> HIDE DEF Upto
  <2> QED BY <1>3
<1>5. GoesOn(f, g, n)
  BY <1>4 DEF GoesOn
<1> QED BY <1>5

----------------------------------------------------------------------------
\* the first i members of s that are in S
Sifts(kept, s, S) ==
    kept = [i \in 0..Len(s) |->
               IF i = 0 THEN <<>>
               ELSE IF s[i] \in S THEN Append(kept[i-1], s[i]) ELSE kept[i-1]]

LEMMA SiftingIsDefined ==
    ASSUME NEW T, NEW s \in Seq(T), NEW S
    PROVE  \E kept : Sifts(kept, s, S)
<1> DEFINE n == Len(s)
           V == Seq(T)
           g == [x \in V \X (1..n) |-> IF s[x[2]] \in S THEN Append(x[1], s[x[2]]) ELSE x[1]]
<1>1. <<>> \in V /\ n \in Nat
  BY EmptySeq, LenProperties
<1>2. g \in [V \X (1..n) -> V]
  <2> SUFFICES ASSUME NEW x \in V \X (1..n), s[x[2]] \in S PROVE Append(x[1], s[x[2]]) \in V
    OBVIOUS
  <2>1. x[1] \in V /\ s[x[2]] \in T
    BY ElementOfSeq
  <2> QED BY <2>1, AppendProperties
<1>3. \A v \in V, i \in 1..n : g[<<v, i>>] = IF s[i] \in S THEN Append(v, s[i]) ELSE v
  OBVIOUS
<1> HIDE DEF V, g, n
<1>4. PICK f \in [0..n -> V] : GoesOn(f, g, n)
  BY <1>1, <1>2, RecursionIsDefined
<1> DEFINE rhs == [i \in 0..n |-> IF i = 0 THEN <<>>
                                  ELSE IF s[i] \in S THEN Append(f[i-1], s[i]) ELSE f[i-1]]
<1>5. ASSUME NEW i \in 0..n PROVE f[i] = rhs[i]
  <2>1. CASE i = 0
    BY <1>1, <1>4, <2>1 DEF GoesOn
  <2>2. CASE i # 0
    <3>1. i \in 1..n /\ i - 1 \in 0..n
      BY <1>1, <2>2
    <3>2. f[i-1] \in V
      BY <1>4, <3>1
    <3>3. f[i] = g[<<f[i-1], i>>]
      BY <1>4, <3>1 DEF GoesOn
    <3>4. rhs[i] = IF s[i] \in S THEN Append(f[i-1], s[i]) ELSE f[i-1]
      BY <2>2
    <3> QED BY <1>3, <3>1, <3>2, <3>3, <3>4
  <2> QED BY <2>1, <2>2
<1>6. f = rhs
  <2>1. DOMAIN rhs = 0..n /\ rhs = [i \in 0..n |-> rhs[i]]
    OBVIOUS
  <2>2. f = [i \in 0..n |-> f[i]]
    BY <1>4
  <2> HIDE DEF rhs
  <2> QED BY <1>5, <2>1, <2>2
<1>7. Sifts(f, s, S)
  BY <1>6 DEF Sifts, n
<1> QED BY <1>7

LEMMA SiftingStep ==
    ASSUME NEW kept, NEW s, NEW S, Len(s) \in Nat, Sifts(kept, s, S)
    PROVE  /\ kept[0] = <<>>
           /\ \A i \in 1..Len(s) : kept[i] = IF s[i] \in S THEN Append(kept[i-1], s[i]) ELSE kept[i-1]
<1> DEFINE rhs == [i \in 0..Len(s) |-> IF i = 0 THEN <<>>
                                       ELSE IF s[i] \in S THEN Append(kept[i-1], s[i]) ELSE kept[i-1]]
<1>1. kept = rhs
  BY DEF Sifts
<1>2. rhs[0] = <<>>
  OBVIOUS
<1>3. \A i \in 1..Len(s) : rhs[i] = IF s[i] \in S THEN Append(kept[i-1], s[i]) ELSE kept[i-1]
  OBVIOUS
<1> HIDE DEF rhs
<1> QED BY <1>1, <1>2, <1>3

\* what is kept is of the sequence and in S; when nothing is kept nothing is in S
LEMMA KeepKeeps ==
    ASSUME NEW T, NEW s \in Seq(T), NEW S
    PROVE  /\ Keep(s, S) \in Seq(T \cap S)
           /\ Keep(s, S) = <<>> => \A i \in 1..Len(s) : s[i] \notin S
<1> DEFINE kept == CHOOSE k : Sifts(k, s, S)
           n == Len(s)
<1>0. n \in Nat
  BY LenProperties
<1>1. Keep(s, S) = kept[n]
  BY DEF Keep, Sifts
<1>2. Sifts(kept, s, S)
  <2>1. \E k : Sifts(k, s, S)
    BY SiftingIsDefined
  <2> HIDE DEF Sifts
  <2> QED BY <2>1
<1> HIDE DEF kept
<1>3. kept[0] = <<>> /\ \A i \in 1..n : kept[i] = IF s[i] \in S THEN Append(kept[i-1], s[i]) ELSE kept[i-1]
  BY <1>0, <1>2, SiftingStep
<1> DEFINE P(k) == kept[k] \in Seq(T \cap S) /\ (kept[k] = <<>> => \A i \in 1..k : s[i] \notin S)
           K == {k \in Nat : k <= n => P(k)}
<1>5. 0 \in K
  <2>1. P(0)
    BY <1>3, EmptySeq
  <2> HIDE DEF P
  <2> QED BY <2>1
<1>6. ASSUME NEW k \in K PROVE k + 1 \in K
  <2> SUFFICES ASSUME k + 1 <= n PROVE P(k + 1)
    OBVIOUS
  <2>1. k \in Nat /\ k + 1 \in 1..n /\ k <= n /\ (k + 1) - 1 = k
    BY <1>0
  <2>2. P(k)
    BY <2>1
  <2>3. kept[k+1] = IF s[k+1] \in S THEN Append(kept[k], s[k+1]) ELSE kept[k]
    BY <1>3, <2>1
  <2>4. CASE s[k+1] \in S
    <3>0. s[k+1] \in T \cap S
      BY <2>1, <2>4, ElementOfSeq
    <3>1. /\ kept[k+1] \in Seq(T \cap S) /\ Len(kept[k+1]) = Len(kept[k]) + 1
      BY <2>2, <2>3, <2>4, <3>0, AppendProperties
    <3>2. kept[k+1] # <<>>
      <4>1. Len(kept[k]) \in Nat /\ Len(<<>>) = 0
        BY <2>2, LenProperties
      <4> QED BY <3>1, <4>1
    <3> QED BY <3>1, <3>2
  <2>5. CASE s[k+1] \notin S
    <3>1. kept[k+1] = kept[k]
      BY <2>3, <2>5
    <3>2. \A i \in 1..k+1 : i \in 1..k \/ i = k + 1
      BY <2>1
    <3> QED BY <2>2, <2>5, <3>1, <3>2
  <2> QED BY <2>4, <2>5
<1>7. n \in K
  <2>1. K \in SUBSET Nat
    OBVIOUS
  <2> HIDE DEF K
  <2> QED BY <1>0, <1>5, <1>6, <2>1, NatIsReached
<1>8. P(n)
  BY <1>0, <1>7
<1> QED BY <1>1, <1>8

----------------------------------------------------------------------------
\* the n best files of score, one after the other
Ranks(ranked, score, n) ==
    ranked = [i \in 0..n |->
                 IF i = 0 THEN <<>>
                 ELSE LET ahead == ranked[i-1]
                      IN Append(ahead, Foremost(score, DOMAIN score \ Range(ahead)))]

Foremosts(score) == {Foremost(score, files) : files \in SUBSET DOMAIN score}

LEMMA RankingIsDefined ==
    ASSUME NEW score, NEW n \in Nat
    PROVE  \E ranked : Ranks(ranked, score, n) /\ ranked \in [0..n -> Seq(Foremosts(score))]
<1> DEFINE V == Seq(Foremosts(score))
           top(v) == Foremost(score, DOMAIN score \ Range(v))
           g == [x \in V \X (1..n) |-> Append(x[1], top(x[1]))]
<1>1. <<>> \in V
  BY EmptySeq
<1>2. \A v : top(v) \in Foremosts(score)
  BY DEF Foremosts
<1> HIDE DEF top
<1>3. g \in [V \X (1..n) -> V]
  <2> SUFFICES ASSUME NEW x \in V \X (1..n) PROVE Append(x[1], top(x[1])) \in V
    OBVIOUS
  <2>1. x[1] \in V
    OBVIOUS
  <2> QED BY <1>2, <2>1, AppendProperties
<1>4. \A v \in V, i \in 1..n : g[<<v, i>>] = Append(v, top(v))
  OBVIOUS
<1> HIDE DEF V, g
<1>5. PICK f \in [0..n -> V] : GoesOn(f, g, n)
  BY <1>1, <1>3, RecursionIsDefined
<1> DEFINE rhs == [i \in 0..n |-> IF i = 0 THEN <<>> ELSE Append(f[i-1], top(f[i-1]))]
<1>6. ASSUME NEW i \in 0..n PROVE f[i] = rhs[i]
  <2>1. CASE i = 0
    BY <1>1, <1>5, <2>1 DEF GoesOn
  <2>2. CASE i # 0
    <3>1. i \in 1..n /\ i - 1 \in 0..n
      BY <2>2
    <3>2. f[i-1] \in V
      BY <1>5, <3>1
    <3>3. f[i] = g[<<f[i-1], i>>]
      BY <1>5, <3>1 DEF GoesOn
    <3>4. rhs[i] = Append(f[i-1], top(f[i-1]))
      BY <2>2
    <3> QED BY <1>4, <3>1, <3>2, <3>3, <3>4
  <2> QED BY <2>1, <2>2
<1>7. f = rhs
  <2>1. DOMAIN rhs = 0..n /\ rhs = [i \in 0..n |-> rhs[i]]
    OBVIOUS
  <2>2. f = [i \in 0..n |-> f[i]]
    BY <1>5
  <2> HIDE DEF rhs
  <2> QED BY <1>6, <2>1, <2>2
<1>8. Ranks(f, score, n)
  BY <1>7 DEF Ranks, top
<1> QED BY <1>5, <1>8 DEF V

LEMMA RankingStep ==
    ASSUME NEW ranked, NEW score, NEW n \in Nat, Ranks(ranked, score, n)
    PROVE  /\ ranked[0] = <<>>
           /\ \A i \in 1..n : \E e \in Foremosts(score) : ranked[i] = Append(ranked[i-1], e)
<1> DEFINE top(v) == Foremost(score, DOMAIN score \ Range(v))
           rhs == [i \in 0..n |-> IF i = 0 THEN <<>> ELSE Append(ranked[i-1], top(ranked[i-1]))]
<1>0. \A v : top(v) \in Foremosts(score)
  BY DEF Foremosts
<1>1. ranked = rhs
  BY DEF Ranks
<1> HIDE DEF top
<1>2. rhs[0] = <<>>
  OBVIOUS
<1>3. \A i \in 1..n : rhs[i] = Append(ranked[i-1], top(ranked[i-1]))
  OBVIOUS
<1> HIDE DEF rhs
<1> QED BY <1>0, <1>1, <1>2, <1>3

LEMMA BestIsASequence ==
    ASSUME NEW score, IsFiniteSet(DOMAIN score)
    PROVE  Best(score) \in Seq(Foremosts(score))
<1> DEFINE n == Cardinality(DOMAIN score)
           ranked == CHOOSE r : Ranks(r, score, n)
           V == Seq(Foremosts(score))
<1>0. n \in Nat
  BY FS_CardinalityType
<1>1. Best(score) = ranked[n]
  BY DEF Best, Ranks
<1>2. Ranks(ranked, score, n)
  <2>1. \E r : Ranks(r, score, n)
    BY <1>0, RankingIsDefined
  <2> HIDE DEF Ranks, n
  <2> QED BY <2>1
<1> HIDE DEF ranked, n
<1>3. ranked[0] = <<>> /\ \A i \in 1..n : \E e \in Foremosts(score) : ranked[i] = Append(ranked[i-1], e)
  BY <1>0, <1>2, RankingStep
<1> DEFINE K == {k \in Nat : k <= n => ranked[k] \in V}
<1>4. 0 \in K
  BY <1>3, EmptySeq
<1>5. ASSUME NEW k \in K PROVE k + 1 \in K
  <2> SUFFICES ASSUME k + 1 <= n PROVE ranked[k+1] \in V
    OBVIOUS
  <2>1. k \in Nat /\ k + 1 \in 1..n /\ k <= n /\ (k + 1) - 1 = k
    BY <1>0
  <2>2. ranked[k] \in V
    BY <2>1
  <2>3. PICK e \in Foremosts(score) : ranked[k+1] = Append(ranked[k], e)
    BY <1>3, <2>1
  <2> QED BY <2>2, <2>3, AppendProperties
<1>6. n \in K
  <2>1. K \in SUBSET Nat
    OBVIOUS
  <2> HIDE DEF K
  <2> QED BY <1>0, <1>4, <1>5, <2>1, NatIsReached
<1> QED BY <1>0, <1>1, <1>6

----------------------------------------------------------------------------
IsLog(s) == \E S : s \in Seq(S)

\* of a sequence, what leads it
LEMMA LeadingIsPart ==
    ASSUME NEW T, NEW s \in Seq(T), NEW n \in Nat
    PROVE  Leading(s, n) \in Seq(T)
<1> DEFINE m == Least(n, Len(s))
<1>1. Len(s) \in Nat
  BY LenProperties
<1>2. m \in Nat /\ m <= Len(s)
  BY <1>1 DEF Least
<1> HIDE DEF m
<1>3. \A i \in 1..m : i \in 1..Len(s)
  BY <1>1, <1>2
<1> QED BY <1>1, <1>2, <1>3, SubSeqProperties DEF Leading, m

LEMMA LeadingOf ==
    ASSUME NEW s, IsLog(s), NEW n \in Nat
    PROVE  IsLog(Leading(s, n)) /\ Range(Leading(s, n)) \subseteq Range(s)
<1> DEFINE m == Least(n, Len(s))
<1>1. PICK T : s \in Seq(T)
  BY DEF IsLog
<1>2. Len(s) \in Nat /\ DOMAIN s = 1..Len(s)
  BY <1>1, LenProperties
<1>3. m \in Nat /\ m <= Len(s)
  BY <1>2 DEF Least
<1>4. Leading(s, n) = SubSeq(s, 1, m)
  BY DEF Leading
<1> HIDE DEF m
<1>5. \A i \in 1..m : i \in 1..Len(s)
  BY <1>2, <1>3
<1>6. /\ SubSeq(s, 1, m) \in Seq(T) /\ Len(SubSeq(s, 1, m)) = m
      /\ \A i \in 1..m : SubSeq(s, 1, m)[i] = s[i]
  BY <1>1, <1>2, <1>3, <1>5, SubSeqProperties
<1>7. DOMAIN SubSeq(s, 1, m) = 1..m
  BY <1>6, LenProperties
<1>8. \A i \in DOMAIN SubSeq(s, 1, m) : SubSeq(s, 1, m)[i] \in Range(s)
  BY <1>2, <1>5, <1>6, <1>7 DEF Range
<1> QED BY <1>4, <1>6, <1>8 DEF IsLog, Range

LEMMA TextFilesAreFinite == IsFiniteSet(TextFiles)
<1>1. Len(Files) \in Nat /\ Files \in [1..Len(Files) -> TextFiles]
  BY EditTargetsAssumption, LenProperties DEF TextFiles
<1>2. IsFiniteSet(1..Len(Files))
  BY <1>1, FS_Interval
<1>3. Files \in Surjection(1..Len(Files), TextFiles)
  BY <1>1 DEF Surjection, TextFiles, Range
<1> QED BY <1>2, <1>3, FS_Surjection

\* a target of an edit was read
LEMMA TargetsAreRead ==
    ASSUME NEW h, NEW model
    PROVE  /\ SelectTargets(h, model) \in Seq(AlreadyRead(h))
           /\ Range(SelectTargets(h, model)) \subseteq AlreadyRead(h)
<1> DEFINE score == Scores(h, model)
           R == AlreadyRead(h)
           strong == Strong(score, h)
           anchored == Keep(strong, Anchors(h.req, model))
           owners == Keep(Tail(strong), {f \in Range(strong) : /\ About[f].role # "entrypoints"
                                                               /\ score[strong[1]] - score[f] <= 25})
<1>1. IsFiniteSet(DOMAIN score)
  <2>1. DOMAIN score = Considered(h, model)
    BY DEF Scores
  <2>2. Considered(h, model) \subseteq TextFiles
    BY DEF Considered
  <2> QED BY <2>1, <2>2, TextFilesAreFinite, FS_Subset
<1> HIDE DEF score
<1>2. strong \in Seq(R)
  <2>1. Best(score) \in Seq(Foremosts(score))
    BY <1>1, BestIsASequence
  <2>2. strong \in Seq(Foremosts(score) \cap (Able(score) \cap R))
    BY <2>1, KeepKeeps DEF Strong
  <2>3. Foremosts(score) \cap (Able(score) \cap R) \subseteq R
    OBVIOUS
  <2> HIDE DEF strong, R
  <2> QED BY <2>2, <2>3, SeqMonotonic
<1>3. SelectTargets(h, model) = Preferred(score, strong, Anchors(h.req, model))
  BY DEF SelectTargets, Among, score
<1> HIDE DEF strong, R
<1>4. SelectTargets(h, model) \in Seq(R)
  <2>1. CASE strong = <<>>
    <3>1. SelectTargets(h, model) = <<>>
      BY <1>3, <2>1 DEF Preferred
    <3> QED BY <3>1, EmptySeq
  <2>2. CASE strong # <<>>
    <3>1. strong[1] \in R /\ Tail(strong) \in Seq(R)
      <4>1. Len(strong) \in Nat /\ Len(strong) # 0
        BY <1>2, <2>2, LenProperties, EmptySeq
      <4>2. 1 \in 1..Len(strong)
        BY <4>1
      <4> QED BY <1>2, <2>2, <4>2, ElementOfSeq, HeadTailProperties
    <3>2. anchored \in Seq(R)
      <4>1. anchored \in Seq(R \cap Anchors(h.req, model)) /\ R \cap Anchors(h.req, model) \subseteq R
        BY <1>2, KeepKeeps
      <4> HIDE DEF anchored
      <4> QED BY <4>1, SeqMonotonic
    <3>3. owners # <<>> => owners[1] \in R
      <4> DEFINE S == {f \in Range(strong) : /\ About[f].role # "entrypoints"
                                             /\ score[strong[1]] - score[f] <= 25}
      <4>1. owners \in Seq(R \cap S) /\ owners = Keep(Tail(strong), S)
        BY <3>1, KeepKeeps
      <4> HIDE DEF owners, S
      <4> SUFFICES ASSUME owners # <<>> PROVE owners[1] \in R \cap S
        OBVIOUS
      <4>2. Len(owners) \in Nat /\ Len(owners) # 0
        BY <4>1, LenProperties, EmptySeq
      <4>3. 1 \in 1..Len(owners)
        BY <4>2
      <4> QED BY <4>1, <4>3, ElementOfSeq
    <3>4. \A e \in R : <<e>> \in Seq(R)
      OBVIOUS
    <3>5. Leading(anchored, 3) \in Seq(R)
      BY <3>2, LeadingIsPart
    <3>6. SelectTargets(h, model) \in {Leading(anchored, 3), <<owners[1]>>, <<strong[1]>>}
          /\ (SelectTargets(h, model) = <<owners[1]>> => owners # <<>> \/ SelectTargets(h, model) = <<strong[1]>>
                                                        \/ SelectTargets(h, model) = Leading(anchored, 3))
      BY <1>3, <2>2 DEF Preferred
    <3> HIDE DEF anchored, owners
    <3> QED BY <3>1, <3>3, <3>4, <3>5, <3>6
  <2> QED BY <2>1, <2>2
<1>5. \A s \in Seq(R) : Range(s) \subseteq R
  BY DEF Range
<1> QED BY <1>4, <1>5 DEF R

----------------------------------------------------------------------------
\* the first row that holds is the answer
LEMMA FirstRowHolds ==
    ASSUME NEW n \in Nat \ {0}, NEW rows, DOMAIN rows = 1..n, rows[n].when
    PROVE  \E i \in 1..n : /\ rows[i].when /\ FirstRow(rows) = rows[i].then
                           /\ \A j \in 1..n : j < i => ~rows[j].when
<1> DEFINE held == {i \in DOMAIN rows : rows[i].when}
           i == CHOOSE x \in held : \A j \in held : x <= j
<1>1. held \in SUBSET Nat /\ held # {}
  OBVIOUS
<1>2. FirstRow(rows) = rows[i].then
  BY DEF FirstRow
<1>3. i \in held /\ \A j \in held : i <= j
  <2>1. \E x \in held : \A j \in held : x <= j
    <3> HIDE DEF held
    <3> QED BY <1>1, LeastElement
  <2> QED BY <2>1
<1> HIDE DEF i
<1>4. i \in 1..n /\ rows[i].when
  BY <1>3
<1>5. \A j \in 1..n : j < i => ~rows[j].when
  BY <1>3, <1>4
<1> QED BY <1>2, <1>4, <1>5

IsAnswer(a) == DOMAIN a = {"from", "claims", "denies"}

\* where an answer comes from; the empty text is that of none
NoText == ""
Wording == {"evidence", "proposal", "plan", "not_found", "outline", "question", "cancelled", "write", "error",
            "unfulfilled", "command", "broad", "limited", "invalid", "off_topic", "meta", "injection"}

LEMMA WordingsAreTexts == \A x \in Wording \cup Texts : x # NoText
<1>1. \A x \in Wording : x # NoText
  BY Zenon DEF Wording, NoText
<1>2. \A x \in Texts : x # NoText
  BY Zenon DEF Texts, NoText
<1> QED BY <1>1, <1>2

LEMMA Wordings ==
    ASSUME NEW from
    PROVE  /\ IsAnswer(Says(from)) /\ Says(from).from = from
           /\ IsAnswer(Claiming(from)) /\ Claiming(from).from = from
           /\ IsAnswer(Denying(from)) /\ Denying(from).from = from
           /\ IsAnswer(Written(from)) /\ Written(from).from = from
           /\ IsAnswer(Left(from)) /\ Left(from).from = from
<1>1. /\ IsAnswer(Says(from)) /\ Says(from).from = from
      /\ IsAnswer(Claiming(from)) /\ Claiming(from).from = from
      /\ IsAnswer(Denying(from)) /\ Denying(from).from = from
  BY DEF IsAnswer, Says, Claiming, Denying
<1>2. Written(from) \in {Claiming(from), Says(from)}
  BY DEF Written
<1>3. Left(from) \in {Claiming(from), Says(from), Denying(from)}
  BY DEF Left
<1> QED BY <1>1, <1>2, <1>3

\* the texts of the model, and the one that is worded from the evidence
LEMMA ModelWords ==
    /\ \A text \in Texts : /\ IsAnswer(Written(text)) /\ Written(text).from = text
                           /\ Written(text).from # NoText
    /\ IsAnswer(FromEvidence) /\ FromEvidence.from = "evidence" /\ FromEvidence.from # NoText
<1>1. ASSUME NEW text \in Texts
      PROVE  IsAnswer(Written(text)) /\ Written(text).from = text /\ text # NoText
  BY Wordings, WordingsAreTexts
<1>2. IsAnswer(FromEvidence) /\ FromEvidence.from = "evidence" /\ "evidence" # NoText
  BY Wordings, WordingsAreTexts DEF FromEvidence, Wording
<1> QED BY <1>1, <1>2

\* a repaired text is not empty and leaks nothing, and denies files that were read only when it
\* was written anew
LEMMA RepairedText ==
    ASSUME NEW c, NEW answer, NEW again \in Texts, IsAnswer(answer), answer.from # NoText
    PROVE  /\ IsAnswer(Repaired(c, answer, again))
           /\ Repaired(c, answer, again).from \notin {"leaks", NoText}
           /\ Repaired(c, answer, again).from = "unread" => FilesRead(c) = {} \/ answer.from = "leaks"
<1> DEFINE rows == <<Row(NeedsRepair(answer), Rewritten(again)),
               Row(/\ EditProposal(c) /\ ~answer.denies
                   /\ answer.from = "apply_failed" \/ (answer.claims /\ answer.from # "write"),
                   Denying("proposal")),
               Row(\/ answer.from = "unread" /\ FilesRead(c) # {}
                   \/ answer.from = "placeholder"
                   \/ Unfounded(c, answer), FromEvidence),
               Row(TRUE, answer)>>
           a == Repaired(c, answer, again)
<1>1. DOMAIN rows = 1..4 /\ rows[4].when /\ 4 \in Nat \ {0}
  BY DEF Row
<1>2. a = FirstRow(rows)
  BY DEF Repaired
<1>3. /\ rows[1].when <=> answer.from = "leaks"
      /\ rows[1].then = Rewritten(again)
      /\ rows[2].then = Denying("proposal")
      /\ answer.from = "unread" /\ FilesRead(c) # {} => rows[3].when
      /\ rows[3].then = FromEvidence
      /\ rows[4].then = answer
  BY DEF Row, NeedsRepair
<1> HIDE DEF rows, a
<1>4. PICK i \in 1..4 : /\ rows[i].when /\ a = rows[i].then
                        /\ \A j \in 1..4 : j < i => ~rows[j].when
  BY <1>1, <1>2, FirstRowHolds
<1>5. IsAnswer(Rewritten(again)) /\ Rewritten(again).from \notin {"leaks", NoText}
  BY ModelWords DEF Rewritten, NeedsRepair
<1>6. CASE i = 1
  BY <1>3, <1>4, <1>5, <1>6 DEF a
<1>7. CASE i = 2
  BY <1>3, <1>4, <1>7, Wordings, WordingsAreTexts DEF a, Wording
<1>8. CASE i = 3
  BY <1>3, <1>4, <1>8, Wordings, WordingsAreTexts DEF a, FromEvidence, Wording
<1>9. CASE i = 4
  <2>1. ~rows[1].when /\ ~rows[3].when
    BY <1>4, <1>9
  <2> QED BY <1>3, <1>4, <1>9, <2>1 DEF a
<1> QED BY <1>6, <1>7, <1>8, <1>9

\* the texts that a node may leave
Sayings == {"", "question", "asked", "commit_preview", "proposal", "applied", "apply_failed",
            "rejected", "write_denied", "denied"}

LEMMA ClarificationAsks ==
    ASSUME NEW c
    PROVE  /\ IsAnswer(Clarification(c))
           /\ Clarification(c).from \in {"plan", "not_found", "outline", "question"}
<1> DEFINE rows == <<Row(c.req.planning, Says("plan")),
               Row(c.req.question, Says("not_found")),
               Row(c.req.editText /\ FilesRead(c) # {}, Says("outline")),
               Row(TRUE, Says("question"))>>
<1>1. DOMAIN rows = 1..4 /\ rows[4].when /\ 4 \in Nat \ {0}
  BY DEF Row
<1>2. Clarification(c) = FirstRow(rows)
  BY DEF Clarification
<1>3. \A i \in 1..4 : rows[i].then \in {Says("plan"), Says("not_found"), Says("outline"), Says("question")}
  BY DEF Row
<1> HIDE DEF rows
<1>4. PICK i \in 1..4 : FirstRow(rows) = rows[i].then
  BY <1>1, FirstRowHolds
<1>5. Clarification(c) \in {Says("plan"), Says("not_found"), Says("outline"), Says("question")}
  BY <1>2, <1>3, <1>4
<1> QED BY <1>5, Wordings

\* a draft is not empty and leaks nothing
LEMMA DraftText ==
    ASSUME NEW c, NEW text \in Texts, NEW again \in Texts
    PROVE  /\ IsAnswer(Draft(c, text, again)) /\ Draft(c, text, again).from \notin {"leaks", NoText}
<1> DEFINE rows == <<Row(c.stop = "cancelled", Says("cancelled")),
               Row(ApprovedWrite(c), Claiming("write")),
               Row(EditProposal(c), Denying("proposal")),
               Row(\E r \in Range(c.results) : r.error, Denying("error")),
               Row(Unfulfilled(c), Denying("unfulfilled")),
               Row(\E r \in Range(c.results) : r.ran, Says("command")),
               Row(ReadOfMany(c), Says("broad")),
               Row(OutOfEvidence(c), Says("limited")),
               Row(TRUE, ModelAnswer(c, text, again))>>
           mine == {Says("cancelled"), Claiming("write"), Denying("proposal"), Denying("error"),
                    Denying("unfulfilled"), Says("command"), Says("broad"), Says("limited")}
<1>1. DOMAIN rows = 1..9 /\ rows[9].when /\ 9 \in Nat \ {0}
  BY DEF Row
<1>2. Draft(c, text, again) = FirstRow(rows)
  BY DEF Draft
<1>3. \A i \in 1..9 : rows[i].then \in mine \cup {ModelAnswer(c, text, again)}
  BY DEF Row
<1>4. \A a \in mine : IsAnswer(a) /\ a.from \notin {"leaks", NoText}
  BY Wordings, WordingsAreTexts DEF Wording
<1> HIDE DEF rows, mine
<1>5. PICK i \in 1..9 : FirstRow(rows) = rows[i].then
  BY <1>1, FirstRowHolds
<1>6. IsAnswer(ModelAnswer(c, text, again)) /\ ModelAnswer(c, text, again).from \notin {"leaks", NoText}
  <2> DEFINE a == IF text = "unread" /\ Contents(c) # {} THEN FromEvidence ELSE Written(text)
  <2>1. IsAnswer(a) /\ a.from # NoText
    BY ModelWords
  <2>2. ModelAnswer(c, text, again) = Repaired(c, a, again)
    BY DEF ModelAnswer
  <2> HIDE DEF a
  <2> QED BY <2>1, <2>2, RepairedText
<1> QED BY <1>2, <1>3, <1>4, <1>5, <1>6

LEMMA OpeningText ==
    ASSUME NEW c, NEW text \in Texts, NEW again \in Texts, c.said \in Sayings
    PROVE  /\ IsAnswer(Opening(c, text, again)) /\ Opening(c, text, again).from # NoText
           /\ Opening(c, text, again).from = "leaks" => c.said = "asked"
<1> DEFINE rows == <<Row(InvalidProposal(c), Denying("invalid")),
               Row(c.said = "asked", Asked(c, text)),
               Row(c.said # "", Left(c.said)),
               Row(c.req.offTopic, Says("off_topic")),
               Row(c.req.meta /\ ~c.changed, Says("meta")),
               Row(TRUE, Draft(c, text, again))>>
           o == Opening(c, text, again)
<1>1. DOMAIN rows = 1..6 /\ rows[6].when /\ 6 \in Nat \ {0}
  BY DEF Row
<1>2. o = FirstRow(rows)
  BY DEF Opening
<1>3. /\ rows[1].then = Denying("invalid") /\ rows[2].then = Asked(c, text)
      /\ rows[2].when <=> c.said = "asked"
      /\ rows[3].when <=> c.said # NoText
      /\ rows[3].then = Left(c.said) /\ rows[4].then = Says("off_topic")
      /\ rows[5].then = Says("meta") /\ rows[6].then = Draft(c, text, again)
  BY Zenon DEF Row, NoText
<1> HIDE DEF rows, o
<1>4. PICK i \in 1..6 : rows[i].when /\ o = rows[i].then
  BY <1>1, <1>2, FirstRowHolds
<1>5. CASE i = 2
  <2>1. IsAnswer(Asked(c, text)) /\ Asked(c, text).from # NoText
    <3>1. IsAnswer(Clarification(c)) /\ Clarification(c).from # NoText
      BY ClarificationAsks, WordingsAreTexts DEF Wording
    <3> QED BY <3>1, ModelWords DEF Asked
  <2> QED BY <1>3, <1>4, <1>5, <2>1 DEF o
<1>6. CASE i = 6
  BY <1>3, <1>4, <1>6, DraftText DEF o
<1>7. CASE i \in {1, 3, 4, 5}
  <2>1. o \in {Denying("invalid"), Says("off_topic"), Says("meta")} \/ (o = Left(c.said) /\ c.said # NoText)
    BY <1>3, <1>4, <1>7
  <2>2. c.said # "leaks"
    BY DEF Sayings
  <2> QED BY <2>1, <2>2, Wordings, WordingsAreTexts DEF o, Wording
<1> QED BY <1>5, <1>6, <1>7

\* what is said at the end, of one run
Honest(c, answer) ==
    /\ answer.claims => c.changed \/ answer.denies
    /\ answer.from \notin {"leaks", "muses", "hijacked"}
    /\ answer.from = "unread" => FilesRead(c) = {} \/ c.said = "asked"

LEMMA FinalAnswerIsHonest ==
    ASSUME NEW c, NEW text \in Texts, NEW again \in Texts, c.said \in Sayings
    PROVE  Honest(c, FinalAnswer(c, text, again)) /\ FinalAnswer(c, text, again).from # NoText
<1> DEFINE opening  == Opening(c, text, again)
           repaired == Repaired(c, opening, again)
           scoped   == IF c.req.offTopic THEN Says("off_topic") ELSE repaired
           how      == IF c.req.howOnly /\ ~c.changed THEN [scoped EXCEPT !.denies = TRUE] ELSE scoped
           asked    == IF how.from = "muses" THEN Clarification(c) ELSE how
           guarded  == Guarded(asked)
           final    == FinalAnswer(c, text, again)
           Good(a)  == /\ IsAnswer(a) /\ a.from \notin {"leaks", NoText}
                       /\ a.from = "unread" => FilesRead(c) = {} \/ c.said = "asked"
<1>0. final = Backstop(c, guarded)
  BY DEF FinalAnswer
<1>1. Good(repaired)
  <2>1. IsAnswer(opening) /\ opening.from # NoText /\ (opening.from = "leaks" => c.said = "asked")
    BY OpeningText
  <2> HIDE DEF opening
  <2> QED BY <2>1, RepairedText
<1> HIDE DEF opening, repaired, final
<1>2. Good(scoped)
  <2>1. Good(Says("off_topic"))
    BY Wordings, WordingsAreTexts DEF Wording
  <2> HIDE DEF Good
  <2> QED BY <1>1, <2>1
<1> HIDE DEF scoped
<1>3. Good(how)
  BY <1>2 DEF IsAnswer
<1> HIDE DEF how
<1>4. Good(asked) /\ asked.from # "muses"
  BY <1>3, ClarificationAsks, WordingsAreTexts DEF Wording
<1> HIDE DEF asked
<1>5. Good(guarded) /\ guarded.from \notin {"muses", "hijacked"}
  BY <1>4, Wordings, WordingsAreTexts DEF Guarded, Wording
<1> HIDE DEF guarded
<1>6. Honest(c, Backstop(c, guarded)) /\ Backstop(c, guarded).from # NoText
  <2>1. CASE guarded.claims /\ ~c.changed
    <3>1. Backstop(c, guarded) = [guarded EXCEPT !.denies = TRUE]
      BY <2>1 DEF Backstop
    <3>2. Backstop(c, guarded).denies = TRUE /\ Backstop(c, guarded).from = guarded.from
      BY <1>5, <3>1 DEF IsAnswer
    <3> QED BY <1>5, <3>2 DEF Honest
  <2>2. CASE ~(guarded.claims /\ ~c.changed)
    <3>1. Backstop(c, guarded) = guarded
      BY <2>2 DEF Backstop
    <3> QED BY <1>5, <2>2, <3>1 DEF Honest
  <2> QED BY <2>1, <2>2
<1> QED BY <1>0, <1>6 DEF final

----------------------------------------------------------------------------
Fields == {"req", "taken", "results", "shifted", "turn", "limit", "stop", "plan", "proposed",
           "faults", "repairs", "changed", "said", "applied", "commit"}

\* the record of a run, and what an earlier node may have left to say
IsRun(c) == DOMAIN c = Fields /\ c.said \in Sayings

LEMMA NoReplyIsHonest == \A c : Honest(c, NoReply)
  BY DEF Honest, NoReply, Says

LEMMA TurnedIsRun ==
    ASSUME NEW c, IsRun(c)
    PROVE  /\ IsRun(TakeTurn(c)) /\ IsRun(Turned(c))
           /\ TakeTurn(c).taken = c.taken /\ TakeTurn(c).results = c.results
           /\ TakeTurn(c).req = c.req /\ TakeTurn(c).changed = c.changed /\ TakeTurn(c).stop = c.stop
           /\ TakeTurn(c).said = c.said
           /\ Turned(c).taken = c.taken /\ Turned(c).results = c.results
           /\ Turned(c).req = c.req /\ Turned(c).changed = c.changed /\ Turned(c).stop = c.stop
           /\ Turned(c).said = c.said
  BY DEF IsRun, TakeTurn, Turned, Fields

LEMMA ChoseIsRun ==
    ASSUME NEW c, NEW a, IsRun(c)
    PROVE  /\ IsRun(Chose(c, a))
           /\ Chose(c, a).taken = c.taken /\ Chose(c, a).results = c.results
           /\ Chose(c, a).req = c.req /\ Chose(c, a).changed = c.changed
           /\ Chose(c, a).stop = IF a.type = "ask_clarification" THEN "needs_clarification" ELSE c.stop
  BY DEF IsRun, Chose, Fields, Sayings

LEMMA ObservedIsRun ==
    ASSUME NEW c, NEW r, IsRun(c)
    PROVE  /\ IsRun(Observed(c, r))
           /\ Observed(c, r).taken = Append(c.taken, next) /\ Observed(c, r).results = Append(c.results, r)
           /\ Observed(c, r).req = c.req /\ Observed(c, r).changed = c.changed
           /\ Observed(c, r).stop = c.stop /\ Observed(c, r).said = c.said
           /\ Observed(c, r).repairs = c.repairs
           /\ Observed(c, r).turn = c.turn /\ Observed(c, r).limit = c.limit
           /\ Observed(c, r).plan = UpdatePlan(c.req, c.plan, next, r)
  BY DEF IsRun, Observed, Fields

\* the first proposal that can be used is chosen
Usable(c, a) == a # NoAction /\ ~Repeats(c, a)

LEMMA UsableIsChosen ==
    ASSUME NEW c, NEW n \in Nat, NEW proposals, DOMAIN proposals = 1..n
    PROVE  \/ /\ FirstUsable(c, proposals) = Answer
              /\ \A i \in 1..n : ~Usable(c, proposals[i])
           \/ \E i \in 1..n : /\ FirstUsable(c, proposals) = proposals[i]
                              /\ Usable(c, proposals[i])
                              /\ \A j \in 1..n : j < i => ~Usable(c, proposals[j])
<1> DEFINE usable == {i \in DOMAIN proposals : Usable(c, proposals[i])}
<1>1. FirstUsable(c, proposals) = IF usable = {} THEN Answer ELSE proposals[Min(usable)]
  BY DEF FirstUsable, Usable
<1>2. CASE usable = {}
  BY <1>1, <1>2
<1>3. CASE usable # {}
  <2>1. usable \in SUBSET Nat
    OBVIOUS
  <2>2. Min(usable) \in usable /\ \A x \in usable : Min(usable) <= x
    <3> HIDE DEF usable
    <3> QED BY <1>3, <2>1, MinOf
  <2> DEFINE i == Min(usable)
  <2>3. i \in 1..n /\ Usable(c, proposals[i])
    BY <2>2
  <2>4. \A j \in 1..n : Usable(c, proposals[j]) => i <= j
    BY <2>2
  <2>5. FirstUsable(c, proposals) = proposals[i]
    BY <1>1, <1>3
  <2> HIDE DEF i
  <2>6. \A j \in 1..n : j < i => ~Usable(c, proposals[j])
    BY <2>3, <2>4
  <2> QED BY <2>3, <2>5, <2>6
<1> QED BY <1>2, <1>3

LEMMA ChooserTable ==
    ASSUME NEW c, NEW t, NEW p
    PROVE  LET cs == Choosers(c, t, p) IN
           /\ DOMAIN cs = 1..19
           /\ cs[1] = Recovering(c) /\ cs[2] = WriteDone(c) /\ cs[3] = OffTopicStep(c)
           /\ cs[4] = MetaStep(c) /\ cs[5] = FetchStep(c) /\ cs[6] = MissingFileStep(c)
           /\ cs[7] = CommitStep(c) /\ cs[8] = BranchStep(c) /\ cs[9] = CreateFileStep(c)
           /\ cs[10] = CommandStep(c) /\ cs[11] = CoveredStep(c) /\ cs[12] = ToolCallingStep(c, t)
           /\ cs[13] = ExplicitTargetStep(c) /\ cs[14] = SymbolStep(c)
           /\ cs[15] = PolicyEvidenceStep(c) /\ cs[16] = ModelPlannerStep(c, p)
           /\ cs[17] = SearchCandidateStep(c) /\ cs[18] = EditStep(c)
           /\ cs[19] = ProjectSummaryStep(c)
  BY DEF Choosers

\* an action, and how the constructors fill it
IsAction(a) == DOMAIN a = {"type", "files", "queries", "src", "cmd"}
Made(a, type, files, src, cmd) ==
    IsAction(a) /\ a.type = type /\ a.files = files /\ a.src = src /\ a.cmd = cmd

LEMMA ActionsMade ==
    /\ Made(NoAction, "none", <<>>, "", "")
    /\ Made(Answer, "final_answer", <<>>, "", "")
    /\ \A x : Made(Do(x), x, <<>>, "", "")
    /\ \A x : Made(Ask(x), "ask_clarification", <<>>, x, "")
    /\ \A x : Made(Read(x), "read_file", x, "", "")
    /\ \A x, y : Made(Search(x, y), "search_files", <<>>, y, "")
    /\ \A x, y : Made(SearchText(x, y), "search_text", <<>>, y, "")
    /\ \A x, y : Made(Run(x, y), x, <<>>, "", y)
    /\ \A x, y : Made(Generate(x, y), x, y, "", "")
<1>1. Made(NoAction, "none", <<>>, "", "")
  BY DEF Made, IsAction, NoAction
<1>2. \A x : Made(Do(x), x, <<>>, "", "")
  BY DEF Made, IsAction, NoAction, Do
<1>3. Made(Answer, "final_answer", <<>>, "", "")
  BY <1>2 DEF Answer
<1>4. \A x : Made(Ask(x), "ask_clarification", <<>>, x, "")
  BY <1>2 DEF Ask, Made, IsAction
<1>5. \A x : Made(Read(x), "read_file", x, "", "")
  BY <1>2 DEF Read, Made, IsAction
<1>6. \A x, y : Made(Search(x, y), "search_files", <<>>, y, "")
  BY <1>2 DEF Search, Made, IsAction
<1>7. \A x, y : Made(SearchText(x, y), "search_text", <<>>, y, "")
  BY <1>2 DEF SearchText, Made, IsAction
<1>8. \A x, y : Made(Run(x, y), x, <<>>, "", y)
  BY <1>2 DEF Run, Made, IsAction
<1>9. \A x, y : Made(Generate(x, y), x, y, "", "")
  BY <1>2 DEF Generate, Made, IsAction
<1> QED BY <1>1, <1>2, <1>3, <1>4, <1>5, <1>6, <1>7, <1>8, <1>9

\* what gathers evidence
Gathers(a) ==
    IsAction(a) /\ a.type \in {"none", "inspect_repo_tree", "read_file", "search_files", "search_text"}
    /\ a.cmd = ""

LEMMA GatheringActions ==
    /\ Gathers(NoAction) /\ Gathers(Do("inspect_repo_tree"))
    /\ \A x : Gathers(Read(x))
    /\ \A x, y : Gathers(Search(x, y))
    /\ \A x, y : Gathers(SearchText(x, y))
<1>1. Gathers(NoAction) /\ Gathers(Do("inspect_repo_tree"))
  BY ActionsMade DEF Gathers, Made
<1>2. \A x : Gathers(Read(x))
  BY ActionsMade DEF Gathers, Made
<1>3. \A x, y : Gathers(Search(x, y))
  <2> TAKE x, y
  <2>1. Made(Search(x, y), "search_files", <<>>, y, "")
    BY ActionsMade
  <2> QED BY <2>1 DEF Gathers, Made
<1>4. \A x, y : Gathers(SearchText(x, y))
  <2> TAKE x, y
  <2>1. Made(SearchText(x, y), "search_text", <<>>, y, "")
    BY ActionsMade
  <2> QED BY <2>1 DEF Gathers, Made
<1> QED BY <1>1, <1>2, <1>3, <1>4

LEMMA EvidenceGathers ==
    ASSUME NEW h
    PROVE  Gathers(NextEvidence(h))
<1>1. Gathers(BroadEvidence(h))
  BY GatheringActions DEF BroadEvidence
<1>2. Gathers(EditEvidence(h))
  <2>1. Gathers(EditContext(h))
    BY GatheringActions DEF EditContext
  <2> QED BY <2>1, GatheringActions DEF EditEvidence
<1>3. Gathers(FollowUpEvidence(h))
  BY GatheringActions DEF FollowUpEvidence
<1>4. Gathers(SummaryEvidence(h))
  BY GatheringActions DEF SummaryEvidence
<1> QED BY <1>1, <1>2, <1>3, <1>4 DEF NextEvidence

LEMMA RecoveryGathers ==
    ASSUME NEW h, NEW a, NEW r
    PROVE  \/ Gathers(Recovery(h, a, r))
           \/ /\ Recovery(h, a, r) = Answer
              /\ a.type \in Generates \cup Previews \cup {"run_approved_command"}
<1>1. Gathers(RecoverText(h, a))
  BY GatheringActions, EvidenceGathers DEF RecoverText
<1>2. Gathers(RecoverFiles(h, a))
  BY GatheringActions, EvidenceGathers DEF RecoverFiles
<1>3. Gathers(RecoverRead(h, a))
  BY GatheringActions, EvidenceGathers DEF RecoverRead
<1> QED BY <1>1, <1>2, <1>3, GatheringActions, EvidenceGathers DEF Recovery, Answer

LEMMA EvidenceSteps ==
    ASSUME NEW c
    PROVE  /\ Gathers(SymbolStep(c)) /\ Gathers(SearchCandidateStep(c)) /\ Gathers(ProjectSummaryStep(c))
           /\ Gathers(Recovering(c)) \/ Recovering(c) = Answer
<1>1. Gathers(SymbolStep(c))
  BY GatheringActions DEF SymbolStep, If
<1>2. Gathers(SearchCandidateStep(c))
  BY GatheringActions DEF SearchCandidateStep, If
<1>3. Gathers(ProjectSummaryStep(c))
  BY GatheringActions DEF ProjectSummaryStep, If
<1>4. Gathers(Recovering(c)) \/ Recovering(c) = Answer
  BY RecoveryGathers, GatheringActions DEF Recovering
<1> QED BY <1>1, <1>2, <1>3, <1>4

----------------------------------------------------------------------------
\* a proposal of the model, or none
Proposable(m) == m \in Menu \cup {NoAction}

LEMMA Proposals ==
    ASSUME NEW m, Proposable(m)
    PROVE  /\ IsAction(m)
           /\ m = NoAction \/ (m.type # "none" /\ (m.src = "model" \/ (m.src = "approval" /\ m.type = "ask_clarification")))
           /\ m.type \in CommandActions => m.cmd \in DOMAIN Class
<1>1. CASE m = NoAction
  <2>1. Made(m, "none", <<>>, "", "")
    BY <1>1, ActionsMade
  <2> QED BY <1>1, <2>1 DEF Made, CommandActions
<1>2. CASE m \in Menu
  <2>1. IsAction(NoAction)
    BY ActionsMade DEF Made
  <2> QED BY <1>2, <2>1, ChooserAssumption DEF IsAction
<1> QED BY <1>1, <1>2 DEF Proposable

LEMMA ModelTargetsSorts ==
    ASSUME NEW c, NEW m, NEW found, NEW valid
    PROVE  \/ Gathers(ModelTargets(c, m, found, valid))
           \/ Made(ModelTargets(c, m, found, valid), "generate_change_set", valid, "model", "")
<1> DEFINE read(files) == [Read(files) EXCEPT !.src = "model"]
           gen == [Generate("generate_change_set", valid) EXCEPT !.src = "model"]
           instead == If(Range(m.files) \cup m.queries # {},
                      Search(Range(m.files) \cup m.queries, "model_planner"))
<1>1. \A files : Gathers(read(files))
  <2> TAKE files
  <2>1. Made(Read(files), "read_file", files, "", "")
    BY ActionsMade
  <2> QED BY <2>1 DEF Made, Gathers, IsAction
<1>2. Made(gen, "generate_change_set", valid, "model", "")
  <2>1. Made(Generate("generate_change_set", valid), "generate_change_set", valid, "", "")
    BY ActionsMade
  <2> QED BY <2>1 DEF Made, IsAction
<1>3. Gathers(instead) /\ Gathers(NoAction)
  BY GatheringActions DEF If
<1>4. ModelTargets(c, m, found, valid) \in {instead, NoAction, gen, read(Unread(c, found)), read(Unread(c, valid))}
  BY DEF ModelTargets, If
<1> HIDE DEF read, gen, instead
<1> QED BY <1>1, <1>2, <1>3, <1>4

\* a command that the model asks for
Commands(a, m, src) ==
    \E type \in Previews \cup {"run_approved_command"} : Made(a, type, <<>>, src, m.cmd)

LEMMA ModelRunsSorts ==
    ASSUME NEW c, NEW m
    PROVE  ModelRuns(c, m) = NoAction \/ Commands(ModelRuns(c, m), m, "model")
<1> DEFINE as(type) == [Run(type, m.cmd) EXCEPT !.src = "model"]
<1>1. \A type : Made(as(type), type, <<>>, "model", m.cmd)
  <2> TAKE type
  <2>1. Made(Run(type, m.cmd), type, <<>>, "", m.cmd)
    BY ActionsMade
  <2> QED BY <2>1 DEF Made, IsAction
<1>2. ModelRuns(c, m) \in {NoAction, as("inspect_git_state"), as("preview_command"), as("run_approved_command")}
  BY DEF ModelRuns, PreviewOf, If
<1> HIDE DEF as
<1> QED BY <1>1, <1>2 DEF Commands, Previews

LEMMA ModelPlannerSorts ==
    ASSUME NEW c, NEW m, Proposable(m)
    PROVE  LET a == ModelPlannerStep(c, m) IN
           \/ a = NoAction
           \/ Gathers(a)
           \/ \E files : Made(a, "generate_change_set", files, "model", "")
           \/ m.type \in CommandActions /\ Commands(a, m, "model")
           \/ /\ a = m /\ m.type \in {"search_files", "search_text", "inspect_repo_tree"}
           \/ /\ a = m /\ m.type = "ask_clarification"
              /\ Has(c, Searches \cup {"inspect_repo_tree"}) \/ m.src = "approval"
           \/ IsAction(a) /\ a.type = "final_answer" /\ a.src = "model_planner"
<1> DEFINE a == ModelPlannerStep(c, m)
<1>0. IsAction(m)
  BY Proposals
<1>1. CASE m.type \in Generates \cup {"read_file"}
  <2>1. a = ModelEdits(c, m)
    BY <1>1 DEF ModelPlannerStep, Generates, Previews
  <2> QED BY <2>1, ModelTargetsSorts DEF ModelEdits
<1>2. CASE m.type = "search_files"
  <2>1. a = If(m.queries # {} /\ ~SearchedFor(c, m.queries), m)
    BY <1>2 DEF ModelPlannerStep, Generates, Previews
  <2> QED BY <1>2, <2>1 DEF If
<1>3. CASE m.type = "search_text"
  <2>1. a = If(\A x \in m.queries : ~SearchedText(c, x), m)
    BY <1>3 DEF ModelPlannerStep, Generates, Previews
  <2> QED BY <1>3, <2>1 DEF If
<1>4. CASE m.type \in Previews \cup {"run_approved_command"}
  <2>1. a = If(m.cmd # "", ModelRuns(c, m))
    BY <1>4 DEF ModelPlannerStep, Generates, Previews
  <2>2. m.type \in CommandActions
    BY <1>4 DEF CommandActions, Previews
  <2> QED BY <2>1, <2>2, ModelRunsSorts DEF If
<1>5. CASE m.type = "ask_clarification"
  <2>1. a = If(Has(c, Searches \cup {"inspect_repo_tree"}) \/ m.src = "approval", m)
    BY <1>5 DEF ModelPlannerStep, Generates, Previews
  <2> QED BY <1>5, <2>1 DEF If
<1>6. CASE m.type = "final_answer"
  <2>1. a = If(Contents(c) # {} \/ SuccessfulRuns(c) # {} \/ EditProposal(c),
              [m EXCEPT !.src = "model_planner"])
    BY <1>6 DEF ModelPlannerStep, Generates, Previews
  <2> QED BY <1>0, <1>6, <2>1 DEF If, IsAction
<1>7. CASE m.type = "inspect_repo_tree"
  <2>1. a = If(~Has(c, {"inspect_repo_tree"}), m)
    BY <1>7 DEF ModelPlannerStep, Generates, Previews
  <2> QED BY <1>7, <2>1 DEF If
<1>8. CASE m.type \notin Generates \cup {"read_file", "search_files", "search_text", "ask_clarification",
                                       "final_answer", "inspect_repo_tree", "run_approved_command"} \cup Previews
  <2>1. a = NoAction
    BY <1>8 DEF ModelPlannerStep
  <2> QED BY <2>1
<1> HIDE DEF a
<1> QED BY <1>1, <1>2, <1>3, <1>4, <1>5, <1>6, <1>7, <1>8 DEF a

----------------------------------------------------------------------------
\* the new file that a request names
LEMMA FirstOfTwo ==
    ASSUME NEW a, NEW b
    PROVE  FirstOf(<<a, b>>) = IF a # <<>> THEN a ELSE b
<1> DEFINE seqs == <<a, b>>
           full == {i \in DOMAIN seqs : seqs[i] # <<>>}
<1>1. DOMAIN seqs = 1..2 /\ seqs[1] = a /\ seqs[2] = b
  OBVIOUS
<1>2. FirstOf(seqs) = IF full = {} THEN <<>> ELSE seqs[Min(full)]
  BY DEF FirstOf
<1> HIDE DEF seqs
<1>3. CASE full = {}
  <2>1. a = <<>> /\ b = <<>>
    BY <1>1, <1>3
  <2> QED BY <1>2, <1>3, <2>1 DEF seqs
<1>4. CASE full # {}
  <2>1. full \in SUBSET Nat
    BY <1>1
  <2>2. Min(full) \in full /\ \A x \in full : Min(full) <= x
    <3> HIDE DEF full
    <3> QED BY <1>4, <2>1, MinOf
  <2>3. FirstOf(seqs) = seqs[Min(full)]
    BY <1>2, <1>4
  <2> DEFINE k == Min(full)
  <2>4. k \in 1..2 /\ seqs[k] # <<>>
    BY <1>1, <2>2
  <2>5. a # <<>> => k <= 1
    BY <1>1, <2>2
  <2> HIDE DEF k
  <2>6. CASE a # <<>>
    <3>1. k = 1
      BY <2>4, <2>5, <2>6
    <3> QED BY <1>1, <2>3, <2>6, <3>1 DEF k, seqs
  <2>7. CASE a = <<>>
    <3>1. k = 2
      BY <1>1, <2>4, <2>7
    <3> QED BY <1>1, <2>3, <2>7, <3>1 DEF k, seqs
  <2> QED BY <2>6, <2>7
<1> QED BY <1>3, <1>4

\* which files the agent edits on its own
Targets(c) == FirstOf(<<SelectTargets(c, {}), NewFile(c)>>)

LEMMA OwnTargets ==
    ASSUME NEW c, FilesRead(c) \subseteq Contents(c)
    PROVE  Range(Targets(c)) \subseteq Contents(c) \cup Range(NewFile(c))
<1>1. Targets(c) \in {SelectTargets(c, {}), NewFile(c)}
  BY FirstOfTwo DEF Targets
<1>2. Range(SelectTargets(c, {})) \subseteq Contents(c)
  BY TargetsAreRead DEF AlreadyRead
<1> QED BY <1>1, <1>2

\* no edit was prepared yet, or one that came to nothing
FirstEdit(c) == ~Has(c, Generates) \/ (CameUpEmpty(c) /\ Cardinality(Generations(c)) < 2)

LEMMA EditSorts ==
    ASSUME NEW c
    PROVE  LET a == EditStep(c) IN
           \/ a = NoAction /\ (~EditRequested(c.req) \/ c.req.planning)
           \/ a = Ask("clarification") /\ Targets(c) = <<>>
           \/ \E type \in Generates : Made(a, type, Targets(c), "", "") /\ Targets(c) # <<>> /\ FirstEdit(c)
           \/ a = Answer /\ Has(c, Generates)
<1>1. \A type, files : Made(Generate(type, files), type, files, "", "")
  BY ActionsMade
<1> QED BY <1>1 DEF EditStep, Prepare, Targets, Generates, FirstEdit

----------------------------------------------------------------------------
\* what the other choosers propose
Plainly(a) == a = NoAction \/ a = Answer

LEMMA PlainSteps ==
    ASSUME NEW c
    PROVE  /\ Plainly(WriteDone(c)) /\ Plainly(OffTopicStep(c)) /\ Plainly(MetaStep(c))
           /\ Plainly(CoveredStep(c))
           /\ WriteDone(c) = Answer => ApprovedWrite(c)
           /\ OffTopicStep(c) = Answer => c.req.offTopic
           /\ MetaStep(c) = Answer => c.req.meta
           /\ CoveredStep(c) = Answer => ~EditRequested(c.req)
<1>1. NoAction # Answer
  BY ActionsMade DEF Made
<1> QED BY <1>1 DEF Plainly, WriteDone, OffTopicStep, MetaStep, CoveredStep, If

Gated == {"fetch_url", "git_commit", "git_branch_create"}

LEMMA GatedSteps ==
    ASSUME NEW c, NEW a \in {FetchStep(c), CommitStep(c), BranchStep(c)}
    PROVE  a = NoAction \/ \E type \in Gated : Made(a, type, <<>>, "", "")
  BY ActionsMade DEF FetchStep, CommitStep, BranchStep, If, Gated

LEMMA MissingFileSorts ==
    ASSUME NEW c
    PROVE  \/ Gathers(MissingFileStep(c))
           \/ MissingFileStep(c) = Ask("missing") /\ Has(c, {"search_files"})
  BY GatheringActions DEF MissingFileStep

LEMMA CreateFileSorts ==
    ASSUME NEW c
    PROVE  \/ CreateFileStep(c) = NoAction
           \/ /\ Made(CreateFileStep(c), "generate_change_set", NewFile(c), "", "")
              /\ NewFile(c) # <<>>
  BY ActionsMade DEF CreateFileStep, If

LEMMA ExplicitTargetSorts ==
    ASSUME NEW c
    PROVE  LET a == ExplicitTargetStep(c) IN
           \/ Gathers(a)
           \/ a = Answer /\ ~EditRequested(c.req)
           \/ a = Ask("clarification") /\ Has(c, {"search_files"})
<1>1. \A qs : SearchedFor(c, qs) => Has(c, {"search_files"})
  BY DEF SearchedFor, Has
<1> QED BY <1>1, GatheringActions DEF ExplicitTargetStep, If

LEMMA PolicySorts ==
    ASSUME NEW c
    PROVE  LET a == PolicyEvidenceStep(c) IN
           \/ a = NextEvidence(c)
           \/ a = Ask("clarification") /\ ShouldAsk(c) /\ NextEvidence(c) = NoAction
  BY DEF PolicyEvidenceStep, If

\* when the policy has nothing more to gather, something was looked at, or the
\* request is a follow-up with nothing to go by
NothingToGoBy(q) ==
    RequestShape(q) = "follow_up" /\ q.prior = <<>> /\ q.symbols = {} /\ ~q.terms

LEMMA EvidenceRunsOut ==
    ASSUME NEW c, c.req \in Requests, NextEvidence(c) = NoAction
    PROVE  MinEvidence(c) \/ NothingToGoBy(c.req)
<1>0. /\ Do("inspect_repo_tree") # NoAction
      /\ \A x : Read(x) # NoAction
      /\ \A x, y : Search(x, y) # NoAction
  <2>1. Made(NoAction, "none", <<>>, "", "") /\ Made(Do("inspect_repo_tree"), "inspect_repo_tree", <<>>, "", "")
    BY ActionsMade
  <2>2. \A x : Read(x) # NoAction
    BY <2>1, ActionsMade DEF Made
  <2>3. \A x, y : Search(x, y) # NoAction
    <3> TAKE x, y
    <3>1. Made(Search(x, y), "search_files", <<>>, y, "")
      BY ActionsMade
    <3> QED BY <2>1, <3>1 DEF Made
  <2> QED BY <2>1, <2>2, <2>3 DEF Made
<1>1. Has(c, {"inspect_repo_tree"}) => MinEvidence(c)
  BY DEF Has, MinEvidence
<1>2. \A qs : SearchedFor(c, qs) => MinEvidence(c)
  BY DEF SearchedFor, Has, MinEvidence
<1>3. CASE RequestShape(c.req) = "follow_up"
  <2> DEFINE topic == c.req.symbols \cup (IF c.req.terms THEN {"words"} ELSE {})
             found == Unread(c, Best(Hits(c, 1)))
  <2>1. FollowUpEvidence(c) = NoAction
    BY <1>3 DEF NextEvidence
  <2>2. FollowUpEvidence(c) = IF Unread(c, c.req.prior) # <<>> THEN Read(Leading(Unread(c, c.req.prior), 4))
                              ELSE IF topic # {} /\ ~SearchedFor(c, topic) THEN Search(topic, "followup_discovery")
                              ELSE IF found # <<>> THEN Read(Leading(found, 3))
                              ELSE NoAction
    BY DEF FollowUpEvidence
  <2> HIDE DEF topic, found
  <2>3. Unread(c, c.req.prior) = <<>> /\ (topic = {} \/ SearchedFor(c, topic))
    BY <1>0, <2>1, <2>2
  <2>4. CASE topic # {}
    BY <1>2, <2>3, <2>4
  <2>5. CASE topic = {} /\ c.req.prior # <<>>
    <3>1. c.req.prior \in Seq(Range(c.req.prior))
      BY ChooserAssumption
    <3>2. \A i \in 1..Len(c.req.prior) : c.req.prior[i] \notin Range(c.req.prior) \ FilesRead(c)
      <4>1. Keep(c.req.prior, Range(c.req.prior) \ FilesRead(c)) = <<>>
        BY <2>3 DEF Unread
      <4> QED BY <3>1, <4>1, KeepKeeps
    <3>3. Len(c.req.prior) \in Nat /\ Len(c.req.prior) # 0
      BY <2>5, <3>1, LenProperties, EmptySeq
    <3>4. 1 \in 1..Len(c.req.prior)
      BY <3>3
    <3>5. c.req.prior[1] \in Range(c.req.prior)
      BY <3>1, <3>4, ElementOfSeq
    <3>6. FilesRead(c) # {}
      BY <3>2, <3>4, <3>5
    <3> QED BY <3>6 DEF MinEvidence
  <2>6. CASE topic = {} /\ c.req.prior = <<>>
    BY <1>3, <2>6 DEF topic, NothingToGoBy
  <2> QED BY <2>4, <2>5, <2>6
<1>4. CASE RequestShape(c.req) # "follow_up"
  <2>1. Has(c, {"inspect_repo_tree"})
    <3>1. BroadEvidence(c) = NoAction => Has(c, {"inspect_repo_tree"})
      BY <1>0 DEF BroadEvidence
    <3>2. EditEvidence(c) = NoAction => Has(c, {"inspect_repo_tree"})
      BY <1>0 DEF EditEvidence
    <3>3. SummaryEvidence(c) = NoAction => Has(c, {"inspect_repo_tree"})
      BY <1>0 DEF SummaryEvidence
    <3> QED BY <1>4, <3>1, <3>2, <3>3 DEF NextEvidence
  <2> QED BY <1>1, <2>1
<1> QED BY <1>3, <1>4

\* an action that would be repeated was taken
LEMMA RepeatsWereTaken ==
    ASSUME NEW c, NEW a, Gathers(a), Repeats(c, a), IsFiniteSet(DOMAIN c.taken)
    PROVE  MinEvidence(c)
<1> DEFINE same == {i \in DOMAIN c.taken : /\ Signature(c.taken[i]) = Signature(a)
                                           /\ Ineffective(c.taken[i], c.results[i])}
<1>1. a.type \in Searches \cup {"read_file"} /\ Cardinality(same) > 0
  BY DEF Repeats, Failures, Gathers
<1>2. same # {}
  <2> HIDE DEF same
  <2> QED BY <1>1, FS_EmptySet
<1>3. PICK i \in DOMAIN c.taken : Signature(c.taken[i]) = Signature(a)
  BY <1>2
<1>4. c.taken[i].type = a.type
  BY <1>3 DEF Signature
<1>5. Has(c, {"inspect_repo_tree", "read_file", "read_many_files", "search_files", "search_text",
               "analyze_file", "analyze_repository", "inspect_symbol", "run_approved_command",
               "inspect_git_state"})
  BY <1>1, <1>4 DEF Has, Searches
<1> QED BY <1>5 DEF MinEvidence

----------------------------------------------------------------------------
\* what was done and what came of it, side by side
Logs(c) == IsLog(c.taken) /\ IsLog(c.results) /\ Len(c.taken) = Len(c.results)

LEMMA LogsAre ==
    ASSUME NEW s, IsLog(s)
    PROVE  Len(s) \in Nat /\ DOMAIN s = 1..Len(s) /\ IsFiniteSet(DOMAIN s)
<1>1. PICK S : s \in Seq(S)
  BY DEF IsLog
<1>2. Len(s) \in Nat /\ DOMAIN s = 1..Len(s)
  BY <1>1, LenProperties
<1> QED BY <1>2, FS_Interval

LEMMA LogsGrow ==
    ASSUME NEW s, IsLog(s), NEW e
    PROVE  /\ IsLog(Append(s, e)) /\ Len(Append(s, e)) = Len(s) + 1
           /\ DOMAIN Append(s, e) = 1..Len(s) + 1
           /\ \A i \in DOMAIN s : Append(s, e)[i] = s[i]
           /\ Append(s, e)[Len(s) + 1] = e
<1>1. PICK S : s \in Seq(S)
  BY DEF IsLog
<1>2. s \in Seq(S \cup {e})
  <2>1. S \subseteq S \cup {e}
    OBVIOUS
  <2> QED BY <1>1, <2>1, SeqMonotonic
<1>3. Append(s, e) \in Seq(S \cup {e}) /\ Len(Append(s, e)) = Len(s) + 1
  BY <1>2, AppendProperties
<1>4. DOMAIN Append(s, e) = 1..Len(s) + 1
  BY <1>3, LenProperties
<1>5. /\ \A i \in 1..Len(s) : Append(s, e)[i] = s[i]
      /\ Append(s, e)[Len(s) + 1] = e
  BY <1>2, AppendProperties
<1> QED BY <1>3, <1>4, <1>5, LogsAre DEF IsLog

\* the command that is still to be run was looked at, and cannot be run unasked
CommandWaits(c) ==
    LET cmd == Needed(c) IN
    /\ cmd # "" /\ PreviewsOf(c, cmd) # {}
    /\ ~(PreviewedAs(c, cmd).status = "success" /\ (PreviewedAs(c, cmd).ro \/ PreviewedAs(c, cmd).auto))

\* a command the program knows, or one of which a result says that it only reads
KnownCommand(c, cmd) ==
    cmd \in DOMAIN Class \/ \E i \in DOMAIN c.results : c.results[i].ro /\ cmd = c.taken[i].cmd

CommandTypes == Previews \cup {"run_approved_command"}

LEMMA CommandSorts ==
    ASSUME NEW c, c.req \in Requests, Logs(c)
    PROVE  LET a == CommandStep(c) IN
           \/ a = NoAction
           \/ a = Answer /\ CommandWaits(c)
           \/ \E type \in CommandTypes : \E cmd : Made(a, type, <<>>, "", cmd) /\ KnownCommand(c, cmd)
<1> DEFINE cmd   == Needed(c)
           unrun == {i \in DOMAIN c.results : c.results[i].ro /\ ~HasRun(c, c.taken[i].cmd)}
           safe  == PreviewedAs(c, cmd).status = "success" /\ (PreviewedAs(c, cmd).ro \/ PreviewedAs(c, cmd).auto)
           a     == CommandStep(c)
<1>1. a = IF unrun # {} THEN Run("run_approved_command", c.taken[Max(unrun)].cmd)
          ELSE IF cmd = "" THEN NoAction
          ELSE IF PreviewsOf(c, cmd) = {} THEN PreviewOf(cmd)
          ELSE IF safe THEN Run("run_approved_command", cmd)
          ELSE IF c.req.commitIt /\ HasRun(c, "git log") /\ PreviewsOf(c, "git status") = {}
            THEN PreviewOf("git status")
          ELSE Answer
  BY DEF CommandStep
<1>2. cmd # "" => cmd \in DOMAIN Class
  <2>1. cmd \in {c.req.cmd, "git status", ""}
    BY DEF Needed
  <2> QED BY <2>1, ChooserAssumption DEF GitCommands
<1>3. \A x \in DOMAIN Class : \E type \in CommandTypes : Made(PreviewOf(x), type, <<>>, "", x)
  BY ActionsMade DEF PreviewOf, CommandTypes, Previews
<1>4. \A x : Made(Run("run_approved_command", x), "run_approved_command", <<>>, "", x)
  BY ActionsMade
<1>5. unrun # {} => KnownCommand(c, c.taken[Max(unrun)].cmd)
  <2> SUFFICES ASSUME unrun # {} PROVE KnownCommand(c, c.taken[Max(unrun)].cmd)
    OBVIOUS
  <2>1. Len(c.results) \in Nat /\ DOMAIN c.results = 1..Len(c.results)
    BY LogsAre DEF Logs
  <2>2. unrun \in SUBSET (1..Len(c.results))
    BY <2>1
  <2>3. Max(unrun) \in unrun
    <3> HIDE DEF unrun
    <3> QED BY <2>1, <2>2, MaxOf
  <2> QED BY <2>3 DEF KnownCommand
<1>6. "run_approved_command" \in CommandTypes /\ "git status" \in DOMAIN Class
  BY ChooserAssumption DEF CommandTypes, GitCommands
<1>7. CASE unrun # {}
  BY <1>1, <1>4, <1>5, <1>6, <1>7
<1>8. CASE unrun = {}
  <2>1. \/ a = NoAction
        \/ cmd # "" /\ a \in {PreviewOf(cmd), Run("run_approved_command", cmd), PreviewOf("git status")}
        \/ a = Answer /\ CommandWaits(c)
    BY <1>1, <1>8 DEF CommandWaits
  <2>2. \A x : x \in DOMAIN Class => KnownCommand(c, x)
    BY DEF KnownCommand
  <2> HIDE DEF cmd, a, unrun, safe
  <2> QED BY <1>2, <1>3, <1>4, <1>6, <2>1, <2>2 DEF a
<1> QED BY <1>7, <1>8

----------------------------------------------------------------------------
\* what may be chosen, and why
Evidenced(c) ==
    MinEvidence(c) \/ c.req.secret \/ c.req.irreversible \/ NothingToGoBy(c.req)

\* the last action brought nothing, and it generated something or was a command
Fruitless(c) ==
    /\ c.taken # <<>> /\ Ineffective(Last(c.taken), Last(c.results))
    /\ Last(c.taken).type \in Generates \cup CommandTypes

Finishes(c) ==
    \/ c.req.offTopic \/ c.req.meta \/ ~EditRequested(c.req) \/ c.req.planning
    \/ ApprovedWrite(c) \/ Has(c, Generates) \/ CommandWaits(c) \/ Fruitless(c)

OwnEdit(c, files) ==
    files # <<>> /\ (files = NewFile(c) \/ (files = Targets(c) /\ FirstEdit(c)))

SortOf(c, t, p, a) ==
    \/ Gathers(a) \/ a.type \in Gated \cup Searches \cup {"inspect_repo_tree"}
    \/ a = Answer /\ Finishes(c)
    \/ a.type = "ask_clarification" /\ (a.src = "approval" \/ Evidenced(c))
    \/ \E type \in Generates : \E files : Made(a, type, files, "", "") /\ OwnEdit(c, files)
    \/ \E files : Made(a, "generate_change_set", files, "model", "")
    \/ \E type \in CommandTypes : \E src \in {"", "model"} : \E cmd : Made(a, type, <<>>, src, cmd) /\ KnownCommand(c, cmd)
    \/ a = t /\ t # NoAction /\ Allowed(c, t)
    \/ a.type = "final_answer" /\ a.src = "model_planner"

Sorted(c, t, p, a) == IsAction(a) /\ SortOf(c, t, p, a)

LEMMA GathersSorted == \A c, t, p, a : Gathers(a) => Sorted(c, t, p, a)
  BY DEF Sorted, SortOf, Gathers

LEMMA NoActionGathers == Gathers(NoAction) /\ IsAction(Answer)
  BY GatheringActions, ActionsMade DEF Made

LEMMA RequestStepsSorted ==
    ASSUME NEW c, NEW t, NEW p, c.req \in Requests, Logs(c),
           NEW a \in {Recovering(c), WriteDone(c), OffTopicStep(c), MetaStep(c), FetchStep(c),
                      CommitStep(c), BranchStep(c), MissingFileStep(c), CreateFileStep(c),
                      CommandStep(c), CoveredStep(c)}
    PROVE  Sorted(c, t, p, a)
<1>0. a = Answer /\ Finishes(c) => Sorted(c, t, p, a)
  BY NoActionGathers DEF Sorted, SortOf
<1>00. a = NoAction => Sorted(c, t, p, a)
  BY NoActionGathers, GathersSorted
<1>1. CASE a = Recovering(c)
  <2>1. CASE Gathers(a)
    BY <2>1, GathersSorted
  <2>2. CASE ~Gathers(a)
    <3>1. c.taken # <<>> /\ Ineffective(Last(c.taken), Last(c.results))
      BY <1>1, <2>2, NoActionGathers DEF Recovering
    <3>2. a = Recovery(c, Last(c.taken), Last(c.results))
      BY <1>1, <3>1 DEF Recovering
    <3>3. a = Answer /\ Fruitless(c)
      BY <2>2, <3>1, <3>2, RecoveryGathers DEF Fruitless, CommandTypes
    <3> QED BY <1>0, <3>3 DEF Finishes
  <2> QED BY <2>1, <2>2
<1>2. CASE a \in {WriteDone(c), OffTopicStep(c), MetaStep(c), CoveredStep(c)}
  <2>1. a = NoAction \/ (a = Answer /\ Finishes(c))
    BY <1>2, PlainSteps DEF Plainly, Finishes
  <2> QED BY <1>0, <1>00, <2>1
<1>3. CASE a \in {FetchStep(c), CommitStep(c), BranchStep(c)}
  <2>1. a = NoAction \/ (IsAction(a) /\ a.type \in Gated)
    BY <1>3, GatedSteps DEF Made
  <2> QED BY <1>00, <2>1 DEF Sorted, SortOf
<1>4. CASE a = MissingFileStep(c)
  <2>1. CASE Gathers(a)
    BY <2>1, GathersSorted
  <2>2. CASE ~Gathers(a)
    <3>1. a = Ask("missing") /\ Has(c, {"search_files"})
      BY <1>4, <2>2, MissingFileSorts
    <3>2. Evidenced(c)
      BY <3>1 DEF Has, Evidenced, MinEvidence
    <3>3. Made(a, "ask_clarification", <<>>, "missing", "")
      BY <3>1, ActionsMade
    <3> QED BY <3>2, <3>3 DEF Sorted, SortOf, Made
  <2> QED BY <2>1, <2>2
<1>5. CASE a = CreateFileStep(c)
  <2>1. CASE a # NoAction
    <3>1. Made(a, "generate_change_set", NewFile(c), "", "") /\ OwnEdit(c, NewFile(c))
      BY <1>5, <2>1, CreateFileSorts DEF OwnEdit
    <3>2. "generate_change_set" \in Generates
      BY DEF Generates
    <3>3. \E type \in Generates : \E files : Made(a, type, files, "", "") /\ OwnEdit(c, files)
      BY <3>1, <3>2
    <3>4. IsAction(a)
      BY <3>1 DEF Made
    <3> QED BY <3>3, <3>4 DEF Sorted, SortOf
  <2> QED BY <1>00, <2>1
<1>6. CASE a = CommandStep(c)
  <2>1. CASE \E type \in CommandTypes : \E cmd : Made(a, type, <<>>, "", cmd) /\ KnownCommand(c, cmd)
    <3>1. \E type \in CommandTypes : \E src \in {"", "model"} : \E cmd : Made(a, type, <<>>, src, cmd) /\ KnownCommand(c, cmd)
      BY <2>1
    <3>2. IsAction(a)
      BY <2>1 DEF Made
    <3> QED BY <3>1, <3>2 DEF Sorted, SortOf
  <2>2. CASE a = NoAction \/ (a = Answer /\ CommandWaits(c))
    BY <1>0, <1>00, <2>2 DEF Finishes
  <2> QED BY <1>6, <2>1, <2>2, CommandSorts
<1> QED BY <1>1, <1>2, <1>3, <1>4, <1>5, <1>6

LEMMA ToolCallingSorted ==
    ASSUME NEW c, NEW t, NEW p, Proposable(t)
    PROVE  Sorted(c, t, p, ToolCallingStep(c, t))
<1> DEFINE a == ToolCallingStep(c, t)
<1>1. CASE t # NoAction /\ Allowed(c, t)
  <2>1. a = t
    BY <1>1 DEF ToolCallingStep, If
  <2>2. IsAction(a)
    BY <2>1, Proposals
  <2> QED BY <1>1, <2>1, <2>2 DEF Sorted, SortOf
<1>2. CASE ~(t # NoAction /\ Allowed(c, t))
  <2>1. a = NoAction
    BY <1>2 DEF ToolCallingStep, If
  <2> QED BY <2>1, NoActionGathers, GathersSorted
<1> QED BY <1>1, <1>2

LEMMA AskSorted ==
    ASSUME NEW c, NEW t, NEW p, NEW src, Evidenced(c)
    PROVE  Sorted(c, t, p, Ask(src))
<1>1. Made(Ask(src), "ask_clarification", <<>>, src, "")
  BY ActionsMade
<1> QED BY <1>1 DEF Made, Sorted, SortOf

LEMMA EvidenceStepsSorted ==
    ASSUME NEW c, NEW t, NEW p, c.req \in Requests, Logs(c),
           NEW a \in {ExplicitTargetStep(c), SymbolStep(c), PolicyEvidenceStep(c),
                      SearchCandidateStep(c), ProjectSummaryStep(c)}
    PROVE  Sorted(c, t, p, a)
<1>1. CASE Gathers(a)
  BY <1>1, GathersSorted
<1>2. CASE a = ExplicitTargetStep(c) /\ ~Gathers(a)
  <2>1. CASE a = Answer /\ ~EditRequested(c.req)
    BY <2>1, NoActionGathers DEF Sorted, SortOf, Finishes
  <2>2. CASE a = Ask("clarification") /\ Has(c, {"search_files"})
    <3>1. Evidenced(c)
      BY <2>2 DEF Has, Evidenced, MinEvidence
    <3> QED BY <2>2, <3>1, AskSorted
  <2> QED BY <1>2, <2>1, <2>2, ExplicitTargetSorts
<1>3. CASE a = PolicyEvidenceStep(c) /\ ~Gathers(a)
  <2>1. a = Ask("clarification") /\ ShouldAsk(c)
    BY <1>3, PolicySorts, EvidenceGathers
  <2>2. Evidenced(c)
    <3>1. Looked(c) => MinEvidence(c)
      BY DEF Looked, Has, MinEvidence
    <3> QED BY <2>1, <3>1 DEF ShouldAsk, Evidenced
  <2> QED BY <2>1, <2>2, AskSorted
<1> QED BY <1>1, <1>2, <1>3, EvidenceSteps

LEMMA ModelPlannerSorted ==
    ASSUME NEW c, NEW t, NEW p, Proposable(p)
    PROVE  Sorted(c, t, p, ModelPlannerStep(c, p))
<1> DEFINE a == ModelPlannerStep(c, p)
<1> SUFFICES Sorted(c, t, p, a)
  OBVIOUS
<1>0. IsAction(p)
  BY Proposals
<1>1. CASE a = NoAction \/ Gathers(a)
  BY <1>1, NoActionGathers, GathersSorted
<1>2. CASE \E files : Made(a, "generate_change_set", files, "model", "")
  BY <1>2 DEF Sorted, SortOf, Made
<1>3. CASE p.type \in CommandActions /\ Commands(a, p, "model")
  <2>1. KnownCommand(c, p.cmd)
    BY <1>3, Proposals DEF KnownCommand
  <2>2. PICK type \in CommandTypes : Made(a, type, <<>>, "model", p.cmd)
    BY <1>3 DEF Commands, CommandTypes
  <2>3. \E ty \in CommandTypes : \E src \in {"", "model"} : \E cmd : Made(a, ty, <<>>, src, cmd) /\ KnownCommand(c, cmd)
    BY <2>1, <2>2
  <2> QED BY <2>2, <2>3 DEF Sorted, SortOf, Made
<1>4. CASE a = p /\ p.type \in {"search_files", "search_text", "inspect_repo_tree"}
  BY <1>0, <1>4 DEF Sorted, SortOf, Searches
<1>5. CASE /\ a = p /\ p.type = "ask_clarification"
           /\ Has(c, Searches \cup {"inspect_repo_tree"}) \/ p.src = "approval"
  <2>1. Has(c, Searches \cup {"inspect_repo_tree"}) => Evidenced(c)
    BY DEF Has, Evidenced, MinEvidence, Searches
  <2> QED BY <1>0, <1>5, <2>1 DEF Sorted, SortOf
<1>6. CASE IsAction(a) /\ a.type = "final_answer" /\ a.src = "model_planner"
  BY <1>6 DEF Sorted, SortOf
<1>7. \/ a = NoAction \/ Gathers(a)
      \/ \E files : Made(a, "generate_change_set", files, "model", "")
      \/ p.type \in CommandActions /\ Commands(a, p, "model")
      \/ a = p /\ p.type \in {"search_files", "search_text", "inspect_repo_tree"}
      \/ /\ a = p /\ p.type = "ask_clarification"
         /\ Has(c, Searches \cup {"inspect_repo_tree"}) \/ p.src = "approval"
      \/ IsAction(a) /\ a.type = "final_answer" /\ a.src = "model_planner"
  BY ModelPlannerSorts
<1> HIDE DEF a
<1> QED BY <1>1, <1>2, <1>3, <1>4, <1>5, <1>6, <1>7

\* the edit step asks only when the policy has nothing to gather that is new
LEMMA EditStepSorted ==
    ASSUME NEW c, NEW t, NEW p, c.req \in Requests, Logs(c), ~Usable(c, PolicyEvidenceStep(c))
    PROVE  Sorted(c, t, p, EditStep(c))
<1> DEFINE a == EditStep(c)
<1>1. CASE a = NoAction
  BY <1>1, NoActionGathers, GathersSorted
<1>2. CASE a = Ask("clarification")
  <2>1. Made(a, "ask_clarification", <<>>, "clarification", "")
    BY <1>2, ActionsMade
  <2>2. Usable(c, a)
    <3>1. a # NoAction
      BY <2>1, ActionsMade DEF Made
    <3> QED BY <2>1, <3>1 DEF Usable, Repeats, Made, Searches
  <2>3. PolicyEvidenceStep(c) = NextEvidence(c)
    BY <1>2, <2>2, PolicySorts
  <2>4. CASE NextEvidence(c) = NoAction
    BY <1>2, <2>4, EvidenceRunsOut, AskSorted DEF Evidenced
  <2>5. CASE NextEvidence(c) # NoAction
    <3>1. Repeats(c, NextEvidence(c))
      BY <2>3, <2>5 DEF Usable
    <3>2. IsFiniteSet(DOMAIN c.taken)
      BY LogsAre DEF Logs
    <3>3. MinEvidence(c)
      BY <3>1, <3>2, EvidenceGathers, RepeatsWereTaken
    <3> QED BY <1>2, <3>3, AskSorted DEF Evidenced
  <2> QED BY <2>4, <2>5
<1>3. CASE \E type \in Generates : Made(a, type, Targets(c), "", "") /\ OwnEdit(c, Targets(c))
  <2>1. PICK type \in Generates : Made(a, type, Targets(c), "", "") /\ OwnEdit(c, Targets(c))
    BY <1>3
  <2>2. \E ty \in Generates : \E files : Made(a, ty, files, "", "") /\ OwnEdit(c, files)
    BY <2>1
  <2> QED BY <2>1, <2>2 DEF Sorted, SortOf, Made
<1>4. CASE a = Answer /\ Has(c, Generates)
  BY <1>4, NoActionGathers DEF Sorted, SortOf, Finishes
<1>5. \/ a = NoAction \/ a = Ask("clarification")
      \/ \E type \in Generates : Made(a, type, Targets(c), "", "") /\ OwnEdit(c, Targets(c))
      \/ a = Answer /\ Has(c, Generates)
  BY EditSorts DEF OwnEdit
<1> HIDE DEF a
<1> QED BY <1>1, <1>2, <1>3, <1>4, <1>5 DEF a

\* an edit that is asked for is never out of proposals
LEMMA EditStepUsable ==
    ASSUME NEW c, EditRequested(c.req), ~c.req.planning
    PROVE  Usable(c, EditStep(c))
<1> DEFINE a == EditStep(c)
<1>1. \/ a = Ask("clarification") \/ a = Answer
      \/ \E type \in Generates : Made(a, type, Targets(c), "", "")
  BY EditSorts
<1>2. a.type \in {"ask_clarification", "final_answer"} \cup Generates /\ a.cmd = ""
  <2>1. Made(Ask("clarification"), "ask_clarification", <<>>, "clarification", "")
    BY ActionsMade
  <2>2. Made(Answer, "final_answer", <<>>, "", "")
    BY ActionsMade
  <2> HIDE DEF a
  <2> QED BY <1>1, <2>1, <2>2 DEF Made
<1>3. a # NoAction
  BY <1>2, ActionsMade DEF Made, Generates
<1> QED BY <1>2, <1>3 DEF Usable, Repeats, Searches, Generates

LEMMA ChosenIsSorted ==
    ASSUME NEW c, NEW t, NEW p, c.req \in Requests, Logs(c), Proposable(t), Proposable(p)
    PROVE  Sorted(c, t, p, FirstUsable(c, Choosers(c, t, p)))
<1> DEFINE cs == Choosers(c, t, p)
           a == FirstUsable(c, cs)
<1>0. DOMAIN cs = 1..19 /\ 19 \in Nat
  BY ChooserTable
<1>00. /\ cs[1] = Recovering(c) /\ cs[2] = WriteDone(c) /\ cs[3] = OffTopicStep(c)
       /\ cs[4] = MetaStep(c) /\ cs[5] = FetchStep(c) /\ cs[6] = MissingFileStep(c)
       /\ cs[7] = CommitStep(c) /\ cs[8] = BranchStep(c) /\ cs[9] = CreateFileStep(c)
       /\ cs[10] = CommandStep(c) /\ cs[11] = CoveredStep(c) /\ cs[12] = ToolCallingStep(c, t)
       /\ cs[13] = ExplicitTargetStep(c) /\ cs[14] = SymbolStep(c)
       /\ cs[15] = PolicyEvidenceStep(c) /\ cs[16] = ModelPlannerStep(c, p)
       /\ cs[17] = SearchCandidateStep(c) /\ cs[18] = EditStep(c)
       /\ cs[19] = ProjectSummaryStep(c)
  BY ChooserTable
<1>1. \/ a = Answer /\ \A i \in 1..19 : ~Usable(c, cs[i])
      \/ \E i \in 1..19 : /\ a = cs[i]
                          /\ \A j \in 1..19 : j < i => ~Usable(c, cs[j])
  <2> HIDE DEF cs
  <2> QED BY <1>0, UsableIsChosen
<1> HIDE DEF cs, a
<1>2. CASE a = Answer /\ \A i \in 1..19 : ~Usable(c, cs[i])
  <2>1. ~Usable(c, EditStep(c))
    BY <1>00, <1>2
  <2>2. Finishes(c)
    BY <2>1, EditStepUsable DEF Finishes
  <2> QED BY <1>2, <2>2, NoActionGathers DEF a, cs, Sorted, SortOf
<1>3. ASSUME NEW i \in 1..19, a = cs[i], \A j \in 1..19 : j < i => ~Usable(c, cs[j])
      PROVE  Sorted(c, t, p, a)
  <2>1. CASE i \in 1..11
    <3>1. a \in {Recovering(c), WriteDone(c), OffTopicStep(c), MetaStep(c), FetchStep(c),
                 CommitStep(c), BranchStep(c), MissingFileStep(c), CreateFileStep(c),
                 CommandStep(c), CoveredStep(c)}
      <4>1. i \in {1, 2, 3, 4, 5, 6, 7, 8, 9, 10, 11}
        BY <2>1
      <4> QED BY <1>00, <1>3, <4>1
    <3> QED BY <3>1, RequestStepsSorted
  <2>2. CASE i = 12
    BY <1>00, <1>3, <2>2, ToolCallingSorted
  <2>3. CASE i \in {13, 14, 15, 17, 19}
    <3>1. a \in {ExplicitTargetStep(c), SymbolStep(c), PolicyEvidenceStep(c),
                 SearchCandidateStep(c), ProjectSummaryStep(c)}
      BY <1>00, <1>3, <2>3
    <3> QED BY <3>1, EvidenceStepsSorted
  <2>4. CASE i = 16
    BY <1>00, <1>3, <2>4, ModelPlannerSorted
  <2>5. CASE i = 18
    <3>1. ~Usable(c, PolicyEvidenceStep(c))
      BY <1>00, <1>3, <2>5
    <3> QED BY <1>00, <1>3, <2>5, <3>1, EditStepSorted
  <2>6. i \in 1..11 \/ i = 12 \/ i \in {13, 14, 15, 17, 19} \/ i = 16 \/ i = 18
    BY <1>3
  <2> QED BY <2>1, <2>2, <2>3, <2>4, <2>5, <2>6
<1> QED BY <1>1, <1>2, <1>3 DEF a, cs

----------------------------------------------------------------------------
\* What the agent decides on is new.  A list of files that is made from a list
LEMMA LogOfItsRange ==
    ASSUME NEW s, IsLog(s)
    PROVE  s \in Seq(Range(s))
<1>1. PICK T : s \in Seq(T)
  BY DEF IsLog
<1>2. Len(s) \in Nat /\ s \in [1..Len(s) -> T]
  BY <1>1, LenProperties
<1>3. s \in [1..Len(s) -> Range(s)]
  BY <1>2 DEF Range
<1> QED BY <1>2, <1>3, SeqDef

LEMMA RangeOfLog ==
    ASSUME NEW T, NEW s \in Seq(T)
    PROVE  /\ IsLog(s) /\ Range(s) \subseteq T
           /\ s # <<>> => Range(s) # {}
<1>1. Len(s) \in Nat /\ DOMAIN s = 1..Len(s)
  BY LenProperties
<1>2. \A i \in 1..Len(s) : s[i] \in T
  BY ElementOfSeq
<1>3. s # <<>> => 1 \in 1..Len(s)
  BY <1>1, EmptySeq
<1> QED BY <1>1, <1>2, <1>3 DEF IsLog, Range

\* none of the files was read
News(h, s) == IsLog(s) /\ Range(s) \cap FilesRead(h) = {}

LEMMA UnreadIsNews ==
    ASSUME NEW h, NEW s, IsLog(s)
    PROVE  News(h, Unread(h, s))
<1> DEFINE T == Range(s) \cap (Range(s) \ FilesRead(h))
           u == Unread(h, s)
<1>1. u \in Seq(T)
  BY LogOfItsRange, KeepKeeps DEF Unread
<1>2. T \cap FilesRead(h) = {}
  OBVIOUS
<1> HIDE DEF T, u
<1>3. IsLog(u) /\ Range(u) \subseteq T
  BY <1>1, RangeOfLog
<1> QED BY <1>2, <1>3 DEF News, u

LEMMA PartsAreNews ==
    ASSUME NEW h, NEW s, News(h, s)
    PROVE  /\ \A S : News(h, Keep(s, S))
           /\ \A n \in Nat : News(h, Leading(s, n))
<1>1. IsLog(s) /\ s \in Seq(Range(s))
  BY LogOfItsRange DEF News
<1>2. ASSUME NEW S PROVE News(h, Keep(s, S))
  <2>1. Keep(s, S) \in Seq(Range(s) \cap S)
    BY <1>1, KeepKeeps
  <2> QED BY <2>1, RangeOfLog DEF News
<1>3. ASSUME NEW n \in Nat PROVE News(h, Leading(s, n))
  BY <1>1, LeadingOf DEF News
<1> QED BY <1>2, <1>3

\* the searches rank files of the repository
FoundInText(h) == \A i \in DOMAIN h.results : DOMAIN h.results[i].found \subseteq TextFiles

LEMMA HitsAreText ==
    ASSUME NEW h, IsLog(h.results), FoundInText(h), NEW least
    PROVE  DOMAIN Hits(h, least) \subseteq TextFiles
<1> DEFINE worth(i) == {f \in DOMAIN h.results[i].found : h.results[i].found[f] >= least}
           useful   == {i \in DOMAIN h.results : worth(i) # {}}
           last     == CHOOSE i \in useful : \A j \in useful : j <= i
<1>1. CASE useful = {}
  <2>1. Hits(h, least) = [f \in {} |-> 0]
    BY <1>1 DEF Hits
  <2> QED BY <2>1
<1>2. CASE useful # {}
  <2>1. Hits(h, least) = [f \in worth(last) |-> h.results[last].found[f]]
    BY <1>2 DEF Hits
  <2>2. useful \subseteq DOMAIN h.results /\ Len(h.results) \in Nat /\ DOMAIN h.results = 1..Len(h.results)
    BY LogsAre
  <2>3. useful \in SUBSET (1..Len(h.results))
    BY <2>2
  <2>4. last \in useful
    <3> HIDE DEF useful
    <3>1. \E i \in useful : \A j \in useful : j <= i
      BY <1>2, <2>2, <2>3, MaxOf
    <3> QED BY <3>1
  <2>5. worth(last) \subseteq TextFiles
    BY <2>2, <2>4 DEF FoundInText
  <2> QED BY <2>1, <2>5
<1> QED BY <1>1, <1>2

LEMMA BestOfText ==
    ASSUME NEW score, DOMAIN score \subseteq TextFiles
    PROVE  IsLog(Best(score))
<1>1. IsFiniteSet(DOMAIN score)
  BY TextFilesAreFinite, FS_Subset
<1> QED BY <1>1, BestIsASequence DEF IsLog

LEMMA KeepIsLog ==
    ASSUME NEW s, IsLog(s), NEW S
    PROVE  IsLog(Keep(s, S))
  BY KeepKeeps DEF IsLog

LEMMA InventoriesAreLogs ==
    /\ IsLog(Files) /\ IsLog(LikelyFiles) /\ IsLog(FirstBatch)
<1>1. Files \in Seq(TextFiles)
  BY EditTargetsAssumption
<1>2. \A groups : InGroups(groups) \in Seq(TextFiles)
  <2> TAKE groups
  <2>1. Keep(Files, InGroup(groups)) \in Seq(TextFiles \cap InGroup(groups))
    BY <1>1, KeepKeeps
  <2>2. TextFiles \cap InGroup(groups) \subseteq TextFiles
    OBVIOUS
  <2> QED BY <2>1, <2>2, SeqMonotonic DEF InGroups
<1>3. \A groups : \A n \in Nat : Leading(InGroups(groups), n) \in Seq(TextFiles)
  BY <1>2, LeadingIsPart
<1>4. IsLog(LikelyFiles)
  BY <1>3 DEF LikelyFiles, IsLog
<1>5. \A s, t \in Seq(TextFiles) : s \o t \in Seq(TextFiles)
  BY ConcatProperties
<1>6. IsLog(FirstBatch)
  <2> DEFINE part(groups, n) == Leading(InGroups(groups), n)
             modules    == part({"app/service modules"}, 1)
             components == part({"UI/components"}, 1)
             two  == part({"docs"}, 2) \o part({"configs"}, 2) \o part({"entrypoints"}, 2)
             all  == two \o modules \o components \o part({"tests"}, 1) \o part({"other"}, 1)
  <2>1. \A groups : part(groups, 1) \in Seq(TextFiles) /\ part(groups, 2) \in Seq(TextFiles)
    BY <1>3
  <2>2. FirstBatch = Leading(all, 8)
    BY DEF FirstBatch
  <2> HIDE DEF part
  <2>3. modules \in Seq(TextFiles) /\ components \in Seq(TextFiles)
    BY <2>1, Zenon
  <2> HIDE DEF modules, components
  <2>4. two \in Seq(TextFiles)
    BY <1>5, <2>1
  <2> HIDE DEF two
  <2>5. all \in Seq(TextFiles)
    BY <1>5, <2>1, <2>3, <2>4
  <2> HIDE DEF all
  <2> QED BY <2>2, <2>5, LeadingIsPart DEF IsLog
<1> QED BY <1>1, <1>4, <1>6 DEF IsLog

\* what a recursion over 1..n stays in, step after step
LEMMA StaysIn ==
    ASSUME NEW n \in Nat, NEW V, NEW f, f[0] \in V,
           \A i \in 1..n : f[i-1] \in V => f[i] \in V
    PROVE  f[n] \in V
<1> DEFINE K == {k \in Nat : k <= n => f[k] \in V}
<1>1. 0 \in K
  OBVIOUS
<1>2. ASSUME NEW k \in K PROVE k + 1 \in K
  <2> SUFFICES ASSUME k + 1 <= n PROVE f[k+1] \in V
    OBVIOUS
  <2>1. k \in Nat /\ k + 1 \in 1..n /\ k <= n /\ (k + 1) - 1 = k
    OBVIOUS
  <2> QED BY <2>1
<1>3. K \in SUBSET Nat
  OBVIOUS
<1>4. n \in K
  <2> HIDE DEF K
  <2> QED BY <1>1, <1>2, <1>3, NatIsReached
<1> QED BY <1>4

\* the files that names stand for, one name after the other
Nearests == {Nearest(files) : files \in SUBSET (TextFiles \cup Opaque)}
Locate(c, name, v) ==
    LET new == Matches(c, name) \ Range(v) IN IF new = {} THEN v ELSE Append(v, Nearest(new))
Locates(f, c, names) ==
    f = [i \in 0..Len(names) |-> IF i = 0 THEN <<>> ELSE Locate(c, names[i], f[i-1])]

LEMMA LocateAddsAFile ==
    ASSUME NEW c, NEW name, NEW v \in Seq(Nearests)
    PROVE  Locate(c, name, v) \in Seq(Nearests)
<1> DEFINE new == Matches(c, name) \ Range(v)
<1>1. Matches(c, name) \subseteq TextFiles \cup Opaque
  BY DEF Matches
<1>2. Nearest(new) \in Nearests
  BY <1>1 DEF Nearests
<1>3. Append(v, Nearest(new)) \in Seq(Nearests)
  BY <1>2, AppendProperties
<1> QED BY <1>3 DEF Locate

LEMMA LocatingIsDefined ==
    ASSUME NEW c, NEW names, Len(names) \in Nat
    PROVE  \E f : Locates(f, c, names)
<1> DEFINE n == Len(names)
           V == Seq(Nearests)
           g == [x \in V \X (1..n) |-> Locate(c, names[x[2]], x[1])]
<1>1. <<>> \in V
  BY EmptySeq
<1>2. g \in [V \X (1..n) -> V]
  BY LocateAddsAFile
<1>3. \A v \in V, i \in 1..n : g[<<v, i>>] = Locate(c, names[i], v)
  OBVIOUS
<1> HIDE DEF V, g, n
<1>4. PICK f \in [0..n -> V] : GoesOn(f, g, n)
  BY <1>1, <1>2, RecursionIsDefined DEF n
<1> DEFINE rhs == [i \in 0..n |-> IF i = 0 THEN <<>> ELSE Locate(c, names[i], f[i-1])]
<1>5. ASSUME NEW i \in 0..n PROVE f[i] = rhs[i]
  <2>1. CASE i = 0
    BY <1>4, <2>1 DEF GoesOn
  <2>2. CASE i # 0
    <3>1. i \in 1..n /\ i - 1 \in 0..n
      BY <2>2 DEF n
    <3>2. f[i-1] \in V
      BY <1>4, <3>1
    <3>3. f[i] = g[<<f[i-1], i>>]
      BY <1>4, <3>1 DEF GoesOn
    <3>4. rhs[i] = Locate(c, names[i], f[i-1])
      BY <2>2
    <3> QED BY <1>3, <3>1, <3>2, <3>3, <3>4
  <2> QED BY <2>1, <2>2
<1>6. f = rhs
  <2>1. DOMAIN rhs = 0..n /\ rhs = [i \in 0..n |-> rhs[i]]
    OBVIOUS
  <2>2. f = [i \in 0..n |-> f[i]]
    BY <1>4
  <2> HIDE DEF rhs
  <2> QED BY <1>5, <2>1, <2>2
<1> QED BY <1>6 DEF Locates, n

LEMMA LocatedIsLog ==
    ASSUME NEW c, NEW names, IsLog(names)
    PROVE  IsLog(Located(c, names))
<1> DEFINE f == CHOOSE h : Locates(h, c, names)
           n == Len(names)
           V == Seq(Nearests)
<1>0. n \in Nat
  BY LogsAre
<1>1. Located(c, names) = f[n]
  BY DEF Located, Locates, Locate
<1>2. Locates(f, c, names)
  <2>1. \E h : Locates(h, c, names)
    BY <1>0, LocatingIsDefined
  <2> HIDE DEF Locates
  <2> QED BY <2>1
<1> HIDE DEF f, n
<1> DEFINE rhs == [i \in 0..n |-> IF i = 0 THEN <<>> ELSE Locate(c, names[i], f[i-1])]
<1>3. f = rhs
  BY <1>2 DEF Locates, n
<1>4. rhs[0] = <<>> /\ \A i \in 1..n : rhs[i] = Locate(c, names[i], f[i-1])
  BY <1>0
<1>5. f[0] = <<>> /\ \A i \in 1..n : f[i] = Locate(c, names[i], f[i-1])
  <2> HIDE DEF rhs
  <2> QED BY <1>3, <1>4
<1>6. f[0] \in V /\ \A i \in 1..n : f[i-1] \in V => f[i] \in V
  BY <1>5, EmptySeq, LocateAddsAFile
<1>7. f[n] \in V
  <2> HIDE DEF V
  <2> QED BY <1>0, <1>6, StaysIn
<1> QED BY <1>1, <1>7 DEF IsLog

\* what the searches returned, one search after the other
Returned(c) == UNION {Foremosts(c.results[i].found) : i \in DOMAIN c.results}
Add(found, v) == v \o Keep(Best(found), DOMAIN found \ Range(v))
Gatherings(f, c) ==
    f = [i \in 0..Len(c.results) |-> IF i = 0 THEN <<>> ELSE Add(c.results[i].found, f[i-1])]

LEMMA AddingKeepsFound ==
    ASSUME NEW c, FoundInText(c), NEW i \in DOMAIN c.results, NEW v \in Seq(Returned(c))
    PROVE  Add(c.results[i].found, v) \in Seq(Returned(c))
<1> DEFINE found == c.results[i].found
           more == Keep(Best(found), DOMAIN found \ Range(v))
<1>1. IsFiniteSet(DOMAIN found)
  BY TextFilesAreFinite, FS_Subset DEF FoundInText
<1>2. Best(found) \in Seq(Foremosts(found))
  BY <1>1, BestIsASequence
<1>3. Foremosts(found) \cap (DOMAIN found \ Range(v)) \subseteq Returned(c)
  BY DEF Returned
<1>4. more \in Seq(Returned(c))
  <2>1. more \in Seq(Foremosts(found) \cap (DOMAIN found \ Range(v)))
    BY <1>2, KeepKeeps
  <2> HIDE DEF more
  <2> QED BY <1>3, <2>1, SeqMonotonic
<1> QED BY <1>4, ConcatProperties DEF Add

LEMMA GatheringIsDefined ==
    ASSUME NEW c, IsLog(c.results), FoundInText(c)
    PROVE  \E f : Gatherings(f, c)
<1> DEFINE n == Len(c.results)
           V == Seq(Returned(c))
           g == [x \in V \X (1..n) |-> Add(c.results[x[2]].found, x[1])]
<1>0. n \in Nat /\ DOMAIN c.results = 1..n
  BY LogsAre
<1>1. <<>> \in V
  BY EmptySeq
<1>2. g \in [V \X (1..n) -> V]
  BY <1>0, AddingKeepsFound
<1>3. \A v \in V, i \in 1..n : g[<<v, i>>] = Add(c.results[i].found, v)
  OBVIOUS
<1> HIDE DEF V, g, n
<1>4. PICK f \in [0..n -> V] : GoesOn(f, g, n)
  BY <1>0, <1>1, <1>2, RecursionIsDefined
<1> DEFINE rhs == [i \in 0..n |-> IF i = 0 THEN <<>> ELSE Add(c.results[i].found, f[i-1])]
<1>5. ASSUME NEW i \in 0..n PROVE f[i] = rhs[i]
  <2>1. CASE i = 0
    BY <1>4, <2>1 DEF GoesOn
  <2>2. CASE i # 0
    <3>1. i \in 1..n /\ i - 1 \in 0..n
      BY <1>0, <2>2
    <3>2. f[i-1] \in V
      BY <1>4, <3>1
    <3>3. f[i] = g[<<f[i-1], i>>]
      BY <1>4, <3>1 DEF GoesOn
    <3>4. rhs[i] = Add(c.results[i].found, f[i-1])
      BY <2>2
    <3> QED BY <1>3, <3>1, <3>2, <3>3, <3>4
  <2> QED BY <2>1, <2>2
<1>6. f = rhs
  <2>1. DOMAIN rhs = 0..n /\ rhs = [i \in 0..n |-> rhs[i]]
    OBVIOUS
  <2>2. f = [i \in 0..n |-> f[i]]
    BY <1>4
  <2> HIDE DEF rhs
  <2> QED BY <1>5, <2>1, <2>2
<1> QED BY <1>6 DEF Gatherings, n

LEMMA FoundIsLog ==
    ASSUME NEW c, IsLog(c.results), FoundInText(c)
    PROVE  IsLog(Found(c))
<1> DEFINE f == CHOOSE h : Gatherings(h, c)
           n == Len(c.results)
           V == Seq(Returned(c))
<1>0. n \in Nat /\ DOMAIN c.results = 1..n
  BY LogsAre
<1>1. Found(c) = f[n]
  BY DEF Found, Gatherings, Add
<1>2. Gatherings(f, c)
  <2>1. \E h : Gatherings(h, c)
    BY GatheringIsDefined
  <2> HIDE DEF Gatherings
  <2> QED BY <2>1
<1> HIDE DEF f, n
<1> DEFINE rhs == [i \in 0..n |-> IF i = 0 THEN <<>> ELSE Add(c.results[i].found, f[i-1])]
<1>3. f = rhs
  BY <1>2 DEF Gatherings, n
<1>4. rhs[0] = <<>> /\ \A i \in 1..n : rhs[i] = Add(c.results[i].found, f[i-1])
  BY <1>0
<1>5. f[0] = <<>> /\ \A i \in 1..n : f[i] = Add(c.results[i].found, f[i-1])
  <2> HIDE DEF rhs
  <2> QED BY <1>3, <1>4
<1>6. f[0] \in V /\ \A i \in 1..n : f[i-1] \in V => f[i] \in V
  BY <1>0, <1>5, EmptySeq, AddingKeepsFound
<1>7. f[n] \in V
  <2> HIDE DEF V
  <2> QED BY <1>0, <1>6, StaysIn
<1> QED BY <1>1, <1>7 DEF IsLog

ListsFiles(a) == a.type = "read_file" => IsLog(a.files)

\* an action that was not taken before, nor any like it
Unlike(c, a) == \A i \in DOMAIN c.taken : ~Alike(c.taken[i], a)

\* what a chooser may propose: none, an end, what the model wants, or something new
Fresh(c, a) ==
    /\ ListsFiles(a)
    /\ \/ a = NoAction \/ a.type \in Ends \/ a.src \in {"model", "model_planner"}
       \/ a.type = "read_file" /\ News(c, a.files)
       \/ a.type # "read_file" /\ Unlike(c, a)

\* a run whose records can be reasoned about
Sound(c) == c.req \in Requests /\ Logs(c) /\ FoundInText(c)

LEMMA ReadingsAreFresh ==
    ASSUME NEW c, NEW files, News(c, files)
    PROVE  Fresh(c, Read(files))
<1>1. Made(Read(files), "read_file", files, "", "")
  BY ActionsMade
<1> QED BY <1>1 DEF Made, Fresh, ListsFiles, News

LEMMA NewTypesAreFresh ==
    ASSUME NEW c, NEW a, a.type # "read_file", ~Has(c, {a.type})
    PROVE  Fresh(c, a)
<1>1. \A i \in DOMAIN c.taken : c.taken[i].type # a.type
  BY DEF Has
<1> QED BY <1>1 DEF Fresh, ListsFiles, Unlike, Alike, Signature

LEMMA NewCommandsAreFresh ==
    ASSUME NEW c, NEW a, a.type # "read_file",
           \A i \in DOMAIN c.taken : ~(c.taken[i].type = a.type /\ c.taken[i].cmd = a.cmd)
    PROVE  Fresh(c, a)
  BY DEF Fresh, ListsFiles, Unlike, Alike, Signature

LEMMA SearchesAreFresh ==
    ASSUME NEW c, NEW queries, queries # {}, ~SearchedFor(c, queries), NEW src
    PROVE  Fresh(c, Search(queries, src))
<1> DEFINE a == Search(queries, src)
<1>1. a.type = "search_files" /\ a.queries = queries
  BY DEF Search, Do, NoAction
<1>2. ASSUME NEW i \in DOMAIN c.taken, Signature(c.taken[i]) = Signature(a) PROVE FALSE
  <2>1. c.taken[i].type = a.type /\ c.taken[i].queries = a.queries
    BY <1>2 DEF Signature
  <2> QED BY <1>1, <2>1 DEF SearchedFor
<1> HIDE DEF a
<1>3. Fresh(c, a)
  BY <1>1, <1>2 DEF Fresh, ListsFiles, Unlike, Alike
<1> QED BY <1>3 DEF a

LEMMA TextSearchesAreFresh ==
    ASSUME NEW c, NEW query, ~SearchedText(c, query), NEW src
    PROVE  Fresh(c, SearchText(query, src))
<1> DEFINE a == SearchText(query, src)
<1>1. a.type = "search_text" /\ a.queries = {query}
  BY DEF SearchText, Do, NoAction
<1>2. ASSUME NEW i \in DOMAIN c.taken, Signature(c.taken[i]) = Signature(a) PROVE FALSE
  <2>1. c.taken[i].type = a.type /\ c.taken[i].queries = a.queries
    BY <1>2 DEF Signature
  <2> QED BY <1>1, <2>1 DEF SearchedText
<1> HIDE DEF a
<1>3. Fresh(c, a)
  BY <1>1, <1>2 DEF Fresh, ListsFiles, Unlike, Alike
<1> QED BY <1>3 DEF a

\* the inventory of a broad task is taken once
LEMMA InventoryIsFresh ==
    ASSUME NEW c, ~HasInventory(c), NEW queries
    PROVE  Fresh(c, Search(queries, "broad_inventory"))
<1>1. Made(Search(queries, "broad_inventory"), "search_files", <<>>, "broad_inventory", "")
  BY ActionsMade
<1> QED BY <1>1 DEF Made, Fresh, ListsFiles, Unlike, Alike, HasInventory

LEMMA PlainlyFresh ==
    ASSUME NEW c
    PROVE  /\ Fresh(c, NoAction) /\ Fresh(c, Answer) /\ Fresh(c, Do("final_answer"))
           /\ \A src : Fresh(c, Ask(src))
           /\ ~Has(c, {"inspect_repo_tree"}) => Fresh(c, Do("inspect_repo_tree"))
<1>1. Fresh(c, NoAction) /\ Fresh(c, Do("final_answer")) /\ Fresh(c, Answer)
  BY ActionsMade DEF Made, Fresh, ListsFiles, Ends
<1>2. \A src : Fresh(c, Ask(src))
  <2> TAKE src
  <2>1. Made(Ask(src), "ask_clarification", <<>>, src, "")
    BY ActionsMade
  <2> QED BY <2>1 DEF Made, Fresh, ListsFiles, Ends
<1>3. ~Has(c, {"inspect_repo_tree"}) => Fresh(c, Do("inspect_repo_tree"))
  <2>1. Made(Do("inspect_repo_tree"), "inspect_repo_tree", <<>>, "", "")
    BY ActionsMade
  <2> QED BY <2>1, NewTypesAreFresh DEF Made
<1> QED BY <1>1, <1>2, <1>3

\* the lists of files that the choosers read from
LEMMA ListsAreNews ==
    ASSUME NEW c, Sound(c)
    PROVE  /\ News(c, Unread(c, Files)) /\ News(c, Unread(c, LikelyFiles)) /\ News(c, Unread(c, FirstBatch))
           /\ \A least : News(c, Unread(c, Best(Hits(c, least))))
           /\ News(c, Unread(c, PromotableFiles(c)))
           /\ News(c, Unread(c, c.req.prior))
<1>1. News(c, Unread(c, Files)) /\ News(c, Unread(c, LikelyFiles)) /\ News(c, Unread(c, FirstBatch))
  BY InventoriesAreLogs, UnreadIsNews
<1>2. \A least : News(c, Unread(c, Best(Hits(c, least))))
  <2> TAKE least
  <2>1. DOMAIN Hits(c, least) \subseteq TextFiles
    BY HitsAreText DEF Sound, Logs
  <2> QED BY <2>1, BestOfText, UnreadIsNews
<1>3. News(c, Unread(c, PromotableFiles(c)))
  <2> DEFINE score == Scores(c, {})
  <2>1. DOMAIN score \subseteq TextFiles
    BY DEF Scores, Considered
  <2>2. PromotableFiles(c) = Keep(Best(score), Able(score) \ AlreadyRead(c))
    BY DEF PromotableFiles, Promotable
  <2> HIDE DEF score
  <2>3. IsLog(PromotableFiles(c))
    BY <2>1, <2>2, BestOfText, KeepIsLog
  <2> QED BY <2>3, UnreadIsNews
<1>4. News(c, Unread(c, c.req.prior))
  <2>1. IsLog(c.req.prior)
    BY ChooserAssumption DEF Sound, IsLog
  <2> QED BY <2>1, UnreadIsNews
<1> QED BY <1>1, <1>2, <1>3, <1>4

\* some of them
LEMMA FewAreFresh ==
    ASSUME NEW c, NEW files, News(c, files)
    PROVE  /\ Fresh(c, Read(files))
           /\ \A n \in Nat : Fresh(c, Read(Leading(files, n)))
           /\ \A S : \A n \in Nat : Fresh(c, Read(Leading(Keep(files, S), n)))
<1>1. \A S : News(c, Keep(files, S))
  BY PartsAreNews
<1>2. \A S : \A n \in Nat : News(c, Leading(Keep(files, S), n))
  BY <1>1, PartsAreNews
<1>3. \A n \in Nat : News(c, Leading(files, n))
  BY PartsAreNews
<1> QED BY <1>2, <1>3, ReadingsAreFresh

LEMMA SummaryIsFresh == ASSUME NEW c, Sound(c) PROVE Fresh(c, SummaryEvidence(c))
<1>1. Fresh(c, Read(Leading(Unread(c, LikelyFiles), 4)))
  BY ListsAreNews, FewAreFresh
<1> QED BY <1>1, PlainlyFresh DEF SummaryEvidence

LEMMA BroadIsFresh == ASSUME NEW c, Sound(c) PROVE Fresh(c, BroadEvidence(c))
<1>1. Fresh(c, Read(Unread(c, FirstBatch)))
  BY ListsAreNews, FewAreFresh
<1>2. ~HasInventory(c) => Fresh(c, Search({"*.py", "*.md"}, "broad_inventory"))
  BY InventoryIsFresh
<1> QED BY <1>1, <1>2, PlainlyFresh DEF BroadEvidence

LEMMA ContextIsFresh == ASSUME NEW c, Sound(c) PROVE Fresh(c, EditContext(c))
<1> DEFINE context == Keep(Unread(c, LikelyFiles), InGroup({"docs", "configs"}))
           modules == Keep(Unread(c, Best(Hits(c, 1))), InGroup({"app/service modules", "UI/components"}))
<1>1. Fresh(c, Read(Leading(context, 2)))
  BY ListsAreNews, FewAreFresh
<1>2. Fresh(c, Read(Leading(modules, 2)))
  <2> DEFINE S == InGroup({"app/service modules", "UI/components"})
  <2>1. News(c, Unread(c, Best(Hits(c, 1))))
    BY ListsAreNews
  <2> HIDE DEF S
  <2> QED BY <2>1, FewAreFresh
<1>3. EditContext(c) \in {Read(Leading(context, 2)), Read(Leading(modules, 2)), NoAction}
  BY Zenon DEF EditContext
<1> HIDE DEF context, modules
<1> QED BY <1>1, <1>2, <1>3, PlainlyFresh

LEMMA EditEvidenceIsFresh == ASSUME NEW c, Sound(c) PROVE Fresh(c, EditEvidence(c))
<1>1. /\ Fresh(c, Read(Leading(Unread(c, PromotableFiles(c)), 3)))
      /\ Fresh(c, Read(Leading(Unread(c, Best(Hits(c, 1))), 3)))
      /\ Fresh(c, Read(Leading(Unread(c, LikelyFiles), 4)))
  BY ListsAreNews, FewAreFresh
<1>2. ~SearchedFor(c, Discovery(c.req)) => Fresh(c, Search(Discovery(c.req), "edit_discovery"))
  <2>1. Discovery(c.req) # {}
    BY DEF Discovery
  <2> QED BY <2>1, SearchesAreFresh
<1> QED BY <1>1, <1>2, PlainlyFresh, ContextIsFresh DEF EditEvidence

LEMMA FollowUpIsFresh == ASSUME NEW c, Sound(c) PROVE Fresh(c, FollowUpEvidence(c))
<1> DEFINE topic == c.req.symbols \cup (IF c.req.terms THEN {"words"} ELSE {})
           found == Unread(c, Best(Hits(c, 1)))
<1>1. Fresh(c, Read(Leading(Unread(c, c.req.prior), 4))) /\ Fresh(c, Read(Leading(found, 3)))
  BY ListsAreNews, FewAreFresh
<1>2. topic # {} /\ ~SearchedFor(c, topic) => Fresh(c, Search(topic, "followup_discovery"))
  BY SearchesAreFresh
<1>3. \/ FollowUpEvidence(c) \in {Read(Leading(Unread(c, c.req.prior), 4)), Read(Leading(found, 3)), NoAction}
      \/ /\ FollowUpEvidence(c) = Search(topic, "followup_discovery")
         /\ topic # {} /\ ~SearchedFor(c, topic)
  BY DEF FollowUpEvidence
<1> HIDE DEF topic, found
<1> QED BY <1>1, <1>2, <1>3, PlainlyFresh

LEMMA EvidenceIsFresh == ASSUME NEW c, Sound(c) PROVE Fresh(c, NextEvidence(c))
  BY SummaryIsFresh, BroadIsFresh, EditEvidenceIsFresh, FollowUpIsFresh DEF NextEvidence

LEMMA RecoveryIsFresh ==
    ASSUME NEW c, Sound(c), NEW a, NEW r
    PROVE  Fresh(c, Recovery(c, a, r))
<1>1. Fresh(c, RecoverText(c, a))
  <2> DEFINE broader == {Broader(x) : x \in a.queries} \ ({""} \cup ZeroResult(c))
             any == CHOOSE x \in broader : TRUE
  <2>1. ~SearchedFor(c, {"words"}) => Fresh(c, Search({"words"}, "recovery_filename_search"))
    BY SearchesAreFresh
  <2>2. (\E x \in broader : ~SearchedText(c, x)) => Fresh(c, SearchText(any, "recovery_broaden_search"))
    <3> SUFFICES ASSUME NEW x \in broader, ~SearchedText(c, x) PROVE ~SearchedText(c, any)
      BY TextSearchesAreFresh
    <3>1. broader \subseteq {"user"}
      BY DEF Broader
    <3>2. any \in broader
      OBVIOUS
    <3> QED BY <3>1, <3>2
  <2>3. \/ RecoverText(c, a) = Search({"words"}, "recovery_filename_search") /\ ~SearchedFor(c, {"words"})
        \/ RecoverText(c, a) = SearchText(any, "recovery_broaden_search") /\ \E x \in broader : ~SearchedText(c, x)
        \/ RecoverText(c, a) = NextEvidence(c)
    BY DEF RecoverText
  <2> HIDE DEF broader, any
  <2> QED BY <2>1, <2>2, <2>3, EvidenceIsFresh
<1>2. Fresh(c, RecoverFiles(c, a))
  <2>1. Fresh(c, Read(Leading(Unread(c, LikelyFiles), 4)))
    BY ListsAreNews, FewAreFresh
  <2> QED BY <2>1, PlainlyFresh, EvidenceIsFresh DEF RecoverFiles
<1>3. Fresh(c, RecoverRead(c, a))
  <2> DEFINE names == {Base(f) : f \in Range(a.files)}
  <2>1. names # {} /\ ~SearchedFor(c, names) => Fresh(c, Search(names, "recovery_read_basename"))
    BY SearchesAreFresh
  <2>2. \/ RecoverRead(c, a) = Search(names, "recovery_read_basename") /\ names # {} /\ ~SearchedFor(c, names)
        \/ RecoverRead(c, a) = NextEvidence(c)
    BY DEF RecoverRead
  <2> HIDE DEF names
  <2> QED BY <2>1, <2>2, EvidenceIsFresh
<1> QED BY <1>1, <1>2, <1>3, PlainlyFresh, EvidenceIsFresh DEF Recovery

\* The choosers.  Those that look at the request and the command
LEMMA PlainStepsAreFresh ==
    ASSUME NEW c
    PROVE  Fresh(c, WriteDone(c)) /\ Fresh(c, OffTopicStep(c)) /\ Fresh(c, MetaStep(c)) /\ Fresh(c, CoveredStep(c))
<1>1. Plainly(WriteDone(c)) /\ Plainly(OffTopicStep(c)) /\ Plainly(MetaStep(c)) /\ Plainly(CoveredStep(c))
  BY PlainSteps
<1>2. Fresh(c, NoAction) /\ Fresh(c, Answer)
  BY PlainlyFresh
<1> QED BY <1>1, <1>2, Zenon DEF Plainly

LEMMA GatedStepsAreFresh ==
    ASSUME NEW c
    PROVE  Fresh(c, FetchStep(c)) /\ Fresh(c, CommitStep(c)) /\ Fresh(c, BranchStep(c))
<1>1. ASSUME NEW type \in Gated, ~Has(c, {type}) PROVE Fresh(c, Do(type))
  <2>1. Made(Do(type), type, <<>>, "", "")
    BY ActionsMade
  <2>2. Do(type).type = type /\ Do(type).type # "read_file"
    BY <2>1 DEF Made, Gated
  <2> QED BY <1>1, <2>2, NewTypesAreFresh
<1>2. Fresh(c, NoAction)
  BY PlainlyFresh
<1> QED BY <1>1, <1>2 DEF FetchStep, CommitStep, BranchStep, If, Gated

LEMMA FileStepsAreFresh ==
    ASSUME NEW c
    PROVE  Fresh(c, MissingFileStep(c)) /\ Fresh(c, CreateFileStep(c))
<1>1. Fresh(c, NoAction) /\ Fresh(c, Ask("missing"))
  BY PlainlyFresh
<1>2. ~Has(c, {"search_files"}) => Fresh(c, Search(Range(c.req.named), "missing"))
  <2>1. Made(Search(Range(c.req.named), "missing"), "search_files", <<>>, "missing", "")
    BY ActionsMade
  <2> QED BY <2>1, NewTypesAreFresh DEF Made
<1>3. ~Has(c, Generates) => Fresh(c, Generate("generate_change_set", NewFile(c)))
  <2>1. Made(Generate("generate_change_set", NewFile(c)), "generate_change_set", NewFile(c), "", "")
    BY ActionsMade
  <2>2. ~Has(c, Generates) => ~Has(c, {"generate_change_set"})
    BY DEF Has, Generates
  <2> QED BY <2>1, <2>2, NewTypesAreFresh DEF Made
<1> QED BY <1>1, <1>2, <1>3 DEF MissingFileStep, CreateFileStep, If

LEMMA CommandStepIsFresh ==
    ASSUME NEW c, Sound(c)
    PROVE  Fresh(c, CommandStep(c))
<1> DEFINE cmd   == Needed(c)
           unrun == {i \in DOMAIN c.results : c.results[i].ro /\ ~HasRun(c, c.taken[i].cmd)}
           first == c.taken[Max(unrun)].cmd
           run(x) == Run("run_approved_command", x)
           a     == CommandStep(c)
<1>1. \/ a = run(first) /\ unrun # {}
      \/ a = NoAction \/ a = Answer
      \/ a = PreviewOf(cmd) /\ PreviewsOf(c, cmd) = {}
      \/ a = run(cmd) /\ cmd # ""
      \/ a = PreviewOf("git status") /\ PreviewsOf(c, "git status") = {}
  BY DEF CommandStep
<1>2. \A x : ~HasRun(c, x) => Fresh(c, run(x))
  <2> TAKE x
  <2>1. Made(run(x), "run_approved_command", <<>>, "", x)
    BY ActionsMade
  <2>2. run(x).type = "run_approved_command" /\ run(x).cmd = x
    BY <2>1 DEF Made
  <2> HIDE DEF run
  <2> QED BY <2>2, NewCommandsAreFresh DEF HasRun
<1>3. \A x : PreviewsOf(c, x) = {} => Fresh(c, PreviewOf(x))
  <2> TAKE x
  <2> DEFINE type == IF x \in GitCommands THEN "inspect_git_state" ELSE "preview_command"
  <2>1. Made(Run(type, x), type, <<>>, "", x)
    BY ActionsMade
  <2>2. type \in Previews /\ type # "read_file"
    BY DEF Previews
  <2>3. PreviewOf(x) = Run(type, x)
    BY DEF PreviewOf
  <2> HIDE DEF type
  <2>4. PreviewOf(x).type = type /\ PreviewOf(x).cmd = x
    BY <2>1, <2>3 DEF Made
  <2> QED BY <2>2, <2>4, NewCommandsAreFresh DEF PreviewsOf
<1>4. cmd # "" => ~HasRun(c, cmd)
  BY DEF Needed
<1>5. unrun # {} => ~HasRun(c, first)
  <2> SUFFICES ASSUME unrun # {} PROVE ~HasRun(c, first)
    OBVIOUS
  <2>1. Len(c.results) \in Nat /\ DOMAIN c.results = 1..Len(c.results)
    BY LogsAre DEF Sound, Logs
  <2>2. unrun \in SUBSET (1..Len(c.results))
    BY <2>1
  <2>3. Max(unrun) \in unrun
    <3> HIDE DEF unrun
    <3> QED BY <2>1, <2>2, MaxOf
  <2> QED BY <2>3
<1>6. Fresh(c, NoAction) /\ Fresh(c, Answer)
  BY PlainlyFresh
<1> HIDE DEF cmd, unrun, first, run, a
<1>7. Fresh(c, a)
  BY <1>1, <1>2, <1>3, <1>4, <1>5, <1>6
<1> QED BY <1>7 DEF a

\* those that look at the evidence
LEMMA EvidenceStepsAreFresh ==
    ASSUME NEW c, Sound(c)
    PROVE  /\ Fresh(c, Recovering(c)) /\ Fresh(c, SymbolStep(c))
           /\ Fresh(c, PolicyEvidenceStep(c)) /\ Fresh(c, ProjectSummaryStep(c))
<1>0. Fresh(c, NoAction) /\ Fresh(c, Ask("clarification"))
  BY PlainlyFresh
<1>1. Fresh(c, Recovering(c))
  BY <1>0, RecoveryIsFresh DEF Recovering
<1>2. Fresh(c, SymbolStep(c))
  BY <1>0, SearchesAreFresh DEF SymbolStep, If
<1>3. Fresh(c, PolicyEvidenceStep(c))
  BY <1>0, EvidenceIsFresh DEF PolicyEvidenceStep, If
<1>4. Fresh(c, ProjectSummaryStep(c))
  <2> DEFINE unread == Keep(Unread(c, Files), {"README.md", "package.json", "pyproject.toml"})
  <2>1. Fresh(c, Read(Leading(unread, 4)))
    <3>1. News(c, Unread(c, Files))
      BY ListsAreNews
    <3>2. \A S : Fresh(c, Read(Leading(Keep(Unread(c, Files), S), 4)))
      BY <3>1, FewAreFresh
    <3> QED BY <3>2, Zenon
  <2>2. ~Has(c, {"inspect_repo_tree"}) => Fresh(c, Do("inspect_repo_tree"))
    BY PlainlyFresh
  <2>3. \/ ProjectSummaryStep(c) \in {Read(Leading(unread, 4)), NoAction}
        \/ ProjectSummaryStep(c) = Do("inspect_repo_tree") /\ ~Has(c, {"inspect_repo_tree"})
    BY Zenon DEF ProjectSummaryStep, If
  <2> HIDE DEF unread
  <2> QED BY <1>0, <2>1, <2>2, <2>3
<1> QED BY <1>1, <1>2, <1>3, <1>4

LEMMA ExplicitTargetIsFresh ==
    ASSUME NEW c, Sound(c)
    PROVE  Fresh(c, ExplicitTargetStep(c))
<1> DEFINE a       == ExplicitTargetStep(c)
           found   == Located(c, c.req.named)
           missing == Unlocated(c)
           S == {f \in DOMAIN Hits(c, 35) : \E n \in Range(missing) : Base(n) = Base(f)}
           candidates == Keep(Unread(c, Best(Hits(c, 35))), S)
<1>1. \/ a = Read(Unread(c, found))
      \/ a = Search(Range(missing), "") /\ missing # <<>> /\ ~SearchedFor(c, Range(missing))
      \/ a = Read(Leading(candidates, 1))
      \/ a = Answer \/ a = Ask("clarification") \/ a = NoAction
  BY DEF ExplicitTargetStep, If
<1>2. IsLog(c.req.named)
  BY ChooserAssumption DEF Sound, IsLog
<1>3. Fresh(c, Read(Unread(c, found)))
  BY <1>2, LocatedIsLog, UnreadIsNews, ReadingsAreFresh
<1>4. missing # <<>> => Range(missing) # {}
  <2>1. c.req.named \in Seq(Range(c.req.named))
    BY <1>2, LogOfItsRange
  <2>2. \A T : Keep(c.req.named, T) \in Seq(Range(c.req.named) \cap T)
    BY <2>1, KeepKeeps
  <2>3. \E T : missing \in Seq(T)
    BY <2>2 DEF Unlocated
  <2> HIDE DEF missing
  <2> QED BY <2>3, RangeOfLog
<1>5. Fresh(c, Read(Leading(candidates, 1)))
  <2>1. News(c, Unread(c, Best(Hits(c, 35))))
    BY ListsAreNews
  <2> HIDE DEF S
  <2> QED BY <2>1, FewAreFresh
<1>6. Fresh(c, NoAction) /\ Fresh(c, Answer) /\ Fresh(c, Ask("clarification"))
  BY PlainlyFresh
<1> HIDE DEF a, found, missing, candidates
<1>7. Fresh(c, a)
  BY <1>1, <1>3, <1>4, <1>5, <1>6, SearchesAreFresh
<1> QED BY <1>7 DEF a

LEMMA SearchCandidateIsFresh ==
    ASSUME NEW c, Sound(c)
    PROVE  Fresh(c, SearchCandidateStep(c))
<1> DEFINE least  == IF EditRequested(c.req) THEN 18 ELSE 1
           few    == IF EditRequested(c.req) THEN 1 ELSE 4
           ranked == Leading(Best(Hits(c, least)), 8)
           listed == IF ranked # <<>> THEN ranked ELSE Leading(Found(c), 8)
<1>1. SearchCandidateStep(c) \in {Read(Leading(Unread(c, listed), few)), NoAction}
  BY DEF SearchCandidateStep, If
<1>2. IsLog(ranked)
  <2> HIDE DEF least
  <2>1. DOMAIN Hits(c, least) \subseteq TextFiles
    BY HitsAreText DEF Sound, Logs
  <2> QED BY <2>1, BestOfText, LeadingOf
<1>3. IsLog(Leading(Found(c), 8))
  BY FoundIsLog, LeadingOf DEF Sound, Logs
<1>4. IsLog(listed)
  <2> HIDE DEF ranked
  <2> QED BY <1>2, <1>3
<1>5. few \in Nat
  OBVIOUS
<1> HIDE DEF listed, few
<1>6. Fresh(c, Read(Leading(Unread(c, listed), few)))
  BY <1>4, <1>5, UnreadIsNews, FewAreFresh
<1> QED BY <1>1, <1>6, PlainlyFresh

\* of few generations there is at most one
LEMMA OneGeneration ==
    ASSUME NEW c, Logs(c), Cardinality(Generations(c)) < 2,
           NEW i \in Generations(c), NEW j \in Generations(c)
    PROVE  i = j
<1>1. IsFiniteSet(Generations(c))
  <2>1. IsFiniteSet(DOMAIN c.taken)
    BY LogsAre DEF Logs
  <2> QED BY <2>1, FS_Subset DEF Generations
<1> SUFFICES ASSUME i # j PROVE FALSE
  OBVIOUS
<1>2. IsFiniteSet({i}) /\ Cardinality({i}) = 1 /\ {i, j} = {i} \cup {j}
  BY FS_Singleton
<1>3. IsFiniteSet({i, j}) /\ Cardinality({i, j}) = 2
  <2>1. /\ IsFiniteSet({i} \cup {j})
        /\ Cardinality({i} \cup {j}) = IF j \in {i} THEN Cardinality({i}) ELSE Cardinality({i}) + 1
    <3>1. IsFiniteSet({i})
      BY <1>2
    <3> QED BY <3>1, FS_AddElement
  <2>2. j \notin {i}
    OBVIOUS
  <2>3. {i, j} = {i} \cup {j}
    BY Zenon
  <2> QED BY <1>2, <2>1, <2>2, <2>3
<1>4. Cardinality({i, j}) <= Cardinality(Generations(c)) /\ Cardinality(Generations(c)) \in Nat
  BY <1>1, FS_Subset, FS_CardinalityType
<1> QED BY <1>3, <1>4

LEMMA EditStepIsFresh ==
    ASSUME NEW c, Sound(c)
    PROVE  Fresh(c, EditStep(c))
<1> DEFINE a == EditStep(c)
           other == IF ~Has(c, {"generate_edit"}) THEN "generate_edit" ELSE "generate_change_set"
<1>1. \/ a = NoAction \/ a = Answer \/ a = Ask("clarification")
      \/ a = Generate("generate_edit", Targets(c)) /\ ~Has(c, Generates)
      \/ a = Generate(other, Targets(c)) /\ Cardinality(Generations(c)) < 2
  BY DEF EditStep, Prepare, Targets
<1>2. \A type \in Generates : ~Has(c, {type}) => Fresh(c, Generate(type, Targets(c)))
  <2> TAKE type \in Generates
  <2>1. Made(Generate(type, Targets(c)), type, Targets(c), "", "")
    BY ActionsMade
  <2> QED BY <2>1, NewTypesAreFresh DEF Made, Generates
<1>3. "generate_edit" \in Generates /\ other \in Generates
  BY DEF Generates
<1>4. ~Has(c, Generates) => ~Has(c, {"generate_edit"})
  BY DEF Has, Generates
<1>5. Cardinality(Generations(c)) < 2 => ~Has(c, {other})
  <2> SUFFICES ASSUME Cardinality(Generations(c)) < 2, Has(c, {other}) PROVE FALSE
    OBVIOUS
  <2>1. other = "generate_change_set" /\ Has(c, {"generate_edit"})
    OBVIOUS
  <2>2. PICK i \in DOMAIN c.taken : c.taken[i].type = "generate_change_set"
    BY <2>1 DEF Has
  <2>3. PICK j \in DOMAIN c.taken : c.taken[j].type = "generate_edit"
    BY <2>1 DEF Has
  <2>4. i \in Generations(c) /\ j \in Generations(c)
    BY <2>2, <2>3 DEF Generations, Generates
  <2> QED BY <2>2, <2>3, <2>4, OneGeneration DEF Sound
<1>6. Fresh(c, NoAction) /\ Fresh(c, Answer) /\ Fresh(c, Ask("clarification"))
  BY PlainlyFresh
<1> HIDE DEF a, other
<1>7. Fresh(c, a)
  BY <1>1, <1>2, <1>3, <1>4, <1>5, <1>6
<1> QED BY <1>7 DEF a

\* and the model
LEMMA ToolCallingIsFresh ==
    ASSUME NEW c, NEW t, Proposable(t)
    PROVE  Fresh(c, ToolCallingStep(c, t))
<1>1. t # NoAction => Fresh(c, t)
  <2> SUFFICES ASSUME t # NoAction PROVE Fresh(c, t)
    OBVIOUS
  <2>1. IsLog(t.files)
    BY ChooserAssumption DEF Proposable, IsLog
  <2> QED BY <2>1, Proposals DEF Fresh, ListsFiles, Ends
<1> QED BY <1>1, PlainlyFresh DEF ToolCallingStep, If

LEMMA ModelEditsAreFresh ==
    ASSUME NEW c, NEW m \in Menu
    PROVE  Fresh(c, ModelEdits(c, m))
<1> DEFINE found == Located(c, m.files)
           valid == SelectTargets(c, Range(found))
           read(files) == [Read(files) EXCEPT !.src = "model"]
           gen == [Generate("generate_change_set", valid) EXCEPT !.src = "model"]
           search == Search(Range(m.files) \cup m.queries, "model_planner")
           a == ModelEdits(c, m)
<1>1. IsLog(found)
  BY ChooserAssumption, LocatedIsLog DEF IsLog
<1>2. IsLog(valid)
  BY TargetsAreRead DEF IsLog
<1> HIDE DEF found, valid
<1>3. \A files : IsLog(files) => Fresh(c, read(files))
  <2> TAKE files
  <2>1. Made(Read(files), "read_file", files, "", "")
    BY ActionsMade
  <2>2. read(files).src = "model" /\ read(files).files = files
    BY <2>1 DEF Made, IsAction
  <2> HIDE DEF read
  <2> QED BY <2>2 DEF Fresh, ListsFiles
<1>4. Fresh(c, gen)
  <2>1. Made(Generate("generate_change_set", valid), "generate_change_set", valid, "", "")
    BY ActionsMade
  <2>2. gen.src = "model" /\ gen.type = "generate_change_set"
    BY <2>1 DEF Made, IsAction
  <2> HIDE DEF gen
  <2> QED BY <2>2 DEF Fresh, ListsFiles
<1>5. Fresh(c, search)
  <2>1. Made(search, "search_files", <<>>, "model_planner", "")
    BY ActionsMade
  <2> HIDE DEF search
  <2> QED BY <2>1 DEF Made, Fresh, ListsFiles
<1>6. IsLog(Unread(c, found)) /\ IsLog(Unread(c, valid))
  BY <1>1, <1>2, UnreadIsNews DEF News
<1>7. a \in {search, NoAction, gen, read(Unread(c, found)), read(Unread(c, valid))}
  BY DEF ModelEdits, ModelTargets, If, found, valid
<1> HIDE DEF read, gen, search, a
<1>8. Fresh(c, a)
  BY <1>3, <1>4, <1>5, <1>6, <1>7, PlainlyFresh
<1> QED BY <1>8 DEF a

LEMMA ModelPlannerIsFresh ==
    ASSUME NEW c, NEW p, Proposable(p)
    PROVE  Fresh(c, ModelPlannerStep(c, p))
<1> DEFINE a == ModelPlannerStep(c, p)
<1>0. Fresh(c, NoAction)
  BY PlainlyFresh
<1>1. CASE p.type \in Generates \cup {"read_file"}
  <2>1. a = ModelEdits(c, p)
    BY <1>1 DEF ModelPlannerStep, Generates, Previews
  <2>2. p # NoAction
    <3>1. NoAction.type = "none"
      BY DEF NoAction
    <3> QED BY <1>1, <3>1 DEF Generates
  <2> QED BY <2>1, <2>2, ModelEditsAreFresh DEF Proposable
<1>2. CASE p.type \notin Generates \cup {"read_file"}
  <2>1. a.type # "read_file" /\ (a = NoAction \/ a.type \in Ends \/ a.src \in {"model", "model_planner"})
    <3>1. p = NoAction \/ (p.src = "model" \/ (p.src = "approval" /\ p.type \in Ends))
      BY Proposals DEF Ends
    <3>2. NoAction.type = "none"
      BY DEF NoAction
    <3>3. \/ a = NoAction \/ a = p \/ Commands(a, p, "model")
          \/ IsAction(a) /\ a.type = "final_answer" /\ a.src = "model_planner"
      <4>1. IsAction(p)
        BY Proposals
      <4>2. ModelRuns(c, p) = NoAction \/ Commands(ModelRuns(c, p), p, "model")
        BY ModelRunsSorts
      <4>3. p.type = "final_answer" => [p EXCEPT !.src = "model_planner"].type = "final_answer"
                                       /\ [p EXCEPT !.src = "model_planner"].src = "model_planner"
                                       /\ IsAction([p EXCEPT !.src = "model_planner"])
        BY <4>1 DEF IsAction
      <4>4. p.type = "final_answer" => a = NoAction \/ a = [p EXCEPT !.src = "model_planner"]
        BY DEF ModelPlannerStep, Generates, Previews, If
      <4>5. p.type \in Previews \cup {"run_approved_command"} => a = NoAction \/ a = ModelRuns(c, p)
        BY DEF ModelPlannerStep, Generates, Previews, If
      <4>6. p.type \notin Previews \cup {"run_approved_command", "final_answer"} => a = NoAction \/ a = p
        <5>1. CASE p.type = "search_files"
          BY <5>1 DEF ModelPlannerStep, Generates, Previews, If
        <5>2. CASE p.type = "search_text"
          BY <5>2 DEF ModelPlannerStep, Generates, Previews, If
        <5>3. CASE p.type \in {"ask_clarification", "inspect_repo_tree"}
          BY <5>3 DEF ModelPlannerStep, Generates, Previews, If
        <5>4. CASE p.type \notin {"search_files", "search_text", "ask_clarification", "inspect_repo_tree"}
          BY <1>2, <5>4 DEF ModelPlannerStep
        <5> QED BY <5>1, <5>2, <5>3, <5>4
      <4> HIDE DEF a
      <4> QED BY <4>2, <4>3, <4>4, <4>5, <4>6
    <3> HIDE DEF a
    <3> QED BY <1>2, <3>1, <3>2, <3>3 DEF Commands, Made, Previews
  <2> HIDE DEF a
  <2>2. Fresh(c, a)
    BY <1>0, <2>1 DEF Fresh, ListsFiles
  <2> QED BY <2>2 DEF a
<1> QED BY <1>1, <1>2

\* whichever chooser it was
LEMMA ChoosersAreFresh ==
    ASSUME NEW c, NEW t, NEW p, Sound(c), Proposable(t), Proposable(p)
    PROVE  LET a == FirstUsable(c, Choosers(c, t, p)) IN
           Fresh(c, a) /\ (a = Answer \/ Usable(c, a))
<1> DEFINE cs == Choosers(c, t, p)
           a == FirstUsable(c, cs)
<1>0. DOMAIN cs = 1..19 /\ 19 \in Nat
  BY ChooserTable
<1>1. /\ cs[1] = Recovering(c) /\ cs[2] = WriteDone(c) /\ cs[3] = OffTopicStep(c)
      /\ cs[4] = MetaStep(c) /\ cs[5] = FetchStep(c) /\ cs[6] = MissingFileStep(c)
      /\ cs[7] = CommitStep(c) /\ cs[8] = BranchStep(c) /\ cs[9] = CreateFileStep(c)
      /\ cs[10] = CommandStep(c) /\ cs[11] = CoveredStep(c) /\ cs[12] = ToolCallingStep(c, t)
      /\ cs[13] = ExplicitTargetStep(c) /\ cs[14] = SymbolStep(c)
      /\ cs[15] = PolicyEvidenceStep(c) /\ cs[16] = ModelPlannerStep(c, p)
      /\ cs[17] = SearchCandidateStep(c) /\ cs[18] = EditStep(c)
      /\ cs[19] = ProjectSummaryStep(c)
  BY ChooserTable
<1>2. /\ Fresh(c, Recovering(c)) /\ Fresh(c, SymbolStep(c))
      /\ Fresh(c, PolicyEvidenceStep(c)) /\ Fresh(c, ProjectSummaryStep(c))
      /\ Fresh(c, ExplicitTargetStep(c)) /\ Fresh(c, SearchCandidateStep(c)) /\ Fresh(c, EditStep(c))
  BY EvidenceStepsAreFresh, ExplicitTargetIsFresh, SearchCandidateIsFresh, EditStepIsFresh
<1>3. /\ Fresh(c, WriteDone(c)) /\ Fresh(c, OffTopicStep(c)) /\ Fresh(c, MetaStep(c)) /\ Fresh(c, CoveredStep(c))
      /\ Fresh(c, FetchStep(c)) /\ Fresh(c, CommitStep(c)) /\ Fresh(c, BranchStep(c))
      /\ Fresh(c, MissingFileStep(c)) /\ Fresh(c, CreateFileStep(c)) /\ Fresh(c, CommandStep(c))
  BY PlainStepsAreFresh, GatedStepsAreFresh, FileStepsAreFresh, CommandStepIsFresh
<1>4. Fresh(c, ToolCallingStep(c, t)) /\ Fresh(c, ModelPlannerStep(c, p))
  BY ToolCallingIsFresh, ModelPlannerIsFresh
<1> HIDE DEF cs
<1>5. \A i \in 1..19 : Fresh(c, cs[i])
  <2> TAKE i \in 1..19
  <2>1. \/ i = 1 \/ i = 2 \/ i = 3 \/ i = 4 \/ i = 5 \/ i = 6 \/ i = 7 \/ i = 8 \/ i = 9 \/ i = 10
        \/ i = 11 \/ i = 12 \/ i = 13 \/ i = 14 \/ i = 15 \/ i = 16 \/ i = 17 \/ i = 18 \/ i = 19
    OBVIOUS
  <2> QED BY <1>1, <1>2, <1>3, <1>4, <2>1
<1>6. a = Answer \/ \E i \in 1..19 : a = cs[i] /\ Usable(c, cs[i])
  BY <1>0, UsableIsChosen
<1> HIDE DEF a
<1>7. Fresh(c, a) /\ (a = Answer \/ Usable(c, a))
  BY <1>5, <1>6, PlainlyFresh
<1> QED BY <1>7 DEF a, cs

----------------------------------------------------------------------------
\* what a tool may answer to an action
Fitting(a, r) ==
    /\ r.status \in {"success", "failed", "skipped", "waiting_approval"}
    /\ a.type \in CommandTypes => a.cmd \in DOMAIN Class
    /\ r.ro => a.type \in Previews
    /\ r.status = "skipped" => a.type \in Generates \cup {"read_file"}
    /\ a.type \in Previews /\ r.status = "success" => r.ro \/ r.auto
    /\ a.type \notin Generates => r.files = r.contents
    /\ DOMAIN r.found \subseteq TextFiles
    /\ a.type = "read_file" => r.status \in {"failed", "skipped"} \/ Range(a.files) \cap r.files # {}

KnowsItsCommand(a) == a.type \in CommandTypes => a.cmd \in DOMAIN Class

Working == {"choose", "run", "asked"}

\* what holds of every action and its result
AllFit(c) == \A i \in DOMAIN c.taken : Fitting(c.taken[i], c.results[i])

RunInv ==
    /\ IsRun(core) /\ core.req \in Requests /\ Logs(core)
    /\ AllFit(core)
    /\ IsAction(next) /\ KnowsItsCommand(next) /\ ListsFiles(next)
    /\ phase \in Working => core.stop = ""

\* one action more, and what came of it
Grows(c, d, a, r) ==
    /\ IsRun(d) /\ d.req = c.req
    /\ d.taken = Append(c.taken, a) /\ d.results = Append(c.results, r)
    /\ d.turn = c.turn /\ d.limit = c.limit /\ d.plan = UpdatePlan(c.req, c.plan, a, r)

\* nothing new was done
Rests(c, d) == IsRun(d) /\ d.req = c.req /\ d.taken = c.taken /\ d.results = c.results /\ d.changed = c.changed

\* a tool answers r to the action next
Observes(r) ==
    /\ phase = "run" /\ Grows(core, core', next, r) /\ Fitting(next, r)
    /\ core.changed => core'.changed
    /\ r.approved => core'.changed
    /\ IsAction(next') /\ next'.type \in {next.type, "apply_change_set"}
    /\ next' = next \/ next'.type = "apply_change_set"
    /\ phase' \in Working => core'.stop = ""
    /\ phase' \in Working \cup {"answer"}
    /\ next.type \in Generates => phase' = "answer" \/ r.changes \/ r.files = {}
    /\ phase' = "answer" => next.type \in Generates \/ core'.stop = "failed"
    /\ core'.stop # "needs_clarification"
    /\ next.type \in Previews /\ r.status = "waiting_approval" => phase' = "asked" /\ next' = next

Chooses(t, p) ==
    /\ phase = "choose" /\ Proposable(t) /\ Proposable(p)
    /\ next' = Chosen(Turned(core), t, p)
    /\ core' = Chose(Turned(core), next')
    /\ phase' = IF next'.type \in Ends THEN "answer" ELSE "run"

Stops ==
    /\ phase \in {"choose", "asked"} /\ Rests(core, core') /\ next' = next /\ phase' = "answer"
    /\ core'.stop \notin {"", "needs_clarification"}

\* the results that the tools give
LEMMA ResultsMade ==
    /\ NoResult.status = "skipped" /\ Success.status = "success" /\ Failure.status = "failed"
    /\ Waiting.status = "waiting_approval"
    /\ \A r \in {NoResult, Success, Failure, Waiting} :
          /\ DOMAIN r = {"status", "files", "contents", "found", "hit", "proposal", "changes", "error",
                         "ro", "auto", "approved", "ran"}
          /\ r.files = {} /\ r.contents = {} /\ r.ro = FALSE /\ r.auto = FALSE /\ r.approved = FALSE
          /\ r.changes = FALSE /\ r.ran = FALSE /\ DOMAIN r.found = {}
  BY DEF NoResult, Success, Failure, Waiting

----------------------------------------------------------------------------
\* a tool returns, and the loop goes on
LEMMA Returning ==
    ASSUME RunInv, phase = "run", NEW r, Fitting(next, r),
           core' = Observed(core, r) \/ core' = Counted(Observed(core, r)),
           phase' = "choose", next' = next, r.files = {} \/ next.type \notin Generates,
           r.approved = FALSE, r.status # "waiting_approval"
    PROVE  Observes(r)
<1>1. IsRun(core) /\ core.stop = ""
  BY DEF RunInv, Working
<1>2. /\ Grows(core, Observed(core, r), next, r) /\ Observed(core, r).stop = "" /\ Observed(core, r).changed = core.changed
  BY <1>1, ObservedIsRun DEF Grows
<1>3. \A c : IsRun(c) => /\ IsRun(Counted(c)) /\ Counted(c).taken = c.taken /\ Counted(c).results = c.results
                         /\ Counted(c).req = c.req /\ Counted(c).stop = c.stop /\ Counted(c).changed = c.changed
                         /\ Counted(c).turn = c.turn /\ Counted(c).limit = c.limit /\ Counted(c).plan = c.plan
  BY DEF IsRun, Counted, Fields
<1>4. /\ Grows(core, core', next, r) /\ core'.stop = "" /\ core'.changed = core.changed
  BY <1>1, <1>2, <1>3 DEF Grows
<1>5. IsAction(next')
  BY DEF RunInv
<1> QED BY <1>4, <1>5 DEF Observes, Working

LEMMA LookingSteps ==
    ASSUME RunInv, InspectTree \/ SearchFiles \/ SearchContents \/ ReadFiles
    PROVE  \E r : Observes(r)
<1>1. CASE InspectTree
  <2>1. Fitting(next, Success)
    BY <1>1, ResultsMade DEF InspectTree, Running, Fitting, CommandTypes, Previews, Generates
  <2> QED BY <1>1, <2>1, Returning, ResultsMade DEF InspectTree, Running, Return
<1>2. CASE SearchFiles
  <2>1. PICK f \in Finds : Return([Success EXCEPT !.found = f, !.hit = DOMAIN f # {}])
    BY <1>2 DEF SearchFiles
  <2> DEFINE r == [Success EXCEPT !.found = f, !.hit = DOMAIN f # {}]
  <2>2. r.status = "success" /\ r.files = {} /\ r.contents = {} /\ r.ro = FALSE /\ r.approved = FALSE
        /\ r.found = f
    BY DEF Success, NoResult
  <2> HIDE DEF r
  <2>3. Fitting(next, r)
    BY <1>2, <2>2, ChooserAssumption DEF SearchFiles, Running, Fitting, CommandTypes, Previews
  <2>4. Return(r)
    BY <2>1 DEF r
  <2> QED BY <1>2, <2>2, <2>3, <2>4, Returning DEF SearchFiles, Running, Return
<1>3. CASE SearchContents
  <2>1. PICK hit \in BOOLEAN : Return([Success EXCEPT !.hit = hit])
    BY <1>3 DEF SearchContents
  <2> DEFINE r == [Success EXCEPT !.hit = hit]
  <2>2. r.status = "success" /\ r.files = {} /\ r.contents = {} /\ r.ro = FALSE /\ r.approved = FALSE
        /\ DOMAIN r.found = {}
    BY DEF Success, NoResult
  <2> HIDE DEF r
  <2>3. Fitting(next, r)
    BY <1>3, <2>2 DEF SearchContents, Running, Fitting, CommandTypes, Previews
  <2>4. Return(r)
    BY <2>1 DEF r
  <2> QED BY <1>3, <2>2, <2>3, <2>4, Returning DEF SearchContents, Running, Return
<1>4. CASE ReadFiles
  <2> DEFINE text == Range(Leading(next.files, 8)) \cap TextFiles
             r == IF text = {} THEN NoResult ELSE [Success EXCEPT !.files = text, !.contents = text]
  <2>1. Return(r) /\ next.type = "read_file" /\ phase = "run"
    BY <1>4 DEF ReadFiles, Running
  <2>0. text \subseteq Range(next.files)
    BY <2>1, LeadingOf DEF RunInv, ListsFiles
  <2> HIDE DEF text
  <2>2. /\ r.status \in {"success", "skipped"} /\ r.files = r.contents /\ r.ro = FALSE /\ r.approved = FALSE
        /\ DOMAIN r.found = {} /\ (r.status = "success" => text # {} /\ r.files = text)
    BY DEF Success, NoResult
  <2> HIDE DEF r
  <2>3. Fitting(next, r)
    BY <2>0, <2>1, <2>2 DEF Fitting, CommandTypes, Previews
  <2>4. next.type \notin Generates
    BY <2>1 DEF Generates
  <2> QED BY <2>1, <2>2, <2>3, <2>4, Returning DEF Return
<1> QED BY <1>1, <1>2, <1>3, <1>4

\* a tool that waits for the user
LEMMA Pausing ==
    ASSUME RunInv, phase = "run", Pause(Observed(core, Waiting)), next.type \notin Generates \cup {"read_file"}
    PROVE  Observes(Waiting)
<1>1. IsRun(core) /\ core.stop = ""
  BY DEF RunInv, Working
<1>2. core' = Observed(core, Waiting) /\ phase' = "asked" /\ next' = next
  BY DEF Pause
<1>3. Grows(core, core', next, Waiting) /\ core'.stop = "" /\ core'.changed = core.changed
  BY <1>1, <1>2, ObservedIsRun DEF Grows
<1>4. Fitting(next, Waiting)
  BY ResultsMade DEF Fitting, RunInv, KnowsItsCommand
<1>5. IsAction(next')
  BY <1>2 DEF RunInv
<1> QED BY <1>2, <1>3, <1>4, <1>5, ResultsMade DEF Observes, Working

LEMMA CommandSteps ==
    ASSUME RunInv, PreviewCommand \/ WaitForUser \/ RunCommand \/ UseGatedTool \/ ToolFails
    PROVE  \E r : Observes(r)
<1>0. KnowsItsCommand(next)
  BY DEF RunInv
<1>1. CASE PreviewCommand
  <2>0. phase = "run" /\ next.type \in Previews /\ next.type \notin Generates \cup {"read_file"} /\ next.cmd \in DOMAIN Class
    BY <1>0, <1>1 DEF PreviewCommand, Running, Previews, Generates, KnowsItsCommand, CommandTypes
  <2>1. CASE Class[next.cmd] = "gated"
    BY <1>1, <2>0, <2>1, Pausing DEF PreviewCommand
  <2>2. CASE Class[next.cmd] # "gated"
    <3> DEFINE r == [Success EXCEPT !.ro = Class[next.cmd] = "read_only", !.auto = Class[next.cmd] = "auto"]
    <3>1. Class[next.cmd] \in {"read_only", "auto"}
      BY <2>0, <2>2, ChooserAssumption
    <3>2. r.status = "success" /\ r.files = {} /\ r.contents = {} /\ (r.ro \/ r.auto) /\ r.approved = FALSE
          /\ DOMAIN r.found = {}
      BY <3>1 DEF Success, NoResult
    <3>3. Return(r)
      BY <1>1, <2>2 DEF PreviewCommand
    <3> HIDE DEF r
    <3>4. Fitting(next, r)
      BY <2>0, <3>2 DEF Fitting
    <3> QED BY <2>0, <3>2, <3>3, <3>4, Returning DEF Return
  <2> QED BY <2>1, <2>2
<1>2. CASE WaitForUser
  <2>1. next.type \notin Generates \cup {"read_file"}
    BY <1>2 DEF WaitForUser, NeedsApproval, Generates
  <2> QED BY <1>2, <2>1, Pausing DEF WaitForUser
<1>3. CASE RunCommand
  <2>0. phase = "run" /\ next.type = "run_approved_command" /\ next.cmd \in DOMAIN Class
        /\ next.type \notin Generates \cup Previews \cup {"read_file"}
    BY <1>0, <1>3 DEF RunCommand, Running, Previews, Generates, KnowsItsCommand, CommandTypes
  <2>1. CASE Return([Success EXCEPT !.ran = TRUE])
    <3> DEFINE r == [Success EXCEPT !.ran = TRUE]
    <3>1. r.status = "success" /\ r.files = {} /\ r.contents = {} /\ r.ro = FALSE /\ r.approved = FALSE
          /\ DOMAIN r.found = {}
      BY DEF Success, NoResult
    <3>2. Return(r)
      BY <2>1
    <3> HIDE DEF r
    <3>3. Fitting(next, r)
      BY <2>0, <3>1 DEF Fitting
    <3> QED BY <2>0, <3>1, <3>2, <3>3, Returning DEF Return
  <2>2. CASE /\ core' = Counted(Observed(core, [Failure EXCEPT !.ran = TRUE]))
             /\ phase' = "choose" /\ next' = next
    <3> DEFINE r == [Failure EXCEPT !.ran = TRUE]
    <3>1. r.status = "failed" /\ r.files = {} /\ r.contents = {} /\ r.ro = FALSE /\ r.approved = FALSE
          /\ DOMAIN r.found = {}
      BY DEF Failure, NoResult
    <3>2. core' = Counted(Observed(core, r))
      BY <2>2
    <3> HIDE DEF r
    <3>3. Fitting(next, r)
      BY <2>0, <3>1 DEF Fitting
    <3> QED BY <2>0, <2>2, <3>1, <3>2, <3>3, Returning
  <2> QED BY <1>3, <2>1, <2>2 DEF RunCommand
<1>4. CASE UseGatedTool
  <2>1. phase = "run" /\ next.type \notin Generates \cup CommandTypes \cup {"read_file"}
    BY <1>4 DEF UseGatedTool, Running, Generates, CommandTypes, Previews
  <2>2. Fitting(next, Success)
    BY <2>1, ResultsMade DEF Fitting, CommandTypes
  <2> QED BY <1>4, <2>1, <2>2, Returning, ResultsMade DEF UseGatedTool, Return
<1>5. CASE ToolFails
  <2>1. Fitting(next, Failure)
    BY <1>0, ResultsMade DEF Fitting, KnowsItsCommand
  <2>2. phase = "run" /\ core' = Counted(Observed(core, Failure)) /\ phase' = "choose" /\ next' = next
    BY <1>5 DEF ToolFails
  <2> QED BY <2>1, <2>2, Returning, ResultsMade
<1> QED BY <1>1, <1>2, <1>3, <1>4, <1>5

LEMMA WritingStep ==
    ASSUME RunInv, WriteFile
    PROVE  \E r : Observes(r)
<1> DEFINE r == [Success EXCEPT !.approved = TRUE]
           c == Observed(core, r)
<1>1. IsRun(core) /\ core.stop = "" /\ IsAction(next)
  BY DEF RunInv, Working, WriteFile, Running
<1>2. phase = "run" /\ next.type = "create_file" /\ next' = next /\ phase' = "choose"
      /\ core' = [c EXCEPT !.changed = TRUE]
  BY DEF WriteFile, Running
<1>3. r.status = "success" /\ r.files = {} /\ r.contents = {} /\ r.ro = FALSE /\ DOMAIN r.found = {}
  BY DEF Success, NoResult
<1> HIDE DEF r
<1>4. Grows(core, c, next, r) /\ c.stop = ""
  BY <1>1, ObservedIsRun DEF Grows
<1> HIDE DEF c
<1>5. Grows(core, core', next, r) /\ core'.stop = "" /\ core'.changed = TRUE
  BY <1>2, <1>4 DEF Grows, IsRun, Fields
<1>6. Fitting(next, r)
  BY <1>2, <1>3 DEF Fitting, CommandTypes, Previews
<1>7. Observes(r)
  BY <1>1, <1>2, <1>3, <1>5, <1>6 DEF Observes, Working, Generates, Previews
<1> QED BY <1>7

\* a generation that ends the run
LEMMA ClosingGeneration ==
    ASSUME RunInv, phase = "run", NEW r, next.type \in Generates, Close(Generated(r)),
           r.status \in {"skipped", "failed"}, r.ro = FALSE, r.approved = FALSE, DOMAIN r.found = {}
    PROVE  Observes(r)
<1> DEFINE c == Observed(core, r)
<1>1. IsRun(core) /\ core.stop = "" /\ IsAction(next)
  BY DEF RunInv, Working
<1>2. core' = [c EXCEPT !.applied = FALSE] /\ phase' = "answer" /\ next' = next
  BY DEF Close, Generated
<1>3. Grows(core, c, next, r) /\ c.stop = "" /\ c.changed = core.changed
  BY <1>1, ObservedIsRun DEF Grows
<1> HIDE DEF c
<1>4. Grows(core, core', next, r) /\ core'.stop = "" /\ core'.changed = core.changed
  BY <1>2, <1>3 DEF Grows, IsRun, Fields
<1>5. Fitting(next, r)
  BY DEF Fitting, CommandTypes, Previews, Generates
<1>6. next.type \notin Previews
  BY DEF Previews, Generates
<1> QED BY <1>1, <1>2, <1>4, <1>5, <1>6 DEF Observes, Working

\* a generation that brings a proposal
LEMMA ProposingGeneration ==
    ASSUME RunInv, phase = "run", NEW r, next.type \in Generates, Proposes(Generated(Proposal(r))),
           DOMAIN r = DOMAIN NoResult, r.ro = FALSE, r.approved = FALSE, DOMAIN r.found = {}
    PROVE  Observes(Proposal(r))
<1> DEFINE s == Proposal(r)
           c == Observed(core, s)
           g == Generated(s)
<1>1. IsRun(core) /\ core.stop = "" /\ core.req \in Requests
  BY DEF RunInv, Working
<1>2. s.status = "success" /\ s.ro = FALSE /\ s.approved = FALSE /\ s.changes = TRUE
      /\ DOMAIN s.found = {}
  BY DEF Proposal, NoResult
<1> HIDE DEF s
<1>3. Grows(core, c, next, s) /\ c.stop = "" /\ c.changed = core.changed
  BY <1>1, ObservedIsRun DEF Grows
<1>4. g = [c EXCEPT !.applied = FALSE]
  BY DEF Generated
<1> HIDE DEF c
<1>5. Grows(core, g, next, s) /\ g.stop = "" /\ g.changed = core.changed
  BY <1>3, <1>4 DEF Grows, IsRun, Fields
<1>6. /\ core' = [g EXCEPT !.said = IF g.req.auto THEN @ ELSE "proposal"]
      /\ next' = [Do("apply_change_set") EXCEPT !.src = IF g.req.auto THEN "approved" ELSE ""]
      /\ phase' = IF g.req.auto THEN "run" ELSE "asked"
  BY DEF Proposes, s
<1> HIDE DEF g
<1>7. Grows(core, core', next, s) /\ core'.stop = "" /\ core'.changed = core.changed
  <2>1. IsRun(core') /\ core'.req = g.req /\ core'.taken = g.taken /\ core'.results = g.results
        /\ core'.stop = g.stop /\ core'.changed = g.changed
        /\ core'.turn = g.turn /\ core'.limit = g.limit /\ core'.plan = g.plan
    BY <1>5, <1>6 DEF Grows, IsRun, Fields, Sayings
  <2> QED BY <1>5, <2>1 DEF Grows
<1>8. IsAction(next') /\ next'.type = "apply_change_set"
  <2>1. Made(Do("apply_change_set"), "apply_change_set", <<>>, "", "")
    BY ActionsMade
  <2> QED BY <1>6, <2>1 DEF Made, IsAction
<1>9. Fitting(next, s) /\ next.type \notin Previews
  BY <1>2 DEF Fitting, CommandTypes, Previews, Generates
<1>10. phase' \in {"run", "asked"}
  BY <1>6
<1>11. Observes(s)
  BY <1>2, <1>7, <1>8, <1>9, <1>10 DEF Observes, Working
<1> QED BY <1>11 DEF s

LEMMA GenerationSteps ==
    ASSUME RunInv, GenerationRaises \/ GenerateEdit \/ GenerateChangeSet
    PROVE  \E r : Observes(r)
<1>0. phase = "run" /\ next.type \in Generates
  BY DEF GenerationRaises, GenerateEdit, GenerateChangeSet, Running, Generates
<1>1. CASE GenerationRaises
  <2>1. CASE core.repairs < 1
    <3> DEFINE c == Observed(core, Failure)
    <3>1. core' = [Generated(Failure) EXCEPT !.repairs = @ + 1] /\ phase' = "choose" /\ next' = next
      BY <1>1, <2>1 DEF GenerationRaises
    <3>2. IsRun(core) /\ core.stop = "" /\ IsAction(next)
      BY <1>0 DEF RunInv, Working
    <3>3. Grows(core, c, next, Failure) /\ c.stop = "" /\ c.changed = core.changed
      BY <3>2, ObservedIsRun DEF Grows
    <3>4. Generated(Failure) = [c EXCEPT !.applied = FALSE]
      BY DEF Generated
    <3> HIDE DEF c
    <3> DEFINE g == Generated(Failure)
    <3>5. Grows(core, g, next, Failure) /\ g.stop = "" /\ g.changed = core.changed
      BY <3>3, <3>4 DEF Grows, IsRun, Fields
    <3>6. core' = [g EXCEPT !.repairs = @ + 1]
      BY <3>1
    <3> HIDE DEF g
    <3>7. Grows(core, core', next, Failure) /\ core'.stop = "" /\ core'.changed = core.changed
      BY <3>5, <3>6 DEF Grows, IsRun, Fields
    <3>8. Fitting(next, Failure) /\ next.type \notin Previews
      BY <1>0, ResultsMade DEF Fitting, CommandTypes, Previews, Generates
    <3>9. Observes(Failure)
      BY <1>0, <3>1, <3>2, <3>7, <3>8, ResultsMade DEF Observes, Working
    <3> QED BY <3>9
  <2>2. CASE ~(core.repairs < 1)
    <3>1. Close(Generated(Failure))
      BY <1>1, <2>2 DEF GenerationRaises
    <3> QED BY <1>0, <3>1, ClosingGeneration, ResultsMade
  <2> QED BY <2>1, <2>2
<1>2. CASE GenerateEdit
  <2> DEFINE none == [NoResult EXCEPT !.files = Range(next.files)]
             wrong == [none EXCEPT !.error = TRUE]
  <2>1. Close(Generated(none)) \/ Close(Generated(wrong)) \/ Proposes(Generated(Proposal(none)))
    BY <1>2 DEF GenerateEdit
  <2>2. /\ none.status = "skipped" /\ none.ro = FALSE /\ none.approved = FALSE /\ DOMAIN none = DOMAIN NoResult
        /\ wrong.status = "skipped" /\ wrong.ro = FALSE /\ wrong.approved = FALSE
        /\ DOMAIN none.found = {} /\ DOMAIN wrong.found = {}
    BY DEF NoResult
  <2> HIDE DEF none, wrong
  <2>3. CASE Close(Generated(none))
    BY <1>0, <2>2, <2>3, ClosingGeneration
  <2>4. CASE Close(Generated(wrong))
    BY <1>0, <2>2, <2>4, ClosingGeneration
  <2>5. CASE Proposes(Generated(Proposal(none)))
    BY <1>0, <2>2, <2>5, ProposingGeneration
  <2> QED BY <2>1, <2>3, <2>4, <2>5
<1>3. CASE GenerateChangeSet
  <2> DEFINE read == [NoResult EXCEPT !.files = Range(Leading(next.files, 12)) \cap TextFiles]
             wrong(changes) == [read EXCEPT !.status = "failed", !.error = TRUE, !.changes = changes]
  <2>1. \/ Proposes(Generated(Proposal(read)))
        \/ \E changes \in BOOLEAN : Close(Generated(wrong(changes)))
    BY <1>3 DEF GenerateChangeSet
  <2>2. /\ read.ro = FALSE /\ read.approved = FALSE /\ DOMAIN read = DOMAIN NoResult
        /\ DOMAIN read.found = {}
        /\ \A changes : wrong(changes).status = "failed" /\ wrong(changes).ro = FALSE
                        /\ wrong(changes).approved = FALSE /\ DOMAIN wrong(changes).found = {}
    BY DEF NoResult
  <2> HIDE DEF read, wrong
  <2>3. CASE Proposes(Generated(Proposal(read)))
    BY <1>0, <2>2, <2>3, ProposingGeneration
  <2>4. ASSUME NEW changes \in BOOLEAN, Close(Generated(wrong(changes))) PROVE \E r : Observes(r)
    BY <1>0, <2>2, <2>4, ClosingGeneration
  <2> QED BY <2>1, <2>3, <2>4
<1> QED BY <1>1, <1>2, <1>3

LEMMA ApplyingStep ==
    ASSUME RunInv, ApplyChange
    PROVE  \E r : Observes(r)
<1>1. IsRun(core) /\ core.stop = "" /\ IsAction(next) /\ phase = "run" /\ next.type = "apply_change_set"
  BY DEF RunInv, Working, ApplyChange, Running
<1>2. next' = next /\ next.type \notin Generates \cup CommandTypes \cup {"read_file"}
  BY <1>1 DEF ApplyChange, Generates, CommandTypes, Previews
<1> DEFINE s == Observed(core, Success)
           f == Observed(core, Failure)
           done == [s EXCEPT !.changed = TRUE, !.applied = TRUE, !.said = "applied"]
           not  == Counted([f EXCEPT !.said = "apply_failed"])
           late == Counted([done EXCEPT !.stop = "failed"])
<1>3. \/ core' = done /\ phase' = "choose"
      \/ core' = late /\ phase' = "answer"
      \/ core' = not /\ phase' = "choose"
  BY DEF ApplyChange
<1>4. Grows(core, s, next, Success) /\ s.stop = "" /\ s.changed = core.changed
  BY <1>1, ObservedIsRun DEF Grows
<1>5. Grows(core, f, next, Failure) /\ f.stop = "" /\ f.changed = core.changed
  BY <1>1, ObservedIsRun DEF Grows
<1> HIDE DEF s, f
<1>6. Grows(core, done, next, Success) /\ done.stop = "" /\ done.changed = TRUE
  BY <1>4 DEF Grows, IsRun, Fields, Sayings
<1> HIDE DEF done
<1>7. Grows(core, late, next, Success) /\ late.stop = "failed" /\ late.changed = TRUE
  <2> DEFINE x == [done EXCEPT !.stop = "failed"]
  <2>1. Grows(core, x, next, Success) /\ x.stop = "failed" /\ x.changed = TRUE
    BY <1>6 DEF Grows, IsRun, Fields
  <2>2. late = Counted(x)
    OBVIOUS
  <2> HIDE DEF x, late
  <2> QED BY <2>1, <2>2 DEF Grows, IsRun, Fields, Counted
<1>8. Grows(core, not, next, Failure) /\ not.stop = "" /\ not.changed = core.changed
  <2> DEFINE x == [f EXCEPT !.said = "apply_failed"]
  <2>1. Grows(core, x, next, Failure) /\ x.stop = "" /\ x.changed = core.changed
    BY <1>5 DEF Grows, IsRun, Fields, Sayings
  <2>2. not = Counted(x)
    OBVIOUS
  <2> HIDE DEF x, not
  <2> QED BY <2>1, <2>2 DEF Grows, IsRun, Fields, Counted
<1> HIDE DEF late, not
<1>9. Fitting(next, Success) /\ Fitting(next, Failure)
  BY <1>2, ResultsMade DEF Fitting, CommandTypes
<1>10. next.type \notin Previews /\ next.type \notin Generates
  BY <1>2 DEF CommandTypes
<1>11. CASE core' = done /\ phase' = "choose"
  <2>1. Observes(Success)
    BY <1>1, <1>2, <1>6, <1>9, <1>10, <1>11, ResultsMade DEF Observes, Working
  <2> QED BY <2>1
<1>12. CASE core' = late /\ phase' = "answer"
  <2>1. Observes(Success)
    BY <1>1, <1>2, <1>7, <1>9, <1>10, <1>12, ResultsMade DEF Observes, Working
  <2> QED BY <2>1
<1>13. CASE core' = not /\ phase' = "choose"
  <2>1. Observes(Failure)
    BY <1>1, <1>2, <1>8, <1>9, <1>10, <1>13, ResultsMade DEF Observes, Working
  <2> QED BY <2>1
<1> QED BY <1>3, <1>11, <1>12, <1>13

----------------------------------------------------------------------------
\* the loop's own steps
LEMMA Choosing ==
    ASSUME Choose
    PROVE  \E t, p : Chooses(t, p)
<1>1. PICK t, p \in Menu \cup {NoAction} :
          /\ next' = Chosen(Turned(core), t, p)
          /\ core' = Chose(Turned(core), next')
          /\ phase' = IF next'.type \in Ends THEN "answer" ELSE "run"
  BY DEF Choose
<1>2. phase = "choose"
  BY DEF Choose
<1>3. Chooses(t, p)
  BY <1>1, <1>2 DEF Chooses, Proposable
<1> QED BY <1>3

LEMMA StoppingSteps ==
    ASSUME RunInv, StopAtBudget \/ TimesOut \/ Cancels \/ Deny
    PROVE  Stops
<1>1. IsRun(core)
  BY DEF RunInv
<1>2. \A c, x : IsRun(c) => /\ Rests(c, [c EXCEPT !.stop = x]) /\ [c EXCEPT !.stop = x].stop = x
  BY DEF Rests, IsRun, Fields
<1>3. CASE StopAtBudget
  <2>1. Exceeded(core) \notin {"", "needs_clarification"}
    BY <1>3 DEF StopAtBudget, Exceeded
  <2>2. phase' = "answer" /\ next' = next /\ phase = "choose"
    BY <1>3 DEF StopAtBudget, Close
  <2>3. core' = [core EXCEPT !.stop = Exceeded(core)]
    BY <1>3 DEF StopAtBudget, Close
  <2>4. Rests(core, core') /\ core'.stop = Exceeded(core)
    BY <1>1, <2>3 DEF Rests, IsRun, Fields
  <2> QED BY <2>1, <2>2, <2>4 DEF Stops
<1>4. CASE TimesOut
  <2>1. core' = [core EXCEPT !.stop = "timed_out"] /\ phase' = "answer" /\ next' = next /\ phase = "choose"
    BY <1>4 DEF TimesOut, Close
  <2>2. Rests(core, core') /\ core'.stop = "timed_out"
    BY <1>1, <2>1 DEF Rests, IsRun, Fields
  <2> QED BY <2>1, <2>2 DEF Stops
<1>5. CASE Cancels
  <2>1. core' = [TakeTurn(core) EXCEPT !.stop = "cancelled"] /\ phase' = "answer" /\ next' = next /\ phase = "choose"
    BY <1>5 DEF Cancels, Close
  <2>2. Rests(core, TakeTurn(core))
    BY <1>1, TurnedIsRun DEF Rests
  <2>3. Rests(TakeTurn(core), core') /\ core'.stop = "cancelled"
    BY <1>2, <2>1, <2>2 DEF Rests
  <2> QED BY <2>1, <2>2, <2>3 DEF Stops, Rests
<1>6. CASE Deny
  <2>1. PICK said \in {"rejected", "write_denied", "denied"} :
           core' = [core EXCEPT !.stop = "approval_denied", !.said = said]
    BY <1>6 DEF Deny, Close
  <2>2. phase = "asked" /\ phase' = "answer" /\ next' = next
    BY <1>6 DEF Deny, Close
  <2>3. Rests(core, core') /\ core'.stop = "approval_denied"
    BY <1>1, <2>1 DEF Rests, IsRun, Fields, Sayings
  <2> QED BY <2>2, <2>3 DEF Stops
<1> QED BY <1>3, <1>4, <1>5, <1>6

\* the commit after an applied change: the tree and the differences are looked at
Joins(u, s, a, b) == u = s \o <<a, b>>

Commits ==
    /\ phase = "choose" /\ IsRun(core') /\ core'.req = core.req
    /\ Joins(core'.taken, core.taken, Do("git_status"), Do("git_diff"))
    /\ Joins(core'.results, core.results, Success, Success)
    /\ core'.stop = core.stop /\ core'.changed = core.changed
    /\ next' = Do("git_commit") /\ phase' = "asked"

LEMMA CommittingStep ==
    ASSUME RunInv, ProposeCommit
    PROVE  Commits
<1> DEFINE c == TakeTurn(core)
           looked == [c EXCEPT !.taken = @ \o <<Do("git_status"), Do("git_diff")>>,
                               !.results = @ \o <<Success, Success>>]
<1>1. IsRun(core)
  BY DEF RunInv
<1>2. /\ IsRun(c) /\ c.taken = core.taken /\ c.results = core.results /\ c.req = core.req
      /\ c.stop = core.stop /\ c.changed = core.changed
  BY <1>1, TurnedIsRun
<1>3. core' = [looked EXCEPT !.commit = TRUE, !.said = "commit_preview"]
  BY DEF ProposeCommit
<1> HIDE DEF c
<1>4. /\ IsRun(looked) /\ looked.req = core.req /\ looked.stop = core.stop /\ looked.changed = core.changed
      /\ looked.taken = core.taken \o <<Do("git_status"), Do("git_diff")>>
      /\ looked.results = core.results \o <<Success, Success>>
  BY <1>2 DEF IsRun, Fields
<1> HIDE DEF looked
<1>5. /\ IsRun(core') /\ core'.req = looked.req /\ core'.stop = looked.stop /\ core'.changed = looked.changed
      /\ core'.taken = looked.taken /\ core'.results = looked.results
  BY <1>3, <1>4 DEF IsRun, Fields, Sayings
<1>6. phase = "choose" /\ next' = Do("git_commit") /\ phase' = "asked"
  BY DEF ProposeCommit
<1> QED BY <1>4, <1>5, <1>6 DEF Commits, Joins

Allows ==
    /\ phase = "asked" /\ phase' = "run" /\ core' = core /\ IsAction(next')
    /\ next'.type = IF next.type \in Previews THEN "run_approved_command" ELSE next.type
    /\ next'.cmd = next.cmd /\ (next'.type = "read_file" => next'.files = next.files)

LEMMA AllowingStep ==
    ASSUME RunInv, Allow
    PROVE  Allows
<1>1. CASE next.type \in Previews
  <2>1. next' = [Run("run_approved_command", next.cmd) EXCEPT !.src = "approved"]
    BY <1>1 DEF Allow
  <2>2. Made(Run("run_approved_command", next.cmd), "run_approved_command", <<>>, "", next.cmd)
    BY ActionsMade
  <2>3. IsAction(next') /\ next'.type = "run_approved_command" /\ next'.cmd = next.cmd
    BY <2>1, <2>2 DEF Made, IsAction
  <2> QED BY <1>1, <2>3 DEF Allow, Allows
<1>2. CASE next.type \notin Previews
  <2>1. next' = [next EXCEPT !.src = "approved"]
    BY <1>2 DEF Allow
  <2>2. IsAction(next') /\ next'.type = next.type /\ next'.cmd = next.cmd /\ next'.files = next.files
    BY <2>1 DEF IsAction, RunInv
  <2> QED BY <1>2, <2>2 DEF Allow, Allows
<1> QED BY <1>1, <1>2

\* the answer is given, or nothing happens
Answers == core' = core /\ next' = next /\ (phase' = phase \/ (phase = "answer" /\ phase' = "ended"))

\* every step of the loop is one of these
LEMMA StepsAre ==
    ASSUME RunInv, [Next]_vars
    PROVE  \/ \E t, p : Chooses(t, p)
           \/ Stops \/ Commits \/ Allows \/ Answers
           \/ \E r : Observes(r)
<1>1. CASE Choose
  BY <1>1, Choosing
<1>2. CASE StopAtBudget \/ TimesOut \/ Cancels \/ Deny
  BY <1>2, StoppingSteps
<1>3. CASE ProposeCommit
  BY <1>3, CommittingStep
<1>4. CASE InspectTree \/ SearchFiles \/ SearchContents \/ ReadFiles
  BY <1>4, LookingSteps
<1>5. CASE PreviewCommand \/ WaitForUser \/ RunCommand \/ UseGatedTool \/ ToolFails
  BY <1>5, CommandSteps
<1>6. CASE WriteFile
  BY <1>6, WritingStep
<1>7. CASE GenerationRaises \/ GenerateEdit \/ GenerateChangeSet
  BY <1>7, GenerationSteps
<1>8. CASE ApplyChange
  BY <1>8, ApplyingStep
<1>9. CASE Allow
  BY <1>9, AllowingStep
<1>10. CASE AnswerUser
  BY <1>10 DEF AnswerUser, Answers
<1>11. CASE UNCHANGED vars
  BY <1>11 DEF vars, Answers
<1> QED BY <1>1, <1>2, <1>3, <1>4, <1>5, <1>6, <1>7, <1>8, <1>9, <1>10, <1>11 DEF Next

----------------------------------------------------------------------------
\* an action keeps what it is when its files are filled in
LEMMA FillingTargets ==
    ASSUME NEW c, NEW a, IsAction(a)
    PROVE  /\ IsAction(WithTargets(c, a))
           /\ WithTargets(c, a).type = a.type /\ WithTargets(c, a).src = a.src
           /\ WithTargets(c, a).cmd = a.cmd
           /\ a.type \notin Generates \/ a.files # <<>> => WithTargets(c, a) = a
<1> DEFINE fs == FirstOf(<<SelectTargets(c, {}), Located(c, c.req.named), Leading(Keep(Files, FilesRead(c)), 4)>>)
<1>1. WithTargets(c, a) = IF a.type \notin Generates \/ a.files # <<>> THEN a ELSE [a EXCEPT !.files = fs]
  BY DEF WithTargets
<1> HIDE DEF fs
<1> QED BY <1>1 DEF IsAction

\* what is chosen comes from a sorted proposal
LEMMA ChosenFrom ==
    ASSUME RunInv, NEW t, NEW p, Chooses(t, p)
    PROVE  /\ Rests(core, Turned(core)) /\ Turned(core).stop = "" /\ Rests(core, core')
           /\ core'.stop = IF next'.type = "ask_clarification" THEN "needs_clarification" ELSE ""
           /\ \E a : /\ Sorted(Turned(core), t, p, a) /\ next' = WithTargets(Turned(core), a)
                     /\ IsAction(next') /\ next'.type = a.type /\ next'.src = a.src /\ next'.cmd = a.cmd
                     /\ a.type \notin Generates \/ a.files # <<>> => next' = a
                     /\ Fresh(Turned(core), a) /\ ListsFiles(next')
                     /\ a = Answer \/ Usable(Turned(core), a)
<1> DEFINE c == Turned(core)
<1>1. IsRun(core) /\ core.stop = "" /\ core.req \in Requests /\ Logs(core)
  BY DEF RunInv, Chooses, Working
<1>2. Rests(core, c) /\ c.stop = ""
  BY <1>1, TurnedIsRun DEF Rests
<1> HIDE DEF c
<1>3. /\ Rests(c, core')
      /\ core'.stop = IF next'.type = "ask_clarification" THEN "needs_clarification" ELSE c.stop
  BY <1>2, ChoseIsRun DEF Chooses, Rests, c
<1>4. c.req \in Requests /\ Logs(c)
  BY <1>1, <1>2 DEF Rests, Logs
<1> DEFINE a == FirstUsable(c, Choosers(c, t, p))
<1>5. Sorted(c, t, p, a)
  BY <1>4, ChosenIsSorted DEF Chooses
<1>9. Fresh(c, a) /\ (a = Answer \/ Usable(c, a))
  <2>1. DOMAIN core.results = DOMAIN core.taken
    BY <1>1, LogsAre DEF Logs
  <2>2. Sound(c)
    BY <1>2, <1>4, <2>1 DEF Sound, FoundInText, RunInv, AllFit, Fitting, Rests
  <2> HIDE DEF a
  <2> QED BY <2>2, ChoosersAreFresh DEF Chooses, a
<1>6. next' = WithTargets(c, a)
  BY DEF Chooses, Chosen, c
<1> HIDE DEF a
<1>7. IsAction(a)
  BY <1>5 DEF Sorted
<1>8. /\ IsAction(next') /\ next'.type = a.type /\ next'.src = a.src /\ next'.cmd = a.cmd
      /\ a.type \notin Generates \/ a.files # <<>> => next' = a
  BY <1>6, <1>7, FillingTargets
<1>10. ListsFiles(next')
  <2>1. next'.type = "read_file" => next' = a
    BY <1>8 DEF Generates
  <2> QED BY <1>9, <2>1 DEF Fresh, ListsFiles
<1> QED BY <1>2, <1>3, <1>5, <1>6, <1>8, <1>9, <1>10 DEF c, Rests

----------------------------------------------------------------------------
\* the log d.taken, d.results is that of c with one pair more
Extended(c, d, a, r) ==
    /\ Logs(d) /\ Len(c.taken) \in Nat /\ DOMAIN c.taken = 1..Len(c.taken)
    /\ DOMAIN d.taken = 1..(Len(c.taken) + 1)
    /\ DOMAIN d.results = DOMAIN d.taken /\ DOMAIN c.results = DOMAIN c.taken
    /\ \A i \in DOMAIN c.taken : d.taken[i] = c.taken[i] /\ d.results[i] = c.results[i]
    /\ d.taken[Len(c.taken) + 1] = a /\ d.results[Len(c.taken) + 1] = r

LEMMA LogIsExtended ==
    ASSUME NEW c, NEW d, NEW a, NEW r, Logs(c), Grows(c, d, a, r)
    PROVE  Extended(c, d, a, r)
<1>1. d.taken = Append(c.taken, a) /\ d.results = Append(c.results, r)
  BY DEF Grows
<1>2. IsLog(c.taken) /\ IsLog(c.results) /\ Len(c.taken) = Len(c.results)
  BY DEF Logs
<1>3. /\ Len(c.taken) \in Nat /\ DOMAIN c.taken = 1..Len(c.taken) /\ DOMAIN c.results = 1..Len(c.results)
  BY <1>2, LogsAre
<1>4. /\ IsLog(d.taken) /\ Len(d.taken) = Len(c.taken) + 1 /\ DOMAIN d.taken = 1..Len(c.taken) + 1
      /\ \A i \in DOMAIN c.taken : d.taken[i] = c.taken[i]
      /\ d.taken[Len(c.taken) + 1] = a
  BY <1>1, <1>2, LogsGrow
<1>5. /\ IsLog(d.results) /\ Len(d.results) = Len(c.results) + 1 /\ DOMAIN d.results = 1..Len(c.results) + 1
      /\ \A i \in DOMAIN c.results : d.results[i] = c.results[i]
      /\ d.results[Len(c.results) + 1] = r
  BY <1>1, <1>2, LogsGrow
<1> QED BY <1>2, <1>3, <1>4, <1>5 DEF Logs, Extended

LEMMA PairsOf ==
    ASSUME NEW c, NEW d, NEW a, NEW r, Extended(c, d, a, r), NEW i \in DOMAIN d.taken
    PROVE  \/ i \in DOMAIN c.taken /\ d.taken[i] = c.taken[i] /\ d.results[i] = c.results[i]
           \/ i \notin DOMAIN c.taken /\ d.taken[i] = a /\ d.results[i] = r
<1>1. i \in DOMAIN c.taken \/ i = Len(c.taken) + 1
  BY DEF Extended
<1>2. Len(c.taken) + 1 \notin DOMAIN c.taken
  BY DEF Extended
<1> QED BY <1>1, <1>2 DEF Extended

LEMMA AllFitGrows ==
    ASSUME NEW c, NEW d, NEW a, NEW r, Extended(c, d, a, r), AllFit(c), Fitting(a, r)
    PROVE  AllFit(d)
  BY PairsOf DEF AllFit

LEMMA PairJoins ==
    ASSUME NEW s, IsLog(s), NEW a, NEW b, NEW u, Joins(u, s, a, b)
    PROVE  /\ IsLog(u) /\ Len(u) = Len(s) + 2 /\ DOMAIN u = 1..Len(s) + 2
           /\ \A i \in DOMAIN s : u[i] = s[i]
           /\ u[Len(s) + 1] = a /\ u[Len(s) + 2] = b
<1> DEFINE p == <<a, b>>
<1>1. PICK S : s \in Seq(S)
  BY DEF IsLog
<1> DEFINE T == S \cup {a, b}
<1>2. s \in Seq(T)
  <2>1. S \subseteq T
    OBVIOUS
  <2> HIDE DEF T
  <2> QED BY <1>1, <2>1, SeqMonotonic
<1>3. p \in Seq(T) /\ Len(p) = 2 /\ p[1] = a /\ p[2] = b
  OBVIOUS
<1> HIDE DEF p, T
<1>4. /\ s \o p \in Seq(T) /\ Len(s \o p) = Len(s) + 2
      /\ \A i \in 1 .. Len(s) + 2 : (s \o p)[i] = IF i <= Len(s) THEN s[i] ELSE p[i - Len(s)]
  BY <1>2, <1>3, ConcatProperties
<1>5. Len(s) \in Nat /\ DOMAIN s = 1..Len(s)
  BY LogsAre
<1>6. DOMAIN (s \o p) = 1..Len(s) + 2
  BY <1>4, LenProperties
<1>7. \A i \in DOMAIN s : (s \o p)[i] = s[i]
  BY <1>4, <1>5
<1>8. (s \o p)[Len(s) + 1] = a /\ (s \o p)[Len(s) + 2] = b
  BY <1>3, <1>4, <1>5
<1>9. u = s \o p
  BY DEF Joins, p
<1> QED BY <1>4, <1>6, <1>7, <1>8, <1>9 DEF IsLog

LEMMA CommitJoins ==
    ASSUME RunInv, Commits
    PROVE  /\ Logs(core') /\ DOMAIN core.taken = 1..Len(core.taken) /\ Len(core.taken) \in Nat
           /\ DOMAIN core'.taken = 1..Len(core.taken) + 2
           /\ DOMAIN core'.results = DOMAIN core'.taken /\ DOMAIN core.results = DOMAIN core.taken
           /\ \A i \in DOMAIN core.taken : core'.taken[i] = core.taken[i] /\ core'.results[i] = core.results[i]
           /\ \A i \in DOMAIN core'.taken \ DOMAIN core.taken :
                core'.taken[i] \in {Do("git_status"), Do("git_diff")} /\ core'.results[i] = Success
<1>1. IsLog(core.taken) /\ IsLog(core.results) /\ Len(core.taken) = Len(core.results)
  BY DEF RunInv, Logs
<1>2. /\ Len(core.taken) \in Nat /\ DOMAIN core.taken = 1..Len(core.taken)
      /\ DOMAIN core.results = 1..Len(core.results)
  BY <1>1, LogsAre
<1> DEFINE a == Do("git_status")
           b == Do("git_diff")
<1>3. Joins(core'.taken, core.taken, a, b) /\ Joins(core'.results, core.results, Success, Success)
  BY DEF Commits
<1> HIDE DEF a, b
<1>4. /\ IsLog(core'.taken) /\ Len(core'.taken) = Len(core.taken) + 2 /\ DOMAIN core'.taken = 1..Len(core.taken) + 2
      /\ \A i \in DOMAIN core.taken : core'.taken[i] = core.taken[i]
      /\ core'.taken[Len(core.taken) + 1] = a /\ core'.taken[Len(core.taken) + 2] = b
  BY <1>1, <1>3, PairJoins
<1>5. /\ IsLog(core'.results) /\ Len(core'.results) = Len(core.results) + 2
      /\ DOMAIN core'.results = 1..Len(core.results) + 2
      /\ \A i \in DOMAIN core.results : core'.results[i] = core.results[i]
      /\ core'.results[Len(core.results) + 1] = Success /\ core'.results[Len(core.results) + 2] = Success
  BY <1>1, <1>3, PairJoins
<1>6. \A i \in DOMAIN core'.taken \ DOMAIN core.taken : i = Len(core.taken) + 1 \/ i = Len(core.taken) + 2
  BY <1>2, <1>4
<1>7. \A i \in DOMAIN core'.taken \ DOMAIN core.taken :
                core'.taken[i] \in {a, b} /\ core'.results[i] = Success
  BY <1>1, <1>4, <1>5, <1>6
<1> QED BY <1>1, <1>2, <1>4, <1>5, <1>7 DEF Logs, a, b

----------------------------------------------------------------------------
\* a run begins with nothing done
LEMMA NothingYet ==
    ASSUME Init
    PROVE  /\ DOMAIN core.taken = {} /\ core.taken = <<>> /\ core.results = <<>> /\ core.stop = ""
           /\ IsRun(core) /\ core.req \in Requests /\ phase = "choose"
<1>1. PICK q \in Requests :
          core = [req |-> q, taken |-> <<>>, results |-> <<>>, shifted |-> FALSE, turn |-> 0,
                  limit |-> Budget(q).turns, stop |-> "", plan |-> FirstPlan(q), proposed |-> 0,
                  faults |-> 0, repairs |-> 0, changed |-> FALSE, said |-> "", applied |-> FALSE,
                  commit |-> FALSE]
  BY DEF Init
<1>2. IsRun(core) /\ core.req \in Requests /\ core.taken = <<>> /\ core.results = <<>> /\ core.stop = ""
  BY <1>1 DEF IsRun, Fields, Sayings
<1>3. DOMAIN core.taken = {}
  <2>1. <<>> \in Seq({}) /\ Len(<<>>) = 0
    BY EmptySeq
  <2>2. DOMAIN core.taken = 1..0
    BY <1>2, <2>1, LenProperties
  <2> QED BY <2>2
<1> QED BY <1>2, <1>3 DEF Init

LEMMA RunStarts == Init => RunInv
<1> SUFFICES ASSUME Init PROVE RunInv
  OBVIOUS
<1>1. Logs(core)
  <2>1. <<>> \in Seq({}) /\ Len(<<>>) = 0
    BY EmptySeq
  <2> QED BY <2>1, NothingYet DEF Logs, IsLog
<1>2. IsAction(next) /\ KnowsItsCommand(next) /\ ListsFiles(next)
  <2>1. Made(NoAction, "none", <<>>, "", "") /\ next = NoAction
    BY ActionsMade DEF Init
  <2> QED BY <2>1 DEF Made, KnowsItsCommand, ListsFiles, CommandTypes, Previews
<1> QED BY <1>1, <1>2, NothingYet DEF RunInv, AllFit

LEMMA RunGoesOn ==
    ASSUME RunInv, [Next]_vars
    PROVE  RunInv'
<1> USE DEF RunInv
<1>1. ASSUME NEW t, NEW p, Chooses(t, p) PROVE RunInv'
  <2> DEFINE c == Turned(core)
  <2>1. PICK a : /\ Sorted(c, t, p, a)
                 /\ IsAction(next') /\ next'.type = a.type /\ next'.cmd = a.cmd
                 /\ ListsFiles(next')
    BY <1>1, ChosenFrom
  <2>2. Rests(core, c) /\ Rests(core, core')
        /\ core'.stop = IF next'.type = "ask_clarification" THEN "needs_clarification" ELSE ""
    BY <1>1, ChosenFrom
  <2> HIDE DEF c
  <2>3. KnowsItsCommand(next')
    <3> SUFFICES ASSUME a.type \in CommandTypes PROVE a.cmd \in DOMAIN Class
      BY <2>1 DEF KnowsItsCommand
    <3>1. \A cmd : KnownCommand(c, cmd) => cmd \in DOMAIN Class
      <4> SUFFICES ASSUME NEW i \in DOMAIN c.results, c.results[i].ro PROVE c.taken[i].cmd \in DOMAIN Class
        BY DEF KnownCommand
      <4>1. i \in DOMAIN core.taken
        BY <2>2, LogsAre DEF Rests, Logs
      <4> QED BY <2>2, <4>1 DEF AllFit, Fitting, Rests, CommandTypes
    <3>2. CASE a = t /\ t # NoAction /\ Allowed(c, t)
      <4>1. CommandTypes \subseteq CommandActions
        BY DEF CommandTypes, CommandActions, Previews
      <4> QED BY <1>1, <3>2, <4>1, Proposals DEF Chooses
    <3>3. CASE \E type \in CommandTypes : \E src \in {"", "model"} : \E cmd : Made(a, type, <<>>, src, cmd) /\ KnownCommand(c, cmd)
      BY <3>1, <3>3 DEF Made
    <3>4. SortOf(c, t, p, a)
      BY <2>1 DEF Sorted
    <3>5. a.type \notin Gated \cup Searches \cup {"inspect_repo_tree", "ask_clarification", "final_answer"} \cup Generates
          /\ ~Gathers(a) /\ a # Answer
      <4>1. Answer.type = "final_answer"
        BY ActionsMade DEF Made
      <4> QED BY <4>1 DEF CommandTypes, Previews, Gated, Searches, Generates, Gathers
    <3>6. "generate_change_set" \in Generates
      BY DEF Generates
    <3> QED BY <3>2, <3>3, <3>4, <3>5, <3>6 DEF SortOf, Made
  <2>4. phase' \in Working => core'.stop = ""
    BY <1>1, <2>2 DEF Chooses, Ends, Working
  <2>5. /\ core'.taken = core.taken /\ core'.results = core.results /\ core'.req = core.req /\ IsRun(core')
    BY <2>2 DEF Rests
  <2> QED BY <2>1, <2>3, <2>4, <2>5 DEF Logs, AllFit
<1>2. CASE Stops
  <2>1. core'.taken = core.taken /\ core'.results = core.results /\ core'.req = core.req /\ IsRun(core')
    BY <1>2 DEF Stops, Rests
  <2> QED BY <1>2, <2>1 DEF Stops, Logs, Working, AllFit
<1>3. CASE Commits
  <2>1. AllFit(core')
    <3> SUFFICES ASSUME NEW i \in DOMAIN core'.taken PROVE Fitting(core'.taken[i], core'.results[i])
      BY DEF AllFit
    <3>1. CASE i \in DOMAIN core.taken
      BY <1>3, <3>1, CommitJoins DEF AllFit
    <3>2. CASE i \notin DOMAIN core.taken
      <4>1. core'.taken[i] \in {Do("git_status"), Do("git_diff")} /\ core'.results[i] = Success
        BY <1>3, <3>2, CommitJoins
      <4>2. core'.taken[i].type \in {"git_status", "git_diff"}
        <5>1. Made(Do("git_status"), "git_status", <<>>, "", "") /\ Made(Do("git_diff"), "git_diff", <<>>, "", "")
          BY ActionsMade
        <5> QED BY <4>1, <5>1 DEF Made
      <4> QED BY <4>1, <4>2, ResultsMade DEF Fitting, CommandTypes, Previews
    <3> QED BY <3>1, <3>2
  <2>2. IsAction(next') /\ next'.type = "git_commit"
    BY <1>3, ActionsMade DEF Commits, Made
  <2>3. KnowsItsCommand(next') /\ ListsFiles(next')
    BY <2>2 DEF KnowsItsCommand, ListsFiles, CommandTypes, Previews
  <2>4. Logs(core')
    BY <1>3, CommitJoins
  <2> QED BY <1>3, <2>1, <2>2, <2>3, <2>4 DEF Commits, Working
<1>4. CASE Allows
  <2>1. ListsFiles(next')
    BY <1>4 DEF Allows, ListsFiles
  <2> QED BY <1>4, <2>1 DEF Allows, KnowsItsCommand, CommandTypes, Working
<1>5. CASE Answers
  BY <1>5 DEF Answers, Working
<1>6. ASSUME NEW r, Observes(r) PROVE RunInv'
  <2>1. Logs(core) /\ Grows(core, core', next, r) /\ Fitting(next, r)
    BY <1>6 DEF Observes
  <2>2. Extended(core, core', next, r)
    BY <2>1, LogIsExtended
  <2>3. AllFit(core')
    BY <2>1, <2>2, AllFitGrows
  <2>4. Logs(core')
    BY <2>2 DEF Extended
  <2>5. KnowsItsCommand(next') /\ ListsFiles(next')
    BY <1>6 DEF Observes, KnowsItsCommand, ListsFiles, CommandTypes, Previews
  <2> QED BY <1>6, <2>1, <2>3, <2>4, <2>5 DEF Observes, Grows
<1> QED BY <1>1, <1>2, <1>3, <1>4, <1>5, <1>6, StepsAre

----------------------------------------------------------------------------
\* The answer: it is given once, from the record of the run as it stands then.
TellInv ==
    /\ RunInv
    /\ phase # "ended" => reply = NoReply
    /\ phase = "ended" => reply.from # NoText
    /\ HonestAnswer

LEMMA HonestyIs == HonestAnswer <=> Honest(core, reply)
  BY DEF HonestAnswer, Honest

LEMMA TellStarts == Init => TellInv
<1> SUFFICES ASSUME Init PROVE TellInv
  OBVIOUS
<1>1. reply = NoReply /\ phase = "choose"
  BY DEF Init
<1> QED BY <1>1, RunStarts, HonestyIs, NoReplyIsHonest DEF TellInv

LEMMA TellGoesOn ==
    ASSUME TellInv, [Next]_vars
    PROVE  TellInv'
<1>0. RunInv' /\ IsRun(core)
  BY RunGoesOn DEF TellInv, RunInv
<1>1. CASE AnswerUser
  <2>1. PICK text, again \in Texts : reply' = FinalAnswer(core, text, again)
    BY <1>1 DEF AnswerUser, Texts
  <2>2. Honest(core, reply') /\ reply'.from # NoText
    BY <1>0, <2>1, FinalAnswerIsHonest DEF IsRun
  <2>3. core' = core /\ phase' = "ended"
    BY <1>1 DEF AnswerUser
  <2>4. HonestAnswer'
    BY <2>2, <2>3 DEF HonestAnswer, Honest
  <2> QED BY <1>0, <2>2, <2>3, <2>4 DEF TellInv
<1>2. CASE UNCHANGED vars
  BY <1>0, <1>2 DEF TellInv, HonestAnswer, vars
<1>3. ASSUME reply' = reply, phase # "ended", phase' # "ended" PROVE TellInv'
  <2>1. reply' = NoReply
    BY <1>3 DEF TellInv
  <2>2. Honest(core', reply')
    BY <2>1, NoReplyIsHonest
  <2>3. HonestAnswer'
    BY <2>2 DEF HonestAnswer, Honest
  <2> QED BY <1>0, <1>3, <2>1, <2>3 DEF TellInv
<1>4. CASE Choose \/ ProposeCommit \/ StopAtBudget \/ TimesOut \/ Cancels
  BY <1>3, <1>4 DEF Choose, ProposeCommit, StopAtBudget, TimesOut, Cancels, Close
<1>5. CASE InspectTree \/ SearchFiles \/ SearchContents \/ ReadFiles \/ PreviewCommand
  BY <1>3, <1>5 DEF InspectTree, SearchFiles, SearchContents, ReadFiles, PreviewCommand, Running, Return, Pause
<1>6. CASE WaitForUser \/ RunCommand \/ UseGatedTool \/ WriteFile \/ ToolFails
  BY <1>3, <1>6 DEF WaitForUser, RunCommand, UseGatedTool, WriteFile, ToolFails, Running, Return, Pause
<1>7. CASE GenerationRaises \/ GenerateEdit \/ GenerateChangeSet \/ ApplyChange
  BY <1>3, <1>7 DEF GenerationRaises, GenerateEdit, GenerateChangeSet, ApplyChange, Running, Close, Proposes
<1>8. CASE Deny \/ Allow
  BY <1>3, <1>8 DEF Deny, Allow, Close
<1> QED BY <1>1, <1>2, <1>4, <1>5, <1>6, <1>7, <1>8 DEF Next

\* What the user is told at the end claims no change that did not happen, is no note
\* of the model to itself and no text that a file dictated, and denies files that
\* were read only after the model's own question was written anew.
THEOREM AnswersAreHonest == Spec => []HonestAnswer
<1>1. TellInv => HonestAnswer
  BY DEF TellInv
<1> QED BY <1>1, TellStarts, TellGoesOn, PTL DEF Spec

----------------------------------------------------------------------------
\* Asking
LEMMA LookingIs ==
    LooksBeforeAsking <=> (core.stop = "needs_clarification" /\ next.src # "approval" => Evidenced(core))
  BY DEF LooksBeforeAsking, Evidenced, NothingToGoBy

LEMMA SameEvidence ==
    ASSUME NEW c, NEW d, Rests(c, d), Evidenced(c)
    PROVE  Evidenced(d)
<1>1. d.req = c.req /\ d.taken = c.taken /\ d.results = c.results
  BY DEF Rests
<1>2. MinEvidence(c) => MinEvidence(d)
  BY <1>1 DEF MinEvidence, FilesRead, SuccessfulRuns, Has
<1> QED BY <1>1, <1>2 DEF Evidenced

\* the sorts of proposals differ in their type
LEMMA TypesOfSorts ==
    ASSUME NEW a
    PROVE  /\ Gathers(a) => a.type \notin Ends \cup Generates
           /\ a = Answer => a.type = "final_answer"
           /\ \A type, files, src, cmd : Made(a, type, files, src, cmd) => a.type = type /\ a.src = src /\ a.files = files
           /\ \A x \in Gated \cup Searches \cup {"inspect_repo_tree"} \cup CommandTypes : x \notin Ends \cup Generates
           /\ \A x \in Generates : x \notin Ends
<1>1. Gathers(a) => a.type \notin Ends \cup Generates
  BY DEF Gathers, Ends, Generates
<1>2. a = Answer => a.type = "final_answer"
  BY ActionsMade DEF Made
<1>3. \A type, files, src, cmd : Made(a, type, files, src, cmd) => a.type = type /\ a.src = src /\ a.files = files
  BY DEF Made
<1>4. \A x \in Gated \cup Searches \cup {"inspect_repo_tree"} \cup CommandTypes : x \notin Ends \cup Generates
  BY DEF Gated, Searches, CommandTypes, Previews, Ends, Generates
<1>5. \A x \in Generates : x \notin Ends
  BY DEF Generates, Ends
<1> QED BY <1>1, <1>2, <1>3, <1>4, <1>5

LEMMA AskSorts ==
    ASSUME NEW c, NEW t, NEW p, NEW a, SortOf(c, t, p, a), a.type = "ask_clarification"
    PROVE  a.src = "approval" \/ Evidenced(c)
<1>1. "ask_clarification" \in Ends /\ "generate_change_set" \in Generates
  BY DEF Ends, Generates
<1>2. CASE a = t /\ Allowed(c, t)
  BY <1>1, <1>2 DEF Allowed, Evidenced
<1>3. CASE ~(a = t /\ Allowed(c, t))
  BY <1>1, <1>3, TypesOfSorts DEF SortOf
<1> QED BY <1>2, <1>3

LookInv == RunInv /\ LooksBeforeAsking

LEMMA LookStarts == Init => LookInv
<1> SUFFICES ASSUME Init PROVE LookInv
  OBVIOUS
<1>1. RunInv /\ phase = "choose"
  BY RunStarts DEF Init
<1> QED BY <1>1 DEF LookInv, RunInv, Working, LooksBeforeAsking

LEMMA LookGoesOn ==
    ASSUME LookInv, [Next]_vars
    PROVE  LookInv'
<1>0. RunInv /\ RunInv'
  BY RunGoesOn DEF LookInv
<1>1. ASSUME NEW t, NEW p, Chooses(t, p) PROVE LooksBeforeAsking'
  <2> SUFFICES ASSUME core'.stop = "needs_clarification", next'.src # "approval" PROVE Evidenced(core')
    BY DEF LooksBeforeAsking, Evidenced, NothingToGoBy
  <2>1. PICK a : Sorted(Turned(core), t, p, a) /\ next'.type = a.type /\ next'.src = a.src
    BY <1>0, <1>1, ChosenFrom
  <2>2. a.type = "ask_clarification" /\ a.src # "approval"
    BY <1>0, <1>1, <2>1, ChosenFrom
  <2>3. Evidenced(Turned(core))
    BY <2>1, <2>2, AskSorts DEF Sorted
  <2>4. Rests(Turned(core), core')
    BY <1>0, <1>1, ChosenFrom DEF Rests
  <2> QED BY <2>3, <2>4, SameEvidence
<1>2. ASSUME Answers PROVE LooksBeforeAsking'
  <2>1. core' = core /\ next' = next
    BY <1>2 DEF Answers
  <2> QED BY <2>1 DEF LookInv, LooksBeforeAsking
<1>3. ASSUME core'.stop # "needs_clarification" PROVE LooksBeforeAsking'
  BY <1>3 DEF LooksBeforeAsking
<1>4. ASSUME Stops \/ Commits \/ Allows PROVE LooksBeforeAsking'
  BY <1>0, <1>3, <1>4 DEF Stops, Commits, Allows, RunInv, Working
<1>5. ASSUME NEW r, Observes(r) PROVE LooksBeforeAsking'
  BY <1>3, <1>5 DEF Observes
<1> QED BY <1>0, <1>1, <1>2, <1>4, <1>5, StepsAre DEF LookInv

\* The user is asked what is meant only after something was looked at, whichever of
\* the choosers asks, with the exceptions that LooksBeforeAsking names.
THEOREM LooksFirst == Spec => []LooksBeforeAsking
<1>1. LookInv => LooksBeforeAsking
  BY DEF LookInv
<1> QED BY <1>1, LookStarts, LookGoesOn, PTL DEF Spec

----------------------------------------------------------------------------
\* Editing.  What a generation names as its files counts as read, without its
\* contents; the loop goes on only after one that brought a change or named none.
EditInv ==
    /\ RunInv
    /\ phase \in Working =>
         \A i \in DOMAIN core.taken :
            core.taken[i].type \in Generates => core.results[i].changes \/ core.results[i].files = {}

LEMMA EditStarts == Init => EditInv
  BY NothingYet, RunStarts DEF EditInv

\* a generation brought something, or named no file
Brought(c) ==
    \A i \in DOMAIN c.taken : c.taken[i].type \in Generates => c.results[i].changes \/ c.results[i].files = {}

LEMMA BroughtGrows ==
    ASSUME NEW c, NEW d, NEW a, NEW r, Extended(c, d, a, r), Brought(c),
           a.type \in Generates => r.changes \/ r.files = {}
    PROVE  Brought(d)
  BY PairsOf DEF Brought

LEMMA EditGoesOn ==
    ASSUME EditInv, [Next]_vars
    PROVE  EditInv'
<1>0. RunInv /\ RunInv'
  BY RunGoesOn DEF EditInv
<1> SUFFICES ASSUME phase' \in Working PROVE Brought(core')
  BY <1>0 DEF EditInv, Brought
<1>1. phase \in Working => Brought(core)
  BY DEF EditInv, Brought
<1>2. ASSUME NEW t, NEW p, Chooses(t, p) PROVE Brought(core')
  <2>1. Rests(core, core')
    BY <1>0, <1>2, ChosenFrom
  <2>2. phase \in Working
    BY <1>2 DEF Chooses, Working
  <2> QED BY <1>1, <2>1, <2>2 DEF Rests, Brought
<1>3. CASE Stops
  BY <1>3 DEF Stops, Working
<1>4. CASE Commits
  <2> SUFFICES ASSUME NEW i \in DOMAIN core'.taken, core'.taken[i].type \in Generates
               PROVE  core'.results[i].changes \/ core'.results[i].files = {}
    BY DEF Brought
  <2>1. Brought(core)
    BY <1>1, <1>4 DEF Commits, Working
  <2>2. CASE i \in DOMAIN core.taken
    BY <1>0, <1>4, <2>1, <2>2, CommitJoins DEF Brought
  <2>3. CASE i \notin DOMAIN core.taken
    <3>1. core'.taken[i] \in {Do("git_status"), Do("git_diff")}
      BY <1>0, <1>4, <2>3, CommitJoins
    <3>2. Made(Do("git_status"), "git_status", <<>>, "", "") /\ Made(Do("git_diff"), "git_diff", <<>>, "", "")
      BY ActionsMade
    <3> QED BY <3>1, <3>2 DEF Made, Generates
  <2> QED BY <2>2, <2>3
<1>5. CASE Allows
  BY <1>1, <1>5 DEF Allows, Working
<1>6. CASE Answers
  BY <1>1, <1>6 DEF Answers, Working
<1>7. ASSUME NEW r, Observes(r) PROVE Brought(core')
  <2>1. Grows(core, core', next, r) /\ phase \in Working /\ phase' # "answer"
        /\ (next.type \in Generates => phase' = "answer" \/ r.changes \/ r.files = {})
    BY <1>7 DEF Observes, Working
  <2>2. Extended(core, core', next, r)
    BY <1>0, <2>1, LogIsExtended DEF RunInv
  <2> QED BY <1>1, <2>1, <2>2, BroughtGrows
<1> QED BY <1>0, <1>2, <1>3, <1>4, <1>5, <1>6, <1>7, StepsAre

\* before the first edit that is not in vain, the files that count as read are the
\* ones whose contents are known
LEMMA ReadBeforeEdit ==
    ASSUME NEW c, Logs(c), AllFit(c), Brought(c), FirstEdit(c)
    PROVE  FilesRead(c) \subseteq Contents(c)
<1>1. /\ Len(c.results) \in Nat /\ DOMAIN c.results = 1..Len(c.results)
      /\ Len(c.taken) = Len(c.results) /\ DOMAIN c.taken = DOMAIN c.results
  BY LogsAre DEF Logs
<1> SUFFICES ASSUME NEW i \in DOMAIN c.results, NEW f \in c.results[i].files PROVE f \in Contents(c)
  BY DEF FilesRead, Range
<1>2. CASE c.taken[i].type \notin Generates
  <2>1. f \in c.results[i].contents
    BY <1>1, <1>2 DEF AllFit, Fitting
  <2> QED BY <2>1 DEF Contents, Range
<1>3. CASE c.taken[i].type \in Generates
  <2>1. i \in Generations(c) /\ CameUpEmpty(c) /\ Cardinality(Generations(c)) < 2
    BY <1>1, <1>3 DEF Generations, FirstEdit, Has
  <2>2. Generations(c) \in SUBSET (1..Len(c.results))
    BY <1>1 DEF Generations
  <2> DEFINE m == Max(Generations(c))
  <2>3. m \in Generations(c)
    BY <1>1, <2>1, <2>2, MaxOf
  <2>4. ~c.results[m].changes
    BY <2>1 DEF CameUpEmpty
  <2> HIDE DEF m
  <2>5. i = m
    BY <2>1, <2>3, OneGeneration
  <2>6. c.results[i].files = {}
    BY <1>1, <1>3, <2>4, <2>5 DEF Brought
  <2> QED BY <2>6
<1> QED BY <1>2, <1>3

LEMMA GenerateSorts ==
    ASSUME NEW c, NEW t, NEW p, NEW a, SortOf(c, t, p, a), a.type \in Generates, a.src # "model", Proposable(t)
    PROVE  OwnEdit(c, a.files)
<1>1. "generate_change_set" \in Generates /\ "ask_clarification" \notin Generates /\ "final_answer" \notin Generates
  BY DEF Generates
<1>2. a # t \/ t = NoAction
  <2> SUFFICES ASSUME a = t, t # NoAction PROVE FALSE
    OBVIOUS
  <2>1. t.src = "approval" /\ t.type = "ask_clarification"
    BY Proposals
  <2> QED BY <1>1, <2>1
<1> QED BY <1>1, <1>2, TypesOfSorts DEF SortOf

LEMMA EditIsInformed ==
    ASSUME EditInv, [Next]_vars, phase = "choose", phase' = "run", next'.type \in Generates, next'.src # "model"
    PROVE  Range(next'.files) \subseteq Contents(core) \cup Range(NewFile(core))
<1>0. RunInv
  BY DEF EditInv
<1>1. PICK t, p : Chooses(t, p)
  <2>1. ~Stops /\ ~Commits /\ ~Allows /\ ~Answers /\ ~\E r : Observes(r)
    BY DEF Stops, Commits, Allows, Answers, Observes
  <2> QED BY <1>0, <2>1, StepsAre
<1> DEFINE c == Turned(core)
<1>2. PICK a : /\ Sorted(c, t, p, a) /\ next'.type = a.type /\ next'.src = a.src
               /\ a.type \notin Generates \/ a.files # <<>> => next' = a
  BY <1>0, <1>1, ChosenFrom
<1>3. Rests(core, c)
  BY <1>0, <1>1, ChosenFrom
<1> HIDE DEF c
<1>4. OwnEdit(c, a.files)
  BY <1>1, <1>2, GenerateSorts DEF Sorted, Chooses
<1>5. next' = a
  BY <1>2, <1>4 DEF OwnEdit
<1>6. /\ Contents(c) = Contents(core) /\ NewFile(c) = NewFile(core)
  BY <1>3 DEF Rests, Contents, NewFile
<1>7. CASE a.files = NewFile(c)
  BY <1>5, <1>6, <1>7
<1>8. CASE a.files = Targets(c) /\ FirstEdit(c)
  <2>1. Logs(c) /\ AllFit(c) /\ Brought(c)
    <3>1. c.taken = core.taken /\ c.results = core.results
      BY <1>3 DEF Rests
    <3> QED BY <1>0, <3>1 DEF RunInv, Logs, AllFit, Brought, EditInv, Working
  <2>2. Range(Targets(c)) \subseteq Contents(c) \cup Range(NewFile(c))
    BY <1>8, <2>1, ReadBeforeEdit, OwnTargets
  <2> QED BY <1>5, <1>6, <1>8, <2>2
<1> QED BY <1>4, <1>7, <1>8 DEF OwnEdit

\* The agent prepares an edit on its own only for files whose contents it knows, or
\* for the new file that the request names.
THEOREM EditsAreInformed == Spec => EditsWhatWasRead
<1>1. Spec => []EditInv
  BY EditStarts, EditGoesOn, PTL DEF Spec
<1>2. EditInv /\ [Next]_vars =>
        [(phase = "choose" /\ phase' = "run" /\ next'.type \in Generates /\ next'.src # "model")
           => Range(next'.files) \subseteq Contents(core) \cup Range(NewFile(core))]_vars
  BY EditIsInformed
<1> QED BY <1>1, <1>2, PTL DEF Spec, EditsWhatWasRead

----------------------------------------------------------------------------
\* Nothing twice: an earlier reading of the same files brought one of them, and then
\* it is no news, or nothing, and then the choice passes over its repetition.
LEMMA NoReadingTwice ==
    ASSUME NEW c, NEW a, Logs(c), AllFit(c), a.type = "read_file", News(c, a.files), ~Repeats(c, a)
    PROVE  Unlike(c, a)
<1> SUFFICES ASSUME NEW i \in DOMAIN c.taken, Signature(c.taken[i]) = Signature(a) PROVE FALSE
  BY DEF Unlike, Alike
<1>1. c.taken[i].type = "read_file" /\ Range(c.taken[i].files) = Range(a.files)
  BY DEF Signature
<1>2. CASE Ineffective(c.taken[i], c.results[i])
  <2> DEFINE same == {j \in DOMAIN c.taken : /\ Signature(c.taken[j]) = Signature(a)
                                             /\ Ineffective(c.taken[j], c.results[j])}
  <2>1. i \in same
    BY <1>2
  <2>2. IsFiniteSet(same)
    <3>1. IsFiniteSet(DOMAIN c.taken)
      BY LogsAre DEF Logs
    <3> QED BY <3>1, FS_Subset
  <2>3. Failures(c, a) = Cardinality(same)
    BY DEF Failures
  <2> HIDE DEF same
  <2>4. Cardinality(same) > 0
    BY <2>1, <2>2, FS_EmptySet, FS_CardinalityType
  <2> QED BY <2>3, <2>4 DEF Repeats, Searches
<1>3. CASE ~Ineffective(c.taken[i], c.results[i])
  <2>1. Range(a.files) \cap c.results[i].files # {}
    BY <1>1, <1>3 DEF AllFit, Fitting, Ineffective
  <2>2. c.results[i] \in Range(c.results)
    <3>1. DOMAIN c.taken = DOMAIN c.results
      BY LogsAre DEF Logs
    <3> QED BY <3>1 DEF Range
  <2>3. c.results[i].files \subseteq FilesRead(c)
    BY <2>2 DEF FilesRead
  <2> QED BY <2>1, <2>3 DEF News
<1> QED BY <1>2, <1>3

LEMMA ChosenIsNew ==
    ASSUME RunInv, [Next]_vars, phase = "choose", phase' = "run", next'.src \notin {"model", "model_planner"}
    PROVE  /\ \A i \in DOMAIN core.taken : ~Alike(core.taken[i], next')
           /\ next'.type = "read_file" => Range(next'.files) \cap FilesRead(core) = {}
<1>1. PICK t, p : Chooses(t, p)
  <2>1. ~Stops /\ ~Commits /\ ~Allows /\ ~Answers /\ ~\E r : Observes(r)
    BY DEF Stops, Commits, Allows, Answers, Observes
  <2> QED BY <2>1, StepsAre
<1> DEFINE c == Turned(core)
<1>2. PICK a : /\ Sorted(c, t, p, a) /\ next'.type = a.type /\ next'.src = a.src
               /\ a.type \notin Generates \/ a.files # <<>> => next' = a
               /\ Fresh(c, a) /\ (a = Answer \/ Usable(c, a))
  BY <1>1, ChosenFrom
<1>3. Rests(core, c)
  BY <1>1, ChosenFrom
<1> HIDE DEF c
<1>4. next' = a
  <2>1. a.type \in Generates => OwnEdit(c, a.files)
    BY <1>1, <1>2, GenerateSorts DEF Sorted, Chooses
  <2> QED BY <1>2, <2>1 DEF OwnEdit
<1>5. a.type \notin Ends
  BY <1>1, <1>2 DEF Chooses
<1>6. a # NoAction /\ ~Repeats(c, a)
  <2>1. Answer.type \in Ends
    BY ActionsMade DEF Made, Ends
  <2> QED BY <1>2, <1>5, <2>1 DEF Usable
<1>7. \/ a.type = "read_file" /\ News(c, a.files)
      \/ a.type # "read_file" /\ Unlike(c, a)
  BY <1>2, <1>5, <1>6 DEF Fresh
<1>8. Logs(c) /\ AllFit(c) /\ c.taken = core.taken /\ FilesRead(c) = FilesRead(core)
  BY <1>3 DEF RunInv, Rests, Logs, AllFit, FilesRead
<1>9. Unlike(c, a)
  BY <1>6, <1>7, <1>8, NoReadingTwice
<1>10. a.type = "read_file" => Range(a.files) \cap FilesRead(core) = {}
  BY <1>7, <1>8 DEF News
<1> QED BY <1>4, <1>8, <1>9, <1>10 DEF Unlike

\* Nothing is done twice on the agent's own account: what a chooser decides on was
\* not done before in the run, by whomever it was decided and whatever came of it,
\* and it reads only files that were not read.
THEOREM NothingIsRepeated == Spec => NothingTwice
<1>1. Spec => []RunInv
  BY RunStarts, RunGoesOn, PTL DEF Spec
<1>2. RunInv /\ [Next]_vars =>
        [(phase = "choose" /\ phase' = "run" /\ next'.src \notin {"model", "model_planner"})
           => /\ \A i \in DOMAIN core.taken : ~Alike(core.taken[i], next')
              /\ next'.type = "read_file" => Range(next'.files) \cap FilesRead(core) = {}]_vars
  BY ChosenIsNew
<1> QED BY <1>1, <1>2, PTL DEF Spec, NothingTwice

----------------------------------------------------------------------------
\* Trying: a write that was let through changed a file; a command that waited for
\* the user has run, or the user is asked about it, or it runs next.
OnItsWay(c, at, n, cmd) ==
    \/ HasRun(c, cmd)
    \/ at = "asked" /\ n.type \in Previews /\ n.cmd = cmd
    \/ at = "run" /\ n.type = "run_approved_command" /\ n.cmd = cmd

NoneForgotten(c, at, n) ==
    \A i \in DOMAIN c.taken :
       c.taken[i].type \in Previews /\ c.results[i].status = "waiting_approval" => OnItsWay(c, at, n, c.taken[i].cmd)

WritesShow(c) == \A i \in DOMAIN c.taken : c.results[i].approved => c.changed

TryInv ==
    /\ RunInv
    /\ WritesShow(core)
    /\ phase \in Working => NoneForgotten(core, phase, next)
    /\ TriesTheEdit

FailedCommand(c) == \E i \in DOMAIN c.taken : c.taken[i].cmd # "" /\ c.results[i].status = "failed"
Tried(c) == EditAttempted(c) \/ c.changed \/ FailedCommand(c)
AsksForEdit(q) == ChangeRequest(q) /\ EditRequested(q) /\ ~q.offTopic /\ ~q.meta

\* when the choosers come to an end, an edit was tried or a command had failed
LEMMA EndsAreTried ==
    ASSUME TryInv, phase = "choose", Finishes(core), AsksForEdit(core.req)
    PROVE  Tried(core)
<1>0. /\ Len(core.taken) \in Nat /\ DOMAIN core.taken = 1..Len(core.taken) /\ DOMAIN core.results = DOMAIN core.taken
      /\ AllFit(core)
  BY LogsAre DEF TryInv, RunInv, Logs
<1>1. CASE ApprovedWrite(core)
  BY <1>1 DEF ApprovedWrite, TryInv, WritesShow, Tried
<1>2. CASE Has(core, Generates)
  BY <1>2 DEF Has, EditAttempted, Tried
<1>3. CASE CommandWaits(core)
  <2> DEFINE cmd == Needed(core)
             i == Max(PreviewsOf(core, cmd))
  <2>1. cmd # "" /\ PreviewsOf(core, cmd) # {}
        /\ ~(core.results[i].status = "success" /\ (core.results[i].ro \/ core.results[i].auto))
    BY <1>3 DEF CommandWaits, PreviewedAs
  <2>2. PreviewsOf(core, cmd) \in SUBSET (1..Len(core.taken))
    BY <1>0 DEF PreviewsOf
  <2>3. i \in PreviewsOf(core, cmd)
    BY <1>0, <2>1, <2>2, MaxOf
  <2>4. ~HasRun(core, cmd)
    BY <2>1 DEF Needed
  <2> HIDE DEF cmd, i
  <2>5. i \in DOMAIN core.taken /\ core.taken[i].type \in Previews /\ core.taken[i].cmd = cmd
    BY <2>3 DEF PreviewsOf
  <2>6. Fitting(core.taken[i], core.results[i])
    BY <1>0, <2>5 DEF AllFit
  <2>7. core.results[i].status # "waiting_approval"
    <3>1. ~OnItsWay(core, phase, next, cmd)
      BY <2>4 DEF OnItsWay
    <3> QED BY <2>5, <3>1 DEF TryInv, Working, NoneForgotten
  <2>8. core.results[i].status = "failed"
    BY <2>1, <2>5, <2>6, <2>7 DEF Fitting, Previews, Generates
  <2> QED BY <2>1, <2>5, <2>8 DEF Tried, FailedCommand
<1>4. CASE Fruitless(core)
  <2> DEFINE n == Len(core.taken)
  <2>1. n \in DOMAIN core.taken /\ Last(core.taken) = core.taken[n] /\ Last(core.results) = core.results[n]
    <3>1. core.taken # <<>> /\ IsLog(core.taken) /\ Len(core.results) = n
      BY <1>4 DEF Fruitless, TryInv, RunInv, Logs
    <3>2. n # 0
      BY <3>1, EmptySeq, LenProperties DEF IsLog
    <3> QED BY <1>0, <3>1, <3>2 DEF Last
  <2> HIDE DEF n
  <2>2. Ineffective(core.taken[n], core.results[n]) /\ core.taken[n].type \in Generates \cup CommandTypes
    BY <1>4, <2>1 DEF Fruitless
  <2>3. CASE core.taken[n].type \in Generates
    BY <2>1, <2>3 DEF Tried, EditAttempted, Has
  <2>4. CASE core.taken[n].type \in CommandTypes
    <3>1. Fitting(core.taken[n], core.results[n])
      BY <1>0, <2>1 DEF AllFit
    <3>2. core.results[n].status = "failed" /\ core.taken[n].cmd # ""
      BY <2>2, <2>4, <3>1, ChooserAssumption DEF Ineffective, Fitting, CommandTypes, Previews, Generates
    <3> QED BY <2>1, <3>2 DEF Tried, FailedCommand
  <2> QED BY <2>2, <2>3, <2>4
<1> QED BY <1>1, <1>2, <1>3, <1>4 DEF Finishes, AsksForEdit, ChangeRequest

LEMMA TryingIs ==
    TriesTheEdit <=>
      (phase \in {"answer", "ended"} /\ core.stop = "" /\ next.src # "model_planner" /\ AsksForEdit(core.req)
         => Tried(core))
  BY DEF TriesTheEdit, Tried, FailedCommand, AsksForEdit

LEMMA FinalSorts ==
    ASSUME NEW c, NEW t, NEW p, NEW a, SortOf(c, t, p, a), a.type = "final_answer", a.src # "model_planner",
           AsksForEdit(c.req)
    PROVE  Finishes(c) \/ c.changed
<1>1. "final_answer" \in Ends /\ "final_answer" \notin EditProducing /\ "generate_change_set" \in Generates
  BY DEF Ends, EditProducing, Generates
<1>2. CASE a = t /\ Allowed(c, t)
  BY <1>1, <1>2 DEF Allowed, AsksForEdit
<1>3. CASE ~(a = t /\ Allowed(c, t))
  <2>1. ~Gathers(a) /\ a.type \notin Gated \cup Searches \cup {"inspect_repo_tree"}
    BY <1>1, TypesOfSorts
  <2>2. \A type \in Generates \cup CommandTypes : \A files, src, cmd : ~Made(a, type, files, src, cmd)
    BY <1>1, TypesOfSorts
  <2>3. \A files, src, cmd : ~Made(a, "generate_change_set", files, src, cmd)
    BY <1>1, <2>2
  <2> QED BY <1>3, <2>1, <2>2, <2>3 DEF SortOf
<1> QED BY <1>2, <1>3

LEMMA SameFinish ==
    ASSUME NEW c, NEW d, Rests(c, d)
    PROVE  (Finishes(d) => Finishes(c)) /\ (Tried(c) => Tried(d))
<1>1. d.req = c.req /\ d.taken = c.taken /\ d.results = c.results /\ d.changed = c.changed
  BY DEF Rests
<1>2. CommandWaits(d) => CommandWaits(c)
  <2>1. \A cmd : HasRun(d, cmd) = HasRun(c, cmd)
    BY <1>1 DEF HasRun
  <2>2. Needed(d) = Needed(c)
    BY <1>1, <2>1 DEF Needed
  <2>3. \A cmd : PreviewsOf(d, cmd) = PreviewsOf(c, cmd)
    BY <1>1 DEF PreviewsOf
  <2>4. PreviewedAs(d, Needed(d)) = PreviewedAs(c, Needed(c))
    BY <1>1, <2>2, <2>3 DEF PreviewedAs
  <2> QED BY <2>2, <2>3, <2>4 DEF CommandWaits
<1>3. Fruitless(d) => Fruitless(c)
  BY <1>1 DEF Fruitless
<1>4. ApprovedWrite(d) => ApprovedWrite(c)
  BY <1>1 DEF ApprovedWrite
<1>5. Has(d, Generates) => Has(c, Generates)
  BY <1>1 DEF Has
<1>6. Tried(c) => Tried(d)
  BY <1>1 DEF Tried, EditAttempted, Has, FailedCommand
<1> QED BY <1>1, <1>2, <1>3, <1>4, <1>5, <1>6 DEF Finishes

LEMMA TryStarts == Init => TryInv
  BY NothingYet, RunStarts DEF TryInv, WritesShow, NoneForgotten, TriesTheEdit

\* what was not forgotten is not forgotten when one action more was taken
LEMMA NoneForgottenNow ==
    ASSUME NEW c, NEW d, NEW a, NEW r, NEW at, NEW n, Extended(c, d, a, r), NoneForgotten(c, "run", a),
           a.type \in Previews /\ r.status = "waiting_approval" => at = "asked" /\ n = a
    PROVE  NoneForgotten(d, at, n)
<1> SUFFICES ASSUME NEW i \in DOMAIN d.taken, d.taken[i].type \in Previews,
                    d.results[i].status = "waiting_approval"
             PROVE  OnItsWay(d, at, n, d.taken[i].cmd)
  BY DEF NoneForgotten
<1>1. CASE i \in DOMAIN c.taken /\ d.taken[i] = c.taken[i] /\ d.results[i] = c.results[i]
  <2>1. OnItsWay(c, "run", a, c.taken[i].cmd)
    BY <1>1 DEF NoneForgotten
  <2>2. CASE HasRun(c, c.taken[i].cmd)
    <3>1. \A j \in DOMAIN c.taken : j \in DOMAIN d.taken /\ d.taken[j] = c.taken[j]
      BY DEF Extended
    <3> QED BY <1>1, <2>2, <3>1 DEF HasRun, OnItsWay
  <2>3. CASE a.type = "run_approved_command" /\ a.cmd = c.taken[i].cmd
    <3>1. Len(c.taken) + 1 \in DOMAIN d.taken /\ d.taken[Len(c.taken) + 1] = a
      BY DEF Extended
    <3> QED BY <1>1, <2>3, <3>1 DEF HasRun, OnItsWay
  <2> QED BY <2>1, <2>2, <2>3 DEF OnItsWay
<1>2. CASE d.taken[i] = a /\ d.results[i] = r
  BY <1>2 DEF OnItsWay
<1> QED BY <1>1, <1>2, PairsOf

LEMMA WritesShowNow ==
    ASSUME NEW c, NEW d, NEW a, NEW r, Extended(c, d, a, r), WritesShow(c),
           c.changed => d.changed, r.approved => d.changed
    PROVE  WritesShow(d)
  BY PairsOf DEF WritesShow

\* where nothing is on its way, what waited has run
LEMMA NoneForgottenLater ==
    ASSUME NEW c, NEW at, NEW n, NoneForgotten(c, "choose", n), NEW d, d.taken = c.taken, d.results = c.results, NEW m
    PROVE  NoneForgotten(d, at, m)
  BY DEF NoneForgotten, OnItsWay, HasRun

LEMMA TryGoesOn ==
    ASSUME TryInv, [Next]_vars
    PROVE  TryInv'
<1>0. RunInv /\ RunInv' /\ WritesShow(core)
  BY RunGoesOn DEF TryInv
<1>1. ASSUME NEW t, NEW p, Chooses(t, p) PROVE TryInv'
  <2>1. phase = "choose" /\ Rests(core, Turned(core)) /\ Rests(core, core')
    BY <1>0, <1>1, ChosenFrom DEF Chooses
  <2>2. WritesShow(core')
    BY <1>0, <2>1 DEF WritesShow, Rests
  <2>3. NoneForgotten(core', phase', next')
    <3>1. NoneForgotten(core, "choose", next)
      BY <2>1 DEF TryInv, Working
    <3>2. core'.taken = core.taken /\ core'.results = core.results
      BY <2>1 DEF Rests
    <3> QED BY <3>1, <3>2, NoneForgottenLater
  <2>4. ASSUME phase' \in {"answer", "ended"}, core'.stop = "", next'.src # "model_planner", AsksForEdit(core'.req)
        PROVE  Tried(core')
    <3>1. PICK a : Sorted(Turned(core), t, p, a) /\ next'.type = a.type /\ next'.src = a.src
      BY <1>0, <1>1, ChosenFrom
    <3>2. next'.type \in Ends /\ next'.type # "ask_clarification"
      BY <1>0, <1>1, <2>4, ChosenFrom DEF Chooses
    <3>3. a.type = "final_answer" /\ a.src # "model_planner"
      BY <2>4, <3>1, <3>2 DEF Ends
    <3>4. AsksForEdit(Turned(core).req) /\ AsksForEdit(core.req)
      BY <2>1, <2>4 DEF Rests
    <3>5. Finishes(Turned(core)) \/ Turned(core).changed
      BY <3>1, <3>3, <3>4, FinalSorts DEF Sorted
    <3>6. CASE Finishes(Turned(core))
      BY <2>1, <3>4, <3>6, SameFinish, EndsAreTried
    <3>7. CASE Turned(core).changed
      BY <2>1, <3>7 DEF Tried, Rests
    <3> QED BY <3>5, <3>6, <3>7
  <2>5. TriesTheEdit'
    BY <2>4 DEF TriesTheEdit, Tried, FailedCommand, AsksForEdit
  <2> QED BY <1>0, <2>2, <2>3, <2>5 DEF TryInv
<1>2. CASE Stops
  <2>1. core'.taken = core.taken /\ core'.results = core.results /\ core'.changed = core.changed
        /\ core'.stop # "" /\ phase' \notin Working
    BY <1>2 DEF Stops, Rests, Working
  <2>2. WritesShow(core')
    BY <1>0, <2>1 DEF WritesShow
  <2>3. TriesTheEdit'
    BY <2>1 DEF TriesTheEdit
  <2> QED BY <1>0, <2>1, <2>2, <2>3 DEF TryInv
<1>3. CASE Commits
  <2>1. phase = "choose" /\ phase' = "asked" /\ core'.changed = core.changed
    BY <1>3 DEF Commits
  <2>2. ASSUME NEW i \in DOMAIN core'.taken, i \notin DOMAIN core.taken
        PROVE  core'.taken[i].type \notin Previews /\ ~core'.results[i].approved
    <3>1. core'.taken[i] \in {Do("git_status"), Do("git_diff")} /\ core'.results[i] = Success
      BY <1>0, <1>3, <2>2, CommitJoins
    <3>2. Made(Do("git_status"), "git_status", <<>>, "", "") /\ Made(Do("git_diff"), "git_diff", <<>>, "", "")
      BY ActionsMade
    <3> QED BY <3>1, <3>2, ResultsMade DEF Made, Previews
  <2>3. \A i \in DOMAIN core.taken : /\ i \in DOMAIN core'.taken /\ core'.taken[i] = core.taken[i]
                                     /\ core'.results[i] = core.results[i]
    BY <1>0, <1>3, CommitJoins
  <2>4. WritesShow(core')
    BY <1>0, <2>1, <2>2, <2>3 DEF WritesShow
  <2>5. NoneForgotten(core', phase', next')
    <3> SUFFICES ASSUME NEW i \in DOMAIN core'.taken, core'.taken[i].type \in Previews,
                        core'.results[i].status = "waiting_approval"
                 PROVE  HasRun(core', core'.taken[i].cmd)
      BY DEF NoneForgotten, OnItsWay
    <3>1. i \in DOMAIN core.taken /\ core'.taken[i] = core.taken[i] /\ core'.results[i] = core.results[i]
      BY <2>2, <2>3
    <3>2. HasRun(core, core.taken[i].cmd)
      BY <2>1, <3>1 DEF TryInv, Working, NoneForgotten, OnItsWay
    <3> QED BY <2>3, <3>1, <3>2 DEF HasRun
  <2>6. TriesTheEdit'
    BY <2>1 DEF TriesTheEdit
  <2> QED BY <1>0, <2>4, <2>5, <2>6 DEF TryInv
<1>4. CASE Allows
  <2>1. phase = "asked" /\ phase' = "run" /\ core' = core
    BY <1>4 DEF Allows
  <2>2. NoneForgotten(core, "run", next')
    <3> SUFFICES ASSUME NEW i \in DOMAIN core.taken, core.taken[i].type \in Previews,
                        core.results[i].status = "waiting_approval"
                 PROVE  OnItsWay(core, "run", next', core.taken[i].cmd)
      BY DEF NoneForgotten
    <3>1. OnItsWay(core, "asked", next, core.taken[i].cmd)
      BY <2>1 DEF TryInv, Working, NoneForgotten
    <3> QED BY <1>4, <3>1 DEF OnItsWay, Allows
  <2>3. TriesTheEdit'
    BY <2>1 DEF TriesTheEdit
  <2> QED BY <1>0, <2>1, <2>2, <2>3 DEF TryInv
<1>5. CASE Answers
  <2>1. core' = core /\ next' = next /\ (phase' = phase \/ (phase = "answer" /\ phase' = "ended"))
    BY <1>5 DEF Answers
  <2>2. phase' \in Working => phase' = phase
    BY <2>1 DEF Working
  <2>3. phase' \in Working => NoneForgotten(core', phase', next')
    BY <2>1, <2>2 DEF TryInv
  <2>4. TriesTheEdit'
    BY <2>1 DEF TryInv, TriesTheEdit
  <2> QED BY <1>0, <2>1, <2>3, <2>4 DEF TryInv
<1>6. ASSUME NEW r, Observes(r) PROVE TryInv'
  <2>1. phase = "run" /\ Grows(core, core', next, r)
    BY <1>6 DEF Observes
  <2>2. Extended(core, core', next, r)
    BY <1>0, <2>1, LogIsExtended DEF RunInv
  <2>3. WritesShow(core')
    BY <1>0, <1>6, <2>2, WritesShowNow DEF Observes
  <2>4. NoneForgotten(core', phase', next')
    <3>1. NoneForgotten(core, "run", next)
      BY <2>1 DEF TryInv, Working
    <3>2. next.type \in Previews /\ r.status = "waiting_approval" => phase' = "asked" /\ next' = next
      BY <1>6 DEF Observes
    <3> QED BY <2>2, <3>1, <3>2, NoneForgottenNow
  <2>5. ASSUME phase' \in {"answer", "ended"}, core'.stop = "" PROVE Tried(core')
    <3>1. next.type \in Generates
      BY <1>6, <2>5 DEF Observes, Working
    <3>2. Len(core.taken) + 1 \in DOMAIN core'.taken /\ core'.taken[Len(core.taken) + 1] = next
      BY <2>2 DEF Extended
    <3> QED BY <3>1, <3>2 DEF Tried, EditAttempted, Has
  <2>6. TriesTheEdit'
    BY <2>5 DEF TriesTheEdit, Tried, FailedCommand
  <2> QED BY <1>0, <2>3, <2>4, <2>6 DEF TryInv
<1> QED BY <1>0, <1>1, <1>2, <1>3, <1>4, <1>5, <1>6, StepsAre

\* A request for a change does not end in an answer before an edit was tried, with
\* the exceptions that TriesTheEdit names.
THEOREM ChangesAreTried == Spec => []TriesTheEdit
<1>1. TryInv => TriesTheEdit
  BY DEF TryInv
<1> QED BY <1>1, TryStarts, TryGoesOn, PTL DEF Spec

----------------------------------------------------------------------------
\* The budget and the plan.  Every step leaves the turns alone, or takes one more of
\* them when the budget allows it.
IsPlan(p) ==
    /\ DOMAIN p = {"at", "steps"}
    /\ DOMAIN p.steps \in SUBSET Nat /\ p.at \in DOMAIN p.steps

InBudget(c) == c.turn \in Nat /\ c.limit \in Nat /\ c.turn <= c.limit /\ c.limit <= HardLimit

LEMMA MoreTurns ==
    \A t, l \in Nat :
       /\ t + 1 \in Nat /\ (~(t >= l) => t + 1 <= l)
       /\ t <= l /\ l < 18 => /\ Least(18, l + 2) \in Nat
                             /\ t + 1 <= Least(18, l + 2) /\ Least(18, l + 2) <= 18
  BY DEF Least

LEMMA TurnsAreTaken ==
    ASSUME NEW c, IsRun(c), InBudget(c), Exceeded(c) = ""
    PROVE  InBudget(TakeTurn(c)) /\ TakeTurn(c).plan = c.plan
<1> DEFINE d == TakeTurn(c)
<1>1. /\ d.turn = c.turn + 1 /\ d.plan = c.plan
      /\ d.limit = IF Extends(c) THEN Least(18, c.limit + 2) ELSE c.limit
  BY DEF TakeTurn, IsRun, Fields, HardLimit
<1>2. /\ c.turn \in Nat /\ c.limit \in Nat /\ c.turn <= c.limit /\ c.limit <= 18
  BY DEF InBudget, HardLimit
<1>3. (Extends(c) => c.limit < 18) /\ (~Extends(c) => ~(c.turn >= c.limit))
  BY DEF Extends, Exceeded, HardLimit
<1>4. d.turn \in Nat /\ d.limit \in Nat /\ d.turn <= d.limit /\ d.limit <= 18
  <2> HIDE DEF d
  <2>1. CASE Extends(c)
    BY <1>1, <1>2, <1>3, <2>1, MoreTurns
  <2>2. CASE ~Extends(c)
    <3>1. c.turn + 1 <= c.limit /\ c.turn + 1 \in Nat
      BY <1>2, <1>3, <2>2, MoreTurns
    <3> QED BY <1>1, <1>2, <2>2, <3>1
  <2> QED BY <2>1, <2>2
<1> QED BY <1>1, <1>4 DEF InBudget, HardLimit

LEMMA PlansAreKept ==
    ASSUME NEW p, IsPlan(p), NEW q, NEW a, NEW r
    PROVE  IsPlan(UpdatePlan(q, p, a, r)) /\ IsPlan(BlockPlan(p))
<1>1. \A x : IsPlan([p EXCEPT !.steps[p.at] = x])
  BY DEF IsPlan
<1>2. ASSUME NEW b, IsPlan(b) PROVE IsPlan(Advance(b))
  <2> DEFINE later == {i \in DOMAIN b.steps : i > b.at /\ b.steps[i] = "pending"}
             i == CHOOSE j \in later : \A k \in later : j <= k
  <2>1. Advance(b) = IF later = {} THEN b ELSE [at |-> i, steps |-> [b.steps EXCEPT ![i] = "running"]]
    BY DEF Advance
  <2>2. CASE later # {}
    <3>1. later \in SUBSET Nat
      BY <1>2 DEF IsPlan
    <3>2. i \in later
      <4> HIDE DEF later
      <4> QED BY <2>2, <3>1, LeastElement
    <3>3. i \in DOMAIN b.steps
      BY <3>2
    <3> HIDE DEF i, later
    <3> QED BY <1>2, <2>1, <2>2, <3>3 DEF IsPlan
  <2> QED BY <1>2, <2>1, <2>2
<1>3. IsPlan(Advance([p EXCEPT !.steps[p.at] = "completed"]))
  BY <1>1, <1>2
<1> QED BY <1>1, <1>3 DEF UpdatePlan, BlockPlan

LEMMA PlansStart == \A q : IsPlan(FirstPlan(q))
<1> SUFFICES ASSUME NEW q PROVE IsPlan(FirstPlan(q))
  OBVIOUS
<1> DEFINE s == PlannedOperations(RequestShape(q))
<1>1. DOMAIN s \in SUBSET Nat /\ 1 \in DOMAIN s
  BY DEF PlannedOperations
<1> HIDE DEF s
<1> QED BY <1>1 DEF FirstPlan, IsPlan, s

Bounded(c) == InBudget(c) /\ IsPlan(c.plan)

LEMMA StoppedIsBounded ==
    ASSUME NEW c, NEW x, IsRun(c), Bounded(c)
    PROVE  Bounded([c EXCEPT !.stop = x])
  BY DEF Bounded, InBudget, IsRun, Fields

LEMMA LoopIsBounded ==
    ASSUME RunInv, Bounded(core),
           Choose \/ ProposeCommit \/ StopAtBudget \/ TimesOut \/ Cancels \/ Deny \/ Allow \/ AnswerUser
             \/ UNCHANGED vars
    PROVE  Bounded(core')
<1>0. IsRun(core)
  BY DEF RunInv
<1> DEFINE c == TakeTurn(core)
<1>1. Exceeded(core) = "" => Bounded(c) /\ IsRun(c)
  BY <1>0, TurnsAreTaken, TurnedIsRun DEF Bounded
<1> HIDE DEF c
<1>2. CASE Choose
  <2> DEFINE d == Turned(core)
  <2>1. d = [c EXCEPT !.shifted = @ \/ Shifts(core)] /\ Exceeded(core) = ""
    BY <1>2 DEF Choose, Turned, c
  <2>2. Bounded(d) /\ IsRun(d)
    BY <1>1, <2>1 DEF Bounded, InBudget, IsRun, Fields
  <2>3. PICK a : core' = Chose(d, a)
    BY <1>2 DEF Choose
  <2> HIDE DEF d
  <2>4. /\ core'.turn = d.turn /\ core'.limit = d.limit
        /\ core'.plan \in {d.plan, BlockPlan(d.plan)}
    BY <2>2, <2>3 DEF Chose, IsRun, Fields
  <2> QED BY <2>2, <2>4, PlansAreKept DEF Bounded, InBudget
<1>3. CASE ProposeCommit
  <2> DEFINE looked == [c EXCEPT !.taken = @ \o <<Do("git_status"), Do("git_diff")>>,
                                 !.results = @ \o <<Success, Success>>]
  <2>1. core' = [looked EXCEPT !.commit = TRUE, !.said = "commit_preview"] /\ Exceeded(core) = ""
    BY <1>3 DEF ProposeCommit, c
  <2>2. IsRun(looked) /\ looked.turn = c.turn /\ looked.limit = c.limit /\ looked.plan = c.plan
    BY <1>1, <2>1 DEF IsRun, Fields
  <2> HIDE DEF looked
  <2>3. core'.turn = looked.turn /\ core'.limit = looked.limit /\ core'.plan = looked.plan
    BY <2>1, <2>2 DEF IsRun, Fields
  <2> QED BY <1>1, <2>1, <2>2, <2>3 DEF Bounded, InBudget
<1>4. CASE StopAtBudget \/ TimesOut
  <2>1. core' = [core EXCEPT !.stop = Exceeded(core)] \/ core' = [core EXCEPT !.stop = "timed_out"]
    BY <1>4 DEF StopAtBudget, TimesOut, Close
  <2> QED BY <1>0, <2>1, StoppedIsBounded
<1>5. CASE Cancels
  <2>1. core' = [c EXCEPT !.stop = "cancelled"] /\ Exceeded(core) = ""
    BY <1>5 DEF Cancels, Close, c
  <2> QED BY <1>1, <2>1, StoppedIsBounded
<1>6. CASE Deny
  <2>1. PICK said : core' = [core EXCEPT !.stop = "approval_denied", !.said = said]
    BY <1>6 DEF Deny, Close
  <2> QED BY <1>0, <2>1 DEF Bounded, InBudget, IsRun, Fields
<1>7. CASE Allow \/ AnswerUser \/ UNCHANGED vars
  BY <1>7 DEF Allow, AnswerUser, vars
<1> QED BY <1>2, <1>3, <1>4, <1>5, <1>6, <1>7

LEMMA BoundedStarts == Init => Bounded(core)
<1> SUFFICES ASSUME Init PROVE Bounded(core)
  OBVIOUS
<1>1. PICK q \in Requests :
          core = [req |-> q, taken |-> <<>>, results |-> <<>>, shifted |-> FALSE, turn |-> 0,
                  limit |-> Budget(q).turns, stop |-> "", plan |-> FirstPlan(q), proposed |-> 0,
                  faults |-> 0, repairs |-> 0, changed |-> FALSE, said |-> "", applied |-> FALSE,
                  commit |-> FALSE]
  BY DEF Init
<1>2. core.turn = 0 /\ core.limit = Budget(q).turns /\ core.plan = FirstPlan(q)
  BY <1>1
<1>3. Budget(q).turns \in {5, 6, 8, 12, 16}
  BY DEF Budget
<1> QED BY <1>2, <1>3, PlansStart DEF Bounded, InBudget, HardLimit

LEMMA BoundedGoesOn ==
    ASSUME RunInv, Bounded(core), [Next]_vars
    PROVE  Bounded(core')
<1>1. ASSUME NEW r, Observes(r) PROVE Bounded(core')
  <2>1. /\ core'.turn = core.turn /\ core'.limit = core.limit
        /\ core'.plan = UpdatePlan(core.req, core.plan, next, r)
    BY <1>1 DEF Observes, Grows
  <2> QED BY <2>1, PlansAreKept DEF Bounded, InBudget
<1>2. CASE InspectTree \/ SearchFiles \/ SearchContents \/ ReadFiles
  BY <1>1, <1>2, LookingSteps
<1>3. CASE PreviewCommand \/ WaitForUser \/ RunCommand \/ UseGatedTool \/ ToolFails
  BY <1>1, <1>3, CommandSteps
<1>4. CASE WriteFile
  BY <1>1, <1>4, WritingStep
<1>5. CASE GenerationRaises \/ GenerateEdit \/ GenerateChangeSet
  BY <1>1, <1>5, GenerationSteps
<1>6. CASE ApplyChange
  BY <1>1, <1>6, ApplyingStep
<1>7. CASE Choose \/ ProposeCommit \/ StopAtBudget \/ TimesOut \/ Cancels \/ Deny \/ Allow \/ AnswerUser
             \/ UNCHANGED vars
  BY <1>7, LoopIsBounded
<1> QED BY <1>2, <1>3, <1>4, <1>5, <1>6, <1>7 DEF Next

\* A run takes at most HardLimit turns, however often its budget is extended, and
\* its plan is always at one of its steps.
THEOREM TurnsAreBounded ==
    Spec => [](/\ core.turn \in 0..HardLimit /\ core.limit \in core.turn..HardLimit
               /\ core.plan.at \in DOMAIN core.plan.steps)
<1>1. Init => RunInv /\ Bounded(core)
  BY RunStarts, BoundedStarts
<1>2. RunInv /\ Bounded(core) /\ [Next]_vars => RunInv' /\ Bounded(core)'
  BY RunGoesOn, BoundedGoesOn DEF Bounded, InBudget, IsPlan
<1>3. RunInv /\ Bounded(core) => /\ core.turn \in 0..HardLimit /\ core.limit \in core.turn..HardLimit
                                /\ core.plan.at \in DOMAIN core.plan.steps
  BY DEF Bounded, InBudget, IsPlan, HardLimit
<1> QED BY <1>1, <1>2, <1>3, PTL DEF Spec
----------------------------------------------------------------------------
\* A run ends.  What the user allowed is neither a generation nor a preview, and no
\* generation is put before the user: so nothing waits twice.
Aware ==
    /\ phase \in {"choose", "run", "asked", "answer", "ended"}
    /\ phase = "run" /\ next.src = "approved" => next.type \notin Generates \cup Previews
    /\ phase = "asked" => next.type \notin Generates

\* how a step takes the run forward
SameTurn == core'.turn = core.turn
Forward ==
    \/ phase = "run" /\ SameTurn /\ phase' \in {"choose", "answer"}
    \/ phase = "run" /\ SameTurn /\ next.src # "approved" /\ phase' = "asked"
    \/ phase = "run" /\ SameTurn /\ next.src # "approved" /\ phase' = "run" /\ next'.src = "approved"
    \/ phase = "asked" /\ SameTurn /\ phase' = "run" /\ next'.src = "approved"
    \/ phase = "asked" /\ SameTurn /\ phase' = "answer"
    \/ phase = "choose" /\ SameTurn /\ phase' = "answer"
    \/ phase = "choose" /\ core'.turn = core.turn + 1 /\ phase' \in {"run", "asked", "answer"}
    \/ phase = "answer" /\ SameTurn /\ phase' = "ended"

LEMMA ForwardUsesUp ==
    ASSUME core.turn \in 0..18, core'.turn \in 0..18, Forward
    PROVE  StepsAhead' < StepsAhead
<1> DEFINE standing == CASE phase = "choose" -> 2
                         [] phase = "run" /\ next.src = "approved" -> 3
                         [] phase = "run" /\ next.src # "approved" -> 5
                         [] phase = "asked" -> 4
                         [] phase = "answer" -> 1
                         [] phase = "ended" -> 0
<1>1. StepsAhead = 6 * (18 - core.turn) + standing /\ StepsAhead' = 6 * (18 - core'.turn) + standing'
  BY DEF StepsAhead, HardLimit
<1>2. /\ phase = "choose" => standing = 2
      /\ phase = "run" /\ next.src = "approved" => standing = 3
      /\ phase = "run" /\ next.src # "approved" => standing = 5
      /\ phase = "asked" => standing = 4
      /\ phase = "answer" => standing = 1
  OBVIOUS
<1>3. /\ phase' = "choose" => standing' = 2
      /\ phase' = "run" /\ next'.src = "approved" => standing' = 3
      /\ phase' = "run" /\ next'.src # "approved" => standing' = 5
      /\ phase' = "asked" => standing' = 4
      /\ phase' = "answer" => standing' = 1
      /\ phase' = "ended" => standing' = 0
  OBVIOUS
<1> HIDE DEF standing
<1>4. CASE SameTurn
  <2>1. /\ standing \in 0..5 /\ standing' \in 0..5 /\ standing' < standing
    BY <1>2, <1>3, <1>4 DEF Forward, SameTurn
  <2> QED BY <1>1, <1>4, <2>1 DEF SameTurn
<1>5. CASE core'.turn = core.turn + 1
  <2>1. standing = 2 /\ standing' \in 0..5
    BY <1>2, <1>3, <1>5 DEF Forward, SameTurn
  <2> QED BY <1>1, <1>5, <2>1
<1> QED BY <1>4, <1>5 DEF Forward

\* what the actions of the tools make of phase and next
LEMMA ToolsGoForward ==
    ASSUME RunInv, Aware,
           InspectTree \/ SearchFiles \/ SearchContents \/ ReadFiles \/ PreviewCommand \/ WaitForUser
             \/ RunCommand \/ UseGatedTool \/ ToolFails \/ WriteFile \/ GenerationRaises
             \/ GenerateEdit \/ GenerateChangeSet \/ ApplyChange
    PROVE  Forward /\ Aware'
<1>1. phase = "run" /\ SameTurn
  <2>1. \E r : Observes(r)
    BY LookingSteps, CommandSteps, WritingStep, GenerationSteps, ApplyingStep
  <2> QED BY <2>1 DEF Observes, Grows, SameTurn
<1>2. CASE phase' \in {"choose", "answer"}
  BY <1>1, <1>2 DEF Forward, Aware
<1>3. CASE WaitForUser
  <2>1. /\ phase' = "asked" /\ next' = next /\ next.src # "approved"
        /\ next.type \in {"fetch_url", "git_commit", "git_branch_create", "create_file", "run_approved_command"}
    BY <1>3 DEF WaitForUser, Pause, NeedsApproval
  <2> QED BY <1>1, <2>1 DEF Forward, Aware, Generates
<1>4. CASE PreviewCommand /\ phase' \notin {"choose", "answer"}
  <2>1. phase' = "asked" /\ next' = next /\ next.type \in Previews
    BY <1>4 DEF PreviewCommand, Running, Pause, Return
  <2>2. next.type \notin Generates /\ next.src # "approved"
    BY <1>1, <2>1 DEF Aware, Previews, Generates
  <2> QED BY <1>1, <2>1, <2>2 DEF Forward, Aware
<1>5. ASSUME next.type \in Generates, NEW c, Proposes(c)
      PROVE  Forward /\ Aware'
  <2>1. /\ next' = [Do("apply_change_set") EXCEPT !.src = IF c.req.auto THEN "approved" ELSE ""]
        /\ phase' = IF c.req.auto THEN "run" ELSE "asked"
    BY <1>5 DEF Proposes
  <2>2. Made(Do("apply_change_set"), "apply_change_set", <<>>, "", "")
    BY ActionsMade
  <2>3. next'.type = "apply_change_set" /\ next'.src = IF c.req.auto THEN "approved" ELSE ""
    BY <2>1, <2>2 DEF Made, IsAction
  <2>4. next.src # "approved"
    BY <1>1, <1>5 DEF Aware
  <2> QED BY <1>1, <2>1, <2>3, <2>4 DEF Forward, Aware, Generates, Previews
<1>6. CASE (GenerateEdit \/ GenerateChangeSet) /\ phase' \notin {"choose", "answer"}
  <2>1. next.type \in Generates /\ \E c : Proposes(c)
    BY <1>6 DEF GenerateEdit, GenerateChangeSet, Running, Generates, Close
  <2> QED BY <1>5, <2>1
<1>7. InspectTree \/ SearchFiles \/ SearchContents \/ ReadFiles \/ RunCommand \/ UseGatedTool \/ ToolFails
        \/ WriteFile \/ GenerationRaises \/ ApplyChange
      => phase' \in {"choose", "answer"}
  BY DEF InspectTree, SearchFiles, SearchContents, ReadFiles, RunCommand, UseGatedTool, ToolFails,
         WriteFile, GenerationRaises, ApplyChange, Return, Close
<1> QED BY <1>2, <1>3, <1>4, <1>6, <1>7

\* what is chosen is neither a generation nor a preview that the user allowed
LEMMA ChoiceIsNotAllowed ==
    ASSUME NEW c, NEW t, NEW p, NEW a, SortOf(c, t, p, a), Proposable(t), a.src = "approved"
    PROVE  a.type \notin Generates \cup Previews
<1>1. \A x \in Gated \cup Searches \cup {"inspect_repo_tree", "ask_clarification", "final_answer"} :
         x \notin Generates \cup Previews
  BY DEF Gated, Searches, Generates, Previews
<1>2. Gathers(a) => a.type \notin Generates \cup Previews
  BY DEF Gathers, Generates, Previews
<1>3. a # t \/ t = NoAction
  BY Proposals
<1>4. a # Answer
  BY ActionsMade DEF Made
<1> QED BY <1>1, <1>2, <1>3, <1>4 DEF SortOf, Made

LEMMA ChoosingGoesForward ==
    ASSUME RunInv, Choose
    PROVE  Forward /\ Aware'
<1>1. IsRun(core)
  BY DEF RunInv
<1>2. PICK t, p : Chooses(t, p)
  BY Choosing
<1>3. core'.turn = core.turn + 1
  <2> DEFINE c == Turned(core)
  <2>1. IsRun(c) /\ c.turn = core.turn + 1
    BY <1>1 DEF Turned, TakeTurn, IsRun, Fields
  <2>2. core' = Chose(c, next')
    BY <1>2 DEF Chooses
  <2> HIDE DEF c
  <2>3. core'.turn = c.turn
    BY <2>1, <2>2 DEF Chose, IsRun, Fields
  <2> QED BY <2>1, <2>3
<1>4. PICK a : SortOf(Turned(core), t, p, a) /\ next'.type = a.type /\ next'.src = a.src
  BY <1>2, ChosenFrom DEF Sorted
<1>5. next'.src = "approved" => next'.type \notin Generates \cup Previews
  BY <1>2, <1>4, ChoiceIsNotAllowed DEF Chooses
<1>6. phase = "choose" /\ phase' \in {"answer", "run"}
  BY <1>2 DEF Chooses
<1> QED BY <1>3, <1>5, <1>6 DEF Forward, Aware

LEMMA LoopGoesForward ==
    ASSUME RunInv, Aware,
           ProposeCommit \/ StopAtBudget \/ TimesOut \/ Cancels \/ Deny \/ Allow \/ AnswerUser
    PROVE  Forward /\ Aware'
<1>0. IsRun(core)
  BY DEF RunInv
<1>1. IsRun(TakeTurn(core)) /\ TakeTurn(core).turn = core.turn + 1
  BY <1>0 DEF TakeTurn, IsRun, Fields
<1>2. \A c, x : IsRun(c) => [c EXCEPT !.stop = x].turn = c.turn
  BY DEF IsRun, Fields
<1>3. CASE ProposeCommit
  <2> DEFINE c == TakeTurn(core)
             looked == [c EXCEPT !.taken = @ \o <<Do("git_status"), Do("git_diff")>>,
                                 !.results = @ \o <<Success, Success>>]
  <2>1. core' = [looked EXCEPT !.commit = TRUE, !.said = "commit_preview"]
    BY <1>3 DEF ProposeCommit
  <2> HIDE DEF c
  <2>2. IsRun(looked) /\ looked.turn = core.turn + 1
    BY <1>1 DEF IsRun, Fields, c
  <2> HIDE DEF looked
  <2>3. core'.turn = core.turn + 1
    BY <2>1, <2>2 DEF IsRun, Fields
  <2>4. Made(Do("git_commit"), "git_commit", <<>>, "", "")
    BY ActionsMade
  <2>5. phase = "choose" /\ phase' = "asked" /\ next'.type = "git_commit"
    BY <1>3, <2>4 DEF ProposeCommit, Made
  <2> QED BY <2>3, <2>5 DEF Forward, Aware, Generates
<1>4. CASE StopAtBudget \/ TimesOut
  <2>1. phase = "choose" /\ phase' = "answer"
    BY <1>4 DEF StopAtBudget, TimesOut, Close
  <2>2. \E x : core' = [core EXCEPT !.stop = x]
    BY <1>4 DEF StopAtBudget, TimesOut, Close
  <2> QED BY <1>0, <1>2, <2>1, <2>2 DEF Forward, Aware, SameTurn
<1>5. CASE Cancels
  <2>1. phase = "choose" /\ phase' = "answer" /\ core' = [TakeTurn(core) EXCEPT !.stop = "cancelled"]
    BY <1>5 DEF Cancels, Close
  <2> QED BY <1>1, <1>2, <2>1 DEF Forward, Aware
<1>6. CASE Deny
  <2>1. PICK said : core' = [core EXCEPT !.stop = "approval_denied", !.said = said]
    BY <1>6 DEF Deny, Close
  <2>2. core'.turn = core.turn
    BY <1>0, <2>1 DEF IsRun, Fields
  <2>3. phase = "asked" /\ phase' = "answer"
    BY <1>6 DEF Deny, Close
  <2> QED BY <2>2, <2>3 DEF Forward, Aware, SameTurn
<1>7. CASE Allow
  <2>1. phase = "asked" /\ phase' = "run" /\ core' = core /\ IsAction(next) /\ next.type \notin Generates
    BY <1>7 DEF Allow, Aware, RunInv
  <2>2. CASE next.type \in Previews
    <3>1. Made(Run("run_approved_command", next.cmd), "run_approved_command", <<>>, "", next.cmd)
      BY ActionsMade
    <3>2. next' = [Run("run_approved_command", next.cmd) EXCEPT !.src = "approved"]
      BY <1>7, <2>2 DEF Allow
    <3>3. next'.type = "run_approved_command" /\ next'.src = "approved"
      BY <3>1, <3>2 DEF Made, IsAction
    <3> QED BY <2>1, <3>3 DEF Forward, Aware, SameTurn, Generates, Previews
  <2>3. CASE next.type \notin Previews
    <3>1. next'.type = next.type /\ next'.src = "approved"
      BY <1>7, <2>1, <2>3 DEF Allow, IsAction
    <3> QED BY <2>1, <2>3, <3>1 DEF Forward, Aware, SameTurn
  <2> QED BY <2>2, <2>3
<1>8. CASE AnswerUser
  BY <1>8 DEF AnswerUser, Forward, Aware, SameTurn
<1> QED BY <1>3, <1>4, <1>5, <1>6, <1>7, <1>8

LEMMA StepsGoForward ==
    ASSUME RunInv, Aware, Next
    PROVE  Forward /\ Aware'
  BY ChoosingGoesForward, LoopGoesForward, ToolsGoForward DEF Next

EndInv == RunInv /\ Bounded(core) /\ Aware

LEMMA EndStarts == Init => EndInv
<1>1. Init => Aware
  BY DEF Init, Aware
<1> QED BY <1>1, RunStarts, BoundedStarts DEF EndInv

LEMMA EndGoesOn == EndInv /\ [Next]_vars => EndInv'
<1> SUFFICES ASSUME EndInv, [Next]_vars PROVE EndInv'
  OBVIOUS
<1>1. RunInv' /\ Bounded(core')
  BY RunGoesOn, BoundedGoesOn DEF EndInv
<1>2. CASE Next
  BY <1>1, <1>2, StepsGoForward DEF EndInv, Bounded, InBudget, IsPlan
<1>3. CASE UNCHANGED vars
  BY <1>1, <1>3 DEF EndInv, Aware, vars, Bounded, InBudget, IsPlan
<1> QED BY <1>2, <1>3

\* Every step uses up some of what the run has left: there is no way round and round
\* through approvals, repairs of a generation and extensions of the budget.
THEOREM RunsEnd == Spec => EndsInTime
<1>1. ASSUME EndInv, Next PROVE StepsAhead' < StepsAhead
  <2>1. Forward
    BY <1>1, StepsGoForward DEF EndInv
  <2>2. core.turn \in 0..18 /\ core'.turn \in 0..18
    <3>1. InBudget(core) /\ InBudget(core')
      BY <1>1, BoundedGoesOn DEF EndInv, Bounded
    <3> QED BY <3>1 DEF InBudget, HardLimit
  <2> QED BY <2>1, <2>2, ForwardUsesUp
<1>2. EndInv /\ [Next]_vars => [StepsAhead' < StepsAhead]_vars
  BY <1>1
<1> QED BY <1>2, EndStarts, EndGoesOn, PTL DEF Spec, EndsInTime

\* What a run has left is never less than nothing and at most what it starts with:
\* so no run takes more than 6 * HardLimit + 2 steps.
THEOREM RunsAreShort == Spec => [](StepsAhead \in 0..(6 * HardLimit + 2))
<1>1. Init => StepsAhead <= 110
  <2> SUFFICES ASSUME Init PROVE StepsAhead <= 110
    OBVIOUS
  <2>1. core.turn = 0 /\ phase = "choose"
    <3>1. PICK q \in Requests :
            core = [req |-> q, taken |-> <<>>, results |-> <<>>, shifted |-> FALSE, turn |-> 0,
                    limit |-> Budget(q).turns, stop |-> "", plan |-> FirstPlan(q), proposed |-> 0,
                    faults |-> 0, repairs |-> 0, changed |-> FALSE, said |-> "", applied |-> FALSE,
                    commit |-> FALSE]
      BY DEF Init
    <3>2. core.turn = 0
      BY <3>1
    <3> QED BY <3>2 DEF Init
  <2>2. StepsAhead = 6 * (18 - 0) + 2
    BY <2>1 DEF StepsAhead, HardLimit
  <2> QED BY <2>2
<1>2. EndInv => StepsAhead \in Nat
  <2> SUFFICES ASSUME EndInv PROVE StepsAhead \in Nat
    OBVIOUS
  <2>1. core.turn \in 0..18 /\ phase \in {"choose", "run", "asked", "answer", "ended"}
    BY DEF EndInv, Bounded, InBudget, HardLimit, Aware
  <2>2. \E n \in 0..5 : StepsAhead = 6 * (18 - core.turn) + n
    BY <2>1 DEF StepsAhead, HardLimit
  <2> QED BY <2>1, <2>2
<1>3. /\ StepsAhead \in Nat /\ (StepsAhead \in Nat)' /\ StepsAhead <= 110 /\ [StepsAhead' < StepsAhead]_vars
      => (StepsAhead <= 110)'
  <2>1. UNCHANGED vars => StepsAhead' = StepsAhead
    BY DEF vars, StepsAhead
  <2> QED BY <2>1
<1>4. EndInv /\ StepsAhead <= 110 => StepsAhead \in 0..(6 * HardLimit + 2)
  BY <1>2 DEF HardLimit
<1> QED BY <1>1, <1>2, <1>3, <1>4, EndStarts, EndGoesOn, RunsEnd, PTL DEF Spec, EndsInTime

----------------------------------------------------------------------------
\* The type invariant.  Only what a model proposes counts as its proposal: the
\* sources of the agent's own actions are others.
ModelSources == {"model", "model_planner", "approval"}
Own(a) == a.src \notin ModelSources

LEMMA OwnActions ==
    /\ Own(NoAction) /\ Own(Answer) /\ \A x : Own(Do(x)) /\ Own(Read(x))
    /\ \A x, y : Own(Run(x, y)) /\ Own(Generate(x, y))
    /\ \A x, s : s \notin ModelSources => Own(Search(x, s)) /\ Own(SearchText(x, s)) /\ Own(Ask(s))
<1>1. "" \notin ModelSources
  BY Zenon DEF ModelSources
<1>2. Own(NoAction) /\ Own(Answer) /\ \A x : Own(Do(x)) /\ Own(Read(x))
  BY <1>1, ActionsMade DEF Own, Made
<1>3. ASSUME NEW x, NEW y PROVE Own(Run(x, y)) /\ Own(Generate(x, y))
  <2>1. Made(Run(x, y), x, <<>>, "", y) /\ Made(Generate(x, y), x, y, "", "")
    BY ActionsMade
  <2> QED BY <1>1, <2>1 DEF Own, Made
<1>4. ASSUME NEW x, NEW s, s \notin ModelSources
      PROVE  Own(Search(x, s)) /\ Own(SearchText(x, s)) /\ Own(Ask(s))
  <2>1. /\ Made(Search(x, s), "search_files", <<>>, s, "")
        /\ Made(SearchText(x, s), "search_text", <<>>, s, "")
        /\ Made(Ask(s), "ask_clarification", <<>>, s, "")
    BY ActionsMade
  <2> QED BY <1>4, <2>1 DEF Own, Made
<1> QED BY <1>2, <1>3, <1>4

LEMMA OwnSources ==
    \A s \in {"", "broad_inventory", "edit_discovery", "followup_discovery", "recovery_filename_search",
              "recovery_broaden_search", "recovery_read_basename", "missing", "clarification"} :
       s \notin ModelSources
  BY Zenon DEF ModelSources

LEMMA EvidenceIsOwn ==
    ASSUME NEW c
    PROVE  Own(NextEvidence(c))
<1>1. Own(SummaryEvidence(c))
  BY OwnActions DEF SummaryEvidence
<1>2. Own(BroadEvidence(c))
  <2>1. "broad_inventory" \notin ModelSources
    BY OwnSources
  <2>2. Own(Search({"*.py", "*.md"}, "broad_inventory"))
    BY <2>1, OwnActions, Zenon
  <2> QED BY <2>2, OwnActions, Zenon DEF BroadEvidence
<1>3. Own(EditEvidence(c))
  <2>1. Own(EditContext(c))
    BY OwnActions DEF EditContext
  <2>2. \A x : Own(Search(x, "edit_discovery"))
    BY OwnActions, OwnSources
  <2> QED BY <2>1, <2>2, OwnActions DEF EditEvidence
<1>4. Own(FollowUpEvidence(c))
  <2>1. \A x : Own(Search(x, "followup_discovery"))
    BY OwnActions, OwnSources
  <2> QED BY <2>1, OwnActions DEF FollowUpEvidence
<1> QED BY <1>1, <1>2, <1>3, <1>4 DEF NextEvidence

LEMMA RecoveryIsOwn ==
    ASSUME NEW c
    PROVE  Own(Recovering(c))
<1>0. /\ \A x : Own(Search(x, "recovery_filename_search")) /\ Own(SearchText(x, "recovery_broaden_search"))
      /\ \A x : Own(Search(x, "recovery_read_basename"))
  BY OwnActions, OwnSources
<1>1. ASSUME NEW a, NEW r PROVE Own(Recovery(c, a, r))
  <2>1. Own(RecoverText(c, a))
    BY <1>0, EvidenceIsOwn DEF RecoverText
  <2>2. Own(RecoverFiles(c, a))
    BY OwnActions, EvidenceIsOwn DEF RecoverFiles
  <2>3. Own(RecoverRead(c, a))
    BY <1>0, EvidenceIsOwn DEF RecoverRead
  <2> QED BY <2>1, <2>2, <2>3, OwnActions, EvidenceIsOwn DEF Recovery
<1> QED BY <1>1, OwnActions DEF Recovering

LEMMA RequestStepsAreOwn ==
    ASSUME NEW c
    PROVE  /\ Own(WriteDone(c)) /\ Own(OffTopicStep(c)) /\ Own(MetaStep(c)) /\ Own(FetchStep(c))
           /\ Own(MissingFileStep(c)) /\ Own(CommitStep(c)) /\ Own(BranchStep(c))
           /\ Own(CreateFileStep(c)) /\ Own(CommandStep(c)) /\ Own(CoveredStep(c))
<1>1. /\ Own(WriteDone(c)) /\ Own(OffTopicStep(c)) /\ Own(MetaStep(c)) /\ Own(FetchStep(c))
      /\ Own(CommitStep(c)) /\ Own(BranchStep(c)) /\ Own(CoveredStep(c)) /\ Own(CreateFileStep(c))
  BY OwnActions DEF WriteDone, OffTopicStep, MetaStep, FetchStep, CommitStep, BranchStep, CoveredStep,
                    CreateFileStep, If
<1>2. Own(MissingFileStep(c))
  <2>1. Own(Ask("missing")) /\ \A x : Own(Search(x, "missing"))
    BY OwnActions, OwnSources
  <2> QED BY <2>1, OwnActions DEF MissingFileStep
<1>3. Own(CommandStep(c))
  <2>1. \A x : Own(PreviewOf(x))
    BY OwnActions DEF PreviewOf
  <2> QED BY <2>1, OwnActions DEF CommandStep
<1> QED BY <1>1, <1>2, <1>3

LEMMA EvidenceStepsAreOwn ==
    ASSUME NEW c
    PROVE  /\ Own(ExplicitTargetStep(c)) /\ Own(SymbolStep(c)) /\ Own(PolicyEvidenceStep(c))
           /\ Own(SearchCandidateStep(c)) /\ Own(EditStep(c)) /\ Own(ProjectSummaryStep(c))
<1>0. Own(Ask("clarification")) /\ \A x : Own(Search(x, ""))
  BY OwnActions, OwnSources
<1>1. Own(ExplicitTargetStep(c))
  BY <1>0, OwnActions DEF ExplicitTargetStep, If
<1>2. Own(SymbolStep(c)) /\ Own(SearchCandidateStep(c)) /\ Own(ProjectSummaryStep(c))
  BY <1>0, OwnActions DEF SymbolStep, SearchCandidateStep, ProjectSummaryStep, If
<1>3. Own(PolicyEvidenceStep(c))
  BY <1>0, OwnActions, EvidenceIsOwn DEF PolicyEvidenceStep, If
<1>4. Own(EditStep(c))
  BY <1>0, OwnActions DEF EditStep, Prepare
<1> QED BY <1>1, <1>2, <1>3, <1>4

\* without a proposal of the model the choice is the agent's own
LEMMA ChoiceIsOwn ==
    ASSUME NEW c
    PROVE  Own(FirstUsable(c, Choosers(c, NoAction, NoAction)))
<1> DEFINE cs == Choosers(c, NoAction, NoAction)
           a == FirstUsable(c, cs)
<1>0. DOMAIN cs = 1..19 /\ 19 \in Nat
  BY ChooserTable
<1>1. /\ cs[1] = Recovering(c) /\ cs[2] = WriteDone(c) /\ cs[3] = OffTopicStep(c)
      /\ cs[4] = MetaStep(c) /\ cs[5] = FetchStep(c) /\ cs[6] = MissingFileStep(c)
      /\ cs[7] = CommitStep(c) /\ cs[8] = BranchStep(c) /\ cs[9] = CreateFileStep(c)
      /\ cs[10] = CommandStep(c) /\ cs[11] = CoveredStep(c) /\ cs[12] = ToolCallingStep(c, NoAction)
      /\ cs[13] = ExplicitTargetStep(c) /\ cs[14] = SymbolStep(c)
      /\ cs[15] = PolicyEvidenceStep(c) /\ cs[16] = ModelPlannerStep(c, NoAction)
      /\ cs[17] = SearchCandidateStep(c) /\ cs[18] = EditStep(c)
      /\ cs[19] = ProjectSummaryStep(c)
  BY ChooserTable
<1> HIDE DEF cs
<1>2. ToolCallingStep(c, NoAction) = NoAction /\ ModelPlannerStep(c, NoAction) = NoAction
  <2>1. ToolCallingStep(c, NoAction) = NoAction
    BY DEF ToolCallingStep, If
  <2>2. NoAction.type = "none"
    BY DEF NoAction
  <2>3. ModelPlannerStep(c, NoAction) = NoAction
    BY <2>2 DEF ModelPlannerStep, Generates, Previews
  <2> QED BY <2>1, <2>3
<1>3. \A i \in 1..19 : Own(cs[i])
  <2> TAKE i \in 1..19
  <2>1. \/ i = 1 \/ i = 2 \/ i = 3 \/ i = 4 \/ i = 5 \/ i = 6 \/ i = 7 \/ i = 8 \/ i = 9 \/ i = 10
        \/ i = 11 \/ i = 12 \/ i = 13 \/ i = 14 \/ i = 15 \/ i = 16 \/ i = 17 \/ i = 18 \/ i = 19
    OBVIOUS
  <2> QED BY <1>1, <1>2, <2>1, RecoveryIsOwn, RequestStepsAreOwn, EvidenceStepsAreOwn, OwnActions
<1>4. a = Answer \/ \E i \in 1..19 : a = cs[i]
  BY <1>0, UsableIsChosen
<1> HIDE DEF a
<1>5. Own(a)
  BY <1>3, <1>4, OwnActions
<1> QED BY <1>5 DEF a, cs

\* the two counters of the bounds
InBounds(c) == c.proposed \in 0..MaxModel /\ c.faults \in 0..MaxFaults
SameCounts(c, d) == d.proposed = c.proposed /\ d.faults = c.faults

LEMMA BoundsAreNumbers == MaxModel \in Nat /\ MaxFaults \in Nat
  BY ChooserAssumption

LEMMA UncountedSteps ==
    \A c : IsRun(c) =>
       /\ IsRun(TakeTurn(c)) /\ SameCounts(c, TakeTurn(c)) /\ IsRun(Turned(c)) /\ SameCounts(c, Turned(c))
       /\ \A r : IsRun(Observed(c, r)) /\ SameCounts(c, Observed(c, r))
       /\ \A x : SameCounts(c, [c EXCEPT !.stop = x])
<1> SUFFICES ASSUME NEW c, IsRun(c)
             PROVE  /\ IsRun(TakeTurn(c)) /\ SameCounts(c, TakeTurn(c)) /\ IsRun(Turned(c)) /\ SameCounts(c, Turned(c))
                    /\ \A r : IsRun(Observed(c, r)) /\ SameCounts(c, Observed(c, r))
                    /\ \A x : SameCounts(c, [c EXCEPT !.stop = x])
  OBVIOUS
<1>1. IsRun(TakeTurn(c)) /\ SameCounts(c, TakeTurn(c))
  BY DEF IsRun, Fields, TakeTurn, SameCounts
<1>2. IsRun(Turned(c)) /\ SameCounts(c, Turned(c))
  BY <1>1 DEF IsRun, Fields, Turned, SameCounts
<1>3. ASSUME NEW r PROVE IsRun(Observed(c, r)) /\ SameCounts(c, Observed(c, r))
  <2>1. IsRun(Observed(c, r))
    BY ObservedIsRun
  <2>2. SameCounts(c, Observed(c, r))
    BY DEF Observed, IsRun, Fields, SameCounts
  <2> QED BY <2>1, <2>2
<1>4. \A x : SameCounts(c, [c EXCEPT !.stop = x])
  BY DEF IsRun, Fields, SameCounts
<1> QED BY <1>1, <1>2, <1>3, <1>4

LEMMA FaultsAreCounted ==
    ASSUME NEW c, IsRun(c), InBounds(core), SameCounts(core, c), Fault
    PROVE  InBounds(Counted(c))
<1>1. Counted(c).proposed = c.proposed /\ Counted(c).faults = c.faults + 1
  BY DEF Counted, IsRun, Fields
<1> QED BY <1>1, BoundsAreNumbers DEF InBounds, SameCounts, Fault

LEMMA ChoosingIsCounted ==
    ASSUME RunInv, InBounds(core), Choose
    PROVE  InBounds(core')
<1> DEFINE c == Turned(core)
<1>1. IsRun(core) /\ IsRun(c) /\ SameCounts(core, c)
  BY UncountedSteps DEF RunInv
<1>2. PICK t, p \in IF core.proposed < MaxModel THEN Menu \cup {NoAction} ELSE {NoAction} :
          /\ next' = Chosen(Turned(core), t, p)
          /\ core' = Chose(Turned(core), next')
  BY DEF Choose
<1>3. ~(core.proposed < MaxModel) => Own(next')
  <2> SUFFICES ASSUME ~(core.proposed < MaxModel) PROVE Own(next')
    OBVIOUS
  <2> DEFINE a == FirstUsable(c, Choosers(c, NoAction, NoAction))
  <2>1. next' = WithTargets(c, a)
    BY <1>2 DEF Chosen
  <2>2. Own(a)
    BY ChoiceIsOwn
  <2> HIDE DEF a, c
  <2>3. WithTargets(c, a) = a \/ \E fs : WithTargets(c, a) = [a EXCEPT !.files = fs]
    BY DEF WithTargets
  <2>4. \A fs : [a EXCEPT !.files = fs].src = a.src
    OBVIOUS
  <2> QED BY <2>1, <2>2, <2>3, <2>4 DEF Own
<1> HIDE DEF c
<1>4. /\ core'.faults = c.faults
      /\ core'.proposed = c.proposed + When(next'.src \in ModelSources, 1)
  BY <1>1, <1>2 DEF Chose, IsRun, Fields, ModelSources, c
<1>5. core'.proposed = core.proposed \/ (core.proposed < MaxModel /\ core'.proposed = core.proposed + 1)
  <2>1. core.proposed \in Nat
    BY BoundsAreNumbers DEF InBounds
  <2> QED BY <1>1, <1>3, <1>4, <2>1 DEF SameCounts, Own, When
<1> QED BY <1>1, <1>4, <1>5, BoundsAreNumbers DEF SameCounts, InBounds

LEMMA ToolsAreCounted ==
    ASSUME RunInv, InBounds(core),
           InspectTree \/ SearchFiles \/ SearchContents \/ ReadFiles \/ PreviewCommand \/ WaitForUser
             \/ RunCommand \/ UseGatedTool \/ ToolFails \/ WriteFile \/ GenerationRaises
             \/ GenerateEdit \/ GenerateChangeSet \/ ApplyChange
    PROVE  InBounds(core')
<1>0. IsRun(core)
  BY DEF RunInv
<1>1. \A c : IsRun(c) /\ SameCounts(core, c) => InBounds(c)
  BY DEF SameCounts, InBounds
<1>2. \A r : IsRun(Observed(core, r)) /\ SameCounts(core, Observed(core, r))
  BY <1>0, UncountedSteps
<1>3. ASSUME NEW r, core' = Observed(core, r) PROVE InBounds(core')
  BY <1>1, <1>2, <1>3
<1>4. ASSUME NEW r, Fault, core' = Counted(Observed(core, r)) PROVE InBounds(core')
  BY <1>2, <1>4, FaultsAreCounted
<1>5. ASSUME NEW r PROVE IsRun(Generated(r)) /\ SameCounts(core, Generated(r))
  <2> DEFINE c == Observed(core, r)
  <2>1. IsRun(c) /\ SameCounts(core, c)
    BY <1>2
  <2>2. Generated(r) = [c EXCEPT !.applied = FALSE]
    BY DEF Generated
  <2> HIDE DEF c
  <2> QED BY <2>1, <2>2 DEF IsRun, Fields, SameCounts
<1>6. ASSUME NEW r, Close(Generated(r)) PROVE InBounds(core')
  BY <1>1, <1>5, <1>6 DEF Close
<1>7. ASSUME NEW r, Proposes(Generated(r)) PROVE InBounds(core')
  <2> DEFINE c == Generated(r)
  <2>1. IsRun(c) /\ SameCounts(core, c)
    BY <1>5
  <2>2. \E said : core' = [c EXCEPT !.said = said]
    BY <1>7 DEF Proposes
  <2> HIDE DEF c
  <2> QED BY <2>1, <2>2 DEF IsRun, Fields, SameCounts, InBounds
<1>8. CASE InspectTree \/ SearchFiles \/ SearchContents \/ ReadFiles \/ PreviewCommand \/ WaitForUser
             \/ UseGatedTool
  <2>1. \E r : core' = Observed(core, r)
    BY <1>8 DEF InspectTree, SearchFiles, SearchContents, ReadFiles, PreviewCommand, WaitForUser,
                UseGatedTool, Return, Pause
  <2> QED BY <1>3, <2>1
<1>9. CASE RunCommand \/ ToolFails
  <2>1. \E r : core' = Observed(core, r) \/ (Fault /\ core' = Counted(Observed(core, r)))
    BY <1>9 DEF RunCommand, ToolFails, Return
  <2> QED BY <1>3, <1>4, <2>1
<1>10. CASE WriteFile
  <2> DEFINE c == Observed(core, [Success EXCEPT !.approved = TRUE])
  <2>1. IsRun(c) /\ SameCounts(core, c)
    BY <1>2
  <2>2. core' = [c EXCEPT !.changed = TRUE]
    BY <1>10 DEF WriteFile
  <2> HIDE DEF c
  <2> QED BY <2>1, <2>2 DEF IsRun, Fields, SameCounts, InBounds
<1>11. CASE GenerationRaises
  <2> DEFINE c == Generated(Failure)
  <2>1. core' = [c EXCEPT !.repairs = @ + 1] \/ Close(c)
    BY <1>11 DEF GenerationRaises
  <2>2. IsRun(c) /\ SameCounts(core, c)
    BY <1>5
  <2>3. Close(c) => InBounds(core')
    BY <1>6
  <2> HIDE DEF c
  <2>4. core' = [c EXCEPT !.repairs = @ + 1] => InBounds(core')
    BY <2>2 DEF IsRun, Fields, SameCounts, InBounds
  <2> QED BY <2>1, <2>3, <2>4
<1>12. CASE GenerateEdit \/ GenerateChangeSet
  <2>1. \E r : Close(Generated(r)) \/ Proposes(Generated(r))
    BY <1>12 DEF GenerateEdit, GenerateChangeSet
  <2> QED BY <1>6, <1>7, <2>1
<1>13. CASE ApplyChange
  <2> DEFINE s == Observed(core, Success)
             f == Observed(core, Failure)
             done == [s EXCEPT !.changed = TRUE, !.applied = TRUE, !.said = "applied"]
             late == [done EXCEPT !.stop = "failed"]
             fail == [f EXCEPT !.said = "apply_failed"]
  <2>1. \/ core' = done
        \/ Fault /\ core' = Counted(late)
        \/ Fault /\ core' = Counted(fail)
    BY <1>13 DEF ApplyChange
  <2>2. IsRun(s) /\ SameCounts(core, s) /\ IsRun(f) /\ SameCounts(core, f)
    BY <1>2
  <2> HIDE DEF s, f
  <2>3. IsRun(done) /\ SameCounts(core, done)
    BY <2>2 DEF IsRun, Fields, SameCounts, Sayings
  <2>4. IsRun(fail) /\ SameCounts(core, fail)
    BY <2>2 DEF IsRun, Fields, SameCounts, Sayings
  <2> HIDE DEF done, fail
  <2>5. IsRun(late) /\ SameCounts(core, late)
    BY <2>3 DEF IsRun, Fields, SameCounts
  <2> HIDE DEF late
  <2> QED BY <1>1, <2>1, <2>3, <2>4, <2>5, FaultsAreCounted
<1> QED BY <1>8, <1>9, <1>10, <1>11, <1>12, <1>13

LEMMA LoopIsCounted ==
    ASSUME RunInv, InBounds(core),
           ProposeCommit \/ StopAtBudget \/ TimesOut \/ Cancels \/ Deny \/ Allow \/ AnswerUser
             \/ UNCHANGED vars
    PROVE  InBounds(core')
<1>0. IsRun(core)
  BY DEF RunInv
<1> DEFINE c == TakeTurn(core)
<1>1. IsRun(c) /\ SameCounts(core, c)
  BY <1>0, UncountedSteps
<1> HIDE DEF c
<1>2. CASE ProposeCommit
  <2> DEFINE looked == [c EXCEPT !.taken = @ \o <<Do("git_status"), Do("git_diff")>>,
                                 !.results = @ \o <<Success, Success>>]
  <2>1. core' = [looked EXCEPT !.commit = TRUE, !.said = "commit_preview"]
    BY <1>2 DEF ProposeCommit, c
  <2>2. IsRun(looked) /\ SameCounts(core, looked)
    BY <1>1 DEF IsRun, Fields, SameCounts
  <2> HIDE DEF looked
  <2> QED BY <2>1, <2>2 DEF IsRun, Fields, SameCounts, InBounds
<1>3. CASE StopAtBudget \/ TimesOut \/ Cancels
  <2>1. \E d \in {core, c} : \E x : core' = [d EXCEPT !.stop = x]
    BY <1>3 DEF StopAtBudget, TimesOut, Cancels, Close, c
  <2>2. \A d \in {core, c} : IsRun(d) /\ SameCounts(core, d)
    BY <1>0, <1>1 DEF SameCounts
  <2> QED BY <2>1, <2>2, UncountedSteps DEF SameCounts, InBounds
<1>4. CASE Deny
  <2>1. \E said : core' = [core EXCEPT !.stop = "approval_denied", !.said = said]
    BY <1>4 DEF Deny, Close
  <2> QED BY <1>0, <2>1 DEF IsRun, Fields, InBounds
<1>5. CASE Allow \/ AnswerUser \/ UNCHANGED vars
  BY <1>5 DEF Allow, AnswerUser, vars
<1> QED BY <1>2, <1>3, <1>4, <1>5

TypeInv == TellInv /\ EndInv /\ InBounds(core)

LEMMA TypeStarts == Init => TypeInv
<1> SUFFICES ASSUME Init PROVE TypeInv
  OBVIOUS
<1>1. PICK q \in Requests :
          core = [req |-> q, taken |-> <<>>, results |-> <<>>, shifted |-> FALSE, turn |-> 0,
                  limit |-> Budget(q).turns, stop |-> "", plan |-> FirstPlan(q), proposed |-> 0,
                  faults |-> 0, repairs |-> 0, changed |-> FALSE, said |-> "", applied |-> FALSE,
                  commit |-> FALSE]
  BY DEF Init
<1>2. core.proposed = 0 /\ core.faults = 0
  BY <1>1
<1>3. InBounds(core)
  BY <1>2, BoundsAreNumbers DEF InBounds
<1> QED BY <1>3, TellStarts, EndStarts DEF TypeInv

LEMMA TypeGoesOn == TypeInv /\ [Next]_vars => TypeInv'
<1> SUFFICES ASSUME TypeInv, [Next]_vars PROVE TypeInv'
  OBVIOUS
<1>1. TellInv' /\ EndInv'
  BY TellGoesOn, EndGoesOn DEF TypeInv
<1>2. InBounds(core')
  BY ChoosingIsCounted, ToolsAreCounted, LoopIsCounted DEF TypeInv, EndInv, Next
<1> QED BY <1>1, <1>2 DEF TypeInv, InBounds

\* The state is well typed, the bounds are kept, and there is an answer exactly when
\* the run has ended.
THEOREM LoopTyped == Spec => []TypeOK
<1>1. ASSUME TypeInv PROVE TypeOK
  <2>1. core.req \in Requests /\ Len(core.taken) = Len(core.results)
    BY <1>1 DEF TypeInv, EndInv, RunInv, Logs
  <2>2. /\ core.turn \in 0..HardLimit /\ core.limit \in core.turn..HardLimit
        /\ core.plan.at \in DOMAIN core.plan.steps
    BY <1>1 DEF TypeInv, EndInv, Bounded, InBudget, IsPlan, HardLimit
  <2>3. phase \in {"choose", "run", "asked", "answer", "ended"}
    BY <1>1 DEF TypeInv, EndInv, Aware
  <2>4. reply # NoReply <=> phase = "ended"
    <3>1. NoReply.from = NoText
      BY Zenon, Wordings DEF NoReply, NoText
    <3> QED BY <1>1, <3>1 DEF TypeInv, TellInv
  <2> QED BY <1>1, <2>1, <2>2, <2>3, <2>4 DEF TypeOK, TypeInv, InBounds
<1> QED BY <1>1, TypeStarts, TypeGoesOn, PTL DEF Spec
=============================================================================
