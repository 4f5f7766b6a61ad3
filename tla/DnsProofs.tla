------------------------------ MODULE DnsProofs ------------------------------
(***************************************************************************)
(* What is proved of the zone for every value of its constants: any number *)
(* of records, hosts, addresses, rules and edits by hand, whatever         *)
(* requests fail.                                                          *)
(*                                                                         *)
(* Records: one that somebody has listed is an address of the name that is *)
(* being brought about, or is gone since, because no id is used twice and  *)
(* nothing makes an address a record of another kind.  Of a name nobody    *)
(* else has touched since more is known: its addresses are exactly those   *)
(* listed; after the write, one right one and those to be deleted.  So a   *)
(* last delete leaves one, and a stage that ends well leaves what the      *)
(* controller then says of the game's name.                                *)
(*                                                                         *)
(* Rules: what a rewrite keeps of a list is what the loop over it appends. *)
(* Its facts need induction over the list, and the library's induction     *)
(* theorems take a predicate, which no installed prover instantiates; here *)
(* induction is on sets of numbers (a least counterexample), and LoopExists*)
(* shows that the loop's recursive function is one.                        *)
(*                                                                         *)
(* Success: of the operator's task it is known, stage for stage, what it   *)
(* has done (OperatorOK), so that a task that ends well has done it all.   *)
(***************************************************************************)
EXTENDS Dns, TLAPS, FiniteSetTheorems, SequenceTheorems, WellFoundedInduction, NaturalsInduction

-----------------------------------------------------------------------------
(* What a loop over a list keeps (Filter).                                 *)

\* What holds of nothing, and of one more, holds of every number.
LEMMA Induction == ASSUME NEW S \in SUBSET Nat, 0 \in S, \A n \in S : n + 1 \in S PROVE S = Nat
  <1> SUFFICES ASSUME Nat \ S # {} PROVE FALSE
    OBVIOUS
  <1> DEFINE R == {ss \in Nat \X Nat : ss[1] < ss[2]}
  <1>1. IsWellFoundedOn(R, Nat)
    BY NatLessThanWellFounded DEF OpToRel
  <1>2. PICK x \in Nat \ S : \A y \in Nat \ S : ~(<<y, x>> \in R)
    <2> HIDE DEF R
    <2> QED BY <1>1, WFMin
  <1>3. x # 0 /\ x - 1 \in Nat /\ x - 1 < x
    BY <1>2
  <1>4. <<x - 1, x>> \in R
    BY <1>3
  <1>5. x - 1 \in S
    BY <1>2, <1>3, <1>4
  <1>6. (x - 1) + 1 \in S
    BY <1>5
  <1> QED BY <1>2, <1>6

\* And up to a bound, as it is needed of the steps of a loop.
LEMMA InductionTo ==
    ASSUME NEW S, NEW m \in Nat, 0 \in S, \A n \in 0..(m - 1) : n \in S => n + 1 \in S
    PROVE  \A n \in 0..m : n \in S
  <1> DEFINE T == {n \in Nat : n <= m => n \in S}
  <1>1. T \in SUBSET Nat /\ 0 \in T
    OBVIOUS
  <1>2. ASSUME NEW n \in T PROVE n + 1 \in T
    <2> SUFFICES ASSUME n + 1 <= m PROVE n + 1 \in S
      OBVIOUS
    <2>1. n \in 0..(m - 1) /\ n \in S
      OBVIOUS
    <2> QED BY <2>1
  <1> HIDE DEF T
  <1>3. T = Nat
    BY <1>1, <1>2, Induction
  <1> QED BY <1>3 DEF T

\* The loop after n entries, as a function of how far it is.
LoopTo(seq, S, n, f) ==
    f = [i \in 0..n |-> IF i = 0 THEN <<>> ELSE IF i \in S THEN Append(f[i - 1], seq[i]) ELSE f[i - 1]]

\* There is one.
LEMMA LoopExists == ASSUME NEW seq, NEW S, NEW n \in Nat PROVE \E f : LoopTo(seq, S, n, f)
  <1> DEFINE T == {m \in Nat : \E f : LoopTo(seq, S, m, f)}
  <1>1. 0 \in T
    <2> DEFINE f == [i \in 0..0 |-> <<>>]
    <2>1. LoopTo(seq, S, 0, f)
      BY DEF LoopTo
    <2> QED BY <2>1
  <1>2. ASSUME NEW m \in T PROVE m + 1 \in T
    <2>1. PICK f : LoopTo(seq, S, m, f)
      OBVIOUS
    <2> DEFINE step(g) == IF m + 1 \in S THEN Append(g, seq[m + 1]) ELSE g
               h == [i \in 0..(m + 1) |-> IF i = m + 1 THEN step(f[m]) ELSE f[i]]
               k == [i \in 0..(m + 1) |-> IF i = 0 THEN <<>> ELSE IF i \in S THEN Append(h[i - 1], seq[i])
                                                                  ELSE h[i - 1]]
    <2>2. \A i \in 0..m : h[i] = f[i]
      OBVIOUS
    <2>3. h[m + 1] = step(h[m])
      BY <2>2
    <2>4. \A i \in 0..m : f[i] = IF i = 0 THEN <<>> ELSE IF i \in S THEN Append(f[i - 1], seq[i]) ELSE f[i - 1]
      BY <2>1 DEF LoopTo
    <2>5. \A i \in 0..(m + 1) : h[i] = IF i = 0 THEN <<>> ELSE IF i \in S THEN Append(h[i - 1], seq[i]) ELSE h[i - 1]
      <3> TAKE i \in 0..(m + 1)
      <3>1. CASE i = m + 1
        <4>1. i # 0 /\ i - 1 = m
          BY <3>1
        <4> QED BY <2>3, <3>1, <4>1
      <3>2. CASE i # m + 1
        <4>1. i \in 0..m /\ (i # 0 => i - 1 \in 0..m)
          BY <3>2
        <4> HIDE DEF h
        <4> QED BY <2>2, <2>4, <4>1
      <3> QED BY <3>1, <3>2
    <2>6. DOMAIN h = 0..(m + 1) /\ h = [i \in 0..(m + 1) |-> h[i]]
      OBVIOUS
    <2>7. h = k
      <3> HIDE DEF h
      <3> QED BY <2>5, <2>6
    <2>8. LoopTo(seq, S, m + 1, h)
      <3> HIDE DEF h
      <3> QED BY <2>7 DEF LoopTo
    <2> QED BY <2>8
  <1> HIDE DEF T
  <1>3. T = Nat
    <2>1. T \in SUBSET Nat
      BY DEF T
    <2> QED BY <1>1, <1>2, <2>1, Induction
  <1> QED BY <1>3 DEF T

\* The loop's own steps.
LEMMA KeptSteps ==
    ASSUME NEW seq, Len(seq) \in Nat, NEW S, NEW f, f = KeptSoFar(seq, S)
    PROVE  /\ f[0] = <<>>
           /\ \A n \in 1..Len(seq) : f[n] = IF n \in S THEN Append(f[n - 1], seq[n]) ELSE f[n - 1]
  <1> DEFINE l == Len(seq)
  <1>1. LoopTo(seq, S, l, f)
    <2>1. \E g : LoopTo(seq, S, l, g)
      BY LoopExists
    <2> QED BY <2>1 DEF KeptSoFar, LoopTo
  <1> HIDE DEF l
  <1>2. \A n \in 0..l : f[n] = IF n = 0 THEN <<>> ELSE IF n \in S THEN Append(f[n - 1], seq[n]) ELSE f[n - 1]
    BY <1>1 DEF LoopTo
  <1>3. l \in Nat
    BY DEF l
  <1>4. 0 \in 0..l /\ \A n \in 1..l : n \in 0..l /\ n # 0
    BY <1>3
  <1> QED BY <1>2, <1>4 DEF l

\* What is so before the first entry, and stays so from entry to entry, is so of what is
\* kept in the end.
LEMMA LoopInduction ==
    ASSUME NEW seq, Len(seq) \in Nat, NEW S, NEW f, f = KeptSoFar(seq, S), NEW G,
           <<>> \in G[0],
           \A n \in 0..(Len(seq) - 1) : \A g \in G[n] :
               (IF n + 1 \in S THEN Append(g, seq[n + 1]) ELSE g) \in G[n + 1]
    PROVE  Kept(seq, S) \in G[Len(seq)]
  <1> DEFINE l == Len(seq)
             T == {n \in 0..l : f[n] \in G[n]}
  <1>1. f[0] = <<>> /\ \A n \in 1..l : f[n] = IF n \in S THEN Append(f[n - 1], seq[n]) ELSE f[n - 1]
    BY KeptSteps
  <1>2. l \in Nat
    OBVIOUS
  <1>3. 0 \in T
    BY <1>1, <1>2
  <1>4. ASSUME NEW n \in 0..(l - 1), n \in T PROVE n + 1 \in T
    <2>1. n + 1 \in 1..l /\ n + 1 \in 0..l /\ (n + 1) - 1 = n
      BY <1>2
    <2>2. f[n + 1] = IF n + 1 \in S THEN Append(f[n], seq[n + 1]) ELSE f[n]
      BY <1>1, <2>1
    <2>3. f[n] \in G[n]
      BY <1>4
    <2> QED BY <2>1, <2>2, <2>3
  <1> HIDE DEF T
  <1>5. \A n \in 0..l : n \in T
    BY <1>2, <1>3, <1>4, InductionTo
  <1>6. l \in T
    BY <1>2, <1>5
  <1> QED BY <1>6 DEF T, Kept

\* What is kept are entries of the list, and no more of them.
LEMMA KeptType ==
    ASSUME NEW X, NEW seq \in Seq(X), NEW S, NEW k, k = Kept(seq, S)
    PROVE  k \in Seq(X) /\ Len(k) <= Len(seq) /\ \A j \in 1..Len(k) : \E i \in S \cap DOMAIN seq : k[j] = seq[i]
  <1> DEFINE l == Len(seq)
             Y == {seq[i] : i \in S \cap DOMAIN seq}
             G == [n \in 0..l |-> {g \in Seq(Y) : Len(g) <= n}]
  <1>1. l \in Nat /\ DOMAIN seq = 1..l /\ Len(seq) = l
    OBVIOUS
  <1>2. \A i \in S : i \in 1..l => seq[i] \in Y
    BY <1>1
  <1>3. Y \subseteq X
    BY <1>1
  <1> HIDE DEF Y, l
  <1>4. <<>> \in G[0]
    BY <1>1, EmptySeq
  <1>5. ASSUME NEW n \in 0..(l - 1), NEW g \in G[n]
        PROVE  (IF n + 1 \in S THEN Append(g, seq[n + 1]) ELSE g) \in G[n + 1]
    <2>1. n \in Nat /\ n + 1 \in 0..l /\ n + 1 \in 1..l /\ g \in Seq(Y) /\ Len(g) \in Nat /\ Len(g) <= n
      BY <1>1, <1>5
    <2>2. CASE n + 1 \in S
      <3>1. Append(g, seq[n + 1]) \in Seq(Y) /\ Len(Append(g, seq[n + 1])) = Len(g) + 1
        BY <1>2, <2>1, <2>2
      <3> QED BY <2>1, <2>2, <3>1
    <2>3. CASE n + 1 \notin S
      BY <2>1, <2>3
    <2> QED BY <2>2, <2>3
  <1> HIDE DEF G
  <1>6. k \in G[l]
    BY <1>1, <1>4, <1>5, LoopInduction
  <1>7. k \in Seq(Y) /\ Len(k) <= l
    BY <1>1, <1>6 DEF G
  <1>8. k \in Seq(X)
    BY <1>3, <1>7, SeqMonotonic
  <1>9. \A j \in 1..Len(k) : k[j] \in Y
    BY <1>7
  <1> QED BY <1>1, <1>7, <1>8, <1>9 DEF Y

\* A list whose every entry is kept is kept.
LEMMA KeptAll == ASSUME NEW X, NEW seq \in Seq(X), NEW S, DOMAIN seq \subseteq S PROVE Kept(seq, S) = seq
  <1> DEFINE l == Len(seq)
             k == Kept(seq, S)
             G == [n \in 0..l |-> {g \in Seq(X) : Len(g) = n /\ \A i \in 1..n : g[i] = seq[i]}]
  <1>1. l \in Nat /\ DOMAIN seq = 1..l /\ Len(seq) = l
    OBVIOUS
  <1> HIDE DEF l
  <1>2. <<>> \in G[0]
    BY <1>1, EmptySeq
  <1>3. ASSUME NEW n \in 0..(l - 1), NEW g \in G[n]
        PROVE  (IF n + 1 \in S THEN Append(g, seq[n + 1]) ELSE g) \in G[n + 1]
    <2>1. /\ n \in Nat /\ n + 1 \in 0..l /\ n + 1 \in S /\ seq[n + 1] \in X /\ g \in Seq(X) /\ Len(g) = n
          /\ \A i \in 1..n : g[i] = seq[i]
      BY <1>1, <1>3
    <2> DEFINE h == Append(g, seq[n + 1])
    <2>2. h \in Seq(X) /\ Len(h) = n + 1 /\ h[n + 1] = seq[n + 1] /\ \A i \in 1..n : h[i] = g[i]
      BY <2>1
    <2> HIDE DEF h
    <2>3. \A i \in 1..(n + 1) : h[i] = seq[i]
      BY <2>1, <2>2
    <2>4. h \in G[n + 1]
      BY <2>1, <2>2, <2>3
    <2> QED BY <2>1, <2>4 DEF h
  <1> HIDE DEF G, k
  <1>4. k \in G[l]
    BY <1>1, <1>2, <1>3, LoopInduction DEF k
  <1>5. k \in Seq(X) /\ Len(k) = Len(seq) /\ \A i \in 1..Len(k) : k[i] = seq[i]
    BY <1>1, <1>4 DEF G
  <1>6. k = seq
    BY <1>5, SeqEqual
  <1> QED BY <1>6 DEF k

\* Without its first entry, if that is the only one that is not.
LEMMA KeptBehind ==
    ASSUME NEW X, NEW seq \in Seq(X), NEW r \in X, NEW S, NEW all, all = <<r>> \o seq,
           1 \notin S, \A i \in DOMAIN seq : i + 1 \in S
    PROVE  Kept(all, S) = seq
  <1> DEFINE l == Len(seq)
             k == Kept(all, S)
             G == [n \in 0..(l + 1) |->
                      {g \in Seq(X) : /\ n = 0 => Len(g) = 0
                                      /\ n # 0 => Len(g) = n - 1 /\ \A i \in 1..(n - 1) : g[i] = seq[i]}]
  <1>1. l \in Nat /\ DOMAIN seq = 1..l /\ Len(seq) = l /\ Len(all) = l + 1 /\ \A n \in 1..l : all[n + 1] = seq[n]
    OBVIOUS
  <1> HIDE DEF l
  <1>2. <<>> \in G[0]
    BY <1>1, EmptySeq
  <1>3. ASSUME NEW n \in 0..(Len(all) - 1), NEW g \in G[n]
        PROVE  (IF n + 1 \in S THEN Append(g, all[n + 1]) ELSE g) \in G[n + 1]
    <2>1. n \in Nat /\ n <= l /\ n + 1 \in 0..(l + 1) /\ n + 1 # 0 /\ (n + 1) - 1 = n /\ g \in Seq(X)
      BY <1>1, <1>3
    <2>2. CASE n = 0
      <3>1. n + 1 \notin S /\ Len(g) = 0
        BY <1>1, <1>3, <2>1, <2>2
      <3> QED BY <2>1, <2>2, <3>1
    <2>3. CASE n # 0
      <3>0. n \in 1..l
        BY <1>1, <2>1, <2>3
      <3>1. /\ n \in 1..l /\ n + 1 \in S /\ all[n + 1] = seq[n] /\ seq[n] \in X /\ Len(g) = n - 1
            /\ \A i \in 1..(n - 1) : g[i] = seq[i]
        <4>1. n + 1 \in S /\ all[n + 1] = seq[n] /\ seq[n] \in X
          <5>1. seq[n] \in X
            BY <1>1, <3>0
          <5>2. n \in DOMAIN seq
            BY <1>1, <3>0
          <5>3. n + 1 \in S
            BY <5>2
          <5>4. all[n + 1] = seq[n]
            BY <1>1, <3>0
          <5> QED BY <5>1, <5>3, <5>4
        <4>2. n \in 0..(l + 1) /\ g \in G[n]
          BY <1>1, <1>3, <2>1, <3>0
        <4> QED BY <2>3, <3>0, <4>1, <4>2
      <3> DEFINE h == Append(g, seq[n])
      <3>2. h \in Seq(X) /\ Len(h) = n /\ h[n] = seq[n] /\ \A i \in 1..(n - 1) : h[i] = g[i]
        <4>1. (n - 1) + 1 = n
          BY <3>1
        <4> QED BY <2>1, <3>1, <4>1
      <3> HIDE DEF h
      <3>3. \A i \in 1..n : h[i] = seq[i]
        <4>1. \A i \in 1..n : i \in 1..(n - 1) \/ i = n
          BY <2>1
        <4> QED BY <3>1, <3>2, <4>1
      <3>4. h \in G[n + 1]
        BY <2>1, <3>2, <3>3
      <3> QED BY <3>1, <3>4 DEF h
    <2> QED BY <2>2, <2>3
  <1> HIDE DEF G, k
  <1>4. k \in G[l + 1]
    <2>1. Len(all) \in Nat
      BY <1>1
    <2> QED BY <1>1, <1>2, <1>3, <2>1, LoopInduction DEF k
  <1>5. l + 1 # 0 /\ (l + 1) - 1 = l
    BY <1>1
  <1>6. k \in Seq(X) /\ Len(k) = Len(seq) /\ \A i \in 1..Len(k) : k[i] = seq[i]
    <2> DEFINE m == l + 1
               M == {g \in Seq(X) : /\ m = 0 => Len(g) = 0
                                    /\ m # 0 => Len(g) = m - 1 /\ \A i \in 1..(m - 1) : g[i] = seq[i]}
    <2>1. m \in 0..(l + 1) /\ m # 0 /\ m - 1 = Len(seq)
      BY <1>1, <1>5
    <2>2. k \in M
      <3>1. k \in G[m]
        BY <1>4
      <3> HIDE DEF m
      <3> QED BY <2>1, <3>1 DEF G
    <2> HIDE DEF m
    <2> QED BY <2>1, <2>2
  <1>7. k = seq
    BY <1>6, SeqEqual
  <1> QED BY <1>7 DEF k

\* The first that is kept is the list's first, if that is kept; and the only one if no other is.
LEMMA KeptFirst ==
    ASSUME NEW X, NEW seq \in Seq(X), seq # <<>>, NEW S, 1 \in S, NEW k, k = Kept(seq, S)
    PROVE  Len(k) >= 1 /\ k[1] = seq[1] /\ ((\A i \in 2..Len(seq) : i \notin S) => k = <<seq[1]>>)
  <1> DEFINE l == Len(seq)
             one == <<seq[1]>>
             Only == \A i \in 2..l : i \notin S
             G == [n \in 0..l |->
                      {g \in Seq(X) : /\ n = 0 => g = <<>>
                                      /\ n # 0 => Len(g) >= 1 /\ g[1] = seq[1] /\ (Only => g = one)}]
  <1>1. l \in Nat /\ l >= 1 /\ DOMAIN seq = 1..l /\ Len(seq) = l /\ seq[1] \in X
    OBVIOUS
  <1>2. one \in Seq(X) /\ Len(one) = 1 /\ one[1] = seq[1] /\ one = Append(<<>>, seq[1])
    BY <1>1
  <1> HIDE DEF l, one
  <1>3. <<>> \in G[0]
    BY <1>1, EmptySeq
  <1>4. ASSUME NEW n \in 0..(l - 1), NEW g \in G[n]
        PROVE  (IF n + 1 \in S THEN Append(g, seq[n + 1]) ELSE g) \in G[n + 1]
    <2>1. n \in Nat /\ n + 1 \in 0..l /\ n + 1 # 0 /\ g \in Seq(X) /\ seq[n + 1] \in X
      BY <1>1, <1>4
    <2>2. CASE n = 0
      <3>1. g = <<>> /\ n + 1 = 1
        BY <1>1, <1>4, <2>2
      <3>2. one \in G[1]
        BY <1>1, <1>2, <2>1, <3>1
      <3> QED BY <1>2, <2>2, <3>1, <3>2
    <2>3. CASE n # 0
      <3>1. n + 1 \in 2..l /\ Len(g) \in Nat /\ Len(g) >= 1 /\ g[1] = seq[1] /\ (Only => g = one)
        BY <1>1, <1>4, <2>1, <2>3
      <3>2. CASE n + 1 \in S
        <4> DEFINE h == Append(g, seq[n + 1])
        <4>1. h \in Seq(X) /\ Len(h) = Len(g) + 1 /\ h[1] = g[1]
          BY <2>1, <3>1
        <4> HIDE DEF h
        <4>2. h \in G[n + 1]
          BY <2>1, <3>1, <3>2, <4>1
        <4> QED BY <3>2, <4>2 DEF h
      <3>3. CASE n + 1 \notin S
        BY <2>1, <3>1, <3>3
      <3> QED BY <3>2, <3>3
    <2> QED BY <2>2, <2>3
  <1> HIDE DEF G
  <1>5. k \in G[l]
    BY <1>1, <1>3, <1>4, LoopInduction
  <1> QED BY <1>1, <1>5 DEF G, one

\* Nothing is kept if nothing is to be.
LEMMA KeptNone == ASSUME NEW X, NEW seq \in Seq(X), NEW S, S \cap DOMAIN seq = {} PROVE Kept(seq, S) = <<>>
  <1> DEFINE k == Kept(seq, S)
  <1>1. k \in Seq(X) /\ \A j \in 1..Len(k) : \E i \in S \cap DOMAIN seq : k[j] = seq[i]
    BY KeptType
  <1> HIDE DEF k
  <1>2. Len(k) = 0
    BY <1>1
  <1>3. k = <<>>
    BY <1>1, <1>2
  <1> QED BY <1>3 DEF k

\* No two entries are the same of what is kept, if no two were of those to keep.
LEMMA KeptOnce ==
    ASSUME NEW X, NEW seq \in Seq(X), NEW S, NEW k, k = Kept(seq, S),
           \A i, j \in S \cap DOMAIN seq : seq[i] = seq[j] => i = j
    PROVE  \A i, j \in 1..Len(k) : k[i] = k[j] => i = j
  <1> DEFINE l == Len(seq)
             From(g, n) == \A i \in 1..Len(g) : \E m \in S : m \in 1..n /\ g[i] = seq[m]
             Once(g) == \A i, j \in 1..Len(g) : g[i] = g[j] => i = j
             G == [n \in 0..l |-> {g \in Seq(X) : From(g, n) /\ Once(g)}]
  <1>1. l \in Nat /\ DOMAIN seq = 1..l /\ Len(seq) = l
    OBVIOUS
  <1> HIDE DEF l
  <1>2. <<>> \in G[0]
    BY <1>1, EmptySeq
  <1>3. ASSUME NEW n \in 0..(l - 1), NEW g \in G[n]
        PROVE  (IF n + 1 \in S THEN Append(g, seq[n + 1]) ELSE g) \in G[n + 1]
    <2>1. /\ n \in Nat /\ n + 1 \in 0..l /\ n + 1 \in 1..l /\ seq[n + 1] \in X
          /\ g \in Seq(X) /\ Len(g) \in Nat /\ From(g, n) /\ Once(g)
      BY <1>1, <1>3
    <2>2. \A m \in 1..n : m \in 1..l /\ m \in 1..(n + 1) /\ m # n + 1
      BY <1>1, <2>1
    <2>3. CASE n + 1 \notin S
      <3>1. From(g, n + 1)
        BY <2>1, <2>2
      <3> QED BY <2>1, <2>3, <3>1
    <2>4. CASE n + 1 \in S
      <3> DEFINE h == Append(g, seq[n + 1])
      <3>1. h \in Seq(X) /\ Len(h) = Len(g) + 1 /\ h[Len(g) + 1] = seq[n + 1] /\ \A i \in 1..Len(g) : h[i] = g[i]
        BY <2>1
      <3> HIDE DEF h
      <3>2. \A i \in 1..Len(h) : i \in 1..Len(g) \/ i = Len(g) + 1
        BY <2>1, <3>1
      <3>3. \A i \in 1..Len(g) : \E m \in S : m \in 1..n /\ h[i] = seq[m]
        BY <2>1, <3>1
      <3>4. \A i \in 1..Len(g) : h[i] # h[Len(g) + 1]
        BY <1>1, <2>1, <2>2, <2>4, <3>1, <3>3
      <3>5. Once(h)
        BY <2>1, <3>1, <3>2, <3>4
      <3>6. From(h, n + 1)
        <4>1. n + 1 \in 1..(n + 1)
          BY <2>1
        <4>2. ASSUME NEW i \in 1..Len(h) PROVE \E m \in S : m \in 1..(n + 1) /\ h[i] = seq[m]
          <5>1. CASE i \in 1..Len(g)
            BY <2>2, <3>3, <5>1
          <5>2. CASE i = Len(g) + 1
            BY <2>4, <3>1, <4>1, <5>2
          <5> QED BY <3>2, <5>1, <5>2
        <4> QED BY <4>2
      <3>7. h \in G[n + 1]
        <4> HIDE DEF From, Once
        <4> QED BY <2>1, <3>1, <3>5, <3>6
      <3> QED BY <2>4, <3>7 DEF h
    <2> QED BY <2>3, <2>4
  <1> HIDE DEF G
  <1>4. k \in G[l]
    BY <1>1, <1>2, <1>3, LoopInduction
  <1>5. l \in 0..l
    BY <1>1
  <1> QED BY <1>4, <1>5 DEF G

-----------------------------------------------------------------------------
(* The records, and what is known of a task.                               *)

\* What a stage of a task holds in its hands: records it has listed, which are gone
\* since or still an address of its name.
Steps == Sites \cup StageNames
IsTask(t) == DOMAIN t = DOMAIN NoTask /\ t.alone \in BOOLEAN /\ t.ok \in BOOLEAN
Held(r, n) == r = Gone \/ (r.name = n /\ r.type \in Address)
AtHand(t) == t.doomed \cup ({t.keep} \ {0})

\* How far a name is that nobody else has touched: its addresses are those listed,
\* then one of them is right and the others are doomed; of a name taken down, all are.
Halfway(z, t, n) ==
    \/ t.pc = "write" /\ t.keep = 0 /\ t.doomed = {} /\ At(z, n) = {}
    \/ t.pc = "write" /\ t.keep # 0 /\ t.keep \notin t.doomed /\ At(z, n) = t.doomed \cup {t.keep}
    \/ /\ t.pc = "prune" /\ t.addr \in Addr
       /\ \E i \in Slot \ t.doomed : At(z, n) = t.doomed \cup {i} /\ z[i] = Wanted(t, n)
    \/ t.pc = "prune" /\ t.addr = NoAddr /\ n = Game /\ At(z, n) = t.doomed

\* A task either brings a name to an address, or takes the game's down.
Aim(t) ==
    /\ t.todo \in Seq(Steps) /\ t.todo # <<>>
    /\ \/ t.addr \in Addr /\ t.todo \in Seq(Steps \ {"clear"})
       \/ t.addr = NoAddr /\ (t.todo = <<"clear">> \/ (t.todo = <<Game>> /\ t.pc = "prune"))
InHand(z, t, n) ==
    /\ AtHand(t) \subseteq Slot
    /\ \A i \in AtHand(t) : Held(z[i], n)
    /\ t.alone => Halfway(z, t, n)
TaskOK(z, t) ==
    /\ IsTask(t)
    /\ t.pc # "idle" => Aim(t)
    /\ t.pc = "read" => t.keep = 0 /\ t.doomed = {}
    /\ \A n \in Sites : t.pc \in {"write", "prune"} /\ Head(t.todo) = n => InHand(z, t, n)
TasksOK == DOMAIN zone = Slot /\ DOMAIN client = Clients /\ \A c \in Clients : TaskOK(zone, client[c])

\* A record that somebody holds stays what he took it for, or goes.
Stable(z, y) == DOMAIN y = Slot /\ \A i \in Slot : \A n \in Sites : Held(z[i], n) => Held(y[i], n)

\* The records' two ends are no address, and hold no name.
LEMMA EmptyRecords ==
    /\ NoRecord.type \notin Address /\ Gone.type \notin Address
    /\ \A n : ~Held(NoRecord, n) /\ Held(Gone, n)
  BY DEF NoRecord, Gone, Address, Held

\* What a record that is written is.
LEMMA WantedIs ==
    ASSUME NEW t, NEW n, t.addr \in Addr
    PROVE  Wanted(t, n).name = n /\ Wanted(t, n).type \in Address /\ Wanted(t, n) # NoRecord /\ Wanted(t, n) # Gone
  <1>1. Wanted(t, n).name = n /\ Wanted(t, n).type = Kind[t.addr]
    BY DEF Wanted
  <1>2. Kind[t.addr] \in Address
    BY ZoneAssumption
  <1> QED BY <1>1, <1>2, EmptyRecords

\* The fields of a task that goes on to its next stage.
LEMMA OnwardIs ==
    ASSUME NEW t, IsTask(t), NEW ok \in BOOLEAN, NEW u, u = Onward(t, ok)
    PROVE  /\ IsTask(u) /\ u.todo = Tail(t.todo) /\ u.pc = (IF Len(t.todo) = 1 THEN "idle" ELSE "read")
           /\ u.addr = t.addr /\ u.alone = t.alone /\ u.ok = (t.ok /\ ok) /\ u.keep = 0 /\ u.doomed = {}
  BY DEF NoTask, IsTask, Onward

\* And that it holds nothing then.
LEMMA OnwardOK ==
    ASSUME NEW z, NEW y, NEW t, TaskOK(z, t), t.pc # "idle", NEW ok \in BOOLEAN
    PROVE  TaskOK(y, Onward(t, ok))
  <1> DEFINE u == Onward(t, ok)
  <1>1. /\ IsTask(u) /\ u.todo = Tail(t.todo) /\ u.pc = (IF Len(t.todo) = 1 THEN "idle" ELSE "read")
        /\ u.addr = t.addr /\ u.keep = 0 /\ u.doomed = {}
    BY OnwardIs DEF TaskOK
  <1>2. Aim(t)
    BY DEF TaskOK
  <1> HIDE DEF u
  <1>3. u.pc # "idle" => Aim(u)
    <2> SUFFICES ASSUME u.pc # "idle" PROVE Aim(u)
      OBVIOUS
    <2>1. t.todo \in Seq(Steps) /\ Len(t.todo) \in Nat /\ Len(t.todo) # 0 /\ Len(t.todo) # 1
      BY <1>1, <1>2 DEF Aim
    <2>2. t.todo # <<"clear">> /\ t.todo # <<Game>>
      <3>1. Len(<<"clear">>) = 1 /\ Len(<<Game>>) = 1
        OBVIOUS
      <3> QED BY <2>1, <3>1, Zenon
    <2>3. t.addr \in Addr /\ t.todo \in Seq(Steps \ {"clear"})
      BY <1>2, <2>2 DEF Aim
    <2>4. u.todo \in Seq(Steps \ {"clear"}) /\ Len(u.todo) = Len(t.todo) - 1
      BY <1>1, <2>1, <2>3
    <2>5. u.todo \in Seq(Steps) /\ u.todo # <<>>
      <3>1. Len(<<>>) = 0 /\ Len(u.todo) # 0
        BY <2>1, <2>4
      <3>2. u.todo \in Seq(Steps)
        BY <2>4, SeqMonotonic
      <3> QED BY <3>1, <3>2, Zenon
    <2> QED BY <1>1, <2>3, <2>4, <2>5 DEF Aim
  <1>4. u.pc \notin {"write", "prune"}
    BY <1>1
  <1>5. TaskOK(y, u)
    BY <1>1, <1>3, <1>4 DEF TaskOK
  <1> QED BY <1>5 DEF u

\* Who has been disturbed knows what he holds, and no more.
LEMMA DisturbedOK ==
    ASSUME NEW z, NEW y, NEW t, TaskOK(z, t), Stable(z, y)
    PROVE  TaskOK(y, [t EXCEPT !.alone = FALSE])
  <1> DEFINE u == [t EXCEPT !.alone = FALSE]
  <1>1. /\ IsTask(u) /\ u.todo = t.todo /\ u.pc = t.pc /\ u.addr = t.addr /\ u.alone = FALSE
        /\ u.keep = t.keep /\ u.doomed = t.doomed
    BY DEF NoTask, IsTask, TaskOK
  <1> HIDE DEF u
  <1>2. u.pc # "idle" => Aim(u)
    BY <1>1 DEF TaskOK, Aim
  <1>3. ASSUME NEW n \in Sites, u.pc \in {"write", "prune"}, Head(u.todo) = n PROVE InHand(y, u, n)
    <2>1. InHand(z, t, n)
      BY <1>1, <1>3 DEF TaskOK
    <2>2. AtHand(u) = AtHand(t)
      BY <1>1 DEF AtHand
    <2> QED BY <1>1, <2>1, <2>2 DEF InHand, Stable
  <1>4. TaskOK(y, u)
    BY <1>1, <1>2, <1>3 DEF TaskOK
  <1> QED BY <1>4 DEF u

\* A step of one client, which the others may or may not notice.
LEMMA Undisturbed ==
    ASSUME TasksOK, NEW c \in Clients, NEW u, Goes(c, u), UNCHANGED zone, TaskOK(zone, u)
    PROVE  TasksOK' /\ \A d \in Clients : client'[d] = IF d = c THEN u ELSE client[d]
  BY DEF TasksOK, Goes

\* A step of one client's that writes, which the others do notice.
LEMMA Disturbing ==
    ASSUME TasksOK, NEW c \in Clients, NEW u, Writes(c, u), Stable(zone, zone'), TaskOK(zone', u)
    PROVE  TasksOK' /\ \A d \in Clients : client'[d] = IF d = c THEN u ELSE [client[d] EXCEPT !.alone = FALSE]
  <1>1. DOMAIN client' = Clients
    BY DEF Writes, Disturbs
  <1>2. \A d \in Clients : client'[d] = IF d = c THEN u ELSE [client[d] EXCEPT !.alone = FALSE]
    BY DEF Writes, Disturbs
  <1>3. ASSUME NEW d \in Clients PROVE TaskOK(zone', client'[d])
    <2>1. CASE d = c
      BY <1>2, <2>1
    <2>2. CASE d # c
      <3>1. TaskOK(zone', [client[d] EXCEPT !.alone = FALSE])
        BY DisturbedOK DEF TasksOK
      <3> QED BY <1>2, <2>2, <3>1
    <2> QED BY <2>1, <2>2
  <1> QED BY <1>1, <1>2, <1>3 DEF TasksOK, Stable

\* An id that is free.
LEMMA NewIdIs == Unused # {} => NewId \in Slot /\ zone[NewId] = NoRecord
  BY DEF Unused, NewId

\* Nothing has the id by which a task says that it keeps nothing.
LEMMA IdsAreNotZero == 0 \notin Slot
  <1>1. \A n : 0 \notin 1..n
    OBVIOUS
  <1> QED BY <1>1, DnsBoundsAssumption, Zenon

\* Two names are never one stage's, and a name is none of the other stages'.
LEMMA OneStage ==
    \A c \in Clients, n \in Sites, m \in Sites \cup StageNames : On(c, n) /\ On(c, m) => m = n
  BY DEF On

\* The records of a name have been listed: each is an address of it.
LEMMA ListedOK ==
    ASSUME NEW z, NEW t, TaskOK(z, t), t.pc = "read", NEW n \in Sites, Head(t.todo) = n,
           NEW u, IsTask(u), u.todo = t.todo, u.addr = t.addr, u.pc \in {"write", "prune"},
           AtHand(u) \subseteq At(z, n), u.addr \in Addr => Halfway(z, u, n)
    PROVE  TaskOK(z, u)
  <1>2. Aim(t) /\ t.todo # <<"clear">> /\ t.addr \in Addr
    <2>1. Aim(t)
      BY DEF TaskOK
    <2>2. Head(<<"clear">>) = "clear"
      OBVIOUS
    <2>3. t.todo # <<"clear">>
      BY <2>2, ZoneAssumption DEF StageNames
    <2> QED BY <2>1, <2>3 DEF Aim
  <1>3. Aim(u)
    BY <1>2 DEF Aim
  <1>7. InHand(z, u, n)
    BY <1>2 DEF InHand, At, Held
  <1> QED BY <1>3, <1>7 DEF TaskOK

\* What is sure of the game's name, and the controller's own task.
Claim == IF server = NoAddr THEN At(zone, Game) = {} ELSE Points(zone, Game, [addr |-> server])
ControllerOK ==
    /\ sure \in BOOLEAN
    /\ sure => Claim
    /\ InTask("controller") =>
         /\ ~sure /\ client["controller"].todo \in {<<Game>>, <<"clear">>}
         /\ client["controller"].alone => client["controller"].addr = server

\* What a step of a client's task is to the others, to the names and to what is sure.
NameSame(n) == At(zone', n) = At(zone, n) /\ \A i \in At(zone, n) : zone'[i] = zone[i]
StepOK(c) ==
    /\ TasksOK'
    /\ \A d \in Clients \ {c} : \/ client'[d] = client[d] /\ UNCHANGED zone
                                \/ client'[d] = [client[d] EXCEPT !.alone = FALSE]
    /\ client'[c].addr = client[c].addr /\ client'[c].alone = client[c].alone
    /\ client'[c].pc = "idle" \/ client'[c].todo \in {client[c].todo, <<Game>>} \/ Len(client[c].todo) # 1
    /\ UNCHANGED server
    /\ c # "controller" /\ sure' => sure /\ NameSame(Game)
    /\ c = "controller" /\ sure' # sure =>
         sure' = FALSE \/ (On(c, Game) /\ client[c].pc = "prune" /\ client[c].doomed = {} /\ client[c].alone
                           /\ client'[c].pc = "idle" /\ UNCHANGED zone)
    /\ sure' \in BOOLEAN
    /\ NameNotEmptied /\ RecordsKept

\* A step that leaves the zone alone.
LEMMA ZoneAlone == UNCHANGED zone => NameSame(Game) /\ NameNotEmptied /\ RecordsKept
  <1> SUFFICES ASSUME UNCHANGED zone PROVE NameSame(Game) /\ NameNotEmptied /\ RecordsKept
    OBVIOUS
  <1>1. \A n : At(zone', n) = At(zone, n)
    BY DEF At
  <1> QED BY <1>1 DEF NameSame, NameNotEmptied, RecordsKept

\* A stage that ends without a write.
LEMMA Ended ==
    ASSUME TasksOK, sure \in BOOLEAN, NEW c \in Clients, InTask(c), NEW ok \in BOOLEAN,
           Goes(c, Onward(client[c], ok)), UNCHANGED <<zone, server>>,
           \/ UNCHANGED sure
           \/ ok = FALSE /\ \E n : Sure(c, n, Onward(client[c], ok))
           \/ /\ On(c, Game) /\ client[c].pc = "prune" /\ client[c].doomed = {}
              /\ Sure(c, Game, Onward(client[c], ok))
           \/ c # "controller" /\ \E n : Sure(c, n, Onward(client[c], ok))
    PROVE  StepOK(c)
  <1> DEFINE t == client[c]
             u == Onward(t, ok)
  <1>1. IsTask(t) /\ t.pc # "idle" /\ TaskOK(zone, t)
    BY DEF TasksOK, TaskOK, InTask
  <1>2. /\ IsTask(u) /\ u.todo = Tail(t.todo) /\ u.pc = (IF Len(t.todo) = 1 THEN "idle" ELSE "read")
        /\ u.addr = t.addr /\ u.alone = t.alone /\ u.ok = (t.ok /\ ok)
    BY <1>1, OnwardIs
  <1>3. TaskOK(zone, u)
    BY <1>1, OnwardOK
  <1> HIDE DEF u
  <1>4. TasksOK' /\ \A d \in Clients : client'[d] = IF d = c THEN u ELSE client[d]
    BY <1>3, Undisturbed DEF u
  <1>5. client'[c] = u
    BY <1>4
  <1>6. c # "controller" /\ sure' => sure
    BY DEF Sure
  <1>7. sure' \in BOOLEAN
    BY <1>1, <1>2 DEF Sure, IsTask, u
  <1>8. c = "controller" /\ sure' # sure =>
          sure' = FALSE \/ (On(c, Game) /\ t.pc = "prune" /\ t.doomed = {} /\ t.alone /\ u.pc = "idle")
    <2>1. ASSUME c = "controller", NEW n, Sure(c, n, u)
          PROVE  sure' = (u.pc = "idle" /\ u.ok /\ u.alone)
      BY <2>1 DEF Sure
    <2> QED BY <1>1, <1>2, <2>1 DEF u, IsTask
  <1>9. u.pc = "idle" \/ Len(t.todo) # 1
    BY <1>2
  <1> QED BY <1>2, <1>4, <1>5, <1>6, <1>7, <1>8, <1>9, ZoneAlone DEF StepOK

\* One that goes on with what it has read.
LEMMA Reads ==
    ASSUME TasksOK, sure \in BOOLEAN, NEW c \in Clients, NEW u, Goes(c, u), TaskOK(zone, u),
           u.addr = client[c].addr, u.alone = client[c].alone, u.todo \in {client[c].todo, <<Game>>},
           UNCHANGED <<zone, server, sure>>
    PROVE  StepOK(c)
  <1>1. TasksOK' /\ \A d \in Clients : client'[d] = IF d = c THEN u ELSE client[d]
    BY Undisturbed
  <1> QED BY <1>1, ZoneAlone DEF StepOK

\* Listing a name's records.
LEMMA ListStep ==
    ASSUME TasksOK, sure \in BOOLEAN, NEW c \in Clients, NEW n \in Sites, ListRecords(c, n)
    PROVE  StepOK(c)
  <1> DEFINE t == client[c]
             found == At(zone, n)
  <1>1. TaskOK(zone, t) /\ InTask(c) /\ t.pc = "read" /\ Head(t.todo) = n /\ UNCHANGED <<zone, server, sure>>
    BY DEF ListRecords, TasksOK, On
  <1>2. CASE found = {} /\ Goes(c, [t EXCEPT !.pc = "write"])
    <2> DEFINE u == [t EXCEPT !.pc = "write"]
    <2>1. u = [t EXCEPT !.pc = "write", !.keep = 0, !.doomed = {}]
      <3>1. DOMAIN t = DOMAIN NoTask /\ t.keep = 0 /\ t.doomed = {}
        BY <1>1 DEF TaskOK, IsTask
      <3> QED BY <3>1
    <2>2. /\ IsTask(u) /\ u.pc = "write" /\ u.keep = 0 /\ u.doomed = {}
          /\ u.todo = t.todo /\ u.addr = t.addr /\ u.alone = t.alone
      BY <1>1, <2>1 DEF TaskOK, IsTask, NoTask
    <2> HIDE DEF u
    <2>3. Halfway(zone, u, n) /\ AtHand(u) \subseteq At(zone, n)
      BY <1>2, <2>2 DEF Halfway, AtHand
    <2>4. TaskOK(zone, u)
      BY <1>1, <2>2, <2>3, ListedOK
    <2> QED BY <1>1, <1>2, <2>2, <2>4, Reads DEF u
  <1>3. ASSUME NEW i \in found, NEW pc,
               Goes(c, [t EXCEPT !.pc = pc, !.keep = i, !.doomed = found \ {i}]),
               pc = IF zone[i] = Wanted(t, n) THEN "prune" ELSE "write"
        PROVE  StepOK(c)
    <2> DEFINE D == found \ {i}
               u == [t EXCEPT !.pc = pc, !.keep = i, !.doomed = D]
    <2>1. i \in Slot /\ i # 0
      BY IdsAreNotZero DEF At
    <2>2. i \in Slot \ D /\ At(zone, n) = D \cup {i}
      BY <2>1
    <2>3. /\ IsTask(u) /\ u.pc = pc /\ u.keep = i /\ u.doomed = D
          /\ u.todo = t.todo /\ u.addr = t.addr /\ u.alone = t.alone
      BY <1>1 DEF TaskOK, IsTask, NoTask
    <2>4. zone[i] = Wanted(t, n) => zone[i] = Wanted(u, n)
      BY <2>3 DEF Wanted
    <2> HIDE DEF D, u
    <2>5. AtHand(u) \subseteq At(zone, n)
      BY <2>2, <2>3 DEF AtHand
    <2>6. u.addr \in Addr => Halfway(zone, u, n)
      BY <1>3, <2>1, <2>2, <2>3, <2>4 DEF Halfway
    <2>7. TaskOK(zone, u)
      <3>1. u.pc \in {"write", "prune"}
        BY <1>3, <2>3
      <3> QED BY <1>1, <2>3, <2>5, <2>6, <3>1, ListedOK
    <2> QED BY <1>1, <1>3, <2>3, <2>7, Reads DEF u, D
  <1>4. CASE Goes(c, Onward(t, FALSE))
    BY <1>1, <1>4, Ended
  <1>5. Keepable(found, zone, Wanted(t, n)) \subseteq found
    BY DEF Keepable
  <1> QED BY <1>2, <1>3, <1>4, <1>5 DEF ListRecords

\* A request that had its effect, answered or not.
LEMMA Written ==
    ASSUME TasksOK, sure \in BOOLEAN, NEW c \in Clients, NEW n, NEW u, Writes(c, u), Sure(c, n, u),
           Stable(zone, zone'), TaskOK(zone', u), UNCHANGED server,
           u.addr = client[c].addr, u.alone = client[c].alone,
           c # "controller" \/ u.pc # "idle" \/ u.ok = FALSE,
           u.pc = "idle" \/ u.todo = client[c].todo \/ Len(client[c].todo) # 1,
           n # Game => NameSame(Game), NameNotEmptied, RecordsKept
    PROVE  StepOK(c)
  <1>1. TasksOK' /\ \A d \in Clients : client'[d] = IF d = c THEN u ELSE [client[d] EXCEPT !.alone = FALSE]
    BY Disturbing
  <1>2. c # "controller" => sure' = (sure /\ n # Game)
    BY DEF Sure
  <1>3. c = "controller" => sure' = (u.pc = "idle" /\ u.ok /\ u.alone)
    BY DEF Sure
  <1>4. c = "controller" => sure' = FALSE
    BY <1>3
  <1>5. sure' \in BOOLEAN
    BY <1>2, <1>4
  <1> QED BY <1>1, <1>2, <1>4, <1>5 DEF StepOK

\* A stage that a request's failure ends.
LEMMA Failed ==
    ASSUME TasksOK, sure \in BOOLEAN, NEW c \in Clients, InTask(c), NEW n, NEW ok \in BOOLEAN,
           c # "controller" \/ ok = FALSE,
           Writes(c, Onward(client[c], ok)), Sure(c, n, Onward(client[c], ok)),
           Stable(zone, zone'), UNCHANGED server, n # Game => NameSame(Game), NameNotEmptied, RecordsKept
    PROVE  StepOK(c)
  <1> DEFINE u == Onward(client[c], ok)
  <1>1. IsTask(client[c]) /\ TaskOK(zone, client[c]) /\ client[c].pc # "idle"
    BY DEF TasksOK, TaskOK, InTask
  <1>2. TaskOK(zone', u)
    BY <1>1, OnwardOK
  <1>3. /\ u.addr = client[c].addr /\ u.alone = client[c].alone /\ u.ok = (client[c].ok /\ ok)
        /\ u.pc = IF Len(client[c].todo) = 1 THEN "idle" ELSE "read"
    BY <1>1, OnwardIs
  <1>4. c # "controller" \/ u.ok = FALSE
    BY <1>3
  <1>5. u.pc = "idle" \/ Len(client[c].todo) # 1
    BY <1>3
  <1> HIDE DEF u
  <1> QED BY <1>2, <1>3, <1>4, <1>5, Written DEF u

\* What a record that is put does to the names.
LEMMA PutSame ==
    ASSUME DOMAIN zone = Slot, NEW k \in Slot, NEW r, zone' = [zone EXCEPT ![k] = r], NEW n \in Sites,
           r.name = n, r.type \in Address, zone[k] = NoRecord \/ Held(zone[k], n), zone[k] # Gone
    PROVE  /\ Stable(zone, zone') /\ zone'[k] = r /\ At(zone', n) = At(zone, n) \cup {k}
           /\ n # Game => NameSame(Game) /\ NameNotEmptied /\ RecordsKept
           /\ NameNotEmptied /\ RecordsKept
  <1>1. zone'[k] = r /\ DOMAIN zone' = Slot /\ \A i \in Slot \ {k} : zone'[i] = zone[i]
    OBVIOUS
  <1>2. Stable(zone, zone')
    <2>1. Held(zone'[k], n)
      BY <1>1 DEF Held
    <2>2. \A m \in Sites : Held(zone[k], m) => m = n
      BY EmptyRecords DEF Held
    <2> QED BY <1>1, <2>1, <2>2 DEF Stable
  <1>3. At(zone', n) = At(zone, n) \cup {k}
    BY <1>1 DEF At
  <1>4. \A m \in Sites \ {n} : At(zone', m) = At(zone, m) /\ k \notin At(zone, m)
    <2>1. \A m \in Sites \ {n} : k \notin At(zone, m) /\ k \notin At(zone', m)
      BY <1>1, EmptyRecords DEF At, Held
    <2> QED BY <1>1, <2>1 DEF At
  <1>5. NameNotEmptied
    BY <1>3, <1>4 DEF NameNotEmptied
  <1>6. RecordsKept
    BY <1>1 DEF RecordsKept, Held
  <1>7. n # Game => NameSame(Game)
    <2>1. Game \in Sites /\ At(zone, Game) \subseteq Slot
      BY DEF Sites, At
    <2> QED BY <1>1, <1>4, <2>1 DEF NameSame
  <1> QED BY <1>1, <1>2, <1>3, <1>5, <1>6, <1>7

\* Writing a name's record: the new one, or the one that is kept.
LEMMA WriteStep ==
    ASSUME TasksOK, sure \in BOOLEAN, NEW c \in Clients, NEW n \in Sites, WriteRecord(c, n)
    PROVE  StepOK(c)
  <1> DEFINE t == client[c]
             u == [t EXCEPT !.pc = "prune"]
             k == IF t.keep = 0 THEN NewId ELSE t.keep
             want == Wanted(t, n)
  <1>1. /\ TaskOK(zone, t) /\ InTask(c) /\ t.pc = "write" /\ Head(t.todo) = n /\ IsTask(t) /\ UNCHANGED server
        /\ InHand(zone, t, n) /\ t.addr \in Addr /\ DOMAIN zone = Slot
    <2>1. TaskOK(zone, t) /\ InTask(c) /\ t.pc = "write" /\ Head(t.todo) = n /\ UNCHANGED server /\ DOMAIN zone = Slot
      BY DEF WriteRecord, TasksOK, On
    <2>2. IsTask(t) /\ InHand(zone, t, n) /\ Aim(t)
      BY <2>1 DEF TaskOK
    <2>3. Head(<<"clear">>) = "clear"
      OBVIOUS
    <2>4. t.todo # <<"clear">>
      BY <2>1, <2>3, ZoneAssumption DEF StageNames
    <2> QED BY <2>1, <2>2, <2>4 DEF Aim
  <1>2. /\ IsTask(u) /\ u.pc = "prune" /\ u.todo = t.todo /\ u.addr = t.addr /\ u.alone = t.alone
        /\ u.keep = t.keep /\ u.doomed = t.doomed
    BY <1>1 DEF IsTask, NoTask
  <1> HIDE DEF u
  <1>3. CASE /\ UNCHANGED zone /\ Goes(c, Onward(t, FALSE)) /\ Sure(c, n, Onward(t, FALSE))
    BY <1>1, <1>3, Ended
  <1>4. CASE /\ IF t.keep = 0 THEN Unused # {} ELSE zone[t.keep] # Gone
             /\ zone' = [zone EXCEPT ![k] = want]
             /\ \/ Writes(c, u) /\ Sure(c, n, u)
                \/ Writes(c, Onward(t, FALSE)) /\ Sure(c, n, Onward(t, FALSE))
    <2>1. k \in Slot /\ (zone[k] = NoRecord \/ Held(zone[k], n)) /\ zone[k] # Gone
      <3>1. CASE t.keep = 0
        <4>1. k = NewId /\ k \in Slot /\ zone[k] = NoRecord
          BY <1>4, <3>1, NewIdIs
        <4>2. NoRecord # Gone
          BY EmptyRecords
        <4> QED BY <4>1, <4>2
      <3>2. CASE t.keep # 0
        <4>1. k = t.keep /\ k \in AtHand(t) /\ zone[k] # Gone
          BY <1>4, <3>2 DEF AtHand
        <4> QED BY <1>1, <4>1 DEF InHand
      <3> QED BY <3>1, <3>2
    <2>2. want.name = n /\ want.type \in Address
      BY <1>1, WantedIs
    <2> HIDE DEF k, want
    <2>3. /\ Stable(zone, zone') /\ zone'[k] = want /\ At(zone', n) = At(zone, n) \cup {k}
          /\ n # Game => NameSame(Game) /\ NameNotEmptied /\ RecordsKept
          /\ NameNotEmptied /\ RecordsKept
      BY <1>1, <1>4, <2>1, <2>2, PutSame
    <2>4. TaskOK(zone', u)
      <3>1. InHand(zone', u, n)
        <4>1. AtHand(u) = AtHand(t)
          BY <1>2 DEF AtHand
        <4>2. t.alone => Halfway(zone', u, n)
          <5> SUFFICES ASSUME t.alone PROVE Halfway(zone', u, n)
            OBVIOUS
          <5>1. zone'[k] = Wanted(u, n)
            BY <1>2, <2>3 DEF Wanted, want
          <5>2. k \in Slot \ t.doomed /\ At(zone', n) = t.doomed \cup {k}
            BY <1>1, <2>1, <2>3 DEF InHand, Halfway, k
          <5> QED BY <1>1, <1>2, <5>1, <5>2 DEF Halfway
        <4> QED BY <1>1, <1>2, <2>3, <4>1, <4>2 DEF InHand, Stable
      <3>2. Aim(u)
        BY <1>1, <1>2, ZoneAssumption DEF TaskOK, Aim
      <3> QED BY <1>1, <1>2, <3>1, <3>2 DEF TaskOK
    <2>5. CASE Writes(c, u) /\ Sure(c, n, u)
      BY <1>1, <1>2, <2>3, <2>4, <2>5, Written
    <2>6. CASE Writes(c, Onward(t, FALSE)) /\ Sure(c, n, Onward(t, FALSE))
      BY <1>1, <2>3, <2>6, Failed
    <2> QED BY <1>4, <2>5, <2>6
  <1> QED BY <1>3, <1>4 DEF WriteRecord, Request, u, k, want

\* Deleting what is doomed, one by one.
LEMMA DeleteStep ==
    ASSUME TasksOK, sure \in BOOLEAN, NEW c \in Clients, NEW n \in Sites, DeleteRecord(c, n),
           c = "controller" => n = Game
    PROVE  StepOK(c)
  <1> DEFINE t == client[c]
  <1>1. /\ TaskOK(zone, t) /\ InTask(c) /\ On(c, n) /\ t.pc = "prune" /\ Head(t.todo) = n /\ IsTask(t)
        /\ InHand(zone, t, n) /\ Aim(t) /\ DOMAIN zone = Slot /\ UNCHANGED server
    <2>1. TaskOK(zone, t) /\ InTask(c) /\ On(c, n) /\ t.pc = "prune" /\ Head(t.todo) = n /\ UNCHANGED server /\ DOMAIN zone = Slot
      BY DEF DeleteRecord, TasksOK, On
    <2> QED BY <2>1 DEF TaskOK
  <1>2. CASE t.doomed = {} /\ Goes(c, Onward(t, TRUE)) /\ UNCHANGED zone /\ Sure(c, n, Onward(t, TRUE))
    BY <1>1, <1>2, Ended
  <1>3. CASE UNCHANGED zone /\ Goes(c, Onward(t, FALSE)) /\ Sure(c, n, Onward(t, FALSE))
    BY <1>1, <1>3, Ended
  <1>4. ASSUME NEW k \in t.doomed, zone' = [zone EXCEPT ![k] = Gone],
               \/ Writes(c, [t EXCEPT !.doomed = t.doomed \ {k}]) /\ Sure(c, n, [t EXCEPT !.doomed = t.doomed \ {k}])
               \/ Writes(c, Onward(t, FALSE)) /\ Sure(c, n, Onward(t, FALSE))
        PROVE  StepOK(c)
    <2> DEFINE D == t.doomed \ {k}
               u == [t EXCEPT !.doomed = D]
    <2>1. k \in Slot /\ Held(zone[k], n)
      BY <1>1 DEF InHand, AtHand
    <2>2. zone'[k] = Gone /\ DOMAIN zone' = Slot /\ \A i \in Slot \ {k} : zone'[i] = zone[i]
      BY <1>1, <1>4, <2>1
    <2>3. Stable(zone, zone')
      BY <2>2, EmptyRecords DEF Stable
    <2>4. At(zone', n) = At(zone, n) \ {k}
      BY <2>2, EmptyRecords DEF At
    <2>5. \A m \in Sites \ {n} : At(zone', m) = At(zone, m) /\ k \notin At(zone, m)
      <3>1. \A m \in Sites \ {n} : k \notin At(zone, m) /\ k \notin At(zone', m)
        BY <2>1, <2>2, EmptyRecords DEF At, Held
      <3> QED BY <2>2, <3>1 DEF At
    <2>6. t.alone => \/ t.addr \in Addr /\ \E i \in Slot \ t.doomed : At(zone, n) = t.doomed \cup {i} /\ zone[i] = Wanted(t, n)
                     \/ t.addr = NoAddr /\ n = Game /\ At(zone, n) = t.doomed
      BY <1>1 DEF InHand, Halfway
    <2>7. NameNotEmptied
      <3> SUFFICES ASSUME NEW m \in Sites, At(zone, m) # {}, At(zone', m) = {}
                   PROVE  \E d \in Clients : On(d, m) /\ (client[d].addr = NoAddr \/ ~client[d].alone)
        BY DEF NameNotEmptied
      <3>1. m = n
        BY <2>5
      <3>2. t.addr = NoAddr \/ ~t.alone
        BY <2>4, <2>6, <3>1
      <3> QED BY <1>1, <3>1, <3>2
    <2>8. RecordsKept
      BY <2>1, <2>2 DEF RecordsKept, Held
    <2>9. n # Game => NameSame(Game)
      <3>1. Game \in Sites /\ At(zone, Game) \subseteq Slot
        BY DEF Sites, At
      <3> QED BY <2>2, <2>5, <3>1 DEF NameSame
    <2>10. /\ IsTask(u) /\ u.pc = "prune" /\ u.todo = t.todo /\ u.addr = t.addr /\ u.alone = t.alone
           /\ u.keep = t.keep /\ u.doomed = D
      BY <1>1 DEF IsTask, NoTask
    <2> HIDE DEF u
    <2>11. TaskOK(zone', u)
      <3>1. Aim(u)
        BY <1>1, <2>10 DEF Aim
      <3>2. AtHand(u) \subseteq AtHand(t)
        BY <2>10 DEF AtHand
      <3>3. t.alone => Halfway(zone', u, n)
        <4>1. CASE t.alone /\ t.addr \in Addr
          <5>1. PICK i \in Slot \ t.doomed : At(zone, n) = t.doomed \cup {i} /\ zone[i] = Wanted(t, n)
            BY <2>6, <4>1, ZoneAssumption
          <5>2. i \in Slot \ D /\ At(zone', n) = D \cup {i}
            BY <2>4, <5>1
          <5>3. zone'[i] = Wanted(u, n)
            BY <2>2, <2>10, <5>1 DEF Wanted
          <5> QED BY <2>10, <4>1, <5>2, <5>3 DEF Halfway
        <4>2. CASE t.alone /\ t.addr = NoAddr
          BY <2>4, <2>6, <2>10, <4>2, ZoneAssumption DEF Halfway
        <4> QED BY <1>1, <4>1, <4>2 DEF Aim
      <3>4. InHand(zone', u, n)
        BY <1>1, <2>3, <2>10, <3>2, <3>3 DEF InHand, Stable
      <3> QED BY <1>1, <2>10, <3>1, <3>4 DEF TaskOK
    <2>12. CASE Writes(c, u) /\ Sure(c, n, u)
      BY <1>1, <2>3, <2>7, <2>8, <2>9, <2>10, <2>11, <2>12, Written
    <2>13. CASE Writes(c, Onward(t, FALSE)) /\ Sure(c, n, Onward(t, FALSE))
      BY <1>1, <2>3, <2>7, <2>8, <2>9, <2>13, Failed
    <2> QED BY <1>4, <2>12, <2>13 DEF u
  <1> QED BY <1>2, <1>3, <1>4 DEF DeleteRecord, Request

\* Taking the game's name down begins with what it has.
LEMMA ClearStep ==
    ASSUME TasksOK, sure \in BOOLEAN, NEW c \in Clients, ListDoomed(c)
    PROVE  StepOK(c)
  <1> DEFINE t == client[c]
             D == At(zone, Game)
             u == [t EXCEPT !.todo = <<Game>>, !.pc = "prune", !.doomed = D]
  <1>1. /\ TaskOK(zone, t) /\ InTask(c) /\ IsTask(t) /\ UNCHANGED <<zone, server>> /\ t.keep = 0
        /\ Head(t.todo) = "clear" /\ Aim(t)
    <2>1. TaskOK(zone, t) /\ InTask(c) /\ t.pc = "read" /\ UNCHANGED <<zone, server>> /\ Head(t.todo) = "clear"
      BY DEF ListDoomed, TasksOK, On
    <2> QED BY <2>1 DEF TaskOK
  <1>2. t.addr = NoAddr
    <2>1. ASSUME t.todo \in Seq(Steps \ {"clear"}), t.todo # <<>> PROVE Head(t.todo) # "clear"
      BY <2>1
    <2> QED BY <1>1, <2>1 DEF Aim
  <1>3. /\ IsTask(u) /\ u.pc = "prune" /\ u.todo = <<Game>> /\ u.addr = NoAddr /\ u.alone = t.alone
        /\ u.keep = 0 /\ u.doomed = D
    BY <1>1, <1>2 DEF IsTask, NoTask
  <1> HIDE DEF u
  <1>4. TaskOK(zone, u)
    <2>1. Head(<<Game>>) = Game /\ <<Game>> # <<>> /\ <<Game>> \in Seq(Steps)
      BY DEF Steps, Sites
    <2>2. Aim(u)
      BY <1>3, <2>1 DEF Aim
    <2>3. AtHand(u) = D
      BY <1>3 DEF AtHand
    <2>4. InHand(zone, u, Game)
      BY <1>3, <2>3 DEF InHand, Halfway, At, Held
    <2> QED BY <1>3, <2>1, <2>2, <2>4 DEF TaskOK
  <1>5. CASE Goes(c, u) /\ UNCHANGED sure
    BY <1>1, <1>2, <1>3, <1>4, <1>5, Reads
  <1>6. CASE Goes(c, Onward(t, FALSE)) /\ Sure(c, Game, Onward(t, FALSE))
    BY <1>1, <1>6, Ended
  <1> QED BY <1>5, <1>6 DEF ListDoomed, u

\* The settings and the rules are the operator's, and none of the records'.
LEMMA SettingsStep ==
    ASSUME TasksOK, sure \in BOOLEAN, NEW c \in Clients, c # "controller",
           ReadSetting(c) \/ PatchSetting(c) \/ ClearRules(c) \/ ReadRules(c) \/ PutRules(c)
    PROVE  StepOK(c)
  <1> DEFINE t == client[c]
  <1>1. UNCHANGED <<zone, server>> /\ InTask(c) /\ TaskOK(zone, t) /\ IsTask(t) /\ Aim(t)
    BY DEF ReadSetting, PatchSetting, ClearRules, ReadRules, PutRules, TasksOK, On, TaskOK, InTask
  <1>2. Head(t.todo) \in {"settings", "redirects", "origin"}
    BY DEF ReadSetting, PatchSetting, ClearRules, ReadRules, PutRules, On
  <1>3. Head(t.todo) \notin Sites /\ t.todo \notin {<<"clear">>, <<Game>>}
    <2>1. Head(<<"clear">>) = "clear" /\ Head(<<Game>>) = Game
      OBVIOUS
    <2> QED BY <1>2, <2>1, ZoneAssumption DEF StageNames, Sites
  <1>4. Stable(zone, zone') /\ NameSame(Game) /\ NameNotEmptied /\ RecordsKept
    BY <1>1, ZoneAlone DEF Stable, TasksOK
  <1>5. ASSUME NEW u, Goes(c, u), UNCHANGED sure, IsTask(u), u.pc = "write", u.todo = t.todo,
               u.addr = t.addr, u.alone = t.alone
        PROVE  StepOK(c)
    <2>1. Aim(u)
      BY <1>1, <1>3, <1>5 DEF Aim
    <2>2. TaskOK(zone, u)
      BY <1>3, <1>5, <2>1 DEF TaskOK
    <2> QED BY <1>1, <1>5, <2>2, Reads
  <1>6. ASSUME NEW ok \in BOOLEAN, Goes(c, Onward(t, ok)), UNCHANGED sure \/ \E n : Sure(c, n, Onward(t, ok))
        PROVE  StepOK(c)
    BY <1>1, <1>6, Ended
  <1>7. ASSUME NEW ok \in BOOLEAN, NEW n, Writes(c, Onward(t, ok)), Sure(c, n, Onward(t, ok))
        PROVE  StepOK(c)
    BY <1>1, <1>4, <1>7, Failed
  <1>8. CASE ReadSetting(c)
    <2>1. CASE Goes(c, [t EXCEPT !.pc = "write"])
      BY <1>1, <1>5, <1>8, <2>1 DEF ReadSetting, IsTask, NoTask
    <2> QED BY <1>6, <1>8, <2>1 DEF ReadSetting
  <1>9. CASE PatchSetting(c) \/ PutRules(c)
    BY <1>6, <1>7, <1>9 DEF PatchSetting, PutRules, Request
  <1>10. CASE ClearRules(c)
    BY <1>6, <1>7, <1>10 DEF ClearRules, Request
  <1>11. CASE ReadRules(c)
    <2>1. CASE Goes(c, [t EXCEPT !.pc = "write", !.read = rules])
      BY <1>1, <1>5, <1>11, <2>1 DEF ReadRules, IsTask, NoTask
    <2> QED BY <1>6, <1>11, <2>1 DEF ReadRules
  <1> QED BY <1>8, <1>9, <1>10, <1>11

\* The entries of two lists one after the other.
LEMMA Joined ==
    ASSUME NEW X, NEW s \in Seq(X), NEW t \in Seq(X)
    PROVE  /\ s \o t \in Seq(X) /\ Len(s \o t) = Len(s) + Len(t) /\ DOMAIN (s \o t) = 1..Len(s \o t)
           /\ \A i \in 1..Len(s) : (s \o t)[i] = s[i]
           /\ \A i \in 1..Len(t) : (s \o t)[Len(s) + i] = t[i]
  <1> DEFINE st == s \o t
             n == Len(s)
             m == Len(t)
  <1>1. n \in Nat /\ m \in Nat /\ st \in Seq(X) /\ Len(st) = n + m /\ DOMAIN st = 1..Len(st)
    OBVIOUS
  <1>2. \A i \in 1..(n + m) : st[i] = IF i <= n THEN s[i] ELSE t[i - n]
    OBVIOUS
  <1> HIDE DEF st, n, m
  <1>3. ASSUME NEW i \in 1..m PROVE st[n + i] = t[i]
    <2>1. n + i \in 1..(n + m) /\ ~(n + i <= n) /\ (n + i) - n = i
      BY <1>1
    <2> QED BY <1>2, <2>1
  <1>4. ASSUME NEW i \in 1..n PROVE st[i] = s[i]
    <2>1. i \in 1..(n + m) /\ i <= n
      BY <1>1
    <2> QED BY <1>2, <2>1
  <1> QED BY <1>1, <1>3, <1>4 DEF st, n, m

\* What the operator asks for has every host in it, and the settings, and ends with the rules.
LEMMA StagesHave ==
    ASSUME NEW todo, todo = Stages(CHOOSE s \in HostSeqs : TRUE)
    PROVE  /\ todo \in Seq(Steps \ {"clear"}) /\ todo # <<>>
           /\ \A n \in Host : \E i \in DOMAIN todo : todo[i] = n
           /\ Proxied => \E i \in DOMAIN todo : todo[i] = "settings"
           /\ Proxied => todo[Len(todo)] = "origin"
  <1> DEFINE hosts == CHOOSE s \in HostSeqs : TRUE
             S == Steps \ {"clear"}
             first == IF ClearRedirects THEN <<"redirects">> ELSE <<>>
             second == IF Proxied THEN <<"settings">> ELSE <<>>
             last == IF Proxied THEN <<"origin">> ELSE <<>>
             n == Cardinality(Host)
             f == Len(first)
             g == Len(second)
             l == Len(last)
             Place(i) == i \in DOMAIN todo
  <1>1. n \in Nat /\ n # 0
    BY ZoneAssumption, FS_CardinalityType, FS_EmptySet
  <1>2. HostSeqs # {}
    <2>1. ExistsBijection(1..n, Host)
      BY ZoneAssumption, FS_CardinalityType
    <2>2. PICK h \in [1..n -> Host] : \A i, j \in 1..n : h[i] = h[j] => i = j
      BY <2>1 DEF ExistsBijection, Bijection, Injection, IsInjective
    <2> QED BY <2>2 DEF HostSeqs
  <1>3. hosts \in [1..n -> Host] /\ \A i, j \in 1..n : hosts[i] = hosts[j] => i = j
    <2>1. hosts \in HostSeqs
      BY <1>2
    <2> QED BY <2>1 DEF HostSeqs
  <1> HIDE DEF hosts
  <1>4. hosts \in Seq(Host) /\ Len(hosts) = n
    BY <1>1, <1>3
  <1>5. \A m \in Host : \E i \in 1..n : hosts[i] = m
    <2> DEFINE R == {hosts[i] : i \in 1..n}
    <2>1. hosts \in Bijection(1..n, R)
      BY <1>3 DEF Bijection, Injection, Surjection, IsInjective
    <2>2. IsFiniteSet(1..n) /\ Cardinality(1..n) = n
      BY <1>1, FS_Interval
    <2>3. Cardinality(R) = n
      BY <2>1, <2>2, FS_Bijection DEF ExistsBijection
    <2>4. R \subseteq Host
      BY <1>3
    <2> HIDE DEF R
    <2>5. R = Host
      BY <2>3, <2>4, ZoneAssumption, FS_Subset
    <2> QED BY <2>5 DEF R
  <1>6. Host \subseteq S
    BY ZoneAssumption DEF Sites, Steps, StageNames
  <1>7. hosts \in Seq(S)
    BY <1>4, <1>6, SeqMonotonic
  <1>8. "redirects" \in S /\ "settings" \in S /\ "origin" \in S
    BY DEF Steps, StageNames
  <1> HIDE DEF S, n
  <1>9. first \in Seq(S) /\ second \in Seq(S) /\ last \in Seq(S) /\ f \in Nat /\ g \in Nat /\ l \in Nat
    BY <1>8
  <1>10. Proxied => g = 1 /\ second[1] = "settings" /\ l = 1 /\ last[1] = "origin"
    OBVIOUS
  <1> HIDE DEF first, second, last
  <1>11. todo = ((first \o second) \o hosts) \o last
    BY DEF Stages, first, second, last, hosts
  <1> DEFINE a == first \o second
             b == a \o hosts
  <1>12. a \in Seq(S) /\ Len(a) = f + g /\ \A i \in 1..g : a[f + i] = second[i]
    BY <1>9, Joined
  <1> HIDE DEF a
  <1> DEFINE fg == f + g
  <1>13. b \in Seq(S) /\ Len(b) = f + g + n /\ (\A i \in 1..(f + g) : b[i] = a[i]) /\ \A i \in 1..n : b[f + g + i] = hosts[i]
    <2>1. b = a \o hosts /\ Len(hosts) = n /\ Len(a) = fg
      BY <1>4, <1>12
    <2>2. a \in Seq(S) /\ hosts \in Seq(S)
      BY <1>7, <1>12
    <2> HIDE DEF a, b, fg
    <2>3. b \in Seq(S) /\ Len(b) = fg + n
      BY <2>1, <2>2, Joined
    <2>4. \A i \in 1..fg : b[i] = a[i]
      BY <2>1, <2>2, Joined
    <2>5. \A i \in 1..n : b[fg + i] = hosts[i]
      BY <2>1, <2>2, Joined
    <2> QED BY <2>3, <2>4, <2>5 DEF fg
  <1> HIDE DEF b
  <1>14. /\ todo \in Seq(S) /\ Len(todo) = f + g + n + l /\ DOMAIN todo = 1..(f + g + n + l)
         /\ \A i \in 1..(f + g + n) : todo[i] = b[i]
         /\ \A i \in 1..l : todo[f + g + n + i] = last[i]
    <2> DEFINE m == f + g + n
    <2>1. todo = b \o last /\ Len(b) = m /\ Len(last) = l /\ b \in Seq(S) /\ last \in Seq(S)
      BY <1>9, <1>11, <1>13 DEF a, b
    <2> HIDE DEF f, g, l, m
    <2>2. todo \in Seq(S) /\ Len(todo) = m + l /\ DOMAIN todo = 1..(m + l)
      BY <2>1, Joined
    <2>3. \A i \in 1..m : todo[i] = b[i]
      BY <2>1, Joined
    <2>4. \A i \in 1..Len(last) : (b \o last)[Len(b) + i] = last[i]
      BY <2>1, Joined
    <2>5. \A i \in 1..l : todo[m + i] = last[i]
      BY <2>1, <2>4
    <2> QED BY <2>2, <2>3, <2>5 DEF m
  <1>15. todo # <<>>
    BY <1>1, <1>9, <1>14
  <1> HIDE DEF f, g, l
  <1>16. ASSUME NEW m \in Host PROVE \E i \in DOMAIN todo : todo[i] = m
    <2>1. PICK i \in 1..n : hosts[i] = m
      BY <1>5
    <2>2. f + g + i \in 1..(f + g + n) /\ f + g + i \in 1..(f + g + n + l)
      BY <1>1, <1>9
    <2>3. todo[f + g + i] = m
      BY <1>13, <1>14, <2>1, <2>2
    <2> QED BY <1>14, <2>2, <2>3
  <1>17. Proxied => \E i \in DOMAIN todo : todo[i] = "settings"
    <2> SUFFICES ASSUME Proxied PROVE todo[f + 1] = "settings" /\ f + 1 \in 1..(f + g + n + l)
      BY <1>14
    <2>1. /\ 1 \in 1..g /\ f + 1 \in 1..(f + g) /\ f + 1 \in 1..(f + g + n)
          /\ f + 1 \in 1..(f + g + n + l)
      BY <1>1, <1>9, <1>10
    <2> QED BY <1>10, <1>12, <1>13, <1>14, <2>1
  <1>18. Proxied => todo[Len(todo)] = "origin"
    BY <1>10, <1>14
  <1> QED BY <1>14, <1>15, <1>16, <1>17, <1>18 DEF S

\* A task that is begun holds nothing yet.
LEMMA SyncTask ==
    ASSUME NEW z, NEW todo \in Seq(Steps \ {"clear"}), todo # <<>>, NEW a \in Addr, NEW p
    PROVE  TaskOK(z, Task(todo, a, p))
  <1> DEFINE t == Task(todo, a, p)
  <1>1. /\ IsTask(t) /\ t.todo = todo /\ t.pc = "read" /\ t.addr = a /\ t.keep = 0 /\ t.doomed = {}
    BY DEF NoTask, IsTask, Task
  <1> HIDE DEF t
  <1>2. todo \in Seq(Steps)
    BY SeqMonotonic
  <1>3. Aim(t)
    BY <1>1, <1>2 DEF Aim
  <1>4. TaskOK(z, t)
    BY <1>1, <1>3 DEF TaskOK
  <1> QED BY <1>4 DEF t

\* Neither does one that was never begun.
LEMMA NoTaskOK == \A z : TaskOK(z, NoTask) /\ NoTask.pc = "idle"
  BY DEF TaskOK, IsTask, NoTask

\* The game's task, and the one that takes its name down, have one stage.
LEMMA OneStageTasks ==
    /\ <<Game>> \in Seq(Steps \ {"clear"}) /\ <<Game>> \in Seq(Steps) /\ <<Game>> # <<>> /\ Head(<<Game>>) = Game
    /\ <<"clear">> \in Seq(Steps) /\ <<"clear">> # <<>> /\ Head(<<"clear">>) = "clear"
    /\ Len(<<Game>>) = 1 /\ Len(<<"clear">>) = 1
  <1>1. Game \in Steps \ {"clear"} /\ "clear" \in Steps
    BY ZoneAssumption DEF Steps, Sites, StageNames
  <1> QED BY <1>1

\* What the controller asks for after a deploy.
LEMMA GameTask ==
    ASSUME NEW z, NEW a \in Addr, NEW t, t = Task(<<Game>>, a, 0)
    PROVE  TaskOK(z, t) /\ t.todo = <<Game>> /\ t.addr = a
  <1>1. /\ IsTask(t) /\ t.todo = <<Game>> /\ t.pc = "read" /\ t.addr = a /\ t.keep = 0 /\ t.doomed = {}
    BY DEF NoTask, IsTask, Task
  <1>2. Aim(t)
    BY <1>1, OneStageTasks DEF Aim
  <1> QED BY <1>1, <1>2 DEF TaskOK

\* And what it asks for after a close.
LEMMA ClearTask ==
    ASSUME NEW z, NEW t, t = Task(<<"clear">>, NoAddr, 0)
    PROVE  TaskOK(z, t) /\ t.todo = <<"clear">> /\ t.addr = NoAddr
  <1>1. /\ IsTask(t) /\ t.todo = <<"clear">> /\ t.pc = "read" /\ t.addr = NoAddr /\ t.keep = 0 /\ t.doomed = {}
    BY DEF NoTask, IsTask, Task
  <1>2. Aim(t)
    BY <1>1, OneStageTasks DEF Aim
  <1> QED BY <1>1, <1>2 DEF TaskOK

\* What is said of the game's name stays true while its addresses stay the same.
LEMMA ClaimKept == Claim /\ NameSame(Game) /\ UNCHANGED server => Claim'
  <1> SUFFICES ASSUME Claim, NameSame(Game), UNCHANGED server PROVE Claim'
    OBVIOUS
  <1>1. At(zone', Game) = At(zone, Game) /\ \A i \in At(zone, Game) : zone'[i] = zone[i]
    BY DEF NameSame
  <1>2. CASE server = NoAddr
    BY <1>1, <1>2 DEF Claim
  <1>3. CASE server # NoAddr
    <2>1. PICK i \in Slot : At(zone, Game) = {i} /\ zone[i] = Wanted([addr |-> server], Game)
      BY <1>3 DEF Claim, Points
    <2>2. At(zone', Game) = {i} /\ zone'[i] = Wanted([addr |-> server], Game)
      BY <1>1, <2>1
    <2>3. Points(zone', Game, [addr |-> server])
      BY <2>2 DEF Points
    <2> QED BY <1>3, <2>3 DEF Claim
  <1> QED BY <1>2, <1>3

\* Steps of the clients keep what is sure of the game's name.
LEMMA ControllerKept ==
    ASSUME TasksOK, ControllerOK, NEW c \in Clients, InTask(c), StepOK(c)
    PROVE  ControllerOK'
  <1> DEFINE t == client["controller"]
             u == client'["controller"]
  <1>0. sure' \in BOOLEAN /\ UNCHANGED server /\ "controller" \in Clients
    BY DEF StepOK, Clients
  <1>1. CASE c = "controller"
    <2>1. /\ ~sure /\ t.todo \in {<<Game>>, <<"clear">>} /\ (t.alone => t.addr = server)
          /\ TaskOK(zone, t) /\ t.pc # "idle"
      BY <1>0, <1>1 DEF ControllerOK, TasksOK, InTask
    <2>2. sure' => /\ On("controller", Game) /\ t.pc = "prune" /\ t.doomed = {} /\ t.alone
                   /\ u.pc = "idle" /\ UNCHANGED zone
      BY <1>0, <1>1, <2>1 DEF StepOK
    <2>3. u.addr = t.addr /\ u.alone = t.alone /\ (u.pc = "idle" \/ u.todo \in {<<Game>>, <<"clear">>})
      BY <1>1, <2>1, OneStageTasks DEF StepOK
    <2>4. sure' => Claim'
      <3> SUFFICES ASSUME sure' PROVE Claim'
        OBVIOUS
      <3>1. t.pc = "prune" /\ t.doomed = {} /\ Head(t.todo) = Game /\ Game \in Sites /\ t.addr = server /\ t.alone
        BY <2>1, <2>2 DEF On, Sites
      <3>2. Halfway(zone, t, Game)
        BY <2>1, <3>1 DEF TaskOK, InHand
      <3>3. Claim
        <4>1. CASE server = NoAddr
          <5>1. At(zone, Game) = {}
            BY <3>1, <3>2, <4>1, ZoneAssumption DEF Halfway
          <5> QED BY <4>1, <5>1 DEF Claim
        <4>2. CASE server # NoAddr
          <5>1. PICK i \in Slot : At(zone, Game) = {i} /\ zone[i] = Wanted(t, Game)
            BY <3>1, <3>2, <4>2 DEF Halfway
          <5>2. Wanted(t, Game) = Wanted([addr |-> server], Game)
            BY <3>1 DEF Wanted
          <5> QED BY <4>2, <5>1, <5>2 DEF Claim, Points
        <4> QED BY <4>1, <4>2
      <3>4. UNCHANGED <<zone, server>>
        BY <1>0, <2>2
      <3> QED BY <3>3, <3>4 DEF Claim, Points, At
    <2>5. InTask("controller")' => ~sure'
      BY <2>2 DEF InTask
    <2> QED BY <1>0, <2>1, <2>3, <2>4, <2>5 DEF ControllerOK, InTask
  <1>2. CASE c # "controller"
    <2>1. /\ u = t \/ u = [t EXCEPT !.alone = FALSE]
          /\ sure' => sure /\ NameSame(Game)
      BY <1>0, <1>2 DEF StepOK
    <2>2. IsTask(t)
      BY <1>0 DEF TasksOK, TaskOK
    <2>3. u.pc = t.pc /\ u.todo = t.todo /\ u.addr = t.addr /\ (u.alone => t.alone)
      BY <2>1, <2>2 DEF IsTask, NoTask
    <2>4. sure' => Claim'
      BY <1>0, <2>1, ClaimKept DEF ControllerOK
    <2> QED BY <1>0, <2>1, <2>3, <2>4 DEF ControllerOK, InTask
  <1> QED BY <1>1, <1>2

\* Every client's step is one of these.
LEMMA ClientStep ==
    ASSUME TasksOK, ControllerOK, NEW c \in Clients,
           \/ RecordStep(c) \/ ListDoomed(c)
           \/ ReadSetting(c) \/ PatchSetting(c) \/ ClearRules(c) \/ ReadRules(c) \/ PutRules(c)
    PROVE  TasksOK' /\ ControllerOK' /\ NameNotEmptied /\ RecordsKept
  <1>1. sure \in BOOLEAN /\ InTask(c)
    BY DEF ControllerOK, RecordStep, ListRecords, WriteRecord, DeleteRecord, ListDoomed, ReadSetting,
           PatchSetting, ClearRules, ReadRules, PutRules, On
  <1>2. c = "controller" => Head(client[c].todo) \in {Game, "clear"}
    BY <1>1, OneStageTasks DEF ControllerOK
  <1>3. CASE RecordStep(c)
    <2>1. PICK n \in Sites : ListRecords(c, n) \/ WriteRecord(c, n) \/ DeleteRecord(c, n)
      BY <1>3 DEF RecordStep
    <2>2. c = "controller" => n = Game
      <3>1. On(c, n)
        BY <2>1 DEF ListRecords, WriteRecord, DeleteRecord
      <3> QED BY <1>2, <3>1, ZoneAssumption DEF On, StageNames
    <2>3. StepOK(c)
      BY <1>1, <2>1, <2>2, ListStep, WriteStep, DeleteStep
    <2> QED BY <1>1, <2>3, ControllerKept DEF StepOK
  <1>4. CASE ListDoomed(c)
    <2>1. StepOK(c)
      BY <1>1, <1>4, ClearStep
    <2> QED BY <1>1, <2>1, ControllerKept DEF StepOK
  <1>5. CASE ReadSetting(c) \/ PatchSetting(c) \/ ClearRules(c) \/ ReadRules(c) \/ PutRules(c)
    <2>1. c # "controller"
      <3>1. Head(client[c].todo) \in {"settings", "redirects", "origin"}
        BY <1>5 DEF ReadSetting, PatchSetting, ClearRules, ReadRules, PutRules, On
      <3> QED BY <1>2, <3>1, ZoneAssumption DEF StageNames, Sites
    <2>2. StepOK(c)
      BY <1>1, <1>5, <2>1, SettingsStep
    <2> QED BY <1>1, <2>2, ControllerKept DEF StepOK
  <1> QED BY <1>3, <1>4, <1>5

\* What leaves the zone alone and changes one client's task, or the server.
LEMMA Asked ==
    ASSUME TasksOK, NEW c \in Clients, NEW u, UNCHANGED zone, client' = [client EXCEPT ![c] = u], TaskOK(zone, u)
    PROVE  /\ TasksOK' /\ NameNotEmptied /\ RecordsKept
           /\ client'[c] = u /\ \A d \in Clients \ {c} : client'[d] = client[d]
  BY ZoneAlone DEF TasksOK

\* The operator asks: the controller's task is what it was.
LEMMA OperatorStep ==
    ASSUME TasksOK, ControllerOK, NEW t, OperatorAsks(t), TaskOK(zone, t)
    PROVE  TasksOK' /\ ControllerOK' /\ NameNotEmptied /\ RecordsKept
  <1>1. client' = [client EXCEPT !["operator"] = t] /\ UNCHANGED <<zone, server, sure>>
    BY DEF OperatorAsks
  <1>2. /\ TasksOK' /\ NameNotEmptied /\ RecordsKept
        /\ \A d \in Clients \ {"operator"} : client'[d] = client[d]
    BY <1>1, Asked DEF Clients
  <1>3. client'["controller"] = client["controller"]
    BY <1>2 DEF Clients
  <1>4. ControllerOK'
    <2>1. Claim' = Claim
      BY <1>1 DEF Claim, Points, At
    <2> QED BY <1>1, <1>3, <2>1 DEF ControllerOK, InTask
  <1> QED BY <1>2, <1>4

\* The controller's driver begins a task, or dies; or the server is lost.
LEMMA DriverStep ==
    ASSUME TasksOK, ControllerOK, (\E a \in Addr : Deployed(a)) \/ Closes \/ ServerLost \/ ControllerDies
    PROVE  TasksOK' /\ ControllerOK' /\ NameNotEmptied /\ RecordsKept
  <1>1. ASSUME NEW u, UNCHANGED zone, client' = [client EXCEPT !["controller"] = u], TaskOK(zone, u), sure' = FALSE,
               u.pc # "idle" => u.todo \in {<<Game>>, <<"clear">>} /\ (u.alone => u.addr = server')
        PROVE  TasksOK' /\ ControllerOK' /\ NameNotEmptied /\ RecordsKept
    <2>1. TasksOK' /\ NameNotEmptied /\ RecordsKept /\ client'["controller"] = u
      BY <1>1, Asked DEF Clients
    <2> QED BY <1>1, <2>1 DEF ControllerOK, InTask
  <1>2. CASE \E a \in Addr : Deployed(a)
    <2>1. PICK a \in Addr : Deployed(a)
      BY <1>2
    <2> DEFINE u == Task(<<Game>>, a, 0)
    <2>2. TaskOK(zone, u) /\ u.todo = <<Game>> /\ u.addr = a
      BY GameTask
    <2>3. UNCHANGED zone /\ client' = [client EXCEPT !["controller"] = u] /\ sure' = FALSE /\ server' = a
      BY <2>1 DEF Deployed
    <2> HIDE DEF u
    <2> QED BY <1>1, <2>2, <2>3
  <1>3. CASE Closes
    <2> DEFINE u == Task(<<"clear">>, NoAddr, 0)
    <2>2. TaskOK(zone, u) /\ u.todo = <<"clear">> /\ u.addr = NoAddr
      BY ClearTask
    <2>3. UNCHANGED zone /\ client' = [client EXCEPT !["controller"] = u] /\ sure' = FALSE /\ server' = NoAddr
      BY <1>3 DEF Closes
    <2> HIDE DEF u
    <2> QED BY <1>1, <2>2, <2>3
  <1>4. CASE ControllerDies
    <2>1. UNCHANGED zone /\ client' = [client EXCEPT !["controller"] = NoTask] /\ sure' = FALSE
      BY <1>4 DEF ControllerDies
    <2>2. TaskOK(zone, NoTask) /\ NoTask.pc = "idle"
      BY NoTaskOK
    <2> QED BY <1>1, <2>1, <2>2
  <1>5. CASE ServerLost
    <2> DEFINE t == client["controller"]
               alone == ~InTask("controller")
               u == [t EXCEPT !.alone = alone]
    <2>1. TaskOK(zone, t) /\ alone \in BOOLEAN
      BY DEF TasksOK, Clients
    <2>2. UNCHANGED zone /\ client' = [client EXCEPT !["controller"] = u] /\ sure' = FALSE
      BY <1>5 DEF ServerLost
    <2>3. CASE alone
      <3>1. t.pc = "idle"
        BY <2>3 DEF InTask
      <3>2. IsTask(u) /\ u.pc = "idle"
        BY <2>1, <3>1 DEF TaskOK, IsTask, NoTask
      <3> HIDE DEF u
      <3>3. TaskOK(zone, u)
        BY <3>2 DEF TaskOK
      <3> QED BY <1>1, <2>2, <3>2, <3>3
    <2>4. CASE ~alone
      <3>1. u = [t EXCEPT !.alone = FALSE]
        BY <2>4
      <3>2. Stable(zone, zone)
        BY DEF Stable, TasksOK
      <3>3. TaskOK(zone, u)
        BY <2>1, <3>1, <3>2, DisturbedOK
      <3>4. u.todo = t.todo /\ u.alone = FALSE
        BY <2>1, <3>1 DEF TaskOK, IsTask, NoTask
      <3>5. t.todo \in {<<Game>>, <<"clear">>}
        BY <2>4 DEF ControllerOK
      <3> HIDE DEF u
      <3> QED BY <1>1, <2>2, <3>3, <3>4, <3>5
    <2> QED BY <2>3, <2>4
  <1> QED BY <1>2, <1>3, <1>4, <1>5

\* Somebody changes the zone by hand: everybody is disturbed, nobody's records change.
LEMMA EditStep ==
    ASSUME TasksOK, ControllerOK, (\E r \in ByHand : EditRecord(r)) \/ (\E seq \in OldRules : EditRules(seq))
    PROVE  TasksOK' /\ ControllerOK' /\ NameNotEmptied /\ RecordsKept
  <1> DEFINE t == client["controller"]
             u == client'["controller"]
  <1>1. client' = Disturbs("nobody") /\ UNCHANGED server
    BY DEF EditRecord, EditRules
  <1>2. DOMAIN client' = Clients /\ \A d \in Clients : client'[d] = [client[d] EXCEPT !.alone = FALSE]
    BY <1>1 DEF Disturbs, Clients
  <1>3. /\ Stable(zone, zone') /\ NameNotEmptied /\ RecordsKept
        /\ sure' \in BOOLEAN /\ (sure' => sure /\ NameSame(Game))
    <2>1. CASE \E seq \in OldRules : EditRules(seq)
      <3>1. UNCHANGED <<zone, sure>>
        BY <2>1 DEF EditRules
      <3> QED BY <3>1, ZoneAlone DEF Stable, TasksOK, ControllerOK
    <2>2. CASE \E r \in ByHand : EditRecord(r)
      <3>1. PICK r \in ByHand : EditRecord(r)
        BY <2>2
      <3> DEFINE k == NewId
      <3>2. k \in Slot /\ zone[k] = NoRecord
        BY <3>1, NewIdIs DEF EditRecord
      <3>3. zone' = [zone EXCEPT ![k] = r] /\ sure' = (sure /\ r.name # Game)
        BY <3>1 DEF EditRecord
      <3> HIDE DEF k
      <3>4. zone'[k] = r /\ DOMAIN zone' = Slot /\ \A i \in Slot \ {k} : zone'[i] = zone[i]
        BY <3>2, <3>3 DEF TasksOK
      <3>5. Stable(zone, zone')
        BY <3>2, <3>4, EmptyRecords DEF Stable
      <3>6. \A m \in Sites : k \notin At(zone, m)
        BY <3>2, EmptyRecords DEF At
      <3>7. \A m \in Sites : At(zone, m) \subseteq At(zone', m)
        BY <3>4, <3>6 DEF At
      <3>8. NameNotEmptied /\ RecordsKept
        BY <3>2, <3>4, <3>7 DEF NameNotEmptied, RecordsKept
      <3>9. r.name # Game => NameSame(Game)
        <4>1. Game \in Sites
          BY DEF Sites
        <4>2. r.name # Game => At(zone', Game) = At(zone, Game)
          BY <3>4, <3>6, <4>1 DEF At
        <4>3. \A i \in At(zone, Game) : zone'[i] = zone[i]
          BY <3>4, <3>6, <4>1 DEF At
        <4> QED BY <4>2, <4>3 DEF NameSame
      <3> QED BY <3>3, <3>5, <3>8, <3>9 DEF ControllerOK
    <2> QED BY <2>1, <2>2
  <1>4. TasksOK'
    <2>1. ASSUME NEW d \in Clients PROVE TaskOK(zone', client'[d])
      <3>1. TaskOK(zone', [client[d] EXCEPT !.alone = FALSE])
        BY <1>3, DisturbedOK DEF TasksOK
      <3> QED BY <1>2, <3>1
    <2> QED BY <1>2, <1>3, <2>1 DEF TasksOK, Stable
  <1>5. u.pc = t.pc /\ u.todo = t.todo /\ u.alone = FALSE
    BY <1>2 DEF TasksOK, TaskOK, IsTask, NoTask, Clients
  <1>6. sure' => Claim'
    BY <1>1, <1>3, ClaimKept DEF ControllerOK
  <1>7. ControllerOK'
    BY <1>3, <1>5, <1>6 DEF ControllerOK, InTask
  <1> QED BY <1>3, <1>4, <1>7

\* Nobody does anything, and nothing is sure.
LEMMA DnsInitOK == DnsInit => TasksOK /\ ControllerOK
  <1> SUFFICES ASSUME DnsInit PROVE TasksOK /\ ControllerOK
    OBVIOUS
  <1>1. DOMAIN zone = Slot
    BY DnsBoundsAssumption DEF DnsInit
  <1>2. client = [c \in Clients |-> NoTask] /\ sure = FALSE
    BY DEF DnsInit
  <1>3. TasksOK
    BY <1>1, <1>2, NoTaskOK DEF TasksOK
  <1>4. ControllerOK
    BY <1>2, NoTaskOK DEF ControllerOK, InTask, Clients
  <1> QED BY <1>3, <1>4

\* Every step of the zone's.
LEMMA DnsStep ==
    TasksOK /\ ControllerOK /\ [DnsNext]_dnsVars =>
        TasksOK' /\ ControllerOK' /\ [NameNotEmptied /\ RecordsKept]_dnsVars
  <1> SUFFICES ASSUME TasksOK, ControllerOK, [DnsNext]_dnsVars
               PROVE  TasksOK' /\ ControllerOK' /\ [NameNotEmptied /\ RecordsKept]_dnsVars
    OBVIOUS
  <1>1. CASE UNCHANGED dnsVars
    BY <1>1 DEF dnsVars, TasksOK, ControllerOK, Claim, Points, At, InTask
  <1>2. CASE \E c \in Clients : \/ RecordStep(c) \/ ListDoomed(c)
                                \/ ReadSetting(c) \/ PatchSetting(c) \/ ClearRules(c) \/ ReadRules(c) \/ PutRules(c)
    BY <1>2, ClientStep
  <1>3. CASE \E a \in Addr, p \in Port : SyncController(a, p)
    <2>1. PICK a \in Addr, p \in Port : SyncController(a, p)
      BY <1>3
    <2> DEFINE todo == Stages(CHOOSE s \in HostSeqs : TRUE)
    <2>2. todo \in Seq(Steps \ {"clear"}) /\ todo # <<>>
      BY StagesHave
    <2>3. OperatorAsks(Task(todo, a, p))
      BY <2>1 DEF SyncController
    <2> HIDE DEF todo
    <2>4. TaskOK(zone, Task(todo, a, p))
      BY <2>2, SyncTask
    <2> QED BY <2>3, <2>4, OperatorStep
  <1>4. CASE \E a \in Addr : SyncGame(a)
    <2>1. PICK a \in Addr : SyncGame(a)
      BY <1>4
    <2>2. TaskOK(zone, Task(<<Game>>, a, 0))
      BY GameTask
    <2> QED BY <2>1, <2>2, OperatorStep DEF SyncGame
  <1>5. CASE ClearGame
    <2>1. TaskOK(zone, Task(<<"clear">>, NoAddr, 0))
      BY ClearTask
    <2> QED BY <1>5, <2>1, OperatorStep DEF ClearGame
  <1>6. CASE (\E a \in Addr : Deployed(a)) \/ Closes \/ ServerLost \/ ControllerDies
    BY <1>6, DriverStep
  <1>7. CASE (\E r \in ByHand : EditRecord(r)) \/ (\E seq \in OldRules : EditRules(seq))
    BY <1>7, EditStep
  <1> QED BY <1>1, <1>2, <1>3, <1>4, <1>5, <1>6, <1>7 DEF DnsNext

\* The game's name and the server agree whenever the controller's last task ended well,
\* whatever the operator does to the other names at the same time and however requests
\* fail: the name is the running server's address and no other, and without a server
\* it is nobody's (SyncGame, ClearGame, and the driver's order of close and clear).
THEOREM NameFollowsTheServer == DnsSpec => []NameFollowsServer
  <1>1. TasksOK /\ ControllerOK => NameFollowsServer
    BY DEF ControllerOK, Claim, NameFollowsServer
  <1> QED BY <1>1, DnsInitOK, DnsStep, PTL DEF DnsSpec

-----------------------------------------------------------------------------
(* The origin rules.                                                       *)

\* A rule somebody has set, or one of ours.
Rule == (UNION {{seq[i] : i \in DOMAIN seq} : seq \in OldRules}) \cup {Route(p) : p \in Port}

\* Theirs are none of ours, and are theirs for good.
LEMMA TheirsOnly ==
    ASSUME NEW seq \in Seq(Rule)
    PROVE  /\ Theirs(seq) \in Seq(Rule) /\ Mine(Theirs(seq)) = <<>> /\ Theirs(Theirs(seq)) = Theirs(seq)
           /\ \A i \in DOMAIN Theirs(seq) : ~ours(Theirs(seq)[i])
  <1> DEFINE S == {i \in DOMAIN seq : ~ours(seq[i])}
             k == Kept(seq, S)
             A == {i \in DOMAIN k : ours(k[i])}
             B == {i \in DOMAIN k : ~ours(k[i])}
  <1>1. k \in Seq(Rule) /\ \A j \in 1..Len(k) : \E i \in S \cap DOMAIN seq : k[j] = seq[i]
    <2> HIDE DEF S
    <2> QED BY KeptType
  <1>2. \A j \in DOMAIN k : ~ours(k[j])
    <2> HIDE DEF k
    <2>1. DOMAIN k = 1..Len(k)
      BY <1>1
    <2>2. ASSUME NEW j \in DOMAIN k PROVE ~ours(k[j])
      <3>1. PICK i \in S : k[j] = seq[i]
        BY <1>1, <2>1
      <3> QED BY <3>1
    <2> QED BY <2>2
  <1> HIDE DEF S, k
  <1>3. A \cap DOMAIN k = {} /\ DOMAIN k \subseteq B
    BY <1>2
  <1> HIDE DEF A, B
  <1>4. Kept(k, A) = <<>>
    BY <1>1, <1>3, KeptNone
  <1>5. Kept(k, B) = k
    BY <1>1, <1>3, KeptAll
  <1>6. k = Theirs(seq)
    BY DEF Theirs, k, S
  <1>7. Kept(k, A) = Mine(k) /\ Kept(k, B) = Theirs(k)
    BY DEF Mine, Theirs, A, B
  <1> QED BY <1>1, <1>2, <1>4, <1>5, <1>6, <1>7

\* What is to be written has one rule of ours, in front, or none, and theirs as they were.
LEMMA MergedIs ==
    ASSUME NEW seq \in Seq(Rule), NEW p \in Port, NEW new, new = Merged(seq, p)
    PROVE  /\ new \in Seq(Rule) /\ Theirs(new) = Theirs(seq)
           /\ Mine(new) = IF p \in Plain THEN <<>> ELSE <<Route(p)>>
           /\ p \in Plain \/ new[1] = Route(p)
  <1> DEFINE t == Theirs(seq)
             r == Route(p)
  <1>1. /\ t \in Seq(Rule) /\ Mine(t) = <<>> /\ Theirs(t) = t
        /\ \A i \in DOMAIN t : ~ours(t[i])
    BY TheirsOnly
  <1>2. r \in Rule /\ ours(r)
    <2>1. r \in {Route(q) : q \in Port}
      OBVIOUS
    <2>2. r.by = "pzctl"
      BY DEF Route
    <2> QED BY <2>1, <2>2 DEF Rule, ours
  <1> HIDE DEF t, r
  <1>3. CASE p \in Plain
    BY <1>1, <1>3 DEF Merged, t
  <1>4. CASE p \notin Plain
    <2> DEFINE A == {i \in DOMAIN new : ours(new[i])}
               B == {i \in DOMAIN new : ~ours(new[i])}
    <2>1. new = <<r>> \o t
      BY <1>4 DEF Merged, t, r
    <2>2. /\ new \in Seq(Rule) /\ Len(new) = Len(t) + 1 /\ Len(t) \in Nat /\ new[1] = r /\ DOMAIN new = 1..Len(new)
          /\ \A i \in 1..Len(t) : new[i + 1] = t[i]
      BY <1>1, <1>2, <2>1
    <2>3. 1 \in A /\ 1 \notin B /\ new # <<>>
      BY <1>2, <2>2
    <2>4. \A i \in DOMAIN t : i + 1 \in B
      <3> TAKE i \in DOMAIN t
      <3>1. i \in 1..Len(t) /\ i + 1 \in DOMAIN new /\ new[i + 1] = t[i]
        BY <1>1, <2>2
      <3> QED BY <1>1, <3>1
    <2>5. \A i \in 2..Len(new) : i \notin A
      <3> TAKE i \in 2..Len(new)
      <3>1. i - 1 \in DOMAIN t /\ (i - 1) + 1 = i
        BY <1>1, <2>2
      <3> QED BY <2>4, <3>1
    <2> HIDE DEF A, B
    <2>6. Kept(new, A) = <<r>>
      BY <2>2, <2>3, <2>5, KeptFirst
    <2>7. Kept(new, B) = t
      BY <1>1, <1>2, <2>1, <2>3, <2>4, KeptBehind
    <2>8. Mine(new) = <<r>> /\ Theirs(new) = t
      BY <2>6, <2>7 DEF Mine, Theirs, A, B
    <2> QED BY <1>4, <2>2, <2>8 DEF t, r
  <1> QED BY <1>3, <1>4

\* And rules that are as they should be have that already.
LEMMA AsWantedIs ==
    ASSUME NEW seq \in Seq(Rule), NEW p \in Port, AsWanted(seq, p)
    PROVE  /\ Mine(seq) = IF p \in Plain THEN <<>> ELSE <<Route(p)>>
           /\ p \in Plain \/ seq[1] = Route(p)
  <1>1. CASE p \in Plain
    BY <1>1 DEF AsWanted
  <1>2. CASE p \notin Plain
    <2> DEFINE A == {i \in DOMAIN seq : ours(seq[i])}
               k == Kept(seq, A)
    <2>1. Len(k) = 1 /\ seq[1] = Route(p)
      BY <1>2 DEF AsWanted, Mine
    <2>2. k \in Seq(Rule) /\ Len(k) <= Len(seq)
      <3> HIDE DEF A
      <3> QED BY KeptType
    <2>3. seq # <<>> /\ 1 \in DOMAIN seq
      BY <2>1, <2>2
    <2>4. 1 \in A
      BY <2>1, <2>3 DEF Route, ours
    <2> HIDE DEF A, k
    <2>5. k[1] = seq[1]
      BY <2>3, <2>4, KeptFirst DEF k
    <2>6. k = <<Route(p)>>
      BY <2>1, <2>2, <2>5
    <2> QED BY <1>2, <2>1, <2>6 DEF Mine, k, A
  <1> QED BY <1>1, <1>2

-----------------------------------------------------------------------------
(* What the operator's task has done so far.                               *)

\* A name is still to be brought about, or has the right address and no other; what
\* is not yet as dns: says is still to be set; and the rules come last.
Todo(t) == {t.todo[i] : i \in DOMAIN t.todo}
Syncs(t) == t.pc # "idle" /\ t.addr # NoAddr /\ t.port # 0
HostsSoFar(t) == t.ok /\ t.alone => \A n \in Host : n \in Todo(t) \/ Points(zone, n, t)
SettingSoFar(t) == t.ok /\ Proxied => setting \/ "settings" \in Todo(t)
OperatorOK ==
    LET t == client["operator"] IN
    /\ rules \in Seq(Rule) /\ t.read \in Seq(Rule) /\ edits \in Nat /\ t.port \in Port \cup {0}
    /\ t.pc # "idle" /\ t.addr # NoAddr /\ t.port = 0 => t.todo = <<Game>>
    /\ Syncs(t) => /\ Proxied => t.todo[Len(t.todo)] = "origin"
                   /\ HostsSoFar(t) /\ SettingSoFar(t)

\* A name that is not touched still points where it did.
LEMMA PointsKept ==
    ASSUME NEW n, NameSame(n), NEW t, NEW u, u.addr = t.addr
    PROVE  Points(zone, n, t) => Points(zone', n, u)
  <1> SUFFICES ASSUME NEW i \in Slot, At(zone, n) = {i}, zone[i] = Wanted(t, n) PROVE Points(zone', n, u)
    BY DEF Points
  <1>1. Wanted(u, n) = Wanted(t, n)
    BY DEF Wanted
  <1>2. At(zone', n) = {i} /\ zone'[i] = Wanted(u, n)
    BY <1>1 DEF NameSame
  <1> QED BY <1>2 DEF Points

\* A stage that has more to do changes its own name at most.
LEMMA StageGoesOn ==
    ASSUME TasksOK, OperatorOK, InTask("operator"), NEW t, t = client["operator"], NEW u, u = client'["operator"],
           u.pc # "idle", u.todo = t.todo, u.addr = t.addr, u.port = t.port, u.alone = t.alone, u.ok = t.ok,
           u.read \in Seq(Rule), rules' \in Seq(Rule), edits' \in Nat, setting => setting',
           \A n \in Host : n # Head(t.todo) => NameSame(n)
    PROVE  OperatorOK' /\ EndsRight
  <1>1. EndsRight
    BY DEF EndsRight
  <1>2. Todo(u) = Todo(t)
    BY DEF Todo
  <1>3. Head(t.todo) \in Todo(t)
    <2>1. t.todo \in Seq(Steps) /\ t.todo # <<>>
      BY DEF TasksOK, TaskOK, Aim, Clients, InTask
    <2> QED BY <2>1 DEF Todo
  <1>4. HostsSoFar(t) => HostsSoFar(u)'
    <2> SUFFICES ASSUME HostsSoFar(t), u.ok, u.alone, NEW n \in Host PROVE n \in Todo(u) \/ Points(zone', n, u)
      BY DEF HostsSoFar
    <2>1. n = Head(t.todo) \/ NameSame(n)
      OBVIOUS
    <2> QED BY <1>2, <1>3, <2>1, PointsKept DEF HostsSoFar
  <1>5. SettingSoFar(t) => SettingSoFar(u)'
    BY <1>2 DEF SettingSoFar
  <1>6. OperatorOK'
    BY <1>4, <1>5 DEF OperatorOK, Syncs, InTask
  <1> QED BY <1>1, <1>6

\* What a stage that ends well leaves behind: its name's one address, the settings, or
\* one rule of ours.
StageDone(t) ==
    /\ UNCHANGED zone
    /\ t.alone /\ Head(t.todo) \in Sites => Points(zone, Head(t.todo), t)
    /\ Head(t.todo) = "settings" => setting'
    /\ Head(t.todo) = "origin" =>
         /\ Mine(rules') = (IF t.port \in Plain THEN <<>> ELSE <<Route(t.port)>>)
         /\ t.port \in Plain \/ rules'[1] = Route(t.port)

\* A stage ends: what is left to do is what was, but for it.
LEMMA StageEnds ==
    ASSUME TasksOK, OperatorOK, InTask("operator"), NEW t, t = client["operator"], t.addr # NoAddr,
           NEW ok \in BOOLEAN, NEW u, u = Onward(t, ok), u = client'["operator"],
           rules' \in Seq(Rule), edits' \in Nat, setting => setting', ok => StageDone(t)
    PROVE  OperatorOK' /\ EndsRight
  <1>1. /\ t.todo \in Seq(Steps) /\ t.todo # <<>> /\ IsTask(t)
        /\ t.port \in Port \cup {0} /\ (t.port = 0 => t.todo = <<Game>>)
        /\ Syncs(t) => /\ Proxied => t.todo[Len(t.todo)] = "origin"
                       /\ HostsSoFar(t) /\ SettingSoFar(t)
    BY DEF TasksOK, TaskOK, Aim, Clients, InTask, OperatorOK
  <1>2. /\ u.todo = Tail(t.todo) /\ u.pc = (IF Len(t.todo) = 1 THEN "idle" ELSE "read")
        /\ u.addr = t.addr /\ u.alone = t.alone /\ u.ok = (t.ok /\ ok) /\ u.port = t.port /\ u.read = <<>>
    BY <1>1, OnwardIs DEF Onward, NoTask, IsTask
  <1>3. Len(t.todo) \in Nat /\ Len(t.todo) # 0 /\ Todo(t) = Todo(u) \cup {Head(t.todo)}
    <2>1. Len(t.todo) \in Nat /\ Len(t.todo) # 0 /\ DOMAIN t.todo = 1..Len(t.todo) /\ Head(t.todo) = t.todo[1]
      BY <1>1
    <2>2. DOMAIN u.todo = 1..(Len(t.todo) - 1) /\ \A i \in 1..(Len(t.todo) - 1) : u.todo[i] = t.todo[i + 1]
      BY <1>1, <1>2
    <2>3. \A i \in 1..Len(t.todo) : i = 1 \/ (i - 1 \in 1..(Len(t.todo) - 1) /\ (i - 1) + 1 = i)
      BY <2>1
    <2>4. \A i \in 1..(Len(t.todo) - 1) : i + 1 \in 1..Len(t.todo)
      BY <2>1
    <2>5. 1 \in 1..Len(t.todo)
      BY <2>1
    <2>6. ASSUME NEW i \in 1..Len(t.todo) PROVE t.todo[i] \in Todo(u) \cup {Head(t.todo)}
      <3>1. CASE i = 1
        BY <2>1, <3>1
      <3>2. CASE i - 1 \in 1..(Len(t.todo) - 1) /\ (i - 1) + 1 = i
        <4>1. u.todo[i - 1] = t.todo[i] /\ i - 1 \in DOMAIN u.todo
          BY <2>2, <3>2
        <4> QED BY <4>1 DEF Todo
      <3> QED BY <2>3, <3>1, <3>2
    <2>7. ASSUME NEW i \in DOMAIN u.todo PROVE u.todo[i] \in Todo(t)
      <3>1. u.todo[i] = t.todo[i + 1] /\ i + 1 \in DOMAIN t.todo
        BY <2>1, <2>2, <2>4
      <3> QED BY <3>1 DEF Todo
    <2>8. Head(t.todo) \in Todo(t)
      BY <2>1, <2>5 DEF Todo
    <2>9. \A x \in Todo(t) : x \in Todo(u) \cup {Head(t.todo)}
      BY <2>1, <2>6 DEF Todo
    <2>10. \A x \in Todo(u) : x \in Todo(t)
      BY <2>7 DEF Todo
    <2> QED BY <2>1, <2>8, <2>9, <2>10
  <1>4. t.port # 0 /\ HostsSoFar(t) => HostsSoFar(u)'
    <2> SUFFICES ASSUME HostsSoFar(t), u.ok, u.alone, NEW n \in Host PROVE n \in Todo(u) \/ Points(zone', n, u)
      BY DEF HostsSoFar
    <2>1. ok /\ t.ok /\ t.alone
      BY <1>1, <1>2 DEF IsTask
    <2>2. StageDone(t) /\ UNCHANGED zone
      BY <2>1 DEF StageDone
    <2>3. n \in Todo(u) \/ n = Head(t.todo) \/ Points(zone, n, t)
      BY <1>3, <2>1 DEF HostsSoFar
    <2>4. n \in Todo(u) \/ Points(zone, n, t)
      BY <2>1, <2>2, <2>3 DEF StageDone, Sites
    <2>5. NameSame(n)
      BY <2>2 DEF NameSame, At
    <2> QED BY <1>2, <2>4, <2>5, PointsKept
  <1>5. SettingSoFar(t) => SettingSoFar(u)'
    <2> SUFFICES ASSUME SettingSoFar(t), u.ok, Proxied PROVE setting' \/ "settings" \in Todo(u)
      BY DEF SettingSoFar
    <2>1. ok /\ t.ok
      BY <1>1, <1>2 DEF IsTask
    <2> QED BY <1>3, <2>1 DEF SettingSoFar, StageDone
  <1>6. OperatorOK'
    <2>1. u.read \in Seq(Rule)
      BY <1>2
    <2>2. u.pc # "idle" => u.port # 0
      <3>1. Len(<<Game>>) = 1
        OBVIOUS
      <3> QED BY <1>1, <1>2, <3>1
    <2>3. Syncs(u) => Syncs(t) /\ Len(t.todo) # 1
      BY <1>2 DEF Syncs, InTask
    <2>4. Syncs(u) /\ Proxied => u.todo[Len(u.todo)] = "origin"
      <3> SUFFICES ASSUME Syncs(u), Proxied PROVE u.todo[Len(u.todo)] = "origin"
        OBVIOUS
      <3>1. t.todo[Len(t.todo)] = "origin"
        BY <1>1, <2>3
      <3>2. Len(u.todo) = Len(t.todo) - 1 /\ Len(t.todo) - 1 \in 1..(Len(t.todo) - 1)
        <4>1. Len(t.todo) # 1 /\ u.todo = Tail(t.todo)
          BY <1>2, <2>3
        <4>2. Len(u.todo) = Len(t.todo) - 1
          BY <1>1, <4>1
        <4>3. \A m \in Nat : m # 0 /\ m # 1 => m - 1 \in 1..(m - 1)
          OBVIOUS
        <4> QED BY <1>3, <4>1, <4>2, <4>3, Zenon
      <3>3. u.todo[Len(t.todo) - 1] = t.todo[(Len(t.todo) - 1) + 1]
        BY <1>1, <1>2, <3>2
      <3>4. (Len(t.todo) - 1) + 1 = Len(t.todo)
        BY <1>3
      <3> QED BY <3>1, <3>2, <3>3, <3>4
    <2> HIDE DEF Syncs, HostsSoFar, SettingSoFar
    <2>5. /\ u.port \in Port \cup {0}
          /\ Syncs(u) => HostsSoFar(u)' /\ SettingSoFar(u)'
      BY <1>1, <1>2, <1>4, <1>5, <2>3 DEF Syncs
    <2> QED BY <2>1, <2>2, <2>4, <2>5 DEF OperatorOK, Syncs, HostsSoFar, SettingSoFar
  <1>7. EndsRight
    <2> SUFFICES ASSUME u.pc = "idle", u.ok, t.alone
                 PROVE  IF t.port = 0 THEN Points(zone', Game, t)
                        ELSE /\ \A n \in Host : Points(zone', n, t)
                             /\ Proxied => /\ setting'
                                           /\ Mine(rules') = (IF t.port \in Plain THEN <<>> ELSE <<Route(t.port)>>)
                                           /\ t.port \in Plain \/ rules'[1] = Route(t.port)
      BY DEF EndsRight
    <2>1. ok /\ t.ok /\ Len(t.todo) = 1 /\ StageDone(t)
      BY <1>1, <1>2 DEF IsTask
    <2>2. Head(t.todo) = t.todo[1] /\ u.todo = <<>>
      <3>1. u.todo \in Seq(Steps) /\ Len(u.todo) = 0
        BY <1>1, <1>2, <2>1
      <3> QED BY <1>1, <3>1
    <2>3. Todo(u) = {}
      BY <2>2 DEF Todo
    <2>4. CASE t.port = 0
      <3>1. Head(t.todo) = Game
        BY <1>1, <2>4
      <3>2. Points(zone, Game, t)
        BY <2>1, <3>1 DEF StageDone, Sites
      <3>3. NameSame(Game)
        BY <2>1 DEF StageDone, NameSame, At
      <3> QED BY <2>4, <3>2, <3>3, PointsKept
    <2>5. CASE t.port # 0
      <3>1. Syncs(t)
        BY <2>5 DEF Syncs, InTask
      <3>2. ASSUME NEW n \in Host PROVE Points(zone', n, t)
        <4>1. Points(zone', n, u)
          BY <1>1, <1>2, <1>4, <2>3, <2>5, <3>1 DEF HostsSoFar
        <4>2. Wanted(u, n) = Wanted(t, n)
          BY <1>2 DEF Wanted
        <4> QED BY <4>1, <4>2 DEF Points
      <3>3. Proxied => setting'
        BY <1>1, <1>5, <2>3, <3>1 DEF SettingSoFar
      <3>4. Proxied => Head(t.todo) = "origin"
        BY <1>1, <2>1, <2>2, <3>1
      <3> QED BY <2>1, <2>5, <3>2, <3>3, <3>4 DEF StageDone
    <2> QED BY <2>4, <2>5
  <1> QED BY <1>6, <1>7

\* One record of a name's is put or deleted: no other name's is touched.
LEMMA OneRecord ==
    ASSUME DOMAIN zone = Slot, NEW k \in Slot, NEW r, zone' = [zone EXCEPT ![k] = r], NEW n \in Sites,
           r = Gone \/ r.name = n, zone[k] = NoRecord \/ Held(zone[k], n)
    PROVE  \A m \in Sites \ {n} : NameSame(m)
  <1>1. zone'[k] = r /\ DOMAIN zone' = Slot /\ \A i \in Slot \ {k} : zone'[i] = zone[i]
    OBVIOUS
  <1>2. \A m \in Sites \ {n} : k \notin At(zone, m) /\ k \notin At(zone', m)
    BY <1>1, EmptyRecords DEF At, Held
  <1>3. \A m \in Sites \ {n} : At(zone', m) = At(zone, m) /\ At(zone, m) \subseteq Slot
    BY <1>1, <1>2 DEF At
  <1> QED BY <1>1, <1>2, <1>3 DEF NameSame

\* What a step of the operator's is to its task: the stage has more to do, or it ends.
Stays(t, u) ==
    /\ u.pc # "idle" /\ (t.addr = NoAddr \/ u.todo = t.todo)
    /\ u.addr = t.addr /\ u.port = t.port /\ u.alone = t.alone /\ u.ok = t.ok /\ u.read \in Seq(Rule)
    /\ \A n \in Host : n # Head(t.todo) => NameSame(n)
StageOver(t, u) == \E ok \in BOOLEAN : u = Onward(t, ok) /\ (ok /\ t.addr # NoAddr => StageDone(t))
StageStep ==
    /\ Stays(client["operator"], client'["operator"]) \/ StageOver(client["operator"], client'["operator"])
    /\ rules' \in Seq(Rule) /\ UNCHANGED edits /\ (setting => setting') /\ RulesKept

\* Such a step keeps what the task has done so far.
LEMMA StageStepKept ==
    ASSUME TasksOK, OperatorOK, InTask("operator"), StageStep
    PROVE  OperatorOK' /\ EndsRight
  <1> DEFINE t == client["operator"]
             u == client'["operator"]
  <1>1. IsTask(t) /\ t.port \in Port \cup {0} /\ edits' \in Nat /\ rules' \in Seq(Rule)
    BY DEF TasksOK, TaskOK, OperatorOK, Clients, StageStep
  <1>2. ASSUME NEW ok \in BOOLEAN, u = Onward(t, ok) PROVE u.addr = t.addr /\ u.port = t.port /\ u.read \in Seq(Rule)
    <2>1. u.addr = t.addr /\ u.port = t.port /\ u.read = <<>>
      BY <1>1, <1>2 DEF Onward, IsTask, NoTask
    <2> QED BY <2>1
  <1>3. u.addr = t.addr /\ u.port = t.port /\ u.read \in Seq(Rule)
    BY <1>2 DEF StageStep, Stays, StageOver
  <1>4. CASE t.addr = NoAddr
    <2>1. OperatorOK'
      <3>1. u.addr = NoAddr /\ u.port \in Port \cup {0}
        BY <1>1, <1>3, <1>4
      <3> HIDE DEF t
      <3> QED BY <1>1, <1>3, <3>1 DEF OperatorOK, Syncs
    <2> QED BY <1>4, <2>1 DEF EndsRight
  <1>5. CASE t.addr # NoAddr /\ Stays(t, u)
    BY <1>1, <1>5, StageGoesOn DEF Stays, StageStep
  <1>6. CASE t.addr # NoAddr /\ StageOver(t, u)
    <2>1. PICK ok \in BOOLEAN : u = Onward(t, ok) /\ (ok => StageDone(t))
      BY <1>6 DEF StageOver
    <2> QED BY <1>1, <1>6, <2>1, StageEnds DEF StageStep
  <1> QED BY <1>4, <1>5, <1>6 DEF StageStep

\* A step of somebody else's keeps it too.
LEMMA OperatorKept ==
    ASSUME TasksOK, OperatorOK, NEW t, t = client["operator"], NEW u, u = client'["operator"],
           (u = t /\ UNCHANGED zone) \/ u = [t EXCEPT !.alone = FALSE],
           rules' \in Seq(Rule), edits' \in Nat, setting => setting'
    PROVE  OperatorOK' /\ EndsRight
  <1>1. IsTask(t)
    BY DEF TasksOK, TaskOK, Clients
  <1>2. /\ u.pc = t.pc /\ u.todo = t.todo /\ u.addr = t.addr /\ u.port = t.port /\ u.ok = t.ok /\ u.read = t.read
        /\ u.alone => t.alone /\ UNCHANGED zone
    BY <1>1 DEF IsTask, NoTask
  <1>3. EndsRight
    BY <1>2 DEF EndsRight, InTask
  <1>4. Todo(u) = Todo(t) /\ Syncs(u) = Syncs(t)
    BY <1>2 DEF Todo, Syncs
  <1>5. HostsSoFar(t) => HostsSoFar(u)'
    <2> SUFFICES ASSUME HostsSoFar(t), u.ok, u.alone, NEW n \in Host PROVE n \in Todo(u) \/ Points(zone', n, u)
      BY DEF HostsSoFar
    <2>1. NameSame(n)
      BY <1>2 DEF NameSame, At
    <2> QED BY <1>2, <1>4, <2>1, PointsKept DEF HostsSoFar
  <1>6. SettingSoFar(t) => SettingSoFar(u)'
    BY <1>2, <1>4 DEF SettingSoFar
  <1>7. OperatorOK'
    <2> HIDE DEF HostsSoFar, SettingSoFar, Syncs
    <2> QED BY <1>2, <1>4, <1>5, <1>6 DEF OperatorOK
  <1> QED BY <1>3, <1>7

\* The operator's own steps at a name.
LEMMA OperatorRecords ==
    ASSUME TasksOK, OperatorOK, NEW n \in Sites,
           ListRecords("operator", n) \/ WriteRecord("operator", n) \/ DeleteRecord("operator", n)
    PROVE  StageStep
  <1> DEFINE c == "operator"
             t == client[c]
             u == client'[c]
  <1>1. /\ TaskOK(zone, t) /\ InTask(c) /\ Head(t.todo) = n /\ IsTask(t) /\ DOMAIN zone = Slot /\ Aim(t)
        /\ UNCHANGED <<rules, setting, edits>> /\ rules \in Seq(Rule) /\ t.read \in Seq(Rule)
    <2>1. /\ TaskOK(zone, t) /\ InTask(c) /\ Head(t.todo) = n /\ DOMAIN zone = Slot
          /\ UNCHANGED <<rules, setting, edits>> /\ rules \in Seq(Rule) /\ t.read \in Seq(Rule)
      BY DEF ListRecords, WriteRecord, DeleteRecord, TasksOK, On, Clients, OperatorOK
    <2> QED BY <2>1 DEF TaskOK, InTask
  <1>2. \A v : Goes(c, v) \/ Writes(c, v) => u = v
    BY DEF Goes, Writes, Disturbs, TasksOK, Clients
  <1>3. RulesKept /\ rules' \in Seq(Rule) /\ UNCHANGED edits /\ (setting => setting')
    BY <1>1 DEF RulesKept
  <1>4. ASSUME u = Onward(t, FALSE) PROVE StageStep
    BY <1>3, <1>4 DEF StageStep, StageOver
  <1>5. ASSUME NEW v, Goes(c, v) \/ Writes(c, v),
               v.pc \in {"write", "prune"}, v.todo = t.todo, v.addr = t.addr, v.port = t.port,
               v.alone = t.alone, v.ok = t.ok, v.read = t.read, \A m \in Sites \ {n} : NameSame(m)
        PROVE  StageStep
    <2>1. Stays(t, u)
      BY <1>1, <1>2, <1>5 DEF Stays, Sites
    <2> QED BY <1>3, <2>1 DEF StageStep
  <1>6. UNCHANGED zone => \A m : NameSame(m)
    BY DEF NameSame, At
  <1>7. CASE ListRecords(c, n)
    <2>1. UNCHANGED zone
      BY <1>7 DEF ListRecords
    <2>2. CASE Goes(c, [t EXCEPT !.pc = "write"])
      BY <1>1, <1>5, <1>6, <2>1, <2>2 DEF IsTask, NoTask
    <2>3. ASSUME NEW i, NEW pc \in {"write", "prune"}, NEW D, Goes(c, [t EXCEPT !.pc = pc, !.keep = i, !.doomed = D])
          PROVE  StageStep
      BY <1>1, <1>5, <1>6, <2>1, <2>3 DEF IsTask, NoTask
    <2>4. CASE Goes(c, Onward(t, FALSE))
      BY <1>2, <1>4, <2>4
    <2> QED BY <1>7, <2>2, <2>3, <2>4 DEF ListRecords
  <1>8. CASE WriteRecord(c, n)
    <2>1. CASE Goes(c, Onward(t, FALSE)) \/ Writes(c, Onward(t, FALSE))
      BY <1>2, <1>4, <2>1
    <2>2. ASSUME NEW k \in Slot, zone[k] = NoRecord \/ Held(zone[k], n), zone' = [zone EXCEPT ![k] = Wanted(t, n)],
                 Writes(c, [t EXCEPT !.pc = "prune"])
          PROVE  StageStep
      <3>1. Wanted(t, n).name = n
        BY DEF Wanted
      <3>2. \A m \in Sites \ {n} : NameSame(m)
        BY <1>1, <2>2, <3>1, OneRecord
      <3> QED BY <1>1, <1>5, <2>2, <3>2 DEF IsTask, NoTask
    <2>3. t.keep # 0 => t.keep \in Slot /\ Held(zone[t.keep], n)
      <3>1. t.pc = "write"
        BY <1>8 DEF WriteRecord
      <3> QED BY <1>1, <3>1 DEF TaskOK, InHand, AtHand
    <2>4. CASE Unused # {} /\ zone' = [zone EXCEPT ![NewId] = Wanted(t, n)] /\ Writes(c, [t EXCEPT !.pc = "prune"])
      <3>1. NewId \in Slot /\ zone[NewId] = NoRecord
        BY <2>4, NewIdIs
      <3> QED BY <2>2, <2>4, <3>1
    <2>5. CASE t.keep # 0 /\ zone' = [zone EXCEPT ![t.keep] = Wanted(t, n)] /\ Writes(c, [t EXCEPT !.pc = "prune"])
      BY <2>2, <2>3, <2>5
    <2> QED BY <1>8, <2>1, <2>4, <2>5 DEF WriteRecord, Request
  <1>9. CASE DeleteRecord(c, n)
    <2>0. t.pc = "prune"
      BY <1>9 DEF DeleteRecord
    <2>1. CASE Goes(c, Onward(t, FALSE)) \/ Writes(c, Onward(t, FALSE))
      BY <1>2, <1>4, <2>1
    <2>2. CASE t.doomed = {} /\ Goes(c, Onward(t, TRUE)) /\ UNCHANGED zone
      <3>1. u = Onward(t, TRUE)
        BY <1>2, <2>2
      <3>2. t.addr # NoAddr => StageDone(t)
        <4> SUFFICES ASSUME t.addr # NoAddr PROVE StageDone(t)
          OBVIOUS
        <4>1. t.alone => Points(zone, n, t)
          <5> SUFFICES ASSUME t.alone PROVE Points(zone, n, t)
            OBVIOUS
          <5>1. Halfway(zone, t, n)
            BY <1>1, <2>0 DEF TaskOK, InHand
          <5>2. PICK i \in Slot : At(zone, n) = {} \cup {i} /\ zone[i] = Wanted(t, n)
            BY <2>0, <2>2, <5>1 DEF Halfway
          <5>3. At(zone, n) = {i} /\ zone[i] = Wanted(t, n)
            BY <5>2
          <5> QED BY <5>3 DEF Points
        <4>2. Head(t.todo) \notin {"settings", "origin"}
          BY <1>1, ZoneAssumption DEF StageNames
        <4> QED BY <1>1, <2>2, <4>1, <4>2 DEF StageDone
      <3> QED BY <1>3, <3>1, <3>2 DEF StageStep, StageOver
    <2>3. ASSUME NEW i \in t.doomed, zone' = [zone EXCEPT ![i] = Gone], Writes(c, [t EXCEPT !.doomed = t.doomed \ {i}])
          PROVE  StageStep
      <3>1. i \in Slot /\ Held(zone[i], n)
        BY <1>1, <2>0 DEF TaskOK, InHand, AtHand
      <3>2. \A m \in Sites \ {n} : NameSame(m)
        BY <1>1, <2>3, <3>1, OneRecord
      <3> DEFINE D == t.doomed \ {i}
                 v == [t EXCEPT !.doomed = D]
      <3>3. /\ v.pc = "prune" /\ v.todo = t.todo /\ v.addr = t.addr /\ v.port = t.port
            /\ v.alone = t.alone /\ v.ok = t.ok /\ v.read = t.read
        BY <1>1, <2>0 DEF IsTask, NoTask
      <3>4. Writes(c, v)
        BY <2>3
      <3> HIDE DEF v
      <3> QED BY <1>5, <3>2, <3>3, <3>4
    <2> QED BY <1>9, <2>1, <2>2, <2>3 DEF DeleteRecord, Request
  <1> QED BY <1>7, <1>8, <1>9

\* And at the settings and the rules.
LEMMA OperatorSettings ==
    ASSUME TasksOK, OperatorOK, ~On("controller", "origin"),
           \/ ListDoomed("operator") \/ ReadSetting("operator") \/ PatchSetting("operator")
           \/ ClearRules("operator") \/ ReadRules("operator") \/ PutRules("operator")
    PROVE  StageStep
  <1> DEFINE c == "operator"
             t == client[c]
             u == client'[c]
             h == Head(t.todo)
  <1>1. /\ TaskOK(zone, t) /\ InTask(c) /\ h \in StageNames /\ IsTask(t) /\ Aim(t) /\ UNCHANGED <<zone, edits>>
        /\ rules \in Seq(Rule) /\ t.read \in Seq(Rule) /\ t.port \in Port \cup {0}
        /\ t.addr # NoAddr /\ t.port = 0 => t.todo = <<Game>>
    <2>1. /\ TaskOK(zone, t) /\ InTask(c) /\ h \in StageNames /\ UNCHANGED <<zone, edits>>
          /\ rules \in Seq(Rule) /\ t.read \in Seq(Rule) /\ t.port \in Port \cup {0}
          /\ InTask(c) /\ t.addr # NoAddr /\ t.port = 0 => t.todo = <<Game>>
      BY DEF ListDoomed, ReadSetting, PatchSetting, ClearRules, ReadRules, PutRules, TasksOK, On, Clients,
             OperatorOK, StageNames, InTask
    <2> QED BY <2>1 DEF TaskOK, InTask
  <1>2. \A v : Goes(c, v) \/ Writes(c, v) => u = v
    BY DEF Goes, Writes, Disturbs, TasksOK, Clients
  <1>3. h \notin Sites /\ (h # "clear" => t.addr # NoAddr /\ t.port \in Port)
    <2>1. h \notin Sites /\ h # Game
      BY <1>1, ZoneAssumption DEF Sites
    <2>2. h # "clear" => t.addr # NoAddr
      BY <1>1, <2>1, OneStageTasks, ZoneAssumption DEF Aim
    <2>3. t.addr # NoAddr => t.port \in Port
      BY <1>1, <2>1, OneStageTasks
    <2> QED BY <2>1, <2>2, <2>3
  <1>4. \A m : NameSame(m)
    BY <1>1 DEF NameSame, At
  <1>5. ASSUME NEW v, u = v, v.pc # "idle", v.todo = t.todo \/ t.addr = NoAddr, v.addr = t.addr, v.port = t.port,
               v.alone = t.alone, v.ok = t.ok, v.read \in {t.read, rules}, UNCHANGED <<rules, setting>>
        PROVE  StageStep
    BY <1>1, <1>4, <1>5 DEF StageStep, Stays, RulesKept
  <1>6. ASSUME u = Onward(t, FALSE), rules' \in Seq(Rule), setting => setting', RulesKept PROVE StageStep
    BY <1>1, <1>6 DEF StageStep, StageOver
  <1>7. ASSUME u = Onward(t, TRUE), rules' \in Seq(Rule), setting => setting', RulesKept,
               h = "settings" => setting', h # "clear",
               h = "origin" => /\ Mine(rules') = (IF t.port \in Plain THEN <<>> ELSE <<Route(t.port)>>)
                               /\ t.port \in Plain \/ rules'[1] = Route(t.port)
        PROVE  StageStep
    <2>1. StageDone(t)
      BY <1>1, <1>3, <1>7 DEF StageDone
    <2> QED BY <1>1, <1>7, <2>1 DEF StageStep, StageOver
  <1>8. UNCHANGED rules => RulesKept /\ rules' \in Seq(Rule)
    BY <1>1 DEF RulesKept
  <1>9. CASE ListDoomed(c)
    <2>1. h = "clear" /\ UNCHANGED <<rules, setting>>
      BY <1>9 DEF ListDoomed, On
    <2>2. t.addr = NoAddr
      <3>1. ASSUME t.todo \in Seq(Steps \ {"clear"}), t.todo # <<>> PROVE h # "clear"
        BY <3>1
      <3> QED BY <1>1, <2>1, <3>1 DEF Aim
    <2>3. ASSUME NEW D, Goes(c, [t EXCEPT !.todo = <<Game>>, !.pc = "prune", !.doomed = D]) PROVE StageStep
      BY <1>1, <1>2, <1>5, <2>1, <2>2, <2>3 DEF IsTask, NoTask
    <2>4. CASE Goes(c, Onward(t, FALSE))
      BY <1>2, <1>6, <1>8, <2>1, <2>4
    <2> QED BY <1>9, <2>3, <2>4 DEF ListDoomed
  <1>10. CASE ReadSetting(c)
    <2>1. h = "settings" /\ UNCHANGED <<rules, setting>>
      BY <1>10 DEF ReadSetting, On
    <2>2. CASE setting /\ Goes(c, Onward(t, TRUE))
      BY <1>2, <1>7, <1>8, <2>1, <2>2
    <2>3. CASE Goes(c, [t EXCEPT !.pc = "write"])
      BY <1>1, <1>2, <1>5, <2>1, <2>3 DEF IsTask, NoTask
    <2> QED BY <1>10, <2>2, <2>3 DEF ReadSetting
  <1>11. CASE PatchSetting(c)
    <2>1. h = "settings" /\ UNCHANGED rules /\ (setting => setting')
      <3>1. h = "settings" /\ UNCHANGED rules
        BY <1>11 DEF PatchSetting, On
      <3>2. setting' = TRUE \/ UNCHANGED setting
        BY <1>11 DEF PatchSetting, Request
      <3> QED BY <3>1, <3>2
    <2>2. CASE setting' = TRUE /\ Writes(c, Onward(t, TRUE))
      BY <1>2, <1>7, <1>8, <2>1, <2>2
    <2>3. CASE Goes(c, Onward(t, FALSE)) \/ Writes(c, Onward(t, FALSE))
      BY <1>2, <1>6, <1>8, <2>1, <2>3
    <2> QED BY <1>11, <2>2, <2>3 DEF PatchSetting, Request
  <1>12. CASE ClearRules(c)
    <2>1. h = "redirects" /\ UNCHANGED <<rules, setting>>
      BY <1>12 DEF ClearRules, On
    <2>2. CASE Goes(c, Onward(t, TRUE)) \/ Writes(c, Onward(t, TRUE))
      BY <1>2, <1>7, <1>8, <2>1, <2>2
    <2>3. CASE Goes(c, Onward(t, FALSE)) \/ Writes(c, Onward(t, FALSE))
      BY <1>2, <1>6, <1>8, <2>1, <2>3
    <2> QED BY <1>12, <2>2, <2>3 DEF ClearRules, Request
  <1>13. CASE ReadRules(c)
    <2>1. h = "origin" /\ UNCHANGED <<rules, setting>>
      BY <1>13 DEF ReadRules, On
    <2>2. CASE AsWanted(rules, t.port) /\ Goes(c, Onward(t, TRUE))
      BY <1>1, <1>2, <1>3, <1>7, <1>8, <2>1, <2>2, AsWantedIs
    <2>3. CASE Goes(c, [t EXCEPT !.pc = "write", !.read = rules])
      BY <1>1, <1>2, <1>5, <2>1, <2>3 DEF IsTask, NoTask
    <2>4. CASE Goes(c, Onward(t, FALSE))
      BY <1>2, <1>6, <1>8, <2>1, <2>4
    <2> QED BY <1>13, <2>2, <2>3, <2>4 DEF ReadRules
  <1>14. CASE PutRules(c)
    <2>1. h = "origin" /\ UNCHANGED setting
      BY <1>14 DEF PutRules, On
    <2>2. CASE UNCHANGED rules /\ Goes(c, Onward(t, FALSE))
      BY <1>2, <1>6, <1>8, <2>1, <2>2
    <2>3. CASE rules' = Merged(t.read, t.port) /\ (Writes(c, Onward(t, TRUE)) \/ Writes(c, Onward(t, FALSE)))
      <3>1. /\ rules' \in Seq(Rule) /\ Theirs(rules') = Theirs(t.read)
            /\ Mine(rules') = (IF t.port \in Plain THEN <<>> ELSE <<Route(t.port)>>)
            /\ t.port \in Plain \/ rules'[1] = Route(t.port)
        BY <1>1, <1>3, <2>1, <2>3, MergedIs
      <3>2. RulesKept
        BY <3>1 DEF RulesKept, Clients
      <3> QED BY <1>2, <1>6, <1>7, <2>1, <2>3, <3>1, <3>2
    <2> QED BY <1>14, <2>2, <2>3 DEF PutRules, Request
  <1> QED BY <1>9, <1>10, <1>11, <1>12, <1>13, <1>14

\* A list of rules somebody has set is a list of rules.
LEMMA OldRulesAreRules == \A seq \in OldRules : seq \in Seq(Rule)
  <1> SUFFICES ASSUME NEW seq \in OldRules PROVE seq \in Seq(Rule)
    OBVIOUS
  <1> DEFINE R == {seq[i] : i \in DOMAIN seq}
  <1>1. seq \in Seq(R)
    BY DnsBoundsAssumption
  <1>2. R \subseteq Rule
    BY DEF Rule
  <1> HIDE DEF R
  <1> QED BY <1>1, <1>2, SeqMonotonic

\* A task that is begun has everything still to do.
LEMMA OperatorBegins ==
    ASSUME TasksOK, OperatorOK, NEW t, OperatorAsks(t), t.read = <<>>, t.port \in Port \cup {0},
           t.addr # NoAddr /\ t.port = 0 => t.todo = <<Game>>,
           t.addr # NoAddr /\ t.port # 0 => /\ Host \subseteq Todo(t)
                                            /\ Proxied => "settings" \in Todo(t) /\ t.todo[Len(t.todo)] = "origin"
    PROVE  OperatorOK' /\ EndsRight /\ RulesKept
  <1>1. client'["operator"] = t /\ ~InTask("operator") /\ UNCHANGED <<rules, setting, edits>>
    BY DEF OperatorAsks, TasksOK, Clients
  <1>2. EndsRight /\ RulesKept
    BY <1>1 DEF EndsRight, RulesKept
  <1>3. t.read \in Seq(Rule) /\ rules \in Seq(Rule) /\ edits \in Nat
    BY DEF OperatorOK
  <1>4. ASSUME Syncs(t) PROVE HostsSoFar(t)' /\ SettingSoFar(t)' /\ (Proxied => t.todo[Len(t.todo)] = "origin")
    <2>1. t.addr # NoAddr /\ t.port # 0
      BY <1>4 DEF Syncs
    <2>2. HostsSoFar(t)'
      BY <2>1 DEF HostsSoFar, Todo
    <2>3. SettingSoFar(t)'
      BY <2>1 DEF SettingSoFar, Todo
    <2> HIDE DEF HostsSoFar, SettingSoFar
    <2> QED BY <2>1, <2>2, <2>3
  <1>5. OperatorOK'
    <2> HIDE DEF Syncs, HostsSoFar, SettingSoFar
    <2> QED BY <1>1, <1>3, <1>4 DEF OperatorOK, Syncs
  <1> QED BY <1>2, <1>5

\* The operator's task and the rules are as they should be at every step.
LEMMA OperatorStepOK ==
    TasksOK /\ ControllerOK /\ OperatorOK /\ [DnsNext]_dnsVars =>
        OperatorOK' /\ [EndsRight]_dnsVars /\ [RulesKept]_dnsVars
  <1> SUFFICES ASSUME TasksOK, ControllerOK, OperatorOK, [DnsNext]_dnsVars
               PROVE  OperatorOK' /\ [EndsRight]_dnsVars /\ [RulesKept]_dnsVars
    OBVIOUS
  <1> DEFINE t == client["operator"]
             u == client'["operator"]
  <1>0. rules \in Seq(Rule) /\ edits \in Nat /\ ~On("controller", "origin")
    <2>1. ~On("controller", "origin")
      BY OneStageTasks, ZoneAssumption DEF ControllerOK, On, StageNames, Sites
    <2> QED BY <2>1 DEF OperatorOK
  <1>1. CASE UNCHANGED dnsVars
    BY <1>1 DEF dnsVars, OperatorOK, Syncs, HostsSoFar, SettingSoFar, Points, At
  <1>2. ASSUME (u = t /\ UNCHANGED zone) \/ u = [t EXCEPT !.alone = FALSE], UNCHANGED <<rules, setting, edits>>
        PROVE  OperatorOK' /\ EndsRight /\ RulesKept
    BY <1>0, <1>2, OperatorKept DEF RulesKept
  <1>3. CASE \E c \in Clients : \/ RecordStep(c) \/ ListDoomed(c)
                                \/ ReadSetting(c) \/ PatchSetting(c) \/ ClearRules(c) \/ ReadRules(c) \/ PutRules(c)
    <2>1. PICK c \in Clients : \/ RecordStep(c) \/ ListDoomed(c)
                               \/ ReadSetting(c) \/ PatchSetting(c) \/ ClearRules(c) \/ ReadRules(c) \/ PutRules(c)
      BY <1>3
    <2>2. CASE c = "operator"
      <3>1. InTask("operator")
        BY <2>1, <2>2 DEF RecordStep, ListRecords, WriteRecord, DeleteRecord, ListDoomed, ReadSetting,
                          PatchSetting, ClearRules, ReadRules, PutRules, On
      <3>2. StageStep
        BY <1>0, <2>1, <2>2, OperatorRecords, OperatorSettings DEF RecordStep
      <3> QED BY <3>1, <3>2, StageStepKept DEF StageStep
    <2>3. CASE c = "controller"
      <3>1. Head(client[c].todo) \in {Game, "clear"}
        <4>1. InTask(c)
          BY <2>1 DEF RecordStep, ListRecords, WriteRecord, DeleteRecord, ListDoomed, ReadSetting,
                      PatchSetting, ClearRules, ReadRules, PutRules, On
        <4> QED BY <2>3, <4>1, OneStageTasks DEF ControllerOK
      <3>2. RecordStep(c) \/ ListDoomed(c)
        <4>1. Head(client[c].todo) \notin {"settings", "redirects", "origin"}
          BY <3>1, ZoneAssumption DEF StageNames, Sites
        <4> QED BY <2>1, <4>1 DEF ReadSetting, PatchSetting, ClearRules, ReadRules, PutRules, On
      <3>3. UNCHANGED <<rules, setting, edits>>
        BY <3>2 DEF RecordStep, ListRecords, WriteRecord, DeleteRecord, ListDoomed
      <3>4. \/ \E v : Goes(c, v) /\ UNCHANGED zone
            \/ \E v : Writes(c, v)
        <4>1. CASE ListDoomed(c)
          BY <4>1 DEF ListDoomed
        <4>2. CASE RecordStep(c)
          <5>1. PICK n \in Sites : ListRecords(c, n) \/ WriteRecord(c, n) \/ DeleteRecord(c, n)
            BY <4>2 DEF RecordStep
          <5>2. CASE ListRecords(c, n)
            BY <5>2 DEF ListRecords
          <5>3. CASE WriteRecord(c, n)
            BY <5>3 DEF WriteRecord, Request
          <5>4. CASE DeleteRecord(c, n)
            BY <5>4 DEF DeleteRecord, Request
          <5> QED BY <5>1, <5>2, <5>3, <5>4
        <4> QED BY <3>2, <4>1, <4>2
      <3>5. (u = t /\ UNCHANGED zone) \/ u = [t EXCEPT !.alone = FALSE]
        BY <2>3, <3>4 DEF Goes, Writes, Disturbs, Clients, TasksOK
      <3> QED BY <1>2, <3>3, <3>5
    <2> QED BY <2>2, <2>3 DEF Clients
  <1>4. CASE \E a \in Addr, p \in Port : SyncController(a, p)
    <2>1. PICK a \in Addr, p \in Port : SyncController(a, p)
      BY <1>4
    <2> DEFINE todo == Stages(CHOOSE s \in HostSeqs : TRUE)
               v == Task(todo, a, p)
    <2>2. /\ \A n \in Host : \E i \in DOMAIN todo : todo[i] = n
          /\ Proxied => \E i \in DOMAIN todo : todo[i] = "settings"
          /\ Proxied => todo[Len(todo)] = "origin"
      BY StagesHave
    <2>3. OperatorAsks(v)
      BY <2>1 DEF SyncController
    <2> HIDE DEF todo
    <2>4. v.todo = todo /\ v.read = <<>> /\ v.port = p /\ v.addr = a /\ p # 0
      BY ZoneAssumption DEF Task, NoTask
    <2> HIDE DEF v
    <2>5. Host \subseteq Todo(v) /\ (Proxied => "settings" \in Todo(v) /\ v.todo[Len(v.todo)] = "origin")
      BY <2>2, <2>4 DEF Todo
    <2> QED BY <2>3, <2>4, <2>5, OperatorBegins
  <1>5. CASE \E a \in Addr : SyncGame(a)
    <2>1. PICK a \in Addr : SyncGame(a)
      BY <1>5
    <2> DEFINE v == Task(<<Game>>, a, 0)
    <2>2. v.todo = <<Game>> /\ v.read = <<>> /\ v.port = 0
      BY DEF Task, NoTask
    <2>3. OperatorAsks(v)
      BY <2>1 DEF SyncGame
    <2> HIDE DEF v
    <2> QED BY <2>2, <2>3, OperatorBegins
  <1>6. CASE ClearGame
    <2> DEFINE v == Task(<<"clear">>, NoAddr, 0)
    <2>1. v.addr = NoAddr /\ v.read = <<>> /\ v.port = 0
      BY DEF Task, NoTask
    <2>2. OperatorAsks(v)
      BY <1>6 DEF ClearGame
    <2> HIDE DEF v
    <2> QED BY <2>1, <2>2, OperatorBegins
  <1>7. CASE (\E a \in Addr : Deployed(a)) \/ Closes \/ ServerLost \/ ControllerDies
    <2>1. UNCHANGED <<zone, rules, setting, edits>>
      BY <1>7 DEF Deployed, Closes, ServerLost, ControllerDies
    <2>2. u = t
      BY <1>7 DEF Deployed, Closes, ServerLost, ControllerDies, TasksOK, Clients
    <2> QED BY <1>2, <2>1, <2>2
  <1>8. CASE (\E r \in ByHand : EditRecord(r)) \/ (\E seq \in OldRules : EditRules(seq))
    <2>1. client' = Disturbs("nobody") /\ edits' = edits + 1 /\ UNCHANGED setting
      BY <1>8 DEF EditRecord, EditRules
    <2>2. u = [t EXCEPT !.alone = FALSE]
      BY <2>1 DEF Disturbs, Clients
    <2>3. rules' \in Seq(Rule)
      <3>1. CASE \E r \in ByHand : EditRecord(r)
        BY <1>0, <3>1 DEF EditRecord
      <3>2. CASE \E seq \in OldRules : EditRules(seq)
        BY <3>2, OldRulesAreRules DEF EditRules
      <3> QED BY <1>8, <3>1, <3>2
    <2>4. RulesKept
      BY <1>0, <2>1 DEF RulesKept
    <2> QED BY <1>0, <2>1, <2>2, <2>3, <2>4, OperatorKept
  <1> QED BY <1>1, <1>3, <1>4, <1>5, <1>6, <1>7, <1>8 DEF DnsNext

\* Nothing is asked for yet.
LEMMA OperatorInit == DnsInit => OperatorOK
  <1> SUFFICES ASSUME DnsInit PROVE OperatorOK
    OBVIOUS
  <1>1. client["operator"] = NoTask /\ rules \in OldRules /\ edits = 0
    BY DEF DnsInit, Clients
  <1>2. NoTask.pc = "idle" /\ NoTask.read = <<>> /\ NoTask.port = 0
    BY DEF NoTask
  <1> QED BY <1>1, <1>2, OldRulesAreRules DEF OperatorOK, Syncs

\* A sync that reports success has brought the zone to what it was asked for, whatever it
\* found there and whatever the controller does to the game's name meanwhile: every name
\* has one address, the target's, the settings are what dns: says, and the one rule of
\* ours is the first and names the port (SyncController, SyncGame).
THEOREM SuccessIsRight == DnsSpec => SuccessMeansRight
  BY DnsInitOK, DnsStep, OperatorInit, OperatorStepOK, PTL DEF DnsSpec, SuccessMeansRight

\* No step of a sync leaves a name without an address on the way to a new one, and what
\* others wrote stays: their records at our names, and their rules in their order (upsert,
\* deleteByName, dropOriginRule).
THEOREM OthersAreLeftAlone == DnsSpec => OthersUntouched
  <1>1. TasksOK /\ ControllerOK /\ OperatorOK /\ [DnsNext]_dnsVars =>
          [(zone' # zone => NameNotEmptied /\ RecordsKept) /\ RulesKept]_dnsVars
    BY DnsStep, OperatorStepOK
  <1> QED BY <1>1, DnsInitOK, DnsStep, OperatorInit, OperatorStepOK, PTL DEF DnsSpec, OthersUntouched

-----------------------------------------------------------------------------
(* Types.                                                                  *)

Shaped(t) ==
    /\ t.pc \in {"idle", "read", "write", "prune"} /\ t.keep \in Slot \cup {0} /\ t.doomed \subseteq Slot
    /\ t.pc = "idle" <=> t.todo = <<>>
AllShaped == \A c \in Clients : Shaped(client[c])
ZoneFits == \A i \in Slot : zone[i] \in {NoRecord, Gone} \/ Fits(zone[i])
InBounds == redirects \in BOOLEAN /\ setting \in BOOLEAN /\ server \in Addr \cup {NoAddr}
           /\ tasks \in 0..MaxTasks /\ edits \in 0..MaxEdits
DnsTypes == AllShaped /\ ZoneFits /\ InBounds

\* A task that goes on, or has just begun, holds nothing.
LEMMA OnwardShaped ==
    ASSUME NEW z, NEW t, TaskOK(z, t), t.pc # "idle", NEW ok \in BOOLEAN
    PROVE  Shaped(Onward(t, ok))
  <1> DEFINE u == Onward(t, ok)
  <1>1. u.todo = Tail(t.todo) /\ u.pc = (IF Len(t.todo) = 1 THEN "idle" ELSE "read") /\ u.keep = 0 /\ u.doomed = {}
    BY OnwardIs DEF TaskOK
  <1>2. t.todo \in Seq(Steps) /\ t.todo # <<>>
    BY DEF TaskOK, Aim
  <1>3. Len(t.todo) = 1 <=> Tail(t.todo) = <<>>
    <2>1. Len(t.todo) \in Nat /\ Len(t.todo) # 0 /\ Len(Tail(t.todo)) = Len(t.todo) - 1 /\ Tail(t.todo) \in Seq(Steps)
      BY <1>2
    <2>2. Len(Tail(t.todo)) = 0 <=> Tail(t.todo) = <<>>
      BY <2>1, EmptySeq
    <2>3. Len(t.todo) = 1 => Len(Tail(t.todo)) = 0
      BY <2>1
    <2>4. Len(t.todo) # 1 => Len(Tail(t.todo)) # 0
      BY <2>1
    <2> QED BY <2>2, <2>3, <2>4, Zenon
  <1> HIDE DEF u
  <1>4. Shaped(u)
    BY <1>1, <1>3 DEF Shaped
  <1> QED BY <1>4 DEF u

\* As above.
LEMMA TaskShaped ==
    /\ Shaped(NoTask)
    /\ \A todo, a, p : todo # <<>> => Shaped(Task(todo, a, p))
  BY DEF Shaped, NoTask, Task

\* The tasks after a step of one of them.
LEMMA GoesShaped ==
    ASSUME TasksOK, AllShaped, NEW c \in Clients, NEW u, Shaped(u), Goes(c, u) \/ Writes(c, u)
    PROVE  AllShaped'
  <1> SUFFICES ASSUME NEW d \in Clients PROVE Shaped(client'[d])
    BY DEF AllShaped
  <1>1. \/ client'[d] = u
        \/ client'[d] = client[d]
        \/ client'[d] = [client[d] EXCEPT !.alone = FALSE]
    BY DEF TasksOK, Goes, Writes, Disturbs
  <1>2. Shaped(client[d]) /\ DOMAIN client[d] = DOMAIN NoTask
    BY DEF AllShaped, TasksOK, TaskOK, IsTask
  <1>3. Shaped([client[d] EXCEPT !.alone = FALSE])
    BY <1>2 DEF Shaped, NoTask
  <1> QED BY <1>1, <1>2, <1>3

\* A record that is put, or is gone.
LEMMA PutFits ==
    ASSUME TasksOK, ZoneFits, NEW i \in Slot, NEW r, r = Gone \/ Fits(r), zone' = [zone EXCEPT ![i] = r]
    PROVE  ZoneFits'
  BY DEF ZoneFits, TasksOK

\* The record a task wants for a name is one.
LEMMA WantedFits ==
    ASSUME NEW t, t.addr \in Addr, NEW n \in Sites
    PROVE  Fits(Wanted(t, n))
  BY ZoneAssumption DEF Fits, Wanted

\* What a task has in hand, at a stage that is a name's.
LEMMA AtAName ==
    ASSUME TasksOK, NEW c \in Clients, NEW n \in Sites, On(c, n)
    PROVE  /\ TaskOK(zone, client[c]) /\ client[c].pc # "idle" /\ DOMAIN client[c] = DOMAIN NoTask
           /\ client[c].pc = "write" => client[c].addr \in Addr
           /\ client[c].todo # <<>> /\ At(zone, n) \subseteq Slot
  <1> DEFINE t == client[c]
  <1>1. TaskOK(zone, t) /\ t.pc # "idle" /\ DOMAIN t = DOMAIN NoTask /\ Head(t.todo) = n /\ Aim(t)
    BY DEF TasksOK, On, InTask, TaskOK, IsTask
  <1>2. t.todo # <<"clear">>
    <2>1. Head(<<"clear">>) = "clear"
      OBVIOUS
    <2> QED BY <1>1, <2>1, ZoneAssumption DEF StageNames
  <1> QED BY <1>1, <1>2 DEF Aim, At

\* A step of a client's.
LEMMA ClientTypes ==
    ASSUME TasksOK, DnsTypes, NEW c \in Clients,
           \/ RecordStep(c) \/ ListDoomed(c)
           \/ ReadSetting(c) \/ PatchSetting(c) \/ ClearRules(c) \/ ReadRules(c) \/ PutRules(c)
    PROVE  DnsTypes'
  <1> DEFINE t == client[c]
  <1>1. /\ TaskOK(zone, t) /\ t.pc # "idle" /\ DOMAIN t = DOMAIN NoTask /\ Shaped(t)
    BY DEF RecordStep, ListRecords, WriteRecord, DeleteRecord, ListDoomed, ReadSetting, PatchSetting, ClearRules,
       ReadRules, PutRules, On, InTask, TasksOK, TaskOK, IsTask, DnsTypes, AllShaped
  <1>2. ASSUME NEW ok \in BOOLEAN, Goes(c, Onward(t, ok)) \/ Writes(c, Onward(t, ok)) PROVE AllShaped'
    <2>1. Shaped(Onward(t, ok))
      BY <1>1, OnwardShaped
    <2> QED BY <1>2, <2>1, GoesShaped DEF DnsTypes
  <1>3. ASSUME UNCHANGED <<redirects, setting, server, tasks, edits>> PROVE InBounds'
    BY <1>3 DEF DnsTypes, InBounds
  <1>4. ASSUME UNCHANGED zone PROVE ZoneFits'
    BY <1>4 DEF DnsTypes, ZoneFits
  <1>5. ASSUME NEW pc \in {"write", "prune"}, NEW keep \in Slot \cup {0}, NEW doomed \in SUBSET Slot,
               NEW u, Goes(c, u) \/ Writes(c, u), u.pc = pc, u.keep = keep, u.doomed = doomed,
               u.todo = t.todo \/ u.todo = <<Game>>
        PROVE  AllShaped'
    <2>1. <<Game>> # <<>> /\ t.todo # <<>>
      BY <1>1 DEF Shaped
    <2>2. u.todo # <<>> /\ u.pc # "idle" /\ u.pc \in {"idle", "read", "write", "prune"}
      BY <1>5, <2>1
    <2>3. Shaped(u)
      BY <1>5, <2>2 DEF Shaped
    <2> QED BY <1>5, <2>3, GoesShaped DEF DnsTypes
  <1>6. ASSUME NEW n \in Sites, ListRecords(c, n) PROVE DnsTypes'
    <2>0. On(c, n) /\ t.pc = "read" /\ UNCHANGED <<zone, redirects, setting, server, tasks, edits>>
      BY <1>6 DEF ListRecords
    <2>1. CASE Goes(c, [t EXCEPT !.pc = "write"])
      <3> DEFINE u == [t EXCEPT !.pc = "write"]
      <3>1. u.pc = "write" /\ u.keep = t.keep /\ u.doomed = t.doomed /\ u.todo = t.todo
        BY <1>1 DEF NoTask
      <3> HIDE DEF u
      <3>2. t.keep \in Slot \cup {0} /\ t.doomed \in SUBSET Slot
        BY <1>1 DEF Shaped
      <3>3. AllShaped'
        BY <1>5, <2>1, <3>1, <3>2 DEF u
      <3> QED BY <1>3, <1>4, <2>0, <3>3 DEF DnsTypes
    <2>2. ASSUME NEW i \in At(zone, n), NEW pc \in {"write", "prune"},
                 Goes(c, [t EXCEPT !.pc = pc, !.keep = i, !.doomed = At(zone, n) \ {i}])
          PROVE  DnsTypes'
      <3> DEFINE D == At(zone, n) \ {i}
                 u == [t EXCEPT !.pc = pc, !.keep = i, !.doomed = D]
      <3>1. u.pc = pc /\ u.keep = i /\ u.doomed = D /\ u.todo = t.todo
        BY <1>1 DEF NoTask
      <3>2. i \in Slot \cup {0} /\ D \in SUBSET Slot
        BY DEF At
      <3> HIDE DEF u
      <3>3. AllShaped'
        BY <1>5, <2>2, <3>1, <3>2 DEF u
      <3> QED BY <1>3, <1>4, <2>0, <3>3 DEF DnsTypes
    <2>3. CASE Goes(c, Onward(t, FALSE))
      BY <1>2, <1>3, <1>4, <2>0, <2>3 DEF DnsTypes
    <2>4. Keepable(At(zone, n), zone, Wanted(t, n)) \subseteq At(zone, n)
      BY DEF Keepable
    <2> QED BY <1>6, <2>1, <2>2, <2>3, <2>4 DEF ListRecords
  <1>7. ASSUME NEW n \in Sites, WriteRecord(c, n) PROVE DnsTypes'
    <2>0. On(c, n) /\ t.pc = "write" /\ UNCHANGED <<redirects, setting, server, tasks, edits>> /\ t.addr \in Addr
      BY <1>7, AtAName DEF WriteRecord
    <2>1. Fits(Wanted(t, n))
      BY <2>0, WantedFits
    <2>2. ZoneFits'
      <3>1. \/ UNCHANGED zone
            \/ Unused # {} /\ zone' = [zone EXCEPT ![NewId] = Wanted(t, n)]
            \/ t.keep # 0 /\ zone' = [zone EXCEPT ![t.keep] = Wanted(t, n)]
        BY <1>7 DEF WriteRecord, Request
      <3>2. t.keep # 0 => t.keep \in Slot
        BY <1>1 DEF Shaped
      <3> QED BY <1>4, <2>1, <3>1, <3>2, NewIdIs, PutFits DEF DnsTypes
    <2>3. AllShaped'
      <3> DEFINE u == [t EXCEPT !.pc = "prune"]
      <3>1. u.pc = "prune" /\ u.keep = t.keep /\ u.doomed = t.doomed /\ u.todo = t.todo
        BY <1>1 DEF NoTask
      <3>2. Writes(c, u) \/ Goes(c, Onward(t, FALSE)) \/ Writes(c, Onward(t, FALSE))
        BY <1>7 DEF WriteRecord, Request
      <3> HIDE DEF u
      <3>3. t.keep \in Slot \cup {0} /\ t.doomed \in SUBSET Slot
        BY <1>1 DEF Shaped
      <3> QED BY <1>2, <1>5, <3>1, <3>2, <3>3
    <2> QED BY <1>3, <2>0, <2>2, <2>3 DEF DnsTypes
  <1>8. ASSUME NEW n \in Sites, DeleteRecord(c, n) PROVE DnsTypes'
    <2>0. t.pc = "prune" /\ UNCHANGED <<redirects, setting, server, tasks, edits>>
      BY <1>8 DEF DeleteRecord
    <2>1. CASE Goes(c, Onward(t, TRUE)) /\ UNCHANGED zone
      BY <1>2, <1>3, <1>4, <2>0, <2>1 DEF DnsTypes
    <2>2. ASSUME NEW i \in t.doomed,
                 Request(c, [t EXCEPT !.doomed = t.doomed \ {i}], Onward(t, FALSE), n,
                         zone' = [zone EXCEPT ![i] = Gone], UNCHANGED zone)
          PROVE  DnsTypes'
      <3> DEFINE D == t.doomed \ {i}
                 u == [t EXCEPT !.doomed = D]
      <3>1. u.pc = "prune" /\ u.keep = t.keep /\ u.doomed = D /\ u.todo = t.todo
        BY <1>1, <2>0 DEF NoTask
      <3>2. t.keep \in Slot \cup {0} /\ t.doomed \in SUBSET Slot
        BY <1>1 DEF Shaped
      <3>3. D \in SUBSET Slot /\ i \in Slot
        BY <3>2
      <3>4. Writes(c, u) \/ Goes(c, Onward(t, FALSE)) \/ Writes(c, Onward(t, FALSE))
        BY <2>2 DEF Request
      <3>5. UNCHANGED zone \/ zone' = [zone EXCEPT ![i] = Gone]
        BY <2>2 DEF Request
      <3> HIDE DEF D, u
      <3>6. AllShaped'
        BY <1>2, <1>5, <3>1, <3>2, <3>3, <3>4
      <3>7. ZoneFits'
        BY <1>4, <3>3, <3>5, PutFits DEF DnsTypes
      <3> QED BY <1>3, <2>0, <3>6, <3>7 DEF DnsTypes
    <2> QED BY <1>8, <2>1, <2>2 DEF DeleteRecord
  <1>9. CASE ListDoomed(c)
    <2>0. UNCHANGED <<zone, redirects, setting, server, tasks, edits>>
      BY <1>9 DEF ListDoomed
    <2> DEFINE u == [t EXCEPT !.todo = <<Game>>, !.pc = "prune", !.doomed = At(zone, Game)]
    <2>1. u.pc = "prune" /\ u.keep = t.keep /\ u.doomed = At(zone, Game) /\ u.todo = <<Game>>
      BY <1>1 DEF NoTask
    <2>2. Goes(c, u) \/ Goes(c, Onward(t, FALSE))
      BY <1>9 DEF ListDoomed
    <2>3. t.keep \in Slot \cup {0} /\ At(zone, Game) \in SUBSET Slot
      BY <1>1 DEF Shaped, At
    <2> HIDE DEF u
    <2>4. AllShaped'
      BY <1>2, <1>5, <2>1, <2>2, <2>3
    <2> QED BY <1>3, <1>4, <2>0, <2>4 DEF DnsTypes
  <1>10. ASSUME ReadSetting(c) \/ PatchSetting(c) \/ ClearRules(c) \/ ReadRules(c) \/ PutRules(c) PROVE DnsTypes'
    <2>1. UNCHANGED <<zone, server, tasks, edits>>
      BY <1>10 DEF ReadSetting, PatchSetting, ClearRules, ReadRules, PutRules
    <2>2. setting' \in BOOLEAN /\ redirects' \in BOOLEAN
      BY <1>10 DEF ReadSetting, PatchSetting, ClearRules, ReadRules, PutRules, Request, DnsTypes, InBounds
    <2>3. \/ Goes(c, [t EXCEPT !.pc = "write"]) \/ Goes(c, [t EXCEPT !.pc = "write", !.read = rules])
          \/ \E ok \in BOOLEAN : Goes(c, Onward(t, ok)) \/ Writes(c, Onward(t, ok))
      BY <1>10 DEF ReadSetting, PatchSetting, ClearRules, ReadRules, PutRules, Request
    <2>4. t.keep \in Slot \cup {0} /\ t.doomed \in SUBSET Slot
      BY <1>1 DEF Shaped
    <2>5. ASSUME NEW u, u = [t EXCEPT !.pc = "write"] \/ u = [t EXCEPT !.pc = "write", !.read = rules], Goes(c, u)
          PROVE  AllShaped'
      <3>1. u.pc = "write" /\ u.keep = t.keep /\ u.doomed = t.doomed /\ u.todo = t.todo
        BY <1>1, <2>5 DEF NoTask
      <3> QED BY <1>5, <2>4, <2>5, <3>1
    <2>6. AllShaped'
      BY <1>2, <2>3, <2>5
    <2> QED BY <1>4, <2>1, <2>2, <2>6 DEF DnsTypes, InBounds
  <1> QED BY <1>6, <1>7, <1>8, <1>9, <1>10 DEF RecordStep

\* A task that is begun, given up or disturbed.
LEMMA BegunShaped ==
    ASSUME TasksOK, AllShaped, NEW c \in Clients, NEW u, Shaped(u), client' = [client EXCEPT ![c] = u]
    PROVE  AllShaped'
  BY DEF AllShaped, TasksOK

\* The shapes of the zone's records, of the tasks and of what is counted, at every
\* moment.
LEMMA DnsTypesStep == TasksOK /\ DnsTypes /\ [DnsNext]_dnsVars => DnsTypes'
  <1> SUFFICES ASSUME TasksOK, DnsTypes, [DnsNext]_dnsVars PROVE DnsTypes'
    OBVIOUS
  <1>1. CASE UNCHANGED dnsVars
    BY <1>1 DEF dnsVars, DnsTypes, AllShaped, ZoneFits, InBounds
  <1>2. CASE \E c \in Clients : \/ RecordStep(c) \/ ListDoomed(c)
                                \/ ReadSetting(c) \/ PatchSetting(c) \/ ClearRules(c) \/ ReadRules(c) \/ PutRules(c)
    BY <1>2, ClientTypes
  <1>3. ASSUME NEW todo, todo # <<>>, NEW a, NEW p, OperatorAsks(Task(todo, a, p)) PROVE DnsTypes'
    <2>1. /\ UNCHANGED <<zone, redirects, setting, server, edits>> /\ tasks < MaxTasks /\ tasks' = tasks + 1
          /\ client' = [client EXCEPT !["operator"] = Task(todo, a, p)] /\ "operator" \in Clients
      BY <1>3 DEF OperatorAsks, Clients
    <2>2. AllShaped'
      BY <1>3, <2>1, TaskShaped, BegunShaped DEF DnsTypes
    <2> QED BY <2>1, <2>2, DnsBoundsAssumption DEF DnsTypes, ZoneFits, InBounds
  <1>4. CASE (\E a \in Addr, p \in Port : SyncController(a, p)) \/ (\E a \in Addr : SyncGame(a)) \/ ClearGame
    <2>1. Stages(CHOOSE s \in HostSeqs : TRUE) # <<>> /\ <<Game>> # <<>> /\ <<"clear">> # <<>>
      BY StagesHave
    <2> QED BY <1>3, <1>4, <2>1 DEF SyncController, SyncGame, ClearGame
  <1>5. CASE (\E a \in Addr : Deployed(a)) \/ Closes
    <2>1. PICK todo, a, p : todo # <<>> /\ client' = [client EXCEPT !["controller"] = Task(todo, a, p)]
      BY <1>5 DEF Deployed, Closes
    <2>2. AllShaped'
      BY <2>1, TaskShaped, BegunShaped DEF DnsTypes, Clients
    <2>3. /\ UNCHANGED <<zone, redirects, setting, edits>> /\ tasks < MaxTasks /\ tasks' = tasks + 1
          /\ server' \in Addr \cup {NoAddr}
      BY <1>5 DEF Deployed, Closes
    <2> QED BY <2>2, <2>3, DnsBoundsAssumption DEF DnsTypes, ZoneFits, InBounds
  <1>6. CASE ServerLost
    <2> DEFINE u == [client["controller"] EXCEPT !.alone = ~InTask("controller")]
    <2>1. client' = [client EXCEPT !["controller"] = u] /\ "controller" \in Clients
      BY <1>6 DEF ServerLost, Clients
    <2>2. Shaped(client["controller"]) /\ DOMAIN client["controller"] = DOMAIN NoTask
      BY <2>1 DEF DnsTypes, AllShaped, TasksOK, TaskOK, IsTask
    <2>3. Shaped(u)
      BY <2>2 DEF Shaped, NoTask
    <2> HIDE DEF u
    <2>4. AllShaped'
      BY <2>1, <2>3, BegunShaped DEF DnsTypes
    <2>5. UNCHANGED <<zone, redirects, setting, tasks, edits>> /\ server' = NoAddr
      BY <1>6 DEF ServerLost
    <2> QED BY <2>4, <2>5 DEF DnsTypes, ZoneFits, InBounds
  <1>7. CASE ControllerDies
    <2>1. client' = [client EXCEPT !["controller"] = NoTask] /\ UNCHANGED <<zone, redirects, setting, server, tasks, edits>>
      BY <1>7 DEF ControllerDies
    <2>2. AllShaped'
      BY <2>1, TaskShaped, BegunShaped DEF DnsTypes, Clients
    <2> QED BY <2>1, <2>2 DEF DnsTypes, ZoneFits, InBounds
  <1>8. CASE (\E r \in ByHand : EditRecord(r)) \/ (\E seq \in OldRules : EditRules(seq))
    <2>1. client' = Disturbs("nobody")
      BY <1>8 DEF EditRecord, EditRules
    <2>2. ASSUME NEW d \in Clients PROVE Shaped(client'[d])
      <3>1. client'[d] = [client[d] EXCEPT !.alone = FALSE]
        BY <2>1 DEF Disturbs, Clients
      <3>2. Shaped(client[d]) /\ DOMAIN client[d] = DOMAIN NoTask
        BY DEF DnsTypes, AllShaped, TasksOK, TaskOK, IsTask
      <3> QED BY <3>1, <3>2 DEF Shaped, NoTask
    <2>3. ZoneFits'
      <3>1. UNCHANGED zone \/ (Unused # {} /\ \E r \in ByHand : zone' = [zone EXCEPT ![NewId] = r])
        BY <1>8 DEF EditRecord, EditRules
      <3>2. UNCHANGED zone => ZoneFits'
        BY DEF DnsTypes, ZoneFits
      <3> QED BY <3>1, <3>2, NewIdIs, PutFits, RecordsAssumption DEF DnsTypes
    <2>4. UNCHANGED <<redirects, setting, server, tasks>> /\ edits < MaxEdits /\ edits' = edits + 1
      BY <1>8 DEF EditRecord, EditRules
    <2> QED BY <2>2, <2>3, <2>4, DnsBoundsAssumption DEF DnsTypes, AllShaped, InBounds
  <1> QED BY <1>1, <1>2, <1>4, <1>5, <1>6, <1>7, <1>8 DEF DnsNext

\* And before anything is asked for.
LEMMA DnsTypesInit == DnsInit => DnsTypes
  <1> SUFFICES ASSUME DnsInit PROVE DnsTypes
    OBVIOUS
  <1>1. AllShaped
    BY TaskShaped DEF DnsInit, AllShaped
  <1>2. ZoneFits
    BY RecordsAssumption DEF DnsInit, ZoneFits
  <1>3. MaxTasks \in Nat /\ MaxEdits \in Nat
    BY DnsBoundsAssumption
  <1>4. redirects = TRUE /\ setting = FALSE /\ server = NoAddr /\ tasks = 0 /\ edits = 0
    BY DEF DnsInit
  <1>5. InBounds
    <2>1. redirects \in BOOLEAN /\ setting \in BOOLEAN
      BY <1>4, Zenon
    <2>2. tasks \in 0..MaxTasks /\ edits \in 0..MaxEdits
      BY <1>3, <1>4
    <2> QED BY <1>4, <2>1, <2>2 DEF InBounds
  <1> QED BY <1>1, <1>2, <1>5 DEF DnsTypes

\* As the invariant says it.
LEMMA DnsTypesAre == DnsTypes /\ ControllerOK => DnsTypeOK
  BY DEF DnsTypes, AllShaped, Shaped, ZoneFits, InBounds, ControllerOK, DnsTypeOK

\* Every record at one of our names is of the type of its address, and every task knows
\* what it keeps and what it is to remove, whoever else changes the zone.
THEOREM DnsTypeCorrect == DnsSpec => []DnsTypeOK
  BY DnsInitOK, DnsStep, DnsTypesInit, DnsTypesStep, DnsTypesAre, PTL DEF DnsSpec
==============================================================================
