-------------------------- MODULE SelectionProofs --------------------------
(***************************************************************************)
(* Lemmas about numbers and parts of sequences.                            *)
(***************************************************************************)
EXTENDS Selection, FunctionTheorems, FiniteSetTheorems, WellFoundedInduction, TLAPS

\* A set of numbers that is not empty has a least element.
LEMMA LeastElement ==
  ASSUME NEW S \in SUBSET Nat, S # {}
  PROVE  \E s \in S : \A x \in S : s <= x
  <1> DEFINE R == OpToRel(<, Nat)
  <1>1. IsWellFoundedOn(R, Nat)
    BY NatLessThanWellFounded
  <1>2. \A x, y \in Nat : x < y => <<x, y>> \in R
    BY DEF OpToRel
  <1> HIDE DEF R
  <1>3. PICK s \in S : \A x \in S : ~(<<x, s>> \in R)
    BY <1>1, WFMin
  <1>4. \A x \in S : s <= x
    <2> TAKE x \in S
    <2>1. x \in Nat /\ s \in Nat
      OBVIOUS
    <2>2. ~(x < s)
      BY <1>2, <1>3, <2>1
    <2> QED
      BY <2>1, <2>2
  <1> QED
    BY <1>4

\* What holds of 0, and of a number if of the one before, holds up to the last.
LEMMA UpTo ==
  ASSUME NEW N \in Nat, NEW S, 0 \in S, \A n \in 1..N : n - 1 \in S => n \in S
  PROVE  \A n \in 0..N : n \in S
  <1> DEFINE Bad == (0..N) \ S
  <1> SUFFICES ASSUME Bad # {} PROVE FALSE
    OBVIOUS
  <1>1. PICK b \in Bad : \A x \in Bad : b <= x
    <2>1. Bad \in SUBSET Nat
      OBVIOUS
    <2> HIDE DEF Bad
    <2> QED
      BY <2>1, LeastElement
  <1>2. b \in 1..N /\ b \notin S
    OBVIOUS
  <1>3. b - 1 \in 0..N /\ b - 1 \notin Bad
    BY <1>1, <1>2
  <1> QED
    BY <1>2, <1>3

\* Nothing is selected at no positions.
LEMMA SelectNothing ==
  ASSUME NEW T, NEW seq \in Seq(T), NEW P, P = {}
  PROVE  IsSelection(<<>>, seq, P)
  <1>1. [i \in {} |-> 0] \in [DOMAIN <<>> -> P]
    OBVIOUS
  <1> QED
    BY <1>1 DEF IsSelection

\* A selection goes on with a position behind the ones selected so far.
LEMMA SelectNext ==
  ASSUME NEW T, NEW out \in Seq(T), NEW seq \in Seq(T), NEW P \in SUBSET Nat,
         IsSelection(out, seq, P),
         NEW n \in DOMAIN seq, \A p \in P : p < n
  PROVE  IsSelection(Append(out, seq[n]), seq, P \cup {n})
  <1> DEFINE new == Append(out, seq[n])
             l == Len(out)
  <1>1. PICK at \in [DOMAIN out -> P] :
          /\ \A i, j \in DOMAIN out : i < j => at[i] < at[j]
          /\ \A p \in P : \E i \in DOMAIN out : at[i] = p
          /\ \A i \in DOMAIN out : out[i] = seq[at[i]]
    BY DEF IsSelection
  <1>2. /\ l \in Nat /\ DOMAIN out = 1..l /\ DOMAIN new = 1..l + 1
        /\ new[l + 1] = seq[n] /\ \A i \in 1..l : new[i] = out[i]
    OBVIOUS
  <1> HIDE DEF new, l
  <1> DEFINE at2 == [i \in 1..l + 1 |-> IF i = l + 1 THEN n ELSE at[i]]
  <1>3. \A i \in 1..l : at[i] \in P /\ i \in 1..l + 1 /\ i # l + 1
    BY <1>2
  <1>4. /\ l + 1 \in 1..l + 1
        /\ at2[l + 1] = n
        /\ \A i \in 1..l : at2[i] = at[i] /\ at[i] \in P
    BY <1>2, <1>3
  <1>9. at2 \in [DOMAIN new -> P \cup {n}]
    BY <1>2, <1>3
  <1> HIDE DEF at2
  <1>5. \A i, j \in DOMAIN new : i < j => at2[i] < at2[j]
    <2> SUFFICES ASSUME NEW i \in 1..l + 1, NEW j \in 1..l + 1, i < j
                 PROVE  at2[i] < at2[j]
      BY <1>2
    <2>1. i \in 1..l
      BY <1>2
    <2>2. CASE j = l + 1
      BY <2>1, <2>2, <1>4
    <2>3. CASE j # l + 1
      <3>1. j \in 1..l
        BY <2>3, <1>2
      <3> QED
        BY <3>1, <2>1, <1>1, <1>2, <1>4
    <2> QED
      BY <2>2, <2>3
  <1>6. \A p \in P \cup {n} : \E i \in DOMAIN new : at2[i] = p
    <2> TAKE p \in P \cup {n}
    <2>1. CASE p = n
      BY <2>1, <1>2, <1>4
    <2>2. CASE p \in P
      <3>1. PICK i \in 1..l : at[i] = p
        BY <2>2, <1>1, <1>2
      <3> QED
        BY <3>1, <1>2, <1>4
    <2> QED
      BY <2>1, <2>2
  <1>7. \A i \in DOMAIN new : new[i] = seq[at2[i]]
    <2> TAKE i \in DOMAIN new
    <2>1. CASE i = l + 1
      BY <2>1, <1>2, <1>4
    <2>2. CASE i # l + 1
      <3>1. i \in 1..l
        BY <2>2, <1>2
      <3> QED
        BY <3>1, <1>1, <1>2, <1>4
    <2> QED
      BY <2>1, <2>2
  <1>8. IsSelection(new, seq, P \cup {n})
    BY <1>9, <1>5, <1>6, <1>7 DEF IsSelection
  <1> QED
    BY <1>8 DEF new

\* A selection depends on the sequence only at the positions selected.
LEMMA SelectElsewhere ==
  ASSUME NEW out, NEW seq, NEW other, NEW P, NEW Q, P = Q,
         \A p \in P : seq[p] = other[p],
         IsSelection(out, seq, P)
  PROVE  IsSelection(out, other, Q)
  <1>1. PICK at \in [DOMAIN out -> P] :
          /\ \A i, j \in DOMAIN out : i < j => at[i] < at[j]
          /\ \A p \in P : \E i \in DOMAIN out : at[i] = p
          /\ \A i \in DOMAIN out : out[i] = seq[at[i]]
    BY DEF IsSelection
  <1>2. \A i \in DOMAIN out : out[i] = other[at[i]]
    BY <1>1
  <1> QED
    BY <1>1, <1>2 DEF IsSelection

\* What is kept is the selection of the positions asked for.
LEMMA KeepSelects ==
  ASSUME NEW T, NEW seq \in Seq(T), NEW P
  PROVE  Keep(seq, P) \in Seq(T) /\ IsSelection(Keep(seq, P), seq, P \cap DOMAIN seq)
  <1> DEFINE N == Len(seq)
             Step(f, n) == IF n = 0 THEN <<>>
                           ELSE IF n \in P THEN Append(f[n - 1], seq[n])
                           ELSE f[n - 1]
             Kept(f, n) == f = [m \in 0..n |-> Step(f, m)]
             Good(s, n) == s \in Seq(T) /\ IsSelection(s, seq, P \cap 1..n)
  <1>1. N \in Nat /\ DOMAIN seq = 1..N /\ \A n \in 1..N : seq[n] \in T
    OBVIOUS
  <1> HIDE DEF N
  <1>2. ASSUME NEW n \in 1..N, NEW s, Good(s, n - 1)
        PROVE  Good(IF n \in P THEN Append(s, seq[n]) ELSE s, n)
    <2>1. CASE n \in P
      <3>1. P \cap 1..n = (P \cap 1..n - 1) \cup {n}
        BY <2>1
      <3>2. P \cap 1..n - 1 \in SUBSET Nat /\ \A p \in P \cap 1..n - 1 : p < n
        OBVIOUS
      <3>3. n \in DOMAIN seq /\ seq[n] \in T
        BY <1>1
      <3>4. IsSelection(Append(s, seq[n]), seq, (P \cap 1..n - 1) \cup {n})
        BY <1>2, <3>2, <3>3, SelectNext
      <3>5. Append(s, seq[n]) \in Seq(T)
        BY <1>2, <3>3
      <3> QED
        BY <2>1, <3>1, <3>4, <3>5
    <2>2. CASE n \notin P
      <3>1. P \cap 1..n = P \cap 1..n - 1
        BY <2>2
      <3> QED
        BY <1>2, <2>2, <3>1
    <2> QED
      BY <2>1, <2>2
  <1>3. Good(<<>>, 0)
    <2>1. P \cap 1..0 = {} /\ <<>> \in Seq(T)
      OBVIOUS
    <2> QED
      BY <2>1, SelectNothing
  <1> HIDE DEF Good
  <1>4. \A n \in 0..N : \E f : Kept(f, n)
    <2> DEFINE Bad == {n \in 0..N : ~ \E f : Kept(f, n)}
    <2> SUFFICES ASSUME Bad # {} PROVE FALSE
      OBVIOUS
    <2>0. Bad \in SUBSET Nat
      BY <1>1
    <2>1. PICK b \in Bad : \A x \in Bad : b <= x
      <3> HIDE DEF Bad
      <3> QED
        BY <2>0, LeastElement
    <2>2. b \in 0..N /\ ~ \E f : Kept(f, b)
      OBVIOUS
    <2>3. CASE b = 0
      <3> DEFINE f == [m \in 0..0 |-> <<>>]
      <3>1. Kept(f, 0)
        OBVIOUS
      <3> QED
        BY <3>1, <2>2, <2>3
    <2>4. CASE b # 0
      <3>1. b - 1 \in 0..N /\ ~(b <= b - 1) /\ b \in Nat
        BY <2>2, <2>4, <1>1
      <3>2. PICK f : Kept(f, b - 1)
        BY <2>1, <3>1
      <3> DEFINE g == [m \in 0..b |-> IF m = b THEN Step(f, b) ELSE f[m]]
      <3> HIDE DEF Step
      <3>3. \A m \in 0..b - 1 : g[m] = f[m] /\ f[m] = Step(f, m)
        <4> TAKE m \in 0..b - 1
        <4>1. m \in 0..b /\ m # b
          BY <3>1
        <4>2. g[m] = f[m]
          BY <4>1
        <4>3. f[m] = Step(f, m)
          BY <3>2
        <4> QED
          BY <4>2, <4>3
      <3>4. g[b] = Step(f, b)
        BY <3>1
      <3> HIDE DEF g
      <3> USE DEF Step
      <3>5. \A m \in 0..b : Step(g, m) = Step(f, m)
        <4> TAKE m \in 0..b
        <4>1. CASE m = 0
          BY <4>1
        <4>2. CASE m # 0
          <5>1. m - 1 \in 0..b - 1
            BY <4>2, <3>1
          <5>2. g[m - 1] = f[m - 1]
            BY <5>1, <3>3
          <5> QED
            BY <5>2, <4>2
        <4> QED
          BY <4>1, <4>2
      <3> HIDE DEF Step
      <3>6. \A m \in 0..b : g[m] = Step(g, m)
        BY <3>1, <3>3, <3>4, <3>5
      <3>7. Kept(g, b)
        BY <3>6 DEF g
      <3> QED
        BY <3>7, <2>2
    <2> QED
      BY <2>3, <2>4
  <1> DEFINE kept == CHOOSE f : Kept(f, N)
  <1>5. Keep(seq, P) = kept[N]
    BY DEF Keep, N
  <1>6. Kept(kept, N)
    <2>1. N \in 0..N
      BY <1>1
    <2> HIDE DEF Kept
    <2> QED
      BY Zenon, <2>1, <1>4
  <1> HIDE DEF kept
  <1>7. \A n \in 0..N : kept[n] = Step(kept, n)
    BY <1>6
  <1>8. \A n \in 0..N : Good(kept[n], n)
    <2> DEFINE Bad == {n \in 0..N : ~ Good(kept[n], n)}
    <2> SUFFICES ASSUME Bad # {} PROVE FALSE
      OBVIOUS
    <2>0. Bad \in SUBSET Nat
      BY <1>1
    <2>1. PICK b \in Bad : \A x \in Bad : b <= x
      <3> HIDE DEF Bad
      <3> QED
        BY <2>0, LeastElement
    <2>2. b \in 0..N /\ ~ Good(kept[b], b) /\ kept[b] = Step(kept, b)
      BY <1>7
    <2>3. CASE b = 0
      BY <2>2, <2>3, <1>3
    <2>4. CASE b # 0
      <3>1. b - 1 \in 0..N /\ ~(b <= b - 1) /\ b \in 1..N
        BY <2>2, <2>4, <1>1
      <3>2. Good(kept[b - 1], b - 1)
        BY <2>1, <3>1
      <3> HIDE DEF Bad
      <3> QED
        BY <1>2, <2>2, <2>4, <3>1, <3>2
    <2> QED
      BY <2>3, <2>4
  <1>9. Good(Keep(seq, P), N)
    BY <1>1, <1>5, <1>8
  <1> QED
    BY <1>1, <1>9 DEF Good

\* If what is kept is a beginning of the positions, it is that beginning of the
\* sequence.
LEMMA KeepBeginning ==
  ASSUME NEW T, NEW seq \in Seq(T), NEW P \in SUBSET (DOMAIN seq),
         \A p \in P : \A j \in DOMAIN seq : j < p => j \in P
  PROVE  /\ Keep(seq, P) \in Seq(T)
         /\ Len(Keep(seq, P)) <= Len(seq)
         /\ P = DOMAIN Keep(seq, P)
         /\ \A k \in DOMAIN Keep(seq, P) : Keep(seq, P)[k] = seq[k]
  <1> DEFINE kept == Keep(seq, P)
             m == Len(kept)
  <1>1. kept \in Seq(T) /\ IsSelection(kept, seq, P)
    <2>1. P \cap DOMAIN seq = P
      OBVIOUS
    <2> QED
      BY <2>1, KeepSelects
  <1>2. DOMAIN kept = 1..m /\ m \in Nat /\ DOMAIN seq = 1..Len(seq) /\ Len(seq) \in Nat
    BY <1>1
  <1> HIDE DEF kept, m
  <1>3. PICK f \in [DOMAIN kept -> P] :
           /\ \A i, j \in DOMAIN kept : i < j => f[i] < f[j]
           /\ \A p \in P : \E i \in DOMAIN kept : f[i] = p
           /\ \A i \in DOMAIN kept : kept[i] = seq[f[i]]
    BY <1>1, Zenon DEF IsSelection
  <1>4. \A i \in 1..m : f[i] \in P /\ f[i] \in Nat
    BY <1>2, <1>3
  <1>5. \A i \in 1..m : f[i] = i
    <2> DEFINE Bad == {i \in 1..m : f[i] # i}
    <2> SUFFICES ASSUME Bad # {} PROVE FALSE
      OBVIOUS
    <2>1. PICK i \in Bad : \A j \in Bad : i <= j
      <3>1. Bad \in SUBSET Nat
        BY <1>2
      <3> HIDE DEF Bad
      <3> QED
        BY <3>1, LeastElement
    <2>2. i \in 1..m /\ f[i] # i
      OBVIOUS
    <2>3. \A j \in 1..m : j < i => f[j] = j
      BY <2>1, <2>2, <1>2
    <2> HIDE DEF Bad
    <2>4. ~ (f[i] < i)
      <3> SUFFICES ASSUME f[i] < i PROVE FALSE
        OBVIOUS
      <3>1. f[i] \in 1..m
        BY <1>2, <1>4, <2>2
      <3>2. f[f[i]] = f[i] /\ f[f[i]] < f[i]
        BY <1>2, <1>3, <2>2, <2>3, <3>1
      <3> QED
        BY <3>1, <3>2, <1>2
    <2>5. i < f[i] /\ i \in P
      <3>1. i < f[i]
        BY <1>2, <1>4, <2>2, <2>4
      <3>2. i \in DOMAIN seq
        BY <1>2, <1>4, <2>2, <3>1
      <3> QED
        BY <1>4, <2>2, <3>1, <3>2
    <2>6. PICK j \in 1..m : f[j] = i
      BY <1>2, <1>3, <2>5
    <2>7. CASE j < i
      BY <2>3, <2>6, <2>7, <1>2
    <2>8. CASE j = i
      BY <2>2, <2>6, <2>8
    <2>9. CASE i < j
      <3>1. f[i] < f[j]
        BY <1>2, <1>3, <2>2, <2>9
      <3> QED
        BY <3>1, <2>5, <2>6, <1>2, <1>4, <2>2
    <2> QED
      BY <2>2, <2>6, <2>7, <2>8, <2>9, <1>2
  <1>6. P = DOMAIN kept
    <2>1. \A p \in P : p \in 1..m
      BY <1>2, <1>3, <1>5
    <2> QED
      BY <1>2, <1>4, <1>5, <2>1
  <1>7. \A k \in DOMAIN kept : kept[k] = seq[k]
    BY <1>2, <1>3, <1>5
  <1>8. m <= Len(seq)
    <2>1. CASE m = 0
      BY <2>1, <1>2
    <2>2. CASE m # 0
      <3>1. m \in DOMAIN kept
        BY <2>2, <1>2
      <3> QED
        BY <3>1, <1>6, <1>2
    <2> QED
      BY <2>1, <2>2
  <1> QED
    BY <1>1, <1>6, <1>7, <1>8 DEF kept, m

=============================================================================
