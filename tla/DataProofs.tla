----------------------------- MODULE DataProofs -----------------------------
(***************************************************************************)
(* Facts about data that several proofs need: induction over the natural   *)
(* numbers, functions defined by recursion, folds and fair queues.         *)
(***************************************************************************)
EXTENDS FairQueue, Integers, SequenceTheorems, WellFoundedInduction, TLAPS

-----------------------------------------------------------------------------
(* Induction over the natural numbers, as a fact about their subsets.      *)

LEMMA LeastNumber ==
  ASSUME NEW S, S \subseteq Nat, S # {}
  PROVE  \E m \in S : \A k \in S : m <= k
<1> DEFINE Less == OpToRel(<, Nat)
<1>1. IsWellFoundedOn(Less, Nat) BY NatLessThanWellFounded
<1>2. Less = {pair \in Nat \X Nat : pair[1] < pair[2]} BY DEF OpToRel
<1> HIDE DEF Less
<1>3. PICK m \in S : \A k \in S : <<k, m>> \notin Less
  <2>1. \E m \in S : \A k \in S : <<k, m>> \notin Less BY <1>1, WFMin
  <2> QED BY <2>1
<1>4. ASSUME NEW k \in S PROVE m <= k
  <2>1. m \in Nat /\ k \in Nat OBVIOUS
  <2>2. ~(k < m) BY <1>2, <1>3, <2>1
  <2> QED BY ONLY <2>1, <2>2
<1> QED BY <1>4

(* What holds for 0 and goes on from each number to the next holds for all.*)
LEMMA InductiveSet ==
  ASSUME NEW S, 0 \in S, \A n \in Nat : n \in S => n + 1 \in S
  PROVE  Nat \subseteq S
<1> SUFFICES ASSUME Nat \ S # {} PROVE FALSE OBVIOUS
<1>1. PICK m \in Nat \ S : \A k \in Nat \ S : m <= k
  <2>1. \E m \in Nat \ S : \A k \in Nat \ S : m <= k BY LeastNumber
  <2> QED BY <2>1
<1>2. m - 1 \in Nat BY <1>1
<1>3. m - 1 \in S BY <1>1, <1>2
<1> QED BY <1>1, <1>2, <1>3

-----------------------------------------------------------------------------
(* Recursive functions.                                                    *)

(* Two functions with the same recursion are the same as far as it goes.   *)
LEMMA SameRecursion ==
  ASSUME NEW m \in Nat, NEW f, NEW g, f[0] = g[0],
         \A k \in 0 .. m - 1 : f[k] = g[k] => f[k + 1] = g[k + 1]
  PROVE  \A k \in 0 .. m : f[k] = g[k]
<1> DEFINE S == {k \in Nat : k <= m => f[k] = g[k]}
<1>1. 0 \in S OBVIOUS
<1>2. ASSUME NEW k \in Nat, k \in S PROVE k + 1 \in S
  <2>1. CASE k + 1 <= m
    <3>1. k \in 0 .. m - 1 /\ k <= m BY <2>1
    <3> QED BY <1>2, <3>1
  <2>2. CASE ~(k + 1 <= m) BY <2>2
  <2> QED BY <2>1, <2>2
<1> HIDE DEF S
<1>3. Nat \subseteq S BY <1>1, <1>2, InductiveSet
<1> QED BY <1>3 DEF S

(* A function over the natural numbers can be defined by its first value   *)
(* and by what each value makes of the one before.                         *)
Recursion(f, first, step) ==
  f[0] = first /\ \A k \in Nat : f[k + 1] = step[k][f[k]]

LEMMA RecursiveFunction ==
  ASSUME NEW V, NEW first \in V, NEW step \in [Nat -> [V -> V]]
  PROVE  \E f \in [Nat -> V] : Recursion(f, first, step)
<1> DEFINE Part(m, f) ==
             /\ f \in [0 .. m -> V] /\ f[0] = first
             /\ \A k \in 0 .. m - 1 : f[k + 1] = step[k][f[k]]
           S == {m \in Nat : \E f : Part(m, f)}
<1>1. 0 \in S
  <2>1. Part(0, [k \in 0 .. 0 |-> first]) OBVIOUS
  <2> QED BY <2>1
<1>2. ASSUME NEW m \in Nat, m \in S PROVE m + 1 \in S
  <2>1. PICK f : Part(m, f) BY <1>2
  <2> DEFINE g == [k \in 0 .. m + 1 |-> IF k <= m THEN f[k] ELSE step[m][f[m]]]
  <2>2. /\ DOMAIN g = 0 .. m + 1 /\ g[m + 1] = step[m][f[m]]
        /\ \A k \in 0 .. m : g[k] = f[k]
    OBVIOUS
  <2>3. step[m][f[m]] \in V BY <2>1
  <2>4. g \in [0 .. m + 1 -> V]
    <3>1. \A k \in 0 .. m + 1 : g[k] \in V BY <2>1, <2>3
    <3> QED BY <3>1
  <2> HIDE DEF g
  <2>5. ASSUME NEW k \in 0 .. (m + 1) - 1 PROVE g[k + 1] = step[k][g[k]]
    <3>1. CASE k = m BY <2>2, <3>1
    <3>2. CASE k # m
      <4>1. k \in 0 .. m - 1 /\ k \in 0 .. m /\ k + 1 \in 0 .. m BY <3>2
      <4> QED BY <2>1, <2>2, <4>1
    <3> QED BY <3>1, <3>2
  <2>6. Part(m + 1, g) BY <2>1, <2>2, <2>4, <2>5
  <2> QED BY <2>6
<1>3. Nat \subseteq S
  <2> HIDE DEF S
  <2> QED BY <1>1, <1>2, InductiveSet
<1> DEFINE part(m) == CHOOSE f : Part(m, f)
           whole   == [m \in Nat |-> part(m)[m]]
<1>4. ASSUME NEW m \in Nat PROVE Part(m, part(m))
  <2>1. \E f : Part(m, f) BY <1>3
  <2> HIDE DEF Part
  <2> QED BY <2>1
<1> HIDE DEF S, part
<1>5. ASSUME NEW m \in Nat
      PROVE  /\ whole[m] \in V
             /\ whole[m + 1] = step[m][whole[m]]
  <2>1. Part(m, part(m)) /\ Part(m + 1, part(m + 1)) BY <1>4
  <2> DEFINE f == part(m)
             g == part(m + 1)
  <2>2. whole[m] = f[m] /\ whole[m + 1] = g[m + 1] OBVIOUS
  <2> HIDE DEF f, g, whole
  <2>3. Part(m, f) /\ Part(m + 1, g) BY <2>1 DEF f, g
  <2>4. \A k \in 0 .. m - 1 : k \in 0 .. (m + 1) - 1 OBVIOUS
  <2>5. \A k \in 0 .. m : f[k] = g[k]
    <3>1. f[0] = g[0] BY <2>3
    <3>2. \A k \in 0 .. m - 1 : f[k] = g[k] => f[k + 1] = g[k + 1]
      BY <2>3, <2>4
    <3> QED BY <3>1, <3>2, SameRecursion
  <2>6. g[m + 1] = step[m][g[m]] BY <2>3
  <2> QED BY <2>2, <2>3, <2>5, <2>6
<1>6. whole[0] = first BY <1>4
<1>7. whole \in [Nat -> V]
  <2>1. \A m \in Nat : whole[m] \in V BY <1>5
  <2> QED BY <2>1
<1> QED BY <1>5, <1>6, <1>7 DEF Recursion

(* A function over the first numbers, such as a fold over a sequence.      *)
RecursionTo(n, f, first, step) ==
  f[0] = first /\ \A k \in 1 .. n : f[k] = step[k][f[k - 1]]

LEMMA FiniteRecursion ==
  ASSUME NEW n \in Nat, NEW V, NEW first \in V,
         NEW step \in [1 .. n -> [V -> V]]
  PROVE  \E f \in [0 .. n -> V] : RecursionTo(n, f, first, step)
<1> DEFINE more == [k \in Nat |-> [v \in V |-> IF k + 1 \in 1 .. n
                                              THEN step[k + 1][v] ELSE v]]
<1>1. more \in [Nat -> [V -> V]]
  <2>1. \A k \in Nat, v \in V :
          (IF k + 1 \in 1 .. n THEN step[k + 1][v] ELSE v) \in V
    OBVIOUS
  <2> QED BY <2>1
<1>2. \A k \in Nat, v \in V : k + 1 \in 1 .. n => more[k][v] = step[k + 1][v]
  OBVIOUS
<1> HIDE DEF more
<1>3. PICK f \in [Nat -> V] : Recursion(f, first, more)
  BY <1>1, RecursiveFunction
<1> DEFINE g == [k \in 0 .. n |-> f[k]]
<1>4. g \in [0 .. n -> V] /\ g[0] = first BY <1>3 DEF Recursion
<1>5. ASSUME NEW k \in 1 .. n PROVE g[k] = step[k][g[k - 1]]
  <2>1. /\ k - 1 \in Nat /\ (k - 1) + 1 = k /\ k - 1 \in 0 .. n
        /\ k \in 0 .. n
    OBVIOUS
  <2>2. f[(k - 1) + 1] = more[k - 1][f[k - 1]] BY <1>3, <2>1 DEF Recursion
  <2>3. f[k - 1] \in V BY <2>1
  <2>4. more[k - 1][f[k - 1]] = step[k][f[k - 1]] BY <1>2, <2>1, <2>3
  <2> QED BY <2>1, <2>2, <2>4
<1> QED BY <1>4, <1>5 DEF RecursionTo

(* A function that never falls from one number to the next is monotone.    *)
LEMMA Grows ==
  ASSUME NEW f, \A k \in Nat : f[k] \in Nat /\ f[k] <= f[k + 1],
         NEW n \in Nat, NEW k \in 0 .. n
  PROVE  f[k] <= f[n]
<1> DEFINE S == {m \in Nat : k <= m => f[k] <= f[m]}
<1>1. 0 \in S OBVIOUS
<1>2. ASSUME NEW m \in Nat, m \in S PROVE m + 1 \in S
  <2>1. CASE k = m + 1 BY <2>1
  <2>2. CASE k # m + 1
    <3>1. k <= m + 1 => k <= m BY <2>2
    <3>2. f[k] \in Nat /\ f[m] \in Nat /\ f[m + 1] \in Nat
      BY k \in Nat, m + 1 \in Nat
    <3> QED BY <1>2, <3>1, <3>2
  <2> QED BY <2>1, <2>2
<1> HIDE DEF S
<1>3. n \in S BY <1>1, <1>2, InductiveSet
<1> QED BY <1>3 DEF S

-----------------------------------------------------------------------------
(* What reading a sequence from the left makes of a value: the values      *)
(* after each of its elements, `read` giving what one element does.        *)
Folds(f, first, read, seq) ==
  f[0] = first /\ \A k \in 1 .. Len(seq) : f[k] = read[seq[k]][f[k - 1]]

Folded(V, first, read, seq) ==
  CHOOSE f \in [0 .. Len(seq) -> V] : Folds(f, first, read, seq)

LEMMA FoldedIs ==
  ASSUME NEW S, NEW V, NEW first \in V, NEW read \in [S -> [V -> V]],
         NEW seq \in Seq(S)
  PROVE  /\ Folded(V, first, read, seq) \in [0 .. Len(seq) -> V]
         /\ Folds(Folded(V, first, read, seq), first, read, seq)
<1> DEFINE n    == Len(seq)
           step == [k \in 1 .. n |-> read[seq[k]]]
<1>1. n \in Nat /\ \A k \in 1 .. n : seq[k] \in S OBVIOUS
<1>2. step \in [1 .. n -> [V -> V]]
  <2>1. \A k \in 1 .. n : read[seq[k]] \in [V -> V] BY <1>1
  <2> QED BY <2>1
<1>3. \A k \in 1 .. n : step[k] = read[seq[k]] OBVIOUS
<1> HIDE DEF step, n
<1>4. \E f \in [0 .. n -> V] : RecursionTo(n, f, first, step)
  BY <1>1, <1>2, FiniteRecursion
<1>5. \E f \in [0 .. n -> V] : Folds(f, first, read, seq)
  BY <1>3, <1>4 DEF Folds, RecursionTo, n
<1> QED BY <1>5 DEF Folded, n

(* No other function is a fold.                                            *)
LEMMA FoldedOnly ==
  ASSUME NEW S, NEW V, NEW first \in V, NEW read \in [S -> [V -> V]],
         NEW seq \in Seq(S), NEW f, Folds(f, first, read, seq)
  PROVE  \A k \in 0 .. Len(seq) : f[k] = Folded(V, first, read, seq)[k]
<1> DEFINE n == Len(seq)
           g == Folded(V, first, read, seq)
<1>1. n \in Nat OBVIOUS
<1>2. Folds(g, first, read, seq) BY FoldedIs
<1> HIDE DEF g
<1>3. f[0] = g[0] BY <1>2 DEF Folds
<1>4. ASSUME NEW k \in 0 .. n - 1, f[k] = g[k] PROVE f[k + 1] = g[k + 1]
  <2>1. k + 1 \in 1 .. n /\ (k + 1) - 1 = k BY <1>1
  <2>2. /\ f[k + 1] = read[seq[k + 1]][f[(k + 1) - 1]]
        /\ g[k + 1] = read[seq[k + 1]][g[(k + 1) - 1]]
    BY <1>2, <2>1 DEF Folds
  <2> QED BY <1>4, <2>1, <2>2
<1> HIDE DEF n
<1>5. \A k \in 0 .. n : f[k] = g[k] BY <1>1, <1>3, <1>4, SameRecursion
<1> QED BY <1>5 DEF n, g

(* One element more is read after those before it.                         *)
LEMMA FoldedAppend ==
  ASSUME NEW S, NEW V, NEW first \in V, NEW read \in [S -> [V -> V]],
         NEW seq \in Seq(S), NEW x \in S
  PROVE  LET old == Folded(V, first, read, seq)
             new == Folded(V, first, read, Append(seq, x))
         IN /\ \A k \in 0 .. Len(seq) : new[k] = old[k]
            /\ new[Len(seq) + 1] = read[x][old[Len(seq)]]
<1> DEFINE n    == Len(seq)
           more == Append(seq, x)
           new  == Folded(V, first, read, more)
<1>1. /\ n \in Nat /\ more \in Seq(S) /\ Len(more) = n + 1
      /\ more[n + 1] = x /\ \A k \in 1 .. n : more[k] = seq[k]
  OBVIOUS
<1> HIDE DEF more
<1>2. Folds(new, first, read, more) BY <1>1, FoldedIs
<1> HIDE DEF new
<1>3. Folds(new, first, read, seq)
  <2>1. \A k \in 1 .. n : k \in 1 .. n + 1 BY <1>1
  <2> QED BY <1>1, <1>2, <2>1 DEF Folds
<1>4. \A k \in 0 .. n : new[k] = Folded(V, first, read, seq)[k]
  BY <1>3, FoldedOnly
<1>5. new[n + 1] = read[x][new[n]]
  <2>1. n + 1 \in 1 .. n + 1 /\ (n + 1) - 1 = n BY <1>1
  <2>2. new[n + 1] = read[more[n + 1]][new[(n + 1) - 1]]
    BY <1>1, <1>2, <2>1 DEF Folds
  <2> QED BY <1>1, <2>1, <2>2
<1>6. n \in 0 .. n BY <1>1
<1> QED BY <1>4, <1>5, <1>6 DEF new, more

-----------------------------------------------------------------------------
(* What joining, being served and leaving do to a fair queue.              *)

(* Who asks comes last.                                                   *)
LEMMA JoinedQueue ==
  ASSUME NEW S, NEW queue \in Seq(S), Distinct(queue),
         NEW a \in S, a \notin Members(queue)
  PROVE  /\ Append(queue, a) \in Seq(S)
         /\ Distinct(Append(queue, a))
         /\ Members(Append(queue, a)) = Members(queue) \cup {a}
<1> DEFINE new == Append(queue, a)
<1>1. /\ new \in Seq(S) /\ Len(new) = Len(queue) + 1
      /\ \A i \in 1 .. Len(queue) : new[i] = queue[i]
      /\ new[Len(queue) + 1] = a
  OBVIOUS
<1>2. /\ DOMAIN queue = 1 .. Len(queue) /\ Len(queue) \in Nat
      /\ DOMAIN new = 1 .. Len(queue) + 1
  BY <1>1
<1> HIDE DEF new
<1>3. \A i \in 1 .. Len(queue) : queue[i] # a BY <1>2 DEF Members
<1>4. Distinct(new) BY <1>1, <1>2, <1>3 DEF Distinct
<1>5. Members(new) = Members(queue) \cup {a} BY <1>1, <1>2 DEF Members
<1> QED BY <1>1, <1>4, <1>5 DEF new

(* Who is served was first.                                                *)
LEMMA ServedQueue ==
  ASSUME NEW S, NEW queue \in Seq(S), Distinct(queue), queue # <<>>
  PROVE  /\ Tail(queue) \in Seq(S)
         /\ Distinct(Tail(queue))
         /\ Members(Tail(queue)) = Members(queue) \ {Head(queue)}
         /\ Head(queue) \in Members(queue)
<1> DEFINE new == Tail(queue)
           n   == Len(queue)
<1>1. /\ new \in Seq(S) /\ n \in Nat \ {0} /\ Len(new) = n - 1
      /\ \A i \in 1 .. n - 1 : new[i] = queue[i + 1]
      /\ Head(queue) = queue[1]
  OBVIOUS
<1>2. DOMAIN queue = 1 .. n /\ DOMAIN new = 1 .. n - 1 BY <1>1
<1> HIDE DEF new, n
<1>3. Distinct(new)
  <2> SUFFICES ASSUME NEW i \in 1 .. n - 1, NEW j \in 1 .. n - 1,
                      new[i] = new[j]
               PROVE  i = j
    BY <1>2 DEF Distinct
  <2>1. queue[i + 1] = queue[j + 1] BY <1>1
  <2>2. i + 1 \in 1 .. n /\ j + 1 \in 1 .. n BY <1>1
  <2> QED BY <1>2, <2>1, <2>2 DEF Distinct
<1>4. ASSUME NEW b \in Members(new)
      PROVE  b \in Members(queue) /\ b # Head(queue)
  <2>1. PICK i \in 1 .. n - 1 : b = new[i] BY <1>2, <1>4 DEF Members
  <2>2. b = queue[i + 1] /\ i + 1 \in 1 .. n /\ i + 1 # 1 /\ 1 \in 1 .. n
    BY <1>1, <2>1
  <2> QED BY <1>1, <1>2, <2>2 DEF Members, Distinct
<1>5. ASSUME NEW b \in Members(queue), b # Head(queue)
      PROVE  b \in Members(new)
  <2>1. PICK i \in 1 .. n : b = queue[i] BY <1>2 DEF Members
  <2>2. i - 1 \in 1 .. n - 1 /\ (i - 1) + 1 = i BY <1>1, <1>5, <2>1
  <2>3. new[i - 1] = b BY <1>1, <2>1, <2>2
  <2> QED BY <1>2, <2>2, <2>3 DEF Members
<1>6. Head(queue) \in Members(queue) BY <1>1, <1>2 DEF Members
<1> QED BY <1>1, <1>3, <1>4, <1>5, <1>6 DEF new

(* Who leaves is the only one missing, and the order of the others stays.   *)
LEMMA LeftQueue ==
  ASSUME NEW S, NEW queue \in Seq(S), Distinct(queue),
         NEW a, a \in Members(queue)
  PROVE  /\ Without(queue, a) \in Seq(S)
         /\ Distinct(Without(queue, a))
         /\ Members(Without(queue, a)) = Members(queue) \ {a}
<1> DEFINE n     == Len(queue)
           place == CHOOSE i \in DOMAIN queue : queue[i] = a
           low   == SubSeq(queue, 1, place - 1)
           high  == SubSeq(queue, place + 1, n)
           new   == Without(queue, a)
<1>1. n \in Nat /\ DOMAIN queue = 1 .. n OBVIOUS
<1>2. place \in 1 .. n /\ queue[place] = a
  <2>1. \E i \in 1 .. n : queue[i] = a BY <1>1 DEF Members
  <2> QED BY <1>1, <2>1
<1> HIDE DEF place
<1>3. /\ low \in Seq(S) /\ Len(low) = place - 1
      /\ \A i \in 1 .. place - 1 : low[i] = queue[i]
  BY <1>1, <1>2
<1>4. /\ high \in Seq(S) /\ Len(high) = n - place
      /\ \A i \in 1 .. n - place : high[i] = queue[place + i]
  <2>1. \A i \in place + 1 .. n : queue[i] \in S BY <1>1, <1>2
  <2>2. place + 1 \in Int /\ n \in Int BY <1>1, <1>2
  <2> HIDE DEF n
  <2>3. /\ high \in Seq(S)
        /\ Len(high) = IF place + 1 <= n THEN n - (place + 1) + 1 ELSE 0
        /\ \A i \in 1 .. n - (place + 1) + 1 :
             high[i] = queue[(place + 1) + i - 1]
    BY <2>1, <2>2, SubSeqProperties
  <2> HIDE DEF high
  <2>4. n - (place + 1) + 1 = n - place BY <1>1, <1>2
  <2>5. Len(high) = n - place BY <1>1, <1>2, <2>3
  <2>6. \A i \in 1 .. n - place : (place + 1) + i - 1 = place + i
    BY <1>1, <1>2
  <2> QED BY <2>3, <2>4, <2>5, <2>6
<1>5. new = low \o high BY DEF Without, place
<1> HIDE DEF low, high, new, n
<1>6. /\ new \in Seq(S) /\ Len(new) = (place - 1) + (n - place)
      /\ \A i \in 1 .. place - 1 : new[i] = low[i]
      /\ \A i \in 1 .. n - place : new[(place - 1) + i] = high[i]
  <2>1. /\ new \in Seq(S) /\ Len(new) = Len(low) + Len(high)
        /\ \A i \in 1 .. Len(low) + Len(high) :
             new[i] = IF i <= Len(low) THEN low[i] ELSE high[i - Len(low)]
    BY <1>3, <1>4, <1>5, ConcatProperties
  <2>2. ASSUME NEW i \in 1 .. n - place
        PROVE  new[(place - 1) + i] = high[i]
    <3>1. /\ (place - 1) + i \in 1 .. (place - 1) + (n - place)
          /\ ~((place - 1) + i <= place - 1)
          /\ (place - 1) + i - (place - 1) = i
      BY <1>1, <1>2
    <3> QED BY <1>3, <1>4, <2>1, <3>1
  <2>3. \A i \in 1 .. place - 1 :
          i \in 1 .. (place - 1) + (n - place) /\ i <= place - 1
    BY <1>1, <1>2
  <2> QED BY <1>3, <1>4, <2>1, <2>2, <2>3
<1>7. /\ DOMAIN new = 1 .. n - 1
      /\ \A i \in 1 .. place - 1 : new[i] = queue[i]
      /\ \A i \in place .. n - 1 : new[i] = queue[i + 1]
  <2>1. (place - 1) + (n - place) = n - 1 BY <1>1, <1>2
  <2>2. DOMAIN new = 1 .. n - 1 BY <1>6, <2>1
  <2>3. ASSUME NEW i \in place .. n - 1 PROVE new[i] = queue[i + 1]
    <3>1. i - (place - 1) \in 1 .. n - place BY <1>1, <1>2
    <3>2. /\ (place - 1) + (i - (place - 1)) = i
          /\ place + (i - (place - 1)) = i + 1
      BY <1>1, <1>2
    <3> QED BY <1>4, <1>6, <3>1, <3>2
  <2> QED BY <1>3, <1>6, <2>2, <2>3
<1> DEFINE old(i) == IF i < place THEN i ELSE i + 1
<1>8. \A i \in 1 .. n - 1 : /\ old(i) \in 1 .. n /\ old(i) # place
                            /\ new[i] = queue[old(i)]
  BY <1>1, <1>2, <1>7
<1>9. \A i, j \in 1 .. n - 1 : old(i) = old(j) => i = j BY <1>1, <1>2
<1>10. \A k \in 1 .. n : k # place => \E i \in 1 .. n - 1 : old(i) = k
  <2> SUFFICES ASSUME NEW k \in 1 .. n, k # place
               PROVE  \E i \in 1 .. n - 1 : old(i) = k
    OBVIOUS
  <2>1. CASE k < place BY <1>1, <1>2, <2>1
  <2>2. CASE k > place
    <3>1. k - 1 \in 1 .. n - 1 /\ old(k - 1) = k BY <1>1, <1>2, <2>2
    <3> QED BY <3>1
  <2> QED BY <1>1, <1>2, <2>1, <2>2
<1> HIDE DEF old
<1>11. Distinct(new) BY <1>1, <1>7, <1>8, <1>9 DEF Distinct
<1>12. ASSUME NEW b \in Members(new)
       PROVE  b \in Members(queue) /\ b # a
  <2>1. PICK i \in 1 .. n - 1 : b = new[i] BY <1>7, <1>12 DEF Members
  <2>2. b = queue[old(i)] /\ old(i) \in 1 .. n /\ old(i) # place
    BY <1>8, <2>1
  <2> QED BY <1>1, <1>2, <2>2 DEF Members, Distinct
<1>13. ASSUME NEW b \in Members(queue), b # a
       PROVE  b \in Members(new)
  <2>1. PICK k \in 1 .. n : b = queue[k] BY <1>1 DEF Members
  <2>2. PICK i \in 1 .. n - 1 : old(i) = k BY <1>2, <1>10, <1>13, <2>1
  <2>3. b = new[i] BY <1>8, <2>1, <2>2
  <2> QED BY <1>7, <2>3 DEF Members
<1> QED BY <1>6, <1>11, <1>12, <1>13 DEF new
=============================================================================
