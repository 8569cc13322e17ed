-------------------------- MODULE AlgorithmsProofs --------------------------
(***************************************************************************)
(* Proofs about the functions that Algorithms calls, for arguments of any   *)
(* length.                                                                  *)
(*                                                                          *)
(* What is defined by recursion is proved by induction over numbers, in the *)
(* form of a set that has 0 and with every number the next (Induction).     *)
(* Recursive functions and folds are choices: that there is a function to   *)
(* be chosen is shown for a step that is a function (FoldExists,            *)
(* DescentExists), and what each fold goes through is stated next to it.    *)
(***************************************************************************)
EXTENDS Algorithms, WellFoundedInduction, SequenceTheorems, TLAPS

-----------------------------------------------------------------------------
(* Numbers. *)

(* A set of natural numbers has a least element. *)
LEMMA LeastNatural ==
  ASSUME NEW S \in SUBSET Nat, S # {}
  PROVE  Min(S) \in S /\ \A n \in S : Min(S) <= n
  <1>1. \E m \in S : \A n \in S : <<n, m>> \notin OpToRel(<, Nat)
    BY NatLessThanWellFounded, WFMin
  <1>2. PICK m \in S : \A n \in S : ~(n < m)
    BY <1>1 DEF OpToRel
  <1>3. \A n \in S : m <= n
    BY <1>2
  <1>. QED  BY <1>3 DEF Min

(* What holds of 0, and with each number of the next, holds up to n. *)
LEMMA Induction ==
  ASSUME NEW n \in Nat, NEW S, 0 \in S, \A k \in 0..n-1 : k \in S => k + 1 \in S
  PROVE  \A k \in 0..n : k \in S
  <1> DEFINE C == {k \in 0..n : k \notin S}
  <1> SUFFICES ASSUME C # {} PROVE FALSE
    OBVIOUS
  <1>1. C \in SUBSET Nat /\ \A k \in C : k \in 0..n /\ k \notin S
    OBVIOUS
  <1>2. \A k \in 0..n : k \notin C => k \in S
    OBVIOUS
  <1> HIDE DEF C
  <1>3. PICK m \in C : \A k \in C : m <= k
    BY <1>1, LeastNatural
  <1>4. m # 0 /\ m - 1 \in 0..n-1 /\ m - 1 \notin C
    BY <1>1, <1>3
  <1>. QED  BY <1>1, <1>2, <1>4

(* What holds of each number that it holds of all greater ones, up to n,    *)
(* holds of all.                                                            *)
LEMMA Descent ==
  ASSUME NEW n \in Nat, NEW S, \A k \in 1..n : (\A j \in k+1..n : j \in S) => k \in S
  PROVE  \A k \in 1..n : k \in S
  <1> DEFINE T == {k \in 0..n : \A j \in n-k+1..n : j \in S}
  <1>1. 0 \in T
    OBVIOUS
  <1>2. ASSUME NEW k \in 0..n-1, k \in T PROVE k + 1 \in T
    <2>1. n - k \in 1..n /\ \A j \in (n-k)+1..n : j \in S
      BY <1>2
    <2>2. n - k \in S
      BY <2>1
    <2>. QED  BY <2>1, <2>2
  <1>3. n \in T => \A k \in 1..n : k \in S
    OBVIOUS
  <1> HIDE DEF T
  <1>4. \A k \in 0..n-1 : k \in T => k + 1 \in T
    BY <1>2
  <1>5. \A k \in 0..n : k \in T
    BY <1>1, <1>4, Induction
  <1>. QED  BY <1>3, <1>5

(* The greatest of a set of numbers up to n that has n. *)
LEMMA MaxOf ==
  ASSUME NEW n \in Nat, NEW s \in SUBSET (1..n), n \in s
  PROVE  Max(s) = n
  <1>1. \A x \in s : (\A y \in s : x >= y) <=> x = n
    OBVIOUS
  <1>2. \E x \in s : \A y \in s : x >= y
    BY <1>1
  <1>3. Max(s) \in s /\ \A y \in s : Max(s) >= y
    BY <1>2, Zenon DEF Max
  <1>. QED  BY <1>1, <1>3

(* A set of numbers up to n that is not empty has a greatest element. *)
LEMMA MaxIn ==
  ASSUME NEW n \in Nat, NEW s \in SUBSET (1..n), s # {}
  PROVE  Max(s) \in s /\ \A x \in s : x <= Max(s)
  <1> DEFINE T == {n - x : x \in s}
  <1>1. T \in SUBSET Nat /\ T # {}
    <2>1. \A x \in s : n - x \in Nat
      OBVIOUS
    <2>. QED  BY <2>1
  <1>2. Min(T) \in T /\ \A x \in T : Min(T) <= x
    BY <1>1, LeastNatural
  <1>3. PICK m \in s : Min(T) = n - m
    BY <1>2
  <1>4. \A x \in s : n - m <= n - x
    BY <1>2, <1>3
  <1>5. \A x \in s : m >= x
    BY <1>4
  <1>6. \E x \in s : \A y \in s : x >= y
    BY <1>5
  <1>7. Max(s) \in s /\ \A y \in s : Max(s) >= y
    BY <1>6, Zenon DEF Max
  <1>. QED  BY <1>7

(* Multiples. *)
LEMMA Product ==
  ASSUME NEW a \in Nat, NEW b \in Nat, NEW n \in Nat, a < b
  PROVE  a * n + n <= b * n /\ a * n \in Nat /\ b * n \in Nat
  <1> DEFINE d == b - a - 1
  <1>1. d \in Nat /\ b = a + d + 1
    OBVIOUS
  <1> HIDE DEF d
  <1>2. b * n = a * n + d * n + n /\ d * n \in Nat /\ a * n \in Nat
    BY <1>1
  <1>. QED  BY <1>2

-----------------------------------------------------------------------------
(* Folds and functions that are defined by recursion. *)

(* g is what a fold goes through, as MapThenFoldSet has it. *)
Folds(g, n, base, step) ==
  \A s \in SUBSET (1..n) : g[s] = IF s = {} THEN base ELSE step[Max(s)][g[s \ {Max(s)}]]

(* There is a function that folds as MapThenFoldSet asks. *)
LEMMA FoldExists ==
  ASSUME NEW n \in Nat, NEW A, NEW base \in A, NEW step \in [1..n -> [A -> A]]
  PROVE  \E g \in [SUBSET (1..n) -> A] : Folds(g, n, base, step)
  <1> DEFINE S == {k \in 0..n : \E g \in [SUBSET (1..k) -> A] : Folds(g, k, base, step)}
  <1>1. 0 \in S
    <2> DEFINE g == [s \in SUBSET (1..0) |-> base]
    <2>1. SUBSET (1..0) = {{}}
      OBVIOUS
    <2>2. g \in [SUBSET (1..0) -> A] /\ Folds(g, 0, base, step)
      BY <2>1 DEF Folds
    <2>. QED  BY <2>2
  <1>2. ASSUME NEW k \in 0..n-1, k \in S PROVE k + 1 \in S
    <2>1. PICK g \in [SUBSET (1..k) -> A] : Folds(g, k, base, step)
      BY <1>2
    <2> DEFINE h == [s \in SUBSET (1..k+1) |->
                       IF k + 1 \in s THEN step[k+1][g[s \ {k+1}]] ELSE g[s]]
    <2>2. \A s \in SUBSET (1..k+1) :
            /\ k + 1 \in s => Max(s) = k + 1 /\ s \ {k+1} \in SUBSET (1..k)
            /\ k + 1 \notin s => s \in SUBSET (1..k)
      <3>1. k + 1 \in Nat
        OBVIOUS
      <3>. QED  BY <3>1, MaxOf
    <2>3. \A s \in SUBSET (1..k+1) : h[s] \in A
      <3>1. \A s \in SUBSET (1..k) : g[s] \in A
        OBVIOUS
      <3>2. \A x \in A : step[k+1][x] \in A
        OBVIOUS
      <3>. QED  BY <2>2, <3>1, <3>2
    <2>4. ASSUME NEW s \in SUBSET (1..k+1)
          PROVE  h[s] = IF s = {} THEN base ELSE step[Max(s)][h[s \ {Max(s)}]]
      <3>1. CASE k + 1 \in s
        <4>1. k + 1 \notin s \ {k+1} /\ s \ {k+1} \in SUBSET (1..k+1)
          OBVIOUS
        <4>2. h[s \ {k+1}] = g[s \ {k+1}]
          BY <4>1
        <4>. QED  BY <3>1, <2>2, <4>2
      <3>2. CASE k + 1 \notin s
        <4>1. /\ s \in SUBSET (1..k) /\ s \ {Max(s)} \in SUBSET (1..k)
              /\ s \ {Max(s)} \in SUBSET (1..k+1) /\ k + 1 \notin s \ {Max(s)}
          BY <3>2, <2>2
        <4>2. h[s] = g[s] /\ h[s \ {Max(s)}] = g[s \ {Max(s)}]
          BY <4>1, <3>2
        <4>. QED  BY <2>1, <4>1, <4>2 DEF Folds
      <3>. QED  BY <3>1, <3>2
    <2> HIDE DEF h
    <2>5. h \in [SUBSET (1..k+1) -> A]
      BY <2>3 DEF h
    <2>6. Folds(h, k+1, base, step)
      BY <2>4 DEF Folds
    <2>. QED  BY <2>5, <2>6
  <1>3. n \in S => \E g \in [SUBSET (1..n) -> A] : Folds(g, n, base, step)
    OBVIOUS
  <1> HIDE DEF S
  <1>4. \A k \in 0..n-1 : k \in S => k + 1 \in S
    BY <1>2
  <1>5. \A k \in 0..n : k \in S
    BY <1>1, <1>4, Induction
  <1>6. n \in 0..n
    OBVIOUS
  <1>. QED  BY <1>3, <1>5, <1>6

(* What a fold has after each number. *)
LEMMA FoldSteps ==
  ASSUME NEW n \in Nat
  PROVE  /\ 1..0 = {} /\ 1..n \in SUBSET (1..n)
         /\ \A k \in 1..n : /\ 1..k \in SUBSET (1..n) /\ 1..k # {}
                            /\ Max(1..k) = k /\ (1..k) \ {k} = 1..k-1
  <1>1. ASSUME NEW k \in 1..n PROVE Max(1..k) = k
    <2>1. k \in Nat /\ 1..k \in SUBSET (1..k) /\ k \in 1..k
      OBVIOUS
    <2>. QED  BY <2>1, MaxOf
  <1>. QED  BY <1>1

(* The fold of a sequence, as it goes along. *)
Traces(h, n, base, step) == h[0] = base /\ \A k \in 1..n : h[k] = step[k][h[k-1]]

Follows(it, n, A, base, step) ==
  it[{}] = base /\ \A k \in 1..n : it[1..k-1] \in A => it[1..k] = step[k][it[1..k-1]]

HasTrace(it, n, A, base, step) ==
  \E h \in [0..n -> A] : Traces(h, n, base, step) /\ it[1..n] = h[n]

(* A fold has a value after each place, the base at first. *)
LEMMA FoldTrace ==
  ASSUME NEW n \in Nat, NEW A, NEW base \in A, NEW step \in [1..n -> [A -> A]],
         NEW it, Follows(it, n, A, base, step)
  PROVE  HasTrace(it, n, A, base, step)
  <1> DEFINE h == [k \in 0..n |-> it[1..k]]
             S == {k \in 0..n : it[1..k] \in A}
  <1>1. 1..0 = {}
    OBVIOUS
  <1>2. 0 \in S
    BY <1>1 DEF Follows
  <1>3. ASSUME NEW k \in 0..n-1, k \in S PROVE k + 1 \in S
    <2>1. k + 1 \in 1..n /\ (k + 1) - 1 = k
      OBVIOUS
    <2>2. it[1..k+1] = step[k+1][it[1..k]]
      BY <1>3, <2>1 DEF Follows
    <2>3. step[k+1] \in [A -> A]
      BY <2>1
    <2>. QED  BY <1>3, <2>1, <2>2, <2>3
  <1>4. \A k \in 0..n : k \in S => it[1..k] \in A
    OBVIOUS
  <1>5. \A k \in 0..n : k \in S
    <2> HIDE DEF S
    <2>1. \A k \in 0..n-1 : k \in S => k + 1 \in S
      BY <1>3
    <2>. QED  BY <1>2, <2>1, Induction
  <1>6. h \in [0..n -> A]
    BY <1>4, <1>5
  <1>7. ASSUME NEW k \in 1..n PROVE h[k] = step[k][h[k-1]]
    <2>1. k \in 0..n /\ k - 1 \in 0..n
      OBVIOUS
    <2>2. it[1..k-1] \in A
      BY <1>4, <1>5, <2>1
    <2>. QED  BY <2>1, <2>2 DEF Follows
  <1>8. h[0] = base /\ it[1..n] = h[n]
    BY <1>1 DEF Follows
  <1> HIDE DEF h
  <1>9. Traces(h, n, base, step)
    BY <1>7, <1>8 DEF Traces
  <1>. QED  BY <1>6, <1>8, <1>9 DEF HasTrace

(* A function whose value at a number rests on that at a greater one. *)
Descends(n, A, Stops, base, next, step) ==
  /\ \A i \in 1..n : i \in Stops => base[i] \in A
  /\ \A i \in 1..n : i \notin Stops => /\ next[i] \in i+1..n
                                        /\ \A x \in A : step[i][x] \in A

Recurs(f, n, Stops, base, next, step) ==
  \A i \in 1..n : f[i] = IF i \in Stops THEN base[i] ELSE step[i][f[next[i]]]

(* There is a function that stops or goes on to a later place. *)
LEMMA DescentExists ==
  ASSUME NEW n \in Nat, NEW A, NEW Stops, NEW base, NEW next, NEW step,
         Descends(n, A, Stops, base, next, step)
  PROVE  \E f \in [1..n -> A] : Recurs(f, n, Stops, base, next, step)
  <1> DEFINE Good(f, k) ==
        \A i \in n-k+1..n : f[i] = IF i \in Stops THEN base[i] ELSE step[i][f[next[i]]]
  <1> DEFINE S == {k \in 0..n : \E f \in [n-k+1..n -> A] : Good(f, k)}
  <1>1. 0 \in S
    <2> DEFINE f == [i \in n-0+1..n |-> base[i]]
    <2>1. n-0+1..n = {}
      OBVIOUS
    <2>2. f \in [n-0+1..n -> A] /\ Good(f, 0)
      BY <2>1
    <2> HIDE DEF f, Good
    <2>. QED  BY <2>2
  <1>2. ASSUME NEW k \in 0..n-1, k \in S PROVE k + 1 \in S
    <2>1. PICK f \in [n-k+1..n -> A] : Good(f, k)
      BY <1>2
    <2> DEFINE m == n - k
    <2>2. m \in 1..n /\ n - (k + 1) + 1 = m /\ n - k + 1 = m + 1
      OBVIOUS
    <2> DEFINE h == [i \in m..n |->
                       IF i # m THEN f[i]
                       ELSE IF m \in Stops THEN base[m] ELSE step[m][f[next[m]]]]
    <2>3. \A i \in m+1..n : h[i] = f[i] /\ f[i] \in A
      BY <2>2
    <2>4. m \notin Stops => next[m] \in m+1..n /\ h[next[m]] = f[next[m]]
      BY <2>2, <2>3 DEF Descends
    <2>5. h[m] = IF m \in Stops THEN base[m] ELSE step[m][h[next[m]]]
      BY <2>2, <2>4
    <2>6. h[m] \in A
      BY <2>2, <2>3, <2>4, <2>5 DEF Descends
    <2>7. \A i \in m+1..n : i \notin Stops => next[i] \in m+1..n
      BY <2>2 DEF Descends
    <2>8. \A i \in m+1..n : h[i] = IF i \in Stops THEN base[i] ELSE step[i][h[next[i]]]
      BY <2>1, <2>2, <2>3, <2>7
    <2>9. \A i \in m..n : h[i] \in A
      BY <2>2, <2>3, <2>6
    <2>10. h \in [m..n -> A]
      BY <2>9
    <2> HIDE DEF h
    <2>11. Good(h, k + 1)
      BY <2>2, <2>5, <2>8
    <2>. QED  BY <2>2, <2>10, <2>11
  <1>3. n \in S => \E f \in [1..n -> A] : Good(f, n)
    OBVIOUS
  <1>4. \A f : Good(f, n) => Recurs(f, n, Stops, base, next, step)
    BY DEF Recurs
  <1> HIDE DEF S, Good
  <1>5. \A k \in 0..n-1 : k \in S => k + 1 \in S
    BY <1>2
  <1>6. \A k \in 0..n : k \in S
    BY <1>1, <1>5, Induction
  <1>. QED  BY <1>3, <1>4, <1>6

-----------------------------------------------------------------------------
(* string_split. *)

(* find returns a place at or behind the cursor, the first there is. *)
LEMMA FoundPlaces ==
  ASSUME NEW T, NEW s \in Seq(T), NEW p \in Seq(T), p # <<>>, NEW pos \in 1..Len(s) + 1,
         Found(s, p, pos) # {}
  PROVE  /\ Min(Found(s, p, pos)) \in Found(s, p, pos)
         /\ \A j \in Found(s, p, pos) : Min(Found(s, p, pos)) <= j
         /\ Min(Found(s, p, pos)) \in pos..Len(s) /\ Matches(s, p, Min(Found(s, p, pos)))
         /\ Min(Found(s, p, pos)) + Len(p) \in pos + 1..Len(s) + 1
  <1>1. Len(p) \in Nat \ {0} /\ Len(s) \in Nat
    OBVIOUS
  <1>2. Found(s, p, pos) \in SUBSET (pos..Len(s) + 1 - Len(p)) /\ Found(s, p, pos) \in SUBSET Nat
    BY <1>1 DEF Found
  <1>3. /\ Min(Found(s, p, pos)) \in Found(s, p, pos)
        /\ \A j \in Found(s, p, pos) : Min(Found(s, p, pos)) <= j
    BY <1>2, LeastNatural
  <1>4. Matches(s, p, Min(Found(s, p, pos)))
    BY <1>3 DEF Found
  <1>. QED  BY <1>1, <1>2, <1>3, <1>4

(* The pieces from each cursor on. *)
Pieces(s, d, res) ==
  \A pos \in 1..Len(s) + 1 :
    res[pos] = IF Found(s, d, pos) = {} THEN <<Rest(s, pos)>>
               ELSE <<SubSeq(s, pos, Min(Found(s, d, pos)) - 1)>>
                      \o res[Min(Found(s, d, pos)) + Len(d)]

(* Every place of a text has its pieces, and string_split those of the      *)
(* first.                                                                   *)
LEMMA SplitRuns ==
  ASSUME NEW T, NEW s \in Seq(T), NEW d \in Seq(T), d # <<>>
  PROVE  \E res \in [1..Len(s) + 1 -> Seq(Seq(T))] : Pieces(s, d, res) /\ Split(s, d) = res[1]
  <1> DEFINE n == Len(s) + 1
             A == Seq(Seq(T))
             Stops == {pos \in 1..n : Found(s, d, pos) = {}}
             base == [pos \in 1..n |-> <<Rest(s, pos)>>]
             next == [pos \in 1..n |-> Min(Found(s, d, pos)) + Len(d)]
             step == [pos \in 1..n |->
                        [x \in A |-> <<SubSeq(s, pos, Min(Found(s, d, pos)) - 1)>> \o x]]
             body(res) == [pos \in 1..n |->
                             IF Found(s, d, pos) = {} THEN <<Rest(s, pos)>>
                             ELSE <<SubSeq(s, pos, Min(Found(s, d, pos)) - 1)>>
                                    \o res[Min(Found(s, d, pos)) + Len(d)]]
             chosen == CHOOSE res : res = body(res)
  <1>1. n \in Nat
    OBVIOUS
  <1>2. \A i \in 1..n : base[i] \in A
    BY DEF Rest
  <1>3. ASSUME NEW i \in 1..n, i \notin Stops
        PROVE  next[i] \in i+1..n /\ \A x \in A : step[i][x] \in A
    <2>1. /\ Min(Found(s, d, i)) + Len(d) \in i+1..n
          /\ Min(Found(s, d, i)) - 1 \in Int
      BY <1>3, FoundPlaces
    <2>2. SubSeq(s, i, Min(Found(s, d, i)) - 1) \in Seq(T)
      BY <1>3, FoundPlaces
    <2>. QED  BY <2>1, <2>2
  <1>4. PICK f \in [1..n -> A] : Recurs(f, n, Stops, base, next, step)
    <2>1. Descends(n, A, Stops, base, next, step)
      BY <1>2, <1>3 DEF Descends
    <2> HIDE DEF Stops, base, next, step, n, A, body, chosen
    <2>. QED  BY <1>1, <2>1, DescentExists
  <1>5. f = body(f)
    <2>1. ASSUME NEW i \in 1..n, i \notin Stops PROVE f[i] = body(f)[i]
      <3>1. f[next[i]] \in A
        BY <1>3, <2>1
      <3>. QED  BY <1>4, <2>1, <3>1 DEF Recurs
    <2>2. \A i \in Stops : f[i] = body(f)[i]
      BY <1>4 DEF Recurs
    <2>. QED  BY <2>1, <2>2
  <1>6. chosen = body(chosen)
    BY <1>5
  <1>7. Split(s, d) = chosen[1]
    BY DEF Split
  <1> HIDE DEF chosen
  <1>8. \A i \in 1..n : chosen[i] = body(chosen)[i]
    BY <1>6
  <1>9. Pieces(s, d, chosen)
    BY <1>8 DEF Pieces
  <1>10. chosen \in [1..n -> A]
    <2> DEFINE S == {i \in 1..n : chosen[i] \in A}
    <2>1. ASSUME NEW k \in 1..n, \A j \in k+1..n : j \in S PROVE k \in S
      <3>1. CASE k \in Stops
        BY <3>1, <1>2, <1>8
      <3>2. CASE k \notin Stops
        <4>1. chosen[next[k]] \in A
          BY <1>3, <2>1, <3>2
        <4>2. chosen[k] = step[k][chosen[next[k]]]
          BY <4>1, <1>8, <3>2
        <4>. QED  BY <1>3, <3>2, <4>1, <4>2
      <3>. QED  BY <3>1, <3>2
    <2>2. \A i \in 1..n : i \in S => chosen[i] \in A
      OBVIOUS
    <2> HIDE DEF S
    <2>3. \A i \in 1..n : i \in S
      BY <1>1, <2>1, Descent
    <2>4. \A i \in 1..n : chosen[i] \in A
      BY <2>2, <2>3
    <2>. QED  BY <1>6, <2>4
  <1>. QED  BY <1>7, <1>9, <1>10

-----------------------------------------------------------------------------
(* The directories of PATH. *)

(* Where a directory that begins at i ends. *)
Colons(path, i) == {j \in i..Len(path) : path[j] = Colon}
DirectoryEnd(path, i) == IF Colons(path, i) = {} THEN Len(path) + 1 ELSE Min(Colons(path, i))

(* A directory ends at the next colon, or where PATH ends. *)
LEMMA DirectoryEnds ==
  ASSUME NEW T, NEW path \in Seq(T), NEW i \in 1..Len(path) + 1
  PROVE  /\ DirectoryEnd(path, i) \in i..Len(path) + 1
         /\ i <= Len(path) => /\ Found(path, <<Colon>>, i) = Colons(path, i)
  <1>1. Colons(path, i) \in SUBSET Nat /\ Colons(path, i) \subseteq i..Len(path)
    BY DEF Colons
  <1>2. DirectoryEnd(path, i) \in i..Len(path) + 1
    <2>1. CASE Colons(path, i) = {}
      BY <2>1 DEF DirectoryEnd
    <2>2. CASE Colons(path, i) # {}
      <3>1. Min(Colons(path, i)) \in Colons(path, i)
        BY <1>1, <2>2, LeastNatural
      <3>. QED  BY <1>1, <2>2, <3>1 DEF DirectoryEnd
    <2>. QED  BY <2>1, <2>2
  <1>3. ASSUME NEW j \in 1..Len(path) PROVE Matches(path, <<Colon>>, j) <=> path[j] = Colon
    <2>1. j + Len(<<Colon>>) - 1 = j
      BY <1>3
    <2>2. SubSeq(path, j, j) = <<path[j]>>
      <3>1. \A k \in j..j : path[k] \in T
        BY <1>3
      <3>2. SubSeq(path, j, j) \in Seq(T) /\ Len(SubSeq(path, j, j)) = 1
            /\ SubSeq(path, j, j)[1] = path[j]
        BY <1>3, <3>1, SubSeqProperties
      <3>3. <<path[j]>> \in Seq(T) /\ Len(<<path[j]>>) = 1 /\ <<path[j]>>[1] = path[j]
        BY <1>3
      <3> DEFINE a == SubSeq(path, j, j)
                 b == <<path[j]>>
      <3>4. /\ a \in Seq(T) /\ b \in Seq(T) /\ Len(a) = Len(b)
            /\ \A m \in 1..Len(a) : a[m] = b[m]
        BY <3>2, <3>3
      <3> HIDE DEF a, b
      <3>5. a = b
        BY <3>4, SeqEqual
      <3>. QED  BY <3>5 DEF a, b
    <2>3. <<path[j]>> = <<Colon>> <=> path[j] = Colon
      OBVIOUS
    <2>. QED  BY <2>1, <2>2, <2>3 DEF Matches
  <1>4. i <= Len(path) => Found(path, <<Colon>>, i) = Colons(path, i)
    BY <1>3 DEF Found, Colons
  <1>. QED  BY <1>2, <1>4

(* The directories from each place on. *)
DirectedAt(path, from, i, end) ==
  /\ end = Len(path) + 1 => from[i] = <<SubSeq(path, i, Len(path))>>
  /\ end # Len(path) + 1 => from[i] = <<SubSeq(path, i, end - 1)>> \o from[end + 1]
Directed(path, from) ==
  \A i \in 1..Len(path) : DirectedAt(path, from, i, DirectoryEnd(path, i))

(* Every place of PATH has its directories, and PATH those of the first. *)
LEMMA DirectoriesRun ==
  ASSUME NEW T, NEW path \in Seq(T)
  PROVE  \E from : Directed(path, from) /\ Directories(path) = from[1]
  <1> DEFINE n == Len(path) + 1
             A == Seq(Seq(T))
             Stops == {i \in 1..n : DirectoryEnd(path, i) = n}
             base == [i \in 1..n |->
                        IF i > Len(path) THEN <<>> ELSE <<SubSeq(path, i, Len(path))>> \o <<>>]
             next == [i \in 1..n |-> DirectoryEnd(path, i) + 1]
             step == [i \in 1..n |->
                        [x \in A |-> <<SubSeq(path, i, DirectoryEnd(path, i) - 1)>> \o x]]
             body(from) == [i \in 1..n |->
                              IF i > Len(path) THEN <<>>
                              ELSE <<SubSeq(path, i, DirectoryEnd(path, i) - 1)>>
                                     \o (IF DirectoryEnd(path, i) = n THEN <<>>
                                         ELSE from[DirectoryEnd(path, i) + 1])]
             chosen == CHOOSE from : from = body(from)
  <1>1. n \in Nat
    OBVIOUS
  <1>2. \A i \in 1..n : base[i] \in A
    OBVIOUS
  <1>3. ASSUME NEW i \in 1..n, i \notin Stops
        PROVE  next[i] \in i+1..n /\ \A x \in A : step[i][x] \in A
    <2>1. DirectoryEnd(path, i) \in i..Len(path)
      BY <1>3, DirectoryEnds
    <2>2. SubSeq(path, i, DirectoryEnd(path, i) - 1) \in Seq(T)
      BY <2>1
    <2>. QED  BY <2>1, <2>2
  <1>4. PICK f \in [1..n -> A] : Recurs(f, n, Stops, base, next, step)
    <2>1. Descends(n, A, Stops, base, next, step)
      BY <1>2, <1>3 DEF Descends
    <2> HIDE DEF Stops, base, next, step, n, A, body, chosen
    <2>. QED  BY <1>1, <2>1, DescentExists
  <1>5. f = body(f)
    <2>1. ASSUME NEW i \in 1..n, i \notin Stops PROVE f[i] = body(f)[i]
      <3>1. f[next[i]] \in A /\ i <= Len(path) /\ DirectoryEnd(path, i) # n
        BY <1>3, <2>1, DirectoryEnds
      <3>2. f[i] = step[i][f[next[i]]]
        BY <1>4, <2>1 DEF Recurs
      <3>3. body(f)[i] = <<SubSeq(path, i, DirectoryEnd(path, i) - 1)>>
                           \o f[DirectoryEnd(path, i) + 1]
        BY <3>1
      <3>. QED  BY <3>1, <3>2, <3>3
    <2>2. ASSUME NEW i \in Stops PROVE f[i] = body(f)[i]
      <3>1. f[i] = base[i]
        BY <1>4 DEF Recurs
      <3>2. i > Len(path) => body(f)[i] = <<>>
        OBVIOUS
      <3>3. i <= Len(path) => body(f)[i] = <<SubSeq(path, i, Len(path))>> \o <<>>
        OBVIOUS
      <3>. QED  BY <3>1, <3>2, <3>3
    <2>. QED  BY <2>1, <2>2
  <1>6. chosen = body(chosen)
    BY <1>5
  <1>7. Directories(path) = chosen[1]
    BY DEF Directories, DirectoryEnd, Colons
  <1> HIDE DEF chosen
  <1>8. ASSUME NEW i \in 1..Len(path), DirectoryEnd(path, i) = n
        PROVE  chosen[i] = <<SubSeq(path, i, Len(path))>>
    <2>1. chosen[i] = <<SubSeq(path, i, Len(path))>> \o <<>>
      BY <1>6, <1>8
    <2>2. SubSeq(path, i, Len(path)) \in Seq(T)
      OBVIOUS
    <2>. QED  BY <2>1, <2>2
  <1>9. ASSUME NEW i \in 1..Len(path), DirectoryEnd(path, i) # n
        PROVE  chosen[i] = <<SubSeq(path, i, DirectoryEnd(path, i) - 1)>>
                             \o chosen[DirectoryEnd(path, i) + 1]
    <2>1. chosen[i] = body(chosen)[i]
      BY <1>6
    <2>2. i \in 1..n /\ ~(i > Len(path))
      OBVIOUS
    <2> HIDE DEF body
    <2>3. body(chosen)[i] = <<SubSeq(path, i, DirectoryEnd(path, i) - 1)>>
                              \o chosen[DirectoryEnd(path, i) + 1]
      BY <1>9, <2>2 DEF body
    <2>. QED  BY <2>1, <2>3
  <1>10. Directed(path, chosen)
    BY <1>8, <1>9 DEF Directed, DirectedAt
  <1>. QED  BY <1>7, <1>10

(* If no directory is without a name, they are the pieces between colons. *)
LEMMA DirectoriesAreSplit ==
  ASSUME NEW T, NEW path \in Seq(T), Colon \in T, <<>> \notin ToSet(Split(path, <<Colon>>))
  PROVE  Directories(path) = Split(path, <<Colon>>)
  <1> DEFINE d == <<Colon>>
             n == Len(path) + 1
  <1>1. d \in Seq(T) /\ d # <<>> /\ Len(d) = 1 /\ n \in Nat
    OBVIOUS
  <1>2. PICK res \in [1..n -> Seq(Seq(T))] : Pieces(path, d, res) /\ Split(path, d) = res[1]
    BY <1>1, SplitRuns
  <1>3. PICK from : Directed(path, from) /\ Directories(path) = from[1]
    BY DirectoriesRun
  <1> DEFINE S == {i \in 1..n : <<>> \notin ToSet(res[i]) => from[i] = res[i]}
  <1>4. ASSUME NEW i \in 1..n, \A j \in i+1..n : j \in S PROVE i \in S
    <2> SUFFICES ASSUME <<>> \notin ToSet(res[i]) PROVE from[i] = res[i]
      OBVIOUS
    <2>1. i <= Len(path)
      <3> SUFFICES ASSUME i = n PROVE FALSE
        OBVIOUS
      <3>1. Found(path, d, i) = {}
        BY <1>1 DEF Found
      <3>2. Rest(path, i) = <<>>
        BY DEF Rest
      <3>3. res[i] = <<Rest(path, i)>>
        BY <1>2, <3>1 DEF Pieces
      <3>. QED  BY <3>2, <3>3 DEF ToSet
    <2>2. Found(path, d, i) = Colons(path, i) /\ DirectoryEnd(path, i) \in i..n
      BY <2>1, DirectoryEnds
    <2>5. DirectedAt(path, from, i, DirectoryEnd(path, i))
      BY <1>3, <2>1 DEF Directed
    <2>3. CASE Colons(path, i) = {}
      <3>1. DirectoryEnd(path, i) = n
        BY <2>3 DEF DirectoryEnd
      <3>2. from[i] = <<SubSeq(path, i, Len(path))>>
        BY <2>5, <3>1 DEF DirectedAt
      <3>3. res[i] = <<SubSeq(path, i, Len(path))>>
        BY <1>2, <2>2, <2>3 DEF Pieces, Rest
      <3>. QED  BY <3>2, <3>3
    <2>4. CASE Colons(path, i) # {}
      <3> DEFINE e == Min(Colons(path, i))
      <3>1. e \in i..Len(path)
        BY <2>2, <2>4, <1>1, FoundPlaces
      <3>2. DirectoryEnd(path, i) = e /\ e # n /\ e + 1 \in i+1..n
        BY <2>4, <3>1 DEF DirectoryEnd
      <3> HIDE DEF e
      <3>3. res[i] = <<SubSeq(path, i, e - 1)>> \o res[e + 1]
        BY <1>1, <1>2, <2>2, <2>4 DEF Pieces, e
      <3>4. from[i] = <<SubSeq(path, i, e - 1)>> \o from[e + 1]
        BY <2>5, <3>2 DEF DirectedAt
      <3>5. <<>> \notin ToSet(res[e + 1])
        <4>1. res[e + 1] \in Seq(Seq(T))
          BY <3>2
        <4> HIDE DEF n
        <4>2. \A k \in DOMAIN res[e + 1] : k + 1 \in DOMAIN res[i] /\ res[i][k + 1] = res[e + 1][k]
          BY <3>3, <4>1
        <4>. QED  BY <4>2 DEF ToSet
      <3>6. e + 1 \in S
        BY <1>4, <3>2
      <3>. QED  BY <3>3, <3>4, <3>5, <3>6
    <2>. QED  BY <2>3, <2>4
  <1>5. 1 \in S => (<<>> \notin ToSet(res[1]) => from[1] = res[1])
    OBVIOUS
  <1> HIDE DEF S
  <1>6. \A i \in 1..n : i \in S
    BY <1>1, <1>4, Descent
  <1>7. 1 \in S
    BY <1>1, <1>6
  <1>. QED  BY <1>2, <1>3, <1>5, <1>7

-----------------------------------------------------------------------------
(* The search of PATH. *)

Start == [ended |-> FALSE, errno |-> "before", eacces |-> FALSE, dir |-> <<>>]

(* What is known when the first k directories have been tried. *)
Tried(dirs, k) == {j \in 1..k : Len(dirs[j]) <= PathMax}
Ends(dirs, outcome, k) == {j \in Tried(dirs, k) : outcome[dirs[j]] \notin NotFound}
Searched(dirs, outcome, k, s) ==
  /\ s \in [ended : BOOLEAN, errno : {"before"} \cup {outcome[d] : d \in DOMAIN outcome},
            eacces : BOOLEAN, dir : {<<>>} \cup ToSet(dirs)]
  /\ s.ended <=> Ends(dirs, outcome, k) # {}
  /\ s.ended => \E m \in Ends(dirs, outcome, k) :
                   /\ \A j \in Ends(dirs, outcome, k) : m <= j
                   /\ s.dir = dirs[m] /\ s.errno = outcome[dirs[m]]
  /\ ~s.ended =>
       /\ s.eacces <=> \E j \in Tried(dirs, k) : outcome[dirs[j]] = "EACCES"
       /\ Tried(dirs, k) = {} => s.errno = "before"
       /\ Tried(dirs, k) # {} => s.errno \in NotFound
       /\ s.errno = "EACCES" => s.eacces

(* A try leaves the search as one more directory makes it. *)
LEMMA SearchedNext ==
  ASSUME NEW n \in Nat, NEW dirs, DOMAIN dirs = 1..n, NEW outcome,
         \A j \in 1..n : Len(dirs[j]) \in Nat,
         \A j \in 1..n : Len(dirs[j]) <= PathMax => dirs[j] \in DOMAIN outcome,
         NEW k \in 1..n, NEW s, Searched(dirs, outcome, k - 1, s)
  PROVE  Searched(dirs, outcome, k, Try(s, dirs[k], outcome))
  <1> DEFINE t == Try(s, dirs[k], outcome)
             States == [ended : BOOLEAN, errno : {"before"} \cup {outcome[d] : d \in DOMAIN outcome},
                        eacces : BOOLEAN, dir : {<<>>} \cup ToSet(dirs)]
  <1>1. s \in States
    BY DEF Searched
  <1>2. dirs[k] \in ToSet(dirs) /\ Len(dirs[k]) \in Nat /\ PathMax \in Nat
    BY PathMaxAssumption DEF ToSet
  <1>3. CASE Len(dirs[k]) > PathMax
    <2>1. t = s
      BY <1>3 DEF Try
    <2>2. Tried(dirs, k) = Tried(dirs, k - 1)
      BY <1>2, <1>3 DEF Tried
    <2>3. Ends(dirs, outcome, k) = Ends(dirs, outcome, k - 1)
      BY <2>2 DEF Ends
    <2>. QED  BY <2>1, <2>2, <2>3 DEF Searched
  <1>4. Len(dirs[k]) <= PathMax => Tried(dirs, k) = Tried(dirs, k - 1) \cup {k}
    BY <1>2 DEF Tried
  <1>5. \A j \in Tried(dirs, k - 1) : j < k
    BY DEF Tried
  <1>6. CASE Len(dirs[k]) <= PathMax /\ s.ended
    <2>1. t = s
      BY <1>6 DEF Try
    <2>2. PICK m \in Ends(dirs, outcome, k - 1) :
            /\ \A j \in Ends(dirs, outcome, k - 1) : m <= j
            /\ s.dir = dirs[m] /\ s.errno = outcome[dirs[m]]
      BY <1>6 DEF Searched
    <2>3. m \in Ends(dirs, outcome, k) /\ m < k
      BY <1>4, <1>5, <1>6, <2>2 DEF Ends
    <2>4. \A j \in Ends(dirs, outcome, k) : j = k \/ j \in Ends(dirs, outcome, k - 1)
      BY <1>4, <1>6 DEF Ends
    <2>5. \A j \in Ends(dirs, outcome, k) : m <= j
      BY <2>2, <2>3, <2>4 DEF Ends, Tried
    <2>. QED  BY <1>1, <1>6, <2>1, <2>2, <2>3, <2>5 DEF Searched
  <1>7. CASE Len(dirs[k]) <= PathMax /\ ~s.ended
    <2>1. t = [ended |-> outcome[dirs[k]] \notin NotFound, errno |-> outcome[dirs[k]],
               eacces |-> s.eacces \/ outcome[dirs[k]] = "EACCES", dir |-> dirs[k]]
      BY <1>2, <1>7 DEF Try
    <2>2. dirs[k] \in DOMAIN outcome
      BY <1>7
    <2>3. t \in States
      BY <1>1, <1>2, <2>1, <2>2
    <2> HIDE DEF t
    <2>0. /\ t.ended <=> outcome[dirs[k]] \notin NotFound
          /\ t.eacces <=> s.eacces \/ outcome[dirs[k]] = "EACCES"
          /\ t.errno = outcome[dirs[k]] /\ t.dir = dirs[k]
      BY <2>1
    <2>4. Ends(dirs, outcome, k - 1) = {}
      BY <1>7 DEF Searched
    <2>5. Ends(dirs, outcome, k) = IF outcome[dirs[k]] \in NotFound THEN {} ELSE {k}
      BY <1>4, <1>7, <2>4 DEF Ends
    <2>6. t.ended <=> Ends(dirs, outcome, k) # {}
      BY <2>0, <2>5
    <2>7. t.ended => \E m \in Ends(dirs, outcome, k) :
                       /\ \A j \in Ends(dirs, outcome, k) : m <= j
                       /\ t.dir = dirs[m] /\ t.errno = outcome[dirs[m]]
      BY <2>0, <2>5
    <2>8. t.eacces <=> \E j \in Tried(dirs, k) : outcome[dirs[j]] = "EACCES"
      BY <1>4, <1>7, <2>0 DEF Searched
    <2>9. ~t.ended => t.errno \in NotFound
      BY <2>0
    <2>10. Tried(dirs, k) # {}
      BY <1>4, <1>7
    <2>11. t.errno = "EACCES" => t.eacces
      BY <2>0
    <2>12. ~t.ended =>
             /\ t.eacces <=> \E j \in Tried(dirs, k) : outcome[dirs[j]] = "EACCES"
             /\ Tried(dirs, k) = {} => t.errno = "before"
             /\ Tried(dirs, k) # {} => t.errno \in NotFound
             /\ t.errno = "EACCES" => t.eacces
      BY <2>8, <2>9, <2>10, <2>11
    <2>13. Searched(dirs, outcome, k, t)
      BY <2>3, <2>6, <2>7, <2>12, Zenon DEF Searched
    <2>. QED  BY <2>13 DEF t
  <1>. QED  BY <1>2, <1>3, <1>6, <1>7

(* Execvpe with the directories that are tried. *)
LEMMA SearchRuns ==
  ASSUME NEW n \in Nat, NEW dirs, DOMAIN dirs = 1..n, NEW outcome,
         \A j \in 1..n : Len(dirs[j]) \in Nat,
         \A j \in 1..n : Len(dirs[j]) <= PathMax => dirs[j] \in DOMAIN outcome,
         NEW path, Directories(path) = dirs
  PROVE  \E s : /\ Searched(dirs, outcome, n, s)
                /\ Execvpe(path, outcome, "before") =
                     IF s.ended THEN [dir |-> s.dir, errno |-> s.errno]
                     ELSE [dir |-> <<>>, errno |-> IF s.eacces THEN "EACCES" ELSE s.errno]
  <1> DEFINE A == [ended : BOOLEAN, errno : {"before"} \cup {outcome[d] : d \in DOMAIN outcome},
                   eacces : BOOLEAN, dir : {<<>>} \cup ToSet(dirs)]
             step == [k \in 1..n |-> [x \in A |-> Try(x, dirs[k], outcome)]]
             body(g) == [s \in SUBSET (1..n) |->
                           IF s = {} THEN Start ELSE Try(g[s \ {Max(s)}], dirs[Max(s)], outcome)]
             chosen == CHOOSE g : g = body(g)
  <1>1. ASSUME NEW k \in 1..n, NEW x \in A PROVE Try(x, dirs[k], outcome) \in A
    <2>1. dirs[k] \in ToSet(dirs) /\ Len(dirs[k]) \in Nat /\ PathMax \in Nat
      BY PathMaxAssumption DEF ToSet
    <2>. QED  BY <2>1 DEF Try
  <1>2. Start \in A
    BY DEF Start
  <1>3. step \in [1..n -> [A -> A]]
    BY <1>1
  <1>4. PICK g \in [SUBSET (1..n) -> A] : Folds(g, n, Start, step)
    <2> HIDE DEF step, A
    <2>. QED  BY <1>2, <1>3, FoldExists
  <1>5. ASSUME NEW s \in SUBSET (1..n) PROVE g[s] = body(g)[s]
    <2>1. CASE s = {}
      BY <1>4, <2>1 DEF Folds
    <2>2. CASE s # {}
      <3>1. Max(s) \in 1..n /\ s \ {Max(s)} \in SUBSET (1..n)
        BY <2>2, MaxIn
      <3>2. g[s \ {Max(s)}] \in A /\ g[s] = step[Max(s)][g[s \ {Max(s)}]]
        BY <1>4, <2>2, <3>1 DEF Folds
      <3>. QED  BY <2>2, <3>1, <3>2
    <2>. QED  BY <2>1, <2>2
  <1>6. g = body(g)
    BY <1>5
  <1>7. chosen = body(chosen)
    BY <1>6
  <1>8. Execvpe(path, outcome, "before") =
          IF chosen[1..n].ended THEN [dir |-> chosen[1..n].dir, errno |-> chosen[1..n].errno]
          ELSE [dir |-> <<>>,
                errno |-> IF chosen[1..n].eacces THEN "EACCES" ELSE chosen[1..n].errno]
    BY DEF Execvpe, FoldLeft, MapThenFoldSet, Start
  <1> HIDE DEF chosen
  <1>9. chosen[{}] = Start
    BY <1>7
  <1>10. ASSUME NEW k \in 1..n PROVE chosen[1..k] = Try(chosen[1..k-1], dirs[k], outcome)
    <2>1. \A s \in SUBSET (1..n) : chosen[s] = body(chosen)[s]
      BY <1>7
    <2>2. 1..k \in SUBSET (1..n) /\ 1..k # {} /\ Max(1..k) = k /\ (1..k) \ {k} = 1..k-1
      BY FoldSteps
    <2>. QED  BY <2>1, <2>2
  <1> DEFINE S == {k \in 0..n : Searched(dirs, outcome, k, chosen[1..k])}
  <1>11. 0 \in S
    <2>1. Tried(dirs, 0) = {} /\ Ends(dirs, outcome, 0) = {}
      BY DEF Tried, Ends
    <2>2. Searched(dirs, outcome, 0, Start)
      BY <1>2, <2>1 DEF Searched, Start
    <2>. QED  BY <1>9, <2>2, FoldSteps
  <1>12. ASSUME NEW k \in 0..n-1, k \in S PROVE k + 1 \in S
    <2>1. k + 1 \in 1..n /\ (k + 1) - 1 = k
      OBVIOUS
    <2>2. Searched(dirs, outcome, k + 1, Try(chosen[1..k], dirs[k + 1], outcome))
      BY <1>12, <2>1, SearchedNext
    <2>. QED  BY <1>10, <2>1, <2>2
  <1>13. n \in S => Searched(dirs, outcome, n, chosen[1..n])
    OBVIOUS
  <1> HIDE DEF S
  <1>14. \A k \in 0..n-1 : k \in S => k + 1 \in S
    BY <1>12
  <1>15. \A k \in 0..n : k \in S
    BY <1>11, <1>14, Induction
  <1>. QED  BY <1>8, <1>13, <1>15

(* Whatever execve does, the first file that runs or fails for itself ends  *)
(* the search.                                                              *)
LEMMA SearchFinds ==
  ASSUME NEW path, path \in Seq(ToSet(path)),
         NEW outcome, DOMAIN outcome = {d \in ToSet(Directories(path)) : Len(d) <= PathMax}
  PROVE  FirstIsRun(path, outcome, Execvpe(path, outcome, "before"))
  <1> DEFINE T == ToSet(path) \cup {Colon}
             dirs == Split(path, <<Colon>>)
             n == Len(dirs)
             answer == Execvpe(path, outcome, "before")
             tried == {k \in DOMAIN dirs : Len(dirs[k]) <= PathMax}
             ends == {k \in tried : outcome[dirs[k]] \notin NotFound}
  <1> SUFFICES ASSUME <<>> \notin ToSet(dirs)
               PROVE  /\ ends # {} =>
                           answer = [dir |-> dirs[Min(ends)], errno |-> outcome[dirs[Min(ends)]]]
                      /\ ends = {} =>
                           /\ answer.dir = <<>>
                           /\ answer.errno =
                                CASE \E k \in tried : outcome[dirs[k]] = "EACCES" -> "EACCES"
                                  [] tried = {} -> "before"
                                  [] OTHER -> "ENOENT"
    BY DEF FirstIsRun
  <1>1. path \in Seq(T) /\ Colon \in T /\ <<Colon>> \in Seq(T) /\ <<Colon>> # <<>>
    BY SeqMonotonic
  <1>2. Directories(path) = dirs
    BY <1>1, DirectoriesAreSplit
  <1>3. dirs \in Seq(Seq(T))
    <2> DEFINE d == <<Colon>>
    <2>1. d \in Seq(T) /\ d # <<>> /\ path \in Seq(T)
      BY <1>1
    <2> HIDE DEF T, d
    <2>2. PICK res \in [1..Len(path) + 1 -> Seq(Seq(T))] : Pieces(path, d, res) /\ Split(path, d) = res[1]
      BY <2>1, SplitRuns
    <2>3. 1 \in 1..Len(path) + 1
      BY <2>1
    <2>. QED  BY <2>2, <2>3 DEF d
  <1>4. /\ n \in Nat /\ DOMAIN dirs = 1..n /\ \A j \in 1..n : Len(dirs[j]) \in Nat
    <2> HIDE DEF T, dirs
    <2>. QED  BY <1>3
  <1>11. \A j \in 1..n : dirs[j] \in ToSet(dirs)
    BY <1>4 DEF ToSet
  <1>5. \A j \in 1..n : Len(dirs[j]) <= PathMax => dirs[j] \in DOMAIN outcome
    BY <1>2, <1>4, <1>11
  <1>6. tried = Tried(dirs, n)
    BY <1>4 DEF Tried
  <1>7. ends = Ends(dirs, outcome, n)
    BY <1>6 DEF Ends
  <1> HIDE DEF dirs, n, tried, ends
  <1>8. PICK s : /\ Searched(dirs, outcome, n, s)
                 /\ answer = IF s.ended THEN [dir |-> s.dir, errno |-> s.errno]
                             ELSE [dir |-> <<>>, errno |-> IF s.eacces THEN "EACCES" ELSE s.errno]
    BY <1>2, <1>4, <1>5, SearchRuns
  <1>9. ASSUME ends # {}
        PROVE  answer = [dir |-> dirs[Min(ends)], errno |-> outcome[dirs[Min(ends)]]]
    <2>1. PICK m \in ends : (\A j \in ends : m <= j) /\ s.dir = dirs[m]
          /\ s.errno = outcome[dirs[m]]
      BY <1>7, <1>8, <1>9 DEF Searched
    <2>2. \A j \in ends : j \in Nat
      BY <1>4 DEF ends, tried
    <2>3. Min(ends) = m
      <3>1. Min(ends) \in ends /\ \A j \in ends : Min(ends) <= j
        BY <1>9, <2>2, LeastNatural
      <3>. QED  BY <2>1, <2>2, <3>1
    <2>4. s.ended
      BY <1>7, <1>8, <1>9 DEF Searched
    <2>. QED  BY <1>8, <2>1, <2>3, <2>4
  <1>10. ASSUME ends = {}
         PROVE  /\ answer.dir = <<>>
                /\ answer.errno = CASE \E k \in tried : outcome[dirs[k]] = "EACCES" -> "EACCES"
                                    [] tried = {} -> "before"
                                    [] OTHER -> "ENOENT"
    <2>1. ~s.ended
      BY <1>7, <1>8, <1>10 DEF Searched
    <2>2. answer = [dir |-> <<>>, errno |-> IF s.eacces THEN "EACCES" ELSE s.errno]
      BY <1>8, <2>1
    <2>3. /\ s.eacces <=> \E k \in tried : outcome[dirs[k]] = "EACCES"
          /\ tried = {} => s.errno = "before"
          /\ tried # {} => s.errno \in NotFound
          /\ s.errno = "EACCES" => s.eacces
      BY <1>6, <1>8, <2>1 DEF Searched
    <2>4. CASE s.eacces
      BY <2>2, <2>3, <2>4
    <2>5. CASE ~s.eacces /\ tried = {}
      BY <2>2, <2>3, <2>5
    <2>6. CASE ~s.eacces /\ tried # {}
      BY <2>2, <2>3, <2>6 DEF NotFound
    <2>. QED  BY <2>4, <2>5, <2>6
  <1>. QED  BY <1>9, <1>10

(* A search of PATH ends where POSIX says it does, whatever PATH and        *)
(* whatever is in its directories.                                          *)
THEOREM SearchCorrect == Spec => []TheFirstIsRun
  <1>1. Init => TheFirstIsRun
    BY DEF Init, TheFirstIsRun
  <1>2. ASSUME TheFirstIsRun, [Next]_vars PROVE TheFirstIsRun'
    <2>1. CASE SearchPath
      <3>1. PICK path \in SearchPaths :
              \E outcome \in [{d \in ToSet(Directories(path)) : Len(d) <= PathMax} -> Errnos] :
                Called("search", [path |-> path, outcome |-> outcome],
                       Execvpe(path, outcome, "before"))
        BY <2>1 DEF SearchPath
      <3>2. PICK outcome \in [{d \in ToSet(Directories(path)) : Len(d) <= PathMax} -> Errnos] :
              Called("search", [path |-> path, outcome |-> outcome],
                     Execvpe(path, outcome, "before"))
        BY <3>1
      <3>3. FirstIsRun(path, outcome, Execvpe(path, outcome, "before"))
        <4>1. path \in Seq(ToSet(path))
          BY AlgorithmsAssumption
        <4>. QED  BY <4>1, SearchFinds
      <3>4. given'.path = path /\ given'.outcome = outcome
            /\ result' = Execvpe(path, outcome, "before")
        BY <3>2 DEF Called
      <3>. QED  BY <3>3, <3>4 DEF TheFirstIsRun
    <2>2. CASE ~SearchPath /\ Next
      <3>1. call' # "search"
        BY <2>2 DEF Next, Called, StringReplaceAllTemplates, StringSplit, Execute,
           OpenArguments,
             OpenIn, Receive, ReceiveNothing, ComputeCrc, ParseLine, CombineAndParse, WriteList,
             InsertJsonInto, ReadImage, LookForSection
      <3>. QED  BY <3>1 DEF TheFirstIsRun
    <2>3. CASE UNCHANGED vars
      BY <1>2, <2>3 DEF vars, TheFirstIsRun
    <2>. QED  BY <1>2, <2>1, <2>2, <2>3
  <1>. QED  BY <1>1, <1>2, PTL DEF Spec
-----------------------------------------------------------------------------
(* CRC32. *)

BitWords == SUBSET AllOnes

(* Where the ones of a word are, bit by bit. *)
LEMMA WordBitsOf ==
  /\ \A v \in BitWords, n \in Nat :
       Shifted(v, n) \in BitWords /\ \A k \in Nat : k \in Shifted(v, n) <=> k + n \in v
  /\ \A v, w \in BitWords :
       SymDiff(v, w) \in BitWords /\ \A k : k \in SymDiff(v, w) <=> ~(k \in v <=> k \in w)
  /\ \A v \in BitWords :
       Step(v) \in BitWords
         /\ \A k \in AllOnes : k \in Step(v) <=> ~(k + 1 \in v <=> 0 \in v /\ k \in Polynomial)
  <1>1. ASSUME NEW v \in BitWords, NEW n \in Nat
        PROVE  Shifted(v, n) \in BitWords /\ \A k \in Nat : k \in Shifted(v, n) <=> k + n \in v
    <2>1. \A k \in v : k \in 0..WordBits - 1
      BY DEF BitWords, AllOnes
    <2>2. \A k \in Shifted(v, n) : k \in 0..WordBits - 1
      BY <2>1, CrcAssumption DEF Shifted
    <2>3. \A k \in Nat : k \in Shifted(v, n) <=> k + n \in v
      BY <2>1, CrcAssumption DEF Shifted
    <2>. QED  BY <2>2, <2>3 DEF BitWords, AllOnes
  <1>2. ASSUME NEW v \in BitWords, NEW w \in BitWords
        PROVE  SymDiff(v, w) \in BitWords /\ \A k : k \in SymDiff(v, w) <=> ~(k \in v <=> k \in w)
    BY DEF SymDiff, BitWords
  <1>3. ASSUME NEW v \in BitWords
        PROVE  Step(v) \in BitWords
                 /\ \A k \in AllOnes : k \in Step(v) <=> ~(k + 1 \in v <=> 0 \in v /\ k \in Polynomial)
    <2>1. Polynomial \in BitWords /\ {} \in BitWords /\ \A k \in AllOnes : k \in Nat
      BY CrcAssumption DEF BitWords, AllOnes
    <2>2. Shifted(v, 1) \in BitWords /\ \A k \in Nat : k \in Shifted(v, 1) <=> k + 1 \in v
      BY <1>1
    <2>. QED  BY <1>2, <2>1, <2>2 DEF Step
  <1>. QED  BY <1>1, <1>2, <1>3

(* The entry of the table for a byte is what is left of it after as many    *)
(* steps as it has bits.                                                    *)
LEMMA TableSteps ==
  ASSUME NEW i \in SUBSET LowByte
  PROVE  \E h \in [0..ByteBits -> BitWords] :
           /\ h[0] = i
           /\ \A k \in 1..ByteBits : h[k] = Step(h[k-1])
           /\ CrcTable[i] = h[ByteBits]
  <1> DEFINE n == ByteBits
             step == [k \in 1..n |-> [x \in BitWords |-> Step(x)]]
             body(g) == [s \in SUBSET (DOMAIN [j \in 1..ByteBits |-> j]) |->
                           IF s = {} THEN i ELSE Step(g[s \ {Max(s)}])]
             chosen == CHOOSE g : g = body(g)
  <1>0. (DOMAIN [j \in 1..ByteBits |-> j]) = 1..n
    OBVIOUS
  <1>1. n \in Nat /\ i \in BitWords
    BY CrcAssumption DEF BitWords, AllOnes, LowByte
  <1>2. step \in [1..n -> [BitWords -> BitWords]]
    BY WordBitsOf
  <1>3. PICK g \in [SUBSET (1..n) -> BitWords] : Folds(g, n, i, step)
    <2> HIDE DEF step, n
    <2>. QED  BY <1>1, <1>2, FoldExists
  <1>4. ASSUME NEW s \in SUBSET (1..n) PROVE g[s] = body(g)[s]
    <2>1. CASE s = {}
      BY <1>3, <2>1 DEF Folds
    <2>2. CASE s # {}
      <3>1. Max(s) \in 1..n /\ s \ {Max(s)} \in SUBSET (1..n)
        BY <1>1, <2>2, MaxIn
      <3>2. g[s \ {Max(s)}] \in BitWords /\ g[s] = step[Max(s)][g[s \ {Max(s)}]]
        BY <1>3, <2>2, <3>1 DEF Folds
      <3>. QED  BY <2>2, <3>1, <3>2
    <2>. QED  BY <2>1, <2>2
  <1>5. g = body(g)
    BY <1>0, <1>4
  <1>6. chosen = body(chosen)
    BY <1>5
  <1>7. CrcTable[i] = chosen[(DOMAIN [j \in 1..ByteBits |-> j])]
    BY DEF CrcTable, FoldLeft, MapThenFoldSet
  <1> HIDE DEF chosen
  <1>8. \A s \in SUBSET (1..n) : chosen[s] = body(chosen)[s]
    BY <1>0, <1>6
  <1>9. chosen[{}] = i
    BY <1>8
  <1>10. ASSUME NEW k \in 1..n PROVE chosen[1..k] = Step(chosen[1..k-1])
    <2>1. 1..k \in SUBSET (1..n) /\ 1..k # {} /\ Max(1..k) = k /\ (1..k) \ {k} = 1..k-1
      BY <1>1, FoldSteps
    <2>. QED  BY <1>0, <1>8, <2>1
  <1>11. \A k \in 1..n : chosen[1..k-1] \in BitWords => chosen[1..k] = step[k][chosen[1..k-1]]
    BY <1>10
  <1>15. Follows(chosen, n, BitWords, i, step)
    BY <1>9, <1>11 DEF Follows
  <1>12. PICK h \in [0..n -> BitWords] : Traces(h, n, i, step) /\ chosen[1..n] = h[n]
    <2>1. HasTrace(chosen, n, BitWords, i, step)
      <3> HIDE DEF step, n
      <3>. QED  BY <1>1, <1>2, <1>15, FoldTrace
    <2>. QED  BY <2>1 DEF HasTrace
  <1>13. \A k \in 1..n : k - 1 \in 0..n /\ h[k] = step[k][h[k-1]]
    BY <1>1, <1>12 DEF Traces
  <1>14. \A k \in 1..n : h[k] = Step(h[k-1])
    BY <1>12, <1>13
  <1>. QED  BY <1>0, <1>7, <1>12, <1>14 DEF Traces

(* What compute does with a byte. *)
ByteStep(v, byte) == SymDiff(Shifted(v, ByteBits), CrcTable[SymDiff(v \cap LowByte, byte)])

(* The register stays a word. *)
LEMMA ByteStepWord ==
  ASSUME NEW v \in BitWords, NEW byte \in SUBSET LowByte
  PROVE  ByteStep(v, byte) \in BitWords
  <1>1. SymDiff(v \cap LowByte, byte) \in SUBSET LowByte
    BY DEF SymDiff
  <1>2. PICK t \in [0..ByteBits -> BitWords] : CrcTable[SymDiff(v \cap LowByte, byte)] = t[ByteBits]
    BY <1>1, TableSteps
  <1>3. ByteBits \in 0..ByteBits /\ ByteBits \in Nat
    BY CrcAssumption
  <1>. QED  BY <1>2, <1>3, WordBitsOf DEF ByteStep

(* compute goes from byte to byte. *)
LEMMA ComputeSteps ==
  ASSUME NEW value \in BitWords, NEW buffer \in Seq(SUBSET LowByte)
  PROVE  \E h \in [0..Len(buffer) -> BitWords] :
           /\ h[0] = value
           /\ \A k \in 1..Len(buffer) : h[k] = ByteStep(h[k-1], buffer[k])
           /\ Compute(value, buffer) = h[Len(buffer)]
  <1> DEFINE n == Len(buffer)
             step == [k \in 1..n |-> [x \in BitWords |-> ByteStep(x, buffer[k])]]
             body(g) == [s \in SUBSET (DOMAIN buffer) |->
                           IF s = {} THEN value ELSE ByteStep(g[s \ {Max(s)}], buffer[Max(s)])]
             chosen == CHOOSE g : g = body(g)
  <1>0. (DOMAIN buffer) = 1..n
    OBVIOUS
  <1>1. n \in Nat /\ value \in BitWords
    OBVIOUS
  <1>2. step \in [1..n -> [BitWords -> BitWords]]
    BY ByteStepWord
  <1>3. PICK g \in [SUBSET (1..n) -> BitWords] : Folds(g, n, value, step)
    <2> HIDE DEF step, n
    <2>. QED  BY <1>1, <1>2, FoldExists
  <1>4. ASSUME NEW s \in SUBSET (1..n) PROVE g[s] = body(g)[s]
    <2>1. CASE s = {}
      BY <1>3, <2>1 DEF Folds
    <2>2. CASE s # {}
      <3>1. Max(s) \in 1..n /\ s \ {Max(s)} \in SUBSET (1..n)
        BY <1>1, <2>2, MaxIn
      <3>2. g[s \ {Max(s)}] \in BitWords /\ g[s] = step[Max(s)][g[s \ {Max(s)}]]
        BY <1>3, <2>2, <3>1 DEF Folds
      <3>. QED  BY <2>2, <3>1, <3>2
    <2>. QED  BY <2>1, <2>2
  <1>5. g = body(g)
    BY <1>0, <1>4
  <1>6. chosen = body(chosen)
    BY <1>5
  <1>7. Compute(value, buffer) = chosen[(DOMAIN buffer)]
    BY DEF Compute, ByteStep, FoldLeft, MapThenFoldSet
  <1> HIDE DEF chosen
  <1>8. \A s \in SUBSET (1..n) : chosen[s] = body(chosen)[s]
    BY <1>0, <1>6
  <1>9. chosen[{}] = value
    BY <1>8
  <1>10. ASSUME NEW k \in 1..n PROVE chosen[1..k] = ByteStep(chosen[1..k-1], buffer[k])
    <2>1. 1..k \in SUBSET (1..n) /\ 1..k # {} /\ Max(1..k) = k /\ (1..k) \ {k} = 1..k-1
      BY <1>1, FoldSteps
    <2>. QED  BY <1>0, <1>8, <2>1
  <1>11. \A k \in 1..n : chosen[1..k-1] \in BitWords => chosen[1..k] = step[k][chosen[1..k-1]]
    BY <1>10
  <1>15. Follows(chosen, n, BitWords, value, step)
    BY <1>9, <1>11 DEF Follows
  <1>12. PICK h \in [0..n -> BitWords] : Traces(h, n, value, step) /\ chosen[1..n] = h[n]
    <2>1. HasTrace(chosen, n, BitWords, value, step)
      <3> HIDE DEF step, n
      <3>. QED  BY <1>1, <1>2, <1>15, FoldTrace
    <2>. QED  BY <2>1 DEF HasTrace
  <1>13. \A k \in 1..n : k - 1 \in 0..n /\ h[k] = step[k][h[k-1]]
    BY <1>1, <1>12 DEF Traces
  <1>14. \A k \in 1..n : h[k] = ByteStep(h[k-1], buffer[k])
    BY <1>12, <1>13
  <1>. QED  BY <1>0, <1>7, <1>12, <1>14 DEF Traces

Coefficients == SUBSET Nat

(* A step of the division, bit by bit. *)
LEMMA DividedNat ==
  ASSUME NEW c \in Coefficients, NEW i \in Nat
  PROVE  /\ Divide(c, i) \in Coefficients
         /\ \A p \in Nat : p \in Divide(c, i) <=>
              ~(p \in c <=> i \in c /\ (p = i \/ p - i - 1 \in Polynomial))
  <1>1. \A k \in Polynomial : k \in Nat
    BY CrcAssumption
  <1>2. \A p \in Nat : p \in {i + k : k \in Generator} <=> p = i \/ p - i - 1 \in Polynomial
    BY <1>1 DEF Generator
  <1>3. {i + k : k \in Generator} \in SUBSET Nat
    BY <1>1 DEF Generator
  <1>. QED  BY <1>2, <1>3 DEF Divide, SymDiff, Coefficients

(* The division goes from coefficient to coefficient. *)
LEMMA DivideSteps ==
  ASSUME NEW m \in Nat, NEW c \in Coefficients
  PROVE  \E h \in [0..m -> Coefficients] :
           /\ h[0] = c
           /\ \A k \in 1..m : h[k] = Divide(h[k-1], k)
           /\ FoldLeft(Divide, c, [i \in 1..m |-> i]) = h[m]
  <1> DEFINE n == m
             step == [k \in 1..n |-> [x \in Coefficients |-> Divide(x, k)]]
             body(g) == [s \in SUBSET (DOMAIN [i \in 1..m |-> i]) |->
                           IF s = {} THEN c ELSE Divide(g[s \ {Max(s)}], [i \in 1..m |-> i][Max(s)])]
             chosen == CHOOSE g : g = body(g)
  <1>0. (DOMAIN [i \in 1..m |-> i]) = 1..n
    OBVIOUS
  <1>1. n \in Nat /\ c \in Coefficients
    OBVIOUS
  <1>2. step \in [1..n -> [Coefficients -> Coefficients]]
    BY DividedNat
  <1>3. PICK g \in [SUBSET (1..n) -> Coefficients] : Folds(g, n, c, step)
    <2> HIDE DEF step, n
    <2>. QED  BY <1>1, <1>2, FoldExists
  <1>4. ASSUME NEW s \in SUBSET (1..n) PROVE g[s] = body(g)[s]
    <2>1. CASE s = {}
      BY <1>3, <2>1 DEF Folds
    <2>2. CASE s # {}
      <3>1. Max(s) \in 1..n /\ s \ {Max(s)} \in SUBSET (1..n)
        BY <1>1, <2>2, MaxIn
      <3>2. g[s \ {Max(s)}] \in Coefficients /\ g[s] = step[Max(s)][g[s \ {Max(s)}]]
        BY <1>3, <2>2, <3>1 DEF Folds
      <3>. QED  BY <2>2, <3>1, <3>2
    <2>. QED  BY <2>1, <2>2
  <1>5. g = body(g)
    BY <1>0, <1>4
  <1>6. chosen = body(chosen)
    BY <1>5
  <1>7. FoldLeft(Divide, c, [i \in 1..m |-> i]) = chosen[(DOMAIN [i \in 1..m |-> i])]
    BY DEF FoldLeft, MapThenFoldSet
  <1> HIDE DEF chosen
  <1>8. \A s \in SUBSET (1..n) : chosen[s] = body(chosen)[s]
    BY <1>0, <1>6
  <1>9. chosen[{}] = c
    BY <1>8
  <1>10. ASSUME NEW k \in 1..n PROVE chosen[1..k] = Divide(chosen[1..k-1], k)
    <2>1. 1..k \in SUBSET (1..n) /\ 1..k # {} /\ Max(1..k) = k /\ (1..k) \ {k} = 1..k-1
      BY <1>1, FoldSteps
    <2>. QED  BY <1>0, <1>8, <2>1
  <1>11. \A k \in 1..n : chosen[1..k-1] \in Coefficients => chosen[1..k] = step[k][chosen[1..k-1]]
    BY <1>10
  <1>15. Follows(chosen, n, Coefficients, c, step)
    BY <1>9, <1>11 DEF Follows
  <1>12. PICK h \in [0..n -> Coefficients] : Traces(h, n, c, step) /\ chosen[1..n] = h[n]
    <2>1. HasTrace(chosen, n, Coefficients, c, step)
      <3> HIDE DEF step, n
      <3>. QED  BY <1>1, <1>2, <1>15, FoldTrace
    <2>. QED  BY <2>1 DEF HasTrace
  <1>13. \A k \in 1..n : k - 1 \in 0..n /\ h[k] = step[k][h[k-1]]
    BY <1>1, <1>12 DEF Traces
  <1>14. \A k \in 1..n : h[k] = Divide(h[k-1], k)
    BY <1>12, <1>13
  <1>. QED  BY <1>0, <1>7, <1>12, <1>14 DEF Traces

(* The register that belongs to a division at i: what is left of the        *)
(* coefficients behind i, without the message, which compute has not read.  *)
Register(c, m, i) == {k \in AllOnes : ~(i + k + 1 \in c <=> i + k + 1 \in m)}
Untouched(c, m, i) == \A p \in Nat : p > i + WordBits => (p \in c <=> p \in m)

(* A step of the division is a step of the register that takes one bit      *)
(* in.                                                                      *)
LEMMA DividedBit ==
  ASSUME NEW c \in Coefficients, NEW m \in Coefficients, NEW i \in Nat \ {0},
         Untouched(c, m, i - 1)
  PROVE  /\ Untouched(Divide(c, i), m, i)
         /\ i \in c <=> ~(0 \in Register(c, m, i - 1) <=> i \in m)
         /\ \A k \in AllOnes : k \in Register(Divide(c, i), m, i) <=>
              ~(k + 1 \in Register(c, m, i - 1) <=> i \in c /\ k \in Polynomial)
  <1>1. /\ WordBits \in Nat \ {0} /\ 0 \in AllOnes /\ \A k \in AllOnes : k \in 0..WordBits - 1
        /\ \A k \in Polynomial : k \in 0..WordBits - 1
    BY CrcAssumption DEF AllOnes
  <1>2. \A p \in Nat : p \in Divide(c, i) <=>
              ~(p \in c <=> i \in c /\ (p = i \/ p - i - 1 \in Polynomial))
    BY DividedNat
  <1>3. ASSUME NEW p \in Nat, p > i + WordBits PROVE p \in Divide(c, i) <=> p \in m
    <2>1. p # i /\ p - i - 1 \notin Polynomial /\ p > (i - 1) + WordBits
      BY <1>1, <1>3
    <2>2. p \in c <=> p \in m
      BY <2>1 DEF Untouched
    <2>. QED  BY <1>2, <2>1, <2>2
  <1>4. i \in c <=> ~(0 \in Register(c, m, i - 1) <=> i \in m)
    <2>1. (i - 1) + 0 + 1 = i
      OBVIOUS
    <2>. QED  BY <1>1, <2>1 DEF Register
  <1>5. ASSUME NEW k \in AllOnes
        PROVE  k \in Register(Divide(c, i), m, i) <=>
                 ~(k + 1 \in Register(c, m, i - 1) <=> i \in c /\ k \in Polynomial)
    <2>1. i + k + 1 \in Nat /\ i + k + 1 # i /\ (i + k + 1) - i - 1 = k
      BY <1>1
    <2>2. i + k + 1 \in Divide(c, i) <=> ~(i + k + 1 \in c <=> i \in c /\ k \in Polynomial)
      BY <1>2, <2>1
    <2>3. k + 1 \in Register(c, m, i - 1) <=> ~(i + k + 1 \in c <=> i + k + 1 \in m)
      <3>1. CASE k + 1 \in AllOnes
        <4>1. (i - 1) + (k + 1) + 1 = i + k + 1
          BY <1>1
        <4>. QED  BY <3>1, <4>1 DEF Register
      <3>2. CASE k + 1 \notin AllOnes
        <4>1. i + k + 1 > (i - 1) + WordBits
          BY <1>1, <3>2, CrcAssumption DEF AllOnes
        <4>. QED  BY <2>1, <3>2, <4>1 DEF Register, Untouched
      <3>. QED  BY <3>1, <3>2
    <2>. QED  BY <2>2, <2>3 DEF Register
  <1>. QED  BY <1>3, <1>4, <1>5 DEF Untouched


(* Where the bits of a message are. *)
LEMMA MessageBits ==
  ASSUME NEW stream \in Seq(SUBSET LowByte)
  PROVE  /\ Message(stream) \in Coefficients
         /\ \A p \in Nat : p > Len(stream) * ByteBits => p \notin Message(stream)
         /\ \A j \in 1..Len(stream), t \in 0..ByteBits - 1 :
              (j - 1) * ByteBits + t + 1 \in Message(stream) <=> t \in stream[j]
  <1>1. ByteBits \in Nat \ {0} /\ \A t \in LowByte : t \in 0..ByteBits - 1
    BY CrcAssumption DEF LowByte
  <1>2. ASSUME NEW p
        PROVE  p \in Message(stream) <=>
                 \E i \in 1..Len(stream) : \E k \in stream[i] : p = (i - 1) * ByteBits + k + 1
    BY DEF Message
  <1>3. ASSUME NEW i \in 1..Len(stream), NEW k \in stream[i]
        PROVE  /\ k \in 0..ByteBits - 1 /\ (i - 1) * ByteBits \in Nat
               /\ (i - 1) * ByteBits + k + 1 <= Len(stream) * ByteBits
    <2>1. k \in 0..ByteBits - 1
      BY <1>1
    <2>2. i - 1 \in Nat /\ i - 1 < Len(stream) /\ Len(stream) \in Nat
      OBVIOUS
    <2>3. (i - 1) * ByteBits + ByteBits <= Len(stream) * ByteBits /\ (i - 1) * ByteBits \in Nat
      BY <1>1, <2>2, Product
    <2>4. Len(stream) * ByteBits \in Nat
      BY <1>1
    <2>. QED  BY <1>1, <2>1, <2>3, <2>4
  <1>4. Message(stream) \in Coefficients
    BY <1>2, <1>3 DEF Coefficients
  <1>5. ASSUME NEW p \in Nat, p > Len(stream) * ByteBits PROVE p \notin Message(stream)
    <2>1. Len(stream) * ByteBits \in Nat
      BY <1>1
    <2>. QED  BY <1>2, <1>3, <1>5, <2>1
  <1>6. ASSUME NEW j \in 1..Len(stream), NEW t \in 0..ByteBits - 1,
               (j - 1) * ByteBits + t + 1 \in Message(stream)
        PROVE  t \in stream[j]
    <2>1. PICK i \in 1..Len(stream) : \E k \in stream[i] :
                 (j - 1) * ByteBits + t + 1 = (i - 1) * ByteBits + k + 1
      BY <1>2, <1>6
    <2>2. PICK k \in stream[i] : (j - 1) * ByteBits + t + 1 = (i - 1) * ByteBits + k + 1
      BY <2>1
    <2>3. k \in 0..ByteBits - 1
      BY <1>3
    <2>4. CASE i < j
      <3>1. i - 1 \in Nat /\ j - 1 \in Nat /\ i - 1 < j - 1
        BY <2>4
      <3>2. (i - 1) * ByteBits + ByteBits <= (j - 1) * ByteBits
            /\ (i - 1) * ByteBits \in Nat /\ (j - 1) * ByteBits \in Nat
        BY <1>1, <3>1, Product
      <3>. QED  BY <1>1, <2>2, <2>3, <3>2
    <2>5. CASE j < i
      <3>1. i - 1 \in Nat /\ j - 1 \in Nat /\ j - 1 < i - 1
        BY <2>5
      <3>2. (j - 1) * ByteBits + ByteBits <= (i - 1) * ByteBits
            /\ (i - 1) * ByteBits \in Nat /\ (j - 1) * ByteBits \in Nat
        BY <1>1, <3>1, Product
      <3>. QED  BY <1>1, <2>2, <2>3, <3>2
    <2>6. CASE i = j
      <3>1. (j - 1) * ByteBits \in Nat
        BY <1>1
      <3>2. t = k
        BY <1>1, <2>2, <2>3, <2>6, <3>1
      <3>. QED  BY <2>6, <3>2
    <2>. QED  BY <2>4, <2>5, <2>6
  <1>7. ASSUME NEW j \in 1..Len(stream), NEW t \in stream[j]
        PROVE  (j - 1) * ByteBits + t + 1 \in Message(stream)
    BY <1>2
  <1>. QED  BY <1>4, <1>5, <1>6, <1>7

(* A division as it goes along. *)
Divides(c, m, n) ==
  /\ c \in [0..n -> Coefficients] /\ m \in Coefficients
  /\ \A i \in 1..n : c[i] = Divide(c[i-1], i)
  /\ Untouched(c[0], m, 0)

(* The bits a word's length behind the division are those of the message. *)
LEMMA AllUntouched ==
  ASSUME NEW n \in Nat, NEW c, NEW m, Divides(c, m, n)
  PROVE  \A i \in 0..n : Untouched(c[i], m, i)
  <1> DEFINE S == {i \in 0..n : Untouched(c[i], m, i)}
  <1>1. 0 \in S
    BY DEF Divides
  <1>2. ASSUME NEW i \in 0..n-1, i \in S PROVE i + 1 \in S
    <2>1. i + 1 \in 1..n /\ (i + 1) - 1 = i /\ i + 1 \in Nat \ {0} /\ i + 1 \in 0..n /\ i \in 0..n
      OBVIOUS
    <2>2. c[i] \in Coefficients /\ m \in Coefficients /\ c[i + 1] = Divide(c[i], i + 1)
      BY <2>1 DEF Divides
    <2>3. Untouched(c[i], m, (i + 1) - 1)
      BY <1>2, <2>1
    <2>4. Untouched(c[i + 1], m, i + 1)
      BY <2>1, <2>2, <2>3, DividedBit
    <2>. QED  BY <2>1, <2>4
  <1>3. \A i \in 0..n : i \in S => Untouched(c[i], m, i)
    OBVIOUS
  <1> HIDE DEF S
  <1>4. \A i \in 0..n-1 : i \in S => i + 1 \in S
    BY <1>2
  <1>. QED  BY <1>1, <1>3, <1>4, Induction

(* The first coefficients are inverted. *)
LEMMA FirstRegister ==
  ASSUME NEW m \in Coefficients
  PROVE  /\ SymDiff(m, 1..WordBits) \in Coefficients
         /\ Untouched(SymDiff(m, 1..WordBits), m, 0)
         /\ Register(SymDiff(m, 1..WordBits), m, 0) = AllOnes
  <1>1. WordBits \in Nat
    BY CrcAssumption
  <1>2. SymDiff(m, 1..WordBits) \in Coefficients
    BY <1>1 DEF Coefficients, SymDiff
  <1>3. \A p \in Nat : p \in SymDiff(m, 1..WordBits) <=> ~(p \in m <=> p \in 1..WordBits)
    BY DEF SymDiff
  <1>4. Untouched(SymDiff(m, 1..WordBits), m, 0)
    BY <1>1, <1>3 DEF Untouched
  <1>5. \A k \in AllOnes : 0 + k + 1 \in 1..WordBits /\ 0 + k + 1 \in Nat
    BY <1>1 DEF AllOnes
  <1>. QED  BY <1>2, <1>3, <1>4, <1>5 DEF Register

HasByte(m, a, byte) == \A t \in 0..ByteBits - 1 : a + t + 1 \in m <=> t \in byte

(* As many steps of the division as a byte has bits are what compute does   *)
(* with the byte.                                                           *)
LEMMA ByteDivided ==
  ASSUME NEW n \in Nat, NEW c, NEW m, Divides(c, m, n),
         NEW a \in Nat, a + ByteBits <= n, NEW byte \in SUBSET LowByte,
         HasByte(m, a, byte)
  PROVE  Register(c[a + ByteBits], m, a + ByteBits) = ByteStep(Register(c[a], m, a), byte)
  <1> DEFINE v == Register(c[a], m, a)
             low == SymDiff(v \cap LowByte, byte)
             r == [t \in 0..ByteBits |-> Register(c[a + t], m, a + t)]
  <1>1. /\ ByteBits \in Nat \ {0} /\ WordBits \in Nat \ {0} /\ ByteBits <= WordBits
        /\ AllOnes = 0..WordBits - 1 /\ LowByte = 0..ByteBits - 1 /\ Polynomial \in BitWords
    BY CrcAssumption DEF AllOnes, LowByte, BitWords
  <1>2. v \in BitWords /\ byte \in BitWords /\ low \in SUBSET LowByte
    <2>1. v \in BitWords
      BY DEF Register, BitWords
    <2>2. byte \in BitWords
      BY <1>1 DEF BitWords
    <2> HIDE DEF v
    <2>3. low \in SUBSET LowByte
      BY DEF SymDiff
    <2>. QED  BY <2>1, <2>2, <2>3 DEF v
  <1>3. \A k \in Nat : k \in low <=> k \in LowByte /\ ~(k \in v <=> k \in byte)
    BY DEF SymDiff
  <1>4. PICK s \in [0..ByteBits -> BitWords] :
          /\ s[0] = low
          /\ \A k \in 1..ByteBits : s[k] = Step(s[k-1])
          /\ CrcTable[low] = s[ByteBits]
    BY <1>2, TableSteps
  <1>5. \A t \in 0..ByteBits : r[t] \in BitWords
    BY DEF Register, BitWords
  <1>6. ASSUME NEW t \in 1..ByteBits, NEW k \in AllOnes
        PROVE  k \in r[t] <=> ~(k + 1 \in r[t-1] <=> a + t \in c[a + t - 1] /\ k \in Polynomial)
    <2>1. /\ a + t \in 1..n /\ a + t - 1 \in 0..n /\ a + t \in Nat \ {0} /\ t - 1 \in 0..ByteBits
          /\ a + (t - 1) = a + t - 1 /\ t \in 0..ByteBits
      BY <1>1
    <2>2. /\ c[a + t - 1] \in Coefficients /\ m \in Coefficients
          /\ c[a + t] = Divide(c[a + t - 1], a + t)
      BY <2>1 DEF Divides
    <2>3. Untouched(c[a + t - 1], m, a + t - 1)
      BY <2>1, AllUntouched
    <2>4. k \in Register(c[a + t], m, a + t) <=>
            ~(k + 1 \in Register(c[a + t - 1], m, a + t - 1)
                <=> a + t \in c[a + t - 1] /\ k \in Polynomial)
      BY <2>1, <2>2, <2>3, DividedBit
    <2>. QED  BY <2>1, <2>4
  <1>7. ASSUME NEW t \in 1..ByteBits
        PROVE  a + t \in c[a + t - 1] <=> ~(0 \in r[t-1] <=> t - 1 \in byte)
    <2>1. /\ a + t \in 1..n /\ a + t - 1 \in 0..n /\ a + t \in Nat \ {0} /\ t - 1 \in 0..ByteBits
          /\ a + (t - 1) = a + t - 1 /\ t - 1 \in 0..ByteBits - 1 /\ a + (t - 1) + 1 = a + t
      BY <1>1
    <2>2. c[a + t - 1] \in Coefficients /\ m \in Coefficients
      BY <2>1 DEF Divides
    <2>3. Untouched(c[a + t - 1], m, a + t - 1)
      BY <2>1, AllUntouched
    <2>4. a + t \in c[a + t - 1] <=> ~(0 \in Register(c[a + t - 1], m, a + t - 1) <=> a + t \in m)
      BY <2>1, <2>2, <2>3, DividedBit
    <2>5. a + t \in m <=> t - 1 \in byte
      BY <2>1 DEF HasByte
    <2>. QED  BY <2>1, <2>4, <2>5
  (* Above the byte the value is only shifted; the byte is taken in bit by  *)
  (* bit.                                                                   *)
  <1> DEFINE above(t, k) == k + t \in v /\ k + t \notin LowByte
             S == {t \in 0..ByteBits : \A k \in AllOnes :
                     k \in r[t] <=> ~(k \in s[t] <=> ~(above(t, k) <=> k + t \in byte))}
  <1>8. 0 \in S
    <2>1. r[0] = v
      BY <1>1
    <2>2. ASSUME NEW k \in AllOnes
          PROVE  k \in v <=> ~(k \in s[0] <=> ~(above(0, k) <=> k + 0 \in byte))
      <3>1. k + 0 = k /\ k \in Nat
        BY <1>1
      <3>. QED  BY <1>1, <1>2, <1>3, <1>4, <3>1
    <2> HIDE DEF r
    <2>. QED  BY <1>1, <2>1, <2>2
  <1> HIDE DEF r
  <1>9. ASSUME NEW t \in 0..ByteBits - 1, t \in S PROVE t + 1 \in S
    <2>1. t + 1 \in 1..ByteBits /\ (t + 1) - 1 = t /\ t \in 0..ByteBits /\ t \in LowByte
      BY <1>1
    <2>2. \A k \in AllOnes : k \in r[t] <=> ~(k \in s[t] <=> ~(above(t, k) <=> k + t \in byte))
      BY <1>9
    <2>3. s[t] \in BitWords /\ r[t] \in BitWords /\ s[t + 1] = Step(s[t])
      BY <1>4, <1>5, <2>1
    <2>4. a + (t + 1) \in c[a + (t + 1) - 1] <=> 0 \in s[t]
      <3>1. a + (t + 1) \in c[a + (t + 1) - 1] <=> ~(0 \in r[t] <=> t \in byte)
        BY <1>7, <2>1
      <3>2. 0 \in AllOnes /\ 0 + t = t
        BY <1>1, <2>1
      <3>3. 0 \in r[t] <=> ~(0 \in s[t] <=> ~(above(t, 0) <=> t \in byte))
        BY <2>2, <3>2
      <3>4. ~above(t, 0)
        BY <2>1, <3>2
      <3>. QED  BY <3>1, <3>3, <3>4
    <2>5. ASSUME NEW k \in AllOnes
          PROVE  k \in r[t + 1] <=> ~(k \in s[t + 1] <=> ~(above(t + 1, k) <=> k + (t + 1) \in byte))
      <3>1. k \in r[t + 1] <=> ~(k + 1 \in r[t] <=> 0 \in s[t] /\ k \in Polynomial)
        BY <1>6, <2>1, <2>4
      <3>2. k \in s[t + 1] <=> ~(k + 1 \in s[t] <=> 0 \in s[t] /\ k \in Polynomial)
        <4> DEFINE w == s[t]
        <4>1. w \in BitWords
          BY <2>3
        <4> HIDE DEF w
        <4>2. k \in Step(w) <=> ~(k + 1 \in w <=> 0 \in w /\ k \in Polynomial)
          BY <4>1, WordBitsOf
        <4>. QED  BY <2>3, <4>2 DEF w
      <3>3. k + 1 + t = k + (t + 1) /\ k \in Nat
        BY <1>1, <2>1
      <3>4. k + 1 \in r[t] <=> ~(k + 1 \in s[t] <=> ~(above(t + 1, k) <=> k + (t + 1) \in byte))
        <4>1. CASE k + 1 \in AllOnes
          BY <2>2, <3>3, <4>1
        <4>2. CASE k + 1 \notin AllOnes
          <5>1. k + 1 \notin r[t] /\ k + 1 \notin s[t]
            BY <2>3, <4>2 DEF BitWords
          <5>2. k + (t + 1) \notin AllOnes
            BY <1>1, <2>1, <4>2
          <5>3. k + (t + 1) \notin v /\ k + (t + 1) \notin byte
            BY <1>2, <5>2 DEF BitWords
          <5>. QED  BY <5>1, <5>3
        <4>. QED  BY <4>1, <4>2
      <3>. QED  BY <3>1, <3>2, <3>4
    <2>. QED  BY <2>1, <2>5
  <1>10. \A k \in AllOnes :
           k \in r[ByteBits] <=>
             ~(k \in s[ByteBits] <=> ~(above(ByteBits, k) <=> k + ByteBits \in byte))
    <2>1. \A t \in S : t \in 0..ByteBits /\ \A k \in AllOnes :
             k \in r[t] <=> ~(k \in s[t] <=> ~(above(t, k) <=> k + t \in byte))
      OBVIOUS
    <2> HIDE DEF S, above
    <2>2. \A t \in 0..ByteBits - 1 : t \in S => t + 1 \in S
      BY <1>9
    <2>3. \A t \in 0..ByteBits : t \in S
      BY <1>1, <1>8, <2>2, Induction
    <2>4. ByteBits \in S
      BY <1>1, <2>3
    <2>. QED  BY <2>1, <2>4
  <1>11. ASSUME NEW k \in AllOnes
         PROVE  k \in r[ByteBits] <=> k \in ByteStep(v, byte)
    <2>1. k \in Nat /\ k + ByteBits \notin LowByte /\ k + ByteBits \notin byte
      BY <1>1
    <2>2. k \in Shifted(v, ByteBits) <=> k + ByteBits \in v
      BY <1>1, <1>2, <2>1, WordBitsOf
    <2>3. Shifted(v, ByteBits) \in BitWords /\ CrcTable[low] \in BitWords
      BY <1>1, <1>2, <1>4, WordBitsOf
    <2>4. k \in ByteStep(v, byte) <=> ~(k \in Shifted(v, ByteBits) <=> k \in CrcTable[low])
      BY <2>3, WordBitsOf DEF ByteStep
    <2>. QED  BY <1>4, <1>10, <2>1, <2>2, <2>4
  <1>12. ByteStep(v, byte) \in BitWords /\ r[ByteBits] \in BitWords
    BY <1>1, <1>2, <1>5, ByteStepWord
  <1>13. r[ByteBits] = Register(c[a + ByteBits], m, a + ByteBits)
    BY <1>1 DEF r
  <1>. QED  BY <1>11, <1>12, <1>13 DEF BitWords

(* What compute makes of a piece of the stream, division makes of its bits. *)
LEMMA ComputeDivides ==
  ASSUME NEW stream \in Seq(SUBSET LowByte), NEW c,
         Divides(c, Message(stream), Len(stream) * ByteBits),
         NEW a \in 0..Len(stream), NEW b \in a..Len(stream)
  PROVE  Compute(Register(c[a * ByteBits], Message(stream), a * ByteBits), SubSeq(stream, a + 1, b))
           = Register(c[b * ByteBits], Message(stream), b * ByteBits)
  <1> DEFINE m == Message(stream)
             n == Len(stream) * ByteBits
             r(j) == Register(c[j * ByteBits], m, j * ByteBits)
             buffer == SubSeq(stream, a + 1, b)
  <1>1. ByteBits \in Nat \ {0} /\ Len(stream) \in Nat /\ n \in Nat
    BY CrcAssumption
  <1>2. /\ buffer \in Seq(SUBSET LowByte) /\ Len(buffer) = b - a
        /\ \A k \in 1..Len(buffer) : buffer[k] = stream[a + k]
    <2>1. \A i \in a + 1..b : stream[i] \in SUBSET LowByte
      BY <1>1
    <2>2. /\ buffer \in Seq(SUBSET LowByte)
          /\ Len(buffer) = IF a + 1 <= b THEN b - (a + 1) + 1 ELSE 0
          /\ \A k \in 1..b - (a + 1) + 1 : buffer[k] = stream[(a + 1) + k - 1]
      BY <1>1, <2>1, SubSeqProperties
    <2>3. \A k \in 1..b - a : (a + 1) + k - 1 = a + k /\ k \in 1..b - (a + 1) + 1
      BY <1>1
    <2>. QED  BY <1>1, <2>2, <2>3
  <1>3. \A j : r(j) \in BitWords
    BY DEF Register, BitWords
  <1>4. PICK h \in [0..Len(buffer) -> BitWords] :
          /\ h[0] = r(a)
          /\ \A k \in 1..Len(buffer) : h[k] = ByteStep(h[k-1], buffer[k])
          /\ Compute(r(a), buffer) = h[Len(buffer)]
    <2> HIDE DEF r, buffer
    <2>. QED  BY <1>2, <1>3, ComputeSteps
  <1>5. ASSUME NEW j \in 1..Len(stream) PROVE r(j) = ByteStep(r(j - 1), stream[j])
    <2> DEFINE p == (j - 1) * ByteBits
    <2>1. p + ByteBits = j * ByteBits /\ p \in Nat
      BY <1>1
    <2>2. p + ByteBits <= n
      <3>1. j - 1 \in Nat /\ j - 1 < Len(stream)
        BY <1>1
      <3>. QED  BY <1>1, <3>1, Product
    <2>3. stream[j] \in SUBSET LowByte
      OBVIOUS
    <2>4. \A t \in 0..ByteBits - 1 : p + t + 1 \in m <=> t \in stream[j]
      BY MessageBits
    <2>5. Divides(c, m, n) /\ n \in Nat
      BY <1>1
    <2> DEFINE byte == stream[j]
    <2>7. byte \in SUBSET LowByte /\ HasByte(m, p, byte)
      BY <2>3, <2>4 DEF HasByte
    <2> HIDE DEF p, m, n, byte
    <2>6. Register(c[p + ByteBits], m, p + ByteBits) = ByteStep(Register(c[p], m, p), byte)
      BY <2>1, <2>2, <2>5, <2>7, ByteDivided
    <2>. QED  BY <2>1, <2>6 DEF p, byte
  <1> DEFINE S == {k \in 0..b - a : h[k] = r(a + k)}
  <1>6. 0 \in S
    <2>1. a + 0 = a /\ 0 \in 0..b - a
      BY <1>1
    <2>. QED  BY <1>4, <2>1
  <1>7. ASSUME NEW k \in 0..b - a - 1, k \in S PROVE k + 1 \in S
    <2>1. /\ k + 1 \in 1..b - a /\ (k + 1) - 1 = k /\ a + (k + 1) \in 1..Len(stream)
          /\ a + (k + 1) - 1 = a + k /\ k + 1 \in 0..b - a
      BY <1>1
    <2>2. h[k + 1] = ByteStep(h[k], stream[a + (k + 1)])
      BY <1>2, <1>4, <2>1
    <2>3. r(a + (k + 1)) = ByteStep(r(a + k), stream[a + (k + 1)])
      BY <1>5, <2>1
    <2>4. h[k] = r(a + k)
      BY <1>7
    <2>5. h[k + 1] = r(a + (k + 1))
      BY <2>2, <2>3, <2>4
    <2>. QED  BY <2>1, <2>5
  <1>8. \A k \in S : h[k] = r(a + k)
    OBVIOUS
  <1> HIDE DEF S
  <1>9. \A k \in 0..b - a : k \in S
    <2>1. b - a \in Nat
      BY <1>1
    <2>2. \A k \in 0..b - a - 1 : k \in S => k + 1 \in S
      BY <1>7
    <2>. QED  BY <1>6, <2>1, <2>2, Induction
  <1>10. h[b - a] = r(a + (b - a)) /\ a + (b - a) = b
    <2>1. b - a \in 0..b - a /\ a + (b - a) = b
      BY <1>1
    <2> HIDE DEF r
    <2>. QED  BY <1>8, <1>9, <2>1
  <1>. QED  BY <1>2, <1>4, <1>10

(* Blocks of a stream. *)
EndOfBlock(stream, size, k) == IF k * size < Len(stream) THEN k * size ELSE Len(stream)
Block(stream, size, k) == SubSeq(stream, (k - 1) * size + 1, EndOfBlock(stream, size, k))
BlocksOf(stream, size) == (Len(stream) + size - 1) \div size

(* The blocks are the stream, cut. *)
LEMMA BlocksCover ==
  ASSUME NEW T, NEW stream \in Seq(T), NEW size \in Nat \ {0}
  PROVE  /\ BlocksOf(stream, size) \in Nat
         /\ BlocksOf(stream, size) * size >= Len(stream)
         /\ \A k \in 1..BlocksOf(stream, size) :
              /\ (k - 1) * size \in 0..Len(stream)
              /\ (k - 1) * size = EndOfBlock(stream, size, k - 1)
              /\ EndOfBlock(stream, size, k) \in (k - 1) * size..Len(stream)
              /\ Block(stream, size, k) \in Seq(T)
  <1> DEFINE n == Len(stream)
             q == BlocksOf(stream, size)
  <1>1. n \in Nat /\ n + size - 1 \in Nat
    OBVIOUS
  <1>2. q \in Nat /\ q * size <= n + size - 1 /\ n + size - 1 < q * size + size
    BY <1>1 DEF BlocksOf
  <1>3. q * size \in Nat /\ q * size >= n
    BY <1>1, <1>2
  <1> HIDE DEF q
  <1>4. ASSUME NEW k \in 1..q
        PROVE  /\ (k - 1) * size \in 0..n /\ (k - 1) * size = EndOfBlock(stream, size, k - 1)
               /\ EndOfBlock(stream, size, k) \in (k - 1) * size..n
               /\ Block(stream, size, k) \in Seq(T)
    <2>1. k - 1 \in Nat /\ k \in Nat /\ k - 1 < q /\ k - 1 < k
      BY <1>2
    <2>2. (k - 1) * size + size <= q * size /\ (k - 1) * size \in Nat
      BY <1>2, <2>1, Product
    <2>3. (k - 1) * size + size <= k * size /\ k * size \in Nat
      BY <2>1, Product
    <2>4. (k - 1) * size < n \/ (k - 1) * size = n
      BY <1>1, <1>2, <1>3, <2>2
    <2>5. (k - 1) * size \in 0..n /\ (k - 1) * size = EndOfBlock(stream, size, k - 1)
      BY <1>1, <2>2, <2>4 DEF EndOfBlock
    <2>6. EndOfBlock(stream, size, k) \in (k - 1) * size..n
      BY <1>1, <2>3, <2>5 DEF EndOfBlock
    <2>7. Block(stream, size, k) \in Seq(T)
      <3> DEFINE from == (k - 1) * size + 1
                 to == EndOfBlock(stream, size, k)
      <3>1. from \in Int /\ to \in Int /\ \A i \in from..to : stream[i] \in T
        BY <1>1, <2>5, <2>6
      <3> HIDE DEF from, to
      <3>2. SubSeq(stream, from, to) \in Seq(T)
        BY <3>1, SubSeqProperties
      <3>. QED  BY <3>2 DEF Block, from, to
    <2>. QED  BY <2>5, <2>6, <2>7
  <1>. QED  BY <1>2, <1>3, <1>4 DEF q

(* What compute returns is a word. *)
LEMMA ComputeWord ==
  ASSUME NEW v \in BitWords, NEW buffer \in Seq(SUBSET LowByte)
  PROVE  Compute(v, buffer) \in BitWords
  <1>1. PICK h \in [0..Len(buffer) -> BitWords] : Compute(v, buffer) = h[Len(buffer)]
    BY ComputeSteps
  <1>2. Len(buffer) \in 0..Len(buffer)
    OBVIOUS
  <1>. QED  BY <1>1, <1>2

(* compute_stream goes from block to block. *)
LEMMA StreamSteps ==
  ASSUME NEW stream \in Seq(SUBSET LowByte), NEW size \in Nat \ {0}
  PROVE  \E h \in [0..BlocksOf(stream, size) -> BitWords] :
           /\ h[0] = AllOnes
           /\ \A k \in 1..BlocksOf(stream, size) : h[k] = Compute(h[k-1], Block(stream, size, k))
           /\ ComputeStream(stream, size) = AllOnes \ h[BlocksOf(stream, size)]
  <1> DEFINE n == BlocksOf(stream, size)
             step == [k \in 1..n |-> [x \in BitWords |-> Compute(x, Block(stream, size, k))]]
             body(g) == [s \in SUBSET (DOMAIN [k \in 1..BlocksOf(stream, size) |-> k]) |->
                           IF s = {} THEN AllOnes ELSE Compute(g[s \ {Max(s)}], Block(stream, size, [j \in 1..BlocksOf(stream, size) |-> j][Max(s)]))]
             chosen == CHOOSE g : g = body(g)
  <1>0. (DOMAIN [k \in 1..BlocksOf(stream, size) |-> k]) = 1..n
    OBVIOUS
  <1>1. n \in Nat /\ AllOnes \in BitWords
    BY BlocksCover DEF BitWords
  <1>2. step \in [1..n -> [BitWords -> BitWords]]
    BY BlocksCover, ComputeWord
  <1>3. PICK g \in [SUBSET (1..n) -> BitWords] : Folds(g, n, AllOnes, step)
    <2> HIDE DEF step, n
    <2>. QED  BY <1>1, <1>2, FoldExists
  <1>4. ASSUME NEW s \in SUBSET (1..n) PROVE g[s] = body(g)[s]
    <2>1. CASE s = {}
      BY <1>3, <2>1 DEF Folds
    <2>2. CASE s # {}
      <3>1. Max(s) \in 1..n /\ s \ {Max(s)} \in SUBSET (1..n)
        BY <1>1, <2>2, MaxIn
      <3>2. g[s \ {Max(s)}] \in BitWords /\ g[s] = step[Max(s)][g[s \ {Max(s)}]]
        BY <1>3, <2>2, <3>1 DEF Folds
      <3>. QED  BY <2>2, <3>1, <3>2
    <2>. QED  BY <2>1, <2>2
  <1>5. g = body(g)
    BY <1>0, <1>4
  <1>6. chosen = body(chosen)
    BY <1>5
  <1>7. ComputeStream(stream, size) = AllOnes \ chosen[(DOMAIN [k \in 1..BlocksOf(stream, size) |-> k])]
    BY DEF ComputeStream, Block, EndOfBlock, BlocksOf, FoldLeft, MapThenFoldSet
  <1> HIDE DEF chosen
  <1>8. \A s \in SUBSET (1..n) : chosen[s] = body(chosen)[s]
    BY <1>0, <1>6
  <1>9. chosen[{}] = AllOnes
    BY <1>8
  <1>10. ASSUME NEW k \in 1..n PROVE chosen[1..k] = Compute(chosen[1..k-1], Block(stream, size, k))
    <2>1. 1..k \in SUBSET (1..n) /\ 1..k # {} /\ Max(1..k) = k /\ (1..k) \ {k} = 1..k-1
      BY <1>1, FoldSteps
    <2>. QED  BY <1>0, <1>8, <2>1
  <1>11. \A k \in 1..n : chosen[1..k-1] \in BitWords => chosen[1..k] = step[k][chosen[1..k-1]]
    BY <1>10
  <1>15. Follows(chosen, n, BitWords, AllOnes, step)
    BY <1>9, <1>11 DEF Follows
  <1>12. PICK h \in [0..n -> BitWords] : Traces(h, n, AllOnes, step) /\ chosen[1..n] = h[n]
    <2>1. HasTrace(chosen, n, BitWords, AllOnes, step)
      <3> HIDE DEF step, n
      <3>. QED  BY <1>1, <1>2, <1>15, FoldTrace
    <2>. QED  BY <2>1 DEF HasTrace
  <1>13. \A k \in 1..n : k - 1 \in 0..n /\ h[k] = step[k][h[k-1]]
    BY <1>1, <1>12 DEF Traces
  <1>14. \A k \in 1..n : h[k] = Compute(h[k-1], Block(stream, size, k))
    BY <1>12, <1>13
  <1>. QED  BY <1>0, <1>7, <1>12, <1>14 DEF Traces

(* The blocks of a stream are computed into the remainder of its bits.      *)
LEMMA SumIsRemainder ==
  ASSUME NEW stream \in Seq(SUBSET LowByte), NEW size \in Nat \ {0}
  PROVE  ComputeStream(stream, size) = Remainder(stream)
  <1> DEFINE m == Message(stream)
             n == Len(stream) * ByteBits
             q == BlocksOf(stream, size)
             first == SymDiff(m, 1..WordBits)
  <1>1. ByteBits \in Nat \ {0} /\ Len(stream) \in Nat /\ n \in Nat
    BY CrcAssumption
  <1>2. m \in Coefficients
    BY MessageBits
  <1>3. first \in Coefficients /\ Untouched(first, m, 0) /\ Register(first, m, 0) = AllOnes
    BY <1>2, FirstRegister
  <1>4. PICK c \in [0..n -> Coefficients] :
          /\ c[0] = first
          /\ \A i \in 1..n : c[i] = Divide(c[i-1], i)
          /\ FoldLeft(Divide, first, [i \in 1..n |-> i]) = c[n]
    <2> HIDE DEF n, first
    <2>. QED  BY <1>1, <1>3, DivideSteps
  <1>5. Divides(c, m, n)
    BY <1>2, <1>3, <1>4 DEF Divides
  <1> DEFINE r(j) == Register(c[j * ByteBits], m, j * ByteBits)
  <1>6. \A a \in 0..Len(stream) : \A b \in a..Len(stream) :
          Compute(r(a), SubSeq(stream, a + 1, b)) = r(b)
    BY <1>5, ComputeDivides
  <1>7. PICK h \in [0..q -> BitWords] :
          /\ h[0] = AllOnes
          /\ \A k \in 1..q : h[k] = Compute(h[k-1], Block(stream, size, k))
          /\ ComputeStream(stream, size) = AllOnes \ h[q]
    BY StreamSteps
  <1> DEFINE end(k) == EndOfBlock(stream, size, k)
             S == {k \in 0..q : h[k] = r(end(k))}
  <1>8. /\ q \in Nat /\ q * size >= Len(stream)
        /\ \A k \in 1..q : /\ (k - 1) * size \in 0..Len(stream) /\ (k - 1) * size = end(k - 1)
                           /\ end(k) \in (k - 1) * size..Len(stream)
    BY BlocksCover
  <1>9. 0 \in S
    <2>1. end(0) = 0
      BY <1>1 DEF EndOfBlock
    <2>2. r(0) = AllOnes
      BY <1>1, <1>3, <1>4
    <2> HIDE DEF end, r, q
    <2>. QED  BY <1>7, <1>8, <2>1, <2>2
  <1>10. ASSUME NEW k \in 0..q-1, k \in S PROVE k + 1 \in S
    <2>1. k + 1 \in 1..q /\ (k + 1) - 1 = k /\ k + 1 \in 0..q
      BY <1>8
    <2>2. k * size \in 0..Len(stream) /\ k * size = end(k) /\ end(k + 1) \in k * size..Len(stream)
      BY <1>8, <2>1
    <2>3. h[k + 1] = Compute(h[k], Block(stream, size, k + 1))
      BY <1>7, <2>1
    <2>4. Block(stream, size, k + 1) = SubSeq(stream, end(k) + 1, end(k + 1))
      BY <2>1, <2>2 DEF Block
    <2>5. h[k] = r(end(k))
      BY <1>10
    <2> HIDE DEF r, end
    <2>6. Compute(r(end(k)), SubSeq(stream, end(k) + 1, end(k + 1))) = r(end(k + 1))
      BY <1>6, <2>2
    <2>7. h[k + 1] = r(end(k + 1))
      BY <2>3, <2>4, <2>5, <2>6
    <2>. QED  BY <2>1, <2>7
  <1>11. \A k \in S : h[k] = r(end(k))
    OBVIOUS
  <1>12. h[q] = r(Len(stream))
    <2>1. end(q) = Len(stream)
      BY <1>1, <1>8 DEF EndOfBlock
    <2> HIDE DEF S, end, r, q
    <2>2. \A k \in 0..q-1 : k \in S => k + 1 \in S
      BY <1>10
    <2>3. \A k \in 0..q : k \in S
      BY <1>8, <1>9, <2>2, Induction
    <2>4. q \in 0..q
      BY <1>8
    <2>. QED  BY <1>11, <2>1, <2>3, <2>4
  <1>13. Remainder(stream) = {k \in AllOnes : n + k + 1 \notin c[n]}
    BY <1>4 DEF Remainder
  <1>14. \A k \in AllOnes : n + k + 1 \notin m
    <2>1. \A k \in AllOnes : n + k + 1 \in Nat /\ n + k + 1 > n
      BY <1>1, CrcAssumption DEF AllOnes
    <2> HIDE DEF m
    <2>2. \A p \in Nat : p > n => p \notin m
      BY MessageBits DEF m
    <2>. QED  BY <2>1, <2>2
  <1>15. r(Len(stream)) = {k \in AllOnes : n + k + 1 \in c[n]}
    BY <1>14 DEF Register
  <1> HIDE DEF r, q
  <1>. QED  BY <1>7, <1>12, <1>13, <1>15

(* The checksum of a stream is the remainder of its polynomial, for words   *)
(* and bytes of any size, and whatever the size of the blocks.              *)
THEOREM ChecksumCorrect == Spec => []SumOfBlocks
  <1>1. Init => SumOfBlocks
    BY DEF Init, SumOfBlocks
  <1>2. ASSUME SumOfBlocks, [Next]_vars PROVE SumOfBlocks'
    <2>1. CASE ComputeCrc
      <3>1. PICK stream \in Streams, size \in BlockSizes :
              Called("crc", [stream |-> stream, size |-> size], ComputeStream(stream, size))
        BY <2>1 DEF ComputeCrc
      <3>2. stream \in Seq(SUBSET LowByte) /\ size \in Nat \ {0}
        BY AlgorithmsAssumption
      <3>3. given'.stream = stream /\ result' = ComputeStream(stream, size)
        BY <3>1 DEF Called
      <3>. QED  BY <3>2, <3>3, SumIsRemainder DEF SumOfBlocks
    <2>2. CASE ~ComputeCrc /\ Next
      <3>1. call' # "crc"
        BY <2>2 DEF Next, Called, StringReplaceAllTemplates, StringSplit, Execute,
           OpenArguments,
             OpenIn, SearchPath, Receive, ReceiveNothing, ParseLine, CombineAndParse, WriteList,
             InsertJsonInto, ReadImage, LookForSection
      <3>. QED  BY <3>1 DEF SumOfBlocks
    <2>3. CASE UNCHANGED vars
      BY <1>2, <2>3 DEF vars, SumOfBlocks
    <2>. QED  BY <1>2, <2>1, <2>2, <2>3
  <1>. QED  BY <1>1, <1>2, PTL DEF Spec
-----------------------------------------------------------------------------
(* Frames. *)

(* Each byte counts Base times the one before it. *)
LEMMA Weights ==
  /\ \A k \in 1..Width + 1 : Weight[k] \in Nat \ {0}
  /\ Weight[1] = 1
  /\ \A k \in 1..Width : Weight[k + 1] = Base * Weight[k]
  <1> DEFINE n == Width + 1
             step == [k \in 1..n |-> [x \in Nat |-> Base * x]]
             body(w) == [k \in 1..n |-> IF k = 1 THEN 1 ELSE Base * w[k-1]]
             chosen == CHOOSE w : w = body(w)
             positive == Nat \ {0}
  <1>1. Base \in Nat \ {0, 1} /\ Width \in Nat \ {0} /\ n \in Nat
    BY FrameAssumption
  <1>2. 1 \in Nat /\ step \in [1..n -> [Nat -> Nat]]
    BY <1>1
  <1>3. PICK g \in [SUBSET (1..n) -> Nat] : Folds(g, n, 1, step)
    <2> HIDE DEF step, n
    <2>. QED  BY <1>1, <1>2, FoldExists
  <1> DEFINE w == [k \in 1..n |-> g[1..k-1]]
  <1>4. ASSUME NEW k \in 1..n PROVE w[k] = body(w)[k]
    <2>1. CASE k = 1
      <3>1. 1..k-1 = {} /\ {} \in SUBSET (1..n)
        BY <2>1
      <3>. QED  BY <1>3, <2>1, <3>1 DEF Folds
    <2>2. CASE k # 1
      <3>1. k - 1 \in 1..n
        BY <1>1, <2>2
      <3>2. /\ 1..k-1 \in SUBSET (1..n) /\ 1..k-1 # {} /\ Max(1..k-1) = k - 1
            /\ (1..k-1) \ {k-1} = 1..(k-1)-1 /\ 1..(k-1)-1 \in SUBSET (1..n)
        BY <1>1, <3>1, FoldSteps
      <3>3. g[1..k-1] = Base * g[1..(k-1)-1]
        BY <1>3, <3>1, <3>2 DEF Folds
      <3>. QED  BY <2>2, <3>1, <3>3
    <2>. QED  BY <2>1, <2>2
  <1>5. w = body(w)
    BY <1>4
  <1>6. chosen = body(chosen)
    BY <1>5
  <1>7. Weight = chosen
    BY DEF Weight
  <1> HIDE DEF chosen
  <1>8. \A k \in 1..n : chosen[k] = IF k = 1 THEN 1 ELSE Base * chosen[k-1]
    BY <1>6
  <1> DEFINE S == {k \in 0..Width : chosen[k + 1] \in positive}
  <1>9. 0 \in S
    BY <1>1, <1>8
  <1>10. ASSUME NEW k \in 0..Width-1, k \in S PROVE k + 1 \in S
    <2>1. chosen[k + 1] \in positive /\ k + 2 \in 1..n /\ k + 2 # 1 /\ (k + 2) - 1 = k + 1
      BY <1>1, <1>10
    <2>2. chosen[k + 2] = Base * chosen[k + 1]
      BY <1>8, <2>1
    <2>3. Base * chosen[k + 1] \in positive
      BY <1>1, <2>1
    <2>. QED  BY <1>1, <2>2, <2>3
  <1>11. \A k \in S : chosen[k + 1] \in positive
    OBVIOUS
  <1> HIDE DEF S
  <1>12. \A k \in 0..Width : k \in S
    <2>1. \A k \in 0..Width-1 : k \in S => k + 1 \in S
      BY <1>10
    <2>. QED  BY <1>1, <1>9, <2>1, Induction
  <1>13. ASSUME NEW k \in 1..n PROVE chosen[k] \in positive
    <2>1. k - 1 \in 0..Width /\ (k - 1) + 1 = k
      BY <1>1
    <2>. QED  BY <1>11, <1>12, <2>1
  <1>14. ASSUME NEW k \in 1..Width PROVE chosen[k + 1] = Base * chosen[k]
    <2>1. k + 1 \in 1..n /\ k + 1 # 1 /\ (k + 1) - 1 = k
      BY <1>1
    <2>. QED  BY <1>8, <2>1
  <1>. QED  BY <1>1, <1>7, <1>8, <1>13, <1>14

(* Division by one byte more. *)
LEMMA Digits ==
  ASSUME NEW n \in Nat, NEW w \in Nat \ {0}, NEW b \in Nat \ {0}
  PROVE  \E p \in Nat, d \in 0..b-1 :
           /\ n \div w = p * b + d /\ n \div w \in Nat
           /\ n \div (b * w) = p /\ (n \div w) % b = d
  <1> DEFINE q == n \div w
             r == n % w
             p == q \div b
             d == q % b
             v == b * w
             t == d * w + r
  <1>1. q \in Nat /\ r \in 0..w-1 /\ n = q * w + r
    OBVIOUS
  <1> HIDE DEF q, r
  <1>2. p \in Nat /\ d \in 0..b-1 /\ q = p * b + d
    BY <1>1
  <1>3. v \in Nat \ {0}
    OBVIOUS
  <1> HIDE DEF p, d
  <1>4. n = p * v + t
    BY <1>1, <1>2
  <1>5. t \in Nat /\ t < v
    <2>1. d * w + w <= b * w /\ d * w \in Nat
      BY <1>2, Product
    <2>. QED  BY <1>1, <2>1
  <1> HIDE DEF v, t
  <1>6. n \div v = p
    <2> DEFINE x == n \div v
               y == n % v
    <2>1. x \in Nat /\ y \in 0..v-1 /\ n = x * v + y
      BY <1>3
    <2> HIDE DEF x, y
    <2>2. ~(x < p)
      <3> SUFFICES ASSUME x < p PROVE FALSE
        OBVIOUS
      <3>1. x * v + v <= p * v /\ x * v \in Nat /\ p * v \in Nat
        BY <1>2, <1>3, <2>1, Product
      <3>. QED  BY <1>3, <1>4, <1>5, <2>1, <3>1
    <2>3. ~(p < x)
      <3> SUFFICES ASSUME p < x PROVE FALSE
        OBVIOUS
      <3>1. p * v + v <= x * v /\ x * v \in Nat /\ p * v \in Nat
        BY <1>2, <1>3, <2>1, Product
      <3>. QED  BY <1>3, <1>4, <1>5, <2>1, <3>1
    <2>4. x = p
      BY <1>2, <2>1, <2>2, <2>3
    <2>. QED  BY <2>4 DEF x
  <1>7. n \div (b * w) = p
    BY <1>6 DEF v
  <1>8. q = n \div w /\ p = q \div b /\ d = q % b
    BY DEF q, p, d
  <1>9. n \div w = p * b + d /\ d = (n \div w) % b /\ n \div w \in Nat
    BY <1>1, <1>2, <1>8
  <1>. QED  BY <1>2, <1>7, <1>9

Counted(size, bytes, k) == size + bytes[k] * Weight[k]

(* A size is put together byte by byte. *)
LEMMA DecodeSteps ==
  ASSUME NEW bytes \in [1..Width -> Nat]
  PROVE  \E h \in [0..Width -> Nat] :
           /\ h[0] = 0
           /\ \A k \in 1..Width : h[k] = Counted(h[k-1], bytes, k)
           /\ Decoded(bytes) = h[Width]
  <1> DEFINE n == Width
             step == [k \in 1..n |-> [x \in Nat |-> Counted(x, bytes, k)]]
             body(g) == [s \in SUBSET (DOMAIN [k \in 1..Width |-> k]) |->
                           IF s = {} THEN 0 ELSE Counted(g[s \ {Max(s)}], bytes, [j \in 1..Width |-> j][Max(s)])]
             chosen == CHOOSE g : g = body(g)
  <1>0. (DOMAIN [k \in 1..Width |-> k]) = 1..n
    OBVIOUS
  <1>1. n \in Nat /\ 0 \in Nat
    BY FrameAssumption
  <1>2. step \in [1..n -> [Nat -> Nat]]
    <2>1. n \in Nat /\ Width + 1 \in Nat /\ \A k \in 1..n : k \in 1..Width + 1
      BY FrameAssumption
    <2>2. ASSUME NEW k \in 1..n, NEW x \in Nat PROVE Counted(x, bytes, k) \in Nat
      <3>1. bytes[k] \in Nat /\ Weight[k] \in Nat
        BY <2>1, Weights
      <3>. QED  BY <3>1 DEF Counted
    <2>. QED  BY <2>2
  <1>3. PICK g \in [SUBSET (1..n) -> Nat] : Folds(g, n, 0, step)
    <2> HIDE DEF step, n
    <2>. QED  BY <1>1, <1>2, FoldExists
  <1>4. ASSUME NEW s \in SUBSET (1..n) PROVE g[s] = body(g)[s]
    <2>1. CASE s = {}
      BY <1>3, <2>1 DEF Folds
    <2>2. CASE s # {}
      <3>1. Max(s) \in 1..n /\ s \ {Max(s)} \in SUBSET (1..n)
        BY <1>1, <2>2, MaxIn
      <3>2. g[s \ {Max(s)}] \in Nat /\ g[s] = step[Max(s)][g[s \ {Max(s)}]]
        BY <1>3, <2>2, <3>1 DEF Folds
      <3>. QED  BY <2>2, <3>1, <3>2
    <2>. QED  BY <2>1, <2>2
  <1>5. g = body(g)
    BY <1>0, <1>4
  <1>6. chosen = body(chosen)
    BY <1>5
  <1>7. Decoded(bytes) = chosen[(DOMAIN [k \in 1..Width |-> k])]
    BY DEF Decoded, Counted, FoldLeft, MapThenFoldSet
  <1> HIDE DEF chosen
  <1>8. \A s \in SUBSET (1..n) : chosen[s] = body(chosen)[s]
    BY <1>0, <1>6
  <1>9. chosen[{}] = 0
    BY <1>8
  <1>10. ASSUME NEW k \in 1..n PROVE chosen[1..k] = Counted(chosen[1..k-1], bytes, k)
    <2>1. 1..k \in SUBSET (1..n) /\ 1..k # {} /\ Max(1..k) = k /\ (1..k) \ {k} = 1..k-1
      BY <1>1, FoldSteps
    <2>. QED  BY <1>0, <1>8, <2>1
  <1>11. \A k \in 1..n : chosen[1..k-1] \in Nat => chosen[1..k] = step[k][chosen[1..k-1]]
    BY <1>10
  <1>15. Follows(chosen, n, Nat, 0, step)
    BY <1>9, <1>11 DEF Follows
  <1>12. PICK h \in [0..n -> Nat] : Traces(h, n, 0, step) /\ chosen[1..n] = h[n]
    <2>1. HasTrace(chosen, n, Nat, 0, step)
      <3> HIDE DEF step, n
      <3>. QED  BY <1>1, <1>2, <1>15, FoldTrace
    <2>. QED  BY <2>1 DEF HasTrace
  <1>13. \A k \in 1..n : k - 1 \in 0..n /\ h[k] = step[k][h[k-1]]
    <2> HIDE DEF step
    <2>. QED  BY <1>1, <1>12 DEF Traces
  <1>14. \A k \in 1..n : h[k] = Counted(h[k-1], bytes, k)
    BY <1>12, <1>13
  <1>. QED  BY <1>0, <1>7, <1>12, <1>14 DEF Traces

(* A size that fits comes out as it went in. *)
LEMMA SizesAreDecoded ==
  ASSUME NEW n \in Nat, n < Weight[Width + 1]
  PROVE  /\ Encoded(n) \in [1..Width -> Bytes] /\ Encoded(n) \in [1..Width -> Nat]
         /\ Decoded(Encoded(n)) = n
  <1>1. Base \in Nat \ {0, 1} /\ Width \in Nat \ {0}
    BY FrameAssumption
  <1>2. ASSUME NEW k \in 1..Width
        PROVE  /\ Encoded(n)[k] \in 0..Base-1
               /\ \E p \in Nat : /\ n \div Weight[k] = p * Base + Encoded(n)[k]
                                 /\ n \div Weight[k] \in Nat
                                 /\ n \div Weight[k + 1] = p
    <2>1. Weight[k] \in Nat \ {0} /\ Weight[k + 1] = Base * Weight[k]
      BY <1>1, Weights
    <2>2. Encoded(n)[k] = (n \div Weight[k]) % Base
      BY DEF Encoded
    <2> DEFINE w == Weight[k]
    <2>3. w \in Nat \ {0} /\ Base \in Nat \ {0}
      BY <1>1, <2>1
    <2> HIDE DEF w
    <2>4. PICK p \in Nat, d \in 0..Base-1 :
            /\ n \div w = p * Base + d /\ n \div w \in Nat
            /\ n \div (Base * w) = p /\ (n \div w) % Base = d
      BY <2>3, Digits
    <2>. QED  BY <2>1, <2>2, <2>4 DEF w
  <1>3. Encoded(n) \in [1..Width -> Bytes] /\ Encoded(n) \in [1..Width -> Nat]
    BY <1>1, <1>2 DEF Encoded, Bytes
  <1>4. PICK h \in [0..Width -> Nat] :
          /\ h[0] = 0
          /\ \A k \in 1..Width : h[k] = Counted(h[k-1], Encoded(n), k)
          /\ Decoded(Encoded(n)) = h[Width]
    BY <1>3, DecodeSteps
  <1> DEFINE rest(k) == (n \div Weight[k + 1]) * Weight[k + 1]
             S == {k \in 0..Width : h[k] + rest(k) = n}
  <1>5. 0 \in S
    BY <1>1, <1>4, Weights
  <1>6. ASSUME NEW k \in 0..Width-1, k \in S PROVE k + 1 \in S
    <2> DEFINE w == Weight[k + 1]
               q == n \div w
               p == n \div Weight[k + 2]
               d == Encoded(n)[k + 1]
    <2>1. k + 1 \in 1..Width /\ (k + 1) - 1 = k /\ (k + 1) + 1 = k + 2 /\ k \in 0..Width
          /\ k + 1 \in 1..Width + 1
      BY <1>1
    <2>2. q \in Nat /\ p \in Nat /\ d \in 0..Base-1 /\ q = p * Base + d
      <3>1. PICK x \in Nat : /\ n \div Weight[k + 1] = x * Base + Encoded(n)[k + 1]
                             /\ n \div Weight[k + 1] \in Nat /\ n \div Weight[k + 2] = x
        BY <1>2, <2>1
      <3>2. Encoded(n)[k + 1] \in 0..Base-1
        BY <1>2, <2>1
      <3>. QED  BY <3>1, <3>2
    <2>3. w \in Nat \ {0} /\ Weight[k + 2] = Base * w
      BY <2>1, Weights
    <2>4. h[k + 1] = h[k] + d * w /\ h[k] \in Nat
      BY <1>4, <2>1 DEF Counted
    <2>5. h[k] + q * w = n
      BY <1>6
    <2> HIDE DEF w, q, p, d
    <2>6. q * w = p * (Base * w) + d * w
      BY <1>1, <2>2, <2>3
    <2>7. d * w \in Nat /\ p * (Base * w) \in Nat
      BY <1>1, <2>2, <2>3
    <2>8. h[k + 1] + p * (Base * w) = n
      BY <2>4, <2>5, <2>6, <2>7
    <2>9. rest(k + 1) = p * (Base * w)
      BY <2>1, <2>3 DEF p
    <2>. QED  BY <2>1, <2>8, <2>9
  <1>7. \A k \in S : h[k] + rest(k) = n
    OBVIOUS
  <1>8. h[Width] + rest(Width) = n
    <2> HIDE DEF S, rest
    <2>1. \A k \in 0..Width-1 : k \in S => k + 1 \in S
      BY <1>6
    <2>2. \A k \in 0..Width : k \in S
      BY <1>1, <1>5, <2>1, Induction
    <2>3. Width \in 0..Width
      BY <1>1
    <2>. QED  BY <1>7, <2>2, <2>3
  <1>9. n \div Weight[Width + 1] = 0
    <2> DEFINE v == Weight[Width + 1]
    <2>1. v \in Nat \ {0} /\ n < v
      BY <1>1, Weights
    <2> HIDE DEF v
    <2>2. n \div v = 0
      BY <2>1
    <2>. QED  BY <2>2 DEF v
  <1>10. Weight[Width + 1] \in Nat
    BY <1>1, Weights
  <1>11. rest(Width) = 0 /\ h[Width] \in Nat
    BY <1>1, <1>4, <1>9, <1>10
  <1> HIDE DEF rest
  <1>. QED  BY <1>3, <1>4, <1>8, <1>11

(* convert_parameter: the size, then the parameter. *)
LEMMA Framed ==
  ASSUME NEW p \in Seq(Bytes)
  PROVE  /\ ConvertParameter(p) \in Seq(Nat)
         /\ Len(ConvertParameter(p)) = Width + Len(p)
         /\ \A k \in 1..Width : ConvertParameter(p)[k] = Encoded(Len(p))[k]
         /\ \A k \in 1..Len(p) : ConvertParameter(p)[Width + k] = p[k]
  <1> DEFINE n == Len(p)
             size == Encoded(n)
             empty == Allocated(Width + n)
             half == Push(empty, size)
             full == Push(half, p)
  <1>1. Width \in Nat \ {0} /\ n \in Nat /\ \A k \in 1..n : p[k] \in Nat
    BY FrameAssumption DEF Bytes
  <1>2. size \in Seq(Nat) /\ Len(size) = Width /\ \A k \in 1..Width : size[k] \in Nat
    <2>1. \A k \in 1..Width : (n \div Weight[k]) % Base \in Nat
      <3>1. \A k \in 1..Width : Weight[k] \in Nat \ {0} /\ Base \in Nat \ {0}
        BY <1>1, Weights, FrameAssumption
      <3>. QED  BY <1>1, <3>1
    <2>2. size \in [1..Width -> Nat]
      BY <2>1 DEF Encoded
    <2>. QED  BY <1>1, <2>2
  <1>3. empty.memory = [k \in 1..Width + n |-> 0] /\ empty.head = 0
    BY DEF Allocated
  <1> HIDE DEF size, empty
  <1>4. /\ half.memory = [k \in 1..Width + n |-> IF k \in 1..Width THEN size[k] ELSE 0]
        /\ half.head = Width
    <2>1. \A k \in 1..Width + n : (k \in empty.head + 1..empty.head + Len(size) <=> k \in 1..Width)
                                  /\ k - empty.head = k
      BY <1>1, <1>2, <1>3
    <2>2. DOMAIN empty.memory = 1..Width + n /\ \A k \in 1..Width + n : empty.memory[k] = 0
      BY <1>3
    <2>. QED  BY <1>1, <1>2, <1>3, <2>1, <2>2 DEF Push
  <1> HIDE DEF half
  <1>5. full.memory = [k \in 1..Width + n |-> IF k \in 1..Width THEN size[k] ELSE p[k - Width]]
    <2>1. DOMAIN half.memory = 1..Width + n
      BY <1>4
    <2>2. \A k \in 1..Width + n : k \in half.head + 1..half.head + Len(p) <=> ~(k \in 1..Width)
      BY <1>1, <1>4
    <2>. QED  BY <1>4, <2>1, <2>2 DEF Push
  <1>6. ConvertParameter(p) = full.memory
    BY DEF ConvertParameter, full, half, empty, size
  <1> HIDE DEF full
  <1>7. \A k \in 1..Width + n : k \in 1..Width \/ k - Width \in 1..n
    BY <1>1
  <1>8. ConvertParameter(p) \in [1..Width + n -> Nat]
    BY <1>1, <1>2, <1>5, <1>6, <1>7
  <1>9. \A k \in 1..n : Width + k \in 1..Width + n /\ Width + k \notin 1..Width
        /\ (Width + k) - Width = k
    BY <1>1
  <1>10. \A k \in 1..Width : k \in 1..Width + n
    BY <1>1
  <1>11. ConvertParameter(p) \in Seq(Nat) /\ Len(ConvertParameter(p)) = Width + n
    BY <1>1, <1>8
  <1>. QED  BY <1>5, <1>6, <1>9, <1>10, <1>11 DEF size

(* What comes back has the length that was sent, and what arrived of it is  *)
(* in its place.                                                            *)
LEMMA EchoReads ==
  ASSUME NEW p \in Seq(Bytes), Len(p) < Weight[Width + 1],
         NEW m \in 0..Len(ConvertParameter(p)), m >= Width, NEW after
  PROVE  LET back == ExtractResponse(SubSeq(ConvertParameter(p), 1, m), after)
         IN Len(back) = Len(p) /\ \A k \in 1..m - Width : back[k] = p[k]
  <1> DEFINE n == Len(p)
             sent == ConvertParameter(p)
             out == SubSeq(sent, 1, m)
             head == Memory(out, 0, Width, after)
             back == ExtractResponse(out, after)
  <1>1. Width \in Nat \ {0} /\ n \in Nat /\ m \in Width..Width + n
    BY FrameAssumption, Framed
  <1>2. /\ sent \in Seq(Nat) /\ Len(sent) = Width + n
        /\ \A k \in 1..Width : sent[k] = Encoded(n)[k]
        /\ \A k \in 1..n : sent[Width + k] = p[k]
    BY Framed
  <1> HIDE DEF sent
  <1>3. out \in Seq(Nat) /\ Len(out) = m /\ \A k \in 1..m : out[k] = sent[k]
    <2>1. \A k \in 1..m : sent[k] \in Nat
      BY <1>1, <1>2
    <2>. QED  BY <1>1, <2>1, SubSeqProperties
  <1> HIDE DEF out
  <1>4. Encoded(n) \in [1..Width -> Nat] /\ Decoded(Encoded(n)) = n
    BY <1>1, SizesAreDecoded
  <1>5. head = Encoded(n)
    <2>1. \A k \in 1..Width : 0 + k = k /\ k <= Len(out) /\ out[k] = Encoded(n)[k]
      BY <1>1, <1>2, <1>3
    <2>2. head = [k \in 1..Width |-> Encoded(n)[k]]
      BY <2>1 DEF Memory
    <2>. QED  BY <1>4, <2>2
  <1> HIDE DEF head
  <1>6. out # <<>>
    BY <1>1, <1>3
  <1>7. back = [k \in 1..n |-> IF Width + k <= Len(out) THEN out[Width + k] ELSE after]
    <2>1. back = Memory(out, Offset(1), Decoded(head), after)
      BY <1>6 DEF ExtractResponse, head
    <2>2. Offset(1) = Width
      BY <1>1 DEF Offset
    <2>. QED  BY <1>4, <1>5, <2>1, <2>2 DEF Memory
  <1> HIDE DEF back
  <1>8. Len(back) = n
    BY <1>1, <1>7
  <1>9. ASSUME NEW k \in 1..m - Width PROVE back[k] = p[k]
    <2>1. k \in 1..n /\ Width + k \in 1..m
      BY <1>1
    <2>. QED  BY <1>2, <1>3, <1>7, <2>1
  <1>. QED  BY <1>8, <1>9 DEF back, out, sent

(* An answer comes back as it was sent, whatever the width of a size and of *)
(* a byte, and however much of it arrives behind the size.                  *)
THEOREM EchoCorrect == Spec => []EchoComesBack
  <1>1. Init => EchoComesBack
    BY DEF Init, EchoComesBack
  <1>2. ASSUME EchoComesBack, [Next]_vars PROVE EchoComesBack'
    <2>1. CASE Execute
      <3>1. PICK p \in Parameters, after \in Bytes :
              \E m \in 0..Len(ConvertParameter(p)) :
                Called("execute", [parameter |-> p, answered |-> m],
                       ExtractResponse(SubSeq(ConvertParameter(p), 1, m), after))
        BY <2>1 DEF Execute
      <3>2. PICK m \in 0..Len(ConvertParameter(p)) :
              Called("execute", [parameter |-> p, answered |-> m],
                     ExtractResponse(SubSeq(ConvertParameter(p), 1, m), after))
        BY <3>1
      <3>3. p \in Seq(Bytes) /\ Len(p) < Weight[Width + 1]
        BY AlgorithmsAssumption
      <3>4. given'.parameter = p /\ given'.answered = m
            /\ result' = ExtractResponse(SubSeq(ConvertParameter(p), 1, m), after)
        BY <3>2 DEF Called
      <3>. QED  BY <3>3, <3>4, EchoReads DEF EchoComesBack
    <2>2. CASE ~Execute /\ Next
      <3>1. call' # "execute"
        BY <2>2 DEF Next, Called, StringReplaceAllTemplates, StringSplit, ComputeCrc,
           OpenArguments,
             OpenIn, SearchPath, Receive, ReceiveNothing, ParseLine, CombineAndParse, WriteList,
             InsertJsonInto, ReadImage, LookForSection
      <3>. QED  BY <3>1 DEF EchoComesBack
    <2>3. CASE UNCHANGED vars
      BY <1>2, <2>3 DEF vars, EchoComesBack
    <2>. QED  BY <1>2, <2>1, <2>2, <2>3
  <1>. QED  BY <1>1, <1>2, PTL DEF Spec
-----------------------------------------------------------------------------
(* FlattenSeq. *)

(* Where the pieces of a flattened sequence are: piece k begins behind      *)
(* at[k-1].                                                                 *)
Placed(at, n, seqs, flat) ==
  /\ at \in [0..n -> Nat] /\ at[0] = 0 /\ at[n] = Len(flat)
  /\ \A k \in 1..n : at[k] = at[k-1] + Len(seqs[k]) /\ at[k] <= Len(flat)
  /\ \A k \in 1..n : \A i \in 1..Len(seqs[k]) : flat[at[k-1] + i] = seqs[k][i]

(* One more text has its place at the end. *)
LEMMA PlacedAppend ==
  ASSUME NEW T, NEW n \in Nat, NEW seqs, NEW flat \in Seq(T), NEW at, Placed(at, n, seqs, flat),
         seqs[n + 1] \in Seq(T)
  PROVE  \E to : Placed(to, n + 1, seqs, flat \o seqs[n + 1])
  <1> DEFINE all == flat \o seqs[n + 1]
             to == [k \in 0..n + 1 |-> IF k = n + 1 THEN Len(all) ELSE at[k]]
             piece == seqs[n + 1]
  <1>1. /\ all \in Seq(T) /\ Len(all) = Len(flat) + Len(piece)
        /\ Len(flat) \in Nat /\ Len(piece) \in Nat /\ Len(all) \in Nat
        /\ \A i \in 1..Len(flat) : all[i] = flat[i]
        /\ \A i \in 1..Len(piece) : all[Len(flat) + i] = piece[i]
    OBVIOUS
  <1> HIDE DEF all
  <1>2. /\ to \in [0..n + 1 -> Nat] /\ to[0] = 0 /\ to[n + 1] = Len(all)
        /\ \A k \in 0..n : to[k] = at[k]
    BY <1>1 DEF Placed
  <1> HIDE DEF to
  <1>3. ASSUME NEW k \in 1..n + 1
        PROVE  to[k] = to[k-1] + Len(seqs[k]) /\ to[k] <= Len(all)
    <2>1. CASE k = n + 1
      <3>1. k - 1 = n /\ n \in 0..n
        BY <2>1
      <3>2. at[n] = Len(flat)
        BY DEF Placed
      <3>3. to[k] = Len(all) /\ to[k-1] = Len(flat) /\ Len(seqs[k]) = Len(piece)
        BY <1>2, <2>1, <3>1, <3>2
      <3>. QED  BY <1>1, <3>3
    <2>2. CASE k # n + 1
      <3>1. k \in 1..n /\ k \in 0..n /\ k - 1 \in 0..n
        BY <2>2
      <3>2. at[k] \in Nat /\ at[k] <= Len(flat) /\ at[k] = at[k-1] + Len(seqs[k])
        BY <3>1 DEF Placed
      <3>3. to[k] = at[k] /\ to[k-1] = at[k-1]
        BY <1>2, <3>1
      <3>. QED  BY <1>1, <3>2, <3>3
    <2>. QED  BY <2>1, <2>2
  <1>4. ASSUME NEW k \in 1..n + 1, NEW i \in 1..Len(seqs[k])
        PROVE  all[to[k-1] + i] = seqs[k][i]
    <2>1. CASE k = n + 1
      <3>1. k - 1 = n /\ n \in 0..n
        BY <2>1
      <3>. QED  BY <1>1, <1>2, <2>1, <3>1 DEF Placed
    <2>2. CASE k # n + 1
      <3>1. k \in 1..n /\ k \in 0..n /\ k - 1 \in 0..n
        BY <2>2
      <3>2. at[k] \in Nat /\ at[k] <= Len(flat) /\ at[k] = at[k-1] + Len(seqs[k]) /\ at[k-1] \in Nat
        BY <3>1 DEF Placed
      <3>3. Len(seqs[k]) \in Int
        BY <2>2
      <3>4. at[k-1] + i \in 1..Len(flat)
        BY <1>1, <3>2, <3>3
      <3>5. flat[at[k-1] + i] = seqs[k][i]
        BY <3>1 DEF Placed
      <3>. QED  BY <1>1, <1>2, <3>1, <3>4, <3>5
    <2>. QED  BY <2>1, <2>2
  <1>5. Placed(to, n + 1, seqs, all)
    BY <1>2, <1>3, <1>4 DEF Placed
  <1>. QED  BY <1>5 DEF all

(* The texts of a flattened sequence have their places in it, in order. *)
LEMMA FlattenRuns ==
  ASSUME NEW T, NEW seqs \in Seq(Seq(T))
  PROVE  /\ FlattenSeq(seqs) \in Seq(T)
         /\ \E at : Placed(at, Len(seqs), seqs, FlattenSeq(seqs))
  <1> DEFINE n == Len(seqs)
             A == Seq(T)
             step == [k \in 1..n |-> [x \in A |-> x \o seqs[k]]]
             body(f) == [i \in 1..n |-> IF i = 1 THEN seqs[i] ELSE f[i-1] \o seqs[i]]
             chosen == CHOOSE f : f = body(f)
  <1>1. n \in Nat /\ \A k \in 1..n : seqs[k] \in Seq(T)
    OBVIOUS
  <1>2. CASE n = 0
    <2> DEFINE at == [k \in 0..0 |-> 0]
    <2>1. FlattenSeq(seqs) = seqs /\ seqs = <<>>
      BY <1>2 DEF FlattenSeq
    <2>2. Placed(at, 0, seqs, <<>>)
      BY DEF Placed
    <2> HIDE DEF at
    <2>. QED  BY <1>2, <2>1, <2>2
  <1>3. CASE n # 0
    <2>1. <<>> \in A /\ step \in [1..n -> [A -> A]]
      BY <1>1
    <2>2. PICK g \in [SUBSET (1..n) -> A] : Folds(g, n, <<>>, step)
      <3> HIDE DEF step, n, A
      <3>. QED  BY <1>1, <2>1, FoldExists
    <2> DEFINE w == [k \in 1..n |-> g[1..k]]
    <2>3. g[{}] = <<>>
      BY <2>2 DEF Folds
    <2>4. ASSUME NEW k \in 1..n PROVE w[k] = body(w)[k]
      <3>1. /\ 1..k \in SUBSET (1..n) /\ 1..k # {} /\ Max(1..k) = k /\ (1..k) \ {k} = 1..k-1
            /\ 1..k-1 \in SUBSET (1..n)
        BY <1>1, FoldSteps
      <3>2. g[1..k-1] \in A
        BY <3>1
      <3>3. g[1..k] = g[1..k-1] \o seqs[k]
        BY <2>2, <3>1, <3>2 DEF Folds
      <3>4. CASE k = 1
        <4>1. 1..k-1 = {}
          BY <3>4
        <4>2. <<>> \o seqs[k] = seqs[k]
          BY <1>1, ConcatEmptySeq
        <4>. QED  BY <2>3, <3>3, <3>4, <4>1, <4>2
      <3>5. CASE k # 1
        <4>1. k - 1 \in 1..n
          BY <3>5
        <4>. QED  BY <3>3, <3>5, <4>1
      <3>. QED  BY <3>4, <3>5
    <2>5. w = body(w)
      BY <2>4
    <2>6. chosen = body(chosen)
      BY <2>5
    <2>7. FlattenSeq(seqs) = chosen[n]
      BY <1>3 DEF FlattenSeq
    <2> HIDE DEF chosen
    <2>8. \A i \in 1..n : chosen[i] = IF i = 1 THEN seqs[i] ELSE chosen[i-1] \o seqs[i]
      BY <2>6
    <2> DEFINE S == {k \in 0..n : k = 0 \/ (chosen[k] \in A /\ \E at : Placed(at, k, seqs, chosen[k]))}
    <2>9. 0 \in S
      BY <1>1
    <2>10. ASSUME NEW k \in 0..n-1, k \in S PROVE k + 1 \in S
      <3>1. k + 1 \in 1..n /\ (k + 1) - 1 = k /\ k + 1 \in 0..n /\ seqs[k + 1] \in Seq(T)
        BY <1>1
      <3>2. CASE k = 0
        <4> DEFINE at == [j \in 0..0 |-> 0]
        <4>1. chosen[1] = seqs[1] /\ <<>> \o seqs[1] = seqs[1] /\ <<>> \in Seq(T)
          BY <2>8, <3>1, <3>2, ConcatEmptySeq
        <4>2. Placed(at, 0, seqs, <<>>) /\ 0 \in Nat /\ seqs[0 + 1] \in Seq(T)
          BY <3>1, <3>2 DEF Placed
        <4>3. \E to : Placed(to, 0 + 1, seqs, <<>> \o seqs[0 + 1])
          <5> HIDE DEF at
          <5>. QED  BY <4>1, <4>2, PlacedAppend
        <4>4. \E to : Placed(to, 1, seqs, chosen[1])
          BY <4>1, <4>3
        <4>. QED  BY <3>1, <3>2, <4>1, <4>4
      <3>3. CASE k # 0
        <4>1. chosen[k] \in Seq(T) /\ \E at : Placed(at, k, seqs, chosen[k])
          BY <2>10, <3>3
        <4>2. PICK at : Placed(at, k, seqs, chosen[k])
          BY <4>1
        <4>3. chosen[k + 1] = chosen[k] \o seqs[k + 1]
          <5>1. chosen[k + 1] = IF k + 1 = 1 THEN seqs[k + 1] ELSE chosen[(k + 1) - 1] \o seqs[k + 1]
            BY <2>8, <3>1
          <5>2. k + 1 # 1
            BY <3>3
          <5>3. chosen[k + 1] = chosen[(k + 1) - 1] \o seqs[k + 1]
            BY <5>1, <5>2
          <5>. QED  BY <3>1, <5>3
        <4>4. \E to : Placed(to, k + 1, seqs, chosen[k] \o seqs[k + 1])
          <5>1. k \in Nat
            OBVIOUS
          <5>. QED  BY <3>1, <4>1, <4>2, <5>1, PlacedAppend
        <4>5. chosen[k + 1] \in Seq(T)
          BY <3>1, <4>1, <4>3
        <4>. QED  BY <3>1, <4>3, <4>4, <4>5
      <3>. QED  BY <3>2, <3>3
    <2>11. \A k \in S : k = 0 \/ (chosen[k] \in A /\ \E at : Placed(at, k, seqs, chosen[k]))
      OBVIOUS
    <2> HIDE DEF S
    <2>12. \A k \in 0..n : k \in S
      <3>1. \A k \in 0..n-1 : k \in S => k + 1 \in S
        BY <2>10
      <3>. QED  BY <1>1, <2>9, <3>1, Induction
    <2>13. n \in 0..n
      BY <1>1
    <2>. QED  BY <1>3, <2>7, <2>11, <2>12, <2>13
  <1>. QED  BY <1>2, <1>3
-----------------------------------------------------------------------------
(* The directory that a shell goes to. *)

ReadStart == [word |-> <<>>, quoted |-> FALSE, escaped |-> FALSE, done |-> FALSE]
ReadStates(T) == [word : Seq(T), quoted : BOOLEAN, escaped : BOOLEAN, done : BOOLEAN]

(* The shell's reader stays in its states. *)
LEMMA ReadStays ==
  ASSUME NEW T, NEW s \in ReadStates(T), NEW c \in T
  PROVE  ReadWord(s, c) \in ReadStates(T)
  <1>1. Append(s.word, c) \in Seq(T)
    BY DEF ReadStates
  <1>2. CASE s.done
    BY <1>2 DEF ReadWord
  <1>3. CASE ~s.done /\ s.escaped
    BY <1>1, <1>3 DEF ReadWord, ReadStates
  <1>4. CASE ~s.done /\ ~s.escaped
    BY <1>1, <1>4 DEF ReadWord, ReadStates
  <1>. QED  BY <1>2, <1>3, <1>4

(* What the shell does with a character. *)
LEMMA ReadCases ==
  ASSUME NEW s, NEW c, s.done = FALSE
  PROVE  /\ s.escaped = TRUE => ReadWord(s, c) = [s EXCEPT !.word = Append(s.word, c), !.escaped = FALSE]
         /\ s.escaped = FALSE =>
              /\ c = Apostrophe => ReadWord(s, c) = [s EXCEPT !.quoted = ~s.quoted]
              /\ s.quoted = FALSE /\ c = Backslash => ReadWord(s, c) = [s EXCEPT !.escaped = TRUE]
              /\ s.quoted = FALSE /\ c = Blank => ReadWord(s, c) = [s EXCEPT !.done = TRUE]
              /\ s.quoted = TRUE /\ c # Apostrophe => ReadWord(s, c) = [s EXCEPT !.word = Append(s.word, c)]
  <1>0. Apostrophe # Backslash /\ Apostrophe # Blank /\ Backslash # Blank
    BY DEF Apostrophe, Backslash, Blank
  <1>1. CASE s.escaped = TRUE
    BY <1>1 DEF ReadWord
  <1>2. CASE s.escaped = FALSE /\ c = Apostrophe
    BY <1>0, <1>2 DEF ReadWord
  <1>3. CASE s.escaped = FALSE /\ s.quoted = FALSE /\ c = Backslash
    BY <1>0, <1>3 DEF ReadWord
  <1>4. CASE s.escaped = FALSE /\ s.quoted = FALSE /\ c = Blank
    BY <1>0, <1>4 DEF ReadWord
  <1>5. CASE s.escaped = FALSE /\ s.quoted = TRUE /\ c # Apostrophe
    BY <1>0, <1>5 DEF ReadWord
  <1>. QED  BY <1>1, <1>2, <1>3, <1>4, <1>5

(* A change of one field, spelled out. *)
LEMMA StateChanges ==
  ASSUME NEW T, NEW s \in ReadStates(T), NEW b \in BOOLEAN
  PROVE  /\ [s EXCEPT !.escaped = b] = [word |-> s.word, quoted |-> s.quoted, escaped |-> b, done |-> s.done]
         /\ [s EXCEPT !.done = b] = [word |-> s.word, quoted |-> s.quoted, escaped |-> s.escaped, done |-> b]
  <1>1. [s EXCEPT !.escaped = b] = [word |-> s.word, quoted |-> s.quoted, escaped |-> b, done |-> s.done]
    BY DEF ReadStates
  <1>2. [s EXCEPT !.done = b] = [word |-> s.word, quoted |-> s.quoted, escaped |-> s.escaped, done |-> b]
    BY DEF ReadStates
  <1>. QED  BY <1>1, <1>2

State(w, q, e, d) == [word |-> w, quoted |-> q, escaped |-> e, done |-> d]

(* What each character does in each of the states that CdPath leads to. *)
LEMMA ReadStatesNext ==
  ASSUME NEW T, NEW w \in Seq(T), NEW c \in T
  PROVE  /\ ReadWord(State(w, FALSE, TRUE, FALSE), c) = State(Append(w, c), FALSE, FALSE, FALSE)
         /\ ReadWord(State(w, TRUE, FALSE, FALSE), Apostrophe) = State(w, FALSE, FALSE, FALSE)
         /\ ReadWord(State(w, FALSE, FALSE, FALSE), Apostrophe) = State(w, TRUE, FALSE, FALSE)
         /\ ReadWord(State(w, FALSE, FALSE, FALSE), Backslash) = State(w, FALSE, TRUE, FALSE)
         /\ ReadWord(State(w, FALSE, FALSE, FALSE), Blank) = State(w, FALSE, FALSE, TRUE)
         /\ ReadWord(State(w, FALSE, FALSE, TRUE), c) = State(w, FALSE, FALSE, TRUE)
         /\ c # Apostrophe =>
              ReadWord(State(w, TRUE, FALSE, FALSE), c) = State(Append(w, c), TRUE, FALSE, FALSE)
  <1>1. ASSUME NEW s PROVE s.done => ReadWord(s, c) = s
    BY DEF ReadWord
  <1>2. ReadWord(State(w, FALSE, FALSE, TRUE), c) = State(w, FALSE, FALSE, TRUE)
    BY <1>1 DEF State
  <1>3. ReadWord(State(w, FALSE, TRUE, FALSE), c) = State(Append(w, c), FALSE, FALSE, FALSE)
    <2> DEFINE s == State(w, FALSE, TRUE, FALSE)
    <2>1. /\ s.word = w /\ s.quoted = FALSE /\ s.escaped = TRUE /\ s.done = FALSE
          /\ s \in ReadStates(T)
      BY DEF State, ReadStates
    <2> HIDE DEF s
    <2>2. [s EXCEPT !.word = Append(s.word, c), !.escaped = FALSE] = State(Append(w, c), FALSE, FALSE, FALSE)
      <3>1. Append(s.word, c) \in Seq(T)
        BY <2>1
      <3> DEFINE y == [s EXCEPT !.word = Append(s.word, c), !.escaped = FALSE]
      <3>2. y \in ReadStates(T)
        BY <2>1, <3>1 DEF ReadStates
      <3>3. y.word = Append(w, c) /\ y.quoted = FALSE /\ y.escaped = FALSE /\ y.done = FALSE
        BY <2>1 DEF ReadStates
      <3> HIDE DEF y
      <3>4. y = [word |-> y.word, quoted |-> y.quoted, escaped |-> y.escaped, done |-> y.done]
        BY <3>2 DEF ReadStates
      <3>5. y = State(Append(w, c), FALSE, FALSE, FALSE)
        BY <3>3, <3>4 DEF State
      <3>. QED  BY <3>5 DEF y
    <2>3. ReadWord(s, c) = [s EXCEPT !.word = Append(s.word, c), !.escaped = FALSE]
      BY <2>1, ReadCases
    <2>. QED  BY <2>2, <2>3 DEF s
  <1>4. ReadWord(State(w, TRUE, FALSE, FALSE), Apostrophe) = State(w, FALSE, FALSE, FALSE)
    <2> DEFINE s == State(w, TRUE, FALSE, FALSE)
    <2>1. /\ s.word = w /\ s.quoted = TRUE /\ s.escaped = FALSE /\ s.done = FALSE
          /\ s \in ReadStates(T)
      BY DEF State, ReadStates
    <2> HIDE DEF s
    <2>2. [s EXCEPT !.quoted = ~s.quoted] = State(w, FALSE, FALSE, FALSE)
      <3>2. [s EXCEPT !.quoted = ~s.quoted]
              = [word |-> s.word, quoted |-> ~s.quoted, escaped |-> s.escaped, done |-> s.done]
        BY <2>1 DEF ReadStates
      <3>. QED  BY <2>1, <3>2 DEF State
    <2>3. ReadWord(s, Apostrophe) = [s EXCEPT !.quoted = ~s.quoted]
      BY <2>1, ReadCases
    <2>. QED  BY <2>2, <2>3 DEF s
  <1>5. ReadWord(State(w, FALSE, FALSE, FALSE), Apostrophe) = State(w, TRUE, FALSE, FALSE)
    <2> DEFINE s == State(w, FALSE, FALSE, FALSE)
    <2>1. /\ s.word = w /\ s.quoted = FALSE /\ s.escaped = FALSE /\ s.done = FALSE
          /\ s \in ReadStates(T)
      BY DEF State, ReadStates
    <2> HIDE DEF s
    <2>2. [s EXCEPT !.quoted = ~s.quoted] = State(w, TRUE, FALSE, FALSE)
      <3>2. [s EXCEPT !.quoted = ~s.quoted]
              = [word |-> s.word, quoted |-> ~s.quoted, escaped |-> s.escaped, done |-> s.done]
        BY <2>1 DEF ReadStates
      <3>. QED  BY <2>1, <3>2 DEF State
    <2>3. ReadWord(s, Apostrophe) = [s EXCEPT !.quoted = ~s.quoted]
      BY <2>1, ReadCases
    <2>. QED  BY <2>2, <2>3 DEF s
  <1>6. ReadWord(State(w, FALSE, FALSE, FALSE), Backslash) = State(w, FALSE, TRUE, FALSE)
    <2> DEFINE s == State(w, FALSE, FALSE, FALSE)
    <2>1. /\ s.word = w /\ s.quoted = FALSE /\ s.escaped = FALSE /\ s.done = FALSE
          /\ s \in ReadStates(T)
      BY DEF State, ReadStates
    <2> HIDE DEF s
    <2>2. [s EXCEPT !.escaped = TRUE] = State(w, FALSE, TRUE, FALSE)
      <3>2. [s EXCEPT !.escaped = TRUE]
              = [word |-> s.word, quoted |-> s.quoted, escaped |-> TRUE, done |-> s.done]
        BY <2>1, StateChanges
      <3>. QED  BY <2>1, <3>2 DEF State
    <2>3. ReadWord(s, Backslash) = [s EXCEPT !.escaped = TRUE]
      BY <2>1, ReadCases
    <2>. QED  BY <2>2, <2>3 DEF s
  <1>7. ReadWord(State(w, FALSE, FALSE, FALSE), Blank) = State(w, FALSE, FALSE, TRUE)
    <2> DEFINE s == State(w, FALSE, FALSE, FALSE)
    <2>1. /\ s.word = w /\ s.quoted = FALSE /\ s.escaped = FALSE /\ s.done = FALSE
          /\ s \in ReadStates(T)
      BY DEF State, ReadStates
    <2> HIDE DEF s
    <2>2. [s EXCEPT !.done = TRUE] = State(w, FALSE, FALSE, TRUE)
      <3>2. [s EXCEPT !.done = TRUE]
              = [word |-> s.word, quoted |-> s.quoted, escaped |-> s.escaped, done |-> TRUE]
        BY <2>1, StateChanges
      <3>. QED  BY <2>1, <3>2 DEF State
    <2>3. ReadWord(s, Blank) = [s EXCEPT !.done = TRUE]
      BY <2>1, ReadCases
    <2>. QED  BY <2>2, <2>3 DEF s
  <1>8. c # Apostrophe =>
          ReadWord(State(w, TRUE, FALSE, FALSE), c) = State(Append(w, c), TRUE, FALSE, FALSE)
    <2> DEFINE s == State(w, TRUE, FALSE, FALSE)
    <2> SUFFICES ASSUME c # Apostrophe
                 PROVE  ReadWord(State(w, TRUE, FALSE, FALSE), c) = State(Append(w, c), TRUE, FALSE, FALSE)
      OBVIOUS
    <2>1. /\ s.word = w /\ s.quoted = TRUE /\ s.escaped = FALSE /\ s.done = FALSE
          /\ s \in ReadStates(T)
      BY DEF State, ReadStates
    <2> HIDE DEF s
    <2>2. [s EXCEPT !.word = Append(s.word, c)] = State(Append(w, c), TRUE, FALSE, FALSE)
      <3>1. Append(s.word, c) \in Seq(T)
        BY <2>1
      <3>2. [s EXCEPT !.word = Append(s.word, c)]
              = [word |-> Append(s.word, c), quoted |-> s.quoted, escaped |-> s.escaped, done |-> s.done]
        BY <2>1, <3>1 DEF ReadStates
      <3>. QED  BY <2>1, <3>2 DEF State
    <2>3. ReadWord(s, c) = [s EXCEPT !.word = Append(s.word, c)]
      BY <2>1, ReadCases
    <2>. QED  BY <2>2, <2>3 DEF s
  <1>. QED  BY <1>2, <1>3, <1>4, <1>5, <1>6, <1>7, <1>8

(* A shell reads a text character by character. *)
LEMMA WordSteps ==
  ASSUME NEW T, NEW text \in Seq(T)
  PROVE  \E h \in [0..Len(text) -> ReadStates(T)] :
           /\ h[0] = ReadStart
           /\ \A k \in 1..Len(text) : h[k] = ReadWord(h[k-1], text[k])
           /\ Word(text) = h[Len(text)].word
  <1> DEFINE n == Len(text)
             step == [k \in 1..n |-> [x \in ReadStates(T) |-> ReadWord(x, text[k])]]
             body(g) == [s \in SUBSET (DOMAIN text) |->
                           IF s = {} THEN ReadStart ELSE ReadWord(g[s \ {Max(s)}], text[Max(s)])]
             chosen == CHOOSE g : g = body(g)
  <1>0. (DOMAIN text) = 1..n
    OBVIOUS
  <1>1. n \in Nat /\ ReadStart \in ReadStates(T)
    BY DEF ReadStart, ReadStates
  <1>2. step \in [1..n -> [ReadStates(T) -> ReadStates(T)]]
    BY ReadStays
  <1>3. PICK g \in [SUBSET (1..n) -> ReadStates(T)] : Folds(g, n, ReadStart, step)
    <2> HIDE DEF step, n
    <2>. QED  BY <1>1, <1>2, FoldExists
  <1>4. ASSUME NEW s \in SUBSET (1..n) PROVE g[s] = body(g)[s]
    <2>1. CASE s = {}
      BY <1>3, <2>1 DEF Folds
    <2>2. CASE s # {}
      <3>1. Max(s) \in 1..n /\ s \ {Max(s)} \in SUBSET (1..n)
        BY <1>1, <2>2, MaxIn
      <3>2. g[s \ {Max(s)}] \in ReadStates(T) /\ g[s] = step[Max(s)][g[s \ {Max(s)}]]
        BY <1>3, <2>2, <3>1 DEF Folds
      <3>. QED  BY <2>2, <3>1, <3>2
    <2>. QED  BY <2>1, <2>2
  <1>5. g = body(g)
    BY <1>0, <1>4
  <1>6. chosen = body(chosen)
    BY <1>5
  <1>7. Word(text) = chosen[(DOMAIN text)].word
    BY DEF Word, ReadStart, FoldLeft, MapThenFoldSet
  <1> HIDE DEF chosen
  <1>8. \A s \in SUBSET (1..n) : chosen[s] = body(chosen)[s]
    BY <1>0, <1>6
  <1>9. chosen[{}] = ReadStart
    BY <1>8
  <1>10. ASSUME NEW k \in 1..n PROVE chosen[1..k] = ReadWord(chosen[1..k-1], text[k])
    <2>1. 1..k \in SUBSET (1..n) /\ 1..k # {} /\ Max(1..k) = k /\ (1..k) \ {k} = 1..k-1
      BY <1>1, FoldSteps
    <2>. QED  BY <1>0, <1>8, <2>1
  <1>11. \A k \in 1..n : chosen[1..k-1] \in ReadStates(T) => chosen[1..k] = step[k][chosen[1..k-1]]
    BY <1>10
  <1>15. Follows(chosen, n, ReadStates(T), ReadStart, step)
    BY <1>9, <1>11 DEF Follows
  <1>12. PICK h \in [0..n -> ReadStates(T)] : Traces(h, n, ReadStart, step) /\ chosen[1..n] = h[n]
    <2>1. HasTrace(chosen, n, ReadStates(T), ReadStart, step)
      <3> HIDE DEF step, n
      <3>. QED  BY <1>1, <1>2, <1>15, FoldTrace
    <2>. QED  BY <2>1 DEF HasTrace
  <1>13. \A k \in 1..n : k - 1 \in 0..n /\ h[k] = step[k][h[k-1]]
    <2> HIDE DEF step
    <2>. QED  BY <1>1, <1>12 DEF Traces
  <1>14. \A k \in 1..n : h[k] = ReadWord(h[k-1], text[k])
    BY <1>12, <1>13
  <1>. QED  BY <1>0, <1>7, <1>12, <1>14 DEF Traces

(* Between the apostrophes k characters of the path have been read. *)
Inside(path, k) ==
  State(SubSeq(path, 1, k), TRUE, FALSE, FALSE)

EscapedChar(c) ==
  IF c = Apostrophe THEN <<Apostrophe, Backslash, Apostrophe, Apostrophe>> ELSE <<c>>

(* After what is written for a character the reader is in apostrophes       *)
(* again.                                                                   *)
LEMMA InsideNext ==
  ASSUME NEW T, NEW path \in Seq(T), NEW k \in 0..Len(path) - 1,
         NEW h, NEW p \in Nat, h[p] = Inside(path, k),
         \A i \in 1..Len(EscapedChar(path[k + 1])) :
            h[p + i] = ReadWord(h[p + i - 1], EscapedChar(path[k + 1])[i])
  PROVE  h[p + Len(EscapedChar(path[k + 1]))] = Inside(path, k + 1)
  <1> DEFINE c == path[k + 1]
             e == EscapedChar(c)
             word == SubSeq(path, 1, k)
  <1>1. Append(word, c) = SubSeq(path, 1, k + 1)
    <2> DEFINE all == SubSeq(path, 1, k + 1)
    <2>1. \A i \in 1..k + 1 : path[i] \in T
      OBVIOUS
    <2>2. /\ word \in Seq(T) /\ Len(word) = k /\ \A i \in 1..k : word[i] = path[i]
          /\ all \in Seq(T) /\ Len(all) = k + 1 /\ \A i \in 1..k + 1 : all[i] = path[i]
      BY <2>1, SubSeqProperties
    <2>3. c \in T
      OBVIOUS
    <2> DEFINE more == Append(word, c)
    <2> HIDE DEF word, all
    <2>4. /\ more \in Seq(T) /\ Len(more) = k + 1 /\ \A i \in 1..k : more[i] = word[i]
          /\ more[k + 1] = c
      BY <2>2, <2>3
    <2>5. \A i \in 1..Len(more) : more[i] = all[i]
      BY <2>2, <2>4
    <2> HIDE DEF more
    <2>6. more = all
      BY <2>2, <2>4, <2>5, SeqEqual
    <2>. QED  BY <2>6 DEF more, all
  <1> HIDE DEF word
  <1>4. word \in Seq(T) /\ c \in T /\ h[p] = State(word, TRUE, FALSE, FALSE)
    <2>1. \A i \in 1..k : path[i] \in T
      OBVIOUS
    <2>. QED  BY <2>1, SubSeqProperties DEF word, Inside
  <1>2. CASE c # Apostrophe
    <2>1. e = <<c>> /\ Len(e) = 1 /\ e[1] = c
      BY <1>2 DEF EscapedChar
    <2>2. h[p + 1] = ReadWord(h[p], c)
      BY <2>1
    <2>3. h[p + 1] = State(Append(word, c), TRUE, FALSE, FALSE)
      BY <1>2, <1>4, <2>2, ReadStatesNext
    <2>. QED  BY <1>1, <2>1, <2>3 DEF Inside
  <1>3. CASE c = Apostrophe
    <2>1. e = <<Apostrophe, Backslash, Apostrophe, Apostrophe>> /\ Len(e) = 4
          /\ e[1] = Apostrophe /\ e[2] = Backslash /\ e[3] = Apostrophe /\ e[4] = Apostrophe
      BY <1>3 DEF EscapedChar
    <2>2. /\ h[p + 1] = ReadWord(h[p], Apostrophe) /\ h[p + 2] = ReadWord(h[p + 1], Backslash)
          /\ h[p + 3] = ReadWord(h[p + 2], Apostrophe) /\ h[p + 4] = ReadWord(h[p + 3], Apostrophe)
      BY <2>1
    <2>0. Apostrophe \in T
      BY <1>3, <1>4
    <2>3. h[p + 2] = State(word, FALSE, TRUE, FALSE)
      BY <1>4, <2>2, ReadStatesNext
    <2>4. h[p + 3] = State(Append(word, Apostrophe), FALSE, FALSE, FALSE)
      BY <1>4, <2>2, <2>3, <2>0, ReadStatesNext
    <2>5. Append(word, Apostrophe) \in Seq(T)
      BY <1>3, <1>4
    <2>6. h[p + 4] = State(Append(word, Apostrophe), TRUE, FALSE, FALSE)
      BY <1>4, <2>2, <2>4, <2>5, <2>0, ReadStatesNext
    <2>. QED  BY <1>1, <1>3, <2>1, <2>6 DEF Inside
  <1>. QED  BY <1>2, <1>3

(* What is in apostrophes, and what follows. *)
LEMMA InApostrophes ==
  ASSUME NEW T, NEW flat \in Seq(T), Apostrophe \in T, Blank \in T, "&" \in T,
         NEW text, text = <<Apostrophe>> \o flat \o <<Apostrophe, Blank, "&", "&">>
  PROVE  /\ text \in Seq(T) /\ Len(text) = Len(flat) + 5
         /\ text[1] = Apostrophe /\ \A i \in 1..Len(flat) : text[i + 1] = flat[i]
         /\ text[Len(flat) + 2] = Apostrophe /\ text[Len(flat) + 3] = Blank
  <1> DEFINE front == <<Apostrophe>> \o flat
             behind == <<Apostrophe, Blank, "&", "&">>
  <1>1. front \in Seq(T) /\ Len(front) = Len(flat) + 1 /\ front[1] = Apostrophe
    OBVIOUS
  <1>2. \A i \in 1..Len(flat) : front[i + 1] = flat[i]
    OBVIOUS
  <1>3. /\ behind \in Seq(T) /\ Len(behind) = 4
        /\ behind[1] = Apostrophe /\ behind[2] = Blank
    OBVIOUS
  <1> HIDE DEF front, behind
  <1>4. text = front \o behind
    BY DEF front, behind
  <1>5. /\ text \in Seq(T) /\ Len(text) = Len(front) + Len(behind)
        /\ \A i \in 1..Len(front) : text[i] = front[i]
        /\ \A i \in 1..Len(behind) : text[Len(front) + i] = behind[i]
    <2>1. behind \in Seq(T) /\ front \in Seq(T)
      BY <1>1, <1>3
    <2>2. text \in Seq(T) /\ Len(text) = Len(front) + Len(behind)
      BY <1>4, <2>1
    <2>3. ASSUME NEW i \in 1..Len(text)
          PROVE  text[i] = IF i <= Len(front) THEN front[i] ELSE behind[i - Len(front)]
      BY <1>4, <2>1, <2>2
    <2>4. Len(front) \in Nat /\ Len(behind) \in Nat
      BY <2>1
    <2>5. ASSUME NEW i \in 1..Len(front) PROVE text[i] = front[i]
      BY <2>2, <2>3, <2>4
    <2>6. ASSUME NEW i \in 1..Len(behind) PROVE text[Len(front) + i] = behind[i]
      <3>1. Len(front) + i \in 1..Len(text) /\ ~(Len(front) + i <= Len(front))
            /\ (Len(front) + i) - Len(front) = i
        BY <2>2, <2>4
      <3>. QED  BY <2>3, <3>1
    <2>. QED  BY <2>2, <2>5, <2>6
  <1>6. Len(flat) \in Nat
    OBVIOUS
  <1>. QED  BY <1>1, <1>2, <1>3, <1>5, <1>6

(* The reader goes over a text that is part of the line. *)
LEMMA ReadOn ==
  ASSUME NEW n \in Nat, NEW text, NEW h, \A k \in 1..n : h[k] = ReadWord(h[k-1], text[k]),
         NEW p \in Nat, NEW e, Len(e) \in Nat, p + Len(e) <= n,
         \A i \in 1..Len(e) : text[p + i] = e[i]
  PROVE  \A i \in 1..Len(e) : h[p + i] = ReadWord(h[p + i - 1], e[i])
  <1> SUFFICES ASSUME NEW i \in 1..Len(e)
               PROVE  h[p + i] = ReadWord(h[p + i - 1], e[i])
    OBVIOUS
  <1>1. p + i \in 1..n /\ text[p + i] = e[i]
    OBVIOUS
  <1>. QED  BY <1>1

(* The shell goes to the directory it was given, whatever is in its name. *)
LEMMA CdIsRead ==
  ASSUME NEW path, path \in Seq(ToSet(path))
  PROVE  Word(CdPath(path)) = path
  <1> DEFINE T == ToSet(path) \cup {Apostrophe, Backslash, Blank, "&"}
             n == Len(path)
             seqs == [i \in DOMAIN path |-> EscapedChar(path[i])]
             flat == FlattenSeq(seqs)
             text == CdPath(path)
             m == Len(flat)
             N == Len(text)
  <1>1. path \in Seq(T) /\ n \in Nat /\ DOMAIN path = 1..n
    OBVIOUS
  <1>2. {Apostrophe, Backslash, Blank, "&"} \subseteq T
    OBVIOUS
  <1> HIDE DEF T
  <1>3. ASSUME NEW c \in T PROVE EscapedChar(c) \in Seq(T)
    BY <1>2 DEF EscapedChar
  <1>4. seqs \in Seq(Seq(T)) /\ Len(seqs) = n
    <2>1. \A i \in 1..n : path[i] \in T
      BY <1>1
    <2>. QED  BY <1>1, <1>3, <2>1, IsASeq
  <1>5. \A k \in 1..n : seqs[k] = EscapedChar(path[k])
    BY <1>1
  <1> HIDE DEF seqs
  <1>6. flat \in Seq(T) /\ \E at : Placed(at, n, seqs, flat)
    BY <1>4, FlattenRuns
  <1>7. PICK at : Placed(at, n, seqs, flat)
    BY <1>6
  <1>8. text = <<Apostrophe>> \o flat \o <<Apostrophe, Blank, "&", "&">>
    BY DEF CdPath, Escaped, seqs, EscapedChar
  <1> HIDE DEF flat, text, n
  <1>9. /\ text \in Seq(T) /\ Len(text) = m + 5 /\ m \in Nat
        /\ text[1] = Apostrophe /\ \A i \in 1..m : text[i + 1] = flat[i]
        /\ text[m + 2] = Apostrophe /\ text[m + 3] = Blank
    BY <1>2, <1>6, <1>8, InApostrophes
  <1>20. N \in Nat /\ N = m + 5 /\ m \in Nat
    BY <1>9
  <1>21. \E h \in [0..N -> ReadStates(T)] :
           /\ h[0] = ReadStart
           /\ \A k \in 1..N : h[k] = ReadWord(h[k-1], text[k])
           /\ Word(text) = h[N].word
    BY <1>9, WordSteps
  <1> HIDE DEF m, N
  <1>10. PICK h \in [0..N -> ReadStates(T)] :
           /\ h[0] = ReadStart
           /\ \A k \in 1..N : h[k] = ReadWord(h[k-1], text[k])
           /\ Word(text) = h[N].word
    BY <1>21
  <1>11. SubSeq(path, 1, 0) = <<>> /\ SubSeq(path, 1, n) = path /\ <<>> \in Seq(T)
    BY <1>1
  <1>12. h[1] = Inside(path, 0)
    <2>1. h[0] = State(<<>>, FALSE, FALSE, FALSE)
      BY <1>10 DEF ReadStart, State
    <2>2. 1 \in 1..N /\ 1 - 1 = 0
      BY <1>20
    <2>4. h[1] = ReadWord(h[0], Apostrophe)
      BY <1>9, <1>10, <2>2
    <2>3. h[1] = State(<<>>, TRUE, FALSE, FALSE)
      BY <1>2, <1>11, <2>1, <2>4, ReadStatesNext
    <2>. QED  BY <1>11, <2>3 DEF Inside
  <1>13. /\ at \in [0..n -> Nat] /\ at[0] = 0 /\ at[n] = m
         /\ \A k \in 1..n : at[k] = at[k-1] + Len(seqs[k]) /\ at[k] <= m
         /\ \A k \in 1..n : \A i \in 1..Len(seqs[k]) : flat[at[k-1] + i] = seqs[k][i]
    BY <1>7 DEF Placed, m
  <1>14. ASSUME NEW k \in 0..n - 1, h[1 + at[k]] = Inside(path, k)
         PROVE  h[1 + at[k + 1]] = Inside(path, k + 1)
    <2> DEFINE e == EscapedChar(path[k + 1])
               p == 1 + at[k]
    <2>1. k + 1 \in 1..n /\ (k + 1) - 1 = k /\ k \in 0..n
      BY <1>1
    <2>2. seqs[k + 1] = e /\ Len(e) \in Nat
      <3>1. path[k + 1] \in T
        BY <1>1, <2>1
      <3>2. e \in Seq(T)
        BY <1>3, <3>1
      <3>. QED  BY <1>5, <2>1, <3>2
    <2>3. at[k] \in Nat /\ at[k + 1] = at[k] + Len(e) /\ at[k + 1] <= m
      BY <1>13, <2>1, <2>2
    <2>4. \A i \in 1..Len(e) : flat[at[k] + i] = e[i]
      BY <1>13, <2>1, <2>2
    <2> HIDE DEF e, p
    <2>5. \A i \in 1..Len(e) : h[p + i] = ReadWord(h[p + i - 1], e[i])
      <3>1. ASSUME NEW i \in 1..Len(e) PROVE text[p + i] = e[i]
        <4>1. at[k] + i \in 1..m /\ p + i = (at[k] + i) + 1
          BY <1>20, <2>2, <2>3 DEF p
        <4>. QED  BY <1>9, <2>4, <4>1
      <3>2. p \in Nat /\ Len(e) \in Nat /\ p + Len(e) <= N
        BY <1>20, <2>2, <2>3 DEF p
      <3>. QED  BY <1>10, <1>20, <3>1, <3>2, ReadOn
    <2>6. p \in Nat /\ h[p] = Inside(path, k) /\ p + Len(e) = 1 + at[k + 1]
      BY <1>14, <2>2, <2>3 DEF p
    <2>7. h[p + Len(e)] = Inside(path, k + 1)
      <3>1. k \in 0..Len(path) - 1
        BY DEF n
      <3>2. \A i \in 1..Len(EscapedChar(path[k + 1])) :
               h[p + i] = ReadWord(h[p + i - 1], EscapedChar(path[k + 1])[i])
        BY <2>5 DEF e
      <3>3. h[p + Len(EscapedChar(path[k + 1]))] = Inside(path, k + 1)
        BY <1>1, <2>6, <3>1, <3>2, InsideNext
      <3>. QED  BY <3>3 DEF e
    <2>. QED  BY <2>6, <2>7
  <1>15. h[1 + at[n]] = Inside(path, n)
    <2> DEFINE S == {k \in 0..n : h[1 + at[k]] = Inside(path, k)}
    <2>1. 0 \in S
      BY <1>1, <1>12, <1>13
    <2>2. \A k \in 0..n - 1 : k \in S => k + 1 \in S
      BY <1>1, <1>14
    <2> HIDE DEF S
    <2>3. n \in S
      BY <1>1, <2>1, <2>2, Induction
    <2>. QED  BY <2>3 DEF S
  <1>16. h[m + 1] = State(path, TRUE, FALSE, FALSE)
    <2>1. 1 + m = m + 1
      BY <1>20
    <2>. QED  BY <1>11, <1>13, <1>15, <2>1 DEF Inside
  <1>17. h[m + 2] = State(path, FALSE, FALSE, FALSE)
    <2>2. m + 2 \in 1..N /\ (m + 2) - 1 = m + 1
      BY <1>20
    <2>1. h[m + 2] = ReadWord(h[m + 1], Apostrophe)
      BY <1>9, <1>10, <2>2
    <2>. QED  BY <1>1, <1>2, <1>16, <2>1, ReadStatesNext
  <1>18. h[m + 3] = State(path, FALSE, FALSE, TRUE)
    <2>2. m + 3 \in 1..N /\ (m + 3) - 1 = m + 2
      BY <1>20
    <2>1. h[m + 3] = ReadWord(h[m + 2], Blank)
      BY <1>9, <1>10, <2>2
    <2>. QED  BY <1>1, <1>2, <1>17, <2>1, ReadStatesNext
  <1>19. h[m + 5] = State(path, FALSE, FALSE, TRUE)
    <2>1. /\ m + 4 \in 1..N /\ (m + 4) - 1 = m + 3 /\ m + 5 \in 1..N /\ (m + 5) - 1 = m + 4
          /\ text[m + 4] \in T /\ text[m + 5] \in T
      BY <1>9, <1>20 DEF N
    <2>2. h[m + 4] = ReadWord(h[m + 3], text[m + 4]) /\ h[m + 5] = ReadWord(h[m + 4], text[m + 5])
      BY <1>10, <2>1
    <2>4. \A c \in T : ReadWord(State(path, FALSE, FALSE, TRUE), c) = State(path, FALSE, FALSE, TRUE)
      BY <1>1, ReadStatesNext
    <2>3. h[m + 4] = State(path, FALSE, FALSE, TRUE)
      BY <1>18, <2>1, <2>2, <2>4
    <2>. QED  BY <2>1, <2>2, <2>3, <2>4
  <1>. QED  BY <1>10, <1>19, <1>20 DEF State, text

-----------------------------------------------------------------------------
(* The arguments that the C runtime of a child reads. *)

ArgvStates(T) ==
  [name : Seq(T), named : BOOLEAN, args : Seq(Seq(T)), arg : Seq(T),
   quoted : BOOLEAN, slashes : Nat, inside : BOOLEAN]

Naming(w, q) ==
  [name |-> w, named |-> FALSE, args |-> <<>>, arg |-> <<>>,
   quoted |-> q, slashes |-> 0, inside |-> FALSE]
Arguing(w, as, a, q, n, b) ==
  [name |-> w, named |-> TRUE, args |-> as, arg |-> a, quoted |-> q, slashes |-> n, inside |-> b]

(* A run of backslashes. *)
LEMMA BackslashesAre ==
  ASSUME NEW T, Backslash \in T, NEW n \in Nat
  PROVE  /\ Backslashes(n) \in Seq(T) /\ Len(Backslashes(n)) = n
         /\ \A k \in 1..n : Backslashes(n)[k] = Backslash
  BY DEF Backslashes

(* The characters with a meaning are different ones. *)
LEMMA CharactersDiffer == /\ Mark # Backslash /\ Mark # Blank /\ Backslash # Blank
                          /\ Apostrophe # Backslash /\ Apostrophe # Blank
  BY DEF Mark, Backslash, Blank, Apostrophe

(* What one character does, with what it changes spelled out. *)
LEMMA NameCases ==
  ASSUME NEW s, NEW c, s.named = FALSE
  PROVE  /\ c = Mark => ReadChar(s, c) = [s EXCEPT !.quoted = ~s.quoted]
         /\ c = Blank /\ s.quoted = FALSE => ReadChar(s, c) = [s EXCEPT !.named = TRUE]
         /\ c # Mark /\ (c # Blank \/ s.quoted = TRUE) =>
              ReadChar(s, c) = [s EXCEPT !.name = Append(s.name, c)]
  <1>1. CASE c = Mark
    BY <1>1, CharactersDiffer DEF ReadChar, ReadName
  <1>2. CASE c = Blank /\ s.quoted = FALSE
    BY <1>2, CharactersDiffer DEF ReadChar, ReadName
  <1>3. CASE c # Mark /\ (c # Blank \/ s.quoted = TRUE)
    BY <1>3, CharactersDiffer DEF ReadChar, ReadName
  <1>. QED  BY <1>1, <1>2, <1>3, CharactersDiffer

(* The same behind the program's name. *)
LEMMA ArgumentCases ==
  ASSUME NEW s, NEW c, s.named = TRUE
  PROVE  /\ c = Backslash =>
              ReadChar(s, c) = [s EXCEPT !.slashes = s.slashes + 1, !.inside = TRUE]
         /\ c = Mark /\ s.slashes % 2 = 1 =>
              ReadChar(s, c) = [s EXCEPT !.arg = s.arg \o Backslashes(s.slashes \div 2) \o <<Mark>>,
                                         !.quoted = s.quoted, !.slashes = 0, !.inside = TRUE]
         /\ c = Mark /\ s.slashes % 2 # 1 =>
              ReadChar(s, c) = [s EXCEPT !.arg = s.arg \o Backslashes(s.slashes \div 2) \o <<>>,
                                         !.quoted = ~s.quoted, !.slashes = 0, !.inside = TRUE]
         /\ c = Blank /\ s.quoted = FALSE /\ s.inside = TRUE =>
              ReadChar(s, c) = [s EXCEPT !.args = Append(s.args, s.arg \o Backslashes(s.slashes)),
                                         !.arg = <<>>, !.slashes = 0, !.inside = FALSE]
         /\ c = Blank /\ s.quoted = FALSE /\ s.inside = FALSE =>
              ReadChar(s, c) = [s EXCEPT !.args = s.args,
                                         !.arg = <<>>, !.slashes = 0, !.inside = FALSE]
         /\ c \notin {Mark, Backslash} /\ (c # Blank \/ s.quoted = TRUE) =>
              ReadChar(s, c) = [s EXCEPT !.arg = s.arg \o Backslashes(s.slashes) \o <<c>>,
                                         !.slashes = 0, !.inside = TRUE]
  <1>1. CASE c = Backslash
    BY <1>1, CharactersDiffer DEF ReadChar, ReadArgument
  <1>2. CASE c = Mark /\ s.slashes % 2 = 1
    BY <1>2, CharactersDiffer DEF ReadChar, ReadArgument
  <1>3. CASE c = Mark /\ s.slashes % 2 # 1
    BY <1>3, CharactersDiffer DEF ReadChar, ReadArgument
  <1>4. CASE c = Blank /\ s.quoted = FALSE /\ s.inside = TRUE
    BY <1>4, CharactersDiffer DEF ReadChar, ReadArgument
  <1>5. CASE c = Blank /\ s.quoted = FALSE /\ s.inside = FALSE
    BY <1>5, CharactersDiffer DEF ReadChar, ReadArgument
  <1>6. CASE c \notin {Mark, Backslash} /\ (c # Blank \/ s.quoted = TRUE)
    BY <1>6, CharactersDiffer DEF ReadChar, ReadArgument
  <1>. QED  BY <1>1, <1>2, <1>3, <1>4, <1>5, <1>6, CharactersDiffer

(* What one character does in the states that are met. *)
LEMMA NameMark ==
  ASSUME NEW T, NEW w \in Seq(T), NEW q, q \in BOOLEAN
  PROVE  ReadChar(Naming(w, q), Mark) = Naming(w, ~q)
  <1> DEFINE s == Naming(w, q)
             y == [s EXCEPT !.quoted = ~s.quoted]
  <1>1. /\ s \in ArgvStates(T)
        /\ s.name = w /\ s.named = FALSE /\ s.args = <<>> /\ s.arg = <<>> /\ s.quoted = q
             /\ s.slashes = 0 /\ s.inside = FALSE
    BY DEF ArgvStates, Naming, Arguing
  <1> HIDE DEF s
  <1>2. s.quoted \in BOOLEAN
    BY <1>1
  <1>3. y \in ArgvStates(T)
    BY <1>1, <1>2 DEF ArgvStates
  <1>4. y.name = w /\ y.named = FALSE /\ y.args = <<>> /\ y.arg = <<>> /\ y.quoted = ~q
        /\ y.slashes = 0 /\ y.inside = FALSE
    BY <1>1, <1>2 DEF ArgvStates
  <1>5. ReadChar(s, Mark) = y
    BY <1>1, <1>2, NameCases DEF y
  <1> HIDE DEF y
  <1>6. y = [name |-> y.name, named |-> y.named, args |-> y.args, arg |-> y.arg,
             quoted |-> y.quoted, slashes |-> y.slashes, inside |-> y.inside]
    BY <1>3 DEF ArgvStates
  <1>. QED  BY <1>4, <1>5, <1>6 DEF s, Naming, Arguing

(* A space ends the name. *)
LEMMA NameBlank ==
  ASSUME NEW T, NEW w \in Seq(T)
  PROVE  ReadChar(Naming(w, FALSE), Blank) = Arguing(w, <<>>, <<>>, FALSE, 0, FALSE)
  <1> DEFINE s == Naming(w, FALSE)
             y == [s EXCEPT !.named = TRUE]
  <1>1. /\ s \in ArgvStates(T)
        /\ s.name = w /\ s.named = FALSE /\ s.args = <<>> /\ s.arg = <<>>
             /\ s.quoted = FALSE /\ s.slashes = 0 /\ s.inside = FALSE
    BY DEF ArgvStates, Naming, Arguing
  <1> HIDE DEF s
  <1>2. TRUE
    OBVIOUS
  <1>3. y \in ArgvStates(T)
    BY <1>1, <1>2 DEF ArgvStates
  <1>4. y.name = w /\ y.named = TRUE /\ y.args = <<>> /\ y.arg = <<>> /\ y.quoted = FALSE
        /\ y.slashes = 0 /\ y.inside = FALSE
    BY <1>1, <1>2 DEF ArgvStates
  <1>5. ReadChar(s, Blank) = y
    BY <1>1, <1>2, NameCases DEF y
  <1> HIDE DEF y
  <1>6. y = [name |-> y.name, named |-> y.named, args |-> y.args, arg |-> y.arg,
             quoted |-> y.quoted, slashes |-> y.slashes, inside |-> y.inside]
    BY <1>3 DEF ArgvStates
  <1>. QED  BY <1>4, <1>5, <1>6 DEF s, Naming, Arguing

(* Any other character, and a space in quotes, is part of the name. *)
LEMMA NameChar ==
  ASSUME NEW T, NEW w \in Seq(T), NEW q, q \in BOOLEAN,
         NEW c \in T, c # Mark, c # Blank \/ q = TRUE
  PROVE  ReadChar(Naming(w, q), c) = Naming(Append(w, c), q)
  <1> DEFINE s == Naming(w, q)
             y == [s EXCEPT !.name = Append(s.name, c)]
  <1>1. /\ s \in ArgvStates(T)
        /\ s.name = w /\ s.named = FALSE /\ s.args = <<>> /\ s.arg = <<>> /\ s.quoted = q
             /\ s.slashes = 0 /\ s.inside = FALSE
    BY DEF ArgvStates, Naming, Arguing
  <1> HIDE DEF s
  <1>2. Append(s.name, c) \in Seq(T) /\ Append(s.name, c) = Append(w, c)
    BY <1>1
  <1>3. y \in ArgvStates(T)
    BY <1>1, <1>2 DEF ArgvStates
  <1>4. y.name = Append(w, c) /\ y.named = FALSE /\ y.args = <<>> /\ y.arg = <<>>
        /\ y.quoted = q /\ y.slashes = 0 /\ y.inside = FALSE
    BY <1>1, <1>2 DEF ArgvStates
  <1>5. ReadChar(s, c) = y
    BY <1>1, <1>2, NameCases DEF y
  <1> HIDE DEF y
  <1>6. y = [name |-> y.name, named |-> y.named, args |-> y.args, arg |-> y.arg,
             quoted |-> y.quoted, slashes |-> y.slashes, inside |-> y.inside]
    BY <1>3 DEF ArgvStates
  <1>. QED  BY <1>4, <1>5, <1>6 DEF s, Naming, Arguing

ArgTypes(T, w, as, a, q, n, b) ==
  /\ w \in Seq(T) /\ as \in Seq(Seq(T)) /\ a \in Seq(T)
  /\ q \in BOOLEAN /\ n \in Nat /\ b \in BOOLEAN /\ Mark \in T /\ Backslash \in T

OnBackslash(w, as, a, q, n, b) ==
  ReadChar(Arguing(w, as, a, q, n, b), Backslash) = Arguing(w, as, a, q, n + 1, TRUE)
OnEvenMark(w, as, a, q, m, b) ==
  ReadChar(Arguing(w, as, a, q, 2 * m, b), Mark)
    = Arguing(w, as, a \o Backslashes(m), ~q, 0, TRUE)
OnOddMark(w, as, a, q, m, b) ==
  ReadChar(Arguing(w, as, a, q, 2 * m + 1, b), Mark)
    = Arguing(w, as, a \o Backslashes(m) \o <<Mark>>, q, 0, TRUE)
OnChar(w, as, a, q, n, b, c) ==
  ReadChar(Arguing(w, as, a, q, n, b), c)
    = Arguing(w, as, a \o Backslashes(n) \o <<c>>, q, 0, TRUE)
OnBlank(w, as, a, n) ==
  ReadChar(Arguing(w, as, a, FALSE, n, TRUE), Blank)
    = Arguing(w, Append(as, a \o Backslashes(n)), <<>>, FALSE, 0, FALSE)
OnFirstBlank(w, as) ==
  ReadChar(Arguing(w, as, <<>>, FALSE, 0, FALSE), Blank) = Arguing(w, as, <<>>, FALSE, 0, FALSE)

(* A backslash is counted. *)
LEMMA BackslashRead ==
  ASSUME NEW T, NEW w, NEW as, NEW a, NEW q, NEW n, NEW b,
         ArgTypes(T, w, as, a, q, n, b)
  PROVE  OnBackslash(w, as, a, q, n, b)
  <1> DEFINE s == Arguing(w, as, a, q, n, b)
             y == [s EXCEPT !.slashes = s.slashes + 1, !.inside = TRUE]
  <1>0. /\ w \in Seq(T) /\ as \in Seq(Seq(T)) /\ a \in Seq(T) /\ q \in BOOLEAN /\ b \in BOOLEAN
        /\ Mark \in T /\ Backslash \in T /\ n \in Nat
    BY DEF ArgTypes
  <1>1. /\ s \in ArgvStates(T)
        /\ s.name = w /\ s.named = TRUE /\ s.args = as /\ s.arg = a /\ s.quoted = q
             /\ s.slashes = n /\ s.inside = b
    BY <1>0 DEF ArgvStates, Arguing
  <1> HIDE DEF s
  <1>2. s.slashes + 1 \in Nat
    BY <1>0, <1>1
  <1>3. y \in ArgvStates(T)
    BY <1>1, <1>2 DEF ArgvStates
  <1>4. y.name = w /\ y.named = TRUE /\ y.args = as /\ y.arg = a /\ y.quoted = q
        /\ y.slashes = n + 1 /\ y.inside = TRUE
    BY <1>1, <1>2 DEF ArgvStates
  <1>5. ReadChar(s, Backslash) = y
    BY <1>1, <1>2, ArgumentCases
  <1> HIDE DEF y
  <1>6. y = [name |-> y.name, named |-> y.named, args |-> y.args, arg |-> y.arg,
             quoted |-> y.quoted, slashes |-> y.slashes, inside |-> y.inside]
    BY <1>3 DEF ArgvStates
  <1>7. y = Arguing(w, as, a, q, n + 1, TRUE)
    BY <1>4, <1>6 DEF Arguing
  <1>. QED  BY <1>5, <1>7 DEF s, OnBackslash

(* A quote behind an odd number of backslashes is part of the argument. *)
LEMMA OddMarkRead ==
  ASSUME NEW T, NEW w, NEW as, NEW a, NEW q, NEW m, NEW b,
         ArgTypes(T, w, as, a, q, m, b)
  PROVE  OnOddMark(w, as, a, q, m, b)
  <1> DEFINE s == Arguing(w, as, a, q, 2 * m + 1, b)
             y == [s EXCEPT !.arg = s.arg \o Backslashes(s.slashes \div 2) \o <<Mark>>,
                       !.quoted = s.quoted, !.slashes = 0, !.inside = TRUE]
  <1>0. /\ w \in Seq(T) /\ as \in Seq(Seq(T)) /\ a \in Seq(T) /\ q \in BOOLEAN /\ b \in BOOLEAN
        /\ Mark \in T /\ Backslash \in T /\ m \in Nat /\ 2 * m + 1 \in Nat
    <2>1. /\ w \in Seq(T) /\ as \in Seq(Seq(T)) /\ a \in Seq(T) /\ q \in BOOLEAN /\ b \in BOOLEAN
        /\ Mark \in T /\ Backslash \in T /\ m \in Nat
      BY DEF ArgTypes
    <2>2. m \in Nat
      BY <2>1
    <2>3. 2 * m + 1 \in Nat
      BY <2>2
    <2>. QED  BY <2>1, <2>3
  <1>1. /\ s \in ArgvStates(T)
        /\ s.name = w /\ s.named = TRUE /\ s.args = as /\ s.arg = a /\ s.quoted = q
             /\ s.slashes = 2 * m + 1 /\ s.inside = b
    BY <1>0 DEF ArgvStates, Arguing
  <1> HIDE DEF s
  <1>2. /\ s.slashes % 2 = 1 /\ s.slashes \div 2 = m
        /\ s.arg \o Backslashes(s.slashes \div 2) \o <<Mark>> = a \o Backslashes(m) \o <<Mark>>
        /\ a \o Backslashes(m) \o <<Mark>> \in Seq(T)
    <2>0. m \in Nat
      BY <1>0
    <2>1. (2 * m + 1) % 2 = 1 /\ (2 * m + 1) \div 2 = m
      BY <2>0
    <2>2. Backslashes(m) \in Seq(T) /\ <<Mark>> \in Seq(T)
      BY <1>0, BackslashesAre
    <2>3. a \o Backslashes(m) \o <<Mark>> \in Seq(T)
      BY <1>0, <2>2
    <2>4. s.slashes = 2 * m + 1 /\ s.arg = a
      BY <1>1
    <2>5. s.slashes % 2 = 1 /\ s.slashes \div 2 = m
      BY <2>1, <2>4, Zenon
    <2>6. s.arg \o Backslashes(s.slashes \div 2) \o <<Mark>> = a \o Backslashes(m) \o <<Mark>>
      BY <2>4, <2>5, Zenon
    <2>. QED  BY <2>3, <2>5, <2>6, Zenon
  <1>3. y \in ArgvStates(T)
    BY <1>1, <1>2 DEF ArgvStates
  <1>4. y.name = w /\ y.named = TRUE /\ y.args = as
        /\ y.arg = a \o Backslashes(m) \o <<Mark>> /\ y.quoted = q /\ y.slashes = 0
        /\ y.inside = TRUE
    BY <1>1, <1>2 DEF ArgvStates
  <1>5. ReadChar(s, Mark) = y
    BY <1>1, <1>2, ArgumentCases
  <1> HIDE DEF y
  <1>6. y = [name |-> y.name, named |-> y.named, args |-> y.args, arg |-> y.arg,
             quoted |-> y.quoted, slashes |-> y.slashes, inside |-> y.inside]
    BY <1>3 DEF ArgvStates
  <1>7. y = Arguing(w, as, a \o Backslashes(m) \o <<Mark>>, q, 0, TRUE)
    BY <1>4, <1>6 DEF Arguing
  <1>. QED  BY <1>5, <1>7 DEF s, OnOddMark

(* A quote behind an even number of backslashes opens or closes quotes. *)
LEMMA EvenMarkRead ==
  ASSUME NEW T, NEW w, NEW as, NEW a, NEW q, NEW m, NEW b,
         ArgTypes(T, w, as, a, q, m, b)
  PROVE  OnEvenMark(w, as, a, q, m, b)
  <1> DEFINE s == Arguing(w, as, a, q, 2 * m, b)
             y == [s EXCEPT !.arg = s.arg \o Backslashes(s.slashes \div 2) \o <<>>,
                       !.quoted = ~s.quoted, !.slashes = 0, !.inside = TRUE]
  <1>0. /\ w \in Seq(T) /\ as \in Seq(Seq(T)) /\ a \in Seq(T) /\ q \in BOOLEAN /\ b \in BOOLEAN
        /\ Mark \in T /\ Backslash \in T /\ m \in Nat /\ 2 * m \in Nat
    <2>1. /\ w \in Seq(T) /\ as \in Seq(Seq(T)) /\ a \in Seq(T) /\ q \in BOOLEAN /\ b \in BOOLEAN
        /\ Mark \in T /\ Backslash \in T /\ m \in Nat
      BY DEF ArgTypes
    <2>2. m \in Nat
      BY <2>1
    <2>3. 2 * m \in Nat
      BY <2>2
    <2>. QED  BY <2>1, <2>3
  <1>1. /\ s \in ArgvStates(T)
        /\ s.name = w /\ s.named = TRUE /\ s.args = as /\ s.arg = a /\ s.quoted = q
             /\ s.slashes = 2 * m /\ s.inside = b
    BY <1>0 DEF ArgvStates, Arguing
  <1> HIDE DEF s
  <1>2. /\ s.slashes % 2 # 1 /\ s.slashes \div 2 = m
        /\ s.arg \o Backslashes(s.slashes \div 2) \o <<>> = a \o Backslashes(m)
        /\ a \o Backslashes(m) \in Seq(T) /\ s.quoted \in BOOLEAN
    <2>0. m \in Nat
      BY <1>0
    <2>1. (2 * m) % 2 # 1 /\ (2 * m) \div 2 = m
      BY <2>0
    <2>2. Backslashes(m) \in Seq(T)
      BY <1>0, BackslashesAre
    <2>3. a \o Backslashes(m) \in Seq(T) /\ a \o Backslashes(m) \o <<>> = a \o Backslashes(m)
      BY <1>0, <2>2
    <2>4. s.slashes = 2 * m /\ s.arg = a /\ s.quoted \in BOOLEAN
      BY <1>0, <1>1
    <2>5. s.slashes % 2 # 1 /\ s.slashes \div 2 = m
      BY <2>1, <2>4, Zenon
    <2>6. s.arg \o Backslashes(s.slashes \div 2) \o <<>> = a \o Backslashes(m) \o <<>>
      BY <2>4, <2>5, Zenon
    <2>. QED  BY <2>3, <2>4, <2>5, <2>6, Zenon
  <1>3. y \in ArgvStates(T)
    BY <1>1, <1>2 DEF ArgvStates
  <1>4. y.name = w /\ y.named = TRUE /\ y.args = as /\ y.arg = a \o Backslashes(m)
        /\ y.quoted = ~q /\ y.slashes = 0 /\ y.inside = TRUE
    BY <1>1, <1>2 DEF ArgvStates
  <1>5. ReadChar(s, Mark) = y
    BY <1>1, <1>2, ArgumentCases
  <1> HIDE DEF y
  <1>6. y = [name |-> y.name, named |-> y.named, args |-> y.args, arg |-> y.arg,
             quoted |-> y.quoted, slashes |-> y.slashes, inside |-> y.inside]
    BY <1>3 DEF ArgvStates
  <1>7. y = Arguing(w, as, a \o Backslashes(m), ~q, 0, TRUE)
    BY <1>4, <1>6 DEF Arguing
  <1>. QED  BY <1>5, <1>7 DEF s, OnEvenMark

(* Any other character makes the backslashes before it count for            *)
(* themselves.                                                              *)
LEMMA CharRead ==
  ASSUME NEW T, NEW w, NEW as, NEW a, NEW q, NEW n, NEW b, NEW c,
         ArgTypes(T, w, as, a, q, n, b),
         c \in T, c \notin {Mark, Backslash}, c # Blank \/ q = TRUE
  PROVE  OnChar(w, as, a, q, n, b, c)
  <1> DEFINE s == Arguing(w, as, a, q, n, b)
             y == [s EXCEPT !.arg = s.arg \o Backslashes(s.slashes) \o <<c>>,
                       !.slashes = 0, !.inside = TRUE]
  <1>0. /\ w \in Seq(T) /\ as \in Seq(Seq(T)) /\ a \in Seq(T) /\ q \in BOOLEAN /\ b \in BOOLEAN
        /\ Mark \in T /\ Backslash \in T /\ n \in Nat
    BY DEF ArgTypes
  <1>1. /\ s \in ArgvStates(T)
        /\ s.name = w /\ s.named = TRUE /\ s.args = as /\ s.arg = a /\ s.quoted = q
             /\ s.slashes = n /\ s.inside = b
    BY <1>0 DEF ArgvStates, Arguing
  <1> HIDE DEF s
  <1>2. /\ s.arg \o Backslashes(s.slashes) \o <<c>> = a \o Backslashes(n) \o <<c>>
        /\ a \o Backslashes(n) \o <<c>> \in Seq(T)
    <2>1. Backslashes(n) \in Seq(T) /\ <<c>> \in Seq(T)
      BY <1>0, BackslashesAre
    <2>. QED  BY <1>0, <1>1, <2>1
  <1>8. c # Blank \/ s.quoted = TRUE
    BY <1>1
  <1>3. y \in ArgvStates(T)
    BY <1>1, <1>2 DEF ArgvStates
  <1>4. y.name = w /\ y.named = TRUE /\ y.args = as /\ y.arg = a \o Backslashes(n) \o <<c>>
        /\ y.quoted = q /\ y.slashes = 0 /\ y.inside = TRUE
    BY <1>1, <1>2 DEF ArgvStates
  <1>5. ReadChar(s, c) = y
    BY <1>1, <1>8, ArgumentCases
  <1> HIDE DEF y
  <1>6. y = [name |-> y.name, named |-> y.named, args |-> y.args, arg |-> y.arg,
             quoted |-> y.quoted, slashes |-> y.slashes, inside |-> y.inside]
    BY <1>3 DEF ArgvStates
  <1>7. y = Arguing(w, as, a \o Backslashes(n) \o <<c>>, q, 0, TRUE)
    BY <1>4, <1>6 DEF Arguing
  <1>. QED  BY <1>5, <1>7 DEF s, OnChar

(* A space outside of quotes ends the argument. *)
LEMMA BlankRead ==
  ASSUME NEW T, NEW w, NEW as, NEW a, NEW n,
         ArgTypes(T, w, as, a, FALSE, n, TRUE)
  PROVE  OnBlank(w, as, a, n)
  <1> DEFINE s == Arguing(w, as, a, FALSE, n, TRUE)
             v == Append(s.args, s.arg \o Backslashes(s.slashes))
             y == [s EXCEPT !.args = v,
                       !.arg = <<>>, !.slashes = 0, !.inside = FALSE]
  <1>0. /\ w \in Seq(T) /\ as \in Seq(Seq(T)) /\ a \in Seq(T) /\ n \in Nat /\ Backslash \in T
    BY DEF ArgTypes
  <1>1. /\ s \in ArgvStates(T)
        /\ s.name = w /\ s.named = TRUE /\ s.args = as /\ s.arg = a /\ s.quoted = FALSE
             /\ s.slashes = n /\ s.inside = TRUE
    BY <1>0 DEF ArgvStates, Arguing
  <1> HIDE DEF s
  <1>2. v = Append(as, a \o Backslashes(n)) /\ Append(as, a \o Backslashes(n)) \in Seq(Seq(T))
    <2>1. Backslashes(n) \in Seq(T)
      BY <1>0, BackslashesAre
    <2>2. a \o Backslashes(n) \in Seq(T)
      BY <1>0, <2>1
    <2>3. Append(as, a \o Backslashes(n)) \in Seq(Seq(T))
      BY <1>0, <2>2, AppendProperties
    <2>. QED  BY <1>1, <2>3
  <1>8. v \in Seq(Seq(T)) /\ v = Append(as, a \o Backslashes(n)) /\ <<>> \in Seq(T)
    <2>1. <<>> \in Seq(T)
      OBVIOUS
    <2>. QED  BY <1>2, <2>1, Zenon
  <1>9. ReadChar(s, Blank) = y
    BY <1>1, ArgumentCases
  <1> HIDE DEF v
  <1>3. y \in ArgvStates(T)
    BY <1>1, <1>8 DEF ArgvStates
  <1>4. y.name = w /\ y.named = TRUE /\ y.args = Append(as, a \o Backslashes(n))
        /\ y.arg = <<>> /\ y.quoted = FALSE /\ y.slashes = 0 /\ y.inside = FALSE
    BY <1>1, <1>8 DEF ArgvStates
  <1> HIDE DEF y
  <1>6. y = [name |-> y.name, named |-> y.named, args |-> y.args, arg |-> y.arg,
             quoted |-> y.quoted, slashes |-> y.slashes, inside |-> y.inside]
    BY <1>3 DEF ArgvStates
  <1>7. y = Arguing(w, Append(as, a \o Backslashes(n)), <<>>, FALSE, 0, FALSE)
    BY <1>4, <1>6 DEF Arguing
  <1>. QED  BY <1>7, <1>9 DEF s, OnBlank

(* A space before an argument is skipped. *)
LEMMA FirstBlankRead ==
  ASSUME NEW T, NEW w, NEW as,
         ArgTypes(T, w, as, <<>>, FALSE, 0, FALSE)
  PROVE  OnFirstBlank(w, as)
  <1> DEFINE s == Arguing(w, as, <<>>, FALSE, 0, FALSE)
             y == [s EXCEPT !.args = s.args,
                       !.arg = <<>>, !.slashes = 0, !.inside = FALSE]
  <1>0. w \in Seq(T) /\ as \in Seq(Seq(T)) /\ <<>> \in Seq(T)
    BY DEF ArgTypes
  <1>1. /\ s \in ArgvStates(T)
        /\ s.name = w /\ s.named = TRUE /\ s.args = as /\ s.arg = <<>> /\ s.quoted = FALSE
             /\ s.slashes = 0 /\ s.inside = FALSE
    BY <1>0 DEF ArgvStates, Arguing
  <1> HIDE DEF s
  <1>2. <<>> \in Seq(T)
    OBVIOUS
  <1>3. y \in ArgvStates(T)
    BY <1>1, <1>2 DEF ArgvStates
  <1>4. y.name = w /\ y.named = TRUE /\ y.args = as /\ y.arg = <<>> /\ y.quoted = FALSE
        /\ y.slashes = 0 /\ y.inside = FALSE
    BY <1>1, <1>2 DEF ArgvStates
  <1>5. ReadChar(s, Blank) = y
    BY <1>1, <1>2, ArgumentCases
  <1> HIDE DEF y
  <1>6. y = [name |-> y.name, named |-> y.named, args |-> y.args, arg |-> y.arg,
             quoted |-> y.quoted, slashes |-> y.slashes, inside |-> y.inside]
    BY <1>3 DEF ArgvStates
  <1>7. y = Arguing(w, as, <<>>, FALSE, 0, FALSE)
    BY <1>4, <1>6 DEF Arguing
  <1>. QED  BY <1>5, <1>7 DEF s, OnFirstBlank

(* A text that is read, wherever it is in a line. *)
Runs(h, p, s, t) ==
  h[p] = s /\ \A i \in 1..Len(t) : h[p + i] = ReadChar(h[p + i - 1], t[i])
Reads(s, t, r) == \A h : \A p \in Nat : Runs(h, p, s, t) => h[p + Len(t)] = r

(* Readings begin, *)
LEMMA ReadsNothing == ASSUME NEW s PROVE Reads(s, <<>>, s)
  <1>1. Len(<<>>) = 0 /\ \A p \in Nat : p + 0 = p
    OBVIOUS
  <1>. QED  BY <1>1 DEF Reads, Runs

(* take one character *)
LEMMA ReadsChar ==
  ASSUME NEW s, NEW c, NEW r, ReadChar(s, c) = r
  PROVE  Reads(s, <<c>>, r)
  <1>1. Len(<<c>>) = 1 /\ <<c>>[1] = c
    OBVIOUS
  <1>2. ASSUME NEW h, NEW p \in Nat, Runs(h, p, s, <<c>>) PROVE h[p + 1] = r
    <2>1. h[p] = s /\ h[p + 1] = ReadChar(h[p + 1 - 1], c)
      BY <1>1, <1>2 DEF Runs
    <2>2. p + 1 - 1 = p
      OBVIOUS
    <2>. QED  BY <2>1, <2>2
  <1>. QED  BY <1>1, <1>2 DEF Reads

(* and are put together. *)
LEMMA ReadsOn ==
  ASSUME NEW T, NEW t \in Seq(T), NEW u \in Seq(T), NEW s, NEW m, NEW r,
         Reads(s, t, m), Reads(m, u, r)
  PROVE  Reads(s, t \o u, r)
  <1> DEFINE a == t \o u
  <1>1. /\ Len(t) \in Nat /\ Len(u) \in Nat /\ Len(a) = Len(t) + Len(u)
        /\ \A i \in 1..Len(t) : a[i] = t[i]
        /\ \A i \in 1..Len(u) : a[Len(t) + i] = u[i]
    OBVIOUS
  <1> HIDE DEF a
  <1>2. ASSUME NEW h, NEW p \in Nat, Runs(h, p, s, a) PROVE h[p + Len(a)] = r
    <2>1. /\ h[p] = s
          /\ \A i \in 1..Len(a) : h[p + i] = ReadChar(h[p + i - 1], a[i])
      BY <1>2 DEF Runs
    <2>2. Runs(h, p, s, t)
      <3>1. ASSUME NEW i \in 1..Len(t) PROVE h[p + i] = ReadChar(h[p + i - 1], t[i])
        <4>1. i \in 1..Len(a) /\ a[i] = t[i]
          BY <1>1
        <4>. QED  BY <2>1, <4>1
      <3>. QED  BY <2>1, <3>1 DEF Runs
    <2> DEFINE o == p + Len(t)
    <2>3. o \in Nat /\ h[o] = m
      BY <1>1, <2>2 DEF Reads
    <2>4. Runs(h, o, m, u)
      <3>1. ASSUME NEW i \in 1..Len(u) PROVE h[o + i] = ReadChar(h[o + i - 1], u[i])
        <4>1. /\ Len(t) + i \in 1..Len(a) /\ a[Len(t) + i] = u[i]
              /\ p + (Len(t) + i) = o + i /\ p + (Len(t) + i) - 1 = o + i - 1
          BY <1>1
        <4>. QED  BY <2>1, <4>1
      <3>. QED  BY <2>3, <3>1 DEF Runs
    <2>5. h[o + Len(u)] = r
      BY <2>3, <2>4 DEF Reads
    <2>6. o + Len(u) = p + Len(a)
      BY <1>1
    <2>. QED  BY <2>5, <2>6
  <1>3. Reads(s, a, r)
    BY <1>2 DEF Reads
  <1>. QED  BY <1>3 DEF a

(* One more backslash. *)
LEMMA BackslashesNext ==
  ASSUME NEW T, Backslash \in T, NEW k \in Nat
  PROVE  /\ Backslashes(k + 1) = Backslashes(k) \o <<Backslash>>
         /\ Backslashes(k) \in Seq(T) /\ <<Backslash>> \in Seq(T) /\ Backslashes(0) = <<>>
  <1> DEFINE x == Backslashes(k + 1)
             y == Backslashes(k) \o <<Backslash>>
  <1>1. /\ Backslashes(k) \in Seq(T) /\ Len(Backslashes(k)) = k /\ x \in Seq(T) /\ Len(x) = k + 1
        /\ \A i \in 1..k : Backslashes(k)[i] = Backslash
        /\ \A i \in 1..k + 1 : x[i] = Backslash
    BY BackslashesAre
  <1>2. y \in Seq(T) /\ Len(y) = k + 1 /\ \A i \in 1..k + 1 : y[i] = Backslash
    BY <1>1
  <1> HIDE DEF x, y
  <1>3. x = y
    BY <1>1, <1>2, SeqEqual
  <1>4. Backslashes(0) = <<>>
    <2>1. Backslashes(0) \in Seq(T) /\ Len(Backslashes(0)) = 0
      BY BackslashesAre
    <2>. QED  BY <2>1
  <1>. QED  BY <1>1, <1>3, <1>4 DEF x, y

(* A run of backslashes is counted. *)
LEMMA ReadsBackslashes ==
  ASSUME NEW T, NEW w \in Seq(T), NEW as \in Seq(Seq(T)), NEW a \in Seq(T),
         NEW q, q \in BOOLEAN, NEW n, n \in Nat, NEW m, m \in Nat, Backslash \in T, Mark \in T
  PROVE  Reads(Arguing(w, as, a, q, n, TRUE), Backslashes(m), Arguing(w, as, a, q, n + m, TRUE))
  <1> DEFINE At(k) == Arguing(w, as, a, q, n + k, TRUE)
             S == {k \in 0..m : Reads(At(0), Backslashes(k), At(k))}
  <1>1. 0 \in S
    <2> HIDE DEF At
    <2>1. Reads(At(0), <<>>, At(0)) /\ Backslashes(0) = <<>>
      BY ReadsNothing, BackslashesNext
    <2>. QED  BY <2>1
  <1>2. ASSUME NEW k \in 0..m - 1, k \in S PROVE k + 1 \in S
    <2>1. n + k \in Nat /\ (n + k) + 1 = n + (k + 1) /\ k \in Nat /\ k + 1 \in 0..m
      OBVIOUS
    <2>2. ReadChar(At(k), Backslash) = At(k + 1)
      <3>1. ArgTypes(T, w, as, a, q, n + k, TRUE)
        BY <2>1 DEF ArgTypes
      <3>2. OnBackslash(w, as, a, q, n + k, TRUE)
        BY <3>1, BackslashRead
      <3>. QED  BY <2>1, <3>2 DEF OnBackslash
    <2> HIDE DEF At
    <2>5. /\ Backslashes(k + 1) = Backslashes(k) \o <<Backslash>>
          /\ Backslashes(k) \in Seq(T) /\ <<Backslash>> \in Seq(T)
      BY <2>1, BackslashesNext
    <2>3. Reads(At(k), <<Backslash>>, At(k + 1)) /\ Reads(At(0), Backslashes(k), At(k))
      BY <1>2, <2>2, ReadsChar
    <2>4. Reads(At(0), Backslashes(k + 1), At(k + 1))
      BY <2>3, <2>5, ReadsOn
    <2>. QED  BY <2>1, <2>4
  <1> HIDE DEF S
  <1>5. \A k \in 0..m - 1 : k \in S => k + 1 \in S
    BY <1>2
  <1>6. \A k \in 0..m : k \in S
    BY <1>1, <1>5, Induction
  <1>3. m \in S
    BY <1>6
  <1>4. At(0) = Arguing(w, as, a, q, n, TRUE)
    OBVIOUS
  <1>. QED  BY <1>3, <1>4 DEF S

(* In the name backslashes stand for themselves. *)
LEMMA NamesBackslashes ==
  ASSUME NEW T, NEW w \in Seq(T), NEW m, m \in Nat, Backslash \in T
  PROVE  Reads(Naming(w, TRUE), Backslashes(m), Naming(w \o Backslashes(m), TRUE))
  <1> DEFINE At(k) == Naming(w \o Backslashes(k), TRUE)
             S == {k \in 0..m : Reads(At(0), Backslashes(k), At(k))}
  <1>1. 0 \in S
    <2> HIDE DEF At
    <2>1. Reads(At(0), <<>>, At(0)) /\ Backslashes(0) = <<>>
      BY ReadsNothing, BackslashesNext
    <2>. QED  BY <2>1
  <1>2. ASSUME NEW k \in 0..m - 1, k \in S PROVE k + 1 \in S
    <2>1. k \in Nat /\ k + 1 \in 0..m
      OBVIOUS
    <2>5. /\ Backslashes(k + 1) = Backslashes(k) \o <<Backslash>>
          /\ Backslashes(k) \in Seq(T) /\ <<Backslash>> \in Seq(T)
      BY <2>1, BackslashesNext
    <2>6. /\ w \o Backslashes(k) \in Seq(T)
          /\ Append(w \o Backslashes(k), Backslash) = w \o Backslashes(k + 1)
      <3> DEFINE b == Backslashes(k)
      <3>1. b \in Seq(T) /\ <<Backslash>> \in Seq(T)
        BY <2>5
      <3> HIDE DEF b
      <3>2. w \o b \in Seq(T) /\ (w \o b) \o <<Backslash>> = w \o (b \o <<Backslash>>)
        BY <3>1, ConcatAssociative
      <3>3. Append(w \o b, Backslash) = (w \o b) \o <<Backslash>>
        BY <3>2, AppendIsConcat
      <3>. QED  BY <2>5, <3>2, <3>3 DEF b
    <2>2. ReadChar(At(k), Backslash) = At(k + 1)
      BY <2>6, NameChar, CharactersDiffer
    <2> HIDE DEF At
    <2>3. Reads(At(k), <<Backslash>>, At(k + 1)) /\ Reads(At(0), Backslashes(k), At(k))
      BY <1>2, <2>2, ReadsChar
    <2>4. Reads(At(0), Backslashes(k + 1), At(k + 1))
      BY <2>3, <2>5, ReadsOn
    <2>. QED  BY <2>1, <2>4
  <1> HIDE DEF S
  <1>5. \A k \in 0..m - 1 : k \in S => k + 1 \in S
    BY <1>2
  <1>6. \A k \in 0..m : k \in S
    BY <1>1, <1>5, Induction
  <1>3. m \in S
    BY <1>6
  <1>4. At(0) = Naming(w, TRUE)
    <2>1. Backslashes(0) = <<>> /\ w \o <<>> = w
      BY BackslashesNext
    <2>. QED  BY <2>1
  <1>. QED  BY <1>3, <1>4 DEF S

-----------------------------------------------------------------------------
(* The quotes and backslashes of join_arguments. *)

(* The backslashes from i on end before j. *)
Slashed(arg, i, j) ==
  /\ j \in i..Len(arg) + 1 /\ j \in Nat
  /\ \A k \in i..j - 1 : arg[k] = Backslash
  /\ j # Len(arg) + 1 => j \in 1..Len(arg) /\ arg[j] # Backslash

(* The backslashes from a place end at a character that is none, or with    *)
(* the argument.                                                            *)
LEMMA SlashesEnd ==
  ASSUME NEW T, NEW arg \in Seq(T), NEW i \in 1..Len(arg) + 1
  PROVE  Slashed(arg, i, PastBackslashes(arg, i))
  <1> DEFINE n == Len(arg)
             S == {k \in i..n + 1 : k = n + 1 \/ arg[k] # Backslash}
             j == Min(S)
  <1>1. n \in Nat /\ n + 1 \in S /\ S \in SUBSET Nat
    OBVIOUS
  <1>2. j \in S /\ \A k \in S : j <= k
    <2> HIDE DEF S
    <2>. QED  BY <1>1, LeastNatural
  <1>3. PastBackslashes(arg, i) = j
    BY DEF PastBackslashes
  <1>4. j \in i..n + 1 /\ (j = n + 1 \/ arg[j] # Backslash) /\ i \in 1..n + 1
    BY <1>2
  <1> HIDE DEF j
  <1>5. ASSUME NEW k \in i..j - 1 PROVE arg[k] = Backslash
    <2>1. k \in i..n + 1 /\ ~(j <= k)
      BY <1>1, <1>4
    <2>. QED  BY <1>1, <1>2, <1>4, <2>1
  <1>. QED  BY <1>1, <1>3, <1>4, <1>5 DEF Slashed

(* What comes before j is what comes before i, and the backslashes between. *)
Before(T, arg, i, j) ==
  /\ SubSeq(arg, 1, i - 1) \in Seq(T) /\ j - i \in Nat
  /\ SubSeq(arg, 1, i - 1) \o Backslashes(j - i) = SubSeq(arg, 1, j - 1)
  /\ j <= Len(arg) =>
       /\ j + 1 \in 1..Len(arg) + 1 /\ arg[j] \in T
       /\ SubSeq(arg, 1, i - 1) \o Backslashes(j - i) \o <<arg[j]>> = SubSeq(arg, 1, (j + 1) - 1)

(* What precedes a place and the backslashes there are what precedes        *)
(* their end.                                                               *)
LEMMA BeforeSlashes ==
  ASSUME NEW T, NEW arg \in Seq(T), NEW i, i \in 1..Len(arg) + 1, NEW j, Slashed(arg, i, j),
         Backslash \in T
  PROVE  Before(T, arg, i, j)
  <1> DEFINE b == Backslashes(j - i)
             t == SubSeq(arg, i, j - 1)
             u == SubSeq(arg, 1, i - 1)
  <1>0. Len(arg) \in Nat /\ i \in Nat /\ j \in Nat /\ i <= j /\ j <= Len(arg) + 1 /\ j - i \in Nat
    BY DEF Slashed
  <1>1. b \in Seq(T) /\ Len(b) = j - i /\ \A k \in 1..j - i : b[k] = Backslash
    BY <1>0, BackslashesAre
  <1>2. t \in Seq(T) /\ Len(t) = j - i /\ \A k \in 1..j - i : t[k] = Backslash
    <2>1. \A k \in i..j - 1 : arg[k] \in T /\ arg[k] = Backslash
      BY <1>0 DEF Slashed
    <2>2. /\ t \in Seq(T) /\ Len(t) = IF i <= j - 1 THEN (j - 1) - i + 1 ELSE 0
          /\ \A k \in 1..(j - 1) - i + 1 : t[k] = arg[i + k - 1]
      BY <1>0, <2>1, SubSeqProperties
    <2> HIDE DEF t
    <2>3. ASSUME NEW k \in 1..j - i PROVE t[k] = Backslash
      <3>1. k \in 1..(j - 1) - i + 1 /\ i + k - 1 \in i..j - 1
        BY <1>0
      <3>. QED  BY <2>1, <2>2, <3>1
    <2>4. Len(t) = j - i
      BY <1>0, <2>2
    <2>. QED  BY <2>2, <2>3, <2>4
  <1>3. u \in Seq(T)
    BY <1>0
  <1>4. u \o t = SubSeq(arg, 1, j - 1)
    <2>1. /\ 1 \in 1..Len(arg) + 1 /\ i - 1 \in 1 - 1..Len(arg) /\ j - 1 \in i - 1..Len(arg)
          /\ (i - 1) + 1 = i
      BY <1>0
    <2>2. SubSeq(arg, 1, i - 1) \o SubSeq(arg, (i - 1) + 1, j - 1) = SubSeq(arg, 1, j - 1)
      BY <2>1, ConcatAdjacentSubSeq
    <2>. QED  BY <2>1, <2>2
  <1> HIDE DEF b, t
  <1>5. b = t
    BY <1>1, <1>2, SeqEqual
  <1>6. j <= Len(arg) =>
              /\ j + 1 \in 1..Len(arg) + 1 /\ arg[j] \in T
              /\ SubSeq(arg, 1, j - 1) \o <<arg[j]>> = SubSeq(arg, 1, (j + 1) - 1)
    <2> SUFFICES ASSUME j <= Len(arg)
                 PROVE  /\ j + 1 \in 1..Len(arg) + 1 /\ arg[j] \in T
                        /\ SubSeq(arg, 1, j - 1) \o <<arg[j]>> = SubSeq(arg, 1, (j + 1) - 1)
      OBVIOUS
    <2>1. j \in 1..Len(arg) /\ j + 1 \in 1..Len(arg) + 1 /\ (j + 1) - 1 = j
          /\ 1 \in 1..Len(arg) /\ j \in 1..Len(arg)
      BY <1>0
    <2>2. SubSeq(arg, 1, j) = SubSeq(arg, 1, j - 1) \o <<arg[j]>>
      BY <2>1, SubSeqRecursiveSecond
    <2>. QED  BY <2>1, <2>2
  <1>7. u \o b = SubSeq(arg, 1, j - 1)
    BY <1>4, <1>5
  <1>. QED  BY <1>0, <1>3, <1>6, <1>7 DEF b, Before

(* What is between the quotes, from each place on. *)
Doubled(arg, i, j) == Backslashes(IF arg[j] = Mark THEN 2 * (j - i) + 1 ELSE j - i)

RestAt(arg, rest, i, j) ==
  rest[i] = IF j > Len(arg) THEN Backslashes(2 * (j - i))
            ELSE Doubled(arg, i, j) \o <<arg[j]>> \o rest[j + 1]

Rests(arg, rest) == \A i \in 1..Len(arg) + 1 : RestAt(arg, rest, i, PastBackslashes(arg, i))

(* Every place of an argument has the text that is written from there. *)
LEMMA QuotedRuns ==
  ASSUME NEW T, NEW arg \in Seq(T), Backslash \in T
  PROVE  \E rest \in [1..Len(arg) + 1 -> Seq(T)] :
           Rests(arg, rest) /\ Quoted(arg) = <<Mark>> \o rest[1] \o <<Mark>>
  <1> DEFINE n == Len(arg) + 1
             A == Seq(T)
             J(i) == PastBackslashes(arg, i)
             Stops == {i \in 1..n : J(i) > Len(arg)}
             base == [i \in 1..n |-> Backslashes(2 * (J(i) - i))]
             next == [i \in 1..n |-> J(i) + 1]
             step == [i \in 1..n |-> [x \in A |-> Doubled(arg, i, J(i)) \o <<arg[J(i)]>> \o x]]
             body(rest) == [i \in 1..n |->
                              IF J(i) > Len(arg) THEN Backslashes(2 * (J(i) - i))
                              ELSE Doubled(arg, i, J(i)) \o <<arg[J(i)]>> \o rest[J(i) + 1]]
             chosen == CHOOSE rest : rest = body(rest)
  <1>1. n \in Nat /\ Len(arg) \in Nat
    OBVIOUS
  <1>2. ASSUME NEW i \in 1..n
        PROVE  /\ J(i) \in i..n /\ J(i) - i \in Nat /\ 2 * (J(i) - i) \in Nat
               /\ 2 * (J(i) - i) + 1 \in Nat
               /\ i \notin Stops => J(i) \in 1..Len(arg) /\ J(i) + 1 \in i + 1..n
    <2>1. J(i) \in i..n /\ i \in Nat
      BY SlashesEnd DEF Slashed
    <2>. QED  BY <1>1, <2>1
  <1>3. \A i \in 1..n : base[i] \in A
    <2>1. \A m \in Nat : Backslashes(m) \in A
      BY BackslashesAre
    <2>. QED  BY <1>2, <2>1
  <1>4. ASSUME NEW i \in 1..n, i \notin Stops, NEW x \in A PROVE step[i][x] \in A
    <2>0. J(i) \in 1..Len(arg) /\ \A k \in 1..Len(arg) : arg[k] \in T /\ <<arg[k]>> \in A
      BY <1>2, <1>4
    <2>1. arg[J(i)] \in T /\ <<arg[J(i)]>> \in A
      BY <2>0
    <2>2. Doubled(arg, i, J(i)) \in A
      BY <1>2, BackslashesAre DEF Doubled
    <2> HIDE DEF J
    <2>. QED  BY <2>1, <2>2
  <1>5. PICK f \in [1..n -> A] : Recurs(f, n, Stops, base, next, step)
    <2>0. \A i \in 1..n : i \notin Stops => next[i] \in i + 1..n
      BY <1>2
    <2>1. Descends(n, A, Stops, base, next, step)
      BY <1>3, <1>4, <2>0 DEF Descends
    <2> HIDE DEF Stops, base, next, step, n, A, body, chosen
    <2>. QED  BY <1>1, <2>1, DescentExists
  <1>6. \A i \in 1..n : f[i] = body(f)[i]
    <2>1. ASSUME NEW i \in 1..n, i \notin Stops PROVE f[i] = body(f)[i]
      <3>1. J(i) + 1 \in 1..n /\ ~(J(i) > Len(arg))
        BY <1>1, <1>2, <2>1
      <3>2. f[J(i) + 1] \in A /\ f[i] = step[i][f[J(i) + 1]]
        BY <1>5, <2>1, <3>1 DEF Recurs
      <3> HIDE DEF J
      <3>. QED  BY <3>1, <3>2
    <2>2. ASSUME NEW i \in Stops PROVE f[i] = body(f)[i]
      <3>1. f[i] = base[i] /\ i \in 1..n /\ J(i) > Len(arg)
        BY <1>5 DEF Recurs
      <3> HIDE DEF J
      <3>. QED  BY <3>1
    <2>. QED  BY <2>1, <2>2
  <1>7. f = body(f)
    BY <1>6
  <1>8. chosen = body(chosen)
    BY <1>7
  <1>9. Quoted(arg) = <<Mark>> \o chosen[1] \o <<Mark>>
    BY DEF Quoted, Doubled
  <1> HIDE DEF chosen
  <1>10. Rests(arg, chosen)
    BY <1>8 DEF Rests, RestAt
  <1>11. \A i \in 1..n : chosen[i] \in A
    <2> DEFINE S == {i \in 1..n : chosen[i] \in A}
    <2>1. ASSUME NEW i \in 1..n, \A k \in i + 1..n : k \in S PROVE i \in S
      <3>1. CASE i \in Stops
        <4>1. chosen[i] = base[i]
          BY <1>8, <3>1
        <4>. QED  BY <1>3, <4>1
      <3>2. CASE i \notin Stops
        <4>1. J(i) + 1 \in i + 1..n /\ ~(J(i) > Len(arg))
          BY <1>2, <3>2
        <4>2. chosen[J(i) + 1] \in A
          BY <2>1, <4>1
        <4>3. chosen[i] = step[i][chosen[J(i) + 1]]
          BY <1>8, <4>1, <4>2
        <4>. QED  BY <1>4, <3>2, <4>2, <4>3
      <3>. QED  BY <3>1, <3>2
    <2>2. \A k \in 1..n : k \in S
      <3> HIDE DEF S, n
      <3>. QED  BY <1>1, <2>1, Descent
    <2>. QED  BY <2>2
  <1>12. chosen \in [1..n -> A]
    BY <1>8, <1>11
  <1>. QED  BY <1>9, <1>10, <1>12

(* Two readings, and one of all the rest, are one. *)
LEMMA ReadsRest ==
  ASSUME NEW T, NEW d \in Seq(T), NEW c \in Seq(T), NEW u \in Seq(T), NEW z \in Seq(T),
         NEW s, NEW l, NEW m, NEW r, Reads(s, d, l), Reads(l, c, m), Reads(m, u \o z, r)
  PROVE  Reads(s, (d \o c \o u) \o z, r)
  <1>1. d \o c \in Seq(T) /\ u \o z \in Seq(T) /\ ((d \o c) \o u) \o z = (d \o c) \o (u \o z)
    <2> DEFINE x == d \o c
    <2>1. x \in Seq(T) /\ u \o z \in Seq(T)
      OBVIOUS
    <2> HIDE DEF x
    <2>2. (x \o u) \o z = x \o (u \o z)
      BY <2>1, ConcatAssociative
    <2>. QED  BY <2>1, <2>2 DEF x
  <1>2. Reads(s, d \o c, m)
    BY ReadsOn
  <1>3. Reads(s, (d \o c) \o (u \o z), r)
    <2> DEFINE x == d \o c
               y == u \o z
    <2>1. x \in Seq(T) /\ y \in Seq(T) /\ Reads(s, x, m) /\ Reads(m, y, r)
      BY <1>1, <1>2
    <2> HIDE DEF x, y
    <2>2. Reads(s, x \o y, r)
      BY <2>1, ReadsOn
    <2>. QED  BY <2>2 DEF x, y
  <1>. QED  BY <1>1, <1>3

(* An argument in quotes is read as it was. *)
LEMMA QuotedReads ==
  ASSUME NEW T, NEW w \in Seq(T), NEW as \in Seq(Seq(T)), NEW arg \in Seq(T),
         Mark \in T, Backslash \in T
  PROVE  Reads(Arguing(w, as, <<>>, FALSE, 0, FALSE), Quoted(arg),
               Arguing(w, as, arg, FALSE, 0, TRUE))
  <1> DEFINE n == Len(arg) + 1
             u(i) == SubSeq(arg, 1, i - 1)
             At(i) == Arguing(w, as, u(i), TRUE, 0, TRUE)
             Fin == Arguing(w, as, arg, FALSE, 0, TRUE)
             First == Arguing(w, as, <<>>, FALSE, 0, FALSE)
             J(i) == PastBackslashes(arg, i)
  <1>1. n \in Nat /\ Len(arg) \in Nat /\ <<Mark>> \in Seq(T) /\ 1 \in 1..n
        /\ SubSeq(arg, 1, Len(arg)) = arg
    OBVIOUS
  <1>2. PICK rest \in [1..n -> Seq(T)] :
           Rests(arg, rest) /\ Quoted(arg) = <<Mark>> \o rest[1] \o <<Mark>>
    BY QuotedRuns
  <1> DEFINE S == {i \in 1..n : Reads(At(i), rest[i] \o <<Mark>>, Fin)}
  <1>3. ASSUME NEW i \in 1..n, \A k \in i + 1..n : k \in S PROVE i \in S
    <2> DEFINE j == J(i)
               m == j - i
               v == u(i) \o Backslashes(m)
    <2>1. /\ Slashed(arg, i, j) /\ Before(T, arg, i, j) /\ RestAt(arg, rest, i, j)
          /\ j \in i..n /\ j \in Nat /\ i \in Nat /\ m \in Nat /\ u(i) \in Seq(T)
               /\ v = SubSeq(arg, 1, j - 1)
      <3>1. i \in 1..Len(arg) + 1
        OBVIOUS
      <3>2. Slashed(arg, i, j)
        BY <3>1, SlashesEnd
      <3>3. RestAt(arg, rest, i, j)
        BY <1>2, <3>1 DEF Rests
      <3>4. j \in i..n /\ j \in Nat /\ i \in Nat
        BY <3>1, <3>2 DEF Slashed
      <3>5. Before(T, arg, i, j)
        <4> HIDE DEF j
        <4>. QED  BY <3>1, <3>2, BeforeSlashes
      <3>6. m \in Nat /\ u(i) \in Seq(T) /\ v = SubSeq(arg, 1, j - 1)
        <4> HIDE DEF J
        <4>. QED  BY <3>5 DEF Before
      <3>. QED  BY <3>2, <3>3, <3>4, <3>5, <3>6
    <2>2. ASSUME NEW k \in Nat
          PROVE  /\ Backslashes(k) \in Seq(T)
                 /\ Reads(At(i), Backslashes(k), Arguing(w, as, u(i), TRUE, k, TRUE))
      <3>1. Reads(Arguing(w, as, u(i), TRUE, 0, TRUE), Backslashes(k),
                  Arguing(w, as, u(i), TRUE, 0 + k, TRUE))
        <4> HIDE DEF u
        <4>. QED  BY <2>1, ReadsBackslashes
      <3>2. Backslashes(k) \in Seq(T) /\ 0 + k = k
        BY BackslashesAre
      <3>. QED  BY <3>1, <3>2
    <2>3. CASE j > Len(arg)
      <3>1. rest[i] = Backslashes(2 * m) /\ 2 * m \in Nat /\ v = arg
        <4>1. j - 1 = Len(arg)
          BY <1>1, <2>1, <2>3
        <4>2. rest[i] = Backslashes(2 * m) /\ 2 * m \in Nat
          BY <2>1, <2>3 DEF RestAt
        <4>. QED  BY <1>1, <2>1, <4>1, <4>2
      <3>2. ReadChar(Arguing(w, as, u(i), TRUE, 2 * m, TRUE), Mark)
              = Arguing(w, as, v, ~TRUE, 0, TRUE)
        <4>1. ArgTypes(T, w, as, u(i), TRUE, m, TRUE)
          BY <2>1 DEF ArgTypes
        <4> HIDE DEF u, m
        <4>2. OnEvenMark(w, as, u(i), TRUE, m, TRUE)
          BY <4>1, EvenMarkRead
        <4>. QED  BY <4>2 DEF OnEvenMark
      <3>3. Reads(Arguing(w, as, u(i), TRUE, 2 * m, TRUE), <<Mark>>, Fin)
        BY <3>1, <3>2, ReadsChar
      <3>4. /\ Reads(At(i), Backslashes(2 * m), Arguing(w, as, u(i), TRUE, 2 * m, TRUE))
            /\ Backslashes(2 * m) \in Seq(T)
        BY <2>2, <3>1
      <3> HIDE DEF At, Fin, m
      <3>5. Reads(At(i), Backslashes(2 * m) \o <<Mark>>, Fin)
        BY <1>1, <3>3, <3>4, ReadsOn
      <3>. QED  BY <3>1, <3>5
    <2>4. CASE ~(j > Len(arg))
      <3> DEFINE c == arg[j]
                 d == Doubled(arg, i, j)
                 b == IF c = Mark THEN 2 * m + 1 ELSE m
      <3>1. /\ c \in T /\ <<c>> \in Seq(T) /\ c # Backslash /\ j + 1 \in i + 1..n
            /\ rest[i] = d \o <<c>> \o rest[j + 1] /\ rest[j + 1] \in Seq(T)
            /\ v \o <<c>> = u(j + 1) /\ b \in Nat /\ d = Backslashes(b)
        <4>1. j <= Len(arg) /\ j # Len(arg) + 1
          BY <1>1, <2>1, <2>4
        <4>2. c \in T /\ <<c>> \in Seq(T) /\ c # Backslash /\ j + 1 \in i + 1..n /\ j + 1 \in 1..n
          BY <1>1, <2>1, <4>1 DEF Slashed
        <4>3. v \o <<c>> = u(j + 1)
          <5> HIDE DEF J
          <5>. QED  BY <2>1, <4>1 DEF Before
        <4>4. rest[i] = d \o <<c>> \o rest[j + 1] /\ rest[j + 1] \in Seq(T)
          BY <2>1, <2>4, <4>2 DEF RestAt
        <4>5. b \in Nat /\ d = Backslashes(b)
          BY <2>1 DEF Doubled
        <4>. QED  BY <4>2, <4>3, <4>4, <4>5
      <3>2. ReadChar(Arguing(w, as, u(i), TRUE, b, TRUE), c) = At(j + 1)
        <4>1. CASE c = Mark
          <5>1. b = 2 * m + 1
            BY <4>1
          <5>2. ArgTypes(T, w, as, u(i), TRUE, m, TRUE)
            BY <2>1 DEF ArgTypes
          <5> HIDE DEF u, m, b
          <5>3. OnOddMark(w, as, u(i), TRUE, m, TRUE)
            BY <5>2, OddMarkRead
          <5>4. ReadChar(Arguing(w, as, u(i), TRUE, b, TRUE), Mark)
                  = Arguing(w, as, u(i) \o Backslashes(m) \o <<Mark>>, TRUE, 0, TRUE)
            BY <5>1, <5>3 DEF OnOddMark
          <5>. QED  BY <3>1, <4>1, <5>4
        <4>2. CASE c # Mark
          <5>1. b = m
            BY <4>2
          <5>2. ArgTypes(T, w, as, u(i), TRUE, m, TRUE)
            BY <2>1 DEF ArgTypes
          <5> HIDE DEF u, m, b, c
          <5>3. OnChar(w, as, u(i), TRUE, m, TRUE, c)
            BY <3>1, <4>2, <5>2, CharRead
          <5>4. ReadChar(Arguing(w, as, u(i), TRUE, b, TRUE), c)
                  = Arguing(w, as, u(i) \o Backslashes(m) \o <<c>>, TRUE, 0, TRUE)
            BY <5>1, <5>3 DEF OnChar
          <5>. QED  BY <3>1, <5>4
        <4>. QED  BY <4>1, <4>2
      <3>3. Reads(Arguing(w, as, u(i), TRUE, b, TRUE), <<c>>, At(j + 1))
        BY <3>2, ReadsChar
      <3>4. Reads(At(i), d, Arguing(w, as, u(i), TRUE, b, TRUE)) /\ d \in Seq(T)
        BY <2>2, <3>1
      <3>5. Reads(At(j + 1), rest[j + 1] \o <<Mark>>, Fin)
        BY <1>3, <3>1
      <3> HIDE DEF At, Fin, m, d, b, c, j, u
      <3>6. Reads(At(i), (d \o <<c>> \o rest[j + 1]) \o <<Mark>>, Fin)
        BY <1>1, <3>1, <3>3, <3>4, <3>5, ReadsRest
      <3>. QED  BY <3>1, <3>6
    <2>. QED  BY <2>3, <2>4
  <1>4. 1 \in S
    <2> HIDE DEF S, n
    <2>1. \A i \in 1..n : i \in S
      BY <1>1, <1>3, Descent
    <2>. QED  BY <1>1, <2>1
  <1>5. Reads(First, <<Mark>>, At(1))
    <2>1. ReadChar(Arguing(w, as, <<>>, FALSE, 0, FALSE), Mark)
            = Arguing(w, as, <<>> \o Backslashes(0), ~FALSE, 0, TRUE)
      <3>1. ArgTypes(T, w, as, <<>>, FALSE, 0, FALSE)
        <4>1. <<>> \in Seq(T)
          OBVIOUS
        <4>. QED  BY <4>1 DEF ArgTypes
      <3>2. OnEvenMark(w, as, <<>>, FALSE, 0, FALSE)
        BY <3>1, EvenMarkRead
      <3>3. 2 * 0 = 0
        OBVIOUS
      <3>. QED  BY <3>2, <3>3 DEF OnEvenMark
    <2>2. <<>> \o Backslashes(0) = <<>> /\ u(1) = <<>>
      BY BackslashesNext
    <2>3. ReadChar(First, Mark) = At(1)
      BY <2>1, <2>2
    <2>. QED  BY <2>3, ReadsChar
  <1>6. rest[1] \in Seq(T) /\ Reads(At(1), rest[1] \o <<Mark>>, Fin)
    BY <1>1, <1>2, <1>4
  <1> HIDE DEF At, Fin, First
  <1>7. Reads(First, <<Mark>> \o (rest[1] \o <<Mark>>), Fin)
    <2> DEFINE x == rest[1] \o <<Mark>>
    <2>1. x \in Seq(T)
      BY <1>1, <1>6
    <2> HIDE DEF x
    <2>2. Reads(First, <<Mark>> \o x, Fin)
      BY <1>1, <1>5, <1>6, <2>1, ReadsOn DEF x
    <2>. QED  BY <2>2 DEF x
  <1>8. Quoted(arg) = <<Mark>> \o (rest[1] \o <<Mark>>)
    BY <1>1, <1>2, <1>6, ConcatAssociative
  <1>. QED  BY <1>7, <1>8 DEF Fin, First


(* An argument without quotes, in which nothing needs any. *)
RawRead(T, w, as, u, b) ==
  \E a \in Seq(T), n \in Nat :
    /\ a \o Backslashes(n) = u
    /\ Reads(Arguing(w, as, <<>>, FALSE, 0, FALSE), u, Arguing(w, as, a, FALSE, n, b))

(* One more character of an argument without quotes. *)
LEMMA RawNext ==
  ASSUME NEW T, NEW w \in Seq(T), NEW as \in Seq(Seq(T)), NEW u, u \in Seq(T), NEW b, b \in BOOLEAN,
         RawRead(T, w, as, u, b), NEW c, c \in T, c # Blank, c # Mark, Mark \in T, Backslash \in T
  PROVE  RawRead(T, w, as, u \o <<c>>, TRUE)
  <1> DEFINE First == Arguing(w, as, <<>>, FALSE, 0, FALSE)
  <1>1. PICK a \in Seq(T), n \in Nat :
          a \o Backslashes(n) = u /\ Reads(First, u, Arguing(w, as, a, FALSE, n, b))
    BY DEF RawRead
  <1>2. ArgTypes(T, w, as, a, FALSE, n, b)
    BY DEF ArgTypes
  <1>3. /\ Backslashes(n) \in Seq(T) /\ Backslashes(n + 1) = Backslashes(n) \o <<Backslash>>
        /\ <<Backslash>> \in Seq(T) /\ Backslashes(0) = <<>> /\ <<c>> \in Seq(T)
    <2>1. <<c>> \in Seq(T) /\ n \in Nat
      OBVIOUS
    <2>2. /\ Backslashes(n + 1) = Backslashes(n) \o <<Backslash>>
          /\ Backslashes(n) \in Seq(T) /\ <<Backslash>> \in Seq(T) /\ Backslashes(0) = <<>>
      BY <2>1, BackslashesNext
    <2>. QED  BY <2>1, <2>2, Zenon
  <1> HIDE DEF First
  <1>4. CASE c = Backslash
    <2>1. ReadChar(Arguing(w, as, a, FALSE, n, b), c) = Arguing(w, as, a, FALSE, n + 1, TRUE)
      <3>1. OnBackslash(w, as, a, FALSE, n, b)
        BY <1>2, BackslashRead
      <3>. QED  BY <1>4, <3>1 DEF OnBackslash
    <2>2. a \o Backslashes(n + 1) = u \o <<c>>
      <3> DEFINE x == Backslashes(n)
                 y == <<Backslash>>
      <3>2. a \in Seq(T) /\ x \in Seq(T) /\ y \in Seq(T)
        BY <1>3
      <3> HIDE DEF x, y
      <3>3. (a \o x) \o y = a \o (x \o y)
        BY <3>2, ConcatAssociative
      <3>1. (a \o Backslashes(n)) \o <<Backslash>> = a \o (Backslashes(n) \o <<Backslash>>)
        BY <3>3 DEF x, y
      <3>. QED  BY <1>1, <1>3, <1>4, <3>1
    <2>3. Reads(First, u \o <<c>>, Arguing(w, as, a, FALSE, n + 1, TRUE))
      <3>1. Reads(Arguing(w, as, a, FALSE, n, b), <<c>>, Arguing(w, as, a, FALSE, n + 1, TRUE))
        BY <2>1, ReadsChar
      <3>. QED  BY <1>1, <1>3, <3>1, ReadsOn
    <2>4. n + 1 \in Nat
      OBVIOUS
    <2>. QED  BY <2>2, <2>3, <2>4 DEF RawRead, First
  <1>5. CASE c # Backslash
    <2> DEFINE v == a \o Backslashes(n) \o <<c>>
    <2>1. ReadChar(Arguing(w, as, a, FALSE, n, b), c) = Arguing(w, as, v, FALSE, 0, TRUE)
      <3>1. OnChar(w, as, a, FALSE, n, b, c)
        BY <1>2, <1>5, CharRead
      <3>. QED  BY <3>1 DEF OnChar
    <2>2. v = u \o <<c>> /\ v \in Seq(T)
      BY <1>1, <1>3
    <2> HIDE DEF v
    <2>3. Reads(First, u \o <<c>>, Arguing(w, as, v, FALSE, 0, TRUE))
      <3>1. Reads(Arguing(w, as, a, FALSE, n, b), <<c>>, Arguing(w, as, v, FALSE, 0, TRUE))
        BY <2>1, ReadsChar
      <3>. QED  BY <1>1, <1>3, <3>1, ReadsOn
    <2>4. 0 \in Nat /\ v \o Backslashes(0) = u \o <<c>>
      BY <1>3, <2>2
    <2>. QED  BY <2>2, <2>3, <2>4 DEF RawRead, First
  <1>. QED  BY <1>4, <1>5

(* The first places of a text, one more at a time. *)
LEMMA PrefixNext ==
  ASSUME NEW T, NEW arg \in Seq(T), NEW k \in 0..Len(arg) - 1
  PROVE  /\ SubSeq(arg, 1, k) \in Seq(T) /\ k + 1 \in 1..Len(arg) /\ arg[k + 1] \in T
         /\ SubSeq(arg, 1, k + 1) = SubSeq(arg, 1, k) \o <<arg[k + 1]>>
  <1>1. k + 1 \in 1..Len(arg) /\ 1 \in 1..Len(arg) /\ (k + 1) - 1 = k /\ k + 1 \in 1..k + 1
    OBVIOUS
  <1>2. SubSeq(arg, 1, k + 1) = SubSeq(arg, 1, (k + 1) - 1) \o <<arg[k + 1]>>
    BY <1>1, SubSeqRecursiveSecond
  <1>3. SubSeq(arg, 1, k) \in Seq(T)
    OBVIOUS
  <1>. QED  BY <1>1, <1>2, <1>3

(* An argument that needs no quotes is read as it is. *)
LEMMA RawReads ==
  ASSUME NEW T, NEW w \in Seq(T), NEW as \in Seq(Seq(T)), NEW arg \in Seq(T), ~NeedsQuotes(arg),
         Mark \in T, Backslash \in T
  PROVE  RawRead(T, w, as, arg, TRUE)
  <1> DEFINE n == Len(arg)
             S == {k \in 0..n : RawRead(T, w, as, SubSeq(arg, 1, k), k # 0)}
  <1>1. n \in Nat /\ n # 0 /\ SubSeq(arg, 1, n) = arg /\ SubSeq(arg, 1, 0) = <<>>
    BY DEF NeedsQuotes
  <1>2. \A k \in 1..n : arg[k] # Blank /\ arg[k] # Mark
    BY DEF NeedsQuotes, ToSet
  <1>3. 0 \in S
    <2> DEFINE First == Arguing(w, as, <<>>, FALSE, 0, FALSE)
    <2>1. Reads(First, <<>>, First)
      BY ReadsNothing
    <2>2. <<>> \in Seq(T) /\ 0 \in Nat /\ <<>> \o Backslashes(0) = <<>>
      BY BackslashesNext
    <2>3. RawRead(T, w, as, <<>>, FALSE)
      BY <2>1, <2>2 DEF RawRead
    <2>4. (0 # 0) = FALSE /\ 0 \in 0..n
      BY <1>1
    <2>. QED  BY <1>1, <2>3, <2>4
  <1>4. ASSUME NEW k \in 0..n - 1, k \in S PROVE k + 1 \in S
    <2> DEFINE u == SubSeq(arg, 1, k)
               c == arg[k + 1]
               b == (k # 0)
    <2>1. u \in Seq(T) /\ k + 1 \in 1..n /\ c \in T /\ SubSeq(arg, 1, k + 1) = u \o <<c>>
      BY PrefixNext
    <2>2. c # Blank /\ c # Mark
      BY <1>2, <2>1
    <2>3. RawRead(T, w, as, u, b) /\ b \in BOOLEAN
      BY <1>4
    <2> HIDE DEF u, c, b
    <2>4. RawRead(T, w, as, u \o <<c>>, TRUE)
      BY <2>1, <2>2, <2>3, RawNext
    <2>5. (k + 1 # 0) = TRUE /\ k + 1 \in 0..n
      BY <1>1, <2>1
    <2>. QED  BY <2>1, <2>4, <2>5
  <1>5. n \in S
    <2> HIDE DEF S
    <2>1. \A k \in 0..n - 1 : k \in S => k + 1 \in S
      BY <1>4
    <2> HIDE DEF n
    <2>2. \A k \in 0..n : k \in S
      BY <1>1, <1>3, <2>1, Induction
    <2>. QED  BY <1>1, <2>2
  <1>6. (n # 0) = TRUE
    BY <1>1
  <1>. QED  BY <1>1, <1>5, <1>6

Piece(arg) == IF NeedsQuotes(arg) THEN Quoted(arg) ELSE arg

(* What there is in the line for an argument, and the blank behind it. *)
LEMMA PieceReads ==
  ASSUME NEW T, NEW w \in Seq(T), NEW as \in Seq(Seq(T)), NEW arg, arg \in Seq(T),
         Mark \in T, Backslash \in T, Blank \in T
  PROVE  /\ Piece(arg) \in Seq(T) /\ Piece(arg) # <<>>
         /\ Reads(Arguing(w, as, <<>>, FALSE, 0, FALSE), Piece(arg) \o <<Blank>>,
                  Arguing(w, Append(as, arg), <<>>, FALSE, 0, FALSE))
  <1> DEFINE First == Arguing(w, as, <<>>, FALSE, 0, FALSE)
             Next1 == Arguing(w, Append(as, arg), <<>>, FALSE, 0, FALSE)
  <1>1. Piece(arg) \in Seq(T) /\ Piece(arg) # <<>>
    <2>1. CASE NeedsQuotes(arg)
      <3>1. PICK rest \in [1..Len(arg) + 1 -> Seq(T)] : Quoted(arg) = <<Mark>> \o rest[1] \o <<Mark>>
        BY QuotedRuns
      <3>2. rest[1] \in Seq(T) /\ <<Mark>> \in Seq(T)
        OBVIOUS
      <3>3. Quoted(arg) \in Seq(T) /\ Quoted(arg) # <<>>
        BY <3>1, <3>2
      <3>. QED  BY <2>1, <3>3 DEF Piece
    <2>2. CASE ~NeedsQuotes(arg)
      BY <2>2 DEF Piece, NeedsQuotes
    <2>. QED  BY <2>1, <2>2
  <1>2. RawRead(T, w, as, arg, TRUE) \/ NeedsQuotes(arg)
    BY RawReads
  <1>3. \E a \in Seq(T), n \in Nat :
          /\ a \o Backslashes(n) = arg
          /\ Reads(First, Piece(arg), Arguing(w, as, a, FALSE, n, TRUE))
    <2>1. CASE NeedsQuotes(arg)
      <3>1. Reads(First, Piece(arg), Arguing(w, as, arg, FALSE, 0, TRUE))
        BY <2>1, QuotedReads DEF Piece
      <3>3. Backslashes(0) = <<>>
        <4>1. 0 \in Nat
          OBVIOUS
        <4>. QED  BY <4>1, BackslashesNext
      <3>2. 0 \in Nat /\ arg \o Backslashes(0) = arg
        BY <3>3
      <3>. QED  BY <3>1, <3>2
    <2>2. CASE ~NeedsQuotes(arg)
      BY <1>2, <2>2 DEF RawRead, Piece
    <2>. QED  BY <2>1, <2>2
  <1>4. PICK a \in Seq(T), n \in Nat :
          /\ a \o Backslashes(n) = arg
          /\ Reads(First, Piece(arg), Arguing(w, as, a, FALSE, n, TRUE))
    BY <1>3
  <1>5. Reads(Arguing(w, as, a, FALSE, n, TRUE), <<Blank>>, Next1)
    <2>1. ArgTypes(T, w, as, a, FALSE, n, TRUE)
      BY DEF ArgTypes
    <2>2. OnBlank(w, as, a, n)
      BY <2>1, BlankRead
    <2>3. ReadChar(Arguing(w, as, a, FALSE, n, TRUE), Blank) = Next1
      BY <1>4, <2>2 DEF OnBlank
    <2>. QED  BY <2>3, ReadsChar
  <1>6. <<Blank>> \in Seq(T)
    OBVIOUS
  <1> HIDE DEF First, Next1
  <1>7. Reads(First, Piece(arg) \o <<Blank>>, Next1)
    BY <1>1, <1>4, <1>5, <1>6, ReadsOn
  <1>. QED  BY <1>1, <1>7 DEF First, Next1

(* The name, in which there are no quotes, and the text behind its opening  *)
(* quote.                                                                   *)
EndsWell(name) == name = <<>> \/ Last(name) # Backslash

(* The same for a place of the name. *)
LEMMA NamesRest ==
  ASSUME NEW T, NEW u, u \in Seq(T), NEW m, m \in Nat, NEW c, c \in T, c # Mark, NEW v, v \in Seq(T),
         NEW r, Backslash \in T, Mark \in T,
         Reads(Naming(u \o Backslashes(m) \o <<c>>, TRUE), v \o <<Mark>>, r)
  PROVE  Reads(Naming(u, TRUE), (Backslashes(m) \o <<c>> \o v) \o <<Mark>>, r)
  <1> DEFINE d == Backslashes(m)
             x == u \o d
             s == Naming(u, TRUE)
             l == Naming(x, TRUE)
             g == Naming(x \o <<c>>, TRUE)
             o == <<c>>
             z == <<Mark>>
  <1>1. d \in Seq(T) /\ o \in Seq(T) /\ z \in Seq(T)
    BY BackslashesAre
  <1>2. Reads(s, d, l)
    BY NamesBackslashes
  <1>3. x \in Seq(T)
    <2> HIDE DEF d
    <2>. QED  BY <1>1
  <1>4. Reads(l, o, g)
    <2> HIDE DEF x
    <2>1. ReadChar(Naming(x, TRUE), c) = Naming(Append(x, c), TRUE)
      BY <1>3, NameChar
    <2>2. Append(x, c) = x \o <<c>>
      BY <1>3, AppendIsConcat
    <2>. QED  BY <2>1, <2>2, ReadsChar
  <1>5. Reads(g, v \o z, r)
    OBVIOUS
  <1> HIDE DEF d, x, s, l, g, o, z
  <1>6. Reads(s, (d \o o \o v) \o z, r)
    BY <1>1, <1>2, <1>4, <1>5, ReadsRest
  <1>. QED  BY <1>6 DEF d, s, o, z

(* A name in quotes is read as it is, unless it ends in a backslash. *)
LEMMA QuotedNameReads ==
  ASSUME NEW T, NEW name \in Seq(T), Mark \notin ToSet(name), Mark \in T, Backslash \in T
  PROVE  \E x \in Seq(T) : /\ Reads(Naming(<<>>, FALSE), Quoted(name), Naming(x, FALSE))
                           /\ EndsWell(name) => x = name
  <1> DEFINE n == Len(name) + 1
             u(i) == SubSeq(name, 1, i - 1)
             J(i) == PastBackslashes(name, i)
             EndsIn(s, t) == \E x \in Seq(T) : Reads(s, t, Naming(x, FALSE)) /\ (EndsWell(name) => x = name)
             At(i) == Naming(u(i), TRUE)
  <1>1. /\ n \in Nat /\ Len(name) \in Nat /\ <<Mark>> \in Seq(T) /\ 1 \in 1..n
        /\ SubSeq(name, 1, Len(name)) = name /\ u(1) = <<>> /\ <<>> \in Seq(T)
    OBVIOUS
  <1>2. PICK rest \in [1..n -> Seq(T)] :
           Rests(name, rest) /\ Quoted(name) = <<Mark>> \o rest[1] \o <<Mark>>
    BY QuotedRuns
  <1> DEFINE S == {i \in 1..n : EndsIn(At(i), rest[i] \o <<Mark>>)}
  <1>3. ASSUME NEW i \in 1..n, \A k \in i + 1..n : k \in S PROVE i \in S
    <2> DEFINE j == J(i)
               m == j - i
               v == u(i) \o Backslashes(m)
    <2>1. /\ Slashed(name, i, j) /\ Before(T, name, i, j) /\ RestAt(name, rest, i, j)
          /\ j \in i..n /\ j \in Nat /\ i \in Nat /\ m \in Nat /\ u(i) \in Seq(T)
               /\ v = SubSeq(name, 1, j - 1)
      <3>1. i \in 1..Len(name) + 1
        OBVIOUS
      <3>2. Slashed(name, i, j)
        BY <3>1, SlashesEnd
      <3>3. RestAt(name, rest, i, j)
        BY <1>2, <3>1 DEF Rests
      <3>4. j \in i..n /\ j \in Nat /\ i \in Nat
        BY <3>1, <3>2 DEF Slashed
      <3>5. Before(T, name, i, j)
        <4> HIDE DEF j
        <4>. QED  BY <3>1, <3>2, BeforeSlashes
      <3>6. m \in Nat /\ u(i) \in Seq(T) /\ v = SubSeq(name, 1, j - 1)
        <4> HIDE DEF J
        <4>. QED  BY <3>5 DEF Before
      <3>. QED  BY <3>2, <3>3, <3>4, <3>5, <3>6
    <2>2. CASE j > Len(name)
      <3> DEFINE x == u(i) \o Backslashes(2 * m)
                 b == Backslashes(2 * m)
      <3>1. rest[i] = Backslashes(2 * m) /\ 2 * m \in Nat /\ v = name
        <4>1. j - 1 = Len(name)
          BY <1>1, <2>1, <2>2
        <4>2. rest[i] = Backslashes(2 * m) /\ 2 * m \in Nat
          BY <2>1, <2>2 DEF RestAt
        <4>. QED  BY <1>1, <2>1, <4>1, <4>2
      <3>2. b \in Seq(T)
        BY <3>1, BackslashesAre
      <3>3. x \in Seq(T)
        <4> HIDE DEF b, u
        <4>1. u(i) \o b \in Seq(T)
          BY <2>1, <3>2
        <4>. QED  BY <4>1 DEF b
      <3>4. EndsWell(name) => x = name
        <4> SUFFICES ASSUME EndsWell(name) PROVE x = name
          OBVIOUS
        <4>1. m = 0
          <5> SUFFICES ASSUME m # 0 PROVE FALSE
            OBVIOUS
          <5>1. j = Len(name) + 1 /\ Len(name) \in i..j - 1 /\ Len(name) # 0
            BY <1>1, <2>1, <2>2
          <5>2. name[Len(name)] = Backslash /\ name # <<>>
            BY <2>1, <5>1 DEF Slashed
          <5>. QED  BY <5>2 DEF EndsWell, Last
        <4>2. 2 * m = m
          BY <4>1
        <4> HIDE DEF m
        <4>3. x = v
          BY <4>2
        <4>. QED  BY <3>1, <4>3
      <3>5. Reads(At(i), b, Naming(x, TRUE))
        <4> HIDE DEF u, m
        <4>1. Reads(Naming(u(i), TRUE), Backslashes(2 * m), Naming(u(i) \o Backslashes(2 * m), TRUE))
          BY <2>1, <3>1, NamesBackslashes
        <4>. QED  BY <4>1
      <3> HIDE DEF x, b
      <3>6. Reads(Naming(x, TRUE), <<Mark>>, Naming(x, FALSE))
        <4>1. ReadChar(Naming(x, TRUE), Mark) = Naming(x, ~TRUE)
          BY <3>3, NameMark
        <4>. QED  BY <4>1, ReadsChar
      <3>7. Reads(At(i), b \o <<Mark>>, Naming(x, FALSE))
        <4> HIDE DEF At
        <4>. QED  BY <1>1, <3>2, <3>5, <3>6, ReadsOn
      <3>. QED  BY <3>1, <3>3, <3>4, <3>7 DEF b
    <2>3. CASE ~(j > Len(name))
      <3> DEFINE c == name[j]
                 t == rest[j + 1]
      <3>1. /\ c \in T /\ c # Mark /\ j + 1 \in i + 1..n
            /\ rest[i] = Backslashes(m) \o <<c>> \o t /\ t \in Seq(T)
            /\ u(i) \o Backslashes(m) \o <<c>> = u(j + 1)
        <4>1. j <= Len(name) /\ j # Len(name) + 1 /\ j \in 1..Len(name)
          BY <1>1, <2>1, <2>3
        <4>2. c \in T /\ c # Mark /\ j + 1 \in i + 1..n /\ j + 1 \in 1..n
          BY <1>1, <2>1, <4>1 DEF ToSet
        <4>3. v \o <<c>> = u(j + 1)
          <5> HIDE DEF J
          <5>. QED  BY <2>1, <4>1 DEF Before
        <4>4. rest[i] = Backslashes(m) \o <<c>> \o t /\ t \in Seq(T)
          BY <2>1, <2>3, <4>2 DEF RestAt, Doubled
        <4>. QED  BY <4>2, <4>3, <4>4
      <3>2. PICK x \in Seq(T) : /\ Reads(At(j + 1), t \o <<Mark>>, Naming(x, FALSE))
                                /\ EndsWell(name) => x = name
        BY <1>3, <3>1
      <3>3. Reads(Naming(u(i) \o Backslashes(m) \o <<c>>, TRUE), t \o <<Mark>>, Naming(x, FALSE))
        BY <3>1, <3>2
      <3>4. Reads(Naming(u(i), TRUE), (Backslashes(m) \o <<c>> \o t) \o <<Mark>>, Naming(x, FALSE))
        <4> DEFINE r == Naming(x, FALSE)
        <4> HIDE DEF u, m, c, t, r
        <4>. QED  BY <2>1, <3>1, <3>3, NamesRest DEF r
      <3>. QED  BY <3>1, <3>2, <3>4
    <2>. QED  BY <2>2, <2>3
  <1>4. 1 \in S
    <2> HIDE DEF S, n
    <2>1. \A i \in 1..n : i \in S
      BY <1>1, <1>3, Descent
    <2>. QED  BY <1>1, <2>1
  <1>5. PICK x \in Seq(T) : /\ Reads(At(1), rest[1] \o <<Mark>>, Naming(x, FALSE))
                            /\ EndsWell(name) => x = name
    BY <1>4
  <1>6. Reads(Naming(<<>>, FALSE), <<Mark>>, At(1))
    <2>1. ReadChar(Naming(<<>>, FALSE), Mark) = Naming(<<>>, ~FALSE)
      BY <1>1, NameMark
    <2>2. ReadChar(Naming(<<>>, FALSE), Mark) = At(1)
      BY <1>1, <2>1
    <2>. QED  BY <2>2, ReadsChar
  <1> DEFINE First == Naming(<<>>, FALSE)
             Fin == Naming(x, FALSE)
             y == rest[1] \o <<Mark>>
  <1>7. rest[1] \in Seq(T) /\ y \in Seq(T)
    BY <1>1
  <1>8. Quoted(name) = <<Mark>> \o y
    BY <1>1, <1>2, <1>7, ConcatAssociative
  <1> HIDE DEF At, First, Fin, y
  <1>9. Reads(First, <<Mark>> \o y, Fin)
    BY <1>1, <1>5, <1>6, <1>7, ReadsOn DEF First, Fin, y
  <1>. QED  BY <1>5, <1>8, <1>9 DEF First, Fin

(* A name that needs no quotes. *)
LEMMA RawNameReads ==
  ASSUME NEW T, NEW name \in Seq(T), ~NeedsQuotes(name)
  PROVE  Reads(Naming(<<>>, FALSE), name, Naming(name, FALSE))
  <1> DEFINE n == Len(name)
             u(k) == SubSeq(name, 1, k)
             First == Naming(<<>>, FALSE)
             S == {k \in 0..n : Reads(First, u(k), Naming(u(k), FALSE))}
  <1>1. n \in Nat /\ u(n) = name /\ u(0) = <<>> /\ 0 \in 0..n /\ n \in 0..n
    OBVIOUS
  <1>2. \A k \in 1..n : name[k] # Blank /\ name[k] # Mark
    BY DEF NeedsQuotes, ToSet
  <1>3. 0 \in S
    <2>1. Reads(First, <<>>, First)
      BY ReadsNothing
    <2> HIDE DEF u
    <2>. QED  BY <1>1, <2>1
  <1>4. ASSUME NEW k \in 0..n - 1, k \in S PROVE k + 1 \in S
    <2> DEFINE c == name[k + 1]
               x == u(k)
    <2>1. x \in Seq(T) /\ k + 1 \in 1..n /\ c \in T /\ u(k + 1) = x \o <<c>>
      BY PrefixNext
    <2>2. c # Blank /\ c # Mark
      BY <1>2, <2>1
    <2>3. Reads(First, x, Naming(x, FALSE))
      BY <1>4
    <2>6. k + 1 \in 0..n
      BY <2>1
    <2> HIDE DEF c, x, First, u
    <2>4. ReadChar(Naming(x, FALSE), c) = Naming(Append(x, c), FALSE)
      BY <2>1, <2>2, NameChar
    <2>7. Append(x, c) = x \o <<c>> /\ <<c>> \in Seq(T)
      BY <2>1, AppendIsConcat
    <2>8. Reads(Naming(x, FALSE), <<c>>, Naming(x \o <<c>>, FALSE))
      BY <2>4, <2>7, ReadsChar
    <2>5. Reads(First, x \o <<c>>, Naming(x \o <<c>>, FALSE))
      BY <2>1, <2>3, <2>7, <2>8, ReadsOn
    <2>. QED  BY <2>1, <2>5, <2>6
  <1>5. n \in S
    <2> HIDE DEF S
    <2>1. \A k \in 0..n - 1 : k \in S => k + 1 \in S
      BY <1>4
    <2> HIDE DEF n, u
    <2>2. \A k \in 0..n : k \in S
      BY <1>1, <1>3, <2>1, Induction
    <2>. QED  BY <1>1, <2>2
  <1> HIDE DEF u, First
  <1>6. Reads(First, u(n), Naming(u(n), FALSE))
    BY <1>5
  <1>. QED  BY <1>1, <1>6 DEF First

(* So is any name, or it has a space and ends in a backslash. *)
LEMMA NameReads ==
  ASSUME NEW T, NEW name, name \in Seq(T), Mark \notin ToSet(name), Mark \in T, Backslash \in T, Blank \in T
  PROVE  \E x \in Seq(T) :
           /\ Reads(Naming(<<>>, FALSE), Piece(name) \o <<Blank>>, Arguing(x, <<>>, <<>>, FALSE, 0, FALSE))
           /\ ~(Blank \in ToSet(name) /\ Last(name) = Backslash) => x = name
  <1> DEFINE First == Naming(<<>>, FALSE)
  <1>1. \E x \in Seq(T) : /\ Reads(First, Piece(name), Naming(x, FALSE))
                          /\ ~(Blank \in ToSet(name) /\ Last(name) = Backslash) => x = name
    <2>1. CASE NeedsQuotes(name)
      <3>1. PICK x \in Seq(T) : /\ Reads(First, Quoted(name), Naming(x, FALSE))
                                /\ EndsWell(name) => x = name
        BY QuotedNameReads
      <3>2. ~(Blank \in ToSet(name) /\ Last(name) = Backslash) => EndsWell(name)
        BY <2>1 DEF NeedsQuotes, EndsWell
      <3>. QED  BY <2>1, <3>1, <3>2 DEF Piece
    <2>2. CASE ~NeedsQuotes(name)
      BY <2>2, RawNameReads DEF Piece
    <2>. QED  BY <2>1, <2>2
  <1>2. PICK x \in Seq(T) : /\ Reads(First, Piece(name), Naming(x, FALSE))
                            /\ ~(Blank \in ToSet(name) /\ Last(name) = Backslash) => x = name
    BY <1>1
  <1>3. Reads(Naming(x, FALSE), <<Blank>>, Arguing(x, <<>>, <<>>, FALSE, 0, FALSE))
    BY NameBlank, ReadsChar
  <1>4. Piece(name) \in Seq(T) /\ <<Blank>> \in Seq(T)
    <2>1. <<>> \in Seq(T) /\ <<>> \in Seq(Seq(T)) /\ <<Blank>> \in Seq(T)
      OBVIOUS
    <2>. QED  BY <2>1, PieceReads
  <1> DEFINE Fin == Arguing(x, <<>>, <<>>, FALSE, 0, FALSE)
  <1> HIDE DEF First, Fin
  <1>5. Reads(First, Piece(name) \o <<Blank>>, Fin)
    BY <1>2, <1>3, <1>4, ReadsOn DEF Fin
  <1>. QED  BY <1>2, <1>5 DEF First, Fin

(* The runtime goes on from what it has read to what it will. *)
LEMMA StateParts ==
  ASSUME NEW T, NEW s, s \in ArgvStates(T)
  PROVE  /\ s.name \in Seq(T) /\ s.named \in BOOLEAN /\ s.args \in Seq(Seq(T)) /\ s.arg \in Seq(T)
         /\ s.quoted \in BOOLEAN /\ s.slashes \in Nat /\ s.inside \in BOOLEAN
  BY DEF ArgvStates

(* The reader stays in its states: in the name, *)
LEMMA NamingStays ==
  ASSUME NEW T, NEW s, s \in ArgvStates(T), s.named = FALSE, NEW c, c \in T
  PROVE  ReadChar(s, c) \in ArgvStates(T)
  <1>1. CASE c = Mark
    <2>1. ReadChar(s, c) = [s EXCEPT !.quoted = ~s.quoted]
      BY <1>1, NameCases
    <2>. QED  BY <2>1, StateParts DEF ArgvStates
  <1>2. CASE c = Blank /\ s.quoted = FALSE
    <2>1. ReadChar(s, c) = [s EXCEPT !.named = TRUE]
      BY <1>2, NameCases
    <2>. QED  BY <2>1 DEF ArgvStates
  <1>3. CASE c # Mark /\ (c # Blank \/ s.quoted = TRUE)
    <2> DEFINE x == Append(s.name, c)
    <2>1. ReadChar(s, c) = [s EXCEPT !.name = x]
      BY <1>3, NameCases
    <2>2. x \in Seq(T)
      BY StateParts
    <2> HIDE DEF x
    <2>. QED  BY <2>1, <2>2 DEF ArgvStates
  <1>. QED  BY <1>1, <1>2, <1>3, StateParts

(* What becomes of a state. *)
AfterQuote(r, s, x, q) == r = [s EXCEPT !.arg = x, !.quoted = q, !.slashes = 0, !.inside = TRUE]
AfterLetter(r, s, x) == r = [s EXCEPT !.arg = x, !.slashes = 0, !.inside = TRUE]
AfterBlank(r, s, x) == r = [s EXCEPT !.args = x, !.arg = <<>>, !.slashes = 0, !.inside = FALSE]

(* at a quote, *)
LEMMA QuotesStay ==
  ASSUME NEW T, NEW s, s \in ArgvStates(T), NEW x, x \in Seq(T), NEW q, q \in BOOLEAN,
         NEW r, AfterQuote(r, s, x, q)
  PROVE  r \in ArgvStates(T)
  BY DEF ArgvStates, AfterQuote

(* a letter *)
LEMMA LettersStay ==
  ASSUME NEW T, NEW s, s \in ArgvStates(T), NEW x, x \in Seq(T), NEW r, AfterLetter(r, s, x)
  PROVE  r \in ArgvStates(T)
  BY DEF ArgvStates, AfterLetter

(* or a space, *)
LEMMA BlanksStay ==
  ASSUME NEW T, NEW s, s \in ArgvStates(T), NEW x, x \in Seq(Seq(T)), NEW r, AfterBlank(r, s, x)
  PROVE  r \in ArgvStates(T)
  <1> DEFINE e == <<>>
  <1>1. e \in Seq(T)
    OBVIOUS
  <1>3. r = [s EXCEPT !.args = x, !.arg = e, !.slashes = 0, !.inside = FALSE]
    BY DEF AfterBlank
  <1> HIDE DEF e
  <1>2. [s EXCEPT !.args = x, !.arg = e, !.slashes = 0, !.inside = FALSE] \in ArgvStates(T)
    BY <1>1 DEF ArgvStates
  <1>. QED  BY <1>2, <1>3

(* anywhere in the arguments, *)
LEMMA ArgumentStays ==
  ASSUME NEW T, NEW s, s \in ArgvStates(T), s.named = TRUE, NEW c, c \in T, Mark \in T, Backslash \in T
  PROVE  ReadChar(s, c) \in ArgvStates(T)
  <1>0. /\ s.args \in Seq(Seq(T)) /\ s.arg \in Seq(T) /\ s.quoted \in BOOLEAN /\ s.slashes \in Nat
        /\ s.inside \in BOOLEAN /\ <<>> \in Seq(T)
    BY StateParts
  <1>10. s.quoted \in BOOLEAN /\ (~s.quoted) \in BOOLEAN
    BY <1>0
  <1>11. <<>> \in Seq(T)
    OBVIOUS
  <1>12. (s.quoted = TRUE \/ s.quoted = FALSE) /\ (s.inside = TRUE \/ s.inside = FALSE)
    BY <1>0
  <1>8. s.slashes + 1 \in Nat /\ s.slashes \div 2 \in Nat
    <2>1. s.slashes \in Nat
      BY <1>0
    <2>. QED  BY <2>1
  <1>9. Backslashes(s.slashes) \in Seq(T) /\ Backslashes(s.slashes \div 2) \in Seq(T)
    BY <1>0, <1>8, BackslashesAre
  <1>1. CASE c = Backslash
    <2>1. ReadChar(s, c) = [s EXCEPT !.slashes = s.slashes + 1, !.inside = TRUE]
      BY <1>1, ArgumentCases
    <2>. QED  BY <1>8, <2>1 DEF ArgvStates
  <1>2. CASE c = Mark /\ s.slashes % 2 = 1
    <2> DEFINE x == s.arg \o Backslashes(s.slashes \div 2) \o <<Mark>>
    <2>1. AfterQuote(ReadChar(s, c), s, x, s.quoted)
      BY <1>2, ArgumentCases DEF AfterQuote
    <2>2. x \in Seq(T)
      <3> DEFINE b == Backslashes(s.slashes \div 2)
                 o == <<Mark>>
      <3>1. b \in Seq(T) /\ o \in Seq(T)
        BY <1>9
      <3> HIDE DEF b, o
      <3>2. s.arg \o b \o o \in Seq(T)
        BY <1>0, <3>1
      <3>. QED  BY <3>2 DEF b, o
    <2> HIDE DEF x
    <2>. QED  BY <1>10, <2>1, <2>2, QuotesStay
  <1>3. CASE c = Mark /\ s.slashes % 2 # 1
    <2> DEFINE x == s.arg \o Backslashes(s.slashes \div 2) \o <<>>
    <2>1. AfterQuote(ReadChar(s, c), s, x, ~s.quoted)
      BY <1>3, ArgumentCases DEF AfterQuote
    <2>2. x \in Seq(T)
      <3> DEFINE b == Backslashes(s.slashes \div 2)
                 o == <<>>
      <3>1. b \in Seq(T) /\ o \in Seq(T)
        BY <1>9
      <3> HIDE DEF b, o
      <3>2. s.arg \o b \o o \in Seq(T)
        BY <1>0, <3>1
      <3>. QED  BY <3>2 DEF b, o
    <2> HIDE DEF x
    <2>. QED  BY <1>10, <2>1, <2>2, QuotesStay
  <1>4. CASE c = Blank /\ s.quoted = FALSE /\ s.inside = TRUE
    <2> DEFINE b == Backslashes(s.slashes)
               y == s.arg \o b
               x == Append(s.args, y)
    <2>1. AfterBlank(ReadChar(s, c), s, x)
      BY <1>4, ArgumentCases DEF AfterBlank
    <2>2. b \in Seq(T)
      BY <1>9
    <2> HIDE DEF b
    <2>3. y \in Seq(T)
      BY <1>0, <2>2
    <2> HIDE DEF y
    <2>4. x \in Seq(Seq(T))
      BY <1>0, <2>3, AppendProperties
    <2> HIDE DEF x
    <2>. QED  BY <2>1, <2>4, BlanksStay
  <1>5. CASE c = Blank /\ s.quoted = FALSE /\ s.inside = FALSE
    <2> DEFINE x == s.args
    <2>1. AfterBlank(ReadChar(s, c), s, x)
      BY <1>5, ArgumentCases DEF AfterBlank
    <2>2. x \in Seq(Seq(T))
      BY <1>0
    <2> HIDE DEF x
    <2>. QED  BY <2>1, <2>2, BlanksStay
  <1>6. CASE c \notin {Mark, Backslash} /\ (c # Blank \/ s.quoted = TRUE)
    <2> DEFINE x == s.arg \o Backslashes(s.slashes) \o <<c>>
    <2>1. AfterLetter(ReadChar(s, c), s, x)
      BY <1>6, ArgumentCases DEF AfterLetter
    <2>2. x \in Seq(T)
      <3> DEFINE b == Backslashes(s.slashes)
                 o == <<c>>
      <3>1. b \in Seq(T) /\ o \in Seq(T)
        BY <1>9
      <3> HIDE DEF b, o
      <3>2. s.arg \o b \o o \in Seq(T)
        BY <1>0, <3>1
      <3>. QED  BY <3>2 DEF b, o
    <2> HIDE DEF x
    <2>. QED  BY <2>1, <2>2, LettersStay
  <1>. QED  BY <1>12, <1>1, <1>2, <1>3, <1>4, <1>5, <1>6, Zenon

(* so with every character. *)
LEMMA CharStays ==
  ASSUME NEW T, Mark \in T, Backslash \in T
  PROVE  /\ \A s \in ArgvStates(T), c \in T : ReadChar(s, c) \in ArgvStates(T)
         /\ Naming(<<>>, FALSE) \in ArgvStates(T)
  <1>1. ASSUME NEW s \in ArgvStates(T), NEW c \in T PROVE ReadChar(s, c) \in ArgvStates(T)
    <2>1. s.named \in BOOLEAN
      BY StateParts
    <2>2. CASE s.named = TRUE
      BY <2>2, ArgumentStays
    <2>3. CASE s.named = FALSE
      BY <2>3, NamingStays
    <2>. QED  BY <2>1, <2>2, <2>3
  <1>2. Naming(<<>>, FALSE) \in ArgvStates(T)
    <2>1. <<>> \in Seq(T) /\ <<>> \in Seq(Seq(T)) /\ 0 \in Nat
      OBVIOUS
    <2>. QED  BY <2>1 DEF Naming, ArgvStates
  <1>. QED  BY <1>1, <1>2


(* What the runtime goes through. *)
ArgvRuns(T, line, text) ==
  \E h \in [0..Len(text) -> ArgvStates(T)] :
    /\ h[0] = Naming(<<>>, FALSE)
    /\ \A k \in 1..Len(text) : h[k] = ReadChar(h[k-1], text[k])
    /\ text = Append(line, Blank) => Argv(line) = <<h[Len(text)].name>> \o h[Len(text)].args

(* The runtime reads a line, and a blank behind it, character by character. *)
LEMMA ArgvSteps ==
  ASSUME NEW T, NEW line, NEW text \in Seq(T),
         Mark \in T, Backslash \in T
  PROVE  ArgvRuns(T, line, text)
  <1> DEFINE n == Len(text)
             step == [k \in 1..n |-> [x \in ArgvStates(T) |-> ReadChar(x, text[k])]]
             body(g) == [s \in SUBSET (DOMAIN text) |->
                           IF s = {} THEN Naming(<<>>, FALSE) ELSE ReadChar(g[s \ {Max(s)}], text[Max(s)])]
             chosen == CHOOSE g : g = body(g)
  <1>0. (DOMAIN text) = 1..n
    OBVIOUS
  <1>1. n \in Nat /\ Naming(<<>>, FALSE) \in ArgvStates(T)
    <2>1. n \in Nat
      OBVIOUS
    <2>. QED  BY <2>1, CharStays
  <1>2. step \in [1..n -> [ArgvStates(T) -> ArgvStates(T)]]
    <2>1. \A k \in 1..n : text[k] \in T
      OBVIOUS
    <2>. QED  BY <2>1, CharStays
  <1>3. PICK g \in [SUBSET (1..n) -> ArgvStates(T)] : Folds(g, n, Naming(<<>>, FALSE), step)
    <2> HIDE DEF step, n
    <2>. QED  BY <1>1, <1>2, FoldExists
  <1>4. ASSUME NEW s \in SUBSET (1..n) PROVE g[s] = body(g)[s]
    <2>1. CASE s = {}
      BY <1>3, <2>1 DEF Folds
    <2>2. CASE s # {}
      <3>1. Max(s) \in 1..n /\ s \ {Max(s)} \in SUBSET (1..n)
        BY <1>1, <2>2, MaxIn
      <3>2. g[s \ {Max(s)}] \in ArgvStates(T) /\ g[s] = step[Max(s)][g[s \ {Max(s)}]]
        BY <1>3, <2>2, <3>1 DEF Folds
      <3>3. body(g)[s] = ReadChar(g[s \ {Max(s)}], text[Max(s)])
        BY <1>0, <2>2
      <3>4. step[Max(s)][g[s \ {Max(s)}]] = ReadChar(g[s \ {Max(s)}], text[Max(s)])
        BY <3>1, <3>2
      <3>. QED  BY <3>2, <3>3, <3>4, Zenon
    <2>. QED  BY <2>1, <2>2
  <1>5. g = body(g)
    BY <1>0, <1>4
  <1>6. chosen = body(chosen)
    BY <1>5
  <1>7. text = Append(line, Blank) => Argv(line) = <<chosen[(DOMAIN text)].name>> \o chosen[(DOMAIN text)].args
    BY DEF Argv, Naming, FoldLeft, MapThenFoldSet
  <1> HIDE DEF chosen
  <1>8. \A s \in SUBSET (1..n) : chosen[s] = body(chosen)[s]
    BY <1>0, <1>6
  <1>9. chosen[{}] = Naming(<<>>, FALSE)
    BY <1>8
  <1>10. ASSUME NEW k \in 1..n PROVE chosen[1..k] = ReadChar(chosen[1..k-1], text[k])
    <2>1. 1..k \in SUBSET (1..n) /\ 1..k # {} /\ Max(1..k) = k /\ (1..k) \ {k} = 1..k-1
      BY <1>1, FoldSteps
    <2>. QED  BY <1>0, <1>8, <2>1
  <1>11. \A k \in 1..n : chosen[1..k-1] \in ArgvStates(T) => chosen[1..k] = step[k][chosen[1..k-1]]
    BY <1>10
  <1>15. Follows(chosen, n, ArgvStates(T), Naming(<<>>, FALSE), step)
    BY <1>9, <1>11 DEF Follows
  <1>12. PICK h \in [0..n -> ArgvStates(T)] : Traces(h, n, Naming(<<>>, FALSE), step) /\ chosen[1..n] = h[n]
    <2>1. HasTrace(chosen, n, ArgvStates(T), Naming(<<>>, FALSE), step)
      <3> HIDE DEF step, n
      <3>. QED  BY <1>1, <1>2, <1>15, FoldTrace
    <2>. QED  BY <2>1 DEF HasTrace
  <1>13. \A k \in 1..n : k - 1 \in 0..n /\ h[k] = step[k][h[k-1]]
    <2> HIDE DEF step
    <2>. QED  BY <1>1, <1>12 DEF Traces
  <1>14. \A k \in 1..n : h[k] = ReadChar(h[k-1], text[k])
    BY <1>12, <1>13
  <1>. QED  BY <1>0, <1>7, <1>12, <1>14 DEF Traces, ArgvRuns

Extended(ret, arg) == (IF ret = <<>> THEN <<>> ELSE ret \o <<Blank>>) \o Piece(arg)

(* The line with one more argument. *)
LEMMA ExtendedStays ==
  ASSUME NEW T, NEW ret \in Seq(T), NEW arg \in Seq(T), Mark \in T, Backslash \in T, Blank \in T
  PROVE  /\ Extended(ret, arg) \in Seq(T) /\ Extended(ret, arg) # <<>>
         /\ ret = <<>> => Extended(ret, arg) = Piece(arg)
         /\ ret # <<>> => Extended(ret, arg) \o <<Blank>> = (ret \o <<Blank>>) \o (Piece(arg) \o <<Blank>>)
  <1> DEFINE p == Piece(arg)
             b == <<Blank>>
  <1>1. p \in Seq(T) /\ p # <<>> /\ b \in Seq(T)
    <2>1. <<>> \in Seq(T) /\ <<>> \in Seq(Seq(T)) /\ b \in Seq(T)
      OBVIOUS
    <2>. QED  BY <2>1, PieceReads
  <1>2. Extended(ret, arg) = (IF ret = <<>> THEN <<>> ELSE ret \o b) \o p
    BY DEF Extended
  <1> HIDE DEF p, b
  <1>3. ret \o b \in Seq(T) /\ (ret \o b) \o p \in Seq(T)
    BY <1>1
  <1>4. ((ret \o b) \o p) \o b = (ret \o b) \o (p \o b)
    <2> DEFINE x == ret \o b
    <2>1. x \in Seq(T)
      BY <1>3
    <2> HIDE DEF x
    <2>2. (x \o p) \o b = x \o (p \o b)
      BY <1>1, <2>1, ConcatAssociative
    <2>. QED  BY <2>2 DEF x
  <1>5. <<>> \o p = p /\ (ret \o b) \o p # <<>>
    BY <1>1, <1>3
  <1>. QED  BY <1>1, <1>2, <1>3, <1>4, <1>5 DEF p, b


(* The line is made argument by argument. *)
LEMMA JoinSteps ==
  ASSUME NEW T, NEW args \in Seq(Seq(T)), Mark \in T, Backslash \in T, Blank \in T
  PROVE  \E h \in [0..Len(args) -> Seq(T)] :
           /\ h[0] = <<>>
           /\ \A k \in 1..Len(args) : h[k] = Extended(h[k-1], args[k])
           /\ JoinArguments(args) = h[Len(args)]
  <1> DEFINE n == Len(args)
             step == [k \in 1..n |-> [x \in Seq(T) |-> Extended(x, args[k])]]
             body(g) == [s \in SUBSET (DOMAIN args) |->
                           IF s = {} THEN <<>> ELSE Extended(g[s \ {Max(s)}], args[Max(s)])]
             chosen == CHOOSE g : g = body(g)
  <1>0. (DOMAIN args) = 1..n
    OBVIOUS
  <1>1. n \in Nat /\ <<>> \in Seq(T)
    OBVIOUS
  <1>2. step \in [1..n -> [Seq(T) -> Seq(T)]]
    <2>1. \A k \in 1..n : args[k] \in Seq(T)
      OBVIOUS
    <2>. QED  BY <2>1, ExtendedStays
  <1>3. PICK g \in [SUBSET (1..n) -> Seq(T)] : Folds(g, n, <<>>, step)
    <2> HIDE DEF step, n
    <2>. QED  BY <1>1, <1>2, FoldExists
  <1>4. ASSUME NEW s \in SUBSET (1..n) PROVE g[s] = body(g)[s]
    <2>1. CASE s = {}
      BY <1>3, <2>1 DEF Folds
    <2>2. CASE s # {}
      <3>1. Max(s) \in 1..n /\ s \ {Max(s)} \in SUBSET (1..n)
        BY <1>1, <2>2, MaxIn
      <3>2. g[s \ {Max(s)}] \in Seq(T) /\ g[s] = step[Max(s)][g[s \ {Max(s)}]]
        BY <1>3, <2>2, <3>1 DEF Folds
      <3>. QED  BY <2>2, <3>1, <3>2
    <2>. QED  BY <2>1, <2>2
  <1>5. g = body(g)
    BY <1>0, <1>4
  <1>6. chosen = body(chosen)
    BY <1>5
  <1>7. JoinArguments(args) = chosen[(DOMAIN args)]
    BY DEF JoinArguments, Extended, Piece, FoldLeft, MapThenFoldSet
  <1> HIDE DEF chosen
  <1>8. \A s \in SUBSET (1..n) : chosen[s] = body(chosen)[s]
    BY <1>0, <1>6
  <1>9. chosen[{}] = <<>>
    BY <1>8
  <1>10. ASSUME NEW k \in 1..n PROVE chosen[1..k] = Extended(chosen[1..k-1], args[k])
    <2>1. 1..k \in SUBSET (1..n) /\ 1..k # {} /\ Max(1..k) = k /\ (1..k) \ {k} = 1..k-1
      BY <1>1, FoldSteps
    <2>. QED  BY <1>0, <1>8, <2>1
  <1>11. \A k \in 1..n : chosen[1..k-1] \in Seq(T) => chosen[1..k] = step[k][chosen[1..k-1]]
    BY <1>10
  <1>15. Follows(chosen, n, Seq(T), <<>>, step)
    BY <1>9, <1>11 DEF Follows
  <1>12. PICK h \in [0..n -> Seq(T)] : Traces(h, n, <<>>, step) /\ chosen[1..n] = h[n]
    <2>1. HasTrace(chosen, n, Seq(T), <<>>, step)
      <3> HIDE DEF step, n
      <3>. QED  BY <1>1, <1>2, <1>15, FoldTrace
    <2>. QED  BY <2>1 DEF HasTrace
  <1>13. \A k \in 1..n : k - 1 \in 0..n /\ h[k] = step[k][h[k-1]]
    <2> HIDE DEF step
    <2>. QED  BY <1>1, <1>12 DEF Traces
  <1>14. \A k \in 1..n : h[k] = Extended(h[k-1], args[k])
    BY <1>12, <1>13
  <1>. QED  BY <1>0, <1>7, <1>12, <1>14 DEF Traces

(* What stands in front of the other arguments, and they. *)
LEMMA HeadAndTail ==
  ASSUME NEW A, NEW x, x \in A, NEW more, more \in Seq(A)
  PROVE  Tail(<<x>> \o more) = more /\ (<<x>> \o more)[1] = x
  <1> DEFINE one == <<x>>
             all == one \o more
             n == Len(more)
  <1>0. one \in Seq(A) /\ Len(one) = 1 /\ n \in Nat
    OBVIOUS
  <1>9. one[1] = x
    OBVIOUS
  <1> HIDE DEF one
  <1>1. all \in Seq(A) /\ Len(all) = Len(one) + n
        /\ \A i \in 1..Len(one) + n : all[i] = IF i <= Len(one) THEN one[i] ELSE more[i - Len(one)]
    BY <1>0, ConcatProperties
  <1> HIDE DEF all, n
  <1>10. Len(all) = n + 1 /\ \A i \in 1..n + 1 : all[i] = IF i <= 1 THEN one[i] ELSE more[i - 1]
    BY <1>0, <1>1
  <1>7. all[1] = one[1]
    BY <1>0, <1>10
  <1>2. ASSUME NEW i \in 1..n PROVE all[i + 1] = more[i]
    <2>1. i + 1 \in 1..n + 1 /\ ~(i + 1 <= 1) /\ (i + 1) - 1 = i
      BY <1>0
    <2>. QED  BY <1>10, <2>1
  <1>3. all # <<>>
    <2>1. Len(all) # 0
      BY <1>0, <1>10
    <2>. QED  BY <2>1
  <1>8. Len(Tail(all)) = Len(all) - 1 /\ Tail(all) \in Seq(A)
        /\ \A i \in 1..Len(Tail(all)) : Tail(all)[i] = all[i + 1]
    BY <1>1, <1>3, HeadTailProperties
  <1> DEFINE rest == Tail(all)
  <1> HIDE DEF rest
  <1>4. rest \in Seq(A) /\ Len(rest) = n
    BY <1>0, <1>10, <1>8 DEF rest
  <1>6. \A i \in 1..n : rest[i] = more[i]
    BY <1>2, <1>4, <1>8 DEF rest
  <1>5. rest = more
    BY <1>4, <1>6, SeqEqual DEF n
  <1>. QED  BY <1>7, <1>9, <1>5 DEF rest, all, one

(* The arguments behind the name, one more at a time. *)
LEMMA ArgumentsNext ==
  ASSUME NEW T, NEW args, args \in Seq(Seq(T)), NEW k \in 1..Len(args) - 1
  PROVE  /\ SubSeq(args, 2, k) \in Seq(Seq(T)) /\ k + 1 \in 1..Len(args) /\ args[k + 1] \in Seq(T)
         /\ Append(SubSeq(args, 2, k), args[k + 1]) = SubSeq(args, 2, k + 1)
  <1> DEFINE A == Seq(T)
  <1>0. args \in Seq(A)
    OBVIOUS
  <1> HIDE DEF A
  <1>1. k + 1 \in 1..Len(args) /\ 2 \in 1..Len(args) /\ (k + 1) - 1 = k /\ k + 1 \in 2..Len(args)
    BY <1>0
  <1>2. SubSeq(args, 2, k + 1) = SubSeq(args, 2, (k + 1) - 1) \o <<args[k + 1]>>
    BY <1>0, <1>1, SubSeqRecursiveSecond
  <1>3. SubSeq(args, 2, k) \in Seq(A) /\ args[k + 1] \in A
    BY <1>0, <1>1
  <1> DEFINE u == SubSeq(args, 2, k)
  <1> HIDE DEF u
  <1>4. Append(u, args[k + 1]) = u \o <<args[k + 1]>>
    BY <1>3, AppendIsConcat DEF u
  <1>. QED  BY <1>1, <1>2, <1>3, <1>4 DEF u, A

(* A child reads the arguments it was given: all but the name as they were, *)
(* and the name, if there is no quote in it, and no backslash at the end of *)
(* one with a blank.                                                        *)
ReadBack(args, argv) ==
  /\ Tail(argv) = Tail(args)
  /\ ~(Blank \in ToSet(args[1]) /\ Last(args[1]) = Backslash) => argv[1] = args[1]

(* The line of join_arguments is read back. *)
LEMMA JoinIsRead ==
  ASSUME NEW T, NEW args, args \in Seq(Seq(T)), args # <<>>, Mark \notin ToSet(args[1]),
         Mark \in T, Backslash \in T, Blank \in T
  PROVE  ReadBack(args, Argv(JoinArguments(args)))
  <1> DEFINE n == Len(args)
             line == JoinArguments(args)
             text == Append(line, Blank)
             First == Naming(<<>>, FALSE)
             name == args[1]
  <1>1. n \in Nat /\ n >= 1 /\ 1 \in 1..n /\ name \in Seq(T) /\ <<Blank>> \in Seq(T)
    OBVIOUS
  <1>2. PICK x \in Seq(T) :
          /\ Reads(First, Piece(name) \o <<Blank>>, Arguing(x, <<>>, <<>>, FALSE, 0, FALSE))
          /\ ~(Blank \in ToSet(name) /\ Last(name) = Backslash) => x = name
    BY <1>1, NameReads
  <1> DEFINE At(k) == Arguing(x, SubSeq(args, 2, k), <<>>, FALSE, 0, FALSE)
  <1>3. PICK h \in [0..n -> Seq(T)] :
          /\ h[0] = <<>>
          /\ \A k \in 1..n : h[k] = Extended(h[k-1], args[k])
          /\ line = h[n]
    BY JoinSteps
  <1> DEFINE S == {k \in 0..n : k # 0 => /\ h[k] \in Seq(T) /\ h[k] # <<>>
                                         /\ Reads(First, h[k] \o <<Blank>>, At(k))}
  <1> HIDE DEF line, First
  <1>4. 0 \in S
    BY <1>1
  <1>5. ASSUME NEW k \in 0..n - 1, k \in S PROVE k + 1 \in S
    <2>1. k + 1 \in 1..n /\ (k + 1) - 1 = k /\ k \in 0..n /\ k + 1 \in 0..n
      BY <1>1
    <2>6. h[k + 1] = Extended(h[k], args[k + 1])
      BY <1>3, <2>1
    <2>7. h[k] \in Seq(T)
      BY <2>1
    <2>8. args[k + 1] \in Seq(T)
      BY <2>1
    <2>3. /\ h[k + 1] \in Seq(T) /\ h[k + 1] # <<>>
          /\ h[k] = <<>> => h[k + 1] = Piece(args[k + 1])
          /\ h[k] # <<>> => h[k + 1] \o <<Blank>> = (h[k] \o <<Blank>>) \o (Piece(args[k + 1]) \o <<Blank>>)
      <3> DEFINE r == h[k]
                 a == args[k + 1]
      <3>1. h[k + 1] = Extended(r, a) /\ r \in Seq(T) /\ a \in Seq(T)
        BY <2>6, <2>7, <2>8
      <3> HIDE DEF r, a
      <3>2. /\ Extended(r, a) \in Seq(T) /\ Extended(r, a) # <<>>
            /\ r = <<>> => Extended(r, a) = Piece(a)
            /\ r # <<>> => Extended(r, a) \o <<Blank>> = (r \o <<Blank>>) \o (Piece(a) \o <<Blank>>)
        BY <3>1, ExtendedStays
      <3>. QED  BY <3>1, <3>2 DEF r, a
    <2>4. CASE k = 0
      <3>1. SubSeq(args, 2, 1) = <<>>
        OBVIOUS
      <3>2. h[1] = Piece(name)
        BY <1>3, <2>3, <2>4
      <3>3. Reads(First, h[1] \o <<Blank>>, At(1))
        BY <1>2, <3>1, <3>2 DEF First
      <3>4. k + 1 = 1
        BY <2>4
      <3>. QED  BY <2>1, <2>3, <3>3, <3>4
    <2>5. CASE k # 0
      <3> DEFINE as == SubSeq(args, 2, k)
                 arg == args[k + 1]
                 p == Piece(arg) \o <<Blank>>
                 t == h[k] \o <<Blank>>
      <3>1. /\ as \in Seq(Seq(T)) /\ arg \in Seq(T)
            /\ Append(as, arg) = SubSeq(args, 2, k + 1)
        <4>1. k \in 1..Len(args) - 1
          BY <1>1, <2>5
        <4>. QED  BY <4>1, ArgumentsNext
      <3>2. /\ Piece(arg) \in Seq(T)
            /\ Reads(Arguing(x, as, <<>>, FALSE, 0, FALSE), p,
                     Arguing(x, Append(as, arg), <<>>, FALSE, 0, FALSE))
        <4> HIDE DEF as, arg
        <4>. QED  BY <3>1, PieceReads
      <3>3. p \in Seq(T) /\ t \in Seq(T)
        <4> DEFINE q == Piece(arg)
        <4>1. q \in Seq(T)
          BY <3>2
        <4> HIDE DEF q
        <4>2. q \o <<Blank>> \in Seq(T)
          BY <1>1, <4>1
        <4>3. t \in Seq(T)
          BY <1>1, <2>7
        <4>. QED  BY <4>2, <4>3 DEF q
      <3>4. h[k] # <<>> /\ Reads(First, t, At(k))
        BY <1>5, <2>5
      <3>5. Reads(At(k), p, At(k + 1))
        BY <3>1, <3>2
      <3>6. h[k + 1] \o <<Blank>> = t \o p
        BY <2>3, <3>4
      <3> HIDE DEF At, p, t
      <3>7. Reads(First, t \o p, At(k + 1))
        BY <3>3, <3>4, <3>5, ReadsOn
      <3>. QED  BY <2>1, <2>3, <3>6, <3>7
    <2>. QED  BY <2>4, <2>5
  <1>6. n \in S
    <2> HIDE DEF S
    <2>1. \A k \in 0..n - 1 : k \in S => k + 1 \in S
      BY <1>5
    <2> HIDE DEF n
    <2>2. \A k \in 0..n : k \in S
      BY <1>1, <1>4, <2>1, Induction
    <2>. QED  BY <1>1, <2>2
  <1>7. /\ line \in Seq(T) /\ text = line \o <<Blank>> /\ text \in Seq(T)
        /\ Reads(First, text, At(n))
    <2>1. line \in Seq(T) /\ Reads(First, line \o <<Blank>>, At(n))
      <3>1. n \in 0..n /\ n # 0
        BY <1>1
      <3>2. n # 0 => h[n] \in Seq(T) /\ Reads(First, h[n] \o <<Blank>>, At(n))
        <4> HIDE DEF At
        <4>. QED  BY <1>6
      <3> HIDE DEF At
      <3>. QED  BY <1>3, <3>1, <3>2
    <2>2. text = line \o <<Blank>> /\ text \in Seq(T)
      BY <2>1, AppendIsConcat
    <2>. QED  BY <2>1, <2>2
  <1>8. PICK g \in [0..Len(text) -> ArgvStates(T)] :
          /\ g[0] = Naming(<<>>, FALSE)
          /\ \A k \in 1..Len(text) : g[k] = ReadChar(g[k-1], text[k])
          /\ text = Append(line, Blank) => Argv(line) = <<g[Len(text)].name>> \o g[Len(text)].args
    <2>1. text \in Seq(T)
      BY <1>7
    <2> HIDE DEF text
    <2>2. ArgvRuns(T, line, text)
      BY <2>1, ArgvSteps
    <2>. QED  BY <2>2 DEF ArgvRuns
  <1>9. g[Len(text)] = At(n)
    <2> HIDE DEF text, At
    <2>1. Len(text) \in Nat /\ 0 \in Nat /\ 0 + Len(text) = Len(text) /\ \A i \in Nat : 0 + i = i
      BY <1>7
    <2>2. Runs(g, 0, First, text)
      <3>1. \A i \in 1..Len(text) : 0 + i = i /\ 0 + i - 1 = i - 1
        BY <2>1
      <3>. QED  BY <1>8, <3>1 DEF Runs, First
    <2>3. g[0 + Len(text)] = At(n)
      BY <1>7, <2>1, <2>2 DEF Reads
    <2>. QED  BY <2>1, <2>3
  <1> DEFINE as == SubSeq(args, 2, n)
  <1>10. Argv(line) = <<x>> \o as
    <2>1. At(n).name = x /\ At(n).args = as
      BY DEF Arguing
    <2>2. Argv(line) = <<g[Len(text)].name>> \o g[Len(text)].args
      BY <1>8
    <2> HIDE DEF At, as, text
    <2>. QED  BY <1>9, <2>1, <2>2
  <1>11. as \in Seq(Seq(T)) /\ Tail(args) = as
    <2> DEFINE A == Seq(T)
    <2>1. args \in Seq(A)
      OBVIOUS
    <2> HIDE DEF A
    <2>2. as \in Seq(A)
      BY <1>1, <2>1
    <2>3. Tail(args) = as
      BY <2>1, TailIsSubSeq
    <2>. QED  BY <2>2, <2>3 DEF A
  <1> HIDE DEF as
  <1>12. Tail(Argv(line)) = as /\ Argv(line)[1] = x
    <2> DEFINE A == Seq(T)
    <2>1. x \in A /\ as \in Seq(A)
      BY <1>11
    <2> HIDE DEF A
    <2>2. Tail(<<x>> \o as) = as /\ (<<x>> \o as)[1] = x
      BY <2>1, HeadAndTail
    <2>. QED  BY <1>10, <2>2
  <1>. QED  BY <1>2, <1>11, <1>12 DEF ReadBack, line

-----------------------------------------------------------------------------
(* The arguments of a process reach it, and the shell gets the directory,   *)
(* whatever they are made of and however many there are.                    *)
THEOREM ArgumentsCorrect == Spec => []QuotedIsRead
  <1>1. Init => QuotedIsRead
    BY DEF Init, QuotedIsRead
  <1>2. OpenArguments => QuotedIsRead'
    <2> SUFFICES ASSUME OpenArguments PROVE QuotedIsRead'
      OBVIOUS
    <2>1. PICK args \in Arguments : Called("join", args, JoinArguments(args))
      BY DEF OpenArguments
    <2>2. call' = "join" /\ given' = args /\ result' = JoinArguments(args)
      BY <2>1 DEF Called
    <2> DEFINE U == UNION {ToSet(a) : a \in ToSet(args)}
               T == U \cup {Mark, Backslash, Blank}
    <2>3. args \in Seq(Seq(U)) /\ args # <<>>
      BY AlgorithmsAssumption
    <2> HIDE DEF U
    <2>4. args \in Seq(Seq(T)) /\ Mark \in T /\ Backslash \in T /\ Blank \in T
      <3>1. \A a \in Seq(U) : a \in Seq(T)
        OBVIOUS
      <3> HIDE DEF T
      <3>2. \A i \in 1..Len(args) : args[i] \in Seq(T)
        BY <2>3, <3>1
      <3>3. args \in Seq(Seq(T))
        BY <2>3, <3>2
      <3>. QED  BY <3>3 DEF T
    <2> HIDE DEF T
    <2>5. Mark \notin ToSet(args[1]) => ReadBack(args, Argv(JoinArguments(args)))
      BY <2>3, <2>4, JoinIsRead
    <2>. QED  BY <2>2, <2>5 DEF QuotedIsRead, ReadBack
  <1>3. OpenIn => QuotedIsRead'
    <2> SUFFICES ASSUME OpenIn PROVE QuotedIsRead'
      OBVIOUS
    <2>1. PICK path \in Paths : Called("cd", path, CdPath(path))
      BY DEF OpenIn
    <2>2. call' = "cd" /\ given' = path /\ result' = CdPath(path)
      BY <2>1 DEF Called
    <2>3. path \in Seq(ToSet(path))
      BY AlgorithmsAssumption
    <2>4. Word(CdPath(path)) = path
      BY <2>3, CdIsRead
    <2>. QED  BY <2>2, <2>4 DEF QuotedIsRead
  <1>4. Next /\ ~OpenArguments /\ ~OpenIn => QuotedIsRead'
    BY DEF Next, QuotedIsRead, Called, ParseLine, CombineAndParse, WriteList, InsertJsonInto,
       ReadImage,
           LookForSection, StringReplaceAllTemplates, StringSplit, Execute, SearchPath,
           Receive, ReceiveNothing, ComputeCrc
  <1>5. QuotedIsRead /\ UNCHANGED vars => QuotedIsRead'
    BY DEF vars, QuotedIsRead
  <1>. QED  BY <1>1, <1>2, <1>3, <1>4, <1>5, PTL DEF Spec
=============================================================================
