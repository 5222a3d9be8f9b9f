--------------------------- MODULE SourcesProofs ---------------------------
(***************************************************************************)
(* Proofs about FilteredWorkspace and SourceResolution, for any files,     *)
(* folders and lists of folders, and any number of overlapping refreshes.  *)
(*                                                                         *)
(* Most of it is about unmarkFolder, which promotes what stays marked      *)
(* beside the way from a folder up to the top-level one, and calls itself  *)
(* for the folders that lose their names to it.  Shape, Names1, Names2 and *)
(* UpTo say what its marks are at every moment, Held what has become of    *)
(* the files; Size bounds how deep the calls go.                           *)
(***************************************************************************)
EXTENDS SourceResolution, FiniteSetTheorems, WellFoundedInduction, TLAPS

-----------------------------------------------------------------------------
(* Induction.  The sets are those of the numbers that have a property,     *)
(* since a property cannot be a parameter of a lemma that provers apply.   *)

\* A set of numbers that is not empty has a least one: the intervals below its members are
\* finite, and one of them contains no other.
LEMMA LeastNumber ==
    ASSUME NEW P \in SUBSET Nat, P # {}
    PROVE  \E p \in P : \A q \in P : p <= q
<1> DEFINE T == {0..p : p \in P}
<1>1. \A p \in P : 0..p \in FiniteSubsetsOf(Nat)
  <2> SUFFICES ASSUME NEW p \in P PROVE 0..p \in FiniteSubsetsOf(Nat)
    OBVIOUS
  <2>1. IsFiniteSet(0..p)
    BY FS_Interval
  <2>2. 0..p \in SUBSET Nat
    OBVIOUS
  <2> QED BY <2>1, <2>2 DEF FiniteSubsetsOf
<1>2. T \subseteq FiniteSubsetsOf(Nat) /\ T # {}
  BY <1>1
<1>3. PICK I \in T : \A J \in T : ~ (<<J, I>> \in StrictSubsetOrdering(Nat))
  <2> HIDE DEF T
  <2> QED BY <1>2, FS_StrictSubsetOrderingWellFounded, WFMin
<1>4. PICK p \in P : I = 0..p
  BY <1>3
<1>5. ASSUME NEW q \in P, q < p PROVE FALSE
  <2>1. ~ (<<0..q, 0..p>> \in StrictSubsetOrdering(Nat))
    BY <1>3, <1>4
  <2>2. 0..q \in SUBSET Nat /\ 0..p \in SUBSET Nat
    OBVIOUS
  <2>3. ~(0..q \subseteq 0..p /\ 0..q # 0..p)
    BY <2>1, <2>2 DEF StrictSubsetOrdering
  <2>4. p \in 0..p /\ p \notin 0..q /\ 0..q \subseteq 0..p
    BY <1>5
  <2> QED BY <2>3, <2>4
<1> QED BY <1>5

\* A set that has 0 and with every number the next one has all numbers.
LEMMA Induction ==
    ASSUME NEW T, 0 \in T, \A n \in Nat : n \in T => n + 1 \in T
    PROVE  \A n \in Nat : n \in T
<1> SUFFICES ASSUME Nat \ T # {} PROVE FALSE
  OBVIOUS
<1>1. PICK p \in Nat \ T : \A q \in Nat \ T : p <= q
  BY LeastNumber
<1>2. p # 0 /\ p - 1 \in Nat /\ ~(p <= p - 1)
  BY <1>1
<1>3. p - 1 \in T
  BY <1>1, <1>2
<1> QED BY <1>1, <1>2, <1>3

\* A step can be repeated: there is the sequence of what it makes of a first value.
Repeats(f, S, base, step) ==
    /\ f \in [Nat -> S] /\ f[0] = base
    /\ \A n \in Nat : f[n + 1] = step[<<n, f[n]>>]

\* For every first value and every step, such a sequence exists.
LEMMA Iteration ==
    ASSUME NEW S, NEW base \in S, NEW step \in [Nat \X S -> S]
    PROVE  \E f : Repeats(f, S, base, step)
<1> DEFINE Follows(g, n) == /\ g[0] = base
                            /\ \A i \in 0..(n - 1) : g[i + 1] = step[<<i, g[i]>>]
           Starts == {n \in Nat : \E g \in [0..n -> S] : Follows(g, n)}
<1>1. 0 \in Starts
  <2>1. [i \in 0..0 |-> base] \in [0..0 -> S] /\ Follows([i \in 0..0 |-> base], 0)
    OBVIOUS
  <2> QED BY <2>1
<1>2. ASSUME NEW n \in Nat, n \in Starts PROVE n + 1 \in Starts
  <2>1. PICK g \in [0..n -> S] : Follows(g, n)
    BY <1>2
  <2> DEFINE h == [i \in 0..(n + 1) |-> IF i = n + 1 THEN step[<<n, g[n]>>] ELSE g[i]]
  <2>2. <<n, g[n]>> \in Nat \X S
    OBVIOUS
  <2>3. h \in [0..(n + 1) -> S]
    BY <2>2
  <2>4. h[0] = base
    BY <2>1
  <2>5. ASSUME NEW i \in 0..n PROVE h[i + 1] = step[<<i, h[i]>>]
    <3>1. CASE i = n
      <4>1. n \in 0..(n + 1) /\ n + 1 \in 0..(n + 1) /\ n # n + 1
        OBVIOUS
      <4> QED BY <3>1, <4>1
    <3>2. CASE i # n
      <4>1. i \in 0..(n - 1) /\ i \in 0..(n + 1) /\ i + 1 \in 0..(n + 1)
        BY <3>2
      <4>2. i + 1 # n + 1 /\ i # n + 1
        BY <3>2
      <4>3. g[i + 1] = step[<<i, g[i]>>]
        BY <2>1, <4>1
      <4>4. h[i + 1] = g[i + 1] /\ h[i] = g[i]
        BY <4>1, <4>2
      <4> QED BY <4>3, <4>4
    <3> QED BY <3>1, <3>2
  <2>6. 0..((n + 1) - 1) = 0..n
    OBVIOUS
  <2> HIDE DEF h
  <2>7. Follows(h, n + 1)
    BY <2>4, <2>5, <2>6
  <2> QED BY <2>3, <2>7
<1>3. \A n \in Nat : n \in Starts
  <2> HIDE DEF Starts
  <2> QED BY <1>1, <1>2, Induction
<1> DEFINE G(n) == CHOOSE g \in [0..n -> S] : Follows(g, n)
<1>4. ASSUME NEW n \in Nat PROVE G(n) \in [0..n -> S] /\ Follows(G(n), n)
  <2>1. \E g \in [0..n -> S] : Follows(g, n)
    BY <1>3
  <2> HIDE DEF Follows
  <2> QED BY <2>1
<1>5. ASSUME NEW n \in Nat, NEW m \in Nat, n <= m PROVE G(n)[n] = G(m)[n]
  <2> USE <1>5
  <2> DEFINE T == {i \in Nat : i <= n => G(n)[i] = G(m)[i]}
  <2>1. /\ G(n) \in [0..n -> S] /\ Follows(G(n), n)
        /\ G(m) \in [0..m -> S] /\ Follows(G(m), m)
    BY <1>4
  <2> HIDE DEF G
  <2>2. 0 \in T
    BY <2>1
  <2>3. ASSUME NEW i \in Nat, i \in T PROVE i + 1 \in T
    <3> SUFFICES ASSUME i + 1 <= n PROVE G(n)[i + 1] = G(m)[i + 1]
      OBVIOUS
    <3>1. i \in 0..(n - 1) /\ i \in 0..(m - 1) /\ i <= n
      BY <1>5
    <3>2. G(n)[i + 1] = step[<<i, G(n)[i]>>] /\ G(m)[i + 1] = step[<<i, G(m)[i]>>]
      BY <2>1, <3>1
    <3> QED BY <2>3, <3>1, <3>2
  <2>4. \A i \in Nat : i \in T
    <3> HIDE DEF T
    <3> QED BY <2>2, <2>3, Induction
  <2> QED BY <2>4
<1> DEFINE f == [n \in Nat |-> G(n)[n]]
<1>6. f \in [Nat -> S]
  <2> SUFFICES ASSUME NEW n \in Nat PROVE G(n)[n] \in S
    OBVIOUS
  <2> HIDE DEF G
  <2> QED BY <1>4
<1>7. f[0] = base
  <2> HIDE DEF G
  <2> QED BY <1>4
<1>8. ASSUME NEW n \in Nat PROVE f[n + 1] = step[<<n, f[n]>>]
  <2> n <= n + 1 /\ n + 1 \in Nat
    OBVIOUS
  <2>1. Follows(G(n + 1), n + 1) /\ G(n)[n] = G(n + 1)[n]
    <3> HIDE DEF G, Follows
    <3> QED BY <1>4, <1>5
  <2>2. n \in 0..((n + 1) - 1)
    OBVIOUS
  <2> HIDE DEF G
  <2> QED BY <2>1, <2>2
<1> QED BY <1>6, <1>7, <1>8 DEF Repeats

\* The last of some positions.
LEMMA MaxPosition ==
    ASSUME NEW n \in Nat, NEW s \in SUBSET (1..n), s # {}
    PROVE  Max(s) \in s /\ \A i \in s : i <= Max(s)
<1> DEFINE P == {m \in Nat : n - m \in s}
<1>1. PICK i \in s : TRUE
  OBVIOUS
<1>2. n - i \in P
  OBVIOUS
<1>3. PICK m \in P : \A q \in P : m <= q
  <2>1. P \subseteq Nat
    OBVIOUS
  <2> HIDE DEF P
  <2> QED BY <1>2, <2>1, LeastNumber
<1>4. ASSUME NEW j \in s PROVE j <= n - m
  <2>1. n - j \in P /\ j \in Nat /\ m \in Nat
    OBVIOUS
  <2>2. m <= n - j
    BY <1>3, <2>1
  <2> QED BY <2>1, <2>2
<1>5. n - m \in s
  BY <1>3
<1> QED BY <1>4, <1>5 DEF Max

\* The last of some positions of a sequence is one of them.
LEMMA LastPosition ==
    ASSUME NEW T, NEW seq \in Seq(T), NEW s \in SUBSET (DOMAIN seq), s # {}
    PROVE  Max(s) \in DOMAIN seq /\ seq[Max(s)] \in T
<1>1. DOMAIN seq = 1..Len(seq) /\ Len(seq) \in Nat
  OBVIOUS
<1>2. s \in SUBSET (1..Len(seq)) /\ s # {}
  BY <1>1
<1>3. Max(s) \in s
  BY <1>1, <1>2, MaxPosition
<1> QED BY <1>1, <1>3

\* What FoldLeft is for a step that is a function: the value for each set of positions.
IsFold(g, S, base, seq, F) ==
    /\ g \in [SUBSET (DOMAIN seq) -> S]
    /\ g = [s \in SUBSET (DOMAIN seq) |->
              IF s = {} THEN base ELSE F[<<g[s \ {Max(s)}], seq[Max(s)]>>]]

\* That function exists, by induction over the size of the sets.
LEMMA FoldExists ==
    ASSUME NEW S, NEW T, NEW base \in S, NEW seq \in Seq(T), NEW F \in [S \X T -> S]
    PROVE  \E g : IsFold(g, S, base, seq, F)
<1> DEFINE D == DOMAIN seq
           Next(h) == [s \in SUBSET D |->
                         IF s = {} THEN base ELSE F[<<h[s \ {Max(s)}], seq[Max(s)]>>]]
           H == [SUBSET D -> S]
           step == [p \in Nat \X H |-> Next(p[2])]
<1>1. D = 1..Len(seq) /\ Len(seq) \in Nat
  OBVIOUS
<1>2. ASSUME NEW s \in SUBSET D, s # {}
      PROVE  Max(s) \in s /\ \A i \in s : i <= Max(s)
  BY <1>1, <1>2, MaxPosition
<1>3. ASSUME NEW h \in H PROVE Next(h) \in H
  <2> SUFFICES ASSUME NEW s \in SUBSET D, s # {}
               PROVE  F[<<h[s \ {Max(s)}], seq[Max(s)]>>] \in S
    OBVIOUS
  <2>1. Max(s) \in D /\ s \ {Max(s)} \in SUBSET D
    BY <1>2
  <2>2. seq[Max(s)] \in T
    BY <2>1
  <2>3. h[s \ {Max(s)}] \in S
    BY <2>1
  <2> QED BY <2>2, <2>3
<1>4. step \in [Nat \X H -> H]
  <2> HIDE DEF H, Next
  <2> QED BY <1>3
<1> DEFINE first == [s \in SUBSET D |-> base]
<1>5. first \in H
  OBVIOUS
<1>6. PICK f : Repeats(f, H, first, step)
  <2> HIDE DEF H, step, first
  <2> QED BY <1>4, <1>5, Iteration
<1>7. \A n \in Nat : f[n] \in H /\ f[n + 1] = Next(f[n])
  <2> HIDE DEF H, Next
  <2> QED BY <1>6 DEF Repeats
<1> DEFINE Settled == {k \in Nat : \A s \in SUBSET D : s \subseteq 1..k => f[k + 2][s] = f[k + 1][s]}
<1>8. 0 \in Settled
  <2> SUFFICES f[2][{}] = f[1][{}]
    <3>1. \A s : s \subseteq 1..0 => s = {}
      OBVIOUS
    <3>2. 0 + 2 = 2 /\ 0 + 1 = 1
      OBVIOUS
    <3> QED BY <3>1, <3>2
  <2>1. f[1] = Next(f[0]) /\ f[2] = Next(f[1])
    <3> HIDE DEF Next
    <3> QED BY <1>7
  <2> QED BY <2>1
<1>9. ASSUME NEW k \in Nat, k \in Settled PROVE k + 1 \in Settled
  <2> SUFFICES ASSUME NEW s \in SUBSET D, s \subseteq 1..(k + 1)
               PROVE  f[(k + 1) + 2][s] = f[(k + 1) + 1][s]
    OBVIOUS
  <2>1. f[(k + 1) + 2] = Next(f[k + 2]) /\ f[(k + 1) + 1] = Next(f[k + 1])
    <3>1. (k + 1) + 2 = (k + 2) + 1
      OBVIOUS
    <3> HIDE DEF Next
    <3> QED BY <1>7, <3>1
  <2>2. CASE s = {}
    BY <2>1, <2>2
  <2>3. CASE s # {}
    <3> DEFINE r == s \ {Max(s)}
    <3>1. r \in SUBSET D /\ r \subseteq 1..k
      <4>1. Max(s) \in s /\ \A i \in s : i <= Max(s)
        BY <1>2, <2>3
      <4>2. ASSUME NEW i \in r PROVE i \in 1..k
        BY <4>1
      <4> QED BY <4>2
    <3>2. f[k + 2][r] = f[k + 1][r]
      BY <1>9, <3>1
    <3>3. \A h : Next(h)[s] = F[<<h[r], seq[Max(s)]>>]
      BY <2>3
    <3> HIDE DEF Next, r
    <3> QED BY <2>1, <3>2, <3>3
  <2> QED BY <2>2, <2>3
<1>10. \A k \in Nat : k \in Settled
  <2> HIDE DEF Settled
  <2> QED BY <1>8, <1>9, Induction
<1> DEFINE g == f[Len(seq) + 1]
<1>11. g \in H /\ f[Len(seq) + 2] = Next(g) /\ f[Len(seq) + 2] \in H
  <2>1. Len(seq) + 2 = (Len(seq) + 1) + 1
    BY <1>1
  <2> HIDE DEF H, Next
  <2> QED BY <1>1, <1>7, <2>1
<1>12. \A s \in SUBSET D : f[Len(seq) + 2][s] = g[s]
  BY <1>1, <1>10
<1>13. g = Next(g)
  <2> HIDE DEF g, Next
  <2> QED BY <1>11, <1>12
<1> QED BY <1>11, <1>13 DEF IsFold

\* The positions up to one of them, and the ones before it.
LEMMA Positions ==
    ASSUME NEW T, NEW seq \in Seq(T), NEW i \in 1..Len(seq)
    PROVE  /\ 1..i \in SUBSET (DOMAIN seq) /\ 1..i # {} /\ Max(1..i) = i
           /\ (1..i) \ {i} = 1..(i - 1) /\ 1..(i - 1) \in SUBSET (DOMAIN seq)
<1>1. i \in 1..i /\ \A j \in 1..i : j <= i
  OBVIOUS
<1>2. \A x \in 1..i : (\A j \in 1..i : j <= x) => x = i
  BY <1>1
<1>3. Max(1..i) = i
  BY <1>1, <1>2 DEF Max
<1>4. (1..i) \ {i} = 1..(i - 1) /\ 1..i \subseteq DOMAIN seq /\ 1..(i - 1) \subseteq DOMAIN seq
  OBVIOUS
<1> QED BY <1>1, <1>3, <1>4

\* What a fold ends in, when there is for every position the set of what it may have
\* reached by then.
Reaches(P, S, seq, F) ==
    /\ P \in [0..Len(seq) -> SUBSET S]
    /\ \A i \in 1..Len(seq) : \A v \in P[i - 1] : F[<<v, seq[i]>>] \in P[i]
Folds(iter, S, base, seq, F) ==
    /\ iter[{}] = base
    /\ \A s \in SUBSET (DOMAIN seq) : s # {} /\ iter[s \ {Max(s)}] \in S
          => iter[s] = F[<<iter[s \ {Max(s)}], seq[Max(s)]>>]

\* A fold that is in P[i] after i elements ends in the last of the sets.
LEMMA FoldReaches ==
    ASSUME NEW S, NEW T, NEW base, NEW seq \in Seq(T), NEW F, NEW P, NEW iter,
           Folds(iter, S, base, seq, F), Reaches(P, S, seq, F), base \in P[0]
    PROVE  iter[DOMAIN seq] \in P[Len(seq)]
<1> DEFINE N == {i \in Nat : i <= Len(seq) => iter[1..i] \in P[i]}
<1>1. 0 \in N
  <2>1. 1..0 = {}
    OBVIOUS
  <2> QED BY <2>1 DEF Folds
<1>2. ASSUME NEW i \in Nat, i \in N PROVE i + 1 \in N
  <2> SUFFICES ASSUME i + 1 <= Len(seq) PROVE iter[1..(i + 1)] \in P[i + 1]
    OBVIOUS
  <2>1. i + 1 \in 1..Len(seq) /\ (i + 1) - 1 = i /\ i <= Len(seq) /\ i \in 0..Len(seq)
    OBVIOUS
  <2>2. iter[1..i] \in P[i] /\ P[i] \subseteq S
    BY <1>2, <2>1 DEF Reaches
  <2>3. /\ 1..(i + 1) \in SUBSET (DOMAIN seq) /\ 1..(i + 1) # {}
        /\ Max(1..(i + 1)) = i + 1 /\ (1..(i + 1)) \ {i + 1} = 1..i
    BY <2>1, Positions
  <2>4. iter[1..(i + 1)] = F[<<iter[1..i], seq[i + 1]>>]
    BY <2>2, <2>3 DEF Folds
  <2> QED BY <2>1, <2>2, <2>4 DEF Reaches
<1>3. \A i \in Nat : i \in N
  <2> HIDE DEF N
  <2> QED BY <1>1, <1>2, Induction
<1> QED BY <1>3

-----------------------------------------------------------------------------
(* URIs.                                                                   *)

Names == Segments \cup UNION {Range(f) : f \in Files}
Uris == Seq(Names)

\* A URI is under another when it has the same segments as far as that one goes.
LEMMA UnderIs ==
    ASSUME NEW u \in Uris, NEW v \in Uris
    PROVE  Under(u, v) <=> Len(v) <= Len(u) /\ \A i \in 1..Len(v) : u[i] = v[i]
<1>1. SubSeq(v, 1, Len(v)) = v
  BY DEF Uris
<1>2. ASSUME Len(v) <= Len(u)
      PROVE  SubSeq(u, 1, Len(v)) \in Uris /\ Len(SubSeq(u, 1, Len(v))) = Len(v)
             /\ \A i \in 1..Len(v) : SubSeq(u, 1, Len(v))[i] = u[i]
  BY <1>2 DEF Uris
<1>3. ASSUME Len(v) <= Len(u), \A i \in 1..Len(v) : u[i] = v[i]
      PROVE  SubSeq(u, 1, Len(v)) = v
  BY <1>2, <1>3 DEF Uris
<1> QED BY <1>1, <1>2, <1>3 DEF Under, IsPrefix

\* Under is a partial order in which what is above a URI is a chain.
LEMMA UnderOrder ==
    ASSUME NEW u \in Uris, NEW v \in Uris, NEW x \in Uris
    PROVE  /\ Under(u, u) /\ Under(u, <<>>)
           /\ Under(u, v) /\ Under(v, u) => u = v
           /\ Under(u, v) /\ Under(v, x) => Under(u, x)
           /\ Under(u, v) /\ Under(u, x) => Under(v, x) \/ Under(x, v)
           /\ Under(u, v) => Len(v) <= Len(u)
           /\ Under(u, v) /\ Len(v) = Len(u) => u = v
<1>1. Len(u) \in Nat /\ Len(v) \in Nat /\ Len(x) \in Nat /\ <<>> \in Uris
  BY DEF Uris
<1>2. ASSUME Under(u, v), Len(v) = Len(u) PROVE u = v
  BY <1>2, UnderIs DEF Uris
<1>3. Under(u, u) /\ Under(u, <<>>)
  BY <1>1, UnderIs
<1>4. Under(u, v) => Len(v) <= Len(u)
  BY UnderIs
<1>5. Under(u, v) /\ Under(v, u) => u = v
  BY <1>1, <1>2, UnderIs
<1>6. Under(u, v) /\ Under(v, x) => Under(u, x)
  BY <1>1, UnderIs
<1>7. Under(u, v) /\ Under(u, x) => Under(v, x) \/ Under(x, v)
  BY <1>1, UnderIs
<1> QED BY <1>2, <1>3, <1>4, <1>5, <1>6, <1>7

\* The URIs above one.
LEMMA AboveIs ==
    ASSUME NEW u \in Uris
    PROVE  \A v : v \in Above(u) <=> v \in Uris /\ 0 < Len(v) /\ Len(v) < Len(u) /\ Under(u, v)
<1>1. Len(u) \in Nat
  BY DEF Uris
<1>2. ASSUME NEW n \in 1..(Len(u) - 1)
      PROVE  LET v == SubSeq(u, 1, n) IN v \in Uris /\ Len(v) = n /\ Under(u, v)
  <2>1. SubSeq(u, 1, n) \in Uris /\ Len(SubSeq(u, 1, n)) = n /\ n <= Len(u)
        /\ \A i \in 1..n : u[i] = SubSeq(u, 1, n)[i]
    BY <1>1 DEF Uris
  <2> QED BY <2>1, UnderIs
<1>3. ASSUME NEW v \in Uris, 0 < Len(v), Len(v) < Len(u), Under(u, v) PROVE v \in Above(u)
  <2>1. Len(v) \in 1..(Len(u) - 1)
    BY <1>1, <1>3 DEF Uris
  <2>2. Len(SubSeq(u, 1, Len(v))) = Len(v) /\ Under(u, SubSeq(u, 1, Len(v))) /\ SubSeq(u, 1, Len(v)) \in Uris
    BY <1>2, <2>1
  <2>3. SubSeq(u, 1, Len(v)) = v
    <3>1. \A i \in 1..Len(v) : SubSeq(u, 1, Len(v))[i] = v[i]
      BY <2>2, <1>3, UnderIs
    <3> QED BY <2>2, <3>1 DEF Uris
  <2> QED BY <2>1, <2>3 DEF Above
<1>4. ASSUME NEW v \in Above(u) PROVE v \in Uris /\ 0 < Len(v) /\ Len(v) < Len(u) /\ Under(u, v)
  <2>1. PICK n \in 1..(Len(u) - 1) : v = SubSeq(u, 1, n)
    BY DEF Above
  <2> QED BY <1>1, <1>2, <2>1
<1> QED BY <1>3, <1>4

-----------------------------------------------------------------------------
(* The tree.                                                               *)

\* A file has a name that is no segment, in folders whose names are.
LEMMA FilesAre ==
    ASSUME NEW f \in Files
    PROVE  /\ f \in Uris /\ 0 < Len(f) /\ Last(f) \notin Segments
           /\ \A i \in 1..Len(f) : i < Len(f) => f[i] \in Segments
<1>1. f \in Seq(Range(f)) /\ Len(f) > 0 /\ \A i \in 1..Len(f) : f[i] \in Segments <=> i < Len(f)
  BY WorkspaceAssumption
<1>2. Range(f) \subseteq Names
  BY DEF Names
<1>3. f \in Uris
  BY <1>1, <1>2 DEF Uris
<1> QED BY <1>1, <1>3 DEF Last

\* The nodes of a tree, the folders among them, and where they are.
LEMMA TreeIs ==
    ASSUME NEW files \in SUBSET Files
    PROVE  /\ Known(files) \subseteq Uris /\ Folders(files) \subseteq Known(files)
           /\ Folders(files) \subseteq Seq(Segments) /\ Folders(files) \cap Files = {}
           /\ \A n \in Known(files) : 0 < Len(n) /\ (n \in Folders(files) \/ n \in files)
           /\ \A n \in Known(files), a \in Uris :
                 0 < Len(a) /\ Under(n, a) /\ a # n => a \in Folders(files)
           /\ \A n \in Folders(files) : Last(n) \in Segments
<1>1. ASSUME NEW f \in files, NEW a \in Above(f)
      PROVE  a \in Uris /\ 0 < Len(a) /\ Len(a) < Len(f) /\ Under(f, a) /\ a \in Seq(Segments)
  <2>1. f \in Uris /\ \A i \in 1..Len(f) : i < Len(f) => f[i] \in Segments
    BY FilesAre
  <2>2. a \in Uris /\ 0 < Len(a) /\ Len(a) < Len(f) /\ Under(f, a)
    BY <2>1, AboveIs
  <2>3. Len(a) \in Nat /\ Len(f) \in Nat
    BY <2>1, <2>2 DEF Uris
  <2>4. \A i \in 1..Len(a) : a[i] \in Segments
    <3>1. \A i \in 1..Len(a) : f[i] = a[i]
      BY <2>1, <2>2, UnderIs
    <3> QED BY <2>1, <2>2, <2>3, <3>1
  <2>5. a \in Seq(Segments)
    BY <2>2, <2>4 DEF Uris
  <2> QED BY <2>2, <2>5
<1>2. \A f \in files : f \in Uris /\ 0 < Len(f) /\ Last(f) \notin Segments
  BY FilesAre
<1>3. Known(files) \subseteq Uris /\ Folders(files) \subseteq Known(files) /\ Folders(files) \subseteq Seq(Segments)
  BY <1>1, <1>2 DEF Known, Folders
<1>4. \A n \in Known(files) : 0 < Len(n) /\ (n \in Folders(files) \/ n \in files)
  BY <1>1, <1>2 DEF Known, Folders
<1>5. \A n \in Folders(files) : Last(n) \in Segments
  <2> SUFFICES ASSUME NEW n \in Folders(files) PROVE Last(n) \in Segments
    OBVIOUS
  <2>1. n \in Seq(Segments) /\ 0 < Len(n)
    BY <1>3, <1>4
  <2> QED BY <2>1 DEF Last
<1>6. Folders(files) \cap Files = {}
  BY <1>5, FilesAre
<1>7. ASSUME NEW n \in Known(files), NEW a \in Uris, 0 < Len(a), Under(n, a), a # n
      PROVE  a \in Folders(files)
  <2>1. n \in Uris /\ Len(a) < Len(n)
    <3>1. n \in Uris
      BY <1>3
    <3>2. Len(n) \in Nat /\ Len(a) \in Nat
      BY <3>1 DEF Uris
    <3> QED BY <1>7, <3>1, <3>2, UnderOrder
  <2>2. PICK f \in files : n = f \/ n \in Above(f)
    BY DEF Known
  <2>3. f \in Uris /\ Under(f, n) /\ Len(n) <= Len(f)
    <3>1. f \in Uris
      BY <1>2
    <3> QED BY <2>1, <2>2, <3>1, AboveIs, UnderOrder
  <2>4. Under(f, a) /\ Len(a) < Len(f)
    <3>1. Len(n) \in Nat /\ Len(a) \in Nat /\ Len(f) \in Nat
      BY <2>1, <2>3 DEF Uris
    <3> QED BY <1>7, <2>1, <2>3, <3>1, UnderOrder
  <2>5. a \in Above(f)
    BY <1>7, <2>3, <2>4, AboveIs
  <2> QED BY <2>5 DEF Folders
<1> QED BY <1>3, <1>4, <1>5, <1>6, <1>7

\* What a function makes of a finite set is finite.
LEMMA FiniteImage ==
    ASSUME NEW S, IsFiniteSet(S), NEW F, DOMAIN F = S, F = [x \in S |-> F[x]]
    PROVE  IsFiniteSet({F[x] : x \in S})
<1>1. F \in Surjection(S, {F[x] : x \in S})
  BY DEF Surjection
<1> QED BY <1>1, FS_Surjection

\* There are finitely many nodes, so that the depth is a number.
LEMMA KnownFinite ==
    ASSUME NEW files \in SUBSET Files
    PROVE  /\ IsFiniteSet(Known(files)) /\ Depth(files) \in Nat \ {0}
           /\ Known(files) # {} => Depth(files) - 1 \in Nat \ {0}
<1>1. IsFiniteSet(files)
  BY WorkspaceAssumption, FS_Subset
<1>2. ASSUME NEW f \in files PROVE IsFiniteSet(Above(f))
  <2> DEFINE F == [n \in 1..(Len(f) - 1) |-> SubSeq(f, 1, n)]
  <2>1. Len(f) \in Nat
    BY FilesAre DEF Uris
  <2>2. IsFiniteSet(1..(Len(f) - 1))
    BY <2>1, FS_Interval
  <2>3. IsFiniteSet({F[n] : n \in 1..(Len(f) - 1)})
    <3>1. DOMAIN F = 1..(Len(f) - 1) /\ F = [n \in 1..(Len(f) - 1) |-> F[n]]
      OBVIOUS
    <3> HIDE DEF F
    <3> QED BY <2>2, <3>1, FiniteImage
  <2>4. Above(f) = {F[n] : n \in 1..(Len(f) - 1)}
    BY DEF Above
  <2> QED BY <2>3, <2>4
<1>3. IsFiniteSet({Above(f) : f \in files})
  <2> DEFINE F == [f \in files |-> Above(f)]
  <2>1. DOMAIN F = files /\ F = [f \in files |-> F[f]]
    OBVIOUS
  <2>2. {Above(f) : f \in files} = {F[f] : f \in files}
    OBVIOUS
  <2> HIDE DEF F
  <2> QED BY <1>1, <2>1, <2>2, FiniteImage
<1>4. IsFiniteSet(UNION {Above(f) : f \in files})
  <2> DEFINE A == {Above(f) : f \in files}
  <2>1. \A T \in A : IsFiniteSet(T)
    BY <1>2
  <2> HIDE DEF A
  <2>2. IsFiniteSet(UNION A)
    BY <1>3, <2>1, FS_UNION DEF A
  <2> QED BY <2>2 DEF A
<1>5. IsFiniteSet(Known(files))
  BY <1>1, <1>4, FS_Union DEF Known
<1>6. Cardinality(Known(files)) \in Nat /\ (Known(files) # {} => Cardinality(Known(files)) # 0)
  BY <1>5, FS_CardinalityType, FS_EmptySet
<1>7. ASSUME NEW n \in Nat
      PROVE  /\ (n + 1) * (n + 1) \in Nat \ {0}
             /\ n # 0 => (n + 1) * (n + 1) - 1 \in Nat \ {0}
  <2>1. (n + 1) * (n + 1) = n * n + n + n + 1 /\ n * n \in Nat
    OBVIOUS
  <2> QED BY <2>1
<1> QED BY <1>5, <1>6, <1>7 DEF Depth

\* SetToSeq lists all of a finite set.
LEMMA SetToSeqIs ==
    ASSUME NEW S, IsFiniteSet(S)
    PROVE  /\ SetToSeq(S) \in Seq(S)
           /\ \A x \in S : \E i \in 1..Len(SetToSeq(S)) : SetToSeq(S)[i] = x
<1> DEFINE n == Cardinality(S)
<1>1. n \in Nat /\ ExistsBijection(1..n, S)
  BY FS_CardinalityType
<1>2. \E f \in [1..n -> S] : IsInjective(f)
  BY <1>1 DEF ExistsBijection, Bijection, Injection
<1>3. SetToSeq(S) \in [1..n -> S] /\ IsInjective(SetToSeq(S))
  BY <1>2 DEF SetToSeq
<1>4. SetToSeq(S) \in Injection(1..n, S)
  BY <1>3 DEF Injection
<1>5. IsFiniteSet(1..n) /\ Cardinality(1..n) = n
  BY <1>1, FS_Interval
<1>6. SetToSeq(S) \in Surjection(1..n, S)
  BY <1>4, <1>5, FS_Injection
<1>7. Len(SetToSeq(S)) = n /\ SetToSeq(S) \in Seq(S)
  BY <1>1, <1>3
<1> QED BY <1>6, <1>7 DEF Surjection

\* The sequence has all elements of the set.
Enumerates(seq, S) == seq \in Seq(S) /\ \A x \in S : \E i \in 1..Len(seq) : seq[i] = x

\* The sequence of the children of a node has all of them.
LEMMA ChildrenAre ==
    ASSUME NEW files \in SUBSET Files, NEW u
    PROVE  Enumerates(getChildNodes(files, u), {n \in Known(files) : Front(n) = u})
<1> DEFINE S == {n \in Known(files) : Front(n) = u}
<1>1. IsFiniteSet(S)
  BY KnownFinite, FS_Subset
<1> HIDE DEF S
<1>2. /\ SetToSeq(S) \in Seq(S)
      /\ \A x \in S : \E i \in 1..Len(SetToSeq(S)) : SetToSeq(S)[i] = x
  BY <1>1, SetToSeqIs
<1>3. Enumerates(SetToSeq(S), S)
  BY <1>2 DEF Enumerates
<1> QED BY <1>3 DEF S, getChildNodes

\* The ancestors, nearest first.
LEMMA AncestorsAre ==
    ASSUME NEW files \in SUBSET Files, NEW u \in Known(files)
    PROVE  LET A == iterateAncestors(files, u) IN
           /\ Len(A) = Len(u) - 1 /\ A \in Seq(Folders(files))
           /\ \A i \in 1..Len(A) : /\ Len(A[i]) = Len(u) - i /\ Under(u, A[i]) /\ A[i] # u
                                   /\ A[i] = SubSeq(u, 1, Len(u) - i)
<1>1. u \in Uris /\ 0 < Len(u) /\ Len(u) \in Nat
  <2>1. u \in Uris /\ 0 < Len(u)
    BY TreeIs
  <2> QED BY <2>1 DEF Uris
<1> DEFINE A == iterateAncestors(files, u)
<1>2. A = [i \in 1..(Len(u) - 1) |-> SubSeq(u, 1, Len(u) - i)]
  BY DEF iterateAncestors
<1>3. ASSUME NEW i \in 1..(Len(u) - 1)
      PROVE  /\ Len(A[i]) = Len(u) - i /\ Under(u, A[i]) /\ A[i] # u /\ A[i] \in Folders(files)
             /\ A[i] = SubSeq(u, 1, Len(u) - i)
  <2>1. A[i] = SubSeq(u, 1, Len(u) - i) /\ Len(u) - i \in 1..(Len(u) - 1)
    BY <1>1, <1>2
  <2>2. A[i] \in Above(u)
    BY <2>1 DEF Above
  <2>3. A[i] \in Uris /\ 0 < Len(A[i]) /\ Len(A[i]) < Len(u) /\ Under(u, A[i])
    BY <1>1, <2>2, AboveIs
  <2>4. Len(A[i]) = Len(u) - i
    BY <1>1, <2>1 DEF Uris
  <2>5. A[i] \in Folders(files)
    BY <1>1, <2>3, TreeIs
  <2> QED BY <1>1, <2>1, <2>3, <2>4, <2>5
<1>4. Len(A) = Len(u) - 1 /\ A \in Seq(Folders(files))
  <2> HIDE DEF A
  <2>1. A \in [1..(Len(u) - 1) -> Folders(files)]
    BY <1>2, <1>3
  <2> QED BY <1>1, <2>1
<1> QED BY <1>3, <1>4

-----------------------------------------------------------------------------
(* The folds of the model.                                                 *)

\* The three folds of the module, over any sequence.
PromoteAll(unmark, files, w, seq) == FoldLeft(LAMBDA v, c : Promote(unmark, files, v, c), w, seq)
UnmarkAncestors(unmark, files, w, seq) == FoldLeft(LAMBDA v, c : UnmarkAncestor(unmark, files, v, c), w, seq)
Uniques(w, seq) == FoldLeft(LAMBDA v, c : IF Contains(v, c) THEN v ELSE Append(v, c), w, seq)

\* F is the step of the fold, as a function.
PromoteRule(F, unmark, files, S, T) ==
    F \in [S \X T -> S] /\ \A v \in S, c \in T : F[<<v, c>>] = Promote(unmark, files, v, c)

\* FoldReaches for the promotions of children.
LEMMA PromoteFold ==
    ASSUME NEW unmark, NEW files, NEW S, NEW T, NEW w, NEW seq \in Seq(T), NEW P,
           NEW F, PromoteRule(F, unmark, files, S, T),
           Reaches(P, S, seq, F), w \in P[0]
    PROVE  PromoteAll(unmark, files, w, seq) \in P[Len(seq)]
<1> DEFINE op(v, c) == Promote(unmark, files, v, c)
           D == DOMAIN seq
           Body(h) == [s \in SUBSET D |->
                         IF s = {} THEN w ELSE op(h[s \ {Max(s)}], seq[Max(s)])]
           iter == CHOOSE h : h = Body(h)
<1>1. PromoteAll(unmark, files, w, seq) = iter[D]
  BY DEF PromoteAll, FoldLeft, MapThenFoldSet
<1>2. F \in [S \X T -> S] /\ \A v \in S, c \in T : F[<<v, c>>] = op(v, c)
  BY DEF PromoteRule
<1>3. w \in S
  BY DEF Reaches
<1>4. PICK g : IsFold(g, S, w, seq, F)
  BY <1>2, <1>3, FoldExists
<1>5. ASSUME NEW s \in SUBSET D, s # {} PROVE Max(s) \in D /\ seq[Max(s)] \in T
  BY <1>5, LastPosition
<1>6. g = Body(g)
  <2> SUFFICES ASSUME NEW s \in SUBSET D, s # {}
               PROVE  F[<<g[s \ {Max(s)}], seq[Max(s)]>>] = op(g[s \ {Max(s)}], seq[Max(s)])
    BY <1>4 DEF IsFold
  <2> HIDE DEF op
  <2> QED BY <1>2, <1>4, <1>5 DEF IsFold
<1>7. iter = Body(iter)
  <2> HIDE DEF Body
  <2> QED BY <1>6
<1> HIDE DEF iter
<1>8. Folds(iter, S, w, seq, F)
  <2> HIDE DEF op
  <2> QED BY <1>2, <1>5, <1>7 DEF Folds
<1> QED BY <1>1, <1>8, FoldReaches

AncestorRule(F, unmark, files, S, T) ==
    F \in [S \X T -> S] /\ \A v \in S, c \in T : F[<<v, c>>] = UnmarkAncestor(unmark, files, v, c)

\* FoldReaches for the ancestors of a folder that is unmarked.
LEMMA AncestorFold ==
    ASSUME NEW unmark, NEW files, NEW S, NEW T, NEW w, NEW seq \in Seq(T), NEW P,
           NEW F, AncestorRule(F, unmark, files, S, T),
           Reaches(P, S, seq, F), w \in P[0]
    PROVE  UnmarkAncestors(unmark, files, w, seq) \in P[Len(seq)]
<1> DEFINE op(v, c) == UnmarkAncestor(unmark, files, v, c)
           D == DOMAIN seq
           Body(h) == [s \in SUBSET D |->
                         IF s = {} THEN w ELSE op(h[s \ {Max(s)}], seq[Max(s)])]
           iter == CHOOSE h : h = Body(h)
<1>1. UnmarkAncestors(unmark, files, w, seq) = iter[D]
  BY DEF UnmarkAncestors, FoldLeft, MapThenFoldSet
<1>2. F \in [S \X T -> S] /\ \A v \in S, c \in T : F[<<v, c>>] = op(v, c)
  BY DEF AncestorRule
<1>3. w \in S
  BY DEF Reaches
<1>4. PICK g : IsFold(g, S, w, seq, F)
  BY <1>2, <1>3, FoldExists
<1>5. ASSUME NEW s \in SUBSET D, s # {} PROVE Max(s) \in D /\ seq[Max(s)] \in T
  BY <1>5, LastPosition
<1>6. g = Body(g)
  <2> SUFFICES ASSUME NEW s \in SUBSET D, s # {}
               PROVE  F[<<g[s \ {Max(s)}], seq[Max(s)]>>] = op(g[s \ {Max(s)}], seq[Max(s)])
    BY <1>4 DEF IsFold
  <2> HIDE DEF op
  <2> QED BY <1>2, <1>4, <1>5 DEF IsFold
<1>7. iter = Body(iter)
  <2> HIDE DEF Body
  <2> QED BY <1>6
<1> HIDE DEF iter
<1>8. Folds(iter, S, w, seq, F)
  <2> HIDE DEF op
  <2> QED BY <1>2, <1>5, <1>7 DEF Folds
<1> QED BY <1>1, <1>8, FoldReaches

UnmarkRule(F, files, S, T) ==
    F \in [S \X T -> S] /\ \A v \in S, c \in T : F[<<v, c>>] = unmarkFolder(files)[<<v, c>>]

\* FoldReaches for a list of folders to remove.
LEMMA UnmarkFold ==
    ASSUME NEW files, NEW S, NEW T, NEW w, NEW seq \in Seq(T), NEW P,
           NEW F, UnmarkRule(F, files, S, T),
           Reaches(P, S, seq, F), w \in P[0]
    PROVE  UnmarkAll(files, w, seq) \in P[Len(seq)]
<1> DEFINE op(v, c) == unmarkFolder(files)[<<v, c>>]
           D == DOMAIN seq
           Body(h) == [s \in SUBSET D |->
                         IF s = {} THEN w ELSE op(h[s \ {Max(s)}], seq[Max(s)])]
           iter == CHOOSE h : h = Body(h)
<1>1. UnmarkAll(files, w, seq) = iter[D]
  BY DEF UnmarkAll, FoldLeft, MapThenFoldSet
<1>2. F \in [S \X T -> S] /\ \A v \in S, c \in T : F[<<v, c>>] = op(v, c)
  BY DEF UnmarkRule
<1>3. w \in S
  BY DEF Reaches
<1>4. PICK g : IsFold(g, S, w, seq, F)
  BY <1>2, <1>3, FoldExists
<1>5. ASSUME NEW s \in SUBSET D, s # {} PROVE Max(s) \in D /\ seq[Max(s)] \in T
  BY <1>5, LastPosition
<1>6. g = Body(g)
  <2> SUFFICES ASSUME NEW s \in SUBSET D, s # {}
               PROVE  F[<<g[s \ {Max(s)}], seq[Max(s)]>>] = op(g[s \ {Max(s)}], seq[Max(s)])
    BY <1>4 DEF IsFold
  <2> HIDE DEF op
  <2> QED BY <1>2, <1>4, <1>5 DEF IsFold
<1>7. iter = Body(iter)
  <2> HIDE DEF Body
  <2> QED BY <1>6
<1> HIDE DEF iter
<1>8. Folds(iter, S, w, seq, F)
  <2> HIDE DEF op
  <2> QED BY <1>2, <1>5, <1>7 DEF Folds
<1> QED BY <1>1, <1>8, FoldReaches

MarkRule(F, files, S, T) ==
    F \in [S \X T -> S] /\ \A v \in S, c \in T : F[<<v, c>>] = markFolder(files, v, c)

\* FoldReaches for a list of folders to add.
LEMMA MarkFold ==
    ASSUME NEW files, NEW S, NEW T, NEW w, NEW seq \in Seq(T), NEW P,
           NEW F, MarkRule(F, files, S, T),
           Reaches(P, S, seq, F), w \in P[0]
    PROVE  MarkAll(files, w, seq) \in P[Len(seq)]
<1> DEFINE op(v, c) == markFolder(files, v, c)
           D == DOMAIN seq
           Body(h) == [s \in SUBSET D |->
                         IF s = {} THEN w ELSE op(h[s \ {Max(s)}], seq[Max(s)])]
           iter == CHOOSE h : h = Body(h)
<1>1. MarkAll(files, w, seq) = iter[D]
  BY DEF MarkAll, FoldLeft, MapThenFoldSet
<1>2. F \in [S \X T -> S] /\ \A v \in S, c \in T : F[<<v, c>>] = op(v, c)
  BY DEF MarkRule
<1>3. w \in S
  BY DEF Reaches
<1>4. PICK g : IsFold(g, S, w, seq, F)
  BY <1>2, <1>3, FoldExists
<1>5. ASSUME NEW s \in SUBSET D, s # {} PROVE Max(s) \in D /\ seq[Max(s)] \in T
  BY <1>5, LastPosition
<1>6. g = Body(g)
  <2> SUFFICES ASSUME NEW s \in SUBSET D, s # {}
               PROVE  F[<<g[s \ {Max(s)}], seq[Max(s)]>>] = op(g[s \ {Max(s)}], seq[Max(s)])
    BY <1>4 DEF IsFold
  <2> HIDE DEF op
  <2> QED BY <1>2, <1>4, <1>5 DEF IsFold
<1>7. iter = Body(iter)
  <2> HIDE DEF Body
  <2> QED BY <1>6
<1> HIDE DEF iter
<1>8. Folds(iter, S, w, seq, F)
  <2> HIDE DEF op
  <2> QED BY <1>2, <1>5, <1>7 DEF Folds
<1> QED BY <1>1, <1>8, FoldReaches

UniqueRule(F, S, T) ==
    F \in [S \X T -> S] /\ \A v \in S, c \in T : F[<<v, c>>] = (IF Contains(v, c) THEN v ELSE Append(v, c))

\* FoldReaches for a list of folders without duplicates.
LEMMA UniqueFold ==
    ASSUME NEW S, NEW T, NEW w, NEW seq \in Seq(T), NEW P,
           NEW F, UniqueRule(F, S, T),
           Reaches(P, S, seq, F), w \in P[0]
    PROVE  Uniques(w, seq) \in P[Len(seq)]
<1> DEFINE op(v, c) == IF Contains(v, c) THEN v ELSE Append(v, c)
           D == DOMAIN seq
           Body(h) == [s \in SUBSET D |->
                         IF s = {} THEN w ELSE op(h[s \ {Max(s)}], seq[Max(s)])]
           iter == CHOOSE h : h = Body(h)
<1>1. Uniques(w, seq) = iter[D]
  BY DEF Uniques, FoldLeft, MapThenFoldSet
<1>2. F \in [S \X T -> S] /\ \A v \in S, c \in T : F[<<v, c>>] = op(v, c)
  BY DEF UniqueRule
<1>3. w \in S
  BY DEF Reaches
<1>4. PICK g : IsFold(g, S, w, seq, F)
  BY <1>2, <1>3, FoldExists
<1>5. ASSUME NEW s \in SUBSET D, s # {} PROVE Max(s) \in D /\ seq[Max(s)] \in T
  BY <1>5, LastPosition
<1>6. g = Body(g)
  <2> SUFFICES ASSUME NEW s \in SUBSET D, s # {}
               PROVE  F[<<g[s \ {Max(s)}], seq[Max(s)]>>] = op(g[s \ {Max(s)}], seq[Max(s)])
    BY <1>4 DEF IsFold
  <2> HIDE DEF op
  <2> QED BY <1>2, <1>4, <1>5 DEF IsFold
<1>7. iter = Body(iter)
  <2> HIDE DEF Body
  <2> QED BY <1>6
<1> HIDE DEF iter
<1>8. Folds(iter, S, w, seq, F)
  <2> HIDE DEF op
  <2> QED BY <1>2, <1>5, <1>7 DEF Folds
<1> QED BY <1>1, <1>8, FoldReaches

-----------------------------------------------------------------------------
(* What the operations keep: the folders in the map are of the tree, each  *)
(* under its own name.                                                     *)

\* The functions that unmarkFolder is one of.
Unmarkings(files) == [Marks(files) \X Seq(Segments) -> Marks(files)]

\* What stands for no folder is no node.
LEMMA NoUriIsNone == \A files \in SUBSET Files : NoUri \notin Known(files)
BY WorkspaceAssumption DEF Known

\* The members of Marks, field by field.
LEMMA MarksAre ==
    ASSUME NEW files, NEW w
    PROVE  w \in Marks(files) <=>
             /\ w = [marked |-> w.marked, top |-> w.top]
             /\ w.marked \subseteq Known(files)
             /\ w.top \in [Segments -> Folders(files) \cup {NoUri}]
             /\ \A m \in Segments : w.top[m] # NoUri => Last(w.top[m]) = m
BY DEF Marks

\* Making room for a name keeps marks marks.
LEMMA ConflictType ==
    ASSUME NEW files \in SUBSET Files, NEW unmark \in Unmarkings(files), NEW w \in Marks(files),
           NEW u \in Seq(Segments)
    PROVE  unmarkConflictingTopLevelFolder(unmark, w, u) \in Marks(files)
<1>1. getTopLevelModuleName(u) \in Segments
  BY WorkspaceAssumption DEF getTopLevelModuleName, Root, Last
<1>2. w.top[getTopLevelModuleName(u)] \in Folders(files) \cup {NoUri}
  BY <1>1, MarksAre
<1>3. Folders(files) \subseteq Seq(Segments)
  BY TreeIs
<1> QED BY <1>2, <1>3 DEF unmarkConflictingTopLevelFolder, Unmarkings

\* Making a folder top-level keeps marks marks.
LEMMA SetTopType ==
    ASSUME NEW files \in SUBSET Files, NEW w \in Marks(files), NEW u \in Folders(files)
    PROVE  [w EXCEPT !.top[Last(u)] = u] \in Marks(files)
<1>1. Last(u) \in Segments
  BY TreeIs
<1> QED BY <1>1, MarksAre

\* So it does in the form in which markFolder writes it.
LEMMA SetTopRecordType ==
    ASSUME NEW files \in SUBSET Files, NEW w \in Marks(files), NEW u \in Folders(files)
    PROVE  [marked |-> w.marked, top |-> [w.top EXCEPT ![Last(u)] = u]] \in Marks(files)
<1>1. Last(u) \in Segments
  BY TreeIs
<1> QED BY <1>1, MarksAre

\* Taking folders out of the map keeps marks marks.
LEMMA DeleteType ==
    ASSUME NEW files, NEW w \in Marks(files), NEW N, NEW M \in SUBSET Known(files)
    PROVE  [marked |-> M, top |-> deleteExactTopLevel(w.top, N)] \in Marks(files)
BY MarksAre DEF deleteExactTopLevel

\* The promotion of a child keeps marks marks.
LEMMA PromoteType ==
    ASSUME NEW files \in SUBSET Files, NEW unmark \in Unmarkings(files), NEW w \in Marks(files),
           NEW c \in Known(files)
    PROVE  Promote(unmark, files, w, c) \in Marks(files)
<1>1. CASE c \in w.marked /\ c \in Folders(files)
  <2>1. c \in Seq(Segments)
    BY <1>1, TreeIs
  <2>2. unmarkConflictingTopLevelFolder(unmark, w, c) \in Marks(files)
    BY <2>1, ConflictType
  <2> QED BY <1>1, <2>2, SetTopType DEF Promote
<1>2. CASE c \in w.marked /\ c \notin Folders(files)
  BY <1>2, MarksAre DEF Promote
<1> QED BY <1>1, <1>2 DEF Promote

\* A fold that may be anywhere in a set at any time ends in it.
LEMMA SameReaches ==
    ASSUME NEW S, NEW T, NEW seq \in Seq(T), NEW F, \A v \in S, c \in T : F[<<v, c>>] \in S
    PROVE  /\ Reaches([i \in 0..Len(seq) |-> S], S, seq, F)
           /\ [i \in 0..Len(seq) |-> S][0] = S /\ [i \in 0..Len(seq) |-> S][Len(seq)] = S
BY DEF Reaches

\* The promotions of all children of an ancestor keep marks marks.
LEMMA UnmarkAncestorType ==
    ASSUME NEW files \in SUBSET Files, NEW unmark \in Unmarkings(files), NEW w \in Marks(files),
           NEW a \in Known(files)
    PROVE  UnmarkAncestor(unmark, files, w, a) \in Marks(files)
<1> DEFINE S == Marks(files)
           T == {n \in Known(files) : Front(n) = a}
           seq == getChildNodes(files, a)
           base == [marked |-> w.marked \ {a}, top |-> deleteExactTopLevel(w.top, {a})]
           F == [p \in S \X T |-> Promote(unmark, files, p[1], p[2])]
           P == [i \in 0..Len(seq) |-> S]
<1>1. seq \in Seq(T)
  BY ChildrenAre DEF Enumerates
<1>2. \A v \in S, c \in T : Promote(unmark, files, v, c) \in S
  BY PromoteType
<1>3. PromoteRule(F, unmark, files, S, T) /\ \A v \in S, c \in T : F[<<v, c>>] \in S
  BY <1>2 DEF PromoteRule
<1>4. base \in S
  BY DeleteType, MarksAre
<1>5. Reaches(P, S, seq, F) /\ P[0] = S /\ P[Len(seq)] = S
  <2> HIDE DEF S, T, seq, F
  <2> QED BY <1>1, <1>3, SameReaches
<1>6. PromoteAll(unmark, files, base, seq) \in S
  <2>1. base \in P[0]
    BY <1>4, <1>5
  <2> HIDE DEF S, T, seq, base, P, F
  <2>2. PromoteAll(unmark, files, base, seq) \in P[Len(seq)]
    BY <1>1, <1>3, <1>5, <2>1, PromoteFold
  <2> QED BY <1>5, <2>2
<1> QED BY <1>6 DEF UnmarkAncestor, PromoteAll

\* One level of unmarkFolder keeps marks marks, if the levels below do.
LEMMA UnmarkStepType ==
    ASSUME NEW files \in SUBSET Files, NEW unmark \in Unmarkings(files), NEW w \in Marks(files),
           NEW u
    PROVE  UnmarkStep(unmark, files, w, u) \in Marks(files)
<1> DEFINE S == Marks(files)
           T == Known(files)
           seq == iterateAncestors(files, u)
           below == iterateNodeTree(files, u)
           base == [marked |-> w.marked \ below, top |-> deleteExactTopLevel(w.top, below)]
           F == [p \in S \X T |-> UnmarkAncestor(unmark, files, p[1], p[2])]
           P == [i \in 0..Len(seq) |-> S]
<1>1. seq \in Seq(T)
  <2>1. CASE u \in Known(files)
    BY <2>1, AncestorsAre, TreeIs
  <2>2. CASE u \notin Known(files)
    BY <2>2 DEF iterateAncestors
  <2> QED BY <2>1, <2>2
<1>2. \A v \in S, c \in T : UnmarkAncestor(unmark, files, v, c) \in S
  BY UnmarkAncestorType
<1>3. AncestorRule(F, unmark, files, S, T) /\ \A v \in S, c \in T : F[<<v, c>>] \in S
  BY <1>2 DEF AncestorRule
<1>4. base \in S
  BY DeleteType, MarksAre
<1>5. Reaches(P, S, seq, F) /\ P[0] = S /\ P[Len(seq)] = S
  <2> HIDE DEF S, T, seq, F
  <2> QED BY <1>1, <1>3, SameReaches
<1>6. UnmarkAncestors(unmark, files, base, seq) \in S
  <2>1. base \in P[0]
    BY <1>4, <1>5
  <2> HIDE DEF S, T, seq, base, P, F
  <2>2. UnmarkAncestors(unmark, files, base, seq) \in P[Len(seq)]
    BY <1>1, <1>3, <1>5, <2>1, AncestorFold
  <2> QED BY <1>5, <2>2
<1> QED BY <1>6 DEF UnmarkStep, UnmarkAncestors

\* unmarkFolder as deep as it may call itself.
IsUnmarking(unmark, files) ==
    /\ unmark \in [Nat -> Unmarkings(files)]
    /\ \A d \in Nat : unmark[d] = [p \in Marks(files) \X Seq(Segments) |->
          IF d = 0 THEN p[1] ELSE UnmarkStep(unmark[d - 1], files, p[1], p[2])]

\* unmarkFolder is the last of a sequence of functions, each defined by the one before.
LEMMA UnmarkFolderIs ==
    ASSUME NEW files \in SUBSET Files
    PROVE  \E unmark : IsUnmarking(unmark, files) /\ unmarkFolder(files) = unmark[Depth(files)]
<1> DEFINE S == Unmarkings(files)
           D == Marks(files) \X Seq(Segments)
           first == [p \in D |-> p[1]]
           Next(h) == [p \in D |-> UnmarkStep(h, files, p[1], p[2])]
           step == [q \in Nat \X S |-> Next(q[2])]
           Body(f) == [d \in Nat |->
             [p \in D |-> IF d = 0 THEN p[1] ELSE UnmarkStep(f[d - 1], files, p[1], p[2])]]
           unmark == CHOOSE f : f = Body(f)
<1>1. unmarkFolder(files) = unmark[Depth(files)]
  BY DEF unmarkFolder
<1>2. first \in S
  BY DEF Unmarkings
<1>3. ASSUME NEW h \in S PROVE Next(h) \in S
  BY UnmarkStepType DEF Unmarkings
<1>4. step \in [Nat \X S -> S]
  <2> HIDE DEF S, Next
  <2> QED BY <1>3
<1>5. PICK f : Repeats(f, S, first, step)
  <2> HIDE DEF S, first, step
  <2> QED BY <1>2, <1>4, Iteration
<1>6. \A n \in Nat : f[n] \in S /\ f[n + 1] = Next(f[n])
  <2> HIDE DEF S, Next
  <2> QED BY <1>5 DEF Repeats
<1>7. f = Body(f)
  <2>1. DOMAIN f = Nat /\ f = [d \in Nat |-> f[d]]
    BY <1>5 DEF Repeats
  <2>2. ASSUME NEW d \in Nat PROVE f[d] = Body(f)[d]
    <3>1. CASE d = 0
      BY <1>5, <3>1 DEF Repeats
    <3>2. CASE d # 0
      <4>1. d - 1 \in Nat /\ (d - 1) + 1 = d
        BY <3>2
      <4>2. f[d] = Next(f[d - 1])
        <5> HIDE DEF Next
        <5> QED BY <1>6, <4>1
      <4> QED BY <3>2, <4>2
    <3> QED BY <3>1, <3>2
  <2>3. DOMAIN Body(f) = Nat /\ Body(f) = [d \in Nat |-> Body(f)[d]]
    OBVIOUS
  <2> HIDE DEF Body
  <2> QED BY <2>1, <2>2, <2>3
<1>8. unmark = Body(unmark)
  <2> HIDE DEF Body
  <2> QED BY <1>7
<1> HIDE DEF unmark
<1>9. \A d \in Nat : unmark[d] = [p \in D |-> IF d = 0 THEN p[1] ELSE UnmarkStep(unmark[d - 1], files, p[1], p[2])]
  BY <1>8
<1> DEFINE N == {d \in Nat : unmark[d] \in S}
<1>10. 0 \in N
  <2>1. unmark[0] = first
    BY <1>9
  <2> QED BY <1>2, <2>1
<1>11. ASSUME NEW d \in Nat, d \in N PROVE d + 1 \in N
  <2>1. unmark[d + 1] = Next(unmark[d])
    <3>1. d + 1 \in Nat /\ d + 1 # 0 /\ (d + 1) - 1 = d
      OBVIOUS
    <3> QED BY <1>9, <3>1
  <2> HIDE DEF Next, S
  <2> QED BY <1>3, <1>11, <2>1
<1>12. \A d \in Nat : d \in N
  <2> HIDE DEF N
  <2> QED BY <1>10, <1>11, Induction
<1>13. DOMAIN unmark = Nat /\ unmark = [d \in Nat |-> unmark[d]]
  <2>1. DOMAIN Body(unmark) = Nat /\ Body(unmark) = [d \in Nat |-> Body(unmark)[d]]
    OBVIOUS
  <2> HIDE DEF Body
  <2> QED BY <1>8, <2>1
<1>14. unmark \in [Nat -> S]
  <2> HIDE DEF S
  <2> QED BY <1>12, <1>13
<1>15. IsUnmarking(unmark, files)
  BY <1>9, <1>14 DEF IsUnmarking
<1> QED BY <1>1, <1>15

\* unmarkFolder keeps marks marks.
LEMMA UnmarkFolderType ==
    ASSUME NEW files \in SUBSET Files
    PROVE  unmarkFolder(files) \in Unmarkings(files)
<1>1. PICK unmark : IsUnmarking(unmark, files) /\ unmarkFolder(files) = unmark[Depth(files)]
  BY UnmarkFolderIs
<1> QED BY <1>1, KnownFinite DEF IsUnmarking

\* markFolder keeps marks marks.
LEMMA MarkFolderType ==
    ASSUME NEW files \in SUBSET Files, NEW w \in Marks(files), NEW u \in Seq(Segments)
    PROVE  markFolder(files, w, u) \in Marks(files)
<1> DEFINE v == unmarkConflictingTopLevelFolder(unmarkFolder(files), w, u)
           below == iterateNodeTree(files, u)
           top == deleteExactTopLevel(v.top, below \ {u})
<1>1. v \in Marks(files)
  BY UnmarkFolderType, ConflictType
<1>2. below \subseteq Known(files) /\ v.marked \cup below \subseteq Known(files)
  BY <1>1, MarksAre DEF iterateNodeTree
<1> DEFINE x == [marked |-> v.marked \cup below, top |-> top]
<1> HIDE DEF v, below
<1>3. x \in Marks(files)
  BY <1>1, <1>2, DeleteType
<1>4. ASSUME u \in below PROVE u \in Folders(files)
  <2>1. u \in Known(files) /\ 0 < Len(u)
    BY <1>2, <1>4, TreeIs
  <2>2. u \notin Files
    <3>1. Last(u) \in Segments
      BY <2>1 DEF Last
    <3> QED BY <3>1, FilesAre
  <2> QED BY <2>1, <2>2, TreeIs
<1>5. ASSUME u \in below
      PROVE  [marked |-> x.marked, top |-> [x.top EXCEPT ![Last(u)] = u]] \in Marks(files)
  <2> HIDE DEF x
  <2> QED BY <1>3, <1>4, <1>5, SetTopRecordType
<1>6. x.marked = v.marked \cup below /\ x.top = top
  OBVIOUS
<1>7. markFolder(files, w, u) = [marked |-> x.marked,
                                 top |-> IF u \in below THEN [x.top EXCEPT ![Last(u)] = u] ELSE x.top]
  BY <1>6 DEF markFolder, v, below
<1>8. x = [marked |-> x.marked, top |-> x.top]
  OBVIOUS
<1> HIDE DEF x
<1> QED BY <1>3, <1>5, <1>7, <1>8

\* A refresh makes marks of the new tree of those of the old one.
LEMMA ReapplyType ==
    ASSUME NEW old \in SUBSET Files, NEW files \in SUBSET Files, NEW w \in Marks(old)
    PROVE  ReapplyMarks(files, w.top) \in Marks(files)
<1> DEFINE kept == {w.top[m] : m \in Segments} \cap Known(files)
           outer == {u \in kept : Above(u) \cap kept = {}}
           N == UNION {iterateNodeTree(files, u) : u \in outer}
           top == [m \in Segments |-> IF w.top[m] \in outer THEN w.top[m] ELSE NoUri]
<1>1. ReapplyMarks(files, w.top) = [marked |-> N, top |-> top]
  BY DEF ReapplyMarks
<1>2. N \subseteq Known(files)
  BY DEF iterateNodeTree
<1>3. ASSUME NEW m \in Segments, w.top[m] \in outer
      PROVE  w.top[m] \in Folders(files) /\ Last(w.top[m]) = m
  <2>1. w.top[m] \in Known(files) /\ (w.top[m] \in Folders(old) \/ w.top[m] = NoUri)
    BY <1>3, MarksAre
  <2>2. w.top[m] # NoUri => w.top[m] \notin Files
    BY <2>1, TreeIs
  <2>3. w.top[m] # NoUri
    BY <1>3, NoUriIsNone DEF ReapplyMarks
  <2> QED BY <2>1, <2>2, <2>3, TreeIs, MarksAre
<1>4. top \in [Segments -> Folders(files) \cup {NoUri}]
  BY <1>3
<1>5. \A m \in Segments : top[m] # NoUri => Last(top[m]) = m
  BY <1>3
<1> HIDE DEF N, top
<1> QED BY <1>1, <1>2, <1>4, <1>5, MarksAre

\* The lists of folders the tools are given, without duplicates, are sequences of URIs.
LEMMA ListsType == \A p \in ToolLists : UniqueUris(p) \in Seq(Seq(Segments))
<1> SUFFICES ASSUME NEW p \in ToolLists PROVE UniqueUris(p) \in Seq(Seq(Segments))
  OBVIOUS
<1> DEFINE S == Seq(Seq(Segments))
           T == Seq(Segments)
           F == [x \in S \X T |-> IF Contains(x[1], x[2]) THEN x[1] ELSE Append(x[1], x[2])]
           P == [i \in 0..Len(p) |-> S]
<1>1. p \in Seq(T)
  BY WorkspaceAssumption
<1>2. \A v \in S, c \in T : (IF Contains(v, c) THEN v ELSE Append(v, c)) \in S
  OBVIOUS
<1>3. UniqueRule(F, S, T) /\ \A v \in S, c \in T : F[<<v, c>>] \in S
  BY <1>2 DEF UniqueRule
<1>4. Reaches(P, S, p, F) /\ P[0] = S /\ P[Len(p)] = S
  <2> HIDE DEF S, T, F
  <2> QED BY <1>1, <1>3, SameReaches
<1>5. <<>> \in P[0]
  BY <1>4
<1> HIDE DEF S, T, P, F
<1>6. Uniques(<<>>, p) \in P[Len(p)]
  BY <1>1, <1>3, <1>4, <1>5, UniqueFold
<1> QED BY <1>4, <1>6 DEF UniqueUris, Uniques, S, T

-----------------------------------------------------------------------------
(* The types.                                                              *)

RequestType ==
    [for : {"none", "watcher", "add", "remove"}, uris : Seq(Seq(Segments)),
     scanned : BOOLEAN, scan : SUBSET Files]
Current == [marked |-> marked, top |-> topLevel]
WorkspaceType ==
    /\ disk \in SUBSET Files /\ tree \in SUBSET Files
    /\ Current \in Marks(tree)
    /\ request \in [Requests -> RequestType]
    /\ fired \in BOOLEAN

\* What a command makes of the marks.
Done(q, w) ==
    CASE q.for = "add" -> MarkAll(q.scan, w, q.uris)
      [] q.for = "remove" -> UnmarkAll(q.scan, w, q.uris)
      [] OTHER -> w

\* The commands keep marks marks.
LEMMA DoneType ==
    ASSUME NEW q \in RequestType, NEW w \in Marks(q.scan)
    PROVE  Done(q, w) \in Marks(q.scan)
<1> DEFINE S == Marks(q.scan)
           T == Seq(Segments)
           F == [p \in S \X T |-> markFolder(q.scan, p[1], p[2])]
           G == [p \in S \X T |-> unmarkFolder(q.scan)[<<p[1], p[2]>>]]
           P == [i \in 0..Len(q.uris) |-> S]
<1>1. q.scan \in SUBSET Files /\ q.uris \in Seq(T)
  BY DEF RequestType
<1>2. \A v \in S, c \in T : markFolder(q.scan, v, c) \in S
  BY <1>1, MarkFolderType
<1>3. \A v \in S, c \in T : unmarkFolder(q.scan)[<<v, c>>] \in S
  BY <1>1, UnmarkFolderType DEF Unmarkings
<1>4. /\ MarkRule(F, q.scan, S, T) /\ UnmarkRule(G, q.scan, S, T)
      /\ \A v \in S, c \in T : F[<<v, c>>] \in S /\ G[<<v, c>>] \in S
  BY <1>2, <1>3 DEF MarkRule, UnmarkRule
<1>5. Reaches(P, S, q.uris, F) /\ Reaches(P, S, q.uris, G) /\ P[0] = S /\ P[Len(q.uris)] = S
  <2> HIDE DEF S, T, F, G
  <2> QED BY <1>1, <1>4, SameReaches
<1>6. w \in P[0]
  BY <1>5
<1>7. MarkAll(q.scan, w, q.uris) \in S
  <2> HIDE DEF S, T, P, F, G
  <2> QED BY <1>1, <1>4, <1>5, <1>6, MarkFold
<1>8. UnmarkAll(q.scan, w, q.uris) \in S
  <2> HIDE DEF S, T, P, F, G
  <2> QED BY <1>1, <1>4, <1>5, <1>6, UnmarkFold
<1> QED BY <1>7, <1>8 DEF Done

\* What a refresh in flight will make of the marks it finds.
LEMMA ReapplyRequestType ==
    ASSUME WorkspaceType, NEW r \in Requests
    PROVE  /\ request[r].scan \in SUBSET Files /\ request[r] \in RequestType
           /\ ReapplyMarks(request[r].scan, topLevel) \in Marks(request[r].scan)
<1>1. request[r] \in RequestType
  BY DEF WorkspaceType
<1>2. request[r].scan \in SUBSET Files
  BY <1>1 DEF RequestType
<1>3. Current.top = topLevel /\ tree \in SUBSET Files /\ Current \in Marks(tree)
  BY DEF Current, WorkspaceType
<1> HIDE DEF Current
<1>4. ReapplyMarks(request[r].scan, Current.top) \in Marks(request[r].scan)
  BY <1>2, <1>3, ReapplyType
<1> QED BY <1>1, <1>2, <1>3, <1>4

\* A refresh, in terms of Done.
LEMMA RefreshIs ==
    ASSUME NEW r, Refresh(r)
    PROVE  LET q == request[r]
               w == ReapplyMarks(q.scan, topLevel)
           IN /\ q.scanned /\ tree' = q.scan
              /\ marked' = Done(q, w).marked /\ topLevel' = Done(q, w).top
              /\ request' = [request EXCEPT ![r] = Idle] /\ fired' = Notifies(q)
              /\ UNCHANGED disk
BY DEF Refresh, Done

\* The empty list is a list of folders.
LEMMA NoFolders == <<>> \in Seq(Seq(Segments))
OBVIOUS

\* A request that is begun is a request.
LEMMA BeginType ==
    ASSUME WorkspaceType, NEW r \in Requests, NEW for \in {"watcher", "add", "remove"},
           NEW uris \in Seq(Seq(Segments)), Begin(r, for, uris)
    PROVE  request' \in [Requests -> RequestType]
BY DEF Begin, Idle, RequestType, WorkspaceType

\* The type invariant holds at first.
LEMMA TypeInit == WorkspaceInit => WorkspaceType
<1> SUFFICES ASSUME WorkspaceInit PROVE WorkspaceType
  OBVIOUS
<1>1. disk \in SUBSET Files /\ tree = {} /\ fired = FALSE
  BY DEF WorkspaceInit
<1>2. Current \in Marks(tree)
  <2>1. Known({}) = {} /\ Folders({}) = {}
    BY DEF Known, Folders
  <2> QED BY <1>1, <2>1 DEF WorkspaceInit, Current, Marks
<1>3. request \in [Requests -> RequestType]
  <2>1. Idle \in RequestType /\ [Idle EXCEPT !.for = "watcher"] \in RequestType
    BY NoFolders DEF Idle, RequestType
  <2> QED BY <2>1 DEF WorkspaceInit
<1> QED BY <1>1, <1>2, <1>3 DEF WorkspaceType

\* Every step keeps the type invariant.
LEMMA TypeStep == WorkspaceType /\ [WorkspaceNext]_workspaceVars => WorkspaceType'
<1> SUFFICES ASSUME WorkspaceType, [WorkspaceNext]_workspaceVars PROVE WorkspaceType'
  OBVIOUS
<1> DEFINE SameMarks == UNCHANGED <<tree, marked, topLevel>>
<1>1. SameMarks => tree' \in SUBSET Files /\ (Current \in Marks(tree))'
  BY DEF WorkspaceType, Current
<1>2. CASE UNCHANGED workspaceVars
  BY <1>2 DEF workspaceVars, WorkspaceType, Current
<1>3. ASSUME NEW f \in Volatile, NEW r \in Requests, FileCreatedOrDeleted(f, r) PROVE WorkspaceType'
  <2>1. disk' \in SUBSET Files /\ fired' = FALSE
    BY <1>3, WorkspaceAssumption DEF FileCreatedOrDeleted, WorkspaceType
  <2>2. request' \in [Requests -> RequestType]
    BY <1>3, BeginType, NoFolders DEF FileCreatedOrDeleted
  <2> QED BY <1>1, <1>3, <2>1, <2>2 DEF FileCreatedOrDeleted, WorkspaceType
<1>4. ASSUME NEW f \in Files, FileChanged(f) PROVE WorkspaceType'
  BY <1>1, <1>4 DEF FileChanged, isUnderMarkedFolder, WorkspaceType
<1>5. ASSUME NEW r \in Requests, NEW uris \in Seq(Seq(Segments)),
             onAddRemoteFileSource(r, uris) \/ onRemoveRemoteFileSource(r, uris)
      PROVE  WorkspaceType'
  <2>1. request' \in [Requests -> RequestType]
    BY <1>5, BeginType DEF onAddRemoteFileSource, onRemoveRemoteFileSource
  <2> QED BY <1>1, <1>5, <2>1 DEF onAddRemoteFileSource, onRemoveRemoteFileSource, WorkspaceType
<1>6. ASSUME NEW r \in Requests, findFiles(r) PROVE WorkspaceType'
  <2>1. request' \in [Requests -> RequestType]
    <3>1. disk \in SUBSET Files /\ request[r] \in RequestType
      BY DEF WorkspaceType
    <3>2. [request[r] EXCEPT !.scanned = TRUE, !.scan = disk] \in RequestType
      BY <3>1 DEF RequestType
    <3> QED BY <1>6, <3>2 DEF findFiles, WorkspaceType
  <2> QED BY <1>1, <1>6, <2>1 DEF findFiles, WorkspaceType
<1>7. ASSUME NEW r \in Requests, Refresh(r) PROVE WorkspaceType'
  <2> DEFINE q == request[r]
             w == ReapplyMarks(q.scan, topLevel)
  <2>1. q.scan \in SUBSET Files /\ q \in RequestType /\ w \in Marks(q.scan)
    BY ReapplyRequestType
  <2>2. /\ tree' = q.scan /\ marked' = Done(q, w).marked /\ topLevel' = Done(q, w).top
        /\ request' = [request EXCEPT ![r] = Idle] /\ fired' = Notifies(q) /\ disk' = disk
    BY <1>7, RefreshIs
  <2>3. Done(q, w) \in Marks(q.scan)
    <3> HIDE DEF q, w
    <3> QED BY <2>1, DoneType
  <2>4. (Current \in Marks(tree))'
    <3>1. Done(q, w) = [marked |-> Done(q, w).marked, top |-> Done(q, w).top]
      <4> HIDE DEF q, w
      <4> QED BY <2>3, MarksAre
    <3> HIDE DEF q, w
    <3> QED BY <2>2, <2>3, <3>1 DEF Current
  <2>5. request' \in [Requests -> RequestType]
    <3>1. Idle \in RequestType
      BY NoFolders DEF Idle, RequestType
    <3> QED BY <2>2, <3>1 DEF WorkspaceType
  <2> QED BY <2>1, <2>2, <2>4, <2>5 DEF WorkspaceType, Notifies
<1>8. ASSUME NEW r \in Requests, NEW u \in Offered,
             onAddRemoteFileSource(r, <<u>>) \/ onRemoveRemoteFileSource(r, <<u>>)
      PROVE  WorkspaceType'
  <2>1. <<u>> \in Seq(Seq(Segments))
    BY WorkspaceAssumption
  <2> QED BY <1>5, <1>8, <2>1
<1>9. ASSUME NEW r \in Requests, NEW p \in ToolLists,
             addRemoteFileSources(r, p) \/ removeRemoteFileSources(r, p)
      PROVE  WorkspaceType'
  <2>1. UniqueUris(p) \in Seq(Seq(Segments))
    BY ListsType
  <2> QED BY <1>5, <1>9, <2>1 DEF addRemoteFileSources, removeRemoteFileSources
<1> QED BY <1>2, <1>3, <1>4, <1>6, <1>7, <1>8, <1>9 DEF WorkspaceNext

\* Every folder in the map of top-level folders is a folder of the tree, under its own
\* name, and every marked node is a node of the tree, after any sequence of commands,
\* tool calls, changes of files and refreshes, however they overlap.
THEOREM WorkspaceTypes == WorkspaceSpec => []WorkspaceType
<1> QED BY TypeInit, TypeStep, PTL DEF WorkspaceSpec

-----------------------------------------------------------------------------
\* The listeners are told of every change of the sources, but by a tool given no folders.
THEOREM ListenersTold == WorkspaceSpec => ListenersAreTold
<1> DEFINE Told == /\ sources' # sources \/ topLevel' # topLevel
                        => \/ fired'
                           \/ \E r \in Requests : Refresh(r) /\ request[r].for # "watcher"
                                                             /\ request[r].uris = <<>>
                   /\ \A f \in Files : FileChanged(f) /\ f \in sources => fired'
<1>1. ASSUME [WorkspaceNext]_workspaceVars PROVE [Told]_workspaceVars
  <2> SUFFICES ASSUME WorkspaceNext PROVE Told
    BY <1>1
  <2>1. \A f \in Files : FileChanged(f) /\ f \in sources => fired'
    BY DEF FileChanged, isUnderMarkedFolder, sources, IsSource
  <2>2. UNCHANGED <<tree, topLevel>> => sources' = sources /\ topLevel' = topLevel
    BY DEF sources, IsSource
  <2>3. ASSUME NEW r \in Requests, Refresh(r)
        PROVE  fired' \/ (request[r].for # "watcher" /\ request[r].uris = <<>>)
    BY <2>3 DEF Refresh, Notifies
  <2>4. UNCHANGED <<tree, topLevel>> \/ \E r \in Requests : Refresh(r)
    BY DEF WorkspaceNext, FileCreatedOrDeleted, FileChanged, onAddRemoteFileSource,
           onRemoveRemoteFileSource, addRemoteFileSources, removeRemoteFileSources, findFiles
  <2> QED BY <2>1, <2>2, <2>3, <2>4
<1> QED BY <1>1, PTL DEF WorkspaceSpec, ListenersAreTold

-----------------------------------------------------------------------------
(* What the servers are answered.                                          *)

\* The folder of a name, if it has one, is a folder of the tree and its last segment the name.
LEMMA TopLevelIs ==
    ASSUME WorkspaceType, NEW m \in Segments, topLevel[m] # NoUri
    PROVE  /\ topLevel[m] \in Folders(tree) /\ topLevel[m] \in Uris /\ topLevel[m] \in Seq(Segments)
           /\ 0 < Len(topLevel[m]) /\ Last(topLevel[m]) = m
<1>1. Current.top = topLevel /\ Current \in Marks(tree) /\ tree \in SUBSET Files
  BY DEF WorkspaceType, Current
<1>2. topLevel[m] \in Folders(tree) /\ Last(topLevel[m]) = m
  <2> HIDE DEF Current
  <2> QED BY <1>1, MarksAre
<1> QED BY <1>1, <1>2, TreeIs

\* A URI that goes on from another is under it.
LEMMA Continued ==
    ASSUME NEW u \in Uris, NEW x \in Uris
    PROVE  /\ u \o x \in Uris /\ Under(u \o x, u) /\ Len(u \o x) = Len(u) + Len(x)
           /\ SubSeq(u \o x, Len(u) + 1, Len(u \o x)) = x
<1>1. u \o x \in Uris /\ Len(u \o x) = Len(u) + Len(x)
  BY DEF Uris
<1>2. \A i \in 1..Len(u) : (u \o x)[i] = u[i]
  BY DEF Uris
<1>3. SubSeq(u \o x, Len(u) + 1, Len(u \o x)) = x
  BY DEF Uris
<1>4. Len(u) <= Len(u \o x)
  BY <1>1 DEF Uris
<1> QED BY <1>1, <1>2, <1>3, <1>4, UnderIs

\* What is under a URI goes on from it.
LEMMA Continues ==
    ASSUME NEW u \in Uris, NEW f \in Uris, Under(f, u)
    PROVE  LET x == SubSeq(f, Len(u) + 1, Len(f)) IN x \in Uris /\ f = u \o x
<1>1. Len(u) <= Len(f) /\ \A i \in 1..Len(u) : f[i] = u[i]
  BY UnderIs
<1>2. SubSeq(f, Len(u) + 1, Len(f)) \in Uris
  BY DEF Uris
<1>3. f = u \o SubSeq(f, Len(u) + 1, Len(f))
  BY <1>1 DEF Uris
<1> QED BY <1>2, <1>3

\* A path, taken apart into its module name and the rest.
LEMMA PathIs ==
    ASSUME NEW m \in Names, NEW x \in Uris
    PROVE  /\ Head(<<m>> \o x) = m /\ Tail(<<m>> \o x) = x
           /\ <<m>> \o x \in Uris /\ Len(<<m>> \o x) = Len(x) + 1
BY DEF Uris

\* The paths a Groovy server is given, and what it is answered for one.
LEMMA GroovyPaths ==
    ASSUME WorkspaceType
    PROVE  /\ \A p \in getMarkedRelativeFilePaths : getGroovyResourceData(p) \in sources
           /\ \A m \in Segments, f \in Files :
                getGroovyResourceData(<<m>> \o Tail(f)) # NoUri
                   => <<m>> \o Tail(f) \in getMarkedRelativeFilePaths
<1>1. tree \in SUBSET Files
  BY DEF WorkspaceType
<1>2. ASSUME NEW p \in getMarkedRelativeFilePaths PROVE getGroovyResourceData(p) \in sources
  <2>1. PICK u \in {topLevel[m] : m \in Segments} \ {NoUri} :
           \E f \in {x \in tree : Under(x, u)} : p = <<Last(u)>> \o SubSeq(f, Len(u) + 1, Len(f))
    BY DEF getMarkedRelativeFilePaths
  <2> PICK f \in {x \in tree : Under(x, u)} : p = <<Last(u)>> \o SubSeq(f, Len(u) + 1, Len(f))
    BY <2>1
  <2>2. PICK m \in Segments : u = topLevel[m]
    OBVIOUS
  <2>3. u \in Uris /\ Last(u) = m /\ m \in Names
    BY <2>2, TopLevelIs DEF Names
  <2> DEFINE x == SubSeq(f, Len(u) + 1, Len(f))
  <2>4. x \in Uris /\ f = u \o x
    BY <1>1, <2>3, FilesAre, Continues
  <2>5. p = <<m>> \o x
    BY <2>1, <2>3
  <2> HIDE DEF x
  <2>6. Head(p) = m /\ Tail(p) = x
    BY <2>3, <2>4, <2>5, PathIs
  <2>7. folderOf(m) = u /\ f \in tree /\ f \in sources
    BY <2>2 DEF folderOf, sources, IsSource
  <2> QED BY <2>4, <2>6, <2>7 DEF getGroovyResourceData, hasFile
<1>3. ASSUME NEW m \in Segments, NEW f \in Files, getGroovyResourceData(<<m>> \o Tail(f)) # NoUri
      PROVE  <<m>> \o Tail(f) \in getMarkedRelativeFilePaths
  <2> DEFINE u == topLevel[m]
             x == Tail(f)
             g == u \o x
  <2>1. m \in Names /\ x \in Uris
    <3>1. f \in Uris /\ 0 < Len(f)
      BY FilesAre
    <3> QED BY <3>1 DEF Names, Uris
  <2>2. Head(<<m>> \o x) = m /\ Tail(<<m>> \o x) = x
    <3> HIDE DEF x
    <3> QED BY <2>1, PathIs
  <2>3. u # NoUri /\ g \in tree
    BY <1>3, <2>2 DEF getGroovyResourceData, folderOf, hasFile
  <2>4. u \in Uris /\ Last(u) = m
    BY <2>3, TopLevelIs
  <2> HIDE DEF x
  <2>5. Under(g, u) /\ SubSeq(g, Len(u) + 1, Len(g)) = x
    BY <2>1, <2>4, Continued
  <2> HIDE DEF g
  <2>6. u \in {topLevel[n] : n \in Segments} \ {NoUri} /\ g \in {y \in tree : Under(y, u)}
    BY <2>3, <2>5
  <2> HIDE DEF u
  <2>7. <<m>> \o x = <<Last(u)>> \o SubSeq(g, Len(u) + 1, Len(g))
    BY <2>4, <2>5
  <2> DEFINE paths(v) == {<<Last(v)>> \o SubSeq(h, Len(v) + 1, Len(h)) : h \in {y \in tree : Under(y, v)}}
  <2>8. <<m>> \o x \in paths(u)
    BY <2>6, <2>7
  <2>9. getMarkedRelativeFilePaths = UNION {paths(v) : v \in {topLevel[n] : n \in Segments} \ {NoUri}}
    BY DEF getMarkedRelativeFilePaths
  <2> HIDE DEF paths
  <2>10. <<m>> \o x \in getMarkedRelativeFilePaths
    BY <2>6, <2>8, <2>9
  <2> QED BY <2>10 DEF x
<1> QED BY <1>2, <1>3

\* The names a Python server is told to ask for are packages.
LEMMA PythonNames ==
    ASSUME WorkspaceType, NEW n \in getPythonTopLevelModuleNames
    PROVE  LET spec == getPythonModuleSpecData(n) IN spec # NoUri /\ spec.isPackage
<1>1. PICK m \in Segments : topLevel[m] # NoUri /\ (n = <<m>> \/ \E p \in ControllerPrefixes : n = <<p, m>>)
  BY DEF getPythonTopLevelModuleNames
<1>2. WithoutPrefix(n) = <<m>>
  <2>1. CASE n = <<m>>
    BY <2>1 DEF WithoutPrefix
  <2>2. ASSUME NEW p \in ControllerPrefixes, n = <<p, m>> PROVE WithoutPrefix(n) = <<m>>
    BY <2>2 DEF WithoutPrefix
  <2> QED BY <1>1, <2>1, <2>2
<1> DEFINE u == topLevel[m]
<1>3. u \in Folders(tree) /\ u \in Uris /\ u # NoUri
  BY <1>1, TopLevelIs
<1>4. Head(<<m>>) = m /\ Tail(<<m>>) = <<>> /\ u \o <<>> = u
  BY <1>3 DEF Uris
<1>5. getPythonModuleSpecData(n) = Package(u)
  BY <1>1, <1>2, <1>3, <1>4 DEF getPythonModuleSpecData, folderOf, hasFolder
<1>6. Package(u) \in [isPackage : BOOLEAN, origin : Files \cup {NoUri}] /\ Package(u).isPackage
  BY DEF Package, hasFile, WorkspaceType
<1> QED BY <1>5, <1>6, ResolutionAssumption

\* The modules a Python server finds.
LEMMA PythonModules ==
    ASSUME WorkspaceType, NEW n \in ModuleNames, getPythonModuleSpecData(n) # NoUri
    PROVE  /\ getPythonModuleSpecData(n).origin \in sources \cup {NoUri}
           /\ \E t \in getPythonTopLevelModuleNames : IsPrefix(t, n)
<1> DEFINE name == WithoutPrefix(n)
           m == Head(name)
           folder == topLevel[m]
           rest == Tail(name)
           u == folder \o rest
<1>1. n \in Seq(Segments) /\ 0 < Len(n)
  <2>1. PICK k \in 1..3 : n \in [1..k -> Segments]
    BY DEF ModuleNames
  <2> QED BY <2>1
<1>2. name \in Seq(Segments) /\ 0 < Len(name) /\ (name = n \/ (name = Tail(n) /\ Head(n) \in ControllerPrefixes))
  <2>1. CASE Head(n) \in ControllerPrefixes /\ Len(n) > 1
    <3>1. name = Tail(n)
      BY <2>1 DEF WithoutPrefix
    <3>2. Tail(n) \in Seq(Segments) /\ 0 < Len(Tail(n))
      BY <1>1, <2>1
    <3> HIDE DEF name
    <3> QED BY <2>1, <3>1, <3>2, Zenon
  <2>2. CASE ~(Head(n) \in ControllerPrefixes /\ Len(n) > 1)
    <3>1. name = n
      BY <2>2 DEF WithoutPrefix
    <3> HIDE DEF name
    <3> QED BY <1>1, <3>1
  <2> QED BY <2>1, <2>2
<1>3. m \in Segments /\ rest \in Seq(Segments)
  BY <1>2
<1>4. folder # NoUri /\ folderOf(m) = folder
  BY <1>3 DEF getPythonModuleSpecData, folderOf
<1>5. folder \in Uris /\ folder \in Folders(tree) /\ rest \in Uris /\ 0 < Len(folder)
  <2>1. Seq(Segments) \subseteq Uris
    BY DEF Uris, Names
  <2> HIDE DEF m, rest, name
  <2> QED BY <1>3, <1>4, <2>1, TopLevelIs
<1>6. \E t \in getPythonTopLevelModuleNames : IsPrefix(t, n)
  <2> USE DEF getPythonTopLevelModuleNames
  <2>1. CASE name = n
    <3>1. <<m>> \in getPythonTopLevelModuleNames
      BY <1>3, <1>4
    <3>2. IsPrefix(<<m>>, n)
      BY <1>1, <2>1 DEF IsPrefix
    <3> QED BY <3>1, <3>2
  <2>2. CASE name = Tail(n) /\ Head(n) \in ControllerPrefixes
    <3>1. <<Head(n), m>> \in getPythonTopLevelModuleNames
      BY <1>3, <1>4, <2>2
    <3>2. IsPrefix(<<Head(n), m>>, n)
      <4>1. 2 <= Len(n) /\ n[1] = Head(n) /\ n[2] = m
        BY <1>1, <1>2, <2>2
      <4> DEFINE t == <<Head(n), m>>
      <4>2. Len(t) = 2 /\ t[1] = Head(n) /\ t[2] = m
        OBVIOUS
      <4>3. t \in Uris /\ n \in Uris
        <5>1. Head(n) \in Names /\ m \in Names /\ Seq(Segments) \subseteq Uris
          BY <1>1, <1>3 DEF Names, Uris
        <5> HIDE DEF m
        <5> QED BY <1>1, <5>1 DEF Uris
      <4>4. \A i \in 1..2 : i = 1 \/ i = 2
        OBVIOUS
      <4> HIDE DEF t, m
      <4>5. Under(n, t)
        BY <4>1, <4>2, <4>3, <4>4, UnderIs
      <4> QED BY <4>5 DEF Under, t
    <3> QED BY <3>1, <3>2
  <2> QED BY <1>2, <2>1, <2>2
<1>7. ASSUME NEW x \in Uris, x \in tree, Under(x, folder) PROVE x \in sources
  BY <1>3, <1>4, <1>7 DEF sources, IsSource
<1>8. CASE u \in Folders(tree)
  <2>1. getPythonModuleSpecData(n) = Package(u)
    BY <1>4, <1>8 DEF getPythonModuleSpecData, hasFolder
  <2>2. CASE u \o <<InitFile>> \in tree
    <3>1. u \o <<InitFile>> \in Uris
      BY <2>2, FilesAre DEF WorkspaceType
    <3>2. u \in Uris /\ Under(u, folder)
      <4> HIDE DEF folder, rest
      <4> QED BY <1>5, Continued
    <3>3. Under(u \o <<InitFile>>, u)
      <4> HIDE DEF u
      <4>1. Len(u) <= Len(u \o <<InitFile>>) /\ \A i \in 1..Len(u) : (u \o <<InitFile>>)[i] = u[i]
        BY <3>2 DEF Uris
      <4> QED BY <3>1, <3>2, <4>1, UnderIs
    <3>4. u \o <<InitFile>> \in sources
      <4> HIDE DEF u, folder
      <4> QED BY <1>5, <1>7, <2>2, <3>1, <3>2, <3>3, UnderOrder
    <3>5. Package(u).origin = u \o <<InitFile>>
      <4> HIDE DEF u
      <4> QED BY <2>2 DEF Package, hasFile
    <3> HIDE DEF u
    <3> QED BY <1>6, <2>1, <3>4, <3>5
  <2>3. CASE u \o <<InitFile>> \notin tree
    <3>1. Package(u).origin = NoUri
      <4> HIDE DEF u
      <4> QED BY <2>3 DEF Package, hasFile
    <3> HIDE DEF u
    <3> QED BY <1>6, <2>1, <3>1
  <2> QED BY <2>2, <2>3
<1>9. CASE u \notin Folders(tree)
  <2> DEFINE f == Front(u) \o <<PyFile[Last(u)]>>
  <2>1. getPythonModuleSpecData(n) = Module(u)
    BY <1>4, <1>9 DEF getPythonModuleSpecData, hasFolder
  <2>2. f \in tree /\ Module(u) = [isPackage |-> FALSE, origin |-> f]
    <3> HIDE DEF u
    <3> QED BY <2>1 DEF Module, hasFile
  <2>3. rest # <<>>
    <3>1. folder \o <<>> = folder
      <4> HIDE DEF folder
      <4> QED BY <1>5 DEF Uris
    <3> HIDE DEF folder, rest
    <3> QED BY <1>5, <1>9, <3>1
  <2>4. Len(u) = Len(folder) + Len(rest) /\ 0 < Len(rest) /\ u \in Uris /\ Under(u, folder)
    <3>1. 0 < Len(rest)
      BY <1>3, <2>3
    <3> HIDE DEF folder, rest
    <3> QED BY <1>5, <3>1, Continued
  <2>5. f \in Uris
    BY <2>2, FilesAre DEF WorkspaceType
  <2>6. Len(folder) <= Len(f) /\ \A i \in 1..Len(folder) : f[i] = u[i]
    <3> HIDE DEF u, folder, rest
    <3>1. Front(u) \in Uris /\ Len(Front(u)) = Len(u) - 1 /\ \A i \in 1..(Len(u) - 1) : Front(u)[i] = u[i]
      BY <2>4 DEF Uris, Front
    <3>2. Len(f) = Len(u) /\ \A i \in 1..(Len(u) - 1) : f[i] = Front(u)[i]
      BY <3>1, <2>4 DEF Uris
    <3>3. Len(folder) \in Nat /\ Len(rest) \in Nat /\ Len(folder) <= Len(u) - 1
      BY <1>3, <1>5, <2>4 DEF Uris
    <3> QED BY <3>1, <3>2, <3>3
  <2>7. Under(f, folder)
    <3> HIDE DEF u, folder, f
    <3>1. \A i \in 1..Len(folder) : u[i] = folder[i]
      BY <1>5, <2>4, UnderIs
    <3> QED BY <1>5, <2>5, <2>6, <3>1, UnderIs
  <2>8. f \in sources
    <3> HIDE DEF u, folder, f
    <3> QED BY <1>7, <2>2, <2>5, <2>7
  <2> HIDE DEF u, f
  <2>9. Module(u).origin = f
    BY <2>2
  <2> QED BY <1>6, <2>1, <2>8, <2>9
<1> QED BY <1>8, <1>9

\* Whatever the folders that are marked, a server is told of no module or resource that it
\* does not find, and finds none that it was not told of.
THEOREM Answered == WorkspaceSpec => []ServersAreAnswered
<1>1. WorkspaceType => ServersAreAnswered
  <2> SUFFICES ASSUME WorkspaceType PROVE ServersAreAnswered
    OBVIOUS
  <2>1. \A n \in ModuleNames :
          LET spec == getPythonModuleSpecData(n) IN
          spec # NoUri => /\ spec.origin \in sources \cup {NoUri}
                          /\ \E t \in getPythonTopLevelModuleNames : IsPrefix(t, n)
    BY PythonModules
  <2>2. \A n \in getPythonTopLevelModuleNames :
          LET spec == getPythonModuleSpecData(n) IN spec # NoUri /\ spec.isPackage
    BY PythonNames
  <2> QED BY <2>1, <2>2, GroovyPaths DEF ServersAreAnswered
<1> QED BY <1>1, WorkspaceTypes, PTL

-----------------------------------------------------------------------------
(* Parents and children.                                                   *)

\* A node is directly below its parent, and what is above it is above the parent.
LEMMA ParentIs ==
    ASSUME NEW c \in Uris, 0 < Len(c)
    PROVE  /\ Front(c) \in Uris /\ Len(Front(c)) = Len(c) - 1 /\ Under(c, Front(c)) /\ Front(c) # c
           /\ \A s \in Uris : Under(c, s) /\ s # c => Under(Front(c), s)
<1>1. Len(c) \in Nat /\ Len(c) - 1 \in 0..Len(c)
  BY DEF Uris
<1>2. /\ Front(c) \in Uris /\ Len(Front(c)) = Len(c) - 1
      /\ \A i \in 1..(Len(c) - 1) : Front(c)[i] = c[i]
  <2> DEFINE n == Len(c) - 1
  <2>1. n \in 0..Len(c)
    BY <1>1
  <2> HIDE DEF n
  <2>2. SubSeq(c, 1, n) \in Uris /\ Len(SubSeq(c, 1, n)) = n /\ \A i \in 1..n : SubSeq(c, 1, n)[i] = c[i]
    BY <2>1 DEF Uris
  <2> QED BY <2>2 DEF n, Front
<1>3. Under(c, Front(c))
  BY <1>1, <1>2, UnderIs
<1>4. ASSUME NEW s \in Uris, Under(c, s), s # c PROVE Under(Front(c), s)
  <2>1. Len(s) \in Nat /\ Len(s) <= Len(c) /\ Len(s) # Len(c) /\ \A i \in 1..Len(s) : c[i] = s[i]
    BY <1>4, UnderIs, UnderOrder DEF Uris
  <2>2. Len(s) <= Len(c) - 1
    BY <1>2, <2>1
  <2> QED BY <1>1, <1>2, <2>1, <2>2, UnderIs
<1> QED BY <1>1, <1>2, <1>3, <1>4

-----------------------------------------------------------------------------
(* The top-level folders.                                                  *)

\* The top-level folders, the nodes in them, marks and map that agree, and top-level folders
\* of which none is in another.
Tops(w) == {w.top[m] : m \in Segments} \ {NoUri}
Covered(n, w) == \E s \in Tops(w) : Under(n, s)
OK(files, w) == w \in Marks(files) /\ w.marked = {n \in Known(files) : Covered(n, w)}
Outermost(w, e) == \A s \in Tops(w) : Under(e, s) => s = e
Apart(w) == \A s \in Tops(w) : Outermost(w, s)

\* The top-level folders are folders of the tree, one for a name.
LEMMA TopsAre ==
    ASSUME NEW files \in SUBSET Files, NEW w \in Marks(files)
    PROVE  /\ \A s \in Tops(w) : /\ s \in Folders(files) /\ s \in Known(files) /\ s \in Uris
                                /\ s \in Seq(Segments) /\ 0 < Len(s)
                                /\ Last(s) \in Segments /\ w.top[Last(s)] = s /\ s # NoUri
           /\ \A m \in Segments : w.top[m] # NoUri => w.top[m] \in Tops(w) /\ Last(w.top[m]) = m
           /\ w.marked \subseteq Known(files)
<1>1. ASSUME NEW s \in Tops(w)
      PROVE  s \in Folders(files) /\ Last(s) \in Segments /\ w.top[Last(s)] = s /\ s # NoUri
  <2>1. PICK m \in Segments : s = w.top[m] /\ s # NoUri
    BY DEF Tops
  <2>2. s \in Folders(files) /\ Last(s) = m
    BY <2>1, MarksAre
  <2> QED BY <2>1, <2>2
<1>2. \A m \in Segments : w.top[m] # NoUri => w.top[m] \in Tops(w) /\ Last(w.top[m]) = m
  BY MarksAre DEF Tops
<1> QED BY <1>1, <1>2, TreeIs, MarksAre

\* The marks once the nodes N are taken out of the map.
Deletes(files, w, v, M, N) ==
    /\ v \in Marks(files) /\ v.marked = M /\ Tops(v) = Tops(w) \ N
    /\ \A m \in Segments : v.top[m] = IF w.top[m] \in N THEN NoUri ELSE w.top[m]

\* What taking nodes out of the map comes to.
LEMMA DeletedTops ==
    ASSUME NEW files \in SUBSET Files, NEW w \in Marks(files), NEW N, NEW M \in SUBSET Known(files)
    PROVE  Deletes(files, w, [marked |-> M, top |-> deleteExactTopLevel(w.top, N)], M, N)
<1> DEFINE v == [marked |-> M, top |-> deleteExactTopLevel(w.top, N)]
<1>1. v \in Marks(files) /\ v.marked = M
  BY DeleteType
<1>2. \A m \in Segments : v.top[m] = IF w.top[m] \in N THEN NoUri ELSE w.top[m]
  BY DEF deleteExactTopLevel
<1> HIDE DEF v
<1>3. Tops(v) = Tops(w) \ N
  BY <1>2 DEF Tops
<1>4. Deletes(files, w, v, M, N)
  BY <1>1, <1>2, <1>3 DEF Deletes
<1> QED BY <1>4 DEF v

\* Nothing is deleted that is not there.
LEMMA NothingDeleted ==
    ASSUME NEW files \in SUBSET Files, NEW w \in Marks(files), NEW N, N \cap Tops(w) = {}
    PROVE  [marked |-> w.marked, top |-> deleteExactTopLevel(w.top, N)] = w
<1>1. deleteExactTopLevel(w.top, N) = w.top
  <2>1. \A m \in Segments : w.top[m] \in N => w.top[m] = NoUri
    BY DEF Tops
  <2>2. w.top = [m \in Segments |-> w.top[m]]
    BY MarksAre
  <2> QED BY <2>1, <2>2 DEF deleteExactTopLevel
<1> QED BY <1>1, MarksAre

\* A folder that gets the place of its name, which was free.
LEMMA AddedTop ==
    ASSUME NEW files \in SUBSET Files, NEW w \in Marks(files), NEW c \in Folders(files),
           w.top[Last(c)] \in {NoUri, c}
    PROVE  LET v == [w EXCEPT !.top[Last(c)] = c]
           IN v \in Marks(files) /\ v.marked = w.marked /\ Tops(v) = Tops(w) \cup {c}
                /\ (c \in Tops(w) => v = w)
                /\ \A m \in Segments : v.top[m] = IF m = Last(c) THEN c ELSE w.top[m]
<1> DEFINE v == [w EXCEPT !.top[Last(c)] = c]
<1>1. Last(c) \in Segments /\ c \in Known(files)
  BY TreeIs
<1>2. v \in Marks(files)
  BY SetTopType
<1>3. w.top \in [Segments -> Folders(files) \cup {NoUri}] /\ w = [marked |-> w.marked, top |-> w.top]
  BY MarksAre
<1>4. v.marked = w.marked /\ \A m \in Segments : v.top[m] = IF m = Last(c) THEN c ELSE w.top[m]
  BY <1>1, <1>3
<1>5. Tops(v) = Tops(w) \cup {c}
  <2> HIDE DEF v
  <2>1. c # NoUri
    BY <1>1, NoUriIsNone
  <2> QED BY <1>1, <1>4, <2>1 DEF Tops
<1>6. c \in Tops(w) => v = w
  <2> SUFFICES ASSUME c \in Tops(w) PROVE v = w
    OBVIOUS
  <2>1. w.top[Last(c)] = c
    BY TopsAre
  <2>2. v.top \in [Segments -> Folders(files) \cup {NoUri}] /\ v = [marked |-> v.marked, top |-> v.top]
    <3> HIDE DEF v
    <3> QED BY <1>2, MarksAre
  <2> HIDE DEF v
  <2>3. v.top = w.top
    BY <1>3, <1>4, <2>1, <2>2
  <2> QED BY <1>3, <1>4, <2>2, <2>3
<1> QED BY <1>2, <1>4, <1>5, <1>6

-----------------------------------------------------------------------------
(* Unmarking where nothing is promoted.                                    *)

Clear(files, w, u) ==
    [marked |-> w.marked \ iterateNodeTree(files, u),
     top |-> deleteExactTopLevel(w.top, iterateNodeTree(files, u))]

\* Above e nothing is marked, and what is marked beside the way to e is top-level.
Quiet(files, w, e) ==
    \A a \in Known(files) : Under(e, a) /\ a # e =>
       /\ a \notin w.marked /\ a \notin Tops(w)
       /\ \A c \in Known(files) : Front(c) = a /\ c \in w.marked /\ ~Under(c, e) => c \in Tops(w)

\* What clearing all below a node comes to.
LEMMA ClearIs ==
    ASSUME NEW files \in SUBSET Files, NEW w \in Marks(files), NEW u
    PROVE  LET v == Clear(files, w, u)
           IN /\ v \in Marks(files) /\ v.marked = {n \in w.marked : ~Under(n, u)}
              /\ Tops(v) = {s \in Tops(w) : ~Under(s, u)}
              /\ \A m \in Segments : w.top[m] # NoUri =>
                    v.top[m] = IF Under(w.top[m], u) THEN NoUri ELSE w.top[m]
<1> DEFINE below == iterateNodeTree(files, u)
           v == Clear(files, w, u)
<1>1. w.marked \ below \subseteq Known(files)
  BY TopsAre
<1>2. /\ v \in Marks(files) /\ v.marked = w.marked \ below /\ Tops(v) = Tops(w) \ below
      /\ \A m \in Segments : v.top[m] = IF w.top[m] \in below THEN NoUri ELSE w.top[m]
  <2>1. v = [marked |-> w.marked \ below, top |-> deleteExactTopLevel(w.top, below)]
    BY DEF Clear
  <2> HIDE DEF below, v
  <2>2. Deletes(files, w, v, w.marked \ below, below)
    BY <1>1, <2>1, DeletedTops
  <2> QED BY <2>2 DEF Deletes
<1>3. \A n \in Known(files) : n \in below <=> Under(n, u)
  BY DEF iterateNodeTree
<1> HIDE DEF below, v
<1>4. v.marked = {n \in w.marked : ~Under(n, u)} /\ Tops(v) = {s \in Tops(w) : ~Under(s, u)}
  BY <1>2, <1>3, TopsAre
<1>5. ASSUME NEW m \in Segments, w.top[m] # NoUri
      PROVE  v.top[m] = IF Under(w.top[m], u) THEN NoUri ELSE w.top[m]
  <2>1. w.top[m] \in Known(files)
    BY <1>5, TopsAre
  <2> QED BY <1>2, <1>3, <2>1
<1> QED BY <1>2, <1>4, <1>5 DEF v

\* A child that is not marked or is top-level already is left alone.
LEMMA PromoteNothing ==
    ASSUME NEW files \in SUBSET Files, NEW unmark, NEW w \in Marks(files), NEW c,
           c \in w.marked => c \in Tops(w)
    PROVE  Promote(unmark, files, w, c) = w
<1>1. CASE c \notin w.marked
  BY <1>1 DEF Promote
<1>2. CASE c \in Tops(w)
  <2>1. c \in Folders(files) /\ w.top[Last(c)] = c /\ 0 < Len(c) /\ c \in Uris
    BY <1>2, TopsAre
  <2>2. c # <<>>
    BY <2>1
  <2>3. unmarkConflictingTopLevelFolder(unmark, w, c) = w
    BY <2>1, <2>2 DEF unmarkConflictingTopLevelFolder, getTopLevelModuleName, Root
  <2>4. [w EXCEPT !.top[Last(c)] = c] = w
    BY <1>2, <2>1, AddedTop
  <2> QED BY <2>1, <2>3, <2>4 DEF Promote
<1> QED BY <1>1, <1>2

\* A fold that changes nothing may be followed with one-element sets.
LEMMA StaysReaches ==
    ASSUME NEW S, NEW T, NEW seq \in Seq(T), NEW F, NEW x \in S, \A c \in T : F[<<x, c>>] = x
    PROVE  /\ Reaches([i \in 0..Len(seq) |-> {x}], S, seq, F)
           /\ x \in [i \in 0..Len(seq) |-> {x}][0] /\ [i \in 0..Len(seq) |-> {x}][Len(seq)] = {x}
BY DEF Reaches

\* If all children are so, promotion changes nothing.
LEMMA PromoteAllNothing ==
    ASSUME NEW files \in SUBSET Files, NEW unmark \in Unmarkings(files), NEW w \in Marks(files),
           NEW T \in SUBSET Known(files), NEW seq \in Seq(T), \A c \in T : c \in w.marked => c \in Tops(w)
    PROVE  PromoteAll(unmark, files, w, seq) = w
<1> DEFINE S == Marks(files)
           F == [p \in S \X T |-> Promote(unmark, files, p[1], p[2])]
           P == [i \in 0..Len(seq) |-> {w}]
<1>1. \A v \in S, c \in T : Promote(unmark, files, v, c) \in S
  BY PromoteType
<1>2. PromoteRule(F, unmark, files, S, T)
  BY <1>1 DEF PromoteRule
<1>3. \A c \in T : F[<<w, c>>] = w
  BY PromoteNothing
<1>4. Reaches(P, S, seq, F) /\ w \in P[0] /\ P[Len(seq)] = {w}
  <2> HIDE DEF S, F
  <2> QED BY <1>3, StaysReaches DEF S
<1>5. PromoteAll(unmark, files, w, seq) \in P[Len(seq)]
  <2> HIDE DEF S, F, P
  <2> QED BY <1>2, <1>4, PromoteFold
<1> QED BY <1>4, <1>5

\* An unmarked ancestor changes nothing when its marked children are top-level.
LEMMA AncestorNothing ==
    ASSUME NEW files \in SUBSET Files, NEW unmark \in Unmarkings(files), NEW w \in Marks(files),
           NEW a, a \notin w.marked, a \notin Tops(w),
           \A c \in Known(files) : Front(c) = a /\ c \in w.marked => c \in Tops(w)
    PROVE  UnmarkAncestor(unmark, files, w, a) = w
<1> DEFINE T == {n \in Known(files) : Front(n) = a}
           seq == getChildNodes(files, a)
<1>1. w.marked \ {a} = w.marked /\ {a} \cap Tops(w) = {}
  OBVIOUS
<1>2. [marked |-> w.marked \ {a}, top |-> deleteExactTopLevel(w.top, {a})] = w
  BY <1>1, NothingDeleted
<1>3. seq \in Seq(T) /\ T \in SUBSET Known(files) /\ \A c \in T : c \in w.marked => c \in Tops(w)
  BY ChildrenAre DEF Enumerates
<1>4. PromoteAll(unmark, files, w, seq) = w
  <2> HIDE DEF T, seq
  <2> QED BY <1>3, PromoteAllNothing
<1> QED BY <1>2, <1>4 DEF UnmarkAncestor, PromoteAll

\* Unmarking a folder above which nothing is marked clears what is below it, and no more.
LEMMA QuietStep ==
    ASSUME NEW files \in SUBSET Files, NEW unmark \in Unmarkings(files), NEW w \in Marks(files),
           NEW e, e \in Known(files) => Quiet(files, w, e)
    PROVE  UnmarkStep(unmark, files, w, e) = Clear(files, w, e)
<1> DEFINE S == Marks(files)
           seq == iterateAncestors(files, e)
           T == {a \in Known(files) : e \in Known(files) /\ Under(e, a) /\ a # e}
           x == Clear(files, w, e)
           F == [p \in S \X T |-> UnmarkAncestor(unmark, files, p[1], p[2])]
           P == [i \in 0..Len(seq) |-> {x}]
<1>1. seq \in Seq(T)
  <2>1. CASE e \in Known(files)
    <3>1. seq \in Seq(Folders(files)) /\ \A i \in 1..Len(seq) : Under(e, seq[i]) /\ seq[i] # e
      BY <2>1, AncestorsAre
    <3>2. \A i \in 1..Len(seq) : seq[i] \in T
      BY <2>1, <3>1, TreeIs
    <3> HIDE DEF T, seq
    <3> QED BY <3>1, <3>2
  <2>2. CASE e \notin Known(files)
    BY <2>2 DEF iterateAncestors
  <2> QED BY <2>1, <2>2
<1>2. /\ x \in Marks(files) /\ x.marked = {n \in w.marked : ~Under(n, e)}
      /\ Tops(x) = {s \in Tops(w) : ~Under(s, e)}
  BY ClearIs
<1> HIDE DEF x
<1>3. ASSUME NEW a \in T PROVE UnmarkAncestor(unmark, files, x, a) = x
  <2>1. a \notin x.marked /\ a \notin Tops(x)
    BY <1>2 DEF Quiet
  <2>2. \A c \in Known(files) : Front(c) = a /\ c \in x.marked => c \in Tops(x)
    BY <1>2 DEF Quiet
  <2> QED BY <1>2, <2>1, <2>2, AncestorNothing
<1>4. \A v \in S, c \in T : UnmarkAncestor(unmark, files, v, c) \in S
  BY UnmarkAncestorType
<1>5. AncestorRule(F, unmark, files, S, T)
  BY <1>4 DEF AncestorRule
<1>6. \A c \in T : F[<<x, c>>] = x
  BY <1>2, <1>3
<1>7. Reaches(P, S, seq, F) /\ x \in P[0] /\ P[Len(seq)] = {x}
  <2> HIDE DEF S, F, T, seq
  <2> QED BY <1>1, <1>2, <1>6, StaysReaches DEF S
<1>8. UnmarkAncestors(unmark, files, x, seq) \in P[Len(seq)]
  <2> HIDE DEF S, F, P, T, seq
  <2> QED BY <1>1, <1>5, <1>7, AncestorFold
<1> QED BY <1>7, <1>8 DEF UnmarkStep, UnmarkAncestors, x, Clear

\* Unmarking an outermost top-level folder promotes nothing.
LEMMA OutermostQuiet ==
    ASSUME NEW files \in SUBSET Files, NEW w, OK(files, w), NEW e \in Known(files), Outermost(w, e)
    PROVE  Quiet(files, w, e)
<1>1. \A s \in Tops(w) : s \in Uris
  BY TopsAre DEF OK
<1>2. e \in Uris /\ \A n \in Known(files) : n \in Uris /\ 0 < Len(n)
  BY TreeIs
<1> SUFFICES ASSUME NEW a \in Known(files), Under(e, a), a # e
             PROVE  /\ a \notin w.marked /\ a \notin Tops(w)
                    /\ \A c \in Known(files) :
                          Front(c) = a /\ c \in w.marked /\ ~Under(c, e) => c \in Tops(w)
  BY DEF Quiet
<1>3. ASSUME NEW s \in Tops(w), Under(a, s) PROVE FALSE
  <2>1. Under(e, s)
    BY <1>1, <1>2, <1>3, UnderOrder
  <2>2. s = e
    BY <2>1 DEF Outermost
  <2> QED BY <1>2, <1>3, <2>2, UnderOrder
<1>4. a \notin w.marked
  BY <1>3 DEF OK, Covered
<1>5. a \notin Tops(w)
  BY <1>2, <1>3, UnderOrder
<1>6. ASSUME NEW c \in Known(files), Front(c) = a, c \in w.marked PROVE c \in Tops(w)
  <2>1. PICK s \in Tops(w) : Under(c, s)
    BY <1>6 DEF OK, Covered
  <2>2. CASE s # c
    BY <1>1, <1>2, <1>3, <1>6, <2>1, <2>2, ParentIs
  <2> QED BY <2>2
<1> QED BY <1>4, <1>5, <1>6

\* What is left when all nodes below u go is still marked in top-level folders only, if no
\* top-level folder reaches into u from above.
LEMMA ClearOK ==
    ASSUME NEW files \in SUBSET Files, NEW w, OK(files, w), NEW u \in Uris,
           \A n \in Known(files), s \in Tops(w) : Under(n, u) /\ Under(n, s) => Under(s, u)
    PROVE  OK(files, Clear(files, w, u))
<1> DEFINE v == Clear(files, w, u)
<1>1. /\ v \in Marks(files) /\ v.marked = {n \in w.marked : ~Under(n, u)}
      /\ Tops(v) = {s \in Tops(w) : ~Under(s, u)}
  BY ClearIs DEF OK
<1> HIDE DEF v
<1>2. ASSUME NEW n \in Known(files), NEW s \in Tops(w), Under(n, s), Under(s, u)
      PROVE  Under(n, u)
  BY <1>2, TopsAre, TreeIs, UnderOrder DEF OK
<1>3. v.marked = {n \in Known(files) : Covered(n, v)}
  BY <1>1, <1>2 DEF OK, Covered
<1> QED BY <1>1, <1>3 DEF v, OK

-----------------------------------------------------------------------------
(* Unmarking a folder u in a top-level folder t: the way from u up to t,   *)
(* the nodes beside it, and the other top-level folders.                   *)

OnWay(t, u, n) == Under(n, t) /\ Under(u, n) /\ n # u
Beside(files, t, u) == {c \in Known(files) : OnWay(t, u, Front(c)) /\ ~Under(u, c)}

\* The parts that marks are made of, but for the nodes on the way.
Parts(files, w, t, u) == Beside(files, t, u) \cup (Tops(w) \ {t})

\* What unmarking starts from.
Setting(files, w, t, u) ==
    /\ files \in SUBSET Files /\ OK(files, w) /\ Apart(w)
    /\ t \in Tops(w) /\ u \in Known(files) /\ Under(u, t) /\ u # t /\ ~Namesake(files, u, t)

\* Everything in sight is a URI.
LEMMA InSight ==
    ASSUME NEW files, NEW w, NEW t, NEW u, Setting(files, w, t, u)
    PROVE  /\ t \in Known(files) /\ t \in Folders(files) /\ t \in Uris /\ 0 < Len(t) /\ u \in Uris
           /\ \A n \in Known(files) : n \in Uris /\ 0 < Len(n) /\ Front(n) \in Uris
           /\ \A n \in Folders(files) : n \in Known(files) /\ n \in Seq(Segments) /\ Last(n) \in Segments
           /\ \A s \in Tops(w) : s \in Folders(files)
           /\ \A c \in Parts(files, w, t, u) : c \in Known(files)
           /\ OnWay(t, u, t) /\ w \in Marks(files)
<1>1. files \in SUBSET Files /\ w \in Marks(files) /\ t \in Tops(w) /\ u \in Known(files) /\ Under(u, t) /\ u # t
  BY DEF Setting, OK
<1>2. \A s \in Tops(w) : s \in Folders(files)
  BY <1>1, TopsAre
<1>3. \A n \in Known(files) : n \in Uris /\ 0 < Len(n)
  BY <1>1, TreeIs
<1>4. \A n \in Known(files) : Front(n) \in Uris
  BY <1>3, ParentIs
<1>5. \A n \in Folders(files) : n \in Known(files) /\ n \in Seq(Segments) /\ Last(n) \in Segments
  BY <1>1, TreeIs
<1>6. t \in Known(files) /\ t \in Uris /\ u \in Uris
  BY <1>1, <1>2, <1>3, <1>5
<1>7. OnWay(t, u, t)
  BY <1>1, <1>6, UnderOrder DEF OnWay
<1>8. \A c \in Parts(files, w, t, u) : c \in Known(files)
  BY <1>2, <1>5 DEF Parts, Beside
<1> QED BY <1>1, <1>2, <1>3, <1>4, <1>5, <1>6, <1>7, <1>8

\* The parts have no nodes in common with each other or with the way up from u.
LEMMA PartsApart ==
    ASSUME NEW files, NEW w, NEW t, NEW u, Setting(files, w, t, u)
    PROVE  /\ \A c \in Beside(files, t, u) : Under(c, t) /\ c \notin Tops(w) /\ Under(c, Front(c)) /\ c # Front(c)
           /\ \A s \in Tops(w) \ {t} : ~Under(s, t)
           /\ \A c \in Parts(files, w, t, u) : ~Under(c, u) /\ ~Under(t, c)
           /\ \A c \in Parts(files, w, t, u), a \in Uris : Under(u, a) => ~Under(a, c)
           /\ \A c, d \in Parts(files, w, t, u), n \in Uris : Under(n, c) /\ Under(n, d) => c = d
<1>1. /\ t \in Uris /\ u \in Uris /\ Under(u, t)
      /\ \A s \in Tops(w) : s \in Uris
      /\ \A c \in Parts(files, w, t, u) : c \in Uris /\ 0 < Len(c) /\ Front(c) \in Uris
      /\ \A c \in Beside(files, t, u) : c \in Uris /\ 0 < Len(c) /\ Front(c) \in Uris
  BY InSight DEF Setting, Parts
<1>2. \A s, r \in Tops(w) : Under(s, r) => s = r
  BY DEF Setting, Apart, Outermost
<1>3. t \in Tops(w)
  BY DEF Setting
<1>4. ASSUME NEW s \in Tops(w), s # t, NEW n \in Uris, Under(n, s), Under(n, t) PROVE FALSE
  <2>1. Under(s, t) \/ Under(t, s)
    BY <1>1, <1>4, UnderOrder
  <2> QED BY <1>2, <1>3, <1>4, <2>1
<1>5. ASSUME NEW c \in Beside(files, t, u)
      PROVE  /\ Under(c, Front(c)) /\ c # Front(c) /\ Under(c, t) /\ ~Under(u, c) /\ ~Under(c, u)
             /\ Under(u, Front(c)) /\ Under(Front(c), t)
  <2>1. Under(c, Front(c)) /\ Front(c) # c /\ \A s \in Uris : Under(c, s) /\ s # c => Under(Front(c), s)
    BY <1>1, ParentIs
  <2>2. Under(Front(c), t) /\ Under(u, Front(c)) /\ Front(c) # u /\ ~Under(u, c)
    BY DEF Beside, OnWay
  <2>3. Under(c, t) /\ Under(u, u)
    BY <1>1, <2>1, <2>2, UnderOrder
  <2>4. ASSUME Under(c, u) PROVE FALSE
    <3>1. Under(Front(c), u)
      BY <1>1, <2>1, <2>2, <2>3, <2>4
    <3> QED BY <1>1, <2>2, <3>1, UnderOrder
  <2> QED BY <2>1, <2>2, <2>3, <2>4
<1>6. ASSUME NEW c \in Beside(files, t, u) PROVE c \notin Tops(w)
  <2>1. c = t => Under(u, c)
    BY <1>1
  <2>2. Under(c, c)
    BY <1>1, UnderOrder
  <2> QED BY <1>1, <1>4, <1>5, <2>1, <2>2
<1>7. \A s \in Tops(w) \ {t} : ~Under(s, t)
  <2>1. \A s \in Tops(w) : Under(s, s)
    BY <1>1, UnderOrder
  <2> QED BY <1>1, <1>4, <2>1
<1>8. ASSUME NEW c \in Parts(files, w, t, u), NEW a \in Uris, Under(u, a) PROVE ~Under(a, c)
  <2> SUFFICES ASSUME Under(a, c) PROVE FALSE
    OBVIOUS
  <2>1. Under(u, c)
    BY <1>1, <1>8, UnderOrder
  <2> QED BY <1>1, <1>4, <1>5, <2>1 DEF Parts
<1>9. ASSUME NEW c \in Parts(files, w, t, u) PROVE ~Under(c, u) /\ ~Under(t, c)
  <2>1. ~Under(t, c)
    BY <1>1, <1>8
  <2>2. CASE c \in Beside(files, t, u)
    BY <1>5, <2>1, <2>2
  <2>3. CASE c \in Tops(w) \ {t}
    BY <1>1, <1>7, <2>1, <2>3, UnderOrder
  <2> QED BY <2>2, <2>3 DEF Parts
<1>10. ASSUME NEW c \in Beside(files, t, u), NEW d \in Beside(files, t, u), Under(d, c) PROVE d = c
  <2> SUFFICES ASSUME c # d PROVE FALSE
    OBVIOUS
  <2>1. Under(Front(d), c)
    BY <1>1, <1>10, ParentIs
  <2>2. Under(u, c)
    BY <1>1, <1>5, <2>1, UnderOrder
  <2> QED BY <1>5, <2>2
<1>11. ASSUME NEW c \in Parts(files, w, t, u), NEW d \in Parts(files, w, t, u), NEW n \in Uris,
              Under(n, c), Under(n, d)
       PROVE  c = d
  <2>1. Under(c, d) \/ Under(d, c)
    BY <1>1, <1>11, UnderOrder
  <2>2. CASE c \in Beside(files, t, u) /\ d \in Beside(files, t, u)
    BY <1>10, <2>1, <2>2
  <2>3. CASE c \in Tops(w) \ {t} /\ d \in Tops(w) \ {t}
    BY <1>2, <2>1, <2>3
  <2>4. ASSUME NEW x \in Beside(files, t, u), NEW s \in Tops(w) \ {t}, Under(n, x), Under(n, s) PROVE FALSE
    <3>1. Under(n, t)
      BY <1>1, <1>5, <2>4, UnderOrder
    <3> QED BY <1>4, <2>4, <3>1
  <2> QED BY <1>11, <2>2, <2>3, <2>4 DEF Parts
<1> QED BY <1>5, <1>6, <1>7, <1>8, <1>9, <1>11

\* A node in t is on the way, in a part beside it, or in u.
LEMMA OnWayOrBeside ==
    ASSUME NEW files, NEW w, NEW t, NEW u, Setting(files, w, t, u),
           NEW n \in Known(files), Under(n, t), ~Under(n, u)
    PROVE  OnWay(t, u, n) \/ \E c \in Beside(files, t, u) : Under(n, c)
<1> DEFINE Aside == {a \in Uris : Under(n, a) /\ ~Under(u, a)}
           N == {Len(a) : a \in Aside}
<1>1. /\ t \in Uris /\ u \in Uris /\ n \in Uris /\ Under(u, t) /\ 0 < Len(t) /\ files \in SUBSET Files
      /\ Under(n, n) /\ Under(u, u)
  BY InSight, UnderOrder DEF Setting
<1>2. CASE Under(u, n)
  BY <1>1, <1>2 DEF OnWay
<1>3. CASE ~Under(u, n)
  <2>1. n \in Aside /\ N # {} /\ N \in SUBSET Nat
    BY <1>1, <1>3 DEF Uris
  <2>2. PICK m \in N : \A q \in N : m <= q
    <3> HIDE DEF N
    <3> QED BY <2>1, LeastNumber
  <2>3. PICK c \in Aside : m = Len(c)
    OBVIOUS
  <2>4. c \in Uris /\ Under(n, c) /\ ~Under(u, c) /\ Len(c) \in Nat
    BY DEF Uris
  <2>5. 0 < Len(c)
    <3>1. c = <<>> => Under(u, c)
      BY <1>1, UnderOrder
    <3> QED BY <2>4, <3>1 DEF Uris
  <2>6. /\ Front(c) \in Uris /\ Len(Front(c)) = Len(c) - 1 /\ Under(c, Front(c))
        /\ \A s \in Uris : Under(c, s) /\ s # c => Under(Front(c), s)
    BY <2>4, <2>5, ParentIs
  <2>7. Under(u, Front(c))
    <3>1. Under(n, Front(c))
      BY <1>1, <2>4, <2>6, UnderOrder
    <3>2. Front(c) \in Aside => Len(c) <= Len(c) - 1
      BY <2>2, <2>3, <2>6
    <3> QED BY <2>4, <2>6, <3>1, <3>2
  <2>8. Under(Front(c), t)
    <3>1. Under(c, t) \/ Under(t, c)
      BY <1>1, <2>4, UnderOrder
    <3>2. ~Under(t, c)
      BY <1>1, <2>4, UnderOrder
    <3> QED BY <1>1, <2>4, <2>6, <3>1, <3>2
  <2>9. Front(c) # u
    <3>1. Under(n, Front(c))
      BY <1>1, <2>4, <2>6, UnderOrder
    <3> QED BY <3>1
  <2>10. c \in Known(files)
    <3>1. n # c => c \in Folders(files)
      BY <1>1, <2>4, <2>5, TreeIs
    <3> QED BY <1>1, <3>1, TreeIs
  <2> QED BY <2>4, <2>7, <2>8, <2>9, <2>10 DEF Beside, OnWay
<1> QED BY <1>2, <1>3

-----------------------------------------------------------------------------
(* Marks while a folder is unmarked.                                       *)

\* Marks while a folder is unmarked: what is marked is on the way or in a part that is marked as
\* a whole, and of the top-level folders there were the marked ones are still top-level.
Shape(files, w, t, u, x) ==
    LET parts == Parts(files, w, t, u) IN
    /\ x \in Marks(files) /\ Tops(x) \subseteq {t} \cup parts
    /\ \A n \in x.marked : OnWay(t, u, n) \/ \E c \in parts \cap x.marked : Under(n, c)
    /\ \A c \in parts \cap x.marked, n \in Known(files) : Under(n, c) => n \in x.marked
    /\ \A s \in Tops(w) : s \in Tops(x) <=> s \in x.marked

\* The parts that are still to be promoted, and the top-level ones that are not marked.
Pending(files, w, t, u, x) == (Parts(files, w, t, u) \cap x.marked) \ Tops(x)
Unsound(files, w, t, u, x) == (Parts(files, w, t, u) \cap Tops(x)) \ x.marked

\* At most one top-level part is not marked, and one of its name is to be promoted; a part
\* to be promoted is further up than the top-level one beside the way that has its name.
Names1(files, w, t, u, x) ==
    /\ \A s, r \in Unsound(files, w, t, u, x) : s = r
    /\ \A s \in Unsound(files, w, t, u, x) :
          \E c \in Pending(files, w, t, u, x) \cap Folders(files) : Last(c) = Last(s)
Names2(files, w, t, u, x) ==
    \A c \in Pending(files, w, t, u, x) \cap Folders(files), e \in Beside(files, t, u) \cap Tops(x) :
        Last(c) = Last(e) => Under(Front(e), Front(c)) /\ Front(e) # Front(c)

\* Up to b the way has lost its marks, and what was beside it is promoted, but for open.
UpTo(files, w, t, u, x, b, open) ==
    /\ \A c \in Pending(files, w, t, u, x) : c \in open \/ (Under(b, Front(c)) /\ b # Front(c))
    /\ \A n \in x.marked : OnWay(t, u, n) => Under(b, n) /\ b # n

\* The name of a part that has lost its mark since y is another's, or will be.
Held(files, w, t, u, y, x) ==
    /\ x.marked \subseteq y.marked
    /\ \A c \in (Parts(files, w, t, u) \cap Folders(files) \cap y.marked) \ x.marked :
          \/ x.top[Last(c)] \notin {NoUri, t}
          \/ \E p \in Pending(files, w, t, u, x) \cap Folders(files) : Last(p) = Last(c)

\* All of it, between two steps of unmarking.
Between(files, w, t, u, y, x, b, open) ==
    /\ Shape(files, w, t, u, x) /\ Names1(files, w, t, u, x) /\ Names2(files, w, t, u, x)
    /\ UpTo(files, w, t, u, x, b, open) /\ Held(files, w, t, u, y, x)

\* How much there is to unmark: what bounds the depth of the calls.
Size(files, w, t, u, x) ==
    2 * Cardinality(x.marked) + (IF Unsound(files, w, t, u, x) = {} THEN 0 ELSE 1)

\* What is to be promoted is beside the way, and so is what is top-level without a mark.
LEMMA PendingIs ==
    ASSUME NEW files, NEW w, NEW t, NEW u, Setting(files, w, t, u), NEW x, Shape(files, w, t, u, x)
    PROVE  /\ \A c \in Pending(files, w, t, u, x) \cup Unsound(files, w, t, u, x) :
                 /\ c \in Beside(files, t, u) /\ c \in Parts(files, w, t, u) /\ c \notin Tops(w)
                 /\ c \in Known(files) /\ c \in Uris /\ 0 < Len(c) /\ Front(c) \in Uris
                 /\ OnWay(t, u, Front(c)) /\ ~Under(u, c)
           /\ x \in Marks(files) /\ x.marked \subseteq Known(files)
           /\ \A s \in Tops(x) : /\ s \in Folders(files) /\ s \in Uris /\ Last(s) \in Segments
                                /\ x.top[Last(s)] = s /\ s # NoUri
           /\ \A m \in Segments : x.top[m] # NoUri => x.top[m] \in Tops(x) /\ Last(x.top[m]) = m
<1>1. files \in SUBSET Files /\ x \in Marks(files)
  BY DEF Setting, Shape
<1>2. ASSUME NEW c \in Pending(files, w, t, u, x) \cup Unsound(files, w, t, u, x)
      PROVE  c \in Beside(files, t, u) /\ c \in Parts(files, w, t, u) /\ c \notin Tops(w)
  <2>1. c \notin Tops(w)
    BY <1>2 DEF Pending, Unsound, Shape
  <2> QED BY <1>2, <2>1 DEF Pending, Unsound, Parts
<1>3. \A c \in Beside(files, t, u) : OnWay(t, u, Front(c)) /\ ~Under(u, c)
  BY DEF Beside
<1>4. /\ \A c \in Parts(files, w, t, u) : c \in Known(files)
      /\ \A n \in Known(files) : n \in Uris /\ 0 < Len(n) /\ Front(n) \in Uris
  BY InSight
<1>5. /\ x.marked \subseteq Known(files)
      /\ \A s \in Tops(x) : /\ s \in Folders(files) /\ s \in Uris /\ Last(s) \in Segments
                            /\ x.top[Last(s)] = s /\ s # NoUri
      /\ \A m \in Segments : x.top[m] # NoUri => x.top[m] \in Tops(x) /\ Last(x.top[m]) = m
  BY <1>1, TopsAre
<1> QED BY <1>1, <1>2, <1>3, <1>4, <1>5

\* A step that unmarks something, or ends that a top-level folder is not marked, makes it less.
LEMMA SizeIs ==
    ASSUME NEW files \in SUBSET Files, NEW w, NEW t, NEW u, NEW x \in Marks(files), NEW z \in Marks(files),
           z.marked \subseteq x.marked
    PROVE  /\ Size(files, w, t, u, x) \in Nat /\ Size(files, w, t, u, z) \in Nat
           /\ Size(files, w, t, u, x) <= 2 * Cardinality(Known(files)) + 1
           /\ Unsound(files, w, t, u, z) \subseteq Unsound(files, w, t, u, x)
                => Size(files, w, t, u, z) <= Size(files, w, t, u, x)
           /\ z.marked # x.marked => Size(files, w, t, u, z) < Size(files, w, t, u, x)
           /\ Unsound(files, w, t, u, z) = {} /\ Unsound(files, w, t, u, x) # {}
                => Size(files, w, t, u, z) < Size(files, w, t, u, x)
<1>1. IsFiniteSet(Known(files)) /\ x.marked \subseteq Known(files) /\ z.marked \subseteq Known(files)
  BY KnownFinite, MarksAre
<1>2. IsFiniteSet(x.marked) /\ IsFiniteSet(z.marked)
  BY <1>1, FS_Subset
<1>3. Cardinality(Known(files)) \in Nat /\ Cardinality(x.marked) \in Nat /\ Cardinality(z.marked) \in Nat
  BY <1>1, <1>2, FS_CardinalityType
<1>4. Cardinality(x.marked) <= Cardinality(Known(files)) /\ Cardinality(z.marked) <= Cardinality(x.marked)
  BY <1>1, <1>2, FS_Subset
<1>5. z.marked # x.marked => Cardinality(z.marked) < Cardinality(x.marked)
  BY <1>2, <1>3, FS_Subset
<1> DEFINE a == Cardinality(x.marked)
           c == Cardinality(z.marked)
           k == Cardinality(Known(files))
           p == Unsound(files, w, t, u, x)
           q == Unsound(files, w, t, u, z)
<1>6. /\ Size(files, w, t, u, x) = 2 * a + (IF p = {} THEN 0 ELSE 1)
      /\ Size(files, w, t, u, z) = 2 * c + (IF q = {} THEN 0 ELSE 1)
  BY DEF Size
<1> HIDE DEF a, c, k, p, q
<1>7. a \in Nat /\ c \in Nat /\ k \in Nat /\ a <= k /\ c <= a /\ (z.marked # x.marked => c < a)
  BY <1>3, <1>4, <1>5 DEF a, c, k
<1>8. q \subseteq p => (p = {} => q = {})
  OBVIOUS
<1>9. /\ Size(files, w, t, u, x) \in Nat /\ Size(files, w, t, u, z) \in Nat
      /\ Size(files, w, t, u, x) <= 2 * k + 1
  BY <1>6, <1>7
<1>10. q \subseteq p => Size(files, w, t, u, z) <= Size(files, w, t, u, x)
  BY <1>6, <1>7, <1>8
<1>11. z.marked # x.marked => Size(files, w, t, u, z) < Size(files, w, t, u, x)
  BY <1>6, <1>7
<1>12. q = {} /\ p # {} => Size(files, w, t, u, z) < Size(files, w, t, u, x)
  BY <1>6, <1>7
<1> QED BY <1>9, <1>10, <1>11, <1>12 DEF k, p, q

\* How it starts: all below u is cleared.
LEMMA Start ==
    ASSUME NEW files, NEW w, NEW t, NEW u, Setting(files, w, t, u), NEW x, x = Clear(files, w, u)
    PROVE  /\ Between(files, w, t, u, w, x, u, {})
           /\ x.marked = {n \in w.marked : ~Under(n, u)} /\ x.marked # w.marked
           /\ Unsound(files, w, t, u, x) = {}
<1> DEFINE parts == Parts(files, w, t, u)
<1>1. /\ files \in SUBSET Files /\ w \in Marks(files) /\ t \in Tops(w) /\ u \in Known(files)
      /\ Under(u, t) /\ u # t /\ w.marked = {n \in Known(files) : Covered(n, w)}
  BY DEF Setting, OK
<1>2. x \in Marks(files) /\ x.marked = {n \in w.marked : ~Under(n, u)} /\ Tops(x) = {s \in Tops(w) : ~Under(s, u)}
  BY <1>1, ClearIs
<1>3. /\ \A c \in Beside(files, t, u) : Under(c, t) /\ c \notin Tops(w)
      /\ \A c \in parts : ~Under(c, u)
      /\ \A c \in parts, a \in Uris : Under(u, a) => ~Under(a, c)
  BY PartsApart
<1>4. /\ t \in Uris /\ u \in Uris /\ \A n \in Known(files) : n \in Uris
      /\ \A c \in parts : c \in Known(files) /\ c \in Uris /\ Under(c, c)
      /\ t \in Known(files) /\ Under(t, t) /\ Under(u, u) /\ ~Under(t, u)
  BY <1>1, InSight, UnderOrder
<1>5. Tops(x) = Tops(w)
  <2>1. \A s \in Tops(w) \ {t} : s \in parts
    BY DEF Parts
  <2> QED BY <1>2, <1>3, <1>4, <2>1
<1> HIDE DEF parts
<1>6. Tops(w) \subseteq {t} \cup parts /\ (Tops(w) \ {t}) \subseteq parts /\ Beside(files, t, u) \subseteq parts
      /\ \A c \in parts : c \in Beside(files, t, u) \/ (c \in Tops(w) /\ c # t)
  BY DEF parts, Parts
<1>7. \A c \in parts : c \in x.marked
  <2>1. \A c \in Tops(w) : c \in Known(files) => c \in w.marked
    BY <1>1, <1>4, UnderOrder DEF Covered
  <2>2. \A c \in Beside(files, t, u) : c \in Known(files) => c \in w.marked
    BY <1>1, <1>3 DEF Covered
  <2> QED BY <1>2, <1>3, <1>4, <1>6, <2>1, <2>2
<1>8. Pending(files, w, t, u, x) \subseteq Beside(files, t, u) /\ Unsound(files, w, t, u, x) = {}
  BY <1>5, <1>6, <1>7 DEF Pending, Unsound, parts
<1>9. ASSUME NEW n \in x.marked PROVE OnWay(t, u, n) \/ \E c \in parts \cap x.marked : Under(n, c)
  <2>1. n \in Known(files) /\ ~Under(n, u)
    BY <1>1, <1>2
  <2>2. PICK s \in Tops(w) : Under(n, s)
    BY <1>1, <1>2 DEF Covered
  <2>3. CASE s = t
    BY <1>6, <1>7, <2>1, <2>2, <2>3, OnWayOrBeside
  <2> QED BY <1>6, <1>7, <2>2, <2>3
<1>10. ASSUME NEW c \in parts, NEW n \in Known(files), Under(n, c) PROVE n \in x.marked
  <2>1. n \in w.marked
    <3>1. c \in Beside(files, t, u) => Under(n, t)
      BY <1>3, <1>4, <1>10, UnderOrder
    <3> QED BY <1>1, <1>6, <1>10, <3>1 DEF Covered
  <2>2. ~Under(n, u)
    <3>1. Under(n, u) => Under(u, c) \/ Under(c, u)
      BY <1>4, <1>10, UnderOrder
    <3> QED BY <1>3, <1>4, <3>1
  <2> QED BY <1>2, <2>1, <2>2
<1>11. ASSUME NEW s \in Tops(w) PROVE s \in x.marked
  <2>1. t \in w.marked
    BY <1>1, <1>4 DEF Covered
  <2> QED BY <1>2, <1>4, <1>6, <1>7, <2>1
<1>12. Shape(files, w, t, u, x)
  BY <1>2, <1>5, <1>6, <1>9, <1>10, <1>11 DEF Shape, parts
<1>13. Names1(files, w, t, u, x) /\ Names2(files, w, t, u, x)
  BY <1>3, <1>5, <1>8 DEF Names1, Names2
<1>14. UpTo(files, w, t, u, x, u, {})
  BY <1>8 DEF UpTo, Beside, OnWay
<1>15. Held(files, w, t, u, w, x)
  BY <1>2, <1>7 DEF Held, parts
<1>16. x.marked # w.marked
  BY <1>1, <1>2, <1>4 DEF Covered
<1> QED BY <1>2, <1>8, <1>12, <1>13, <1>14, <1>15, <1>16 DEF Between

-----------------------------------------------------------------------------
(* The steps that unmarking is made of.                                    *)

\* Clearing a top-level part leaves the other parts as they are.
LEMMA ClearKeeps ==
    ASSUME NEW files, NEW w, NEW t, NEW u, Setting(files, w, t, u), NEW x, Shape(files, w, t, u, x),
           NEW e \in Parts(files, w, t, u) \cap Tops(x), NEW z, z = Clear(files, x, e)
    PROVE  /\ Shape(files, w, t, u, z) /\ Tops(z) = Tops(x) \ {e}
           /\ z.marked = {n \in x.marked : ~Under(n, e)}
           /\ Pending(files, w, t, u, z) = Pending(files, w, t, u, x)
           /\ Unsound(files, w, t, u, z) = Unsound(files, w, t, u, x) \ {e}
           /\ \A m \in Segments : z.top[m] = IF x.top[m] = e THEN NoUri ELSE x.top[m]
           /\ \A c \in Parts(files, w, t, u) : c \in z.marked <=> c \in x.marked /\ c # e
<1> DEFINE parts == Parts(files, w, t, u)
<1>1. /\ files \in SUBSET Files /\ x \in Marks(files) /\ t \in Known(files) /\ t \in Uris
      /\ Tops(x) \subseteq {t} \cup parts /\ Tops(w) \subseteq {t} \cup parts
      /\ \A n \in Known(files) : n \in Uris /\ Under(n, n)
      /\ \A c \in parts : c \in Known(files)
  BY InSight, UnderOrder DEF Setting, Shape, Parts
<1>2. /\ z \in Marks(files) /\ z.marked = {n \in x.marked : ~Under(n, e)}
      /\ Tops(z) = {s \in Tops(x) : ~Under(s, e)}
      /\ \A m \in Segments : x.top[m] # NoUri => z.top[m] = IF Under(x.top[m], e) THEN NoUri ELSE x.top[m]
  BY <1>1, ClearIs
<1>3. /\ ~Under(t, e)
      /\ \A c \in parts, n \in Known(files) : Under(n, c) /\ Under(n, e) => c = e
  BY <1>1, PartsApart DEF parts
<1>4. \A c \in {t} \cup parts : Under(c, e) <=> c = e
  BY <1>1, <1>3
<1>5. Tops(z) = Tops(x) \ {e}
  BY <1>1, <1>2, <1>4
<1>6. \A c \in {t} \cup parts : c \in z.marked <=> c \in x.marked /\ c # e
  BY <1>2, <1>4
<1>7. \A m \in Segments : z.top[m] = IF x.top[m] = e THEN NoUri ELSE x.top[m]
  <2> SUFFICES ASSUME NEW m \in Segments PROVE z.top[m] = IF x.top[m] = e THEN NoUri ELSE x.top[m]
    OBVIOUS
  <2>1. CASE x.top[m] = NoUri
    <3>1. z.top[m] # NoUri => z.top[m] \in Tops(x) /\ Last(z.top[m]) = m
      BY <1>1, <1>2, TopsAre
    <3>2. z.top[m] \in Tops(x) => x.top[Last(z.top[m])] = z.top[m]
      BY <1>1, TopsAre
    <3> QED BY <2>1, <3>1, <3>2
  <2>2. CASE x.top[m] # NoUri
    <3>1. x.top[m] \in {t} \cup parts
      BY <1>1, <2>2, TopsAre
    <3> QED BY <1>2, <1>4, <2>2, <3>1
  <2> QED BY <2>1, <2>2
<1>8. Pending(files, w, t, u, z) = Pending(files, w, t, u, x)
  BY <1>5, <1>6 DEF Pending, parts
<1>9. Unsound(files, w, t, u, z) = Unsound(files, w, t, u, x) \ {e}
  BY <1>5, <1>6 DEF Unsound, parts
<1>10. ASSUME NEW n \in z.marked PROVE OnWay(t, u, n) \/ \E c \in parts \cap z.marked : Under(n, c)
  <2>1. n \in x.marked /\ ~Under(n, e)
    BY <1>2
  <2>2. CASE OnWay(t, u, n)
    BY <2>2
  <2>3. CASE \E c \in parts \cap x.marked : Under(n, c)
    BY <1>6, <2>1, <2>3
  <2> QED BY <2>1, <2>2, <2>3 DEF Shape, parts
<1>11. ASSUME NEW c \in parts \cap z.marked, NEW n \in Known(files), Under(n, c) PROVE n \in z.marked
  <2>1. c \in x.marked /\ c # e
    BY <1>6
  <2>2. n \in x.marked
    BY <1>11, <2>1 DEF Shape, parts
  <2> QED BY <1>2, <1>3, <1>11, <2>1, <2>2
<1>12. \A s \in Tops(w) : s \in Tops(z) <=> s \in z.marked
  <2>1. \A s \in Tops(w) : s \in Tops(x) <=> s \in x.marked
    BY DEF Shape
  <2> QED BY <1>1, <1>5, <1>6, <2>1
<1>13. Shape(files, w, t, u, z)
  BY <1>1, <1>2, <1>5, <1>10, <1>11, <1>12 DEF Shape, parts
<1> QED BY <1>2, <1>5, <1>6, <1>7, <1>8, <1>9, <1>13 DEF parts

\* So does clearing one when the folder that has its name next is to be promoted.
LEMMA ClearBetween ==
    ASSUME NEW files, NEW w, NEW t, NEW u, Setting(files, w, t, u), NEW y, NEW x, NEW b, NEW open,
           Between(files, w, t, u, y, x, b, open),
           NEW e \in Parts(files, w, t, u) \cap Tops(x),
           NEW c \in Pending(files, w, t, u, x) \cap Folders(files), Last(c) = Last(e),
           NEW z, z = Clear(files, x, e)
    PROVE  /\ Between(files, w, t, u, y, z, b, open) /\ z.marked \subseteq x.marked
           /\ Size(files, w, t, u, z) < Size(files, w, t, u, x)
<1> DEFINE pend == Pending(files, w, t, u, x)
           uns == Unsound(files, w, t, u, x)
           parts == Parts(files, w, t, u)
<1>1. Shape(files, w, t, u, x) /\ Names1(files, w, t, u, x) /\ Names2(files, w, t, u, x)
  BY DEF Between
<1>2. /\ Shape(files, w, t, u, z) /\ Tops(z) = Tops(x) \ {e} /\ z.marked = {n \in x.marked : ~Under(n, e)}
      /\ Pending(files, w, t, u, z) = pend /\ Unsound(files, w, t, u, z) = uns \ {e}
      /\ \A m \in Segments : z.top[m] = IF x.top[m] = e THEN NoUri ELSE x.top[m]
      /\ \A d \in parts : d \in z.marked <=> d \in x.marked /\ d # e
  BY <1>1, ClearKeeps DEF pend, uns, parts
<1> HIDE DEF pend, uns, parts
<1>3. Names1(files, w, t, u, z)
  BY <1>1, <1>2 DEF Names1, pend, uns
<1>4. Names2(files, w, t, u, z)
  BY <1>1, <1>2 DEF Names2, pend
<1>5. UpTo(files, w, t, u, z, b, open)
  BY <1>2 DEF Between, UpTo, pend
<1>6. Held(files, w, t, u, y, z)
  <2>1. z.marked \subseteq y.marked
    BY <1>2 DEF Between, Held
  <2> SUFFICES ASSUME NEW d \in (parts \cap Folders(files) \cap y.marked) \ z.marked
               PROVE  z.top[Last(d)] \notin {NoUri, t} \/ \E p \in pend \cap Folders(files) : Last(p) = Last(d)
    BY <1>2, <2>1 DEF Held, parts, pend
  <2>2. CASE d = e
    BY <2>2 DEF pend
  <2>3. CASE d # e
    <3>1. d \notin x.marked
      BY <1>2, <2>3
    <3>2. x.top[Last(d)] \notin {NoUri, t} \/ \E p \in pend \cap Folders(files) : Last(p) = Last(d)
      BY <3>1 DEF Between, Held, parts, pend
    <3>3. Last(d) \in Segments /\ Last(e) \in Segments
      BY <1>1, InSight, PendingIs
    <3>4. CASE x.top[Last(d)] = e
      <4>1. Last(d) = Last(e)
        BY <1>1, <3>3, <3>4, PendingIs
      <4> QED BY <4>1 DEF pend
    <3>5. CASE x.top[Last(d)] # e
      BY <1>2, <3>2, <3>3, <3>5
    <3> QED BY <3>4, <3>5
  <2> QED BY <2>2, <2>3
<1>7. Size(files, w, t, u, z) < Size(files, w, t, u, x)
  <2>1. files \in SUBSET Files /\ x \in Marks(files) /\ z \in Marks(files) /\ z.marked \subseteq x.marked
    BY <1>1, <1>2 DEF Setting, Shape
  <2>4. /\ z.marked # x.marked => Size(files, w, t, u, z) < Size(files, w, t, u, x)
        /\ Unsound(files, w, t, u, z) = {} /\ Unsound(files, w, t, u, x) # {}
             => Size(files, w, t, u, z) < Size(files, w, t, u, x)
    BY <2>1, SizeIs
  <2>2. CASE e \in x.marked
    <3>1. z.marked # x.marked
      BY <1>2, <2>2 DEF parts
    <3> QED BY <2>4, <3>1
  <2>3. CASE e \notin x.marked
    <3>1. e \in uns
      BY <2>3 DEF uns, Unsound
    <3>2. Unsound(files, w, t, u, z) = {} /\ Unsound(files, w, t, u, x) # {}
      BY <1>1, <1>2, <3>1 DEF Names1, uns
    <3> QED BY <2>4, <3>2
  <2> QED BY <2>2, <2>3
<1> QED BY <1>2, <1>3, <1>4, <1>5, <1>6, <1>7 DEF Between

\* Children of one node with the same name are the same.
LEMMA SameChild ==
    ASSUME NEW c \in Uris, NEW d \in Uris, 0 < Len(c), 0 < Len(d), Front(c) = Front(d), Last(c) = Last(d)
    PROVE  c = d
<1>1. /\ Len(Front(c)) = Len(c) - 1 /\ Len(Front(d)) = Len(d) - 1 /\ Len(c) \in Nat /\ Len(d) \in Nat
      /\ Front(c) \in Uris /\ Front(d) \in Uris
  BY ParentIs DEF Uris
<1>2. Len(c) = Len(d)
  BY <1>1
<1>3. \A i \in 1..(Len(c) - 1) : Front(c)[i] = c[i] /\ Front(d)[i] = d[i]
  BY <1>2 DEF Front, Uris
<1>4. c[Len(c)] = Last(c) /\ d[Len(d)] = Last(d)
  BY DEF Last
<1>5. \A i \in 1..Len(c) : i \in 1..(Len(c) - 1) \/ i = Len(c)
  BY <1>1
<1>6. \A i \in 1..Len(c) : c[i] = d[i]
  BY <1>2, <1>3, <1>4, <1>5
<1> QED BY <1>2, <1>6 DEF Uris

\* A folder to be promoted whose name nobody has becomes top-level.
LEMMA SetTop ==
    ASSUME NEW files, NEW w, NEW t, NEW u, Setting(files, w, t, u), NEW y, NEW x, NEW b, NEW open,
           Between(files, w, t, u, y, x, b, open), \A o \in open : Front(o) = b,
           NEW c \in Pending(files, w, t, u, x) \cap Folders(files), Front(c) = b, x.top[Last(c)] = NoUri,
           NEW z, z = [x EXCEPT !.top[Last(c)] = c]
    PROVE  /\ Between(files, w, t, u, y, z, b, open \ {c}) /\ z.marked = x.marked
           /\ Size(files, w, t, u, z) <= Size(files, w, t, u, x)
<1> DEFINE pend == Pending(files, w, t, u, x)
           uns == Unsound(files, w, t, u, x)
           parts == Parts(files, w, t, u)
<1>1. /\ Shape(files, w, t, u, x) /\ Names1(files, w, t, u, x) /\ Names2(files, w, t, u, x)
      /\ UpTo(files, w, t, u, x, b, open) /\ Held(files, w, t, u, y, x)
  BY DEF Between
<1>2. /\ files \in SUBSET Files /\ x \in Marks(files) /\ c \in x.marked /\ c \in parts /\ c \notin Tops(w)
      /\ c \in Uris /\ 0 < Len(c) /\ Last(c) \in Segments /\ c # NoUri
  BY <1>1, PendingIs, InSight, NoUriIsNone DEF Setting, Pending, parts
<1>3. /\ z \in Marks(files) /\ z.marked = x.marked /\ Tops(z) = Tops(x) \cup {c}
      /\ \A m \in Segments : z.top[m] = IF m = Last(c) THEN c ELSE x.top[m]
  <2>1. c \in Folders(files) /\ x.top[Last(c)] \in {NoUri, c} /\ files \in SUBSET Files /\ x \in Marks(files)
    BY <1>2
  <2>2. /\ [x EXCEPT !.top[Last(c)] = c] \in Marks(files)
        /\ [x EXCEPT !.top[Last(c)] = c].marked = x.marked
        /\ Tops([x EXCEPT !.top[Last(c)] = c]) = Tops(x) \cup {c}
        /\ \A m \in Segments : [x EXCEPT !.top[Last(c)] = c].top[m] = IF m = Last(c) THEN c ELSE x.top[m]
    BY ONLY <2>1, AddedTop
  <2> QED BY ONLY <2>2, z = [x EXCEPT !.top[Last(c)] = c]
<1>4. \A p \in pend : p \in Uris /\ 0 < Len(p)
  BY <1>1, PendingIs DEF pend
<1>5. \A p \in Folders(files) : Last(p) \in Segments
  BY InSight
<1>6. c # t
  <2>1. t \in Uris /\ ~Under(t, c)
    BY <1>2, PartsApart, InSight DEF parts
  <2> QED BY <2>1, UnderOrder
<1> HIDE DEF parts
<1>7. Pending(files, w, t, u, z) = pend \ {c}
  BY <1>3 DEF Pending, pend
<1>8. Unsound(files, w, t, u, z) = uns
  BY <1>2, <1>3 DEF Unsound, uns
<1> HIDE DEF pend, uns
<1>9. Shape(files, w, t, u, z)
  BY <1>1, <1>2, <1>3 DEF Shape, parts
<1>10. Names1(files, w, t, u, z)
  <2>1. \A s, r \in uns : s = r
    BY <1>1 DEF Names1, uns
  <2> SUFFICES ASSUME NEW s \in uns PROVE \E p \in (pend \ {c}) \cap Folders(files) : Last(p) = Last(s)
    BY <1>7, <1>8, <2>1 DEF Names1
  <2>2. PICK p \in pend \cap Folders(files) : Last(p) = Last(s)
    BY <1>1 DEF Names1, uns, pend
  <2>3. x.top[Last(s)] = s /\ s # NoUri
    BY <1>1, PendingIs DEF uns, Unsound
  <2> QED BY <2>2, <2>3
<1>11. Names2(files, w, t, u, z)
  <2> SUFFICES ASSUME NEW p \in (pend \ {c}) \cap Folders(files), NEW e \in Beside(files, t, u) \cap Tops(z),
                      Last(p) = Last(e)
               PROVE  Under(Front(e), Front(p)) /\ Front(e) # Front(p)
    BY <1>7 DEF Names2
  <2>1. CASE e = c
    <3>1. p \notin open
      BY <1>2, <1>4, <2>1, SameChild
    <3> QED BY <1>1, <2>1, <3>1 DEF UpTo, pend
  <2>2. CASE e # c
    BY <1>1, <1>3, <2>2 DEF Names2, pend
  <2> QED BY <2>1, <2>2
<1>12. UpTo(files, w, t, u, z, b, open \ {c})
  BY <1>1, <1>3, <1>7 DEF UpTo, pend
<1>13. Held(files, w, t, u, y, z)
  <2> SUFFICES ASSUME NEW d \in (parts \cap Folders(files) \cap y.marked) \ x.marked
               PROVE  \/ z.top[Last(d)] \notin {NoUri, t}
                      \/ \E p \in (pend \ {c}) \cap Folders(files) : Last(p) = Last(d)
    BY <1>1, <1>3, <1>7 DEF Held, parts
  <2>1. x.top[Last(d)] \notin {NoUri, t} \/ \E p \in pend \cap Folders(files) : Last(p) = Last(d)
    BY <1>1 DEF Held, parts, pend
  <2> QED BY <1>2, <1>3, <1>5, <1>6, <2>1
<1>14. Size(files, w, t, u, z) <= Size(files, w, t, u, x)
  BY <1>2, <1>3, <1>8, SizeIs DEF uns
<1> QED BY <1>3, <1>9, <1>10, <1>11, <1>12, <1>13, <1>14 DEF Between

\* A file to be promoted loses its mark.
LEMMA UnmarkFile ==
    ASSUME NEW files, NEW w, NEW t, NEW u, Setting(files, w, t, u), NEW y, NEW x, NEW b, NEW open,
           Between(files, w, t, u, y, x, b, open),
           NEW c \in Pending(files, w, t, u, x), c \notin Folders(files),
           NEW z, z = [x EXCEPT !.marked = @ \ {c}]
    PROVE  /\ Between(files, w, t, u, y, z, b, open \ {c}) /\ z.marked \subseteq x.marked
           /\ Size(files, w, t, u, z) <= Size(files, w, t, u, x)
<1> DEFINE pend == Pending(files, w, t, u, x)
           uns == Unsound(files, w, t, u, x)
           parts == Parts(files, w, t, u)
<1>1. /\ Shape(files, w, t, u, x) /\ Names1(files, w, t, u, x) /\ Names2(files, w, t, u, x)
      /\ UpTo(files, w, t, u, x, b, open) /\ Held(files, w, t, u, y, x)
  BY DEF Between
<1>2. /\ files \in SUBSET Files /\ x \in Marks(files) /\ c \in x.marked /\ c \in parts /\ c \notin Tops(w)
      /\ c \notin Tops(x) /\ c \in Known(files) /\ c \in Uris /\ 0 < Len(c)
  BY <1>1, PendingIs DEF Setting, Pending, parts
<1>3. z.marked = x.marked \ {c} /\ z.top = x.top /\ Tops(z) = Tops(x) /\ z \in Marks(files)
  BY <1>2, MarksAre DEF Tops
<1>4. \A n \in Known(files) : Under(n, c) => n = c
  BY <1>2, TreeIs
<1>5. \A n \in Known(files) : n \in Uris /\ Under(n, n)
  BY InSight, UnderOrder
<1>6. \A d \in parts : d \in Known(files)
  BY InSight DEF parts
<1>7. \A d, e \in parts, n \in Uris : Under(n, d) /\ Under(n, e) => d = e
  BY PartsApart DEF parts
<1> HIDE DEF parts
<1>8. Pending(files, w, t, u, z) = pend \ {c}
  BY <1>3 DEF Pending, pend
<1>9. Unsound(files, w, t, u, z) = uns
  BY <1>2, <1>3 DEF Unsound, uns
<1> HIDE DEF pend, uns
<1>10. Shape(files, w, t, u, z)
  <2>1. ASSUME NEW n \in z.marked PROVE OnWay(t, u, n) \/ \E d \in parts \cap z.marked : Under(n, d)
    <3>1. OnWay(t, u, n) \/ \E d \in parts \cap x.marked : Under(n, d)
      BY <1>1, <1>3 DEF Shape, parts
    <3>2. n \in Known(files) /\ n # c
      BY <1>2, <1>3, MarksAre
    <3> QED BY <1>3, <1>4, <3>1, <3>2
  <2>2. ASSUME NEW d \in parts \cap z.marked, NEW n \in Known(files), Under(n, d) PROVE n \in z.marked
    <3>1. n \in x.marked
      BY <1>1, <1>3, <2>2 DEF Shape, parts
    <3>2. n # c
      BY <1>2, <1>3, <1>5, <1>7, <2>2
    <3> QED BY <1>3, <3>1, <3>2
  <2> QED BY <1>1, <1>2, <1>3, <2>1, <2>2 DEF Shape, parts
<1>11. Names1(files, w, t, u, z) /\ Names2(files, w, t, u, z)
  BY <1>1, <1>3, <1>8, <1>9 DEF Names1, Names2, pend, uns
<1>12. UpTo(files, w, t, u, z, b, open \ {c})
  BY <1>1, <1>3, <1>8 DEF UpTo, pend
<1>13. Held(files, w, t, u, y, z)
  BY <1>1, <1>3, <1>8 DEF Held, pend
<1>14. Size(files, w, t, u, z) <= Size(files, w, t, u, x)
  BY <1>2, <1>3, <1>9, SizeIs DEF uns
<1> QED BY <1>3, <1>10, <1>11, <1>12, <1>13, <1>14 DEF Between

-----------------------------------------------------------------------------
(* The calls of unmarkFolder within unmarkFolder.                          *)

\* Unmarking is done: nothing is to be promoted, and what is top-level is marked.
Settled(files, w, t, u, y) ==
    /\ Shape(files, w, t, u, y)
    /\ Pending(files, w, t, u, y) = {} /\ Unsound(files, w, t, u, y) = {}
    /\ \A n \in y.marked : ~OnWay(t, u, n)

\* What the calls within unmarkFolder start from, and what they return.
Calls(files, w, t, u, x, e) ==
    /\ Shape(files, w, t, u, x) /\ Names1(files, w, t, u, x) /\ Names2(files, w, t, u, x)
    /\ UpTo(files, w, t, u, x, e, {}) /\ e \in Beside(files, t, u) \cap Tops(x)
    /\ \E c \in Pending(files, w, t, u, x) \cap Folders(files) : Last(c) = Last(e)
Returns(files, w, t, u, x, e, y) ==
    /\ Settled(files, w, t, u, y) /\ Held(files, w, t, u, x, y)
    /\ y.marked \subseteq {n \in x.marked : ~Under(n, e)}

\* Calls return what they should when k is more than there is to unmark.
Claim(files, w, t, u, unmark, k) ==
    \A x \in Marks(files), e \in Folders(files) :
        Calls(files, w, t, u, x, e) /\ Size(files, w, t, u, x) < k
            => Returns(files, w, t, u, x, e, unmark[<<x, e>>])

\* A folder that has become top-level.
Promoted(v, c) == [v EXCEPT !.top[Last(c)] = c]

\* What unmarkFolder has come to since m, when all below what it unmarks had been cleared.
Going(files, w, t, u, y, m, x, b, open) ==
    /\ Between(files, w, t, u, y, x, b, open)
    /\ x.marked \subseteq m.marked /\ Size(files, w, t, u, x) <= Size(files, w, t, u, m)

\* What a call leaves unmarked accounts for all that was unmarked before it, too.
LEMMA HeldThrough ==
    ASSUME NEW files, NEW w, NEW t, NEW u, Setting(files, w, t, u), NEW x0, NEW x, NEW y,
           Shape(files, w, t, u, x), Names1(files, w, t, u, x), Held(files, w, t, u, x0, x),
           Settled(files, w, t, u, y), Held(files, w, t, u, x, y)
    PROVE  Held(files, w, t, u, x0, y)
<1> DEFINE parts == Parts(files, w, t, u)
           pend == Pending(files, w, t, u, x)
<1>1. Shape(files, w, t, u, y)
  BY DEF Settled
<1>2. Pending(files, w, t, u, y) = {} /\ Unsound(files, w, t, u, y) = {}
  BY DEF Settled
<1>3. \A c \in Folders(files) : Last(c) \in Segments
  BY InSight
<1>4. \A c \in parts : c # t
  <2>1. \A c \in parts : c \in Uris /\ ~Under(t, c)
    BY InSight, PartsApart DEF parts
  <2> QED BY <2>1, UnderOrder
<1> HIDE DEF parts
<1>5. ASSUME NEW c \in parts \cap Folders(files), c \in x.marked PROVE y.top[Last(c)] \notin {NoUri, t}
  <2>1. CASE c \in y.marked
    <3>1. c \in Tops(y)
      BY <1>2, <2>1 DEF Pending, parts
    <3>2. y.top[Last(c)] = c /\ c # NoUri
      BY <1>1, <3>1, PendingIs
    <3> QED BY <1>4, <3>2
  <2>2. CASE c \notin y.marked
    BY <1>2, <1>5, <2>2 DEF Held, parts
  <2> QED BY <2>1, <2>2
<1>6. ASSUME NEW p \in pend \cap Folders(files) PROVE y.top[Last(p)] \notin {NoUri, t}
  BY <1>5 DEF pend, Pending, parts
<1> SUFFICES ASSUME NEW c \in (parts \cap Folders(files) \cap x0.marked) \ y.marked
             PROVE  y.top[Last(c)] \notin {NoUri, t}
  BY DEF Held, parts
<1>7. CASE c \in x.marked
  BY <1>5, <1>7
<1>8. CASE c \notin x.marked
  <2>1. x.top[Last(c)] \notin {NoUri, t} \/ \E p \in pend \cap Folders(files) : Last(p) = Last(c)
    BY <1>8 DEF Held, parts, pend
  <2> HIDE DEF pend
  <2>2. CASE \E p \in pend \cap Folders(files) : Last(p) = Last(c)
    BY <1>6, <2>2
  <2>3. CASE x.top[Last(c)] \notin {NoUri, t}
    <3> DEFINE s == x.top[Last(c)]
    <3>1. s \in Tops(x) /\ Last(s) = Last(c) /\ s \in Folders(files)
      BY <1>3, <2>3, PendingIs
    <3>2. s \in parts
      BY <2>3, <3>1 DEF Shape, parts
    <3> HIDE DEF s
    <3>3. CASE s \in x.marked
      BY <1>5, <3>1, <3>2, <3>3
    <3>4. CASE s \notin x.marked
      <4>1. s \in Unsound(files, w, t, u, x)
        BY <3>1, <3>2, <3>4 DEF Unsound, parts
      <4>2. PICK p \in pend \cap Folders(files) : Last(p) = Last(s)
        BY <4>1 DEF Names1, pend
      <4> QED BY <1>6, <3>1, <4>2
    <3> QED BY <3>3, <3>4
  <2> QED BY <2>1, <2>2, <2>3
<1> QED BY <1>7, <1>8

\* What is marked after a call that may have promoted or unmarked c itself: c becomes top-level
\* in any case, and what had become so in its place is promoted again further up.
LEMMA ReplaceTop ==
    ASSUME NEW files, NEW w, NEW t, NEW u, Setting(files, w, t, u), NEW x0, NEW x, NEW b, NEW open,
           Between(files, w, t, u, x0, x, b, open), \A o \in open : Front(o) = b,
           NEW c \in Pending(files, w, t, u, x) \cap Folders(files), Front(c) = b,
           NEW e \in Beside(files, t, u) \cap Tops(x), Last(c) = Last(e),
           NEW y, Returns(files, w, t, u, x, e, y),
           NEW z, z = Promoted(y, c)
    PROVE  /\ Between(files, w, t, u, x0, z, b, open \ {c}) /\ z.marked \subseteq x.marked
           /\ Size(files, w, t, u, z) <= Size(files, w, t, u, x)
<1> DEFINE parts == Parts(files, w, t, u)
<1>1. /\ Shape(files, w, t, u, x) /\ Names1(files, w, t, u, x)
      /\ UpTo(files, w, t, u, x, b, open) /\ Held(files, w, t, u, x0, x)
  BY DEF Between
<1>2. /\ Settled(files, w, t, u, y) /\ Shape(files, w, t, u, y) /\ Held(files, w, t, u, x, y)
      /\ Pending(files, w, t, u, y) = {} /\ Unsound(files, w, t, u, y) = {}
      /\ y.marked \subseteq {n \in x.marked : ~Under(n, e)} /\ y.marked \subseteq x.marked
      /\ \A n \in y.marked : ~OnWay(t, u, n)
  BY DEF Returns, Settled
<1>3. Held(files, w, t, u, x0, y)
  BY <1>1, <1>2, HeldThrough
<1>4. /\ files \in SUBSET Files /\ x \in Marks(files) /\ y \in Marks(files)
      /\ c \in Folders(files) /\ c \in x.marked /\ c \in parts /\ c \notin Tops(w) /\ c \notin Tops(x)
      /\ c \in Uris /\ 0 < Len(c) /\ Last(c) \in Segments
  BY <1>1, <1>2, PendingIs, InSight DEF Setting, Pending, parts, Shape
<1>5. \A s \in Tops(y) : s \in Folders(files) /\ s \in Uris /\ y.top[Last(s)] = s /\ s # NoUri
  BY <1>2, PendingIs
<1>6. \A s \in Tops(x) : x.top[Last(s)] = s /\ s # NoUri
  BY <1>1, PendingIs
<1>7. \A d \in parts : d # t /\ d \in Uris /\ Under(d, d)
  <2>1. \A d \in parts : d \in Uris /\ ~Under(t, d) /\ t \in Uris
    BY InSight, PartsApart DEF parts
  <2> QED BY <2>1, UnderOrder
<1> HIDE DEF parts
<1>8. x.top[Last(c)] = e /\ e \in Uris /\ e # NoUri
  BY <1>1, PendingIs
<1>9. CASE c \in y.marked
  <2>1. c \in Tops(y)
    BY <1>2, <1>4, <1>9 DEF Pending, parts
  <2>2. z = y
    <3>1. y.top[Last(c)] \in {NoUri, c}
      BY <1>5, <2>1
    <3>2. [y EXCEPT !.top[Last(c)] = c] = y
      BY ONLY <1>4, <2>1, <3>1, AddedTop
    <3> QED BY <3>2 DEF Promoted
  <2>3. Between(files, w, t, u, x0, y, b, open \ {c})
    BY <1>2, <1>3 DEF Between, Names1, Names2, UpTo
  <2>4. Size(files, w, t, u, y) <= Size(files, w, t, u, x)
    <3>1. Unsound(files, w, t, u, y) \subseteq Unsound(files, w, t, u, x)
      BY <1>2
    <3> QED BY <1>2, <1>4, <3>1, SizeIs
  <2> QED BY <1>2, <2>2, <2>3, <2>4
<1>10. CASE c \notin y.marked
  <2> DEFINE g == y.top[Last(c)]
  <2>1. g \notin {NoUri, t}
    BY <1>2, <1>4, <1>10 DEF Held, parts
  <2>2. g \in Tops(y) /\ Last(g) = Last(c) /\ g \in parts /\ g \in Folders(files) /\ g \in Uris
    <3>1. g \in Tops(y) /\ Last(g) = Last(c)
      BY <1>2, <1>4, <2>1, PendingIs
    <3> QED BY <1>2, <1>5, <2>1, <3>1 DEF Shape, parts
  <2>3. g \in y.marked /\ g \in x.marked /\ g # c /\ g # e
    <3>1. g \in y.marked
      BY <1>2, <2>2 DEF Unsound, parts
    <3> QED BY <1>2, <1>7, <1>10, <2>2, <3>1
  <2> HIDE DEF g
  <2>4. g \notin Tops(x)
    BY <1>6, <2>2, <2>3
  <2>5. g \notin Tops(w)
    BY <1>1, <2>3, <2>4 DEF Shape
  <2>6. g \in Pending(files, w, t, u, x) /\ 0 < Len(g)
    <3>1. g \in Pending(files, w, t, u, x)
      BY <2>2, <2>3, <2>4 DEF Pending, parts
    <3> QED BY <1>1, <3>1, PendingIs
  <2>7. Under(b, Front(g)) /\ b # Front(g)
    <3>1. g \notin open
      BY <1>4, <2>2, <2>3, <2>6, SameChild
    <3> QED BY <1>1, <2>6, <3>1 DEF UpTo
  <2>8. /\ z.marked = y.marked
        /\ \A m \in Segments : z.top[m] = IF m = Last(c) THEN c ELSE y.top[m]
    BY <1>4, MarksAre DEF Promoted
  <2>9. Tops(z) = (Tops(y) \ {g}) \cup {c}
    <3>1. \A m \in Segments : y.top[m] = g => m = Last(c)
      BY <1>2, <2>1, <2>2, PendingIs DEF g
    <3>2. c # NoUri
      BY <1>4, NoUriIsNone, InSight
    <3> QED BY <1>4, <2>8, <3>1, <3>2 DEF Tops, g
  <2>10. z \in Marks(files)
    BY <1>4, SetTopType DEF Promoted
  <2>11. Pending(files, w, t, u, z) = {g}
    BY <1>2, <1>10, <2>2, <2>3, <2>8, <2>9 DEF Pending, parts
  <2>12. Unsound(files, w, t, u, z) = {c}
    BY <1>2, <1>4, <1>10, <2>8, <2>9 DEF Unsound, parts
  <2>13. Shape(files, w, t, u, z)
    BY <1>2, <1>4, <2>5, <2>8, <2>9, <2>10 DEF Shape, parts
  <2>14. Names1(files, w, t, u, z)
    BY <2>2, <2>11, <2>12 DEF Names1
  <2>15. Names2(files, w, t, u, z)
    <3> SUFFICES ASSUME NEW d \in Beside(files, t, u) \cap Tops(z), Last(g) = Last(d)
                 PROVE  Under(Front(d), Front(g)) /\ Front(d) # Front(g)
      BY <2>11 DEF Names2
    <3>1. d = c
      BY <1>5, <2>2, <2>9 DEF g
    <3> QED BY <2>7, <3>1
  <2>16. UpTo(files, w, t, u, z, b, open \ {c})
    BY <1>2, <2>7, <2>8, <2>11 DEF UpTo
  <2>17. Held(files, w, t, u, x0, z)
    <3> SUFFICES ASSUME NEW d \in (parts \cap Folders(files) \cap x0.marked) \ y.marked
                 PROVE  z.top[Last(d)] \notin {NoUri, t}
      BY <1>3, <2>8 DEF Held, parts
    <3>1. y.top[Last(d)] \notin {NoUri, t} /\ Last(d) \in Segments
      BY <1>2, <1>3, InSight DEF Held, parts
    <3>2. c \notin {NoUri, t}
      BY <1>4, <1>7, NoUriIsNone, InSight
    <3> QED BY <2>8, <3>1, <3>2
  <2>18. Size(files, w, t, u, z) <= Size(files, w, t, u, x)
    <3>1. z.marked # x.marked /\ z.marked \subseteq x.marked
      BY <1>2, <1>4, <1>10, <2>8
    <3>2. /\ Size(files, w, t, u, z) < Size(files, w, t, u, x)
          /\ Size(files, w, t, u, z) \in Nat /\ Size(files, w, t, u, x) \in Nat
      BY <1>4, <2>10, <3>1, SizeIs
    <3> HIDE DEF parts
    <3> QED BY <3>2
  <2> QED BY <1>2, <2>8, <2>13, <2>14, <2>15, <2>16, <2>17, <2>18 DEF Between
<1> QED BY <1>9, <1>10

\* Nothing is marked above the other top-level folders.
LEMMA QuietOther ==
    ASSUME NEW files, NEW w, NEW t, NEW u, Setting(files, w, t, u), NEW x, Shape(files, w, t, u, x),
           NEW e \in Tops(w) \ {t}, e \in Tops(x)
    PROVE  Quiet(files, x, e)
<1> DEFINE parts == Parts(files, w, t, u)
<1>1. /\ t \in Uris /\ \A n \in Known(files) : n \in Uris /\ 0 < Len(n)
      /\ e \in Known(files) /\ e \in Uris /\ \A c \in parts : c \in Known(files) /\ c \in Uris
  BY InSight DEF parts
<1>2. /\ ~Under(e, t) /\ e \in parts
      /\ \A c, d \in parts, n \in Uris : Under(n, c) /\ Under(n, d) => c = d
  BY PartsApart DEF parts, Parts
<1>3. Under(e, e)
  BY <1>1, UnderOrder
<1> SUFFICES ASSUME NEW a \in Known(files), Under(e, a), a # e
             PROVE  /\ a \notin x.marked /\ a \notin Tops(x)
                    /\ \A c \in Known(files) : Front(c) = a /\ c \in x.marked /\ ~Under(c, e) => c \in Tops(x)
  BY DEF Quiet
<1> HIDE DEF parts
<1>4. ~Under(a, t)
  BY <1>1, <1>2, UnderOrder
<1>5. ASSUME NEW c \in parts, Under(a, c) PROVE FALSE
  <2>1. Under(e, c)
    BY <1>1, <1>5, UnderOrder
  <2>2. c = e
    BY <1>1, <1>2, <1>3, <2>1
  <2> QED BY <1>1, <1>5, <2>2, UnderOrder
<1>6. a \notin x.marked
  BY <1>4, <1>5 DEF Shape, OnWay, parts
<1>7. a \notin Tops(x)
  <2>1. Under(a, a)
    BY <1>1, UnderOrder
  <2> QED BY <1>4, <1>5, <2>1 DEF Shape, parts
<1>8. ASSUME NEW c \in Known(files), Front(c) = a, c \in x.marked, ~Under(c, e) PROVE c \in Tops(x)
  <2>1. \A s \in Uris : Under(c, s) /\ s # c => Under(a, s)
    BY <1>1, <1>8, ParentIs
  <2>2. CASE OnWay(t, u, c)
    <3>1. c = t
      BY <1>1, <1>4, <2>1, <2>2 DEF OnWay
    <3> QED BY <1>8, <3>1 DEF Shape, Setting
  <2>3. ASSUME NEW p \in parts \cap x.marked, Under(c, p) PROVE c \in Tops(x)
    <3>1. p = c
      BY <1>1, <1>5, <2>1, <2>3
    <3>2. c \in Tops(w)
      <4>1. c \notin Beside(files, t, u)
        BY <1>4, <1>8 DEF Beside, OnWay
      <4> QED BY <3>1, <4>1 DEF parts, Parts
    <3> QED BY <1>8, <3>2 DEF Shape
  <2> QED BY <1>8, <2>2, <2>3 DEF Shape, parts
<1> QED BY <1>6, <1>7, <1>8

\* What unmark does for a folder above which nothing is marked.
QuietClears(files, unmark) ==
    \A v \in Marks(files), e \in Seq(Segments) :
        e \in Known(files) /\ Quiet(files, v, e) => unmark[<<v, e>>] = Clear(files, v, e)

\* At every depth unmarkFolder does no more than that, for it does not call itself then.
LEMMA UnmarkQuiet ==
    ASSUME NEW files \in SUBSET Files, NEW unmark, IsUnmarking(unmark, files), NEW d \in Nat \ {0}
    PROVE  unmark[d] \in Unmarkings(files) /\ QuietClears(files, unmark[d])
<1>1. unmark[d] \in Unmarkings(files) /\ d - 1 \in Nat /\ unmark[d - 1] \in Unmarkings(files)
  BY DEF IsUnmarking
<1>2. \A v \in Marks(files), e \in Seq(Segments) :
          unmark[d][<<v, e>>] = UnmarkStep(unmark[d - 1], files, v, e)
  BY DEF IsUnmarking
<1>3. ASSUME NEW v \in Marks(files), NEW e \in Seq(Segments), Quiet(files, v, e)
      PROVE  unmark[d][<<v, e>>] = Clear(files, v, e)
  BY <1>1, <1>2, <1>3, QuietStep
<1> QED BY <1>1, <1>3 DEF QuietClears

\* What the levels of unmarkFolder below one with fuel k are relied on for.
Reliable(files, w, t, u, unmark, k) ==
    /\ unmark \in Unmarkings(files) /\ QuietClears(files, unmark)
    /\ k \in Nat /\ Claim(files, w, t, u, unmark, k)

-----------------------------------------------------------------------------
(* The children of an ancestor, and the ancestors, in turn.                *)

\* A marked child of a node on the way is top-level, or is to be promoted now.
LEMMA ChildIs ==
    ASSUME NEW files, NEW w, NEW t, NEW u, Setting(files, w, t, u),
           NEW x, NEW b, NEW open, Shape(files, w, t, u, x), UpTo(files, w, t, u, x, b, open),
           NEW c \in Known(files), Front(c) = b, b \in Uris, Under(u, b), c \in x.marked, c \notin Tops(x)
    PROVE  c \in Pending(files, w, t, u, x)
<1> DEFINE parts == Parts(files, w, t, u)
<1>1. c \in Uris /\ 0 < Len(c)
  BY InSight
<1>2. Under(c, b) /\ c # b /\ \A s \in Uris : Under(c, s) /\ s # c => Under(b, s)
  BY <1>1, ParentIs
<1>3. ~OnWay(t, u, c)
  BY <1>1, <1>2, UnderOrder DEF UpTo
<1>4. PICK p \in parts \cap x.marked : Under(c, p)
  BY <1>3 DEF Shape, parts
<1>5. p \in Uris /\ ~Under(b, p)
  BY InSight, PartsApart DEF parts
<1>6. p = c
  BY <1>2, <1>4, <1>5
<1> QED BY <1>4, <1>6 DEF Pending, parts

\* The name of a child of a node on the way is not that of the top-level folder.
LEMMA TopStays ==
    ASSUME NEW files, NEW w, NEW t, NEW u, Setting(files, w, t, u),
           NEW x, NEW b, NEW open, Shape(files, w, t, u, x), UpTo(files, w, t, u, x, b, open),
           NEW c \in Pending(files, w, t, u, x) \cap Folders(files), Front(c) = b, b # u, Under(u, b)
    PROVE  x.top[Last(c)] # t
<1> SUFFICES ASSUME x.top[Last(c)] = t PROVE FALSE
  OBVIOUS
<1>1. Last(c) \in Segments /\ t # NoUri /\ OnWay(t, u, t) /\ t \in Tops(w)
  BY InSight, NoUriIsNone DEF Setting
<1>2. t \in Tops(x) /\ Last(t) = Last(c)
  BY <1>1, PendingIs
<1>3. t \in x.marked
  BY <1>1, <1>2 DEF Shape
<1>4. Under(b, t) /\ b # t
  BY <1>1, <1>3 DEF UpTo
<1>5. ~Under(u, c)
  BY PendingIs
<1> QED BY <1>2, <1>4, <1>5 DEF Setting, Namesake

\* A top-level part beside the way whose name is wanted is unmarked as calls expect.
LEMMA CallIs ==
    ASSUME NEW files, NEW w, NEW t, NEW u, Setting(files, w, t, u),
           NEW y, NEW x, NEW b, NEW open, Between(files, w, t, u, y, x, b, open), \A o \in open : Front(o) = b,
           NEW c \in Pending(files, w, t, u, x) \cap Folders(files), Front(c) = b, b \in Uris, Under(u, b),
           NEW e \in Beside(files, t, u) \cap Tops(x), Last(c) = Last(e)
    PROVE  Calls(files, w, t, u, x, e)
<1>1. /\ Shape(files, w, t, u, x) /\ Names1(files, w, t, u, x) /\ Names2(files, w, t, u, x)
      /\ UpTo(files, w, t, u, x, b, open)
  BY DEF Between
<1>2. e \in Uris /\ Front(e) \in Uris /\ 0 < Len(e) /\ u \in Uris
  BY InSight DEF Parts
<1>3. Under(e, Front(e)) /\ ~Under(u, e)
  BY <1>2, ParentIs DEF Beside
<1>4. Under(Front(e), b) /\ Front(e) # b
  BY <1>1 DEF Names2
<1>5. Under(e, b) /\ e # b
  BY <1>2, <1>3, <1>4, UnderOrder
<1>6. ASSUME NEW a \in Uris, Under(b, a), Under(u, a) PROVE Under(e, a) /\ e # a
  BY <1>2, <1>3, <1>5, <1>6, UnderOrder
<1>7. ASSUME NEW p \in Pending(files, w, t, u, x) PROVE Under(e, Front(p)) /\ e # Front(p)
  <2>1. Front(p) \in Uris /\ Under(u, Front(p))
    BY <1>1, PendingIs DEF OnWay
  <2>2. CASE p \in open
    BY <1>5, <2>2
  <2>3. CASE p \notin open
    BY <1>1, <1>6, <2>1, <2>3 DEF UpTo
  <2> QED BY <2>2, <2>3
<1>8. ASSUME NEW n \in x.marked, OnWay(t, u, n) PROVE Under(e, n) /\ e # n
  <2>1. n \in Uris /\ Under(u, n)
    BY <1>1, <1>8, PendingIs, InSight DEF OnWay
  <2> QED BY <1>1, <1>6, <1>8, <2>1 DEF UpTo
<1> QED BY <1>1, <1>7, <1>8 DEF Calls, UpTo

\* Promoting a child keeps what has been reached, and one child less is to be promoted.
LEMMA PromoteKeeps ==
    ASSUME NEW files, NEW w, NEW t, NEW u, Setting(files, w, t, u),
           NEW unmark, NEW k, Reliable(files, w, t, u, unmark, k),
           NEW y, NEW m \in Marks(files), Size(files, w, t, u, m) < k,
           NEW x, NEW b \in Uris, Under(u, b), b # u,
           NEW open, Going(files, w, t, u, y, m, x, b, open), \A o \in open : Front(o) = b,
           NEW c \in Known(files), Front(c) = b
    PROVE  Going(files, w, t, u, y, m, Promote(unmark, files, x, c), b, open \ {c})
<1> DEFINE z == Promote(unmark, files, x, c)
           pend == Pending(files, w, t, u, x)
           e == x.top[Last(c)]
<1>1. /\ Between(files, w, t, u, y, x, b, open) /\ Shape(files, w, t, u, x) /\ UpTo(files, w, t, u, x, b, open)
      /\ files \in SUBSET Files /\ x \in Marks(files)
  BY DEF Going, Between, Shape, Setting
<1>2. CASE c \in x.marked => c \in Tops(x)
  <2>1. z = x
    BY <1>1, <1>2, PromoteNothing
  <2>2. UpTo(files, w, t, u, x, b, open \ {c})
    BY <1>1, <1>2 DEF UpTo, Pending
  <2> HIDE DEF z
  <2>3. Going(files, w, t, u, y, m, z, b, open \ {c})
    BY <2>1, <2>2 DEF Going, Between
  <2> QED BY <2>3 DEF z
<1>3. ASSUME NEW v, NEW o, Between(files, w, t, u, y, v, b, o), v.marked \subseteq x.marked,
             Size(files, w, t, u, v) <= Size(files, w, t, u, x)
      PROVE  Going(files, w, t, u, y, m, v, b, o)
  <2>1. v \in Marks(files)
    BY <1>3 DEF Between, Shape
  <2>2. /\ Size(files, w, t, u, x) <= Size(files, w, t, u, m) /\ x.marked \subseteq m.marked
    BY DEF Going
  <2>3. /\ Size(files, w, t, u, v) \in Nat /\ Size(files, w, t, u, x) \in Nat /\ Size(files, w, t, u, m) \in Nat
    BY <1>1, <1>3, <2>1, <2>2, SizeIs
  <2> QED BY <1>3, <2>2, <2>3 DEF Going
<1>4. CASE c \in x.marked /\ c \notin Tops(x)
  <2>1. c \in pend /\ c \in Uris /\ 0 < Len(c) /\ c # <<>>
    BY <1>1, <1>4, ChildIs, InSight
  <2>2. CASE c \notin Folders(files)
    <3>1. z = [x EXCEPT !.marked = @ \ {c}]
      BY <1>4, <2>2 DEF Promote
    <3> HIDE DEF z
    <3>2. /\ Between(files, w, t, u, y, z, b, open \ {c}) /\ z.marked \subseteq x.marked
          /\ Size(files, w, t, u, z) <= Size(files, w, t, u, x)
      <4>1. Setting(files, w, t, u) /\ Between(files, w, t, u, y, x, b, open) /\ c \in Pending(files, w, t, u, x)
        BY <1>1, <2>1
      <4> QED BY ONLY <2>2, <3>1, <4>1, UnmarkFile
    <3> QED BY <1>3, <3>2 DEF z
  <2>3. CASE c \in Folders(files)
    <3> DEFINE v == unmarkConflictingTopLevelFolder(unmark, x, c)
    <3>1. z = [v EXCEPT !.top[Last(c)] = c] /\ c \in pend \cap Folders(files)
      BY <1>4, <2>1, <2>3 DEF Promote
    <3>2. v = IF e \in {NoUri, c} THEN x ELSE unmark[<<x, e>>]
      BY <2>1 DEF unmarkConflictingTopLevelFolder, getTopLevelModuleName, Root
    <3>3. Last(c) \in Segments
      BY <2>3, InSight
    <3> HIDE DEF z, v
    <3>4. CASE e = NoUri
      <4>1. z = [x EXCEPT !.top[Last(c)] = c]
        BY <3>1, <3>2, <3>4
      <4>2. /\ Between(files, w, t, u, y, z, b, open \ {c}) /\ z.marked = x.marked
            /\ Size(files, w, t, u, z) <= Size(files, w, t, u, x)
        <5>1. /\ Setting(files, w, t, u) /\ Between(files, w, t, u, y, x, b, open)
              /\ c \in Pending(files, w, t, u, x) \cap Folders(files)
              /\ x.top[Last(c)] = NoUri /\ Front(c) = b /\ \A o \in open : Front(o) = b
          BY <1>1, <3>1, <3>4
        <5> QED BY ONLY <4>1, <5>1, SetTop
      <4> QED BY <1>3, <4>2 DEF z
    <3>5. CASE e # NoUri
      <4>1. e \in Tops(x) /\ Last(e) = Last(c) /\ e \in Folders(files)
        BY <1>1, <3>3, <3>5, PendingIs
      <4>2. e # t
        BY <1>1, <3>1, TopStays
      <4>3. e # c
        BY <1>4, <4>1
      <4>4. e \in Parts(files, w, t, u)
        BY <1>1, <4>1, <4>2 DEF Shape
      <4>5. v = unmark[<<x, e>>]
        BY <3>2, <3>5, <4>3
      <4> HIDE DEF e
      <4>6. CASE e \in Tops(w) \ {t}
        <5> DEFINE x1 == Clear(files, x, e)
        <5>1. Quiet(files, x, e) /\ e \in Known(files) /\ e \in Seq(Segments)
          BY <1>1, <4>1, <4>6, QuietOther, InSight
        <5>2. v = x1
          BY <1>1, <4>5, <5>1 DEF Reliable, QuietClears
        <5> HIDE DEF x1
        <5>3. /\ Between(files, w, t, u, y, x1, b, open) /\ x1.marked \subseteq x.marked
              /\ Size(files, w, t, u, x1) < Size(files, w, t, u, x)
          BY <1>1, <3>1, <4>1, <4>4, ClearBetween DEF x1
        <5>4. Pending(files, w, t, u, x1) = pend /\ x1.top[Last(c)] = NoUri
          BY <1>1, <3>3, <4>1, <4>4, ClearKeeps DEF x1, e
        <5>5. /\ Between(files, w, t, u, y, z, b, open \ {c}) /\ z.marked = x1.marked
              /\ Size(files, w, t, u, z) <= Size(files, w, t, u, x1)
          <6>1. z = [x1 EXCEPT !.top[Last(c)] = c] /\ c \in Pending(files, w, t, u, x1) \cap Folders(files)
            BY <3>1, <5>2, <5>4
          <6> HIDE DEF pend
          <6> QED BY <5>3, <5>4, <6>1, SetTop
        <5>6. Size(files, w, t, u, z) <= Size(files, w, t, u, x)
          <6>1. x1 \in Marks(files) /\ z \in Marks(files)
            BY <5>3, <5>5 DEF Between, Shape
          <6>2. /\ Size(files, w, t, u, x1) \in Nat /\ Size(files, w, t, u, x) \in Nat
                /\ Size(files, w, t, u, z) \in Nat
            BY <1>1, <5>3, <5>5, <6>1, SizeIs
          <6> QED BY <5>3, <5>5, <6>2
        <5> QED BY <1>3, <5>3, <5>5, <5>6 DEF z
      <4>7. CASE e \in Beside(files, t, u)
        <5>1. Calls(files, w, t, u, x, e)
          BY <1>1, <3>1, <4>1, <4>7, CallIs
        <5>2. Size(files, w, t, u, x) < k
          <6>1. /\ Size(files, w, t, u, x) <= Size(files, w, t, u, m) /\ x.marked \subseteq m.marked
            BY DEF Going
          <6>2. Size(files, w, t, u, x) \in Nat /\ Size(files, w, t, u, m) \in Nat /\ k \in Nat
            BY <1>1, <6>1, SizeIs DEF Reliable
          <6> QED BY <6>1, <6>2
        <5>3. Returns(files, w, t, u, x, e, v)
          BY <1>1, <4>1, <4>5, <5>1, <5>2 DEF Reliable, Claim
        <5>4. /\ Between(files, w, t, u, y, z, b, open \ {c}) /\ z.marked \subseteq x.marked
              /\ Size(files, w, t, u, z) <= Size(files, w, t, u, x)
          <6>1. /\ Setting(files, w, t, u) /\ Between(files, w, t, u, y, x, b, open)
                /\ c \in Pending(files, w, t, u, x) \cap Folders(files)
                /\ e \in Beside(files, t, u) \cap Tops(x)
                /\ Front(c) = b /\ \A o \in open : Front(o) = b
            BY <1>1, <3>1, <4>1, <4>7
          <6>2. Last(c) = Last(e)
            BY <4>1
          <6>3. z = Promoted(v, c)
            BY <3>1 DEF Promoted
          <6> QED BY ONLY <5>3, <6>1, <6>2, <6>3, ReplaceTop
        <5> QED BY <1>3, <5>4 DEF z
      <4> QED BY <4>4, <4>6, <4>7 DEF Parts
    <3> QED BY <3>4, <3>5
  <2> QED BY <2>2, <2>3
<1> QED BY <1>2, <1>4

\* An ancestor loses its mark; its children are to be promoted next.
WithoutAncestor(x, a) == [marked |-> x.marked \ {a}, top |-> deleteExactTopLevel(x.top, {a})]

\* So the way has lost its marks one node further up.
LEMMA AncestorBase ==
    ASSUME NEW files, NEW w, NEW t, NEW u, Setting(files, w, t, u),
           NEW y, NEW m \in Marks(files), NEW x, NEW prev, Going(files, w, t, u, y, m, x, prev, {}), prev \in Uris,
           NEW a, a = Front(prev), 0 < Len(prev), a \in Known(files), Under(u, a), a # u,
           NEW z, z = WithoutAncestor(x, a)
    PROVE  Going(files, w, t, u, y, m, z, a, {c \in Known(files) : Front(c) = a})
<1> DEFINE parts == Parts(files, w, t, u)
           pend == Pending(files, w, t, u, x)
           uns == Unsound(files, w, t, u, x)
<1>1. /\ Shape(files, w, t, u, x) /\ Names1(files, w, t, u, x) /\ Names2(files, w, t, u, x)
      /\ UpTo(files, w, t, u, x, prev, {}) /\ Held(files, w, t, u, y, x)
      /\ x.marked \subseteq m.marked /\ Size(files, w, t, u, x) <= Size(files, w, t, u, m)
      /\ files \in SUBSET Files /\ x \in Marks(files)
  BY DEF Going, Between, Shape, Setting
<1>2. a \in Uris /\ u \in Uris /\ \A n \in Known(files) : n \in Uris /\ Front(n) \in Uris
  BY InSight
<1>3. /\ \A c \in parts, n \in Uris : Under(u, n) => ~Under(n, c)
      /\ \A c \in parts : c \in Known(files)
  BY PartsApart, InSight DEF parts
<1>4. a \notin parts
  BY <1>2, <1>3, UnderOrder
<1>5. \A m1 \in Segments : x.top[m1] = a => a = t
  <2>1. \A m1 \in Segments : x.top[m1] = a => a \in Tops(x)
    <3>1. a # NoUri
      BY <1>1, NoUriIsNone
    <3> QED BY <3>1 DEF Tops
  <2> QED BY <1>1, <1>4, <2>1 DEF Shape, parts
<1>6. /\ z \in Marks(files) /\ z.marked = x.marked \ {a} /\ Tops(z) = Tops(x) \ {a}
      /\ \A m1 \in Segments : z.top[m1] = IF x.top[m1] \in {a} THEN NoUri ELSE x.top[m1]
  <2>1. x.marked \ {a} \in SUBSET Known(files)
    BY <1>1, MarksAre
  <2>2. Deletes(files, x, [marked |-> x.marked \ {a}, top |-> deleteExactTopLevel(x.top, {a})],
                x.marked \ {a}, {a})
    BY <1>1, <2>1, DeletedTops
  <2> QED BY <2>2 DEF Deletes, WithoutAncestor
<1>7. \A c \in Uris : Under(prev, c) /\ prev # c => Under(a, c)
  BY ParentIs
<1> HIDE DEF parts
<1>8. Pending(files, w, t, u, z) = pend
  BY <1>4, <1>6 DEF Pending, pend, parts
<1>9. Unsound(files, w, t, u, z) = uns
  BY <1>4, <1>6 DEF Unsound, uns, parts
<1> HIDE DEF pend, uns
<1>10. Shape(files, w, t, u, z)
  <2>1. ASSUME NEW n \in z.marked PROVE OnWay(t, u, n) \/ \E c \in parts \cap z.marked : Under(n, c)
    <3>1. OnWay(t, u, n) \/ \E c \in parts \cap x.marked : Under(n, c)
      BY <1>1, <1>6 DEF Shape, parts
    <3> QED BY <1>4, <1>6, <3>1
  <2>2. ASSUME NEW c \in parts \cap z.marked, NEW n \in Known(files), Under(n, c) PROVE n \in z.marked
    <3>1. n \in x.marked
      BY <1>1, <1>6, <2>2 DEF Shape, parts
    <3> QED BY <1>2, <1>3, <1>6, <2>2, <3>1
  <2>3. \A s \in Tops(w) : s \in Tops(z) <=> s \in z.marked
    BY <1>1, <1>6 DEF Shape
  <2> QED BY <1>1, <1>6, <2>1, <2>2, <2>3 DEF Shape, parts
<1>11. Names1(files, w, t, u, z) /\ Names2(files, w, t, u, z)
  BY <1>1, <1>6, <1>8, <1>9 DEF Names1, Names2, pend, uns
<1>12. UpTo(files, w, t, u, z, a, {c \in Known(files) : Front(c) = a})
  <2>1. ASSUME NEW c \in pend PROVE (c \in Known(files) /\ Front(c) = a) \/ (Under(a, Front(c)) /\ a # Front(c))
    <3>1. c \in Known(files) /\ Front(c) \in Uris
      BY <1>1, PendingIs DEF pend
    <3>2. Under(prev, Front(c)) /\ prev # Front(c)
      BY <1>1 DEF UpTo, pend
    <3> QED BY <1>7, <3>1, <3>2
  <2>2. ASSUME NEW n \in z.marked, OnWay(t, u, n) PROVE Under(a, n) /\ a # n
    <3>1. n \in Uris /\ Under(prev, n) /\ prev # n /\ n # a
      BY <1>1, <1>2, <1>6, <2>2, PendingIs DEF UpTo
    <3> QED BY <1>7, <3>1
  <2> QED BY <1>8, <2>1, <2>2 DEF UpTo
<1>13. Held(files, w, t, u, y, z)
  <2> SUFFICES ASSUME NEW d \in (parts \cap Folders(files) \cap y.marked) \ x.marked
               PROVE  \/ z.top[Last(d)] \notin {NoUri, t}
                      \/ \E p \in pend \cap Folders(files) : Last(p) = Last(d)
    BY <1>1, <1>4, <1>6, <1>8 DEF Held, parts
  <2>1. x.top[Last(d)] \notin {NoUri, t} \/ \E p \in pend \cap Folders(files) : Last(p) = Last(d)
    BY <1>1 DEF Held, parts, pend
  <2>2. Last(d) \in Segments
    BY InSight
  <2> QED BY <1>5, <1>6, <2>1, <2>2
<1>14. z.marked \subseteq m.marked /\ Size(files, w, t, u, z) <= Size(files, w, t, u, m)
  <2>1. Size(files, w, t, u, z) <= Size(files, w, t, u, x) /\ Size(files, w, t, u, z) \in Nat
        /\ Size(files, w, t, u, x) \in Nat
    <3>1. z.marked \subseteq x.marked /\ Unsound(files, w, t, u, z) \subseteq Unsound(files, w, t, u, x)
      BY <1>6, <1>9 DEF uns
    <3>2. z \in Marks(files)
      BY <1>6
    <3> QED BY <1>1, <3>1, <3>2, SizeIs
  <2>2. Size(files, w, t, u, m) \in Nat
    BY <1>1, SizeIs
  <2>3. Size(files, w, t, u, x) <= Size(files, w, t, u, m)
    BY <1>1
  <2>4. Size(files, w, t, u, z) <= Size(files, w, t, u, m)
    BY ONLY <2>1, <2>2, <2>3
  <2> QED BY <1>1, <1>6, <2>4
<1> QED BY <1>10, <1>11, <1>12, <1>13, <1>14 DEF Going, Between

\* Promoting the children of an ancestor in turn leaves none of them to be promoted.
LEMMA ChildrenKeep ==
    ASSUME NEW files, NEW w, NEW t, NEW u, Setting(files, w, t, u),
           NEW unmark, NEW k, Reliable(files, w, t, u, unmark, k),
           NEW y, NEW m \in Marks(files), Size(files, w, t, u, m) < k,
           NEW a \in Uris, Under(u, a), a # u, NEW x,
           Going(files, w, t, u, y, m, x, a, {c \in Known(files) : Front(c) = a})
    PROVE  Going(files, w, t, u, y, m, PromoteAll(unmark, files, x, getChildNodes(files, a)), a, {})
<1> DEFINE S == Marks(files)
           T == {c \in Known(files) : Front(c) = a}
           seq == getChildNodes(files, a)
           Open(i) == T \ {seq[j] : j \in 1..i}
           F == [p \in S \X T |-> Promote(unmark, files, p[1], p[2])]
           P == [i \in 0..Len(seq) |-> {v \in S : Going(files, w, t, u, y, m, v, a, Open(i))}]
<1>1. seq \in Seq(T) /\ (\A c \in T : \E i \in 1..Len(seq) : seq[i] = c) /\ files \in SUBSET Files
  BY ChildrenAre DEF Enumerates, Setting
<1>2. \A v \in S, c \in T : Promote(unmark, files, v, c) \in S
  BY <1>1, PromoteType DEF Reliable
<1>3. PromoteRule(F, unmark, files, S, T) /\ \A v \in S, c \in T : F[<<v, c>>] = Promote(unmark, files, v, c)
  BY <1>2 DEF PromoteRule
<1>4. x \in S
  BY DEF Going, Between, Shape
<1>5. Open(0) = T /\ Open(Len(seq)) = {}
  <2> HIDE DEF T, seq
  <2>1. 1..0 = {} /\ DOMAIN seq = 1..Len(seq)
    BY <1>1
  <2> QED BY <1>1, <2>1
<1>6. ASSUME NEW i \in 1..Len(seq)
      PROVE  Open(i) = Open(i - 1) \ {seq[i]} /\ seq[i] \in T /\ (\A o \in Open(i - 1) : Front(o) = a)
  <2>1. seq[i] \in T
    <3> HIDE DEF T, seq
    <3> QED BY <1>1
  <2>2. \A o \in Open(i - 1) : Front(o) = a
    OBVIOUS
  <2>3. Len(seq) \in Nat
    <3> HIDE DEF T, seq
    <3> QED BY <1>1
  <2>4. Open(i) = Open(i - 1) \ {seq[i]}
    <3> HIDE DEF T, seq
    <3>1. \A j : j \in 1..i <=> j \in 1..(i - 1) \/ j = i
      BY <2>3
    <3> QED BY <3>1
  <2> QED BY <2>1, <2>2, <2>4
<1>7. Len(seq) \in Nat
  <2> HIDE DEF T, seq
  <2> QED BY <1>1
<1>8. Reaches(P, S, seq, F)
  <2>1. ASSUME NEW i \in 1..Len(seq), NEW v \in S, Going(files, w, t, u, y, m, v, a, Open(i - 1))
        PROVE  Promote(unmark, files, v, seq[i]) \in S
               /\ Going(files, w, t, u, y, m, Promote(unmark, files, v, seq[i]), a, Open(i))
    <3>1. seq[i] \in T /\ seq[i] \in Known(files) /\ Front(seq[i]) = a
      BY <1>6
    <3>2. (\A o \in Open(i - 1) : Front(o) = a) /\ Open(i) = Open(i - 1) \ {seq[i]}
      BY <1>6
    <3> HIDE DEF seq, T, Open, S
    <3>3. Going(files, w, t, u, y, m, Promote(unmark, files, v, seq[i]), a, Open(i - 1) \ {seq[i]})
      BY <2>1, <3>1, <3>2, PromoteKeeps
    <3>4. Promote(unmark, files, v, seq[i]) \in S
      BY <1>2, <3>1
    <3> QED BY <3>2, <3>3, <3>4
  <2>2. \A i \in 1..Len(seq) : seq[i] \in T
    BY <1>6
  <2>3. P \in [0..Len(seq) -> SUBSET S]
    OBVIOUS
  <2>4. \A i \in 0..Len(seq) : P[i] = {v \in S : Going(files, w, t, u, y, m, v, a, Open(i))}
    OBVIOUS
  <2> HIDE DEF P, seq, T, S, Open, F
  <2>5. ASSUME NEW i \in 1..Len(seq), NEW v \in P[i - 1] PROVE F[<<v, seq[i]>>] \in P[i]
    <3>1. i \in 0..Len(seq) /\ i - 1 \in 0..Len(seq)
      BY <1>7
    <3>2. v \in S /\ Going(files, w, t, u, y, m, v, a, Open(i - 1))
      BY <2>4, <3>1
    <3>3. F[<<v, seq[i]>>] = Promote(unmark, files, v, seq[i])
      BY <1>3, <2>2, <3>2
    <3> QED BY <2>1, <2>4, <3>1, <3>2, <3>3
  <2> QED BY <2>3, <2>5 DEF Reaches
<1>9. x \in P[0] /\ \A v \in P[Len(seq)] : Going(files, w, t, u, y, m, v, a, {})
  <2>1. 0 \in 0..Len(seq) /\ Len(seq) \in 0..Len(seq)
    <3> HIDE DEF seq
    <3> QED BY <1>7
  <2>2. P[0] = {v \in S : Going(files, w, t, u, y, m, v, a, T)}
    BY <1>5, <2>1
  <2>3. P[Len(seq)] = {v \in S : Going(files, w, t, u, y, m, v, a, {})}
    <3> HIDE DEF seq, T, S, Open
    <3> QED BY <1>5, <2>1
  <2> HIDE DEF P, seq, S
  <2> QED BY <1>4, <2>2, <2>3
<1>10. PromoteAll(unmark, files, x, seq) \in P[Len(seq)]
  <2> HIDE DEF S, T, seq, P, F
  <2> QED BY <1>1, <1>3, <1>8, <1>9, PromoteFold
<1> QED BY <1>9, <1>10

\* So one ancestor is done with.
LEMMA AncestorKeeps ==
    ASSUME NEW files, NEW w, NEW t, NEW u, Setting(files, w, t, u),
           NEW unmark, NEW k, Reliable(files, w, t, u, unmark, k),
           NEW y, NEW m \in Marks(files), Size(files, w, t, u, m) < k,
           NEW x, NEW prev, Going(files, w, t, u, y, m, x, prev, {}), prev \in Uris, 0 < Len(prev),
           NEW a \in Known(files), a = Front(prev), Under(u, a), a # u
    PROVE  Going(files, w, t, u, y, m, UnmarkAncestor(unmark, files, x, a), a, {})
<1> DEFINE z == WithoutAncestor(x, a)
<1>1. UnmarkAncestor(unmark, files, x, a) = PromoteAll(unmark, files, z, getChildNodes(files, a))
  BY DEF UnmarkAncestor, PromoteAll, WithoutAncestor
<1>2. Going(files, w, t, u, y, m, z, a, {c \in Known(files) : Front(c) = a})
  BY AncestorBase
<1>3. a \in Uris
  BY InSight
<1> HIDE DEF z
<1> QED BY <1>1, <1>2, <1>3, ChildrenKeep

\* The ancestors are above one another.
LEMMA AncestorsAscend ==
    ASSUME NEW files \in SUBSET Files, NEW e \in Known(files), NEW i \in 1..Len(iterateAncestors(files, e))
    PROVE  LET A == iterateAncestors(files, e) IN
           /\ A[i] \in Folders(files) /\ A[i] \in Known(files) /\ A[i] \in Uris
           /\ Len(A[i]) = Len(e) - i /\ 0 < Len(A[i]) /\ Under(e, A[i]) /\ A[i] # e /\ Under(Front(e), A[i])
           /\ A[i] = Front(IF i = 1 THEN e ELSE A[i - 1])
<1> DEFINE A == iterateAncestors(files, e)
<1>1. e \in Uris /\ 0 < Len(e) /\ Len(e) \in Nat
  BY TreeIs DEF Uris
<1>2. /\ Len(A) = Len(e) - 1 /\ A \in Seq(Folders(files))
      /\ \A j \in 1..Len(A) : Len(A[j]) = Len(e) - j /\ Under(e, A[j]) /\ A[j] # e
  BY AncestorsAre
<1>3. \A j \in 1..Len(A) : A[j] \in Folders(files)
  <2> HIDE DEF A
  <2> QED BY <1>2
<1>4. \A n \in Folders(files) : n \in Known(files) /\ n \in Uris /\ 0 < Len(n)
  BY TreeIs
<1> HIDE DEF A
<1>5. A[i] \in Uris /\ A[i] \in Known(files) /\ 0 < Len(A[i]) /\ i \in 1..Len(A)
  BY <1>3, <1>4 DEF A
<1>6. Under(Front(e), A[i])
  BY <1>1, <1>2, <1>5, ParentIs
<1>7. CASE i = 1
  <2>1. Front(e) \in Uris /\ Len(Front(e)) = Len(e) - 1 /\ Under(e, Front(e))
    BY <1>1, ParentIs
  <2>2. Len(A[i]) = Len(e) - 1
    BY <1>2, <1>5, <1>7
  <2> QED BY <1>5, <1>6, <1>7, <2>1, <2>2, <1>3, <1>2, UnderOrder DEF A
<1>8. CASE i # 1
  <2> DEFINE p == A[i - 1]
  <2>1. i - 1 \in 1..Len(A) /\ i \in Nat
    BY <1>1, <1>2, <1>5, <1>8
  <2>2. p \in Uris /\ 0 < Len(p) /\ Under(e, p) /\ Len(p) = Len(e) - (i - 1)
    BY <1>2, <1>3, <1>4, <2>1
  <2> HIDE DEF p
  <2>3. Front(p) \in Uris /\ Len(Front(p)) = Len(p) - 1 /\ Under(p, Front(p))
    BY <2>2, ParentIs
  <2>4. Under(e, Front(p))
    BY <1>1, <2>2, <2>3, UnderOrder
  <2>5. Len(A[i]) = Len(e) - i /\ Under(e, A[i])
    BY <1>2, <1>5
  <2>6. Len(Front(p)) = Len(A[i])
    BY <1>1, <2>1, <2>2, <2>3, <2>5
  <2>7. Under(Front(p), A[i]) \/ Under(A[i], Front(p))
    BY <1>1, <1>5, <2>3, <2>4, <2>5, UnderOrder
  <2>8. A[i] = Front(p)
    BY <1>5, <2>3, <2>6, <2>7, UnderOrder
  <2> QED BY <1>2, <1>3, <1>5, <1>6, <1>8, <2>8 DEF p, A
<1> QED BY <1>7, <1>8

\* Going through all the ancestors settles what is marked.
LEMMA AncestorsSettle ==
    ASSUME NEW files, NEW w, NEW t, NEW u, Setting(files, w, t, u),
           NEW unmark, NEW k, Reliable(files, w, t, u, unmark, k),
           NEW y, NEW m \in Marks(files), Size(files, w, t, u, m) < k,
           NEW e \in Known(files), 1 < Len(e), Under(u, Front(e)), Front(e) # u,
           Between(files, w, t, u, y, m, e, {})
    PROVE  LET z == UnmarkAncestors(unmark, files, m, iterateAncestors(files, e)) IN
           /\ Settled(files, w, t, u, z) /\ Held(files, w, t, u, y, z) /\ z.marked \subseteq m.marked
<1> DEFINE S == Marks(files)
           T == Known(files)
           seq == iterateAncestors(files, e)
           B(i) == IF i = 0 THEN e ELSE seq[i]
           F == [p \in S \X T |-> UnmarkAncestor(unmark, files, p[1], p[2])]
           P == [i \in 0..Len(seq) |-> {v \in S : Going(files, w, t, u, y, m, v, B(i), {})}]
<1>1. files \in SUBSET Files /\ e \in Uris /\ Len(e) \in Nat /\ 0 < Len(e) /\ Front(e) \in Uris /\ u \in Uris
  <2>1. e \in Uris /\ 0 < Len(e) /\ Front(e) \in Uris /\ u \in Uris /\ files \in SUBSET Files
    BY InSight DEF Setting
  <2>2. Len(e) \in Nat
    BY <2>1 DEF Uris
  <2> QED BY <2>1, <2>2
<1>2. Len(seq) = Len(e) - 1 /\ Len(seq) \in Nat \ {0}
  BY <1>1, AncestorsAre
<1>3. \A i \in 1..Len(seq) :
         /\ seq[i] \in T /\ seq[i] \in Uris /\ Len(seq[i]) = Len(e) - i /\ 0 < Len(seq[i])
         /\ Under(Front(e), seq[i]) /\ seq[i] = Front(IF i = 1 THEN e ELSE seq[i - 1])
  BY <1>1, AncestorsAscend
<1>4. seq \in Seq(T)
  <2>1. seq \in Seq(Folders(files))
    BY <1>1, AncestorsAre
  <2> HIDE DEF seq, T
  <2> QED BY <1>3, <2>1
<1> HIDE DEF seq
<1>5. \A v \in S, c \in T : UnmarkAncestor(unmark, files, v, c) \in S
  BY <1>1, UnmarkAncestorType DEF Reliable
<1>6. /\ AncestorRule(F, unmark, files, S, T)
      /\ \A v \in S, c \in T : F[<<v, c>>] = UnmarkAncestor(unmark, files, v, c)
  BY <1>5 DEF AncestorRule
<1>7. ASSUME NEW i \in 1..Len(seq) PROVE Under(u, seq[i]) /\ seq[i] # u
  BY <1>1, <1>3, UnderOrder
<1>8. ASSUME NEW i \in 1..Len(seq)
      PROVE  B(i - 1) \in Uris /\ 0 < Len(B(i - 1)) /\ seq[i] = Front(B(i - 1)) /\ B(i) = seq[i]
  <2>1. CASE i = 1
    BY <1>1, <1>3, <2>1
  <2>2. CASE i # 1
    <3>1. i - 1 \in 1..Len(seq) /\ i - 1 # 0 /\ i # 0
      BY <1>2, <2>2
    <3> QED BY <1>3, <2>2, <3>1
  <2> QED BY <2>1, <2>2
<1>9. Reaches(P, S, seq, F)
  <2>1. P \in [0..Len(seq) -> SUBSET S]
    OBVIOUS
  <2>2. \A i \in 0..Len(seq) : P[i] = {v \in S : Going(files, w, t, u, y, m, v, B(i), {})}
    OBVIOUS
  <2> HIDE DEF P, S, T, B, F
  <2>3. ASSUME NEW i \in 1..Len(seq), NEW v \in P[i - 1] PROVE F[<<v, seq[i]>>] \in P[i]
    <3>1. i \in 0..Len(seq) /\ i - 1 \in 0..Len(seq)
      BY <1>2
    <3>2. v \in S /\ Going(files, w, t, u, y, m, v, B(i - 1), {})
      BY <2>2, <3>1
    <3>3. seq[i] \in T /\ seq[i] \in Known(files)
      BY <1>3 DEF T
    <3>4. Going(files, w, t, u, y, m, UnmarkAncestor(unmark, files, v, seq[i]), seq[i], {})
      <4>1. /\ B(i - 1) \in Uris /\ 0 < Len(B(i - 1)) /\ seq[i] = Front(B(i - 1))
            /\ Under(u, seq[i]) /\ seq[i] # u
        BY <1>7, <1>8
      <4> QED BY <3>2, <3>3, <4>1, AncestorKeeps
    <3>5. /\ UnmarkAncestor(unmark, files, v, seq[i]) \in S
          /\ F[<<v, seq[i]>>] = UnmarkAncestor(unmark, files, v, seq[i])
      BY <1>5, <1>6, <3>2, <3>3
    <3>6. B(i) = seq[i]
      BY <1>8
    <3> QED BY <2>2, <3>1, <3>4, <3>5, <3>6
  <2> QED BY <2>1, <2>3 DEF Reaches
<1>10. m \in P[0]
  <2>1. B(0) = e /\ 0 \in 0..Len(seq)
    BY <1>2
  <2>2. Size(files, w, t, u, m) \in Nat
    BY <1>1, SizeIs
  <2>3. Going(files, w, t, u, y, m, m, e, {})
    BY <2>2 DEF Going
  <2> QED BY <2>1, <2>3
<1> DEFINE z == UnmarkAncestors(unmark, files, m, seq)
           a == seq[Len(seq)]
<1>11. z \in P[Len(seq)]
  <2> HIDE DEF S, T, P, F, B
  <2> QED BY <1>4, <1>6, <1>9, <1>10, AncestorFold
<1>12. Going(files, w, t, u, y, m, z, a, {})
  <2>1. B(Len(seq)) = a /\ Len(seq) \in 0..Len(seq)
    BY <1>2
  <2> HIDE DEF z, B, a
  <2> QED BY <1>11, <2>1
<1>13. a \in Uris /\ Len(a) = 1
  <2>1. Len(seq) \in 1..Len(seq)
    BY <1>2
  <2>2. a \in Uris /\ Len(a) = Len(e) - Len(seq)
    BY <1>3, <2>1
  <2> HIDE DEF a
  <2> QED BY <1>1, <1>2, <2>2
<1> HIDE DEF z, a
<1>14. /\ Shape(files, w, t, u, z) /\ Names1(files, w, t, u, z) /\ UpTo(files, w, t, u, z, a, {})
       /\ Held(files, w, t, u, y, z) /\ z.marked \subseteq m.marked
  BY <1>12 DEF Going, Between
<1>15. ASSUME NEW n \in Uris, OnWay(t, u, n), Under(a, n), a # n PROVE FALSE
  <2>1. t \in Uris /\ 0 < Len(t) /\ Len(t) <= Len(n) /\ Len(n) <= Len(a)
    BY <1>13, <1>15, InSight, UnderOrder DEF OnWay
  <2>2. Len(n) = Len(a)
    BY <1>13, <1>15, <2>1 DEF Uris
  <2> QED BY <1>13, <1>15, <2>2, UnderOrder
<1>16. Pending(files, w, t, u, z) = {}
  <2>1. \A c \in Pending(files, w, t, u, z) : Front(c) \in Uris /\ OnWay(t, u, Front(c))
    BY <1>14, PendingIs
  <2> QED BY <1>14, <1>15, <2>1 DEF UpTo
<1>17. Unsound(files, w, t, u, z) = {}
  BY <1>14, <1>16 DEF Names1
<1>18. \A n \in z.marked : ~OnWay(t, u, n)
  <2>1. \A n \in z.marked : n \in Uris
    BY <1>14, PendingIs, InSight
  <2> QED BY <1>14, <1>15, <2>1 DEF UpTo
<1>19. Settled(files, w, t, u, z) /\ Held(files, w, t, u, y, z) /\ z.marked \subseteq m.marked
  BY <1>14, <1>16, <1>17, <1>18 DEF Settled
<1> QED BY <1>19 DEF z, seq

\* Whatever calls it needs, unmarkFolder gets there when it is deep enough.
LEMMA DeepEnough ==
    ASSUME NEW files, NEW w, NEW t, NEW u, Setting(files, w, t, u), NEW unmark, IsUnmarking(unmark, files)
    PROVE  \A d \in Nat : Claim(files, w, t, u, unmark[d], d)
<1> DEFINE T == {d \in Nat : Claim(files, w, t, u, unmark[d], d)}
<1>1. files \in SUBSET Files
  BY DEF Setting
<1>2. 0 \in T
  <2>1. \A x \in Marks(files) : Size(files, w, t, u, x) \in Nat
    BY <1>1, SizeIs
  <2> QED BY <2>1 DEF Claim
<1>3. ASSUME NEW d \in Nat, d \in T PROVE d + 1 \in T
  <2> SUFFICES ASSUME NEW x \in Marks(files), NEW e \in Folders(files),
                      Calls(files, w, t, u, x, e), Size(files, w, t, u, x) < d + 1
               PROVE  Returns(files, w, t, u, x, e, unmark[d + 1][<<x, e>>])
    BY DEF Claim
  <2> DEFINE m == Clear(files, x, e)
             A == iterateAncestors(files, e)
             z == UnmarkAncestors(unmark[d], files, m, A)
  <2>1. e \in Seq(Segments) /\ e \in Known(files)
    BY InSight
  <2>2. unmark[d + 1][<<x, e>>] = UnmarkStep(unmark[d], files, x, e)
    <3>1. unmark[d + 1] = [p \in Marks(files) \X Seq(Segments) |->
              IF d + 1 = 0 THEN p[1] ELSE UnmarkStep(unmark[d + 1 - 1], files, p[1], p[2])]
      BY DEF IsUnmarking
    <3>2. d + 1 # 0 /\ d + 1 - 1 = d
      OBVIOUS
    <3> QED BY <2>1, <3>1, <3>2
  <2>3. UnmarkStep(unmark[d], files, x, e) = z
    BY DEF UnmarkStep, UnmarkAncestors, Clear
  <2> HIDE DEF m, A, z
  <2>4. PICK c \in Pending(files, w, t, u, x) \cap Folders(files) : Last(c) = Last(e)
    BY DEF Calls
  <2>5. Between(files, w, t, u, x, x, e, {})
    BY DEF Calls, Between, Held
  <2>6. e \in Beside(files, t, u) /\ e \in Parts(files, w, t, u) \cap Tops(x)
    BY DEF Calls, Parts
  <2>7. /\ Between(files, w, t, u, x, m, e, {})
        /\ Size(files, w, t, u, m) < Size(files, w, t, u, x)
    BY <2>4, <2>5, <2>6, ClearBetween DEF m
  <2>8. m \in Marks(files) /\ m.marked = {n \in x.marked : ~Under(n, e)}
    BY <1>1, ClearIs DEF m
  <2>9. Size(files, w, t, u, m) < d /\ d \in Nat \ {0}
    <3>1. /\ Size(files, w, t, u, m) \in Nat
          /\ Size(files, w, t, u, x) \in Nat
      BY <1>1, <2>8, SizeIs
    <3> QED BY <2>7, <3>1
  <2>10. Reliable(files, w, t, u, unmark[d], d)
    BY <1>1, <1>3, <2>9, UnmarkQuiet DEF Reliable
  <2>11. 1 < Len(e) /\ Under(u, Front(e)) /\ Front(e) # u
    <3>1. Under(Front(e), t) /\ Under(u, Front(e)) /\ Front(e) # u
      BY <2>6 DEF Beside, OnWay
    <3>2. t \in Uris /\ 0 < Len(t) /\ e \in Uris /\ 0 < Len(e) /\ Front(e) \in Uris /\ Len(Front(e)) = Len(e) - 1
      BY <2>1, InSight, ParentIs
    <3>3. Len(t) <= Len(Front(e)) /\ Len(t) \in Nat /\ Len(e) \in Nat
      BY <3>1, <3>2, UnderOrder DEF Uris
    <3> QED BY <3>1, <3>2, <3>3
  <2>12. Settled(files, w, t, u, z) /\ Held(files, w, t, u, x, z) /\ z.marked \subseteq m.marked
    BY <2>1, <2>7, <2>8, <2>9, <2>10, <2>11, AncestorsSettle DEF z, A
  <2> QED BY <2>2, <2>3, <2>8, <2>12 DEF Returns
<1> HIDE DEF T
<1>4. \A d \in Nat : d \in T
  BY <1>2, <1>3, Induction
<1> QED BY <1>4 DEF T

\* Unmarking u in t: what is marked at the end, and what is top-level.
LEMMA Through ==
    ASSUME NEW files, NEW w, NEW t, NEW u, Setting(files, w, t, u), u \in Seq(Segments)
    PROVE  LET z == unmarkFolder(files)[<<w, u>>] IN
           /\ Settled(files, w, t, u, z) /\ Held(files, w, t, u, w, z)
           /\ z.marked \subseteq {n \in w.marked : ~Under(n, u)}
<1>1. files \in SUBSET Files /\ w \in Marks(files) /\ u \in Known(files) /\ Under(u, t) /\ u # t
  BY DEF Setting, OK
<1>2. PICK unmark : IsUnmarking(unmark, files) /\ unmarkFolder(files) = unmark[Depth(files)]
  BY <1>1, UnmarkFolderIs
<1> DEFINE d == Depth(files) - 1
           m == Clear(files, w, u)
           A == iterateAncestors(files, u)
           z == UnmarkAncestors(unmark[d], files, m, A)
           n == Cardinality(Known(files))
<1>3. n \in Nat \ {0}
  <2>1. IsFiniteSet(Known(files))
    BY <1>1, KnownFinite
  <2> QED BY <1>1, <2>1, FS_CardinalityType, FS_EmptySet
<1>4. Depth(files) \in Nat \ {0} /\ d \in Nat \ {0} /\ 2 * n + 1 <= d
  <2>1. Depth(files) = (n + 1) * (n + 1)
    BY DEF Depth
  <2> HIDE DEF n
  <2>2. (n + 1) * (n + 1) = n * n + 2 * n + 1 /\ n * n \in Nat /\ n <= n * n
    BY <1>3, SMT
  <2> QED BY <1>3, <2>1, <2>2, SMT
<1>5. unmarkFolder(files)[<<w, u>>] = UnmarkStep(unmark[d], files, w, u)
  <2>1. unmark[Depth(files)] = [p \in Marks(files) \X Seq(Segments) |->
            IF Depth(files) = 0 THEN p[1] ELSE UnmarkStep(unmark[Depth(files) - 1], files, p[1], p[2])]
    BY <1>2, <1>4 DEF IsUnmarking
  <2> QED BY <1>1, <1>2, <1>4, <2>1
<1>6. UnmarkStep(unmark[d], files, w, u) = z
  BY DEF UnmarkStep, UnmarkAncestors, Clear
<1> HIDE DEF d, m, A, z
<1>7. /\ Between(files, w, t, u, w, m, u, {}) /\ m.marked = {v \in w.marked : ~Under(v, u)}
      /\ m.marked # w.marked
  BY Start DEF m
<1>8. m \in Marks(files)
  BY <1>7 DEF Between, Shape
<1>9. Size(files, w, t, u, m) < d
  <2>1. /\ Size(files, w, t, u, m) \in Nat /\ Size(files, w, t, u, w) \in Nat
        /\ Size(files, w, t, u, w) <= 2 * n + 1
        /\ Size(files, w, t, u, m) < Size(files, w, t, u, w)
    BY <1>1, <1>7, <1>8, SizeIs
  <2> HIDE DEF n
  <2> QED BY <1>3, <1>4, <2>1
<1>10. Reliable(files, w, t, u, unmark[d], d)
  BY <1>1, <1>2, <1>4, UnmarkQuiet, DeepEnough DEF Reliable
<1>11. 1 < Len(u) /\ Under(u, Front(u)) /\ Front(u) # u
  <2>1. t \in Uris /\ 0 < Len(t) /\ u \in Uris /\ 0 < Len(u)
    BY InSight DEF Setting
  <2>2. Len(t) <= Len(u) /\ Len(t) # Len(u) /\ Len(t) \in Nat /\ Len(u) \in Nat
    BY <1>1, <2>1, UnderOrder DEF Uris
  <2> QED BY <2>1, <2>2, ParentIs
<1>12. Settled(files, w, t, u, z) /\ Held(files, w, t, u, w, z) /\ z.marked \subseteq m.marked
  BY <1>1, <1>7, <1>8, <1>9, <1>10, <1>11, AncestorsSettle DEF z, A
<1> QED BY <1>5, <1>6, <1>7, <1>12

-----------------------------------------------------------------------------
(* What unmarkFolder leaves when marks and map agreed.                     *)

\* A file that is not marked any more is in what was unmarked, directly in one of the ancestors
\* of that, or in a folder, top-level or promoted, whose name another one has now.
Excused(files, w, u, v, f) ==
    \/ Under(f, u) \/ Under(u, Front(f))
    \/ \E d \in Folders(files) :
          /\ Under(f, d) /\ (d \in Tops(w) \/ Under(u, Front(d))) /\ v.top[Last(d)] \notin {NoUri, d}

\* What unmarking a folder comes to.
Unmarked(files, w, u, v) ==
    /\ OK(files, v) /\ Apart(v) /\ v.marked \subseteq w.marked
    /\ \A f \in (files \cap w.marked) \ v.marked : Excused(files, w, u, v, f)
    /\ \A s \in Tops(v) : s \in Tops(w) \/ (s \in Folders(files) /\ Under(u, Front(s)))

\* When a folder in a top-level one has been unmarked, marks and map agree again.
LEMMA Ends ==
    ASSUME NEW files, NEW w, NEW t, NEW u, Setting(files, w, t, u),
           NEW z, Settled(files, w, t, u, z), Held(files, w, t, u, w, z)
    PROVE  Unmarked(files, w, u, z)
<1> DEFINE parts == Parts(files, w, t, u)
<1>1. /\ Shape(files, w, t, u, z) /\ Pending(files, w, t, u, z) = {} /\ Unsound(files, w, t, u, z) = {}
      /\ \A n \in z.marked : ~OnWay(t, u, n)
  BY DEF Settled
<1>2. /\ files \in SUBSET Files /\ w \in Marks(files) /\ z \in Marks(files) /\ t \in Tops(w)
      /\ w.marked = {n \in Known(files) : Covered(n, w)} /\ z.marked \subseteq w.marked
  BY <1>1 DEF Setting, OK, Shape, Held
<1>3. t \notin Tops(z)
  BY <1>1, <1>2, InSight DEF Shape
<1>4. /\ Tops(z) \subseteq parts
      /\ (\A s \in Tops(z) : s \in z.marked) /\ (\A c \in parts \cap z.marked : c \in Tops(z))
  BY <1>1, <1>3 DEF Shape, parts, Pending, Unsound
<1>5. /\ \A c \in parts : c \in Known(files) /\ c \in Uris /\ 0 < Len(c) /\ Under(c, c)
      /\ \A n \in Known(files) : n \in Uris /\ 0 < Len(n) /\ Under(n, n)
      /\ t \in Uris /\ u \in Uris
  BY InSight, UnderOrder DEF parts
<1>6. \A c, d \in parts, n \in Uris : Under(n, c) /\ Under(n, d) => c = d
  BY PartsApart DEF parts
<1>7. \A c \in parts : c \in Beside(files, t, u) \/ (c \in Tops(w) /\ c # t)
  BY DEF parts, Parts
<1> HIDE DEF parts
<1>8. OK(files, z)
  <2>1. ASSUME NEW n \in z.marked PROVE Covered(n, z)
    BY <1>1, <1>4 DEF Shape, parts, Covered
  <2>2. ASSUME NEW n \in Known(files), Covered(n, z) PROVE n \in z.marked
    BY <1>1, <1>4, <2>2 DEF Shape, parts, Covered
  <2>3. z.marked \subseteq Known(files)
    BY <1>2, MarksAre
  <2> QED BY <1>2, <2>1, <2>2, <2>3 DEF OK
<1>9. Apart(z)
  BY <1>4, <1>5, <1>6 DEF Apart, Outermost
<1>10. ASSUME NEW s \in Tops(z) PROVE s \in Tops(w) \/ (s \in Folders(files) /\ Under(u, Front(s)))
  <2>1. s \in Folders(files)
    BY <1>2, TopsAre
  <2> QED BY <1>4, <1>7, <2>1 DEF Beside, OnWay
<1>11. ASSUME NEW c \in parts \cap Folders(files), c \in w.marked, c \notin z.marked
       PROVE  z.top[Last(c)] \notin {NoUri, c}
  <2>1. z.top[Last(c)] # NoUri
    BY <1>1, <1>11 DEF Held, parts
  <2>2. z.top[Last(c)] \in Tops(z)
    BY <1>2, <2>1, InSight, TopsAre
  <2> QED BY <1>4, <1>11, <2>1, <2>2
<1>12. ASSUME NEW f \in files, f \in w.marked, f \notin z.marked PROVE Excused(files, w, u, z, f)
  <2> SUFFICES ASSUME ~Under(f, u), ~Under(u, Front(f)) PROVE Excused(files, w, u, z, f)
    BY DEF Excused
  <2>1. f \in Known(files) /\ f \in Uris /\ f \notin Folders(files)
    BY <1>2, FilesAre, TreeIs DEF Known
  <2>2. PICK s \in Tops(w) : Under(f, s)
    BY <1>2, <1>12 DEF Covered
  <2>3. \A c \in Uris : 0 < Len(c) /\ Under(f, c) /\ c # f => c \in Folders(files)
    BY <1>2, <2>1, TreeIs
  <2>4. CASE s = t
    <3>1. ~OnWay(t, u, f)
      <4>1. Under(u, f) /\ f # u => f \in Folders(files)
        BY <1>2, <1>5, <2>1, TreeIs DEF Setting
      <4> QED BY <2>1, <4>1 DEF OnWay
    <3>2. PICK c \in Beside(files, t, u) : Under(f, c)
      BY <2>1, <2>2, <2>4, <3>1, OnWayOrBeside
    <3>3. c # f /\ Under(u, Front(c))
      BY <3>2 DEF Beside, OnWay
    <3>4. c \in parts /\ c \in Known(files) /\ c \in Uris /\ 0 < Len(c)
      BY <1>5 DEF parts, Parts
    <3>5. c \in Folders(files)
      BY <2>3, <3>2, <3>3, <3>4
    <3>6. c \in w.marked
      <4>1. Under(c, t)
        BY PartsApart
      <4> QED BY <1>2, <3>4, <4>1 DEF Covered
    <3>7. c \notin z.marked
      BY <1>1, <1>12, <2>1, <3>2, <3>4 DEF Shape, parts
    <3>8. z.top[Last(c)] \notin {NoUri, c}
      BY <1>11, <3>4, <3>5, <3>6, <3>7
    <3> QED BY <3>2, <3>3, <3>5, <3>8 DEF Excused
  <2>5. CASE s # t
    <3>1. s \in parts /\ s \in Folders(files) /\ s \in Known(files) /\ s \in Uris
      BY <1>2, <2>5, TopsAre DEF parts, Parts
    <3>2. s \in w.marked
      BY <1>2, <1>5, <3>1 DEF Covered
    <3>3. s \notin z.marked
      BY <1>1, <1>12, <2>1, <2>2, <3>1 DEF Shape, parts
    <3>4. z.top[Last(s)] \notin {NoUri, s}
      BY <1>11, <3>1, <3>2, <3>3
    <3> QED BY <2>2, <3>1, <3>4 DEF Excused
  <2> QED BY <2>4, <2>5
<1> QED BY <1>2, <1>8, <1>9, <1>10, <1>12 DEF Unmarked

\* What the commands are given can be compared with nodes.
LEMMA SegmentUris == Seq(Segments) \subseteq Uris
BY DEF Uris, Names

\* No known node is below a folder that is not known.
LEMMA NothingBelow ==
    ASSUME NEW files \in SUBSET Files, NEW u \in Uris, u \notin Known(files), 0 < Len(u),
           NEW n \in Known(files)
    PROVE  ~Under(n, u)
BY TreeIs

\* unmarkFolder keeps marks and map in agreement, and top-level folders apart, unless there is
\* a namesake of the top-level folder beside the way.
LEMMA UnmarkKeeps ==
    ASSUME NEW files \in SUBSET Files, NEW w, OK(files, w), Apart(w), NEW u \in Seq(Segments),
           \A t \in Tops(w) : ~Namesake(files, u, t)
    PROVE  /\ unmarkFolder(files)[<<w, u>>] \in Marks(files)
           /\ Unmarked(files, w, u, unmarkFolder(files)[<<w, u>>])
<1> DEFINE z == unmarkFolder(files)[<<w, u>>]
<1>1. w \in Marks(files) /\ u \in Uris
  BY SegmentUris DEF OK
<1>2. z \in Marks(files)
  BY <1>1, UnmarkFolderType DEF Unmarkings
<1>3. CASE u \in Known(files) /\ \E t \in Tops(w) : Under(u, t) /\ u # t
  <2>1. PICK t \in Tops(w) : Setting(files, w, t, u)
    BY <1>3 DEF Setting
  <2>2. Settled(files, w, t, u, z) /\ Held(files, w, t, u, w, z)
    BY <2>1, Through
  <2> HIDE DEF z
  <2>3. Unmarked(files, w, u, z)
    BY <2>1, <2>2, Ends
  <2> QED BY <1>2, <2>3 DEF z
<1>4. CASE u \in Known(files) => \A t \in Tops(w) : Under(u, t) => u = t
  <2> DEFINE v == Clear(files, w, u)
             d == Depth(files)
  <2>1. PICK unmark : IsUnmarking(unmark, files) /\ unmarkFolder(files) = unmark[d]
    BY UnmarkFolderIs
  <2>2. d \in Nat \ {0} /\ d - 1 \in Nat
    <3>1. d \in Nat \ {0}
      BY KnownFinite
    <3> HIDE DEF d
    <3> QED BY <3>1
  <2> HIDE DEF d
  <2>3. z = UnmarkStep(unmark[d - 1], files, w, u) /\ unmark[d - 1] \in Unmarkings(files)
    BY <1>1, <2>1, <2>2 DEF IsUnmarking
  <2>4. u \in Known(files) => Quiet(files, w, u)
    BY <1>4, OutermostQuiet DEF Outermost
  <2>5. z = v
    BY <1>1, <2>3, <2>4, QuietStep
  <2>6. /\ v \in Marks(files) /\ v.marked = {n \in w.marked : ~Under(n, u)}
        /\ Tops(v) = {s \in Tops(w) : ~Under(s, u)}
    BY <1>1, ClearIs
  <2>7. ASSUME NEW n \in Known(files), NEW s \in Tops(w), Under(n, u), Under(n, s) PROVE Under(s, u)
    <3>1. n \in Uris /\ s \in Uris /\ 0 < Len(s)
      BY <1>1, TreeIs, TopsAre
    <3>2. CASE u \in Known(files)
      BY <1>1, <1>4, <2>7, <3>1, <3>2, UnderOrder
    <3>3. CASE u \notin Known(files)
      <4>1. ~(0 < Len(u)) /\ Len(u) \in Nat
        BY <1>1, <2>7, <3>3, NothingBelow DEF Uris
      <4>2. ~Under(u, s)
        <5>1. Under(u, s) => Len(s) <= Len(u)
          BY <1>1, <3>1, UnderOrder
        <5> QED BY <3>1, <4>1, <5>1 DEF Uris
      <4> QED BY <1>1, <2>7, <3>1, <4>2, UnderOrder
    <3> QED BY <3>2, <3>3
  <2>8. OK(files, v)
    BY <1>1, <2>7, ClearOK
  <2> HIDE DEF v, z
  <2>9. Apart(v)
    BY <2>6 DEF Apart, Outermost
  <2>10. \A f \in (files \cap w.marked) \ v.marked : Excused(files, w, u, v, f)
    BY <2>6 DEF Excused
  <2>11. Unmarked(files, w, u, z)
    BY <2>5, <2>6, <2>8, <2>9, <2>10 DEF Unmarked
  <2> QED BY <1>2, <2>11 DEF z
<1> QED BY <1>3, <1>4

-----------------------------------------------------------------------------
(* What unmarkFolder leaves whatever was marked before.                    *)

\* None of the nodes N is marked or top-level.
FreeOf(N, x) == \A n \in N : n \notin x.marked /\ n \notin Tops(x)

\* Nothing becomes marked, or top-level without being marked.
KeepsFree(files, unmark) ==
    /\ unmark \in Unmarkings(files)
    /\ \A x \in Marks(files), e \in Seq(Segments), N \in SUBSET Known(files) :
          FreeOf(N, x) => FreeOf(N, unmark[<<x, e>>])

\* A child that is promoted was marked.
LEMMA PromoteFree ==
    ASSUME NEW files \in SUBSET Files, NEW unmark, KeepsFree(files, unmark),
           NEW x \in Marks(files), NEW N \in SUBSET Known(files), FreeOf(N, x), NEW c \in Known(files)
    PROVE  FreeOf(N, Promote(unmark, files, x, c))
<1>1. CASE c \notin x.marked
  BY <1>1 DEF Promote
<1>2. CASE c \in x.marked /\ c \notin Folders(files)
  <2> DEFINE z == [x EXCEPT !.marked = @ \ {c}]
  <2>1. z.marked \subseteq x.marked /\ z.top = x.top
    BY MarksAre
  <2>2. Promote(unmark, files, x, c) = z
    BY <1>2 DEF Promote
  <2> HIDE DEF z
  <2> QED BY <2>1, <2>2 DEF FreeOf, Tops
<1>3. CASE c \in x.marked /\ c \in Folders(files)
  <2> DEFINE v == unmarkConflictingTopLevelFolder(unmark, x, c)
             e == x.top[Last(c)]
             z == Promoted(v, c)
  <2>1. c \in Seq(Segments) /\ Last(c) \in Segments /\ c # <<>> /\ unmark \in Unmarkings(files)
    <3>1. 0 < Len(c)
      BY TreeIs
    <3> QED BY <1>3, <3>1, TreeIs DEF KeepsFree
  <2>2. v = IF e \in {NoUri, c} THEN x ELSE unmark[<<x, e>>]
    BY <2>1 DEF unmarkConflictingTopLevelFolder, getTopLevelModuleName, Root
  <2>3. v \in Marks(files)
    BY <2>1, ConflictType
  <2>4. Promote(unmark, files, x, c) = z
    BY <1>3 DEF Promote, Promoted
  <2> HIDE DEF v, z
  <2>5. FreeOf(N, v)
    <3>1. e # NoUri => e \in Seq(Segments)
      BY <2>1, TopsAre
    <3> HIDE DEF e
    <3> QED BY <2>2, <3>1 DEF KeepsFree
  <2>6. z.marked = v.marked /\ \A m \in Segments : z.top[m] = IF m = Last(c) THEN c ELSE v.top[m]
    BY <2>1, <2>3, MarksAre DEF z, Promoted
  <2>7. \A s \in Tops(z) : s \in Tops(v) \/ s = c
    BY <2>6 DEF Tops
  <2>8. c \notin N
    BY <1>3 DEF FreeOf
  <2> QED BY <2>4, <2>5, <2>6, <2>7, <2>8 DEF FreeOf
<1> QED BY <1>1, <1>2, <1>3

\* Neither is an ancestor afterwards.
LEMMA AncestorFree ==
    ASSUME NEW files \in SUBSET Files, NEW unmark, KeepsFree(files, unmark),
           NEW x \in Marks(files), NEW N \in SUBSET Known(files), FreeOf(N, x), NEW a \in Known(files)
    PROVE  FreeOf(N \cup {a}, UnmarkAncestor(unmark, files, x, a))
<1> DEFINE M == N \cup {a}
           S == {v \in Marks(files) : FreeOf(M, v)}
           T == {n \in Known(files) : Front(n) = a}
           seq == getChildNodes(files, a)
           base == WithoutAncestor(x, a)
           F == [p \in S \X T |-> Promote(unmark, files, p[1], p[2])]
           P == [i \in 0..Len(seq) |-> S]
<1>1. seq \in Seq(T) /\ M \in SUBSET Known(files)
  BY ChildrenAre DEF Enumerates
<1>2. \A v \in S, c \in T : Promote(unmark, files, v, c) \in S
  <2> HIDE DEF M
  <2>1. unmark \in Unmarkings(files)
    BY DEF KeepsFree
  <2> QED BY <1>1, <2>1, PromoteType, PromoteFree
<1>3. PromoteRule(F, unmark, files, S, T) /\ \A v \in S, c \in T : F[<<v, c>>] \in S
  BY <1>2 DEF PromoteRule
<1>4. base \in S
  <2>1. x.marked \ {a} \in SUBSET Known(files)
    BY MarksAre
  <2>2. Deletes(files, x, [marked |-> x.marked \ {a}, top |-> deleteExactTopLevel(x.top, {a})],
                x.marked \ {a}, {a})
    BY <2>1, DeletedTops
  <2>3. base \in Marks(files) /\ base.marked = x.marked \ {a} /\ Tops(base) = Tops(x) \ {a}
    BY <2>2 DEF Deletes, WithoutAncestor
  <2> HIDE DEF base
  <2> QED BY <2>3 DEF FreeOf
<1>5. Reaches(P, S, seq, F) /\ P[0] = S /\ P[Len(seq)] = S
  <2> HIDE DEF S, T, seq, F
  <2> QED BY <1>1, <1>3, SameReaches
<1>6. PromoteAll(unmark, files, base, seq) \in S
  <2>1. base \in P[0]
    BY <1>4, <1>5
  <2> HIDE DEF S, T, seq, base, P, F
  <2>2. PromoteAll(unmark, files, base, seq) \in P[Len(seq)]
    BY <1>1, <1>3, <1>5, <2>1, PromoteFold
  <2> QED BY <1>5, <2>2
<1>7. UnmarkAncestor(unmark, files, x, a) = PromoteAll(unmark, files, base, seq)
  BY DEF UnmarkAncestor, PromoteAll, WithoutAncestor
<1> HIDE DEF base, seq, M
<1> QED BY <1>6, <1>7 DEF M

\* The nodes below a node, and its ancestors if it is known.
Line(files, u) == {n \in Known(files) : Under(n, u) \/ (u \in Known(files) /\ Under(u, n))}

\* They all are free after one level of unmarkFolder.
LEMMA StepFree ==
    ASSUME NEW files \in SUBSET Files, NEW unmark, KeepsFree(files, unmark),
           NEW x \in Marks(files), NEW N \in SUBSET Known(files), FreeOf(N, x), NEW u \in Uris
    PROVE  FreeOf(N \cup Line(files, u), UnmarkStep(unmark, files, x, u))
<1> DEFINE below == {n \in Known(files) : Under(n, u)}
           seq == iterateAncestors(files, u)
           M(i) == N \cup below \cup {seq[j] : j \in 1..i}
           S == Marks(files)
           T == Known(files)
           m == Clear(files, x, u)
           F == [p \in S \X T |-> UnmarkAncestor(unmark, files, p[1], p[2])]
           P == [i \in 0..Len(seq) |-> {v \in S : FreeOf(M(i), v)}]
<1>1. seq \in Seq(T) /\ Len(seq) \in Nat /\ \A i \in 1..Len(seq) : seq[i] \in Known(files)
  <2>1. seq \in Seq(T)
    <3>1. CASE u \in Known(files)
      BY <3>1, AncestorsAre, TreeIs
    <3>2. CASE u \notin Known(files)
      BY <3>2 DEF iterateAncestors
    <3> QED BY <3>1, <3>2
  <2> HIDE DEF seq
  <2> QED BY <2>1
<1>2. \A n \in Line(files, u) : n \in below \/ \E j \in 1..Len(seq) : seq[j] = n
  <2> SUFFICES ASSUME NEW n \in Known(files), u \in Known(files), Under(u, n), n # u
               PROVE  \E j \in 1..Len(seq) : seq[j] = n
    <3>1. Under(u, u)
      BY UnderOrder
    <3> QED BY <3>1 DEF Line
  <2>1. /\ Len(seq) = Len(u) - 1
        /\ \A i \in 1..Len(seq) : Len(seq[i]) = Len(u) - i /\ Under(u, seq[i])
    BY AncestorsAre
  <2>2. n \in Uris /\ 0 < Len(n) /\ Len(n) \in Nat /\ Len(u) \in Nat /\ Len(n) <= Len(u) /\ Len(n) # Len(u)
    <3>1. n \in Uris /\ 0 < Len(n) /\ Len(n) <= Len(u) /\ Len(n) # Len(u)
      BY TreeIs, UnderOrder
    <3> QED BY <3>1 DEF Uris
  <2> DEFINE j == Len(u) - Len(n)
  <2>3. j \in 1..Len(seq) /\ Len(u) - j = Len(n)
    BY <2>1, <2>2
  <2> HIDE DEF j, seq
  <2>4. Len(seq[j]) = Len(n) /\ Under(u, seq[j]) /\ seq[j] \in Uris
    BY <1>1, <2>1, <2>3, TreeIs
  <2>5. seq[j] = n
    BY <2>2, <2>4, UnderOrder
  <2> QED BY <2>3, <2>5
<1> HIDE DEF seq
<1>3. \A v \in S, c \in T : UnmarkAncestor(unmark, files, v, c) \in S
  BY UnmarkAncestorType DEF KeepsFree
<1>4. /\ AncestorRule(F, unmark, files, S, T)
      /\ \A v \in S, c \in T : F[<<v, c>>] = UnmarkAncestor(unmark, files, v, c)
  BY <1>3 DEF AncestorRule
<1>5. \A i \in 0..Len(seq) : M(i) \in SUBSET Known(files)
  BY <1>1
<1>6. m \in P[0]
  <2>1. /\ m \in Marks(files) /\ m.marked = {n \in x.marked : ~Under(n, u)}
        /\ Tops(m) = {s \in Tops(x) : ~Under(s, u)}
    BY ClearIs
  <2> HIDE DEF m
  <2>2. M(0) = N \cup below /\ 0 \in 0..Len(seq)
    BY <1>1
  <2>3. FreeOf(N \cup below, m)
    BY <2>1 DEF FreeOf
  <2> HIDE DEF M
  <2> QED BY <2>1, <2>2, <2>3
<1>7. ASSUME NEW i \in 1..Len(seq) PROVE M(i) = M(i - 1) \cup {seq[i]}
  <2>1. \A j : j \in 1..i <=> j \in 1..(i - 1) \/ j = i
    BY <1>1
  <2> QED BY <2>1
<1>8. Reaches(P, S, seq, F)
  <2>1. P \in [0..Len(seq) -> SUBSET S]
    OBVIOUS
  <2>2. \A i \in 0..Len(seq) : P[i] = {v \in S : FreeOf(M(i), v)}
    OBVIOUS
  <2> HIDE DEF P, M, F
  <2>3. ASSUME NEW i \in 1..Len(seq), NEW v \in P[i - 1] PROVE F[<<v, seq[i]>>] \in P[i]
    <3>1. i \in 0..Len(seq) /\ i - 1 \in 0..Len(seq) /\ seq[i] \in T
      BY <1>1
    <3>2. v \in S /\ FreeOf(M(i - 1), v) /\ M(i - 1) \in SUBSET Known(files)
      BY <1>5, <2>2, <3>1
    <3>3. FreeOf(M(i - 1) \cup {seq[i]}, UnmarkAncestor(unmark, files, v, seq[i]))
      BY <3>1, <3>2, AncestorFree
    <3>4. F[<<v, seq[i]>>] = UnmarkAncestor(unmark, files, v, seq[i]) /\ F[<<v, seq[i]>>] \in S
      BY <1>3, <1>4, <3>1, <3>2
    <3>5. M(i) = M(i - 1) \cup {seq[i]}
      BY <1>7
    <3> HIDE DEF S, T
    <3> QED BY <2>2, <3>1, <3>3, <3>4, <3>5
  <2> HIDE DEF S
  <2> QED BY <2>1, <2>3 DEF Reaches
<1> DEFINE z == UnmarkAncestors(unmark, files, m, seq)
<1>9. z \in P[Len(seq)]
  <2> HIDE DEF S, T, P, F, m
  <2> QED BY <1>1, <1>4, <1>6, <1>8, AncestorFold
<1>10. UnmarkStep(unmark, files, x, u) = z
  BY DEF UnmarkStep, UnmarkAncestors, Clear, seq
<1>11. FreeOf(M(Len(seq)), z)
  <2>1. Len(seq) \in 0..Len(seq)
    BY <1>1
  <2> HIDE DEF z, M
  <2> QED BY <1>9, <2>1
<1>12. N \cup Line(files, u) \subseteq M(Len(seq))
  BY <1>2
<1> HIDE DEF z, M
<1> QED BY <1>10, <1>11, <1>12 DEF FreeOf

\* What is free stays free at all depths.
LEMMA FreeAll ==
    ASSUME NEW files \in SUBSET Files, NEW unmark, IsUnmarking(unmark, files)
    PROVE  \A d \in Nat : KeepsFree(files, unmark[d])
<1> DEFINE T == {d \in Nat : KeepsFree(files, unmark[d])}
<1>1. 0 \in T
  <2>1. \A x \in Marks(files), e \in Seq(Segments) : unmark[0][<<x, e>>] = x
    BY DEF IsUnmarking
  <2>2. unmark[0] \in Unmarkings(files)
    BY DEF IsUnmarking
  <2> QED BY <2>1, <2>2 DEF KeepsFree
<1>2. ASSUME NEW d \in Nat, d \in T PROVE d + 1 \in T
  <2>1. unmark[d + 1] \in Unmarkings(files)
    BY DEF IsUnmarking
  <2>2. \A x \in Marks(files), e \in Seq(Segments) : unmark[d + 1][<<x, e>>] = UnmarkStep(unmark[d], files, x, e)
    <3>1. unmark[d + 1] = [p \in Marks(files) \X Seq(Segments) |->
              IF d + 1 = 0 THEN p[1] ELSE UnmarkStep(unmark[d + 1 - 1], files, p[1], p[2])]
      BY DEF IsUnmarking
    <3>2. d + 1 # 0 /\ d + 1 - 1 = d
      OBVIOUS
    <3> QED BY <3>1, <3>2
  <2>3. ASSUME NEW x \in Marks(files), NEW e \in Seq(Segments), NEW N \in SUBSET Known(files), FreeOf(N, x)
        PROVE  FreeOf(N, UnmarkStep(unmark[d], files, x, e))
    <3>1. e \in Uris /\ KeepsFree(files, unmark[d])
      BY <1>2, SegmentUris
    <3>2. FreeOf(N \cup Line(files, e), UnmarkStep(unmark[d], files, x, e))
      BY <2>3, <3>1, StepFree
    <3> QED BY <3>2 DEF FreeOf
  <2> QED BY <2>1, <2>2, <2>3 DEF KeepsFree
<1> HIDE DEF T
<1>3. \A d \in Nat : d \in T
  BY <1>1, <1>2, Induction
<1> QED BY <1>3 DEF T

\* After unmarkFolder neither the folder, nor what is below it, nor its ancestors are marked or
\* top-level, whatever was marked before.
LEMMA UnmarkFrees ==
    ASSUME NEW files \in SUBSET Files, NEW w \in Marks(files), NEW N \in SUBSET Known(files), FreeOf(N, w),
           NEW u \in Seq(Segments)
    PROVE  FreeOf(N \cup Line(files, u), unmarkFolder(files)[<<w, u>>])
<1> DEFINE d == Depth(files)
<1>1. PICK unmark : IsUnmarking(unmark, files) /\ unmarkFolder(files) = unmark[d]
  BY UnmarkFolderIs
<1>2. d \in Nat \ {0}
  BY KnownFinite
<1> HIDE DEF d
<1>3. unmarkFolder(files)[<<w, u>>] = UnmarkStep(unmark[d - 1], files, w, u)
  BY <1>1, <1>2 DEF IsUnmarking
<1>4. KeepsFree(files, unmark[d - 1]) /\ u \in Uris
  BY <1>1, <1>2, FreeAll, SegmentUris
<1> QED BY <1>3, <1>4, StepFree

\* So no file in one of the folders of a list is a source when all are unmarked.
LEMMA UnmarkAllFrees ==
    ASSUME NEW files \in SUBSET Files, NEW w \in Marks(files), NEW uris \in Seq(Seq(Segments)),
           NEW i \in DOMAIN uris, NEW f \in files, Under(f, uris[i])
    PROVE  ~Covered(f, UnmarkAll(files, w, uris))
<1> DEFINE S == Marks(files)
           T == Seq(Segments)
           N(k) == UNION {Line(files, uris[j]) : j \in 1..k}
           F == [p \in S \X T |-> unmarkFolder(files)[<<p[1], p[2]>>]]
           P == [k \in 0..Len(uris) |-> {v \in S : FreeOf(N(k), v)}]
           z == UnmarkAll(files, w, uris)
<1>1. uris \in Seq(T) /\ Len(uris) \in Nat /\ (\A k \in 1..Len(uris) : uris[k] \in T) /\ i \in 1..Len(uris)
  OBVIOUS
<1>2. \A v \in S, c \in T : unmarkFolder(files)[<<v, c>>] \in S
  BY UnmarkFolderType DEF Unmarkings
<1>3. UnmarkRule(F, files, S, T) /\ \A v \in S, c \in T : F[<<v, c>>] = unmarkFolder(files)[<<v, c>>]
  BY <1>2 DEF UnmarkRule
<1>4. \A k \in 0..Len(uris) : N(k) \in SUBSET Known(files)
  BY DEF Line
<1>5. w \in P[0]
  <2>1. N(0) = {} /\ 0 \in 0..Len(uris)
    BY <1>1
  <2>2. FreeOf(N(0), w)
    BY <2>1 DEF FreeOf
  <2> HIDE DEF N
  <2> QED BY <2>1, <2>2
<1>6. ASSUME NEW k \in 1..Len(uris) PROVE N(k) = N(k - 1) \cup Line(files, uris[k])
  <2>1. \A j : j \in 1..k <=> j \in 1..(k - 1) \/ j = k
    BY <1>1
  <2> QED BY <2>1
<1>7. Reaches(P, S, uris, F)
  <2>1. P \in [0..Len(uris) -> SUBSET S]
    OBVIOUS
  <2>2. \A k \in 0..Len(uris) : P[k] = {v \in S : FreeOf(N(k), v)}
    OBVIOUS
  <2> HIDE DEF P, N, F
  <2>3. ASSUME NEW k \in 1..Len(uris), NEW v \in P[k - 1] PROVE F[<<v, uris[k]>>] \in P[k]
    <3>1. k \in 0..Len(uris) /\ k - 1 \in 0..Len(uris) /\ uris[k] \in T
      BY <1>1
    <3>2. v \in S /\ FreeOf(N(k - 1), v) /\ N(k - 1) \in SUBSET Known(files)
      BY <1>4, <2>2, <3>1
    <3>3. FreeOf(N(k - 1) \cup Line(files, uris[k]), unmarkFolder(files)[<<v, uris[k]>>])
      BY <3>1, <3>2, UnmarkFrees
    <3> QED BY <1>2, <1>3, <1>6, <2>2, <3>1, <3>2, <3>3
  <2> HIDE DEF S
  <2> QED BY <2>1, <2>3 DEF Reaches
<1>8. z \in P[Len(uris)]
  <2> HIDE DEF S, T, F, P
  <2> QED BY <1>1, <1>3, <1>5, <1>7, UnmarkFold
<1>9. FreeOf(N(Len(uris)), z) /\ z \in Marks(files)
  <2>1. Len(uris) \in 0..Len(uris)
    BY <1>1
  <2> HIDE DEF z, N
  <2> QED BY <1>8, <2>1
<1>10. \A n \in Line(files, uris[i]) : n \notin Tops(z)
  BY <1>1, <1>9 DEF FreeOf
<1> SUFFICES ASSUME NEW s \in Tops(z), Under(f, s) PROVE FALSE
  BY DEF Covered
<1> HIDE DEF z
<1> DEFINE u == uris[i]
<1>11. /\ s \in Known(files) /\ s \in Uris /\ 0 < Len(s) /\ f \in Known(files) /\ f \in Uris /\ u \in Uris
       /\ s \notin Line(files, u) /\ Under(f, u)
  BY <1>1, <1>9, <1>10, TopsAre, FilesAre, SegmentUris DEF Known
<1> HIDE DEF u
<1>12. Under(u, s) /\ ~Under(s, u)
  BY <1>11, UnderOrder DEF Line
<1>13. 0 < Len(u)
  <2>1. Len(s) <= Len(u)
    BY <1>11, <1>12, UnderOrder
  <2> QED BY <1>11, <2>1 DEF Uris
<1>14. u \in Known(files)
  BY <1>11, <1>13, TreeIs
<1> QED BY <1>11, <1>12, <1>14 DEF Line

-----------------------------------------------------------------------------
(* The commands, and the refresh before them.                              *)

\* What marking a folder comes to.
MarkedAs(files, w, u, z) ==
    /\ OK(files, z) /\ Tops(z) \subseteq Tops(w) \cup {u}
    /\ \A n \in w.marked \ z.marked : w.top[Last(u)] \notin {NoUri, u} /\ Under(n, w.top[Last(u)])
    /\ \A s \in Tops(z) \ {u} : Outermost(w, s) => Outermost(z, s)

\* The folder that has the name is outermost, so that nothing is promoted.
MayMark(w, u) == w.top[Last(u)] \in {NoUri, u} \/ Outermost(w, w.top[Last(u)])

\* Making room for a folder that is marked unmarks the one that has the name, no more.
LEMMA ConflictKeeps ==
    ASSUME NEW files \in SUBSET Files, NEW w, OK(files, w), NEW u \in Seq(Segments), u # Root, MayMark(w, u),
           NEW v, v = unmarkConflictingTopLevelFolder(unmarkFolder(files), w, u)
    PROVE  /\ OK(files, v) /\ Tops(v) \subseteq Tops(w) /\ v.top[Last(u)] \in {NoUri, u}
           /\ \A n \in w.marked \ v.marked : w.top[Last(u)] \notin {NoUri, u} /\ Under(n, w.top[Last(u)])
<1> DEFINE e == w.top[Last(u)]
<1>1. w \in Marks(files) /\ Last(u) \in Segments
  BY DEF OK, Root, Last
<1>2. v = IF e \in {NoUri, u} THEN w ELSE unmarkFolder(files)[<<w, e>>]
  BY DEF unmarkConflictingTopLevelFolder, getTopLevelModuleName
<1> HIDE DEF e
<1>3. CASE e \in {NoUri, u}
  BY <1>2, <1>3 DEF e
<1>4. CASE e \notin {NoUri, u}
  <2>1. e \in Tops(w) /\ Outermost(w, e)
    BY <1>1, <1>4, TopsAre DEF MayMark, e
  <2>2. e \in Known(files) /\ e \in Seq(Segments) /\ e \in Uris
    BY <1>1, <2>1, TopsAre
  <2>3. PICK unmark : IsUnmarking(unmark, files) /\ unmarkFolder(files) = unmark[Depth(files)]
    BY UnmarkFolderIs
  <2>4. QuietClears(files, unmark[Depth(files)])
    BY <2>3, KnownFinite, UnmarkQuiet
  <2>5. v = Clear(files, w, e)
    BY <1>1, <1>2, <1>4, <2>1, <2>2, <2>3, <2>4, OutermostQuiet DEF QuietClears
  <2>6. /\ Tops(v) = {s \in Tops(w) : ~Under(s, e)} /\ v.marked = {n \in w.marked : ~Under(n, e)}
        /\ \A m \in Segments : w.top[m] # NoUri =>
              v.top[m] = IF Under(w.top[m], e) THEN NoUri ELSE w.top[m]
    BY <1>1, <2>5, ClearIs
  <2>7. v.top[Last(u)] = NoUri
    <3>1. Under(e, e)
      BY <2>2, UnderOrder
    <3> QED BY <1>1, <1>4, <2>6, <3>1 DEF e
  <2>8. ASSUME NEW n \in Known(files), NEW s \in Tops(w), Under(n, e), Under(n, s) PROVE Under(s, e)
    <3>1. n \in Uris /\ s \in Uris
      BY <1>1, TreeIs, TopsAre
    <3> QED BY <2>1, <2>2, <2>8, <3>1, UnderOrder DEF Outermost
  <2>9. OK(files, v)
    BY <2>2, <2>5, <2>8, ClearOK
  <2> QED BY <1>4, <2>6, <2>7, <2>9 DEF e
<1> QED BY <1>3, <1>4

\* markFolder gives the folder its name and keeps marks and map in agreement.
LEMMA MarkKeeps ==
    ASSUME NEW files \in SUBSET Files, NEW w, OK(files, w), NEW u \in Seq(Segments), u # Root, MayMark(w, u)
    PROVE  MarkedAs(files, w, u, markFolder(files, w, u))
<1> DEFINE v == unmarkConflictingTopLevelFolder(unmarkFolder(files), w, u)
           below == iterateNodeTree(files, u)
           M == v.marked \cup below
           x == [marked |-> M, top |-> deleteExactTopLevel(v.top, below \ {u})]
           z == markFolder(files, w, u)
<1>1. z = [marked |-> x.marked, top |-> IF u \in below THEN [x.top EXCEPT ![Last(u)] = u] ELSE x.top]
  BY DEF markFolder
<1>2. /\ OK(files, v) /\ Tops(v) \subseteq Tops(w) /\ v.top[Last(u)] \in {NoUri, u}
      /\ \A n \in w.marked \ v.marked : w.top[Last(u)] \notin {NoUri, u} /\ Under(n, w.top[Last(u)])
  BY ConflictKeeps
<1>3. u \in Uris /\ 0 < Len(u) /\ Last(u) \in Segments /\ Under(u, u)
  <2>1. u \in Uris /\ 0 < Len(u) /\ Last(u) \in Segments
    BY SegmentUris DEF Root, Last
  <2> QED BY <2>1, UnderOrder
<1>4. /\ \A n \in Known(files) : n \in below <=> Under(n, u)
      /\ below \subseteq Known(files) /\ (u \in below <=> u \in Known(files))
  BY <1>3 DEF iterateNodeTree
<1>5. x = [marked |-> M, top |-> deleteExactTopLevel(v.top, below \ {u})]
  OBVIOUS
<1> HIDE DEF v, below, z, x
<1>6. v \in Marks(files) /\ \A s \in Tops(v) : s \in Known(files) /\ s \in Uris
  BY <1>2, TopsAre DEF OK
<1>7. M \subseteq Known(files)
  BY <1>4, <1>6, MarksAre
<1>8. Deletes(files, v, x, M, below \ {u})
  <2> HIDE DEF M
  <2> QED BY <1>5, <1>6, <1>7, DeletedTops
<1>9. /\ x \in Marks(files) /\ x.marked = M /\ Tops(x) = Tops(v) \ (below \ {u})
      /\ x.top[Last(u)] \in {NoUri, u}
  BY <1>2, <1>3, <1>8 DEF Deletes
<1>10. u \in Folders(files) <=> u \in Known(files)
  <2>1. u \in Known(files) => u \in Folders(files)
    <3>1. u \in Files => Last(u) \notin Segments
      BY FilesAre
    <3> QED BY <1>3, <3>1, TreeIs
  <2> QED BY <2>1, TreeIs
<1>11. /\ z \in Marks(files) /\ z.marked = M
       /\ Tops(z) = (Tops(v) \ (below \ {u})) \cup {s \in {u} : u \in Known(files)}
       /\ u \in Folders(files) => z.top[Last(u)] = u
  <2>1. CASE u \in Known(files)
    <3> DEFINE y == [x EXCEPT !.top[Last(u)] = u]
    <3>1. z = y
      <4>1. x = [marked |-> x.marked, top |-> x.top]
        BY <1>9, MarksAre
      <4>2. y = [marked |-> x.marked, top |-> [x.top EXCEPT ![Last(u)] = u]]
        BY <4>1
      <4> QED BY <1>1, <1>4, <2>1, <4>2
    <3>2. /\ y \in Marks(files) /\ y.marked = x.marked /\ Tops(y) = Tops(x) \cup {u}
          /\ \A m \in Segments : y.top[m] = IF m = Last(u) THEN u ELSE x.top[m]
      BY <1>9, <1>10, <2>1, AddedTop
    <3> HIDE DEF y
    <3>3. Tops(z) = Tops(x) \cup {u} /\ z.top[Last(u)] = u
      BY <1>3, <3>1, <3>2
    <3> QED BY <1>9, <2>1, <3>1, <3>2, <3>3
  <2>2. CASE u \notin Known(files)
    <3>1. z = x
      BY <1>1, <1>4, <1>9, <2>2, MarksAre
    <3> QED BY <1>9, <1>10, <2>2, <3>1
  <2> QED BY <2>1, <2>2
<1>12. ASSUME NEW n \in Known(files) PROVE n \in M <=> Covered(n, z)
  <2>1. n \in M <=> Covered(n, v) \/ Under(n, u)
    BY <1>2, <1>4 DEF OK
  <2>2. ASSUME NEW s \in Tops(v), Under(n, s), s \in below PROVE Under(n, u)
    <3>1. Under(s, u) /\ n \in Uris
      BY <1>4, <2>2, TreeIs
    <3> QED BY <1>3, <1>6, <2>2, <3>1, UnderOrder
  <2>3. Under(n, u) => u \in Known(files)
    BY <1>3, NothingBelow
  <2> QED BY <1>11, <2>1, <2>2, <2>3 DEF Covered
<1>13. OK(files, z)
  <2> HIDE DEF M
  <2> QED BY <1>7, <1>11, <1>12 DEF OK
<1>14. ASSUME NEW s \in Tops(z) \ {u}, Outermost(w, s) PROVE Outermost(z, s)
  <2>1. s \in Tops(v) /\ s \notin below /\ s \in Known(files) /\ ~Under(s, u)
    BY <1>4, <1>6, <1>11, <1>14
  <2>2. \A r \in Tops(z) : r = u \/ r \in Tops(w)
    BY <1>2, <1>11
  <2> QED BY <1>14, <2>1, <2>2 DEF Outermost
<1>15. \A n \in w.marked \ M : w.top[Last(u)] \notin {NoUri, u} /\ Under(n, w.top[Last(u)])
  BY <1>2
<1>16. MarkedAs(files, w, u, z)
  <2> HIDE DEF M
  <2> QED BY <1>2, <1>11, <1>13, <1>14, <1>15 DEF MarkedAs
<1> QED BY <1>16 DEF z

\* A list of folders to add that is not mistaken, when the top-level folders are among G.
ListOf(G, uris) ==
    /\ uris \in Seq(Seq(Segments))
    /\ \A i \in DOMAIN uris : uris[i] # Root
    /\ \A i, j \in DOMAIN uris, d \in G \cup Range(uris) :
          i < j /\ uris[i] # uris[j] /\ Last(uris[i]) = Last(uris[j]) /\ Under(uris[i], d) => uris[i] = d

\* The marks after the first i folders of a list to add: only folders of the list may be in
\* another top-level folder.
Marking(files, w, uris, v, i) ==
    /\ OK(files, v)
    /\ \A s \in Tops(v) : (s \in Tops(w) /\ Outermost(v, s)) \/ \E j \in 1..i : uris[j] = s
    /\ i = 0 => v = w
    /\ i = 1 => \A n \in w.marked \ v.marked :
                   w.top[Last(uris[1])] \notin {NoUri, uris[1]} /\ Under(n, w.top[Last(uris[1])])

\* The next folder of a list to add.
LEMMA MarkingStep ==
    ASSUME NEW files \in SUBSET Files, NEW w, NEW uris, NEW G, ListOf(G, uris), Tops(w) \subseteq G,
           NEW i \in 1..Len(uris), NEW v, Marking(files, w, uris, v, i - 1)
    PROVE  /\ markFolder(files, v, uris[i]) \in Marks(files)
           /\ Marking(files, w, uris, markFolder(files, v, uris[i]), i)
<1> DEFINE u == uris[i]
           e == v.top[Last(u)]
           z == markFolder(files, v, u)
<1>1. u \in Seq(Segments) /\ u # Root /\ i \in DOMAIN uris /\ Last(u) \in Segments
  <2>1. u \in Seq(Segments) /\ u # Root /\ i \in DOMAIN uris
    BY DEF ListOf
  <2> HIDE DEF u
  <2> QED BY <2>1 DEF Root, Last
<1>2. OK(files, v) /\ v \in Marks(files)
  BY DEF Marking, OK
<1> HIDE DEF u
<1>3. MayMark(v, u)
  <2> SUFFICES ASSUME e \notin {NoUri, u} PROVE Outermost(v, e)
    BY DEF MayMark
  <2>1. e \in Tops(v) /\ Last(e) = Last(u) /\ e # u
    BY <1>1, <1>2, TopsAre
  <2> HIDE DEF e
  <2>2. CASE \E j \in 1..(i - 1) : uris[j] = e
    <3>1. PICK j \in 1..(i - 1) : uris[j] = e
      BY <2>2
    <3>2. j \in DOMAIN uris /\ j < i /\ i \in DOMAIN uris /\ \A k \in 1..(i - 1) : k \in DOMAIN uris
      BY DEF ListOf
    <3>3. ASSUME NEW s \in Tops(v), Under(e, s) PROVE s = e
      <4>1. s \in G \cup Range(uris)
        BY <3>2 DEF Marking, Range
      <4>2. uris[j] # uris[i] /\ Last(uris[j]) = Last(uris[i]) /\ Under(uris[j], s)
        BY <2>1, <2>2, <3>1, <3>3 DEF u
      <4> QED BY <3>1, <3>2, <4>1, <4>2 DEF ListOf
    <3> QED BY <3>3 DEF Outermost
  <2> QED BY <2>1, <2>2 DEF Marking
<1>4. MarkedAs(files, v, u, z)
  BY <1>1, <1>2, <1>3, MarkKeeps
<1> HIDE DEF z
<1>5. z \in Marks(files) /\ OK(files, z)
  BY <1>4 DEF MarkedAs, OK
<1>6. ASSUME NEW s \in Tops(z) PROVE (s \in Tops(w) /\ Outermost(z, s)) \/ \E j \in 1..i : uris[j] = s
  <2>1. CASE s = u
    BY <2>1 DEF u
  <2>2. CASE s # u
    <3>1. s \in Tops(v)
      BY <1>4, <2>2 DEF MarkedAs
    <3>2. CASE s \in Tops(w) /\ Outermost(v, s)
      BY <1>4, <2>2, <3>2 DEF MarkedAs
    <3>3. CASE \E j \in 1..(i - 1) : uris[j] = s
      BY <3>3
    <3> QED BY <3>1, <3>2, <3>3 DEF Marking
  <2> QED BY <2>1, <2>2
<1>7. i = 1 => \A n \in w.marked \ z.marked : w.top[Last(u)] \notin {NoUri, u} /\ Under(n, w.top[Last(u)])
  BY <1>4 DEF MarkedAs, Marking
<1>8. Marking(files, w, uris, z, i)
  BY <1>5, <1>6, <1>7 DEF Marking, u
<1> QED BY <1>5, <1>8 DEF z, u

\* A list of folders to add.
LEMMA MarkAllKeeps ==
    ASSUME NEW files \in SUBSET Files, NEW w, OK(files, w), Apart(w),
           NEW uris, NEW G, ListOf(G, uris), Tops(w) \subseteq G
    PROVE  Marking(files, w, uris, MarkAll(files, w, uris), Len(uris))
<1> DEFINE S == Marks(files)
           T == Seq(Segments)
           F == [p \in S \X T |-> markFolder(files, p[1], p[2])]
           P == [i \in 0..Len(uris) |-> {v \in S : Marking(files, w, uris, v, i)}]
<1>1. uris \in Seq(T) /\ Len(uris) \in Nat /\ \A i \in 1..Len(uris) : uris[i] \in T
  BY DEF ListOf
<1>2. \A v \in S, c \in T : markFolder(files, v, c) \in S
  BY MarkFolderType
<1>3. MarkRule(F, files, S, T)
  BY <1>2 DEF MarkRule
<1>4. w \in P[0]
  <2>1. Marking(files, w, uris, w, 0)
    BY DEF Marking, Apart
  <2>2. w \in S
    BY DEF OK
  <2> QED BY <1>1, <2>1, <2>2
<1>5. Reaches(P, S, uris, F)
  <2>1. P \in [0..Len(uris) -> SUBSET S]
    OBVIOUS
  <2>2. ASSUME NEW i \in 1..Len(uris), NEW v \in P[i - 1] PROVE F[<<v, uris[i]>>] \in P[i]
    <3>1. v \in S /\ Marking(files, w, uris, v, i - 1) /\ i \in 0..Len(uris) /\ uris[i] \in T
      BY <1>1
    <3>2. /\ Marking(files, w, uris, markFolder(files, v, uris[i]), i)
          /\ markFolder(files, v, uris[i]) \in S
      BY <3>1, MarkingStep
    <3> QED BY <3>1, <3>2
  <2> HIDE DEF P, F
  <2> QED BY <2>1, <2>2 DEF Reaches
<1> DEFINE z == MarkAll(files, w, uris)
<1>6. z \in P[Len(uris)]
  <2> HIDE DEF S, T, F, P
  <2> QED BY <1>1, <1>3, <1>4, <1>5, MarkFold
<1> HIDE DEF z
<1>7. Marking(files, w, uris, z, Len(uris))
  <2>1. Len(uris) \in 0..Len(uris)
    BY <1>1
  <2> QED BY <1>6, <2>1
<1> QED BY <1>7 DEF z

\* The marks after the first i folders of a list to remove.
Unmarking(files, w, uris, v, i) ==
    /\ OK(files, v) /\ Apart(v) /\ v.marked \subseteq w.marked
    /\ \A s \in Tops(v) : s \in Tops(w) \/ \E j \in 1..i : s \in Folders(files) /\ Under(uris[j], Front(s))
    /\ i = 0 => v = w
    /\ i = 1 => \A f \in (files \cap w.marked) \ v.marked : Excused(files, w, uris[1], v, f)

\* A list of folders to remove that is not mistaken, when the top-level folders are among G.
RemovalOf(files, G, uris) ==
    /\ uris \in Seq(Seq(Segments))
    /\ \A i \in DOMAIN uris :
          \A d \in G \cup {c \in Folders(files) : \E j \in 1..(i - 1) : Under(uris[j], Front(c))} :
             ~Namesake(files, uris[i], d)

\* A list of folders to remove.
LEMMA UnmarkAllKeeps ==
    ASSUME NEW files \in SUBSET Files, NEW w, OK(files, w), Apart(w),
           NEW uris, NEW G, RemovalOf(files, G, uris), Tops(w) \subseteq G
    PROVE  Unmarking(files, w, uris, UnmarkAll(files, w, uris), Len(uris))
<1> DEFINE S == Marks(files)
           T == Seq(Segments)
           step(v, c) == unmarkFolder(files)[<<v, c>>]
           F == [p \in S \X T |-> unmarkFolder(files)[<<p[1], p[2]>>]]
           P == [i \in 0..Len(uris) |-> {v \in S : Unmarking(files, w, uris, v, i)}]
<1>1. uris \in Seq(T) /\ Len(uris) \in Nat /\ \A i \in 1..Len(uris) : uris[i] \in T
  BY DEF RemovalOf
<1>2. \A v \in S, c \in T : step(v, c) \in S
  BY UnmarkFolderType DEF Unmarkings
<1>3. UnmarkRule(F, files, S, T)
  BY <1>2 DEF UnmarkRule
<1>4. w \in P[0]
  <2>1. Unmarking(files, w, uris, w, 0)
    BY DEF Unmarking
  <2>2. w \in S
    BY DEF OK
  <2> QED BY <1>1, <2>1, <2>2
<1>5. ASSUME NEW i \in 1..Len(uris), NEW v \in S, Unmarking(files, w, uris, v, i - 1)
      PROVE  Unmarking(files, w, uris, step(v, uris[i]), i)
  <2> DEFINE u == uris[i]
             z == step(v, u)
  <2>1. OK(files, v) /\ Apart(v) /\ v.marked \subseteq w.marked /\ u \in T /\ i \in DOMAIN uris
    BY <1>1, <1>5 DEF Unmarking
  <2>2. \A t \in Tops(v) : ~Namesake(files, u, t)
    BY <1>5, <2>1 DEF Unmarking, RemovalOf
  <2>3. Unmarked(files, v, u, z)
    <3> HIDE DEF u
    <3> QED BY <2>1, <2>2, UnmarkKeeps
  <2> HIDE DEF z, u, step
  <2>4. OK(files, z) /\ Apart(z) /\ z.marked \subseteq w.marked
    BY <2>1, <2>3 DEF Unmarked
  <2>5. ASSUME NEW s \in Tops(z)
        PROVE  s \in Tops(w) \/ \E j \in 1..i : s \in Folders(files) /\ Under(uris[j], Front(s))
    <3>1. CASE s \in Tops(v)
      <4>1. \A j \in 1..(i - 1) : j \in 1..i
        OBVIOUS
      <4> QED BY <1>5, <3>1, <4>1 DEF Unmarking
    <3>2. CASE s \notin Tops(v)
      <4>1. s \in Folders(files) /\ Under(u, Front(s))
        BY <2>3, <3>2 DEF Unmarked
      <4> QED BY <4>1 DEF u
    <3> QED BY <3>1, <3>2
  <2>6. i = 1 => \A f \in (files \cap w.marked) \ z.marked : Excused(files, w, uris[1], z, f)
    BY <1>5, <2>3 DEF Unmarking, Unmarked, u
  <2>7. Unmarking(files, w, uris, z, i)
    BY <2>4, <2>5, <2>6 DEF Unmarking
  <2> QED BY <2>7 DEF z, u
<1>6. Reaches(P, S, uris, F)
  <2>1. P \in [0..Len(uris) -> SUBSET S]
    OBVIOUS
  <2>2. ASSUME NEW i \in 1..Len(uris), NEW v \in P[i - 1] PROVE F[<<v, uris[i]>>] \in P[i]
    <3>1. v \in S /\ Unmarking(files, w, uris, v, i - 1) /\ i \in 0..Len(uris) /\ uris[i] \in T
      BY <1>1
    <3>2. Unmarking(files, w, uris, step(v, uris[i]), i) /\ step(v, uris[i]) \in S
      BY <1>2, <1>5, <3>1
    <3> QED BY <3>1, <3>2
  <2> HIDE DEF P, F
  <2> QED BY <2>1, <2>2 DEF Reaches
<1> DEFINE z == UnmarkAll(files, w, uris)
<1>7. z \in P[Len(uris)]
  <2> HIDE DEF S, T, F, P
  <2> QED BY <1>1, <1>3, <1>4, <1>6, UnmarkFold
<1> HIDE DEF z
<1>8. Unmarking(files, w, uris, z, Len(uris))
  <2>1. Len(uris) \in 0..Len(uris)
    BY <1>1
  <2> QED BY <1>7, <2>1
<1> QED BY <1>8 DEF z

\* A refresh marks what is left of the top-level folders, and nothing in them twice.
Reapplied(old, files, w, r) ==
    /\ OK(files, r) /\ Apart(r)
    /\ \A f \in files : f \in r.marked <=> IsSource(f, w.top)
    /\ \A m \in Segments : r.top[m] \in {NoUri, w.top[m]}

\* After a refresh marks and map agree on the new tree.
LEMMA ReapplyKeeps ==
    ASSUME NEW old \in SUBSET Files, NEW files \in SUBSET Files, NEW w \in Marks(old)
    PROVE  Reapplied(old, files, w, ReapplyMarks(files, w.top))
<1> DEFINE r == ReapplyMarks(files, w.top)
           kept == {w.top[m] : m \in Segments} \cap Known(files)
           outer == {u \in kept : Above(u) \cap kept = {}}
<1>1. r \in Marks(files)
  BY ReapplyType
<1>2. /\ r.marked = UNION {iterateNodeTree(files, u) : u \in outer}
      /\ \A m \in Segments : r.top[m] = IF w.top[m] \in outer THEN w.top[m] ELSE NoUri
  BY DEF ReapplyMarks
<1>3. kept \subseteq Known(files) /\ NoUri \notin kept /\ Known(files) \subseteq Uris
  BY NoUriIsNone, TreeIs
<1>4. outer \subseteq kept /\ \A u \in outer : Above(u) \cap kept = {} /\ \E m \in Segments : u = w.top[m]
  OBVIOUS
<1>5. \A u \in kept : Above(u) \cap kept = {} => u \in outer
  OBVIOUS
<1>6. \A m \in Segments : w.top[m] \in Known(files) => w.top[m] \in kept
  OBVIOUS
<1> HIDE DEF r, outer, kept
<1>7. Tops(r) = outer
  BY <1>2, <1>3, <1>4 DEF Tops
<1>8. r.marked = {n \in Known(files) : Covered(n, r)}
  BY <1>2, <1>7 DEF Covered, iterateNodeTree
<1>9. ASSUME NEW s \in outer, NEW t \in outer, Under(s, t) PROVE s = t
  <2>1. s \in Uris /\ t \in Uris /\ t \in Known(files) /\ t \in kept
    BY <1>3, <1>4
  <2>2. 0 < Len(t) /\ Len(s) \in Nat /\ Len(t) \in Nat /\ Len(t) <= Len(s)
    BY <1>9, <2>1, TreeIs, UnderOrder DEF Uris
  <2>3. ASSUME s # t PROVE t \in Above(s)
    <3>1. Len(t) # Len(s)
      BY <1>9, <2>1, <2>3, UnderOrder
    <3> QED BY <1>9, <2>1, <2>2, <3>1, AboveIs
  <2> QED BY <1>4, <2>1, <2>3
<1>10. Apart(r)
  BY <1>7, <1>9 DEF Apart, Outermost
\* The shortest of the folders that are kept and above a folder is outermost.
<1>11. ASSUME NEW a \in kept PROVE \E u \in outer : Under(a, u)
  <2> DEFINE K == {u \in kept : Under(a, u)}
             N == {Len(u) : u \in K}
  <2>1. a \in K /\ K \subseteq Uris
    BY <1>3, UnderOrder
  <2> HIDE DEF K
  <2>2. N \in SUBSET Nat /\ N # {}
    <3>1. \A u \in K : Len(u) \in Nat
      BY <2>1 DEF Uris
    <3>2. Len(a) \in N
      BY <2>1
    <3> QED BY <3>1, <3>2
  <2>3. \E p \in N : \A q \in N : p <= q
    <3> HIDE DEF N
    <3> QED BY <2>2, LeastNumber
  <2>4. PICK u \in K : \A x \in K : Len(u) <= Len(x)
    BY <2>3
  <2>5. u \in kept /\ Under(a, u) /\ u \in Uris
    BY <2>1 DEF K
  <2>6. ASSUME NEW x \in kept, x \in Above(u) PROVE FALSE
    <3>1. x \in Uris /\ Len(x) < Len(u) /\ Under(u, x)
      BY <2>5, <2>6, AboveIs
    <3>2. x \in K
      BY <1>3, <2>5, <3>1, UnderOrder DEF K
    <3>3. Len(u) <= Len(x)
      BY <2>4, <3>2
    <3> QED BY <2>5, <3>1, <3>3 DEF Uris
  <2> QED BY <1>5, <2>5, <2>6
<1>12. ASSUME NEW f \in files PROVE f \in r.marked <=> IsSource(f, w.top)
  <2>1. f \in Files /\ f \in Known(files) /\ f \in Uris
    BY FilesAre DEF Known
  <2>2. f \in r.marked => IsSource(f, w.top)
    BY <1>3, <1>4, <1>7, <1>8 DEF Covered, IsSource
  <2>3. ASSUME NEW m \in Segments, w.top[m] # NoUri, Under(f, w.top[m]) PROVE f \in r.marked
    <3> DEFINE a == w.top[m]
    <3>1. a \in Folders(old) /\ a \in Uris /\ 0 < Len(a) /\ a # f
      <4>1. a \in Folders(old)
        BY <2>3, MarksAre
      <4> QED BY <2>1, <4>1, TreeIs
    <3>2. a \in Known(files)
      BY <2>1, <2>3, <3>1, TreeIs
    <3>3. PICK u \in outer : Under(a, u)
      BY <1>6, <1>11, <3>2
    <3>4. Under(f, u)
      <4>1. u \in Uris
        BY <1>3, <1>4
      <4> QED BY <2>1, <2>3, <3>1, <3>3, <4>1, UnderOrder
    <3> QED BY <1>7, <1>8, <2>1, <3>4 DEF Covered
  <2> QED BY <2>2, <2>3 DEF IsSource
<1>13. \A m \in Segments : r.top[m] \in {NoUri, w.top[m]}
  BY <1>2
<1>14. Reapplied(old, files, w, r)
  BY <1>1, <1>8, <1>10, <1>12, <1>13 DEF Reapplied, OK
<1> QED BY <1>14 DEF r

-----------------------------------------------------------------------------
(* What a refresh leaves, with the marks of the command that called it.    *)

\* The folder that is added last has its name, whatever was marked before.
LEMMA MarkAllNames ==
    ASSUME NEW files \in SUBSET Files, NEW w \in Marks(files), NEW uris \in Seq(Seq(Segments)),
           uris # <<>>, Last(uris) \in Folders(files)
    PROVE  MarkAll(files, w, uris).top[Last(Last(uris))] = Last(uris)
<1> DEFINE S == Marks(files)
           T == Seq(Segments)
           Named(v, c) == c \in Folders(files) => v.top[Last(c)] = c
           F == [p \in S \X T |-> markFolder(files, p[1], p[2])]
           P == [i \in 0..Len(uris) |-> {v \in S : i > 0 => Named(v, uris[i])}]
<1>1. /\ uris \in Seq(T) /\ Len(uris) \in Nat /\ 0 < Len(uris) /\ Last(uris) = uris[Len(uris)]
      /\ \A k \in 1..Len(uris) : uris[k] \in T
  BY DEF Last
<1>2. \A v \in S, c \in T : markFolder(files, v, c) \in S
  BY MarkFolderType
<1>3. MarkRule(F, files, S, T) /\ \A v \in S, c \in T : F[<<v, c>>] = markFolder(files, v, c)
  BY <1>2 DEF MarkRule
<1>4. ASSUME NEW v \in S, NEW c \in T, c \in Folders(files) PROVE markFolder(files, v, c).top[Last(c)] = c
  <2> DEFINE x == unmarkConflictingTopLevelFolder(unmarkFolder(files), v, c)
             below == iterateNodeTree(files, c)
             top == deleteExactTopLevel(x.top, below \ {c})
  <2>1. c \in below /\ Last(c) \in Segments
    <3>1. c \in Known(files) /\ c \in Uris /\ Last(c) \in Segments
      BY <1>4, TreeIs
    <3> QED BY <3>1, UnderOrder DEF iterateNodeTree
  <2>2. markFolder(files, v, c).top = IF c \in below THEN [top EXCEPT ![Last(c)] = c] ELSE top
    BY DEF markFolder
  <2>3. Last(c) \in DOMAIN top
    BY <2>1 DEF deleteExactTopLevel
  <2> HIDE DEF top, below
  <2> QED BY <2>1, <2>2, <2>3
<1>5. w \in P[0]
  BY <1>1
<1>6. Reaches(P, S, uris, F)
  <2>1. P \in [0..Len(uris) -> SUBSET S]
    OBVIOUS
  <2>2. ASSUME NEW i \in 1..Len(uris), NEW v \in P[i - 1] PROVE F[<<v, uris[i]>>] \in P[i]
    <3>1. v \in S /\ i \in 0..Len(uris) /\ uris[i] \in T
      BY <1>1
    <3>2. /\ F[<<v, uris[i]>>] = markFolder(files, v, uris[i]) /\ F[<<v, uris[i]>>] \in S
          /\ Named(markFolder(files, v, uris[i]), uris[i])
      BY <1>2, <1>3, <1>4, <3>1
    <3> HIDE DEF Named, F, S, T
    <3> QED BY <3>1, <3>2
  <2> HIDE DEF P, F
  <2> QED BY <2>1, <2>2 DEF Reaches
<1> DEFINE z == MarkAll(files, w, uris)
<1>7. z \in P[Len(uris)]
  <2> HIDE DEF S, T, F, P
  <2> QED BY <1>1, <1>3, <1>5, <1>6, MarkFold
<1> HIDE DEF z
<1>8. Named(z, uris[Len(uris)])
  <2>1. Len(uris) \in 0..Len(uris) /\ Len(uris) > 0
    BY <1>1
  <2> HIDE DEF Named
  <2> QED BY <1>7, <2>1
<1> QED BY <1>1, <1>8 DEF z

\* What a command is given, when it is not mistaken.
LEMMA NotMistaken ==
    ASSUME NEW r \in Requests, request[r] \in RequestType, ~Mistaken(r)
    PROVE  LET q == request[r]
               G == Range(topLevel) \ {NoUri}
           IN /\ q.for = "add" => ListOf(G, q.uris)
              /\ q.for = "remove" => RemovalOf(q.scan, G, q.uris)
<1> DEFINE q == request[r]
           G == Range(topLevel) \ {NoUri}
<1>1. q.uris \in Seq(Seq(Segments))
  BY DEF RequestType
<1>2. ASSUME q.for = "add"
      PROVE  /\ \A i \in DOMAIN q.uris : q.uris[i] # Root
             /\ \A i, j \in DOMAIN q.uris, d \in G \cup Range(q.uris) :
                   i < j /\ q.uris[i] # q.uris[j] /\ Last(q.uris[i]) = Last(q.uris[j]) /\ Under(q.uris[i], d)
                      => q.uris[i] = d
  BY <1>2 DEF Mistaken
<1>3. ASSUME q.for = "remove", NEW i \in DOMAIN q.uris,
             NEW d \in G \cup {c \in Folders(q.scan) : \E j \in 1..(i - 1) : Under(q.uris[j], Front(c))}
      PROVE  ~Namesake(q.scan, q.uris[i], d)
  BY <1>3 DEF Mistaken
<1> HIDE DEF q, G
<1>4. q.for = "add" => ListOf(G, q.uris)
  BY <1>1, <1>2 DEF ListOf
<1>5. q.for = "remove" => RemovalOf(q.scan, G, q.uris)
  BY <1>1, <1>3 DEF RemovalOf
<1> QED BY <1>4, <1>5 DEF q, G

\* What a command has made of marks and map that agreed after the refresh.
LEMMA DoneKeeps ==
    ASSUME NEW q \in RequestType, NEW w, OK(q.scan, w), Apart(w), NEW G, Tops(w) \subseteq G,
           q.for = "add" => ListOf(G, q.uris),
           q.for = "remove" => RemovalOf(q.scan, G, q.uris)
    PROVE  /\ OK(q.scan, Done(q, w))
           /\ q.for = "add" => Marking(q.scan, w, q.uris, Done(q, w), Len(q.uris))
           /\ q.for = "remove" => Unmarking(q.scan, w, q.uris, Done(q, w), Len(q.uris))
<1>1. q.scan \in SUBSET Files
  BY DEF RequestType
<1>2. CASE q.for = "add"
  <2>1. Marking(q.scan, w, q.uris, MarkAll(q.scan, w, q.uris), Len(q.uris))
    BY <1>1, <1>2, MarkAllKeeps
  <2>2. Done(q, w) = MarkAll(q.scan, w, q.uris)
    BY <1>2 DEF Done
  <2> QED BY <1>2, <2>1, <2>2 DEF Marking
<1>3. CASE q.for = "remove"
  <2>1. Unmarking(q.scan, w, q.uris, UnmarkAll(q.scan, w, q.uris), Len(q.uris))
    BY <1>1, <1>3, UnmarkAllKeeps
  <2>2. Done(q, w) = UnmarkAll(q.scan, w, q.uris)
    BY <1>3 DEF Done
  <2> QED BY <1>3, <2>1, <2>2 DEF Unmarking
<1>4. CASE q.for \notin {"add", "remove"}
  <2>1. Done(q, w) = w
    BY <1>4 DEF Done
  <2> QED BY <1>4, <2>1
<1> QED BY <1>2, <1>3, <1>4

\* Being in a top-level folder is being covered by one.
LEMMA SourceIs == \A w, n : Covered(n, w) <=> IsSource(n, w.top)
BY DEF Covered, IsSource, Tops

\* The marks before the request is carried out, and after.
LEMMA RefreshKeeps ==
    ASSUME WorkspaceType, NEW r \in Requests, Refresh(r)
    PROVE  LET q == request[r]
               w == ReapplyMarks(q.scan, topLevel)
           IN /\ q \in RequestType /\ tree' = q.scan
              /\ Reapplied(tree, q.scan, Current, w) /\ Tops(w) \subseteq Range(topLevel) \ {NoUri}
              /\ marked' = Done(q, w).marked /\ topLevel' = Done(q, w).top
<1> DEFINE q == request[r]
           w == ReapplyMarks(q.scan, topLevel)
<1>1. q \in RequestType /\ q.scan \in SUBSET Files
  BY ReapplyRequestType
<1>2. Current \in Marks(tree) /\ tree \in SUBSET Files /\ Current.top = topLevel
  BY DEF WorkspaceType, Current
<1>3. Reapplied(tree, q.scan, Current, w)
  <2> HIDE DEF q
  <2>1. Reapplied(tree, q.scan, Current, ReapplyMarks(q.scan, Current.top))
    BY <1>1, <1>2, ReapplyKeeps
  <2> QED BY <1>2, <2>1
<1>4. Tops(w) \subseteq Range(topLevel) \ {NoUri}
  <2>1. DOMAIN topLevel = Segments
    BY <1>2, MarksAre
  <2> HIDE DEF w
  <2>2. \A m \in Segments : w.top[m] \in {NoUri, topLevel[m]}
    BY <1>2, <1>3 DEF Reapplied
  <2> QED BY <2>1, <2>2 DEF Tops, Range
<1> QED BY <1>1, <1>3, <1>4, RefreshIs

\* Every refresh brings marks and map into agreement, if its command is not mistaken.
LEMMA SourcesStep ==
    ASSUME WorkspaceType, NEW r \in Requests, Refresh(r), ~Mistaken(r)
    PROVE  MarksAgree'
<1> DEFINE q == request[r]
           w == ReapplyMarks(q.scan, topLevel)
           z == Done(q, w)
           G == Range(topLevel) \ {NoUri}
<1>1. /\ q \in RequestType /\ tree' = q.scan /\ Reapplied(tree, q.scan, Current, w)
      /\ marked' = z.marked /\ topLevel' = z.top /\ Tops(w) \subseteq G
  BY RefreshKeeps
<1>2. (q.for = "add" => ListOf(G, q.uris)) /\ (q.for = "remove" => RemovalOf(q.scan, G, q.uris))
  BY <1>1, NotMistaken
<1> HIDE DEF q, w, G
<1>3. OK(q.scan, z)
  <2>1. OK(q.scan, w) /\ Apart(w)
    BY <1>1 DEF Reapplied
  <2> QED BY <1>1, <1>2, <2>1, DoneKeeps
<1> HIDE DEF z
<1>4. z.marked = {n \in Known(q.scan) : IsSource(n, z.top)}
  BY <1>3, SourceIs DEF OK
<1>5. \A m \in Segments : z.top[m] # NoUri => z.top[m] \in Folders(q.scan) /\ Last(z.top[m]) = m
  BY <1>3, MarksAre DEF OK
<1> QED BY <1>1, <1>4, <1>5 DEF MarksAgree, hasFolder

\* What is shown as marked after a refresh is what servers are given, but after a command that
\* is mistaken.
THEOREM SourcesMarked == WorkspaceSpec => SourcesAreMarked
<1>1. WorkspaceType /\ [WorkspaceNext]_workspaceVars
        => [\A r \in Requests : Refresh(r) => MarksAgree' \/ Mistaken(r)]_workspaceVars
  BY SourcesStep
<1>2. WorkspaceSpec => [][\A r \in Requests : Refresh(r) => MarksAgree' \/ Mistaken(r)]_workspaceVars
  BY <1>1, WorkspaceTypes, PTL DEF WorkspaceSpec
<1> QED BY <1>2 DEF SourcesAreMarked

\* The sources after a refresh, and the ones before.
LEMMA RefreshedSources ==
    ASSUME WorkspaceType, NEW r \in Requests, Refresh(r)
    PROVE  LET q == request[r]
               w == ReapplyMarks(q.scan, topLevel)
               z == Done(q, w)
           IN /\ z \in Marks(q.scan)
              /\ sources' = {f \in q.scan : Covered(f, z)}
              /\ sources \cap tree' = {f \in tree \cap q.scan : f \in w.marked}
<1> DEFINE q == request[r]
           w == ReapplyMarks(q.scan, topLevel)
           z == Done(q, w)
<1>1. /\ q \in RequestType /\ tree' = q.scan /\ Reapplied(tree, q.scan, Current, w)
      /\ topLevel' = z.top
  BY RefreshKeeps
<1>2. Current.top = topLevel
  BY DEF Current
<1> HIDE DEF q, w
<1>3. w \in Marks(q.scan) /\ \A f \in q.scan : f \in w.marked <=> IsSource(f, topLevel)
  BY <1>1, <1>2 DEF Reapplied, OK
<1>4. z \in Marks(q.scan)
  BY <1>1, <1>3, DoneType
<1> HIDE DEF z
<1>5. sources' = {f \in q.scan : Covered(f, z)}
  BY <1>1, SourceIs DEF sources
<1>6. sources \cap tree' = {f \in tree \cap q.scan : f \in w.marked}
  BY <1>1, <1>3 DEF sources
<1> QED BY <1>4, <1>5, <1>6 DEF q, w, z

\* Adding folders gives the last one its name and files; adding one takes only from the folder
\* that had the name.
LEMMA AddTakes ==
    ASSUME NEW q \in RequestType, q.for = "add", q.uris # <<>>, NEW w, OK(q.scan, w), Apart(w),
           NEW z, z = Done(q, w), z \in Marks(q.scan), NEW top, \A m \in Segments : w.top[m] \in {NoUri, top[m]}
    PROVE  LET u == Last(q.uris) IN
           /\ u \in Folders(q.scan) => z.top[Last(u)] = u /\ \A f \in q.scan : Under(f, u) => Covered(f, z)
           /\ Len(q.uris) = 1 /\ Marking(q.scan, w, q.uris, z, 1) /\ u # Root
                => \A f \in (q.scan \cap w.marked) :
                      Covered(f, z) \/ (top[getTopLevelModuleName(u)] \notin {NoUri, u}
                                        /\ Under(f, top[getTopLevelModuleName(u)]))
<1> DEFINE u == Last(q.uris)
<1>1. /\ q.scan \in SUBSET Files /\ q.uris \in Seq(Seq(Segments)) /\ u = q.uris[Len(q.uris)]
      /\ u \in Seq(Segments)
  BY DEF RequestType, Last
<1>2. z = MarkAll(q.scan, w, q.uris) /\ w \in Marks(q.scan)
  BY DEF Done, OK
<1>3. ASSUME u \in Folders(q.scan)
      PROVE  z.top[Last(u)] = u /\ \A f \in q.scan : Under(f, u) => Covered(f, z)
  <2>1. z.top[Last(u)] = u
    BY <1>1, <1>2, <1>3, MarkAllNames
  <2>2. u # NoUri /\ Last(u) \in Segments
    BY <1>1, <1>3, NoUriIsNone, TreeIs
  <2> HIDE DEF u
  <2> QED BY <2>1, <2>2 DEF Tops, Covered
<1>4. ASSUME Len(q.uris) = 1, Marking(q.scan, w, q.uris, z, 1), u # Root, NEW f \in q.scan \cap w.marked,
             ~Covered(f, z)
      PROVE  top[getTopLevelModuleName(u)] \notin {NoUri, u} /\ Under(f, top[getTopLevelModuleName(u)])
  <2>1. f \in w.marked \ z.marked /\ u = q.uris[1]
    BY <1>1, <1>4 DEF Marking, OK
  <2> HIDE DEF u
  <2>2. w.top[Last(u)] \notin {NoUri, u} /\ Under(f, w.top[Last(u)])
    BY <1>4, <2>1 DEF Marking
  <2>3. Last(u) \in Segments /\ getTopLevelModuleName(u) = Last(u)
    BY <1>1, <1>4 DEF Last, Root, getTopLevelModuleName
  <2> QED BY <2>2, <2>3
<1> QED BY <1>3, <1>4

\* Removing folders leaves none of their files a source; removing one takes only what is excused.
LEMMA RemoveTakes ==
    ASSUME NEW q \in RequestType, q.for = "remove", q.uris # <<>>, NEW w, OK(q.scan, w), Apart(w),
           NEW z, z = Done(q, w), z \in Marks(q.scan), NEW top, \A m \in Segments : w.top[m] \in {NoUri, top[m]}
    PROVE  LET u == Last(q.uris) IN
           /\ \A i \in DOMAIN q.uris, f \in q.scan : Under(f, q.uris[i]) => ~Covered(f, z)
           /\ Len(q.uris) = 1 /\ Unmarking(q.scan, w, q.uris, z, 1)
                => \A f \in (q.scan \cap w.marked) :
                      \/ Covered(f, z) \/ Under(f, u) \/ Under(u, Front(f))
                      \/ \E d \in Folders(q.scan) :
                            /\ Under(f, d) /\ (d = top[Last(d)] \/ Under(u, Front(d)))
                            /\ z.top[Last(d)] \notin {NoUri, d}
<1> DEFINE u == Last(q.uris)
<1>1. q.scan \in SUBSET Files /\ q.uris \in Seq(Seq(Segments)) /\ u = q.uris[Len(q.uris)]
  BY DEF RequestType, Last
<1>2. z = UnmarkAll(q.scan, w, q.uris) /\ w \in Marks(q.scan)
  BY DEF Done, OK
<1>3. \A i \in DOMAIN q.uris, f \in q.scan : Under(f, q.uris[i]) => ~Covered(f, z)
  BY <1>1, <1>2, UnmarkAllFrees
<1>4. ASSUME Len(q.uris) = 1, Unmarking(q.scan, w, q.uris, z, 1), NEW f \in q.scan \cap w.marked,
             ~Covered(f, z)
      PROVE  \/ Under(f, u) \/ Under(u, Front(f))
             \/ \E d \in Folders(q.scan) :
                   /\ Under(f, d) /\ (d = top[Last(d)] \/ Under(u, Front(d)))
                   /\ z.top[Last(d)] \notin {NoUri, d}
  <2>1. f \in (q.scan \cap w.marked) \ z.marked /\ u = q.uris[1]
    BY <1>1, <1>4 DEF Unmarking, OK
  <2> HIDE DEF u
  <2>2. Excused(q.scan, w, u, z, f)
    BY <1>4, <2>1 DEF Unmarking
  <2>3. ASSUME NEW d \in Tops(w) PROVE d = top[Last(d)]
    <3>1. Last(d) \in Segments /\ w.top[Last(d)] = d /\ d # NoUri
      BY <1>1, <1>2, TopsAre
    <3> QED BY <3>1
  <2> QED BY <2>2, <2>3 DEF Excused
<1> QED BY <1>3, <1>4

\* A refresh, with the marks of a command, takes away only what it means to.
LEMMA CommandStep ==
    ASSUME WorkspaceType, NEW r \in Requests, Refresh(r)
    PROVE  TakesOnly(r)
<1> DEFINE q == request[r]
           w == ReapplyMarks(q.scan, topLevel)
           z == Done(q, w)
           G == Range(topLevel) \ {NoUri}
           lost == (sources \cap tree') \ sources'
           u == Last(q.uris)
           holder == topLevel[getTopLevelModuleName(u)]
           single == Len(q.uris) = 1 /\ ~Mistaken(r)
           Added == /\ u \in Folders(tree') =>
                          topLevel'[Last(u)] = u /\ \A f \in tree' : Under(f, u) => f \in sources'
                    /\ single => \A f \in lost : holder \notin {NoUri, u} /\ Under(f, holder)
           Removed == /\ \A i \in DOMAIN q.uris, f \in sources' : ~Under(f, q.uris[i])
                      /\ single => \A f \in lost :
                            \/ Under(f, u) \/ Under(u, Front(f))
                            \/ \E d \in Folders(tree') :
                                  /\ Under(f, d) /\ (d = topLevel[Last(d)] \/ Under(u, Front(d)))
                                  /\ topLevel'[Last(d)] \notin {NoUri, d}
<1> SUFFICES CASE q.for = "add" /\ q.uris # <<>> -> Added
               [] q.for = "remove" /\ q.uris # <<>> -> Removed
               [] OTHER -> lost = {}
  BY DEF TakesOnly
<1> HIDE DEF Added, Removed
<1>1. /\ q \in RequestType /\ tree' = q.scan /\ Reapplied(tree, q.scan, Current, w)
      /\ topLevel' = z.top /\ Tops(w) \subseteq G /\ Current.top = topLevel
  BY RefreshKeeps DEF Current
<1>2. /\ z \in Marks(q.scan) /\ sources' = {f \in q.scan : Covered(f, z)}
      /\ sources \cap tree' = {f \in tree \cap q.scan : f \in w.marked}
  BY RefreshedSources
<1>3. ~Mistaken(r) => /\ q.for = "add" => ListOf(G, q.uris)
                      /\ q.for = "remove" => RemovalOf(q.scan, G, q.uris)
  BY <1>1, NotMistaken
<1> HIDE DEF q, w, G
<1>4. OK(q.scan, w) /\ Apart(w) /\ \A m \in Segments : w.top[m] \in {NoUri, topLevel[m]}
  BY <1>1 DEF Reapplied
<1>5. ~Mistaken(r) => /\ q.for = "add" => Marking(q.scan, w, q.uris, z, Len(q.uris))
                      /\ q.for = "remove" => Unmarking(q.scan, w, q.uris, z, Len(q.uris))
  BY <1>1, <1>3, <1>4, DoneKeeps
<1> DEFINE y == Done(q, w)
<1>6. z = y
  OBVIOUS
<1> HIDE DEF z, y
<1>7. \A f \in lost : f \in q.scan \cap w.marked /\ ~Covered(f, z)
  BY <1>1, <1>2
<1> HIDE DEF lost
<1>8. ASSUME q.for = "add", q.uris # <<>> PROVE Added
  <2>1. /\ u \in Folders(q.scan) => z.top[Last(u)] = u /\ \A f \in q.scan : Under(f, u) => Covered(f, z)
        /\ Len(q.uris) = 1 /\ Marking(q.scan, w, q.uris, z, 1) /\ u # Root
             => \A f \in (q.scan \cap w.marked) :
                   Covered(f, z) \/ (holder \notin {NoUri, u} /\ Under(f, holder))
    BY <1>1, <1>2, <1>4, <1>6, <1>8, AddTakes DEF y
  <2>2. u \in Folders(tree') => topLevel'[Last(u)] = u /\ \A f \in tree' : Under(f, u) => f \in sources'
    <3> HIDE DEF u
    <3> QED BY <1>1, <1>2, <2>1
  <2>3. single => Marking(q.scan, w, q.uris, z, 1) /\ u # Root
    <3>1. ASSUME single PROVE u # Root
      <4>1. ListOf(G, q.uris)
        BY <1>3, <1>8, <3>1
      <4>2. q.uris \in Seq(Seq(Segments)) /\ Len(q.uris) = 1 /\ u = q.uris[1] /\ 1 \in DOMAIN q.uris
        BY <3>1, <4>1 DEF ListOf, Last
      <4> QED BY <4>1, <4>2 DEF ListOf
    <3> QED BY <1>5, <1>8, <3>1
  <2> QED BY <1>7, <2>1, <2>2, <2>3 DEF Added
<1>9. ASSUME q.for = "remove", q.uris # <<>> PROVE Removed
  <2>1. /\ \A i \in DOMAIN q.uris, f \in q.scan : Under(f, q.uris[i]) => ~Covered(f, z)
        /\ Len(q.uris) = 1 /\ Unmarking(q.scan, w, q.uris, z, 1)
             => \A f \in (q.scan \cap w.marked) :
                   \/ Covered(f, z) \/ Under(f, u) \/ Under(u, Front(f))
                   \/ \E d \in Folders(q.scan) :
                         /\ Under(f, d) /\ (d = topLevel[Last(d)] \/ Under(u, Front(d)))
                         /\ z.top[Last(d)] \notin {NoUri, d}
    BY <1>1, <1>2, <1>4, <1>6, <1>9, RemoveTakes DEF y
  <2>2. \A i \in DOMAIN q.uris, f \in sources' : ~Under(f, q.uris[i])
    BY <1>2, <2>1
  <2>3. single => Unmarking(q.scan, w, q.uris, z, 1)
    BY <1>5, <1>9
  <2> HIDE DEF u
  <2> QED BY <1>1, <1>7, <2>1, <2>2, <2>3 DEF Removed
<1>10. ASSUME q.for \notin {"add", "remove"} \/ q.uris = <<>> PROVE lost = {}
  <2>1. CASE q.for \notin {"add", "remove"}
    <3>1. z = w
      BY <1>6, <2>1 DEF y, Done
    <3> QED BY <1>4, <1>7, <3>1 DEF OK
  <2>2. CASE q.for \in {"add", "remove"} /\ q.uris = <<>>
    <3>1. ~Mistaken(r) /\ Len(q.uris) = 0
      BY <2>2 DEF Mistaken, q
    <3>2. z = w
      BY <1>5, <2>2, <3>1 DEF Marking, Unmarking
    <3> QED BY <1>4, <1>7, <3>2 DEF OK
  <2> QED BY <1>10, <2>1, <2>2
<1> QED BY <1>8, <1>9, <1>10

\* A command leaves the folders it was given as it says, and one that is given one folder and is
\* not mistaken takes no other source away than the code means to.
THEOREM CommandsTake == WorkspaceSpec => OnlyCommandsTakeSources
<1>1. WorkspaceType /\ [WorkspaceNext]_workspaceVars
        => [\A r \in Requests : Refresh(r) => TakesOnly(r)]_workspaceVars
  BY CommandStep
<1>2. WorkspaceSpec => [][\A r \in Requests : Refresh(r) => TakesOnly(r)]_workspaceVars
  BY <1>1, WorkspaceTypes, PTL DEF WorkspaceSpec
<1> QED BY <1>2 DEF OnlyCommandsTakeSources

=============================================================================
