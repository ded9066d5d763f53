--------------------------- MODULE DiffViewsProofs ---------------------------
(***************************************************************************)
(* Proofs about the two views of a diff: what the table and the inline text *)
(* show, whatever the outputs, the matcher and the context asked for.       *)
(***************************************************************************)
EXTENDS DiffViews, SequenceTheorems, FiniteSetTheorems, TLAPS

-----------------------------------------------------------------------------
(* Induction, and what FlattenSeq computes                                  *)

\* Induction over the naturals, for a property given as the set of the numbers
\* that have it.
LEMMA SetInduction ==
  ASSUME NEW S, 0 \in S, \A n \in Nat : n \in S => n + 1 \in S
  PROVE  Nat \subseteq S
<1>1. SUFFICES ASSUME Nat \ S # {} PROVE FALSE
  OBVIOUS
<1>2. PICK x \in Nat \ S : \A y \in Nat \ S : ~(<<y, x>> \in OpToRel(<, Nat))
  BY <1>1, NatLessThanWellFounded, WFMin
<1>3. x \in Nat /\ x # 0 /\ x - 1 \in Nat
  BY x \in Nat \ S
<1>4. x - 1 \in Nat \ S
  <2>1. CASE x - 1 \in S
    <3>1. (x - 1) + 1 \in S BY <1>3, <2>1
    <3> QED BY <1>3, <3>1
  <2> QED BY <1>3, <2>1
<1>5. <<x - 1, x>> \in OpToRel(<, Nat)
  <2>1. <<x - 1, x>> \in Nat \X Nat /\ x - 1 < x
    BY <1>3
  <2> QED BY <2>1 DEF OpToRel
<1> QED
  BY <1>2, <1>4, <1>5

\* The same up to a bound.
LEMMA UpTo ==
  ASSUME NEW N \in Nat, NEW S, 0 \in S, \A n \in 0 .. N - 1 : n \in S => n + 1 \in S
  PROVE  N \in S
<1> DEFINE T == {n \in Nat : n <= N => n \in S}
<1>1. 0 \in T
  OBVIOUS
<1>2. ASSUME NEW n \in Nat, n \in T PROVE n + 1 \in T
  BY <1>2
<1>3. Nat \subseteq T
  <2> HIDE DEF T
  <2> QED BY <1>1, <1>2, SetInduction
<1> QED
  BY <1>3

\* The recursive function inside FlattenSeq exists.
LEMMA FlattenExists ==
  ASSUME NEW seqs, NEW N \in Nat
  PROVE  \E f : f = [i \in 1 .. N |-> IF i = 1 THEN seqs[i] ELSE f[i - 1] \o seqs[i]]
<1> DEFINE T == {n \in Nat : \E f :
                    f = [i \in 1 .. n |-> IF i = 1 THEN seqs[i] ELSE f[i - 1] \o seqs[i]]}
<1>1. 0 \in T
  <2> DEFINE f == [i \in 1 .. 0 |-> i]
  <2>1. f = [i \in 1 .. 0 |-> IF i = 1 THEN seqs[i] ELSE f[i - 1] \o seqs[i]]
    OBVIOUS
  <2> HIDE DEF f
  <2>2. \E h : h = [i \in 1 .. 0 |-> IF i = 1 THEN seqs[i] ELSE h[i - 1] \o seqs[i]]
    BY <2>1
  <2>3. 0 \in Nat
    OBVIOUS
  <2> QED BY <2>2, <2>3, Zenon
<1>2. ASSUME NEW n \in Nat, n \in T PROVE n + 1 \in T
  <2>1. PICK f : f = [i \in 1 .. n |-> IF i = 1 THEN seqs[i] ELSE f[i - 1] \o seqs[i]]
    BY <1>2
  <2> DEFINE g == [i \in 1 .. n + 1 |->
                      IF i <= n THEN f[i] ELSE IF i = 1 THEN seqs[i] ELSE f[i - 1] \o seqs[i]]
  <2>2. ASSUME NEW i \in 1 .. n + 1
        PROVE  g[i] = IF i = 1 THEN seqs[i] ELSE g[i - 1] \o seqs[i]
    <3>1. CASE i = 1
      BY <2>1, <3>1
    <3>2. CASE i # 1 /\ i <= n
      <4>1. i - 1 \in 1 .. n /\ i - 1 \in 1 .. n + 1 /\ i \in 1 .. n
        BY <3>2
      <4>2. g[i] = f[i] /\ g[i - 1] = f[i - 1]
        BY <4>1
      <4>3. f[i] = f[i - 1] \o seqs[i]
        BY <2>1, <3>2, <4>1
      <4> QED BY <3>2, <4>2, <4>3
    <3>3. CASE i # 1 /\ i = n + 1
      <4>1. i - 1 \in 1 .. n /\ i - 1 \in 1 .. n + 1 /\ ~(i <= n)
        BY <3>3
      <4>2. g[i - 1] = f[i - 1]
        BY <4>1
      <4>3. g[i] = f[i - 1] \o seqs[i]
        BY <3>3, <4>1, Zenon
      <4> QED BY <3>3, <4>2, <4>3
    <3> QED BY <3>1, <3>2, <3>3
  <2>3. DOMAIN g = 1 .. n + 1 /\ g = [i \in 1 .. n + 1 |-> g[i]]
    OBVIOUS
  <2> HIDE DEF g
  <2>4. g = [i \in 1 .. n + 1 |-> IF i = 1 THEN seqs[i] ELSE g[i - 1] \o seqs[i]]
    BY <2>2, <2>3
  <2>5. \E h : h = [i \in 1 .. n + 1 |-> IF i = 1 THEN seqs[i] ELSE h[i - 1] \o seqs[i]]
    BY <2>4
  <2>6. n + 1 \in Nat
    OBVIOUS
  <2> QED BY <2>5, <2>6, Zenon
<1>3. N \in T
  <2>1. Nat \subseteq T
    <3> HIDE DEF T
    <3> QED BY <1>1, <1>2, SetInduction
  <2> QED BY <2>1
<1> QED
  BY <1>3, Zenon

\* FlattenSeq is the last of the concatenations of ever more sequences.
LEMMA Flatten ==
  ASSUME NEW S, NEW seqs \in Seq(Seq(S))
  PROVE  \E g \in [0 .. Len(seqs) -> Seq(S)] :
            /\ g[0] = <<>>
            /\ \A i \in 1 .. Len(seqs) : g[i] = g[i - 1] \o seqs[i]
            /\ FlattenSeq(seqs) = g[Len(seqs)]
<1> DEFINE N == Len(seqs)
           F == CHOOSE f : f = [i \in 1 .. N |-> IF i = 1 THEN seqs[i] ELSE f[i - 1] \o seqs[i]]
           g == [i \in 0 .. N |-> IF i = 0 THEN <<>> ELSE F[i]]
<1>0. N \in Nat /\ \A i \in 1 .. N : seqs[i] \in Seq(S)
  BY ElementOfSeq
<1>1. F = [i \in 1 .. N |-> IF i = 1 THEN seqs[i] ELSE F[i - 1] \o seqs[i]]
  <2> HIDE DEF N
  <2> QED BY <1>0, FlattenExists
<1>2. FlattenSeq(seqs) = IF N = 0 THEN seqs ELSE F[N]
  BY DEF FlattenSeq
<1> HIDE DEF N, F
<1>3. \A i \in 1 .. N : F[i] \in Seq(S)
  <2> DEFINE T == {n \in Nat : n \in 1 .. N => F[n] \in Seq(S)}
  <2>1. 0 \in T OBVIOUS
  <2>2. ASSUME NEW n \in Nat, n \in T PROVE n + 1 \in T
    <3>1. SUFFICES ASSUME n + 1 \in 1 .. N PROVE F[n + 1] \in Seq(S)
      BY <2>2
    <3>2. CASE n = 0
      <4>1. F[1] = seqs[1]
        BY <1>1, <3>1, <3>2
      <4> QED BY <1>0, <3>1, <3>2, <4>1
    <3>3. CASE n # 0
      <4>1. n \in 1 .. N /\ F[n] \in Seq(S)
        BY <1>0, <2>2, <3>1, <3>3
      <4>2. (n + 1) - 1 = n /\ n + 1 # 1
        BY <3>3
      <4>3. F[n + 1] = F[n] \o seqs[n + 1]
        BY <1>1, <3>1, <4>2, Zenon
      <4> QED BY <1>0, <3>1, <4>1, <4>3, ConcatProperties
    <3> QED BY <3>2, <3>3
  <2>3. Nat \subseteq T
    <3> HIDE DEF T
    <3> QED BY <2>1, <2>2, SetInduction
  <2> QED BY <2>3, <1>0
<1>4. g \in [0 .. N -> Seq(S)]
  BY <1>0, <1>3, EmptySeq
<1>5. g[0] = <<>>
  BY <1>0
<1>6. ASSUME NEW i \in 1 .. N PROVE g[i] = g[i - 1] \o seqs[i]
  <2>1. i \in 0 .. N /\ i - 1 \in 0 .. N
    BY <1>0
  <2>2. CASE i = 1
    <3>1. g[i] = seqs[i] /\ g[i - 1] = <<>>
      BY <1>1, <2>1, <2>2
    <3> QED BY <1>0, <3>1, ConcatEmptySeq
  <2>3. CASE i # 1
    <3>1. g[i] = F[i] /\ g[i - 1] = F[i - 1]
      BY <1>0, <2>1, <2>3
    <3> QED BY <1>1, <2>3, <3>1
  <2> QED BY <2>2, <2>3
<1>7. FlattenSeq(seqs) = g[N]
  <2>1. CASE N = 0
    BY <1>2, <1>5, <2>1, EmptySeq DEF N
  <2>2. CASE N # 0
    BY <1>0, <1>2, <2>2
  <2> QED BY <2>1, <2>2
<1> QED
  <2> HIDE DEF g
  <2> QED BY <1>4, <1>5, <1>6, <1>7 DEF N
-----------------------------------------------------------------------------
(* What stays on screen, for any rows that are all different                *)

\* What KeptRows shows of row i.
Piece(all, keep, i) ==
    IF i \notin keep THEN <<>>
    ELSE IF i > 1 /\ i - 1 \notin keep THEN <<Omitted, all[i]>>
    ELSE <<all[i]>>

\* The rows are all different, and none looks like a mark.
AllDifferent(all) ==
    /\ \A i \in DOMAIN all : all[i] # Omitted
    /\ \A i, j \in DOMAIN all : all[i] = all[j] => i = j

\* The clamped windows hold the rows near enough to a changed one.
LEMMA ContextIndexesAre ==
  ASSUME NEW total \in Nat, NEW changes \in SUBSET (1 .. total), NEW c \in Nat
  PROVE  ContextIndexes(total, changes, c)
            = {k \in 1 .. total : \E j \in changes : k - j \in -c .. c}
<1>1. ASSUME NEW j \in changes
      PROVE  Max({1, j - c}) .. Min({total, j + c}) = {k \in 1 .. total : k - j \in -c .. c}
  <2>1. j \in Int /\ 1 <= j /\ j <= total
    OBVIOUS
  <2>2. Max({1, j - c}) = IF 1 >= j - c THEN 1 ELSE j - c
    BY <2>1 DEF Max
  <2>3. Min({total, j + c}) = IF total <= j + c THEN total ELSE j + c
    BY <2>1 DEF Min
  <2> QED
    BY <2>1, <2>2, <2>3
<1> QED
  BY <1>1 DEF ContextIndexes

\* The result of KeptRows, row by row.
LEMMA KeptByPieces ==
  ASSUME NEW S, NEW all \in Seq(S), NEW keep \in SUBSET (1 .. Len(all))
  PROVE  \E g \in [0 .. Len(all) -> Seq(S \cup {Omitted})] :
            /\ g[0] = <<>>
            /\ \A i \in 1 .. Len(all) : g[i] = g[i - 1] \o Piece(all, keep, i)
            /\ KeptRows(all, keep) = g[Len(all)]
<1> DEFINE N == Len(all)
           R == S \cup {Omitted}
           pieces == [i \in 1 .. N |-> Piece(all, keep, i)]
<1>1. N \in Nat /\ DOMAIN all = 1 .. N
  OBVIOUS
<1>2. ASSUME NEW i \in 1 .. N PROVE Piece(all, keep, i) \in Seq(R)
  <2>1. all[i] \in R /\ Omitted \in R
    BY ElementOfSeq
  <2> HIDE DEF R
  <2> QED BY <2>1 DEF Piece
<1>3. pieces \in Seq(Seq(R)) /\ Len(pieces) = N
  <2> HIDE DEF R, N
  <2> QED BY <1>1, <1>2, IsASeq
<1>4. KeptRows(all, keep) = FlattenSeq(pieces)
  BY <1>1 DEF KeptRows, Piece
<1>5. PICK g \in [0 .. N -> Seq(R)] :
            /\ g[0] = <<>>
            /\ \A i \in 1 .. N : g[i] = g[i - 1] \o pieces[i]
            /\ FlattenSeq(pieces) = g[N]
  <2> HIDE DEF pieces, N, R
  <2> QED BY <1>3, Flatten
<1>6. \A i \in 1 .. N : pieces[i] = Piece(all, keep, i)
  OBVIOUS
<1> QED
  <2> HIDE DEF pieces
  <2> QED BY <1>4, <1>5, <1>6

\* What is in a short sequence.
LEMMA ShortRanges ==
  ASSUME NEW x, NEW y
  PROVE  Range(<<x>>) = {x} /\ Range(<<x, y>>) = {x, y}
<1>1. DOMAIN <<x>> = {1} /\ <<x>>[1] = x
  OBVIOUS
<1>2. DOMAIN <<x, y>> = {1, 2} /\ <<x, y>>[1] = x /\ <<x, y>>[2] = y
  OBVIOUS
<1> QED
  BY <1>1, <1>2, Zenon DEF Range

\* What row i adds, apart from marks.
LEMMA PieceShows ==
  ASSUME NEW R, Omitted \in R, NEW all, NEW keep, NEW i, all[i] \in R
  PROVE  /\ Piece(all, keep, i) \in Seq(R)
         /\ Range(Piece(all, keep, i)) \ {Omitted} = {all[j] : j \in keep \cap {i}} \ {Omitted}
<1>1. CASE i \notin keep
  <2>1. Piece(all, keep, i) = <<>> /\ keep \cap {i} = {}
    BY <1>1 DEF Piece
  <2>2. Range(<<>>) = {}
    BY DEF Range
  <2> QED BY <2>1, <2>2, EmptySeq
<1>2. CASE i \in keep
  <2>1. {all[j] : j \in keep \cap {i}} = {all[i]}
    BY <1>2
  <2>2. CASE Piece(all, keep, i) = <<Omitted, all[i]>>
    <3>1. Range(Piece(all, keep, i)) = {Omitted, all[i]}
      BY <2>2, ShortRanges
    <3>2. <<Omitted, all[i]>> \in Seq(R)
      OBVIOUS
    <3> QED BY <2>1, <2>2, <3>1, <3>2
  <2>3. CASE Piece(all, keep, i) = <<all[i]>>
    <3>1. Range(Piece(all, keep, i)) = {all[i]}
      BY <2>3, ShortRanges
    <3>2. <<all[i]>> \in Seq(R)
      OBVIOUS
    <3> QED BY <2>1, <2>3, <3>1, <3>2
  <2> QED BY <1>2, <2>2, <2>3 DEF Piece
<1> QED
  BY <1>1, <1>2

\* The rows of the first i pieces are those that are kept.
LEMMA KeptRowsShown ==
  ASSUME NEW S, NEW all \in Seq(S), NEW keep \in SUBSET (1 .. Len(all))
  PROVE  /\ KeptRows(all, keep) \in Seq(S \cup {Omitted})
         /\ Range(KeptRows(all, keep)) \ {Omitted} = {all[j] : j \in keep} \ {Omitted}
<1> DEFINE N == Len(all)
           R == S \cup {Omitted}
<1>0. N \in Nat
  OBVIOUS
<1>1. PICK g \in [0 .. N -> Seq(R)] :
            /\ g[0] = <<>>
            /\ \A i \in 1 .. N : g[i] = g[i - 1] \o Piece(all, keep, i)
            /\ KeptRows(all, keep) = g[N]
  BY KeptByPieces
<1> DEFINE Done(n) == Range(g[n]) \ {Omitted} = {all[j] : j \in keep \cap (1 .. n)} \ {Omitted}
<1>2. Done(0)
  <2>1. Range(g[0]) = {} /\ keep \cap (1 .. 0) = {}
    BY <1>1 DEF Range
  <2> QED BY <2>1
<1>3. ASSUME NEW n \in 0 .. N - 1, Done(n) PROVE Done(n + 1)
  <2>1. n + 1 \in 1 .. N /\ (n + 1) - 1 = n /\ n \in 0 .. N /\ n + 1 \in 0 .. N
    BY <1>0
  <2>2. g[n + 1] = g[n] \o Piece(all, keep, n + 1)
    BY <1>1, <2>1
  <2>3. g[n] \in Seq(R)
    BY <2>1
  <2>4. all[n + 1] \in R /\ Omitted \in R
    BY <2>1, ElementOfSeq
  <2>5. Piece(all, keep, n + 1) \in Seq(R)
        /\ Range(Piece(all, keep, n + 1)) \ {Omitted}
              = {all[j] : j \in keep \cap {n + 1}} \ {Omitted}
    <3> HIDE DEF R
    <3> QED BY <2>4, PieceShows
  <2>6. Range(g[n + 1]) = Range(g[n]) \cup Range(Piece(all, keep, n + 1))
    <3> HIDE DEF R
    <3> QED BY <2>2, <2>3, <2>5, RangeConcatenation
  <2>7. keep \cap (1 .. n + 1) = (keep \cap (1 .. n)) \cup (keep \cap {n + 1})
    OBVIOUS
  <2> QED BY <1>3, <2>5, <2>6, <2>7
<1>4. Done(N)
  <2> DEFINE P == {n \in Nat : n <= N => Done(n)}
  <2>1. 0 \in P /\ \A n \in 0 .. N - 1 : n \in P => n + 1 \in P
    <3> HIDE DEF Done
    <3>1. 0 \in P BY <1>2
    <3>2. ASSUME NEW n \in 0 .. N - 1, n \in P PROVE n + 1 \in P
      BY <1>3, <3>2
    <3> QED BY <3>1, <3>2
  <2>2. N \in P
    <3> HIDE DEF P, N
    <3> QED BY <1>0, <2>1, UpTo
  <2> HIDE DEF Done
  <2> QED BY <1>0, <2>2
<1>5. keep \cap (1 .. N) = keep
  OBVIOUS
<1>6. g[N] \in Seq(R)
  BY <1>0, <1>1
<1> QED
  <2> HIDE DEF N
  <2> QED BY <1>1, <1>4, <1>5, <1>6

\* Where an entry of the output comes from; -1 stands for a mark.
PlaceOf(all, x) == IF x = Omitted THEN -1 ELSE CHOOSE i \in DOMAIN all : all[i] = x

\* The same by position, the top of the page being position 0.
At(all, out, p) == IF p = 0 THEN 0 ELSE PlaceOf(all, out[p])

\* GapsAreMarked for the output so far, which no mark ends.
Steady(all, out) ==
    \A p \in 0 .. Len(out) - 1 :
        IF At(all, out, p + 1) = -1
        THEN At(all, out, p) # -1 /\ p + 1 < Len(out) /\ At(all, out, p + 2) > At(all, out, p) + 1
        ELSE At(all, out, p) # -1 => At(all, out, p + 1) = At(all, out, p) + 1

\* A row comes from its own place.
LEMMA PlaceOfRow ==
  ASSUME NEW S, NEW all \in Seq(S), AllDifferent(all)
  PROVE  /\ \A i \in 1 .. Len(all) : PlaceOf(all, all[i]) = i
         /\ PlaceOf(all, Omitted) = -1
<1>1. DOMAIN all = 1 .. Len(all)
  OBVIOUS
<1>2. ASSUME NEW i \in 1 .. Len(all) PROVE PlaceOf(all, all[i]) = i
  <2>1. all[i] # Omitted
    BY <1>1 DEF AllDifferent
  <2>2. \A j \in DOMAIN all : all[j] = all[i] <=> j = i
    BY <1>1 DEF AllDifferent
  <2>3. (CHOOSE j \in DOMAIN all : all[j] = all[i]) = i
    BY <1>1, <2>2
  <2> QED BY <2>1, <2>3 DEF PlaceOf
<1> QED
  BY <1>2 DEF PlaceOf

\* An entry added to the output leaves the places of the others.
LEMMA AtAppend ==
  ASSUME NEW R, NEW out \in Seq(R), NEW x \in R, NEW all
  PROVE  /\ Append(out, x) \in Seq(R)
         /\ Len(Append(out, x)) = Len(out) + 1
         /\ \A p \in 0 .. Len(out) : At(all, Append(out, x), p) = At(all, out, p)
         /\ At(all, Append(out, x), Len(out) + 1) = PlaceOf(all, x)
<1>1. Len(out) \in Nat /\ Append(out, x) \in Seq(R) /\ Len(Append(out, x)) = Len(out) + 1
  OBVIOUS
<1>2. \A p \in 1 .. Len(out) : Append(out, x)[p] = out[p]
  OBVIOUS
<1>3. Append(out, x)[Len(out) + 1] = x
  OBVIOUS
<1> QED
  BY <1>1, <1>2, <1>3 DEF At

\* A row that follows the last one may be added, and a mark and a later row.
LEMMA SteadyGrows ==
  ASSUME NEW R, NEW out \in Seq(R), NEW x \in R, NEW all,
         Steady(all, out), Omitted \in R,
         NEW l \in Nat, At(all, out, Len(out)) = l,
         PlaceOf(all, Omitted) = -1
  PROVE  /\ PlaceOf(all, x) = l + 1 => Steady(all, Append(out, x))
         /\ PlaceOf(all, x) \in Nat /\ PlaceOf(all, x) > l + 1
                => Steady(all, Append(Append(out, Omitted), x))
<1>1. Len(out) \in Nat
  OBVIOUS
<1>2. ASSUME PlaceOf(all, x) = l + 1 PROVE Steady(all, Append(out, x))
  <2> DEFINE new == Append(out, x)
  <2>1. Len(new) = Len(out) + 1
        /\ (\A p \in 0 .. Len(out) : At(all, new, p) = At(all, out, p))
        /\ At(all, new, Len(out) + 1) = l + 1
    BY <1>2, AtAppend
  <2> HIDE DEF new
  <2>2. ASSUME NEW p \in 0 .. Len(new) - 1
        PROVE  IF At(all, new, p + 1) = -1
               THEN At(all, new, p) # -1 /\ p + 1 < Len(new) /\ At(all, new, p + 2) > At(all, new, p) + 1
               ELSE At(all, new, p) # -1 => At(all, new, p + 1) = At(all, new, p) + 1
    <3>1. CASE p = Len(out)
      BY <1>1, <2>1, <3>1
    <3>2. CASE p \in 0 .. Len(out) - 1
      <4>1. At(all, new, p) = At(all, out, p) /\ At(all, new, p + 1) = At(all, out, p + 1)
        BY <1>1, <2>1, <3>2
      <4>2. p + 1 < Len(out) => At(all, new, p + 2) = At(all, out, p + 2)
        BY <1>1, <2>1, <3>2
      <4> QED BY <1>1, <2>1, <3>2, <4>1, <4>2 DEF Steady
    <3> QED BY <1>1, <2>1, <3>1, <3>2
  <2> QED BY <2>2 DEF Steady, new
<1>3. ASSUME PlaceOf(all, x) \in Nat, PlaceOf(all, x) > l + 1
      PROVE  Steady(all, Append(Append(out, Omitted), x))
  <2> DEFINE mid == Append(out, Omitted)
             new == Append(mid, x)
  <2>1. mid \in Seq(R) /\ Len(mid) = Len(out) + 1
        /\ (\A p \in 0 .. Len(out) : At(all, mid, p) = At(all, out, p))
        /\ At(all, mid, Len(out) + 1) = -1
    BY AtAppend
  <2> HIDE DEF mid
  <2>2. Len(new) = Len(mid) + 1
        /\ (\A p \in 0 .. Len(mid) : At(all, new, p) = At(all, mid, p))
        /\ At(all, new, Len(mid) + 1) = PlaceOf(all, x)
    BY <2>1, AtAppend
  <2> HIDE DEF new
  <2>3. Len(new) = Len(out) + 2
        /\ (\A p \in 0 .. Len(out) : At(all, new, p) = At(all, out, p))
        /\ At(all, new, Len(out) + 1) = -1
        /\ At(all, new, Len(out) + 2) = PlaceOf(all, x)
    BY <1>1, <2>1, <2>2
  <2>4. ASSUME NEW p \in 0 .. Len(new) - 1
        PROVE  IF At(all, new, p + 1) = -1
               THEN At(all, new, p) # -1 /\ p + 1 < Len(new) /\ At(all, new, p + 2) > At(all, new, p) + 1
               ELSE At(all, new, p) # -1 => At(all, new, p + 1) = At(all, new, p) + 1
    <3>1. CASE p = Len(out)
      BY <1>1, <1>3, <2>3, <3>1
    <3>2. CASE p = Len(out) + 1
      BY <1>1, <1>3, <2>3, <3>2
    <3>3. CASE p \in 0 .. Len(out) - 1
      <4>1. At(all, new, p) = At(all, out, p) /\ At(all, new, p + 1) = At(all, out, p + 1)
        BY <1>1, <2>3, <3>3
      <4>2. p + 1 < Len(out) => At(all, new, p + 2) = At(all, out, p + 2)
        BY <1>1, <2>3, <3>3
      <4> QED BY <1>1, <2>3, <3>3, <4>1, <4>2 DEF Steady
    <3> QED BY <1>1, <2>3, <3>1, <3>2, <3>3
  <2> QED BY <2>4 DEF Steady, new, mid
<1> QED
  BY <1>2, <1>3

\* What is known of the output out once n rows were looked at.
Shown(all, keep, out, n) ==
    LET last == At(all, out, Len(out)) IN
    /\ Steady(all, out)
    /\ last \in 0 .. n
    /\ last = 0 \/ last \in keep
    /\ \A j \in last + 1 .. n : j \notin keep

\* The rows that are kept are shown in order, with a mark in every gap.
LEMMA KeptRowsInOrder ==
  ASSUME NEW S, NEW all \in Seq(S), NEW keep \in SUBSET (1 .. Len(all)), AllDifferent(all)
  PROVE  Shown(all, keep, KeptRows(all, keep), Len(all))
<1> DEFINE N == Len(all)
           R == S \cup {Omitted}
<1>0. N \in Nat
  OBVIOUS
<1>1. PICK g \in [0 .. N -> Seq(R)] :
            /\ g[0] = <<>>
            /\ \A i \in 1 .. N : g[i] = g[i - 1] \o Piece(all, keep, i)
            /\ KeptRows(all, keep) = g[N]
  BY KeptByPieces
<1>2. Shown(all, keep, g[0], 0)
  <2>1. Len(g[0]) = 0 /\ At(all, g[0], 0) = 0
    BY <1>1 DEF At
  <2> QED BY <2>1 DEF Shown, Steady
<1>3. ASSUME NEW n \in 0 .. N - 1, Shown(all, keep, g[n], n)
      PROVE  Shown(all, keep, g[n + 1], n + 1)
  <2> DEFINE out == g[n]
             i == n + 1
             l == At(all, out, Len(out))
  <2>1. i \in 1 .. N /\ n \in 0 .. N /\ n \in Nat /\ i \in 0 .. N
    BY <1>0
  <2>2. out \in Seq(R) /\ Len(out) \in Nat
    BY <2>1
  <2>3. g[i] = out \o Piece(all, keep, i)
    <3>1. i - 1 = n BY <2>1
    <3> QED BY <1>1, <2>1, <3>1
  <2>4. all[i] \in R /\ Omitted \in R
    BY <2>1, ElementOfSeq
  <2>5. PlaceOf(all, all[i]) = i /\ PlaceOf(all, Omitted) = -1
    BY <2>1, PlaceOfRow
  <2>6. l \in 0 .. n /\ (l = 0 \/ l \in keep) /\ (\A j \in l + 1 .. n : j \notin keep) /\ Steady(all, out)
    BY <1>3 DEF Shown
  <2> HIDE DEF R, out
  <2>7. CASE i \notin keep
    <3>1. g[i] = out
      BY <2>2, <2>3, <2>7, ConcatEmptySeq DEF Piece
    <3> QED BY <2>1, <2>6, <2>7, <3>1 DEF Shown
  <2>8. CASE i \in keep /\ ~(i > 1 /\ i - 1 \notin keep)
    <3>1. g[i] = Append(out, all[i])
      <4>1. Piece(all, keep, i) = <<all[i]>>
        BY <2>8 DEF Piece
      <4> QED BY <2>2, <2>3, <2>4, <4>1, AppendIsConcat
    <3>2. l = n
      <4>1. n = 0 \/ n \in keep
        BY <2>1, <2>8
      <4> QED BY <2>1, <2>6, <4>1
    <3>3. Steady(all, g[i])
      BY <2>2, <2>4, <2>5, <2>6, <3>1, <3>2, SteadyGrows
    <3>4. At(all, g[i], Len(g[i])) = i
      BY <2>2, <2>4, <2>5, <3>1, AtAppend
    <3> QED BY <2>1, <2>8, <3>3, <3>4 DEF Shown
  <2>9. CASE i \in keep /\ i > 1 /\ i - 1 \notin keep
    <3>1. g[i] = Append(Append(out, Omitted), all[i])
      <4>1. Piece(all, keep, i) = <<Omitted, all[i]>>
        BY <2>9 DEF Piece
      <4>2. out \o <<Omitted, all[i]>> = Append(Append(out, Omitted), all[i])
        BY <2>2, <2>4
      <4> QED BY <2>3, <4>1, <4>2
    <3>2. l + 1 < i
      BY <2>1, <2>6, <2>9
    <3>3. Steady(all, g[i])
      BY <2>1, <2>2, <2>4, <2>5, <2>6, <3>1, <3>2, SteadyGrows
    <3>4. At(all, g[i], Len(g[i])) = i
      <4> DEFINE mid == Append(out, Omitted)
      <4>1. mid \in Seq(R)
        BY <2>2, <2>4, AtAppend
      <4>2. g[i] = Append(mid, all[i])
        BY <3>1
      <4> HIDE DEF mid
      <4> QED BY <2>4, <2>5, <4>1, <4>2, AtAppend
    <3> QED BY <2>1, <2>9, <3>3, <3>4 DEF Shown
  <2> QED BY <2>7, <2>8, <2>9
<1>4. Shown(all, keep, g[N], N)
  <2> DEFINE P == {n \in Nat : n <= N => Shown(all, keep, g[n], n)}
  <2>1. 0 \in P
    BY <1>2
  <2>2. ASSUME NEW n \in 0 .. N - 1, n \in P PROVE n + 1 \in P
    BY <1>3, <2>2
  <2>3. N \in P
    <3> HIDE DEF P, N
    <3> QED BY <1>0, <2>1, <2>2, UpTo
  <2> QED BY <1>0, <2>3
<1> QED
  BY <1>1, <1>4

\* The page shows every row, or those near a change with a mark in every gap.
Page(all, changes, c, out) ==
    /\ GapsAreMarked(all, out)
    /\ \A i \in DOMAIN all :
          all[i] \in Range(out) <=> (changes = {} \/ \E j \in changes : i - j \in -c .. c)

\* The places of a whole output, in terms of the positions of its entries.
LEMMA GapsForm ==
  ASSUME NEW S, NEW all \in Seq(S), NEW R, NEW out \in Seq(R),
         \A p \in 0 .. Len(out) :
            LET next == IF p = Len(out) THEN Len(all) + 1 ELSE At(all, out, p + 1) IN
            IF next = -1
            THEN /\ At(all, out, p) # -1
                 /\ (IF p + 1 = Len(out) THEN Len(all) + 1 ELSE At(all, out, p + 2))
                       > At(all, out, p) + 1
            ELSE At(all, out, p) # -1 => next = At(all, out, p) + 1
  PROVE  GapsAreMarked(all, out)
<1> DEFINE place == Places(all, out)
           n == Len(out)
           last == Len(all) + 1
<1>0. n \in Nat /\ last \in Nat /\ last # -1
  OBVIOUS
<1>1. \A p \in 0 .. n + 1 : place[p] = IF p = n + 1 THEN last ELSE At(all, out, p)
  BY <1>0 DEF Places, At, PlaceOf
<1> HIDE DEF place, n, last
<1>2. ASSUME NEW p \in 0 .. n
      PROVE  IF place[p + 1] = -1
             THEN place[p] # -1 /\ place[p + 2] > place[p] + 1
             ELSE place[p] # -1 => place[p + 1] = place[p] + 1
  <2>1. place[p] = At(all, out, p)
    BY <1>0, <1>1
  <2>2. place[p + 1] = IF p = n THEN last ELSE At(all, out, p + 1)
    BY <1>0, <1>1
  <2>3. p + 1 <= n => place[p + 2] = IF p + 1 = n THEN last ELSE At(all, out, p + 2)
    BY <1>0, <1>1
  <2>4. place[p + 1] = -1 => p + 1 <= n
    BY <1>0, <2>2
  <2> QED BY <2>1, <2>2, <2>3, <2>4 DEF n, last
<1> QED
  BY <1>2 DEF GapsAreMarked, place, n

\* A page without a gap.
LEMMA WholePage ==
  ASSUME NEW S, NEW all \in Seq(S), AllDifferent(all)
  PROVE  GapsAreMarked(all, all)
<1>1. Len(all) \in Nat
  OBVIOUS
<1>2. \A p \in 0 .. Len(all) : At(all, all, p) = p
  BY <1>1, PlaceOfRow DEF At
<1> QED
  BY <1>1, <1>2, GapsForm

\* A page in context mode.
LEMMA ContextPage ==
  ASSUME NEW S, Omitted \notin S, NEW all \in Seq(S), AllDifferent(all),
         NEW changes \in SUBSET (1 .. Len(all)), NEW c \in Nat
  PROVE  Page(all, changes, c, ApplyContext(all, changes, c))
<1> DEFINE N == Len(all)
           R == S \cup {Omitted}
           keep == ContextIndexes(N, changes, c)
           kept == KeptRows(all, keep)
           out == ApplyContext(all, changes, c)
<1>0. N \in Nat /\ DOMAIN all = 1 .. N
  OBVIOUS
<1>1. CASE changes = {}
  <2>1. out = all
    BY <1>1 DEF ApplyContext
  <2>2. \A i \in DOMAIN all : all[i] \in Range(all)
    BY DEF Range
  <2> QED BY <1>1, <2>1, <2>2, WholePage DEF Page
<1>2. ASSUME changes # {} PROVE Page(all, changes, c, out)
  <2>0. changes \in SUBSET (1 .. N) /\ N # 0
    <3>1. PICK j \in changes : TRUE
      BY <1>2
    <3>2. j \in 1 .. N
      OBVIOUS
    <3> QED BY <1>0, <3>2
  <2>1. keep = {k \in 1 .. N : \E j \in changes : k - j \in -c .. c}
    <3>1. Len(all) \in Nat
      OBVIOUS
    <3> QED BY <3>1, ContextIndexesAre
  <2>2. out = kept \o (IF N \in keep THEN <<>> ELSE <<Omitted>>)
    BY <1>2 DEF ApplyContext
  <2> HIDE DEF keep, N, R
  <2>3. keep \in SUBSET (1 .. Len(all))
    BY <2>1 DEF N
  <2>4. kept \in Seq(R) /\ Range(kept) \ {Omitted} = {all[j] : j \in keep} \ {Omitted}
    BY <2>3, KeptRowsShown DEF R
  <2>5. Shown(all, keep, kept, N)
    BY <2>3, KeptRowsInOrder DEF N
  <2>6. PlaceOf(all, Omitted) = -1 /\ Omitted \in R
    BY PlaceOfRow DEF R
  <2> DEFINE l == At(all, kept, Len(kept))
  <2> HIDE DEF kept, out
  <2>7. Len(kept) \in Nat
    BY <2>4
  <2>10. ASSUME NEW o, Range(o) \ {Omitted} = {all[j] : j \in keep} \ {Omitted}
         PROVE  \A i \in 1 .. N : all[i] \in Range(o) <=> \E j \in changes : i - j \in -c .. c
    <3>1. ASSUME NEW i \in 1 .. N PROVE all[i] \in Range(o) <=> i \in keep
      <4>1. all[i] # Omitted /\ \A j \in keep : all[j] = all[i] => j = i
        BY <1>0, <2>3 DEF AllDifferent, N
      <4>2. all[i] \in Range(o) <=> all[i] \in {all[j] : j \in keep}
        BY <2>10, <4>1
      <4> QED BY <4>1, <4>2
    <3> QED BY <2>1, <3>1
  <2>8. CASE N \in keep
    <3>1. out = kept
      BY <2>2, <2>4, <2>8, ConcatEmptySeq
    <3>2. l = N
      BY <1>0, <2>5, <2>8 DEF Shown
    <3>3. GapsAreMarked(all, out)
      BY <2>4, <2>5, <2>7, <3>1, <3>2, GapsForm DEF Shown, Steady, N
    <3>4. Range(out) \ {Omitted} = {all[j] : j \in keep} \ {Omitted}
      BY <2>4, <3>1
    <3> QED BY <1>0, <1>2, <2>10, <3>3, <3>4 DEF Page
  <2>9. CASE N \notin keep
    <3>1. out = Append(kept, Omitted)
      BY <2>2, <2>4, <2>6, <2>9, AppendIsConcat
    <3>2. out \in Seq(R) /\ Len(out) = Len(kept) + 1
          /\ (\A p \in 0 .. Len(kept) : At(all, out, p) = At(all, kept, p))
          /\ At(all, out, Len(kept) + 1) = -1
      BY <2>4, <2>6, <3>1, AtAppend
    <3>3. l \in Nat /\ l < N
      <4>1. l \in 0 .. N /\ (l = 0 \/ l \in keep)
        BY <2>5 DEF Shown
      <4> QED BY <1>0, <2>0, <2>9, <4>1
    <3>4. GapsAreMarked(all, out)
      BY <2>5, <2>7, <3>2, <3>3, GapsForm DEF Shown, Steady, N
    <3>5. Range(out) \ {Omitted} = {all[j] : j \in keep} \ {Omitted}
      <4>1. Range(out) = Range(kept) \cup Range(<<Omitted>>)
        <5>1. <<Omitted>> \in Seq(R)
          BY <2>6
        <5> DEFINE mark == <<Omitted>>
        <5>2. out = kept \o mark
          BY <2>2, <2>9
        <5>3. mark \in Seq(R)
          BY <5>1
        <5> HIDE DEF mark
        <5>4. Range(out) = Range(kept) \cup Range(mark)
          BY <2>4, <5>2, <5>3, RangeConcatenation
        <5> QED BY <5>4 DEF mark
      <4> QED BY <2>4, <4>1, ShortRanges
    <3> QED BY <1>0, <1>2, <2>10, <3>4, <3>5 DEF Page
  <2> QED BY <2>8, <2>9
<1> QED
  BY <1>1, <1>2
-----------------------------------------------------------------------------
(* The table of the side-by-side view                                       *)

\* A block of rows shows k lines of one side, the first being from + 1.
ShowsLines(block, number, content, text, from, k) ==
    /\ k <= Len(block)
    /\ \A p \in 1 .. Len(block) : block[p][number] = IF p <= k THEN from + p ELSE 0
    /\ \A p \in 1 .. k : block[p][content] = text[from + p]

\* A block that shows the next lines continues a side that carries those before.
LEMMA CarriesMore ==
  ASSUME NEW S, NEW table \in Seq(S), NEW block \in Seq(S), NEW number, NEW content, NEW text,
         NEW n \in Nat, NEW k \in Nat,
         Carries(table, number, content, text, n),
         ShowsLines(block, number, content, text, n, k)
  PROVE  Carries(table \o block, number, content, text, n + k)
<1> DEFINE new == table \o block
           L == Len(table)
           M == Len(block)
           Old == {i \in 1 .. L : table[i][number] # 0}
           Numbered == {i \in DOMAIN new : new[i][number] # 0}
<1>1. /\ L \in Nat /\ M \in Nat
      /\ DOMAIN table = 1 .. L /\ DOMAIN new = 1 .. L + M
      /\ \A i \in 1 .. L : new[i] = table[i]
      /\ \A p \in 1 .. M : new[L + p] = block[p]
  OBVIOUS
<1>2. /\ {table[i][number] : i \in Old} = 1 .. n
      /\ \A i, j \in Old : i < j => table[i][number] < table[j][number]
      /\ \A i \in Old : table[i][content] = text[table[i][number]]
  BY <1>1 DEF Carries
<1>3. /\ k <= M
      /\ \A p \in 1 .. M : block[p][number] = IF p <= k THEN n + p ELSE 0
      /\ \A p \in 1 .. k : block[p][content] = text[n + p]
  BY DEF ShowsLines
<1> HIDE DEF new, L, M
<1>4. Numbered = Old \cup {L + p : p \in 1 .. k}
  <2>1. ASSUME NEW i \in Numbered PROVE i \in Old \cup {L + p : p \in 1 .. k}
    <3>1. CASE i \in 1 .. L
      BY <1>1, <3>1
    <3>2. CASE i \notin 1 .. L
      <4>1. i - L \in 1 .. M /\ i = L + (i - L)
        BY <1>1, <3>2
      <4>2. new[i] = block[i - L]
        BY <1>1, <4>1
      <4>3. i - L \in 1 .. k
        BY <1>1, <1>3, <4>1, <4>2
      <4> QED BY <4>1, <4>3
    <3> QED BY <3>1, <3>2
  <2>2. ASSUME NEW i \in Old PROVE i \in Numbered
    BY <1>1
  <2>3. ASSUME NEW p \in 1 .. k PROVE L + p \in Numbered
    <3>1. p \in 1 .. M /\ L + p \in 1 .. L + M
      BY <1>1, <1>3
    <3>2. new[L + p] = block[p] /\ block[p][number] = n + p
      BY <1>1, <1>3, <3>1
    <3> QED BY <1>1, <3>1, <3>2
  <2> QED BY <2>1, <2>2, <2>3
<1>5. /\ \A i \in Old : i \in 1 .. L /\ new[i] = table[i]
      /\ \A i \in Old : table[i][number] \in 1 .. n
  BY <1>1, <1>2
<1>6. ASSUME NEW p \in 1 .. k
      PROVE  new[L + p][number] = n + p /\ new[L + p][content] = text[n + p]
  <2>1. p \in 1 .. M
    BY <1>1, <1>3
  <2>2. new[L + p] = block[p]
    BY <1>1, <2>1
  <2>3. block[p][number] = n + p /\ block[p][content] = text[n + p]
    BY <1>3, <2>1
  <2> QED BY <2>2, <2>3
<1> HIDE DEF Old, Numbered
<1>7. {new[i][number] : i \in Numbered} = 1 .. n + k
  <2>1. ASSUME NEW x \in 1 .. n + k PROVE \E i \in Numbered : new[i][number] = x
    <3>1. CASE x <= n
      <4>1. PICK i \in Old : table[i][number] = x
        BY <1>2, <3>1
      <4> QED BY <1>4, <1>5, <4>1
    <3>2. CASE x > n
      <4>1. x - n \in 1 .. k /\ n + (x - n) = x
        BY <3>2
      <4> QED BY <1>4, <1>6, <4>1
    <3> QED BY <3>1, <3>2
  <2>2. ASSUME NEW i \in Numbered PROVE new[i][number] \in 1 .. n + k
    <3>1. CASE i \in Old
      BY <1>5, <3>1
    <3>2. ASSUME NEW p \in 1 .. k, i = L + p PROVE new[i][number] \in 1 .. n + k
      BY <1>6, <3>2
    <3> QED BY <1>4, <3>1, <3>2
  <2> QED BY <2>1, <2>2
<1>8. ASSUME NEW i \in Numbered, NEW j \in Numbered, i < j
      PROVE  new[i][number] < new[j][number]
  <2>1. CASE i \in Old /\ j \in Old
    BY <1>2, <1>5, <1>8, <2>1
  <2>2. ASSUME NEW p \in 1 .. k, i \in Old, j = L + p
        PROVE  new[i][number] < new[j][number]
    BY <1>5, <1>6, <2>2
  <2>3. ASSUME NEW p \in 1 .. k, i = L + p, j \in Old
        PROVE  FALSE
    BY <1>1, <1>5, <1>8, <2>3
  <2>4. ASSUME NEW p \in 1 .. k, NEW q \in 1 .. k, i = L + p, j = L + q
        PROVE  new[i][number] < new[j][number]
    <3>1. p < q
      BY <1>1, <1>8, <2>4
    <3> QED BY <1>6, <2>4, <3>1
  <2> QED BY <1>4, <2>1, <2>2, <2>3, <2>4
<1>9. ASSUME NEW i \in Numbered PROVE new[i][content] = text[new[i][number]]
  <2>1. CASE i \in Old
    BY <1>2, <1>5, <2>1
  <2>2. ASSUME NEW p \in 1 .. k, i = L + p PROVE new[i][content] = text[new[i][number]]
    BY <1>6, <2>2
  <2> QED BY <1>4, <2>1, <2>2
<1> QED
  BY <1>7, <1>8, <1>9 DEF Carries, Numbered, new

\* The table so far: its rows are well-formed and each has a number, the matchers
\* are within the outputs, and the numbers to come are the next ones.
TableInv ==
    /\ origin \in Seq(Lines) /\ dest \in Seq(Lines)
    /\ pc \in {"lines", "chunk", "shown"}
    /\ at \in [o : Nat, d : Nat] /\ chunk \in [o : Nat, d : Nat]
    /\ at.o <= Len(origin) /\ at.d <= Len(dest)
    /\ pc = "chunk" => /\ at.o <= chunk.o /\ chunk.o <= Len(origin)
                       /\ at.d <= chunk.d /\ chunk.d <= Len(dest)
    /\ num = Pair(at.o + 1, at.d + 1)
    /\ rows \in Seq(Rows)
    /\ \A i \in DOMAIN rows : rows[i].origin_num # 0 \/ rows[i].dest_num # 0

\* What is shown is the whole table, or what context mode leaves of it.
TableShown ==
    pc = "shown" => context \in Nat /\ Page(rows, Changed, context, output)

SideInv == TableInv /\ SidesAreWhole /\ TableShown

\* The bounds in the types that the proofs use.
LEMMA SideConstants == MaxLines \in Nat /\ MaxContext \in Nat /\ Omitted \notin Rows
  BY SideBySideAssumption

\* Two rows with a number of their own are different.
LEMMA RowsDiffer ==
  ASSUME TableInv, SidesAreWhole
  PROVE  AllDifferent(rows)
<1>1. DOMAIN rows = 1 .. Len(rows) /\ Len(rows) \in Nat /\ \A i \in DOMAIN rows : rows[i] \in Rows
  BY ElementOfSeq DEF TableInv
<1>2. ASSUME NEW i \in DOMAIN rows, NEW j \in DOMAIN rows, i < j, rows[i] = rows[j]
      PROVE  FALSE
  <2>1. CASE rows[i].origin_num # 0
    <3>1. rows[i].origin_num < rows[j].origin_num
      BY <1>2, <2>1 DEF SidesAreWhole, Carries
    <3> QED BY <1>1, <1>2, <3>1 DEF Rows
  <2>2. CASE rows[i].dest_num # 0
    <3>1. rows[i].dest_num < rows[j].dest_num
      BY <1>2, <2>2 DEF SidesAreWhole, Carries
    <3> QED BY <1>1, <1>2, <3>1 DEF Rows
  <2> QED BY <2>1, <2>2 DEF TableInv
<1>3. ASSUME NEW i \in DOMAIN rows, NEW j \in DOMAIN rows, rows[i] = rows[j]
      PROVE  i = j
  BY <1>1, <1>2, <1>3
<1> QED
  BY <1>1, <1>3, SideConstants DEF AllDifferent

\* Appending a block of rows for the next n lines of origin and m of dest.
LEMMA BlockAdded ==
  ASSUME TableInv, SidesAreWhole, pc \in {"lines", "chunk"},
         NEW n \in Nat, NEW m \in Nat, NEW block \in Seq(Rows),
         at.o + n <= Limit.o, at.d + m <= Limit.d,
         ShowsLines(block, "origin_num", "origin_content", origin, at.o, n),
         ShowsLines(block, "dest_num", "dest_content", dest, at.d, m),
         Len(block) <= n \/ Len(block) <= m,
         at' = Pair(at.o + n, at.d + m), Number(n, m), rows' = rows \o block,
         UNCHANGED <<origin, dest, pc, chunk, page>>
  PROVE  SideInv'
<1>1. at.o \in Nat /\ at.d \in Nat /\ rows \in Seq(Rows)
  BY DEF TableInv
<1>2. rows' \in Seq(Rows)
      /\ Len(rows') = Len(rows) + Len(block)
      /\ (\A i \in 1 .. Len(rows) : rows'[i] = rows[i])
      /\ (\A p \in 1 .. Len(block) : rows'[Len(rows) + p] = block[p])
  <2> HIDE DEF Rows
  <2> QED BY <1>1
<1>3. at'.o = at.o + n /\ at'.d = at.d + m
  BY DEF Pair
<1>4. Carries(rows', "origin_num", "origin_content", origin', at'.o)
  BY <1>1, <1>3, CarriesMore DEF SidesAreWhole
<1>5. Carries(rows', "dest_num", "dest_content", dest', at'.d)
  BY <1>1, <1>3, CarriesMore DEF SidesAreWhole
<1>6. ASSUME NEW i \in DOMAIN rows'
      PROVE  rows'[i].origin_num # 0 \/ rows'[i].dest_num # 0
  <2>0. i \in 1 .. Len(rows) + Len(block) /\ Len(rows) \in Nat /\ Len(block) \in Nat
    BY <1>1, <1>2
  <2>1. CASE i <= Len(rows)
    BY <1>2, <2>0, <2>1 DEF TableInv
  <2>2. CASE ~(i <= Len(rows))
    <3> DEFINE p == i - Len(rows)
    <3>1. p \in 1 .. Len(block) /\ i = Len(rows) + p
      BY <2>0, <2>2
    <3> HIDE DEF p
    <3>2. rows'[i] = block[p]
      BY <1>2, <3>1
    <3>3. block[p]["origin_num"] = (IF p <= n THEN at.o + p ELSE 0)
          /\ block[p]["dest_num"] = (IF p <= m THEN at.d + p ELSE 0)
      BY <3>1 DEF ShowsLines
    <3>4. p <= n \/ p <= m
      BY <2>0, <3>1
    <3> QED BY <1>1, <2>0, <3>1, <3>2, <3>3, <3>4
  <2> QED BY <2>1, <2>2
<1>7. at' \in [o : Nat, d : Nat] /\ num' = Pair(at'.o + 1, at'.d + 1)
  <2>1. num.o = at.o + 1 /\ num.d = at.d + 1
    BY <1>1 DEF Pair, TableInv
  <2>2. num' = Pair(num.o + n, num.d + m)
    BY DEF Number
  <2>3. num.o + n = at'.o + 1 /\ num.d + m = at'.d + 1
    BY <1>1, <1>3, <2>1
  <2>4. at.o + n \in Nat /\ at.d + m \in Nat
    BY <1>1
  <2>5. at' \in [o : Nat, d : Nat]
    BY <2>4 DEF Pair
  <2> QED BY <2>2, <2>3, <2>5
<1>8. /\ at'.o <= Len(origin) /\ at'.d <= Len(dest)
      /\ pc = "chunk" => at'.o <= chunk.o /\ at'.d <= chunk.d
  <2>1. CASE pc = "chunk"
    BY <1>1, <1>3, <2>1 DEF Limit, TableInv
  <2>2. CASE pc = "lines"
    BY <1>1, <1>3, <2>2 DEF Limit, Pair, TableInv
  <2> QED BY <2>1, <2>2
<1>9. TableInv'
  BY <1>2, <1>6, <1>7, <1>8 DEF TableInv
<1> QED
  BY <1>4, <1>5, <1>9 DEF SideInv, SidesAreWhole, TableShown

\* A function on 1 .. n is a sequence of length n.
LEMMA SequenceOf ==
  ASSUME NEW S, NEW n \in Nat, NEW f \in [1 .. n -> S]
  PROVE  f \in Seq(S) /\ Len(f) = n /\ DOMAIN f = 1 .. n
<1>1. f \in Seq(S)
  BY SeqDef
<1> QED
  BY <1>1

\* A row is well-formed when its cells are.
LEMMA RowIs ==
  ASSUME NEW on \in Nat, NEW otext \in Lines \cup {Blank},
         NEW dn \in Nat, NEW dtext \in Lines \cup {Blank},
         NEW type \in {"equal", "delete", "add", "replace"}
  PROVE  Row(on, otext, dn, dtext, type) \in Rows
  BY DEF Row, Rows

\* The lines of a block are within the text when the block is.
LEMMA Within ==
  ASSUME NEW a \in Nat, NEW n \in Nat, NEW l \in Nat, a + n <= l, NEW k \in 1 .. n
  PROVE  a + k \in 1 .. l /\ a + 1 + k - 1 = a + k
  OBVIOUS

\* Where the next lines are taken from, and the numbers they get.
LEMMA NextLines ==
  ASSUME TableInv, NEW n \in Nat, NEW m \in Nat, pc \in {"lines", "chunk"},
         at.o + n <= Limit.o, at.d + m <= Limit.d
  PROVE  /\ at.o \in Nat /\ at.d \in Nat
         /\ \A k \in 1 .. n : origin[at.o + k] \in Lines /\ num.o + k - 1 = at.o + k
         /\ \A k \in 1 .. m : dest[at.d + k] \in Lines /\ num.d + k - 1 = at.d + k
<1>1. /\ at.o \in Nat /\ at.d \in Nat
      /\ num.o = at.o + 1 /\ num.d = at.d + 1
      /\ Len(origin) \in Nat /\ Len(dest) \in Nat
      /\ \A i \in 1 .. Len(origin) : origin[i] \in Lines
      /\ \A i \in 1 .. Len(dest) : dest[i] \in Lines
  BY DEF TableInv, Pair
<1>2. at.o + n <= Len(origin) /\ at.d + m <= Len(dest)
  <2>1. CASE pc = "chunk"
    BY <1>1, <2>1 DEF Limit, TableInv
  <2>2. CASE pc = "lines"
    BY <2>2 DEF Limit, Pair
  <2> QED BY <2>1, <2>2
<1>3. ASSUME NEW k \in 1 .. n PROVE at.o + k \in 1 .. Len(origin) /\ num.o + k - 1 = at.o + k
  <2>1. at.o \in Nat /\ Len(origin) \in Nat /\ num.o = at.o + 1 /\ at.o + n <= Len(origin)
    BY <1>1, <1>2
  <2>2. at.o + k \in 1 .. Len(origin) /\ at.o + 1 + k - 1 = at.o + k
    BY ONLY <2>1, Within, n \in Nat, k \in 1 .. n
  <2> QED BY <2>1, <2>2
<1>4. ASSUME NEW k \in 1 .. m PROVE at.d + k \in 1 .. Len(dest) /\ num.d + k - 1 = at.d + k
  <2>1. at.d \in Nat /\ Len(dest) \in Nat /\ num.d = at.d + 1 /\ at.d + m <= Len(dest)
    BY <1>1, <1>2
  <2>2. at.d + k \in 1 .. Len(dest) /\ at.d + 1 + k - 1 = at.d + k
    BY ONLY <2>1, Within, m \in Nat, k \in 1 .. m
  <2> QED BY <2>1, <2>2
<1> QED
  BY <1>1, <1>3, <1>4

\* An equal opcode of either matcher.
LEMMA EqualKeeps ==
  ASSUME TableInv, SidesAreWhole, pc \in {"lines", "chunk"},
         AppendEqual, UNCHANGED <<origin, dest, pc, chunk, page>>
  PROVE  SideInv'
<1>1. PICK n \in 1 .. MaxLines :
        /\ Opcode("equal", n, n)
        /\ \A k \in 1 .. n : origin[at.o + k] = dest[at.d + k]
        /\ rows' = rows \o [k \in 1 .. n |->
               Row(num.o + k - 1, origin[at.o + k], num.d + k - 1, origin[at.o + k], "equal")]
        /\ Number(n, n)
  BY DEF AppendEqual
<1> DEFINE block == [k \in 1 .. n |->
               Row(num.o + k - 1, origin[at.o + k], num.d + k - 1, origin[at.o + k], "equal")]
<1>2. n \in Nat /\ at.o + n <= Limit.o /\ at.d + n <= Limit.d
      /\ at' = Pair(at.o + n, at.d + n)
  BY <1>1, SideConstants DEF Opcode
<1>3. /\ at.o \in Nat /\ at.d \in Nat
      /\ \A k \in 1 .. n : origin[at.o + k] \in Lines /\ num.o + k - 1 = at.o + k
      /\ \A k \in 1 .. n : dest[at.d + k] \in Lines /\ num.d + k - 1 = at.d + k
  BY <1>2, NextLines
<1>4. ASSUME NEW k \in 1 .. n PROVE block[k] \in Rows
  <2>1. at.o + k \in Nat /\ at.d + k \in Nat
    BY <1>3
  <2> QED BY <1>3, <2>1, RowIs
<1>5. block \in Seq(Rows) /\ Len(block) = n
  BY <1>2, <1>4, SequenceOf
<1>6. ShowsLines(block, "origin_num", "origin_content", origin, at.o, n)
  BY <1>2, <1>3, <1>5 DEF ShowsLines, Row
<1>7. ShowsLines(block, "dest_num", "dest_content", dest, at.d, n)
  <2>1. ASSUME NEW k \in 1 .. n
        PROVE  block[k]["dest_num"] = at.d + k /\ block[k]["dest_content"] = dest[at.d + k]
    BY <1>1, <1>3 DEF Row
  <2> HIDE DEF block
  <2> QED BY <1>2, <1>3, <1>5, <2>1 DEF ShowsLines
<1>8. rows' = rows \o block /\ Len(block) <= n
  BY <1>1, <1>2, <1>5
<1> HIDE DEF block
<1> QED
  BY <1>1, <1>2, <1>5, <1>6, <1>7, <1>8, BlockAdded

\* A deletion: the lines of the other side stay where they are.
LEMMA DeleteKeeps ==
  ASSUME TableInv, SidesAreWhole, pc \in {"lines", "chunk"},
         AppendDelete, UNCHANGED <<origin, dest, pc, chunk, page>>
  PROVE  SideInv'
<1>1. PICK n \in 1 .. MaxLines :
        /\ Opcode("delete", n, 0)
        /\ rows' = rows \o [k \in 1 .. n |->
               Row(num.o + k - 1, origin[at.o + k], 0, Blank, "delete")]
        /\ Number(n, 0)
  BY DEF AppendDelete
<1> DEFINE block == [k \in 1 .. n |->
               Row(num.o + k - 1, origin[at.o + k], 0, Blank, "delete")]
<1>2. n \in Nat /\ at.o + n <= Limit.o /\ at.d + 0 <= Limit.d
      /\ at' = Pair(at.o + n, at.d + 0)
  BY <1>1, SideConstants DEF Opcode
<1>3. /\ at.o \in Nat /\ at.d \in Nat
      /\ \A k \in 1 .. n : origin[at.o + k] \in Lines /\ num.o + k - 1 = at.o + k
  BY <1>2, NextLines
<1>4. ASSUME NEW k \in 1 .. n PROVE block[k] \in Rows
  <2>1. at.o + k \in Nat
    BY <1>3
  <2> QED BY <1>3, <2>1, RowIs
<1>5. block \in Seq(Rows) /\ Len(block) = n
  BY <1>2, <1>4, SequenceOf
<1>6. ShowsLines(block, "origin_num", "origin_content", origin, at.o, n)
  BY <1>2, <1>3, <1>5 DEF ShowsLines, Row
<1>7. ShowsLines(block, "dest_num", "dest_content", dest, at.d, 0)
  BY <1>2, <1>3, <1>5 DEF ShowsLines, Row
<1>8. rows' = rows \o block /\ Len(block) <= n
  BY <1>1, <1>2, <1>5
<1> HIDE DEF block
<1> QED
  BY <1>1, <1>2, <1>5, <1>6, <1>7, <1>8, BlockAdded

\* An insertion, likewise.
LEMMA InsertKeeps ==
  ASSUME TableInv, SidesAreWhole, pc \in {"lines", "chunk"},
         AppendInsert, UNCHANGED <<origin, dest, pc, chunk, page>>
  PROVE  SideInv'
<1>1. PICK m \in 1 .. MaxLines :
        /\ Opcode("insert", 0, m)
        /\ rows' = rows \o [k \in 1 .. m |->
               Row(0, Blank, num.d + k - 1, dest[at.d + k], "add")]
        /\ Number(0, m)
  BY DEF AppendInsert
<1> DEFINE block == [k \in 1 .. m |->
               Row(0, Blank, num.d + k - 1, dest[at.d + k], "add")]
<1>2. m \in Nat /\ at.o + 0 <= Limit.o /\ at.d + m <= Limit.d
      /\ at' = Pair(at.o + 0, at.d + m)
  BY <1>1, SideConstants DEF Opcode
<1>3. /\ at.o \in Nat /\ at.d \in Nat
      /\ \A k \in 1 .. m : dest[at.d + k] \in Lines /\ num.d + k - 1 = at.d + k
  BY <1>2, NextLines
<1>4. ASSUME NEW k \in 1 .. m PROVE block[k] \in Rows
  <2>1. at.d + k \in Nat
    BY <1>3
  <2> QED BY <1>3, <2>1, RowIs
<1>5. block \in Seq(Rows) /\ Len(block) = m
  BY <1>2, <1>4, SequenceOf
<1>6. ShowsLines(block, "origin_num", "origin_content", origin, at.o, 0)
  BY <1>2, <1>3, <1>5 DEF ShowsLines, Row
<1>7. ShowsLines(block, "dest_num", "dest_content", dest, at.d, m)
  BY <1>2, <1>3, <1>5 DEF ShowsLines, Row
<1>8. rows' = rows \o block /\ Len(block) <= m
  BY <1>1, <1>2, <1>5
<1> HIDE DEF block
<1> QED
  BY <1>1, <1>2, <1>5, <1>6, <1>7, <1>8, BlockAdded

\* The longer of two blocks.
LEMMA Longer ==
  ASSUME NEW n \in Nat, NEW m \in Nat
  PROVE  /\ Max({n, m}) \in Nat /\ n <= Max({n, m}) /\ m <= Max({n, m})
         /\ Max({n, m}) = n \/ Max({n, m}) = m
<1>1. \E x \in {n, m} : \A y \in {n, m} : x >= y
  <2>1. CASE n >= m
    BY <2>1
  <2>2. CASE ~(n >= m)
    BY <2>2
  <2> QED BY <2>1, <2>2
<1>2. Max({n, m}) \in {n, m} /\ \A y \in {n, m} : Max({n, m}) >= y
  BY <1>1 DEF Max
<1> QED
  BY <1>2

\* A replacement inside a replaced block: the rows pair the lines by position.
LEMMA ReplaceKeeps ==
  ASSUME TableInv, SidesAreWhole, ChunkReplace
  PROVE  SideInv'
<1>1. pc = "chunk" /\ UNCHANGED <<origin, dest, pc, chunk, page>>
  BY DEF ChunkReplace
<1>2. PICK n \in 1 .. MaxLines, m \in 1 .. MaxLines :
        Opcode("replace", n, m) /\ rows' = rows \o PairedRows(n, m) /\ Number(n, m)
  BY DEF ChunkReplace
<1> DEFINE block == PairedRows(n, m)
           L == Max({n, m})
<1>3. n \in Nat /\ m \in Nat /\ at.o + n <= Limit.o /\ at.d + m <= Limit.d
      /\ at' = Pair(at.o + n, at.d + m)
  BY <1>2, SideConstants DEF Opcode
<1>4. L \in Nat /\ n <= L /\ m <= L /\ (L = n \/ L = m)
  BY <1>3, Longer
<1>5. /\ at.o \in Nat /\ at.d \in Nat
      /\ \A k \in 1 .. n : origin[at.o + k] \in Lines /\ num.o + k - 1 = at.o + k
      /\ \A k \in 1 .. m : dest[at.d + k] \in Lines /\ num.d + k - 1 = at.d + k
  BY <1>1, <1>3, NextLines
<1> HIDE DEF L
<1>6. DOMAIN block = 1 .. L /\ block = [k \in 1 .. L |-> block[k]]
  BY DEF PairedRows, L
<1>7. ASSUME NEW k \in 1 .. L
      PROVE  block[k] =
        IF k <= n /\ k <= m
        THEN Row(num.o + k - 1, origin[at.o + k], num.d + k - 1, dest[at.d + k], "replace")
        ELSE IF k <= n THEN Row(num.o + k - 1, origin[at.o + k], 0, Blank, "delete")
        ELSE Row(0, Blank, num.d + k - 1, dest[at.d + k], "add")
  BY DEF PairedRows, L
<1> HIDE DEF block
<1>8. ASSUME NEW k \in 1 .. L
      PROVE  /\ block[k] \in Rows
             /\ block[k]["origin_num"] = IF k <= n THEN at.o + k ELSE 0
             /\ k <= n => block[k]["origin_content"] = origin[at.o + k]
             /\ block[k]["dest_num"] = IF k <= m THEN at.d + k ELSE 0
             /\ k <= m => block[k]["dest_content"] = dest[at.d + k]
  <2>1. CASE k <= n /\ k <= m
    <3>1. block[k] = Row(at.o + k, origin[at.o + k], at.d + k, dest[at.d + k], "replace")
      BY <1>3, <1>4, <1>5, <1>7, <2>1
    <3>2. at.o + k \in Nat /\ at.d + k \in Nat
          /\ origin[at.o + k] \in Lines /\ dest[at.d + k] \in Lines
      BY <1>3, <1>4, <1>5, <2>1
    <3>3. block[k] \in Rows
      BY <3>1, <3>2, RowIs
    <3> QED BY <2>1, <3>1, <3>3 DEF Row
  <2>2. CASE k <= n /\ ~(k <= m)
    <3>1. block[k] = Row(at.o + k, origin[at.o + k], 0, Blank, "delete")
      BY <1>3, <1>4, <1>5, <1>7, <2>2
    <3>2. at.o + k \in Nat /\ origin[at.o + k] \in Lines
      BY <1>3, <1>4, <1>5, <2>2
    <3>3. block[k] \in Rows
      BY <3>1, <3>2, RowIs
    <3> QED BY <2>2, <3>1, <3>3 DEF Row
  <2>3. CASE ~(k <= n)
    <3>0. k \in 1 .. m
      BY <1>3, <1>4, <2>3
    <3>1. block[k] = Row(0, Blank, at.d + k, dest[at.d + k], "add")
      BY <1>3, <1>4, <1>5, <1>7, <2>3, <3>0
    <3>2. at.d + k \in Nat /\ dest[at.d + k] \in Lines
      BY <1>3, <1>5, <3>0
    <3>3. block[k] \in Rows
      BY <3>1, <3>2, RowIs
    <3> QED BY <1>3, <2>3, <3>0, <3>1, <3>3 DEF Row
  <2> QED BY <2>1, <2>2, <2>3
<1>9. block \in Seq(Rows) /\ Len(block) = L
  BY <1>4, <1>6, <1>8, SequenceOf
<1>10. ShowsLines(block, "origin_num", "origin_content", origin, at.o, n)
  BY <1>3, <1>4, <1>8, <1>9 DEF ShowsLines
<1>11. ShowsLines(block, "dest_num", "dest_content", dest, at.d, m)
  BY <1>3, <1>4, <1>8, <1>9 DEF ShowsLines
<1>12. (Len(block) <= n \/ Len(block) <= m) /\ pc \in {"lines", "chunk"}
  BY <1>1, <1>3, <1>4, <1>9
<1>13. rows' = rows \o block
  BY <1>2 DEF block
<1> QED
  BY <1>1, <1>2, <1>3, <1>9, <1>10, <1>11, <1>12, <1>13, BlockAdded
\* A replaced block goes to a matcher of its own, and comes back when it is covered.
LEMMA BlockEnds ==
  ASSUME SideInv, LineReplace \/ ChunkDone
  PROVE  SideInv'
<1>1. UNCHANGED <<origin, dest, at, num, rows>> /\ pc' \in {"lines", "chunk"}
  BY DEF LineReplace, ChunkDone
<1>2. /\ chunk' \in [o : Nat, d : Nat]
      /\ pc' = "chunk" => /\ at'.o <= chunk'.o /\ chunk'.o <= Len(origin)
                          /\ at'.d <= chunk'.d /\ chunk'.d <= Len(dest)
  <2>1. CASE LineReplace
    <3>1. PICK n \in 1 .. MaxLines, m \in 1 .. MaxLines :
            at.o + n <= Len(origin) /\ at.d + m <= Len(dest)
            /\ chunk' = Pair(at.o + n, at.d + m)
      BY <2>1 DEF LineReplace
    <3>2. n \in Nat /\ m \in Nat /\ at.o \in Nat /\ at.d \in Nat /\ at' = at
      BY <1>1, SideConstants DEF SideInv, TableInv
    <3>3. at.o + n \in Nat /\ at.d + m \in Nat /\ at.o <= at.o + n /\ at.d <= at.d + m
      BY <3>2
    <3>4. chunk'.o = at.o + n /\ chunk'.d = at.d + m
      BY <3>1 DEF Pair
    <3>5. chunk' \in [o : Nat, d : Nat]
      BY <3>1, <3>3 DEF Pair
    <3> QED BY <3>1, <3>2, <3>3, <3>4, <3>5
  <2>2. CASE ChunkDone
    BY <2>2 DEF ChunkDone, SideInv, TableInv
  <2> QED BY <2>1, <2>2
<1>3. TableInv'
  <2> HIDE DEF Rows
  <2> QED BY <1>1, <1>2 DEF SideInv, TableInv
<1>4. SidesAreWhole'
  BY <1>1 DEF SideInv, SidesAreWhole
<1> QED
  BY <1>1, <1>3, <1>4 DEF SideInv, TableShown

\* The table is shown, whole or in context mode.
LEMMA TableIsShown ==
  ASSUME SideInv, ShowFull \/ ShowContext
  PROVE  SideInv'
<1>1. UNCHANGED <<origin, dest, at, chunk, num, rows>> /\ pc' = "shown"
  BY DEF ShowFull, ShowContext
<1>2. TableInv'
  <2> HIDE DEF Rows
  <2> QED BY <1>1 DEF SideInv, TableInv
<1>3. SidesAreWhole'
  BY <1>1 DEF SideInv, SidesAreWhole
<1>4. /\ rows \in Seq(Rows) /\ AllDifferent(rows) /\ Omitted \notin Rows
      /\ Changed \in SUBSET (1 .. Len(rows)) /\ Changed' = Changed
      /\ Len(rows) \in Nat /\ DOMAIN rows = 1 .. Len(rows)
  <2>1. rows \in Seq(Rows) /\ AllDifferent(rows) /\ Omitted \notin Rows
    BY RowsDiffer, SideConstants DEF SideInv, TableInv
  <2> QED BY <1>1, <2>1 DEF Changed
<1>5. context' \in Nat /\ Page(rows, Changed, context', output')
  <2>1. CASE ShowFull
    <3>1. output' = rows /\ context' = Len(rows)
      BY <2>1 DEF ShowFull
    <3>2. GapsAreMarked(rows, rows)
      BY <1>4, WholePage
    <3>3. ASSUME NEW i \in DOMAIN rows
          PROVE  /\ rows[i] \in Range(rows)
                 /\ Changed = {} \/ \E j \in Changed : i - j \in -Len(rows) .. Len(rows)
      <4>1. rows[i] \in Range(rows)
        BY DEF Range
      <4>2. ASSUME NEW j \in Changed PROVE i - j \in -Len(rows) .. Len(rows)
        BY <1>4
      <4> QED BY <4>1, <4>2
    <3> QED BY <1>4, <3>1, <3>2, <3>3 DEF Page
  <2>2. CASE ShowContext
    <3>1. context' \in 0 .. MaxContext /\ output' = ApplyContext(rows, Changed, context')
      BY <2>2 DEF ShowContext
    <3>2. context' \in Nat
      BY <3>1, SideConstants
    <3> QED BY <1>4, <3>1, <3>2, ContextPage
  <2> QED BY <2>1, <2>2
<1>6. TableShown'
  BY <1>1, <1>4, <1>5 DEF TableShown
<1> QED
  BY <1>2, <1>3, <1>6 DEF SideInv

\* An empty table carries nothing yet.
LEMMA SideStart ==
  ASSUME SideInit
  PROVE  SideInv
<1>1. origin \in Seq(Lines) /\ dest \in Seq(Lines)
  BY SideConstants DEF SideInit, BoundedSeq, SeqOf
<1>2. rows = <<>> /\ at = Pair(0, 0) /\ chunk = Pair(0, 0) /\ num = Pair(1, 1) /\ pc = "lines"
  BY DEF SideInit
<1>3. at.o = 0 /\ at.d = 0
      /\ at \in [o : Nat, d : Nat] /\ chunk \in [o : Nat, d : Nat] /\ num = Pair(at.o + 1, at.d + 1)
  BY <1>2 DEF Pair
<1>4. rows \in Seq(Rows) /\ DOMAIN rows = {}
  <2> HIDE DEF Rows
  <2> QED BY <1>2
<1>5. TableInv
  BY <1>1, <1>2, <1>3, <1>4 DEF TableInv
<1>6. SidesAreWhole
  BY <1>3, <1>4 DEF SidesAreWhole, Carries
<1> QED
  BY <1>2, <1>5, <1>6 DEF SideInv, TableShown

\* Every step of the side-by-side view.
LEMMA SideStep ==
  ASSUME SideInv, SideNext
  PROVE  SideInv'
<1>1. TableInv /\ SidesAreWhole
  BY DEF SideInv
<1>2. CASE LineEqual \/ ChunkEqual
  BY <1>1, <1>2, EqualKeeps DEF LineEqual, ChunkEqual
<1>3. CASE LineDelete \/ ChunkDelete
  BY <1>1, <1>3, DeleteKeeps DEF LineDelete, ChunkDelete
<1>4. CASE LineInsert \/ ChunkInsert
  BY <1>1, <1>4, InsertKeeps DEF LineInsert, ChunkInsert
<1>5. CASE ChunkReplace
  BY <1>1, <1>5, ReplaceKeeps
<1>6. CASE LineReplace \/ ChunkDone
  BY <1>6, BlockEnds
<1>7. CASE ShowFull \/ ShowContext
  BY <1>7, TableIsShown
<1> QED
  BY <1>2, <1>3, <1>4, <1>5, <1>6, <1>7 DEF SideNext
-----------------------------------------------------------------------------
(* The inline view                                                          *)

Segments == [op : Operations, text : Seq(Characters)]
HtmlPieces == {"char", "break", "changed", "open", "close"}

\* One sequence after another.
LEMMA Joined ==
  ASSUME NEW S, NEW a \in Seq(S), NEW b \in Seq(S), NEW joined, joined = a \o b
  PROVE  /\ joined \in Seq(S) /\ Len(joined) = Len(a) + Len(b)
         /\ \A i \in 1 .. Len(a) : joined[i] = a[i]
         /\ \A i \in 1 .. Len(b) : joined[Len(a) + i] = b[i]
  OBVIOUS

\* A text between two marks.
LEMMA Bracketed ==
  ASSUME NEW S, NEW a \in S, NEW text \in Seq(S), NEW z \in S
  PROVE  LET h == <<a>> \o text \o <<z>> IN
         /\ h \in Seq(S) /\ Len(h) = Len(text) + 2
         /\ h[1] = a /\ h[Len(text) + 2] = z
         /\ \A c \in 1 .. Len(text) : h[c + 1] = text[c]
<1> DEFINE open == <<a>>
           close == <<z>>
           body == open \o text
           h == body \o close
           L == Len(text)
<1>1. Len(open) = 1 /\ open[1] = a /\ Len(close) = 1 /\ close[1] = z /\ L \in Nat
  OBVIOUS
<1>2. open \in Seq(S) /\ close \in Seq(S)
  OBVIOUS
<1>3. body = open \o text /\ h = body \o close
  OBVIOUS
<1> HIDE DEF open, close, body, h, L
<1>4. /\ body \in Seq(S) /\ Len(body) = Len(open) + L
      /\ \A i \in 1 .. Len(open) : body[i] = open[i]
      /\ \A i \in 1 .. L : body[Len(open) + i] = text[i]
  BY <1>3, <1>2, Joined DEF L
<1>5. /\ h \in Seq(S) /\ Len(h) = Len(body) + Len(close)
      /\ \A i \in 1 .. Len(body) : h[i] = body[i]
      /\ \A i \in 1 .. Len(close) : h[Len(body) + i] = close[i]
  BY <1>3, <1>4, <1>2, Joined
<1>6. Len(h) = L + 2 /\ h[L + 2] = z
  <2>1. 1 \in 1 .. 1 /\ (1 + L) + 1 = L + 2
    BY <1>1
  <2> QED BY <1>1, <1>4, <1>5, <2>1
<1>7. h[1] = a
  <2>1. 1 \in 1 .. 1 /\ 1 \in 1 .. 1 + L
    BY <1>1
  <2> QED BY <1>1, <1>4, <1>5, <2>1
<1>8. ASSUME NEW c \in 1 .. L PROVE h[c + 1] = text[c]
  <2>1. 1 + c \in 1 .. 1 + L /\ c + 1 = 1 + c
    BY <1>1
  <2> QED BY <1>1, <1>4, <1>5, <2>1
<1> QED
  BY <1>5, <1>6, <1>7, <1>8 DEF h, body, open, close, L

\* How far the text of a segment is moved by the tag that opens before it.
Opens(segment) == IF segment.op = 0 THEN 0 ELSE 1

\* The rendering of a segment breaks lines where its text does, and a segment that
\* is not equal begins with its tag.
LEMMA HtmlBreaks ==
  ASSUME NEW segment \in Segments
  PROVE  /\ Html(segment) \in Seq(HtmlPieces)
         /\ {q \in 1 .. Len(Html(segment)) : Html(segment)[q] = "break"}
              = {Opens(segment) + c : c \in {d \in DOMAIN segment.text : segment.text[d] = "break"}}
         /\ segment.op # 0 => 1 <= Len(Html(segment)) /\ Html(segment)[1] = "open"
<1> DEFINE text == segment.text
           L == Len(text)
<1>1. /\ text \in Seq(Characters) /\ L \in Nat /\ DOMAIN text = 1 .. L
      /\ \A c \in 1 .. L : text[c] \in {"char", "break"}
  BY ElementOfSeq DEF Segments, Characters
<1>2. CASE segment.op = 0
  <2>1. Html(segment) = text /\ Opens(segment) = 0
    BY <1>2 DEF Html, Opens
  <2> HIDE DEF text, L
  <2>2. text \in [1 .. L -> HtmlPieces]
    <3>1. text = [c \in 1 .. L |-> text[c]]
      BY <1>1
    <3> QED BY <1>1, <3>1 DEF HtmlPieces
  <2>3. text \in Seq(HtmlPieces)
    BY <1>1, <2>2, SequenceOf
  <2>4. {q \in 1 .. L : text[q] = "break"} = {0 + c : c \in {d \in 1 .. L : text[d] = "break"}}
    BY <1>1
  <2> QED BY <1>1, <1>2, <2>1, <2>3, <2>4 DEF text, L
<1>3. CASE segment.op # 0
  <2> DEFINE changed == ReplaceAll(text, "char", "changed")
             h == Html(segment)
  <2>1. /\ changed \in [1 .. L -> HtmlPieces]
        /\ \A c \in 1 .. L : changed[c] = "break" <=> text[c] = "break"
    BY <1>1 DEF ReplaceAll, HtmlPieces
  <2>2. h = <<"open">> \o changed \o <<"close">> /\ Opens(segment) = 1
    BY <1>3 DEF Html, Opens
  <2> HIDE DEF text, L, changed, h
  <2>3. changed \in Seq(HtmlPieces) /\ Len(changed) = L
    BY <1>1, <2>1, SequenceOf
  <2>4. /\ h \in Seq(HtmlPieces) /\ Len(h) = L + 2
        /\ h[1] = "open" /\ h[L + 2] = "close"
        /\ \A c \in 1 .. L : h[c + 1] = changed[c]
    <3>1. "open" \in HtmlPieces /\ "close" \in HtmlPieces
      BY DEF HtmlPieces
    <3> QED BY <2>2, <2>3, <3>1, Bracketed
  <2>5. ASSUME NEW q \in 1 .. L + 2, h[q] = "break"
        PROVE  q - 1 \in 1 .. L /\ text[q - 1] = "break" /\ q = 1 + (q - 1)
    <3>1. q # 1 /\ q # L + 2
      BY <2>4, <2>5
    <3>2. q - 1 \in 1 .. L /\ q = (q - 1) + 1
      BY <1>1, <3>1
    <3>3. changed[q - 1] = "break"
      BY <2>4, <2>5, <3>2
    <3> QED BY <2>1, <3>2, <3>3
  <2>6. ASSUME NEW c \in 1 .. L, text[c] = "break"
        PROVE  1 + c \in 1 .. L + 2 /\ h[1 + c] = "break"
    <3>1. 1 + c \in 1 .. L + 2 /\ 1 + c = c + 1
      BY <1>1
    <3> QED BY <2>1, <2>4, <2>6, <3>1
  <2>7. {q \in 1 .. L + 2 : h[q] = "break"} = {1 + c : c \in {d \in 1 .. L : text[d] = "break"}}
    BY <2>5, <2>6
  <2>8. 1 <= L + 2
    BY <1>1
  <2>9. {q \in 1 .. Len(h) : h[q] = "break"}
          = {Opens(segment) + c : c \in {d \in DOMAIN text : text[d] = "break"}}
    <3>1. Len(h) = L + 2 /\ DOMAIN text = 1 .. L /\ Opens(segment) = 1
      BY <1>1, <2>2, <2>4
    <3> QED BY <2>7, <3>1, Zenon
  <2>10. h \in Seq(HtmlPieces) /\ 1 <= Len(h) /\ h[1] = "open"
    BY <2>4, <2>8
  <2> QED BY <2>9, <2>10 DEF text, h
<1> QED
  BY <1>2, <1>3
\* Breaks of a text, of the segments up to n, and of a concatenation.
TextBreaks(text) == {c \in DOMAIN text : text[c] = "break"}
Breaks(n) ==
    {b \in (1 .. n) \X (1 .. MaxChars) :
        b[2] \in DOMAIN segments[b[1]].text /\ segments[b[1]].text[b[2]] = "break"}

\* The types that the steps preserve, and the page of context mode.
InlineInv ==
    /\ stage \in {"diff", "full", "context"}
    /\ segments \in Seq(Segments)
    /\ \A s \in DOMAIN segments : Len(segments[s].text) <= MaxChars
    /\ stage = "context" =>
          /\ context \in Nat
          /\ output = ApplyContext(HtmlLines, TaggedLines(HtmlLines), context)

\* One more segment adds the breaks of its text.
LEMMA BreaksAdded ==
  ASSUME InlineInv, NEW n \in Nat, n + 1 \in DOMAIN segments
  PROVE  LET text == segments[n + 1].text IN
         Breaks(n + 1) = Breaks(n) \cup {<<n + 1, c>> : c \in TextBreaks(text)}
<1> DEFINE text == segments[n + 1].text
<1>1. DOMAIN text \subseteq 1 .. MaxChars
  <2>1. segments[n + 1] \in Segments
    BY ElementOfSeq DEF InlineInv
  <2>2. text \in Seq(Characters) /\ Len(text) <= MaxChars /\ MaxChars \in Nat
    BY <2>1, InlineDiffAssumption DEF InlineInv, Segments
  <2> HIDE DEF text
  <2> QED BY <2>2
<1>2. ASSUME NEW b \in Breaks(n + 1) PROVE b \in Breaks(n) \cup {<<n + 1, c>> : c \in TextBreaks(text)}
  <2>1. b \in (1 .. n + 1) \X (1 .. MaxChars) /\ b = <<b[1], b[2]>>
        /\ b[2] \in DOMAIN segments[b[1]].text /\ segments[b[1]].text[b[2]] = "break"
    BY DEF Breaks
  <2>2. CASE b[1] = n + 1
    <3>1. b[2] \in TextBreaks(text) /\ b = <<n + 1, b[2]>>
      BY <2>1, <2>2 DEF TextBreaks
    <3> QED BY <3>1
  <2>3. CASE b[1] # n + 1
    <3>1. b[1] \in 1 .. n /\ b[2] \in 1 .. MaxChars
      BY <2>1, <2>3
    <3> QED BY <2>1, <3>1 DEF Breaks
  <2> QED BY <2>2, <2>3
<1>3. ASSUME NEW b \in Breaks(n) PROVE b \in Breaks(n + 1)
  BY DEF Breaks
<1>4. ASSUME NEW c \in TextBreaks(text) PROVE <<n + 1, c>> \in Breaks(n + 1)
  <2>1. c \in 1 .. MaxChars /\ n + 1 \in 1 .. n + 1
    BY <1>1 DEF TextBreaks
  <2> QED BY <2>1 DEF Breaks, TextBreaks
<1> QED
  BY <1>2, <1>3, <1>4

\* Two sets with a bijection between them are counted alike: the positions of a
\* text marked with their segment, and the positions moved on.
LEMMA PairsCounted ==
  ASSUME NEW s, NEW T, IsFiniteSet(T)
  PROVE  LET A == {<<s, c>> : c \in T} IN IsFiniteSet(A) /\ Cardinality(A) = Cardinality(T)
<1> DEFINE A == {<<s, c>> : c \in T}
           f == [c \in T |-> <<s, c>>]
<1>1. f \in [T -> A] /\ (\A a \in A : \E c \in T : f[c] = a)
  OBVIOUS
<1>2. \A c, d \in T : f[c] = f[d] => c = d
  OBVIOUS
<1> HIDE DEF f, A
<1>3. ExistsBijection(T, A)
  BY <1>1, <1>2 DEF ExistsBijection, Bijection, Injection, IsInjective, Surjection
<1>4. IsFiniteSet(A) /\ Cardinality(A) = Cardinality(T)
  BY <1>3, FS_Bijection
<1> QED
  BY <1>4 DEF A

\* Numbers all moved on by the same amount are as many as before: the breaks of a
\* segment, counted behind those of the segments before it.
LEMMA ShiftedCounted ==
  ASSUME NEW l \in Nat, NEW T \in SUBSET Nat, IsFiniteSet(T)
  PROVE  LET B == {l + c : c \in T} IN IsFiniteSet(B) /\ Cardinality(B) = Cardinality(T)
<1> DEFINE B == {l + c : c \in T}
           g == [c \in T |-> l + c]
<1>1. g \in [T -> B] /\ (\A b \in B : \E c \in T : g[c] = b)
  OBVIOUS
<1>2. \A c, d \in T : g[c] = g[d] => c = d
  <2>1. ASSUME NEW c \in T, NEW d \in T, l + c = l + d PROVE c = d
    <3>1. c \in Nat /\ d \in Nat
      OBVIOUS
    <3> QED BY <2>1, <3>1
  <2> QED BY <2>1
<1> HIDE DEF g, B
<1>3. ExistsBijection(T, B)
  BY <1>1, <1>2 DEF ExistsBijection, Bijection, Injection, IsInjective, Surjection
<1>4. IsFiniteSet(B) /\ Cardinality(B) = Cardinality(T)
  BY <1>3, FS_Bijection
<1> QED
  BY <1>4 DEF B

\* Two disjoint sets are counted apart.
LEMMA CountedApart ==
  ASSUME NEW A, NEW B, IsFiniteSet(A), IsFiniteSet(B), A \cap B = {}
  PROVE  IsFiniteSet(A \cup B) /\ Cardinality(A \cup B) = Cardinality(A) + Cardinality(B)
<1>1. Cardinality(A \cap B) = 0
  BY FS_EmptySet
<1>2. Cardinality(A) \in Nat /\ Cardinality(B) \in Nat
  BY FS_CardinalityType
<1>3. IsFiniteSet(A \cup B)
      /\ Cardinality(A \cup B) = Cardinality(A) + Cardinality(B) - Cardinality(A \cap B)
  BY FS_Union
<1>4. \A x, y \in Nat : x + y - 0 = x + y
  OBVIOUS
<1> QED
  BY <1>1, <1>2, <1>3, <1>4

\* The breaks of a sequence are finitely many positions.
LEMMA BreaksFinite ==
  ASSUME NEW S, NEW a \in Seq(S)
  PROVE  TextBreaks(a) \in SUBSET (1 .. Len(a)) /\ TextBreaks(a) \in SUBSET Nat
         /\ IsFiniteSet(TextBreaks(a)) /\ Cardinality(TextBreaks(a)) \in Nat
<1>1. DOMAIN a = 1 .. Len(a) /\ Len(a) \in Nat
  OBVIOUS
<1>2. TextBreaks(a) \in SUBSET (1 .. Len(a)) /\ TextBreaks(a) \in SUBSET Nat
  BY <1>1 DEF TextBreaks
<1>3. IsFiniteSet(1 .. Len(a))
  BY <1>1, FS_Interval
<1>4. IsFiniteSet(TextBreaks(a))
  BY <1>2, <1>3, FS_Subset
<1> QED
  BY <1>2, <1>4, FS_CardinalityType

\* The breaks of one sequence after another are those of both.
LEMMA BreaksJoined ==
  ASSUME NEW S, NEW a \in Seq(S), NEW b \in Seq(S), NEW joined, joined = a \o b
  PROVE  /\ IsFiniteSet(TextBreaks(joined))
         /\ Cardinality(TextBreaks(joined)) = Cardinality(TextBreaks(a)) + Cardinality(TextBreaks(b))
<1> DEFINE A == TextBreaks(a)
           T == TextBreaks(b)
           B == {Len(a) + c : c \in T}
<1>1. /\ joined \in Seq(S) /\ Len(joined) = Len(a) + Len(b)
      /\ \A i \in 1 .. Len(a) : joined[i] = a[i]
      /\ \A i \in 1 .. Len(b) : joined[Len(a) + i] = b[i]
  BY Joined
<1>2. /\ Len(a) \in Nat /\ Len(b) \in Nat
      /\ DOMAIN a = 1 .. Len(a) /\ DOMAIN b = 1 .. Len(b) /\ DOMAIN joined = 1 .. Len(a) + Len(b)
  <2>1. DOMAIN joined = 1 .. Len(joined)
    BY <1>1
  <2> QED BY <1>1, <2>1
<1>3. TextBreaks(joined) = A \cup B
  <2>1. ASSUME NEW i \in TextBreaks(joined) PROVE i \in A \cup B
    <3>1. i \in 1 .. Len(a) + Len(b) /\ joined[i] = "break"
      BY <1>2 DEF TextBreaks
    <3>2. CASE i <= Len(a)
      <4>1. i \in 1 .. Len(a)
        BY <1>2, <3>1, <3>2
      <4> QED BY <1>1, <1>2, <3>1, <4>1 DEF TextBreaks
    <3>3. CASE ~(i <= Len(a))
      <4> DEFINE c == i - Len(a)
      <4>1. c \in 1 .. Len(b) /\ i = Len(a) + c
        BY <1>2, <3>1, <3>3
      <4> HIDE DEF c
      <4>2. c \in T
        BY <1>1, <1>2, <3>1, <4>1 DEF TextBreaks
      <4> QED BY <4>1, <4>2
    <3> QED BY <3>2, <3>3
  <2>2. ASSUME NEW i \in A PROVE i \in TextBreaks(joined)
    <3>1. i \in 1 .. Len(a) /\ a[i] = "break" /\ i \in 1 .. Len(a) + Len(b)
      BY <1>2 DEF TextBreaks
    <3> QED BY <1>1, <1>2, <3>1 DEF TextBreaks
  <2>3. ASSUME NEW c \in T PROVE Len(a) + c \in TextBreaks(joined)
    <3>1. c \in 1 .. Len(b) /\ b[c] = "break" /\ Len(a) + c \in 1 .. Len(a) + Len(b)
      BY <1>2 DEF TextBreaks
    <3> QED BY <1>1, <1>2, <3>1 DEF TextBreaks
  <2> HIDE DEF A, T
  <2> QED BY <2>1, <2>2, <2>3
<1>4. A \in SUBSET (1 .. Len(a)) /\ T \in SUBSET Nat /\ T \in SUBSET (1 .. Len(b))
      /\ IsFiniteSet(A) /\ IsFiniteSet(T)
  BY BreaksFinite
<1> HIDE DEF A, T
<1>5. A \cap B = {}
  <2>1. ASSUME NEW c \in T PROVE Len(a) + c \notin 1 .. Len(a)
    BY <1>2, <1>4
  <2> QED BY <1>4, <2>1
<1>6. IsFiniteSet(B) /\ Cardinality(B) = Cardinality(T)
  BY <1>2, <1>4, ShiftedCounted
<1> HIDE DEF B
<1>7. IsFiniteSet(A \cup B) /\ Cardinality(A \cup B) = Cardinality(A) + Cardinality(T)
  BY <1>4, <1>5, <1>6, CountedApart
<1> QED
  BY <1>3, <1>7 DEF A, T

\* A segment and its rendering have as many breaks.
LEMMA HtmlCount ==
  ASSUME NEW segment \in Segments
  PROVE  /\ Html(segment) \in Seq(HtmlPieces)
         /\ IsFiniteSet(TextBreaks(segment.text))
         /\ Cardinality(TextBreaks(Html(segment))) = Cardinality(TextBreaks(segment.text))
<1> DEFINE h == Html(segment)
           T == TextBreaks(segment.text)
           l == Opens(segment)
<1>1. h \in Seq(HtmlPieces) /\ DOMAIN h = 1 .. Len(h)
  BY HtmlBreaks
<1>2. TextBreaks(h) = {l + c : c \in T}
  BY <1>1, HtmlBreaks DEF TextBreaks
<1>3. segment.text \in Seq(Characters)
  BY DEF Segments
<1>4. IsFiniteSet(T) /\ T \in SUBSET Nat
  BY <1>3, BreaksFinite
<1>5. l \in Nat
  BY DEF Opens
<1> HIDE DEF h, T, l
<1>6. Cardinality({l + c : c \in T}) = Cardinality(T)
  BY <1>4, <1>5, ShiftedCounted
<1> QED
  BY <1>1, <1>2, <1>4, <1>6 DEF h, T

\* One more segment, counted.
LEMMA BreaksCounted ==
  ASSUME InlineInv, NEW n \in Nat, n + 1 \in DOMAIN segments, IsFiniteSet(Breaks(n))
  PROVE  /\ IsFiniteSet(Breaks(n + 1))
         /\ Cardinality(Breaks(n + 1))
              = Cardinality(Breaks(n)) + Cardinality(TextBreaks(segments[n + 1].text))
<1> DEFINE T == TextBreaks(segments[n + 1].text)
           A == {<<n + 1, c>> : c \in T}
<1>1. segments[n + 1] \in Segments
  BY ElementOfSeq DEF InlineInv
<1>2. segments[n + 1].text \in Seq(Characters)
  BY <1>1 DEF Segments
<1>3. IsFiniteSet(T) /\ T \in SUBSET Nat
  BY <1>2, BreaksFinite
<1>4. Breaks(n + 1) = Breaks(n) \cup A
  BY BreaksAdded
<1>5. Breaks(n) \cap A = {}
  <2>1. ASSUME NEW b \in Breaks(n) PROVE b \notin A
    <3>1. b[1] \in 1 .. n /\ n + 1 \notin 1 .. n
      BY DEF Breaks
    <3> QED BY <3>1
  <2> QED BY <2>1
<1> HIDE DEF T
<1>6. IsFiniteSet(A) /\ Cardinality(A) = Cardinality(T)
  BY <1>3, PairsCounted
<1> HIDE DEF A
<1> QED
  BY <1>4, <1>5, <1>6, CountedApart DEF T

\* One sequence begins with another.
BeginsWith(seq, start) ==
    Len(start) <= Len(seq) /\ \A q \in 1 .. Len(start) : seq[q] = start[q]

\* What begins with a begins with what a begins with.
LEMMA BeginsJoined ==
  ASSUME NEW S, NEW a \in Seq(S), NEW b \in Seq(S), NEW joined, joined = a \o b,
         NEW x \in Seq(S), BeginsWith(a, x)
  PROVE  BeginsWith(joined, x)
<1>1. Len(joined) = Len(a) + Len(b) /\ \A i \in 1 .. Len(a) : joined[i] = a[i]
  BY Joined
<1>2. Len(a) \in Nat /\ Len(b) \in Nat /\ Len(x) \in Nat
  BY LenProperties
<1>3. Len(x) <= Len(joined) /\ \A q \in 1 .. Len(x) : q \in 1 .. Len(a)
  BY <1>1, <1>2 DEF BeginsWith
<1> QED
  BY <1>1, <1>3 DEF BeginsWith

\* The concatenations of ever more sequences.
Concatenates(g, seqs, N, S) ==
    /\ g \in [0 .. N -> Seq(S)]
    /\ \A i \in 1 .. N : seqs[i] \in Seq(S) /\ g[i] = g[i - 1] \o seqs[i]

\* Every concatenation is a beginning of the last one.
LEMMA Beginnings ==
  ASSUME NEW S, NEW N \in Nat, NEW seqs, NEW g, Concatenates(g, seqs, N, S)
  PROVE  \A n \in 0 .. N : BeginsWith(g[N], g[n])
<1> DEFINE T == {m \in Nat : m <= N => \A n \in 0 .. m : BeginsWith(g[m], g[n])}
<1>1. \A i \in 0 .. N : g[i] \in Seq(S) /\ Len(g[i]) \in Nat
  <2>1. g \in [0 .. N -> Seq(S)]
    BY DEF Concatenates
  <2> QED BY <2>1, LenProperties
<1>2. 0 \in T
  <2>1. \A n \in 0 .. 0 : n = 0
    OBVIOUS
  <2>2. BeginsWith(g[0], g[0])
    BY <1>1 DEF BeginsWith
  <2> QED BY <2>1, <2>2
<1>3. ASSUME NEW m \in Nat, m \in T PROVE m + 1 \in T
  <2>1. SUFFICES ASSUME m + 1 <= N, NEW n \in 0 .. m + 1 PROVE BeginsWith(g[m + 1], g[n])
    BY <1>3
  <2>2. m \in 0 .. N /\ m + 1 \in 1 .. N /\ m + 1 \in 0 .. N /\ (m + 1) - 1 = m /\ m <= N
    BY <2>1
  <2>3. g[m + 1] = g[m] \o seqs[m + 1] /\ seqs[m + 1] \in Seq(S)
    BY <2>2 DEF Concatenates
  <2>4. g[m] \in Seq(S) /\ g[m + 1] \in Seq(S) /\ Len(g[m]) \in Nat /\ Len(seqs[m + 1]) \in Nat
    BY <1>1, <2>2, <2>3, LenProperties
  <2>6. CASE n = m + 1
    <3>1. BeginsWith(g[m + 1], g[m + 1])
      BY <1>1, <2>2 DEF BeginsWith
    <3> QED BY <2>6, <3>1
  <2>7. CASE n # m + 1
    <3>1. n \in 0 .. m
      BY <2>7
    <3>2. BeginsWith(g[m], g[n])
      BY <1>3, <2>2, <3>1
    <3>3. g[n] \in Seq(S)
      BY <1>1, <2>2, <3>1
    <3> DEFINE a == g[m]
               b == seqs[m + 1]
               joined == g[m + 1]
               x == g[n]
    <3>4. a \in Seq(S) /\ b \in Seq(S) /\ joined = a \o b /\ x \in Seq(S)
          /\ BeginsWith(a, x)
      BY <2>3, <2>4, <3>2, <3>3
    <3> HIDE DEF a, b, joined, x
    <3>5. BeginsWith(joined, x)
      BY <3>4, BeginsJoined
    <3> QED BY <3>5 DEF joined, x
  <2> QED BY <2>6, <2>7
<1> HIDE DEF T
<1>4. N \in T
  BY <1>2, <1>3, SetInduction
<1> QED
  BY <1>4 DEF T

\* The text that is cut into lines, and the line of a piece of it.
HtmlText == FlattenSeq([i \in DOMAIN segments |-> Html(segments[i])])
LineOf(html, p) == Cardinality({q \in 1 .. p - 1 : html[q] = "break"}) + 1

\* The renderings of the segments.
LEMMA HtmlIs ==
  ASSUME InlineInv
  PROVE  LET seqs == [i \in DOMAIN segments |-> Html(segments[i])]
             N == Len(segments)
         IN  /\ N \in Nat /\ DOMAIN segments = 1 .. N
             /\ seqs \in Seq(Seq(HtmlPieces)) /\ Len(seqs) = N
             /\ HtmlText \in Seq(HtmlPieces)
<1> DEFINE N == Len(segments)
           seqs == [i \in DOMAIN segments |-> Html(segments[i])]
<1>1. N \in Nat /\ DOMAIN segments = 1 .. N /\ \A i \in 1 .. N : segments[i] \in Segments
  BY ElementOfSeq DEF InlineInv
<1>2. seqs \in [1 .. N -> Seq(HtmlPieces)]
  BY <1>1, HtmlBreaks
<1> HIDE DEF seqs, N
<1>3. seqs \in Seq(Seq(HtmlPieces)) /\ Len(seqs) = N
  BY <1>1, <1>2, SequenceOf
<1>4. PICK g \in [0 .. N -> Seq(HtmlPieces)] : FlattenSeq(seqs) = g[N]
  BY <1>3, Flatten
<1>5. FlattenSeq(seqs) \in Seq(HtmlPieces)
  BY <1>1, <1>4
<1> QED
  BY <1>1, <1>3, <1>5 DEF seqs, N, HtmlText

\* A change begins on the line whose number counts the breaks before it.
LEMMA ChangeBegins ==
  ASSUME InlineInv, NEW s \in DOMAIN segments, segments[s].op # 0
  PROVE  \E q \in 1 .. Len(HtmlText) :
            HtmlText[q] = "open" /\ LineOf(HtmlText, q) = FirstLine(s)
<1> DEFINE N == Len(segments)
           seqs == [i \in DOMAIN segments |-> Html(segments[i])]
           html == FlattenSeq(seqs)
<1>1. /\ N \in Nat /\ DOMAIN segments = 1 .. N
      /\ \A i \in 1 .. N : segments[i] \in Segments
  BY ElementOfSeq DEF InlineInv
<1>2. ASSUME NEW i \in 1 .. N
      PROVE  /\ seqs[i] = Html(segments[i]) /\ seqs[i] \in Seq(HtmlPieces)
             /\ segments[i].op # 0 => 1 <= Len(seqs[i]) /\ seqs[i][1] = "open"
  <2>1. seqs[i] = Html(segments[i]) /\ segments[i] \in Segments
    BY <1>1
  <2> QED BY <2>1, HtmlBreaks
<1>3. seqs \in Seq(Seq(HtmlPieces)) /\ Len(seqs) = N
  BY HtmlIs
<1> HIDE DEF seqs, N
<1>4. PICK g \in [0 .. N -> Seq(HtmlPieces)] :
        /\ g[0] = <<>>
        /\ \A i \in 1 .. N : g[i] = g[i - 1] \o seqs[i]
        /\ html = g[N]
  BY <1>3, Flatten
<1> DEFINE Count(n) == /\ IsFiniteSet(TextBreaks(g[n])) /\ IsFiniteSet(Breaks(n))
                       /\ Cardinality(TextBreaks(g[n])) = Cardinality(Breaks(n))
           T == {n \in Nat : n <= N => Count(n)}
<1>5. 0 \in T
  <2>1. TextBreaks(g[0]) = {} /\ Breaks(0) = {}
    BY <1>4 DEF TextBreaks, Breaks
  <2> QED BY <2>1, FS_EmptySet
<1>6. ASSUME NEW n \in Nat, n \in T PROVE n + 1 \in T
  <2>1. SUFFICES ASSUME n + 1 <= N PROVE Count(n + 1)
    OBVIOUS
  <2>2. n \in 0 .. N /\ n + 1 \in 1 .. N /\ (n + 1) - 1 = n /\ Count(n)
    BY <1>1, <1>6, <2>1
  <2>3. g[n + 1] = g[n] \o seqs[n + 1] /\ g[n] \in Seq(HtmlPieces) /\ seqs[n + 1] \in Seq(HtmlPieces)
    BY <1>2, <1>4, <2>2
  <2>4. /\ IsFiniteSet(TextBreaks(g[n + 1]))
        /\ Cardinality(TextBreaks(g[n + 1]))
             = Cardinality(TextBreaks(g[n])) + Cardinality(TextBreaks(seqs[n + 1]))
    BY <2>3, BreaksJoined
  <2>5. Cardinality(TextBreaks(seqs[n + 1])) = Cardinality(TextBreaks(segments[n + 1].text))
    BY <1>1, <1>2, <2>2, HtmlCount
  <2>6. /\ IsFiniteSet(Breaks(n + 1))
        /\ Cardinality(Breaks(n + 1))
             = Cardinality(Breaks(n)) + Cardinality(TextBreaks(segments[n + 1].text))
    BY <1>1, <2>2, BreaksCounted
  <2> QED BY <2>2, <2>4, <2>5, <2>6
<1>7. Nat \subseteq T
  <2> HIDE DEF T
  <2> QED BY <1>5, <1>6, SetInduction
<1>8. s \in 1 .. N /\ s - 1 \in 0 .. N /\ s \in 0 .. N
  BY <1>1
<1> DEFINE before == g[s - 1]
           q == Len(before) + 1
<1>9. Count(s - 1)
  BY <1>1, <1>7, <1>8
<1>10. /\ before \in Seq(HtmlPieces) /\ Len(before) \in Nat
       /\ g[s] \in Seq(HtmlPieces) /\ Len(g[s]) \in Nat
       /\ html \in Seq(HtmlPieces) /\ Len(html) \in Nat
  <2>1. N \in 0 .. N
    BY <1>1
  <2> QED BY <1>4, <1>8, <2>1, LenProperties
<1>11. q <= Len(g[s]) /\ g[s][q] = "open"
  <2>1. g[s] = before \o seqs[s] /\ seqs[s] \in Seq(HtmlPieces)
    BY <1>2, <1>4, <1>8
  <2>2. 1 <= Len(seqs[s]) /\ seqs[s][1] = "open"
    BY <1>2, <1>8
  <2>3. Len(seqs[s]) \in Nat
    BY <2>1, LenProperties
  <2>4. Len(g[s]) = Len(before) + Len(seqs[s])
        /\ \A i \in 1 .. Len(seqs[s]) : g[s][Len(before) + i] = seqs[s][i]
    <3> HIDE DEF before
    <3> QED BY <1>10, <2>1, Joined
  <2>5. 1 \in 1 .. Len(seqs[s]) /\ q <= Len(g[s])
    BY <1>10, <2>2, <2>3, <2>4
  <2> QED BY <2>2, <2>4, <2>5
<1>12. /\ Len(before) <= Len(html) /\ \A r \in 1 .. Len(before) : html[r] = before[r]
       /\ Len(g[s]) <= Len(html) /\ \A r \in 1 .. Len(g[s]) : html[r] = g[s][r]
  <2>1. Concatenates(g, seqs, N, HtmlPieces)
    BY <1>2, <1>4 DEF Concatenates
  <2>2. \A n \in 0 .. N : BeginsWith(g[N], g[n])
    BY <1>1, <2>1, Beginnings
  <2>3. BeginsWith(html, before) /\ BeginsWith(html, g[s])
    <3> HIDE DEF html
    <3> QED BY <1>4, <1>8, <2>2
  <2> HIDE DEF html, before
  <2> QED BY <2>3 DEF BeginsWith
<1> HIDE DEF html, before
<1>13. q \in 1 .. Len(html) /\ q \in 1 .. Len(g[s]) /\ q - 1 = Len(before)
  BY <1>10, <1>11, <1>12
<1>14. html[q] = "open"
  BY <1>11, <1>12, <1>13
<1>15. {r \in 1 .. q - 1 : html[r] = "break"} = TextBreaks(before)
  <2>1. DOMAIN before = 1 .. Len(before)
    BY <1>10
  <2> QED BY <1>12, <1>13, <2>1 DEF TextBreaks
<1>16. BreaksBefore(s) = Breaks(s - 1)
  BY DEF BreaksBefore, Breaks
<1>17. Cardinality({r \in 1 .. q - 1 : html[r] = "break"}) = Cardinality(BreaksBefore(s))
  BY <1>9, <1>15, <1>16 DEF before
<1>18. Cardinality(BreaksBefore(s)) \in Nat
  BY <1>9, <1>16, FS_CardinalityType
<1>19. LineOf(html, q) = FirstLine(s)
  BY <1>17, <1>18 DEF LineOf, FirstLine
<1> HIDE DEF q
<1> QED
  BY <1>13, <1>14, <1>19 DEF html, seqs, HtmlText

\* The lines of the text are different, and numbered from 1.
LEMMA HtmlLinesAre ==
  ASSUME InlineInv
  PROVE  /\ HtmlLines \in Seq(HtmlRows) /\ AllDifferent(HtmlLines)
         /\ \A p \in 1 .. Len(HtmlText) :
               /\ LineOf(HtmlText, p) \in DOMAIN HtmlLines
               /\ HtmlText[p] = "open" => LineOf(HtmlText, p) \in TaggedLines(HtmlLines)
         /\ TaggedLines(HtmlLines) \in SUBSET (1 .. Len(HtmlLines))
<1> DEFINE html == HtmlText
           breaks(p) == {q \in 1 .. p - 1 : html[q] = "break"}
           N == LineOf(html, Len(html) + 1)
           holds(k) == {html[p] : p \in {q \in DOMAIN html : LineOf(html, q) = k}} \ {"break"}
<1>1. html \in Seq(HtmlPieces) /\ Len(html) \in Nat /\ DOMAIN html = 1 .. Len(html)
      /\ \A p \in 1 .. Len(html) : html[p] \in HtmlPieces
  <2>1. html \in Seq(HtmlPieces)
    BY HtmlIs
  <2> HIDE DEF html
  <2> QED BY <2>1, ElementOfSeq
<1>2. HtmlLines = [k \in 1 .. N |-> [line |-> k, holds |-> holds(k)]]
  BY DEF HtmlLines, HtmlText, LineOf
<1> HIDE DEF html
<1>3. ASSUME NEW p \in 1 .. Len(html) + 1
      PROVE  IsFiniteSet(breaks(p)) /\ Cardinality(breaks(p)) \in Nat /\ LineOf(html, p) \in 1 .. N
  <2>1. ASSUME NEW r \in 1 .. Len(html) + 1
        PROVE  IsFiniteSet(breaks(r)) /\ Cardinality(breaks(r)) \in Nat
    <3>0. 1 \in Int /\ r - 1 \in Int /\ breaks(r) \in SUBSET (1 .. r - 1)
      BY <1>1
    <3>1. IsFiniteSet(1 .. r - 1) /\ breaks(r) \in SUBSET (1 .. r - 1)
      BY <3>0, FS_Interval
    <3>2. IsFiniteSet(breaks(r))
      <4> DEFINE B == breaks(r)
                 I == 1 .. r - 1
      <4>1. B \in SUBSET I /\ IsFiniteSet(I)
        BY <3>1
      <4> HIDE DEF B, I
      <4> QED BY <4>1, FS_Subset DEF B
    <3> QED BY <3>2, FS_CardinalityType
  <2> DEFINE last == Len(html) + 1
             A == breaks(p)
             B == breaks(last)
  <2>2. last \in 1 .. Len(html) + 1
    BY <1>1
  <2>3. A \in SUBSET B
    BY <1>1
  <2>4. IsFiniteSet(A) /\ Cardinality(A) \in Nat /\ IsFiniteSet(B) /\ Cardinality(B) \in Nat
    BY <2>1, <2>2
  <2>5. LineOf(html, p) = Cardinality(A) + 1 /\ N = Cardinality(B) + 1
    BY DEF LineOf
  <2> HIDE DEF A, B, last, N
  <2>6. Cardinality(A) <= Cardinality(B)
    BY <2>3, <2>4, FS_Subset
  <2>7. LineOf(html, p) \in 1 .. N
    BY <2>4, <2>5, <2>6
  <2> QED BY <2>4, <2>7 DEF A
<1>4. N \in Nat
  <2>1. Len(html) + 1 \in 1 .. Len(html) + 1
    BY <1>1
  <2>2. Cardinality(breaks(Len(html) + 1)) \in Nat /\ N = Cardinality(breaks(Len(html) + 1)) + 1
    BY <1>3, <2>1 DEF LineOf
  <2> HIDE DEF N
  <2> QED BY <2>2
<1> HIDE DEF N
<1>5. ASSUME NEW k \in 1 .. N PROVE [line |-> k, holds |-> holds(k)] \in HtmlRows
  <2>1. k \in Nat
    BY <1>4
  <2>2. holds(k) \in SUBSET {"char", "changed", "open", "close"}
    BY <1>1 DEF HtmlPieces
  <2> HIDE DEF holds
  <2> QED BY <2>1, <2>2 DEF HtmlRows
<1>6. HtmlLines \in Seq(HtmlRows) /\ Len(HtmlLines) = N /\ DOMAIN HtmlLines = 1 .. N
  <2>1. HtmlLines \in [1 .. N -> HtmlRows]
    <3> HIDE DEF holds
    <3> QED BY <1>2, <1>5
  <2> QED BY <1>4, <2>1, SequenceOf
<1>7. AllDifferent(HtmlLines)
  <2>1. \A k \in 1 .. N : HtmlLines[k].line = k
    BY <1>2
  <2>2. \A k \in 1 .. N : HtmlLines[k] \in HtmlRows
    BY <1>6, ElementOfSeq
  <2> QED BY <1>6, <2>1, <2>2, InlineDiffAssumption DEF AllDifferent
<1>8. ASSUME NEW p \in 1 .. Len(html)
      PROVE  /\ LineOf(html, p) \in 1 .. N
             /\ html[p] = "open" => LineOf(html, p) \in TaggedLines(HtmlLines)
  <2>1. LineOf(html, p) \in 1 .. N
    <3>1. p \in 1 .. Len(html) + 1
      BY <1>1
    <3> QED BY <1>3, <3>1
  <2>2. ASSUME html[p] = "open" PROVE LineOf(html, p) \in TaggedLines(HtmlLines)
    <3> DEFINE k == LineOf(html, p)
    <3>1. html[p] \in holds(k)
      BY <1>1, <2>2
    <3> HIDE DEF k, holds
    <3>2. HtmlLines[k].holds = holds(k)
      BY <1>2, <2>1 DEF k
    <3> QED BY <1>6, <2>1, <2>2, <3>1, <3>2 DEF TaggedLines, Tagged, k
  <2> QED BY <2>1, <2>2
<1>9. TaggedLines(HtmlLines) \in SUBSET (1 .. Len(HtmlLines))
  BY <1>6 DEF TaggedLines
<1> QED
  BY <1>6, <1>7, <1>8, <1>9 DEF html

\* What the inline view shows in context mode.
LEMMA InlinePage ==
  ASSUME InlineInv
  PROVE  ChangesBeginOnScreen
<1>1. SUFFICES ASSUME stage = "context" PROVE ChangesBeginOnScreen
  BY DEF ChangesBeginOnScreen
<1>2. context \in Nat /\ output = ApplyContext(HtmlLines, TaggedLines(HtmlLines), context)
  BY <1>1 DEF InlineInv
<1>3. /\ HtmlLines \in Seq(HtmlRows) /\ AllDifferent(HtmlLines) /\ Omitted \notin HtmlRows
      /\ TaggedLines(HtmlLines) \in SUBSET (1 .. Len(HtmlLines))
  BY HtmlLinesAre, InlineDiffAssumption
<1>4. Page(HtmlLines, TaggedLines(HtmlLines), context, output)
  BY <1>2, <1>3, ContextPage
<1>5. ASSUME NEW s \in DOMAIN segments, segments[s].op # 0
      PROVE  FirstLine(s) \in TaggedLines(HtmlLines)
  BY <1>5, ChangeBegins, HtmlLinesAre
<1> QED
  BY <1>4, <1>5 DEF Page, ChangesBeginOnScreen

\* Every step of the inline view.
LEMMA InlineStep ==
  ASSUME InlineInv, InlineNext
  PROVE  InlineInv'
<1>1. CASE Diff
  <2>1. stage = "diff" /\ stage' = "diff"
    BY <1>1 DEF Diff
  <2>2. PICK op \in Operations, text \in BoundedSeq(Characters, MaxChars) :
          segments' = Append(segments, [op |-> op, text |-> text])
    BY <1>1 DEF Diff
  <2>3. text \in Seq(Characters) /\ Len(text) <= MaxChars
    <3>1. PICK n \in 0 .. MaxChars : text \in [1 .. n -> Characters]
      BY DEF BoundedSeq, SeqOf
    <3>2. n \in Nat /\ n <= MaxChars
      BY InlineDiffAssumption
    <3> QED BY <3>1, <3>2, SequenceOf
  <2> DEFINE new == [op |-> op, text |-> text]
  <2>4. new \in Segments /\ new.text = text
    BY <2>3 DEF Segments
  <2> HIDE DEF new
  <2>5. /\ segments \in Seq(Segments) /\ segments' = Append(segments, new)
        /\ \A s \in DOMAIN segments : Len(segments[s].text) <= MaxChars
    BY <2>2 DEF InlineInv, new
  <2>6. /\ segments' \in Seq(Segments) /\ Len(segments) \in Nat
        /\ DOMAIN segments = 1 .. Len(segments) /\ DOMAIN segments' = 1 .. Len(segments) + 1
        /\ \A s \in 1 .. Len(segments) : segments'[s] = segments[s]
        /\ segments'[Len(segments) + 1] = new
    BY <2>4, <2>5
  <2>7. ASSUME NEW s \in DOMAIN segments' PROVE Len(segments'[s].text) <= MaxChars
    <3>1. CASE s \in 1 .. Len(segments)
      BY <2>5, <2>6, <3>1
    <3>2. CASE s = Len(segments) + 1
      BY <2>3, <2>4, <2>6, <3>2
    <3> QED BY <2>6, <3>1, <3>2
  <2> QED BY <2>1, <2>6, <2>7 DEF InlineInv
<1>2. CASE ShowInlineFull
  BY <1>2 DEF ShowInlineFull, InlineInv
<1>3. CASE ShowInlineContext
  <2>1. segments' = segments /\ stage' = "context" /\ context' \in 0 .. MaxContext
        /\ output' = ApplyContext(HtmlLines, TaggedLines(HtmlLines), context')
    BY <1>3 DEF ShowInlineContext
  <2>2. HtmlLines' = HtmlLines
    BY <2>1 DEF HtmlLines
  <2>3. TaggedLines(HtmlLines)' = TaggedLines(HtmlLines)
    BY <2>2 DEF TaggedLines
  <2>4. context' \in Nat
    BY <2>1, InlineDiffAssumption
  <2>5. ApplyContext(HtmlLines, TaggedLines(HtmlLines), context)'
          = ApplyContext(HtmlLines, TaggedLines(HtmlLines), context')
    BY <2>2, <2>3
  <2> QED BY <2>1, <2>4, <2>5 DEF InlineInv
<1> QED
  BY <1>1, <1>2, <1>3 DEF InlineNext
-----------------------------------------------------------------------------
(* Both views                                                               *)

\* Each view leaves the state of the other one alone.
Inv ==
    /\ SideInv /\ InlineInv
    /\ view \in {"inline", "sidebyside"}
    /\ view = "inline" => pc = "lines"
    /\ view = "sidebyside" => stage = "diff"

\* Both views begin in the invariant, and every step of either keeps it.
LEMMA InvHolds == ViewSpec => []Inv
<1>1. ViewInit => Inv
  <2>1. InlineInit => InlineInv
    BY EmptySeq DEF InlineInit, InlineInv
  <2>2. SideInit => pc = "lines"
    BY DEF SideInit
  <2>3. InlineInit => stage = "diff"
    BY DEF InlineInit
  <2> QED BY <2>1, <2>2, <2>3, SideStart DEF ViewInit, Inv
<1>2. Inv /\ [ViewNext]_viewVars => Inv'
  <2> SUFFICES ASSUME Inv, [ViewNext]_viewVars PROVE Inv'
    OBVIOUS
  <2>1. CASE view = "sidebyside" /\ SideNext /\ UNCHANGED <<view, inlineVars>>
    <3>1. SideInv'
      BY <2>1, SideStep DEF Inv
    <3>2. InlineInv'
      BY <2>1 DEF Inv, InlineInv, inlineVars
    <3> QED BY <2>1, <3>1, <3>2 DEF Inv, inlineVars
  <2>2. CASE view = "inline" /\ InlineNext /\ UNCHANGED <<view, sideVars>>
    <3>1. InlineInv'
      BY <2>2, InlineStep DEF Inv
    <3>2. TableInv'
      <4> HIDE DEF Rows
      <4> QED BY <2>2 DEF Inv, SideInv, TableInv, sideVars
    <3>3. SidesAreWhole' /\ TableShown'
      BY <2>2 DEF Inv, SideInv, SidesAreWhole, TableShown, sideVars
    <3> QED BY <2>2, <3>1, <3>2, <3>3 DEF Inv, SideInv, sideVars
  <2>3. CASE UNCHANGED viewVars
    <3>1. UNCHANGED <<view, sideVars, inlineVars, page>>
      BY <2>3 DEF viewVars
    <3>2. InlineInv'
      BY <3>1 DEF Inv, InlineInv, HtmlLines, inlineVars, page
    <3>3. TableInv'
      <4> HIDE DEF Rows
      <4> QED BY <3>1 DEF Inv, SideInv, TableInv, sideVars
    <3>4. SidesAreWhole' /\ TableShown'
      BY <3>1 DEF Inv, SideInv, SidesAreWhole, TableShown, Changed, sideVars, page
    <3> QED BY <3>1, <3>2, <3>3, <3>4 DEF Inv, SideInv, sideVars, inlineVars
  <2> QED BY <2>1, <2>2, <2>3 DEF ViewNext
<1> QED
  BY <1>1, <1>2, PTL DEF ViewSpec
-----------------------------------------------------------------------------
(* The properties of the views                                              *)

\* SidesAreWhole: whatever opcodes the two matchers give, each side of the table
\* carries the lines of its output covered so far, every one once, in order and
\* under its own number (_build_side_by_side_rows, _append_replace_rows,
\* _append_line_replacement_rows).
THEOREM TablesAreWhole == ViewSpec => []SidesAreWhole
<1>1. Inv => SidesAreWhole
  BY DEF Inv, SideInv
<1> QED
  BY <1>1, InvHolds, PTL

\* ContextIsKept: a row is on screen exactly when it is changed or near enough to
\* a changed row (_build_context_indexes).
THEOREM ContextStays == ViewSpec => []ContextIsKept
<1>1. Inv => ContextIsKept
  BY DEF Inv, SideInv, TableShown, Page, ContextIsKept
<1> QED
  BY <1>1, InvHolds, PTL

\* CollapseIsVisible: a mark stands exactly where rows are missing
\* (_apply_context_to_rows).
THEOREM CollapseIsMarked == ViewSpec => []CollapseIsVisible
<1>1. Inv => CollapseIsVisible
  BY DEF Inv, SideInv, TableShown, Page, CollapseIsVisible
<1> QED
  BY <1>1, InvHolds, PTL

\* ChangesBeginOnScreen: the line on which a change begins, and its context, are on
\* screen, whatever segments the library gives (_render_inline_diff_html,
\* apply_context_to_lines).
THEOREM ChangesAreSeen == ViewSpec => []ChangesBeginOnScreen
<1>1. Inv => ChangesBeginOnScreen
  BY InlinePage DEF Inv
<1> QED
  BY <1>1, InvHolds, PTL
=============================================================================
