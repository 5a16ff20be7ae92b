--------------------------- MODULE ProvidersProofs ---------------------------
(***************************************************************************)
(* What holds of every search of the sources and of every lookup of        *)
(* covers, for all registries, limits, answers and ISBNs.                  *)
(* The search: who is under way is waited for (SearchInv), so the client   *)
(* is closed last.  What has been found is what was made of the answer     *)
(* that came last (AnswersInv), so the candidates are looked up by their   *)
(* ISBNs and the best record of a book is the one shown.  What a stream    *)
(* has told so far is right of every source (ToldInv).                     *)
(* The lookups: the permits taken are those of the coroutines in a place   *)
(* that holds one (CoversInv, counted through Counts), and whoever goes on *)
(* has seen nothing good.  The arithmetic: the check digits complete their *)
(* sums (ChecksComplete).                                                  *)
(* Where the code loops, the loop is a function on 0..n that is shown to   *)
(* exist by taking the least n at which it would not.                      *)
(***************************************************************************)
EXTENDS MCProviders, SequenceTheorems, FiniteSetTheorems, WellFoundedInduction, TLAPS

(* Numbers and sequences. *)

\* A set of numbers has a least member.
LEMMA LeastMember ==
    ASSUME NEW T, T \subseteq Nat, T # {}
    PROVE  Min(T) \in T /\ \A y \in T : Min(T) <= y
<1> DEFINE Less == OpToRel(<, Nat)
<1>1. IsWellFoundedOn(Less, Nat)
  BY NatLessThanWellFounded
<1>2. \A x, y \in Nat : <<y, x>> \in Less <=> y < x
  BY DEF OpToRel
<1> HIDE DEF Less
<1>3. \E x \in T : \A y \in T : ~(<<y, x>> \in Less)
  BY <1>1, WFMin
<1>4. PICK x \in T : \A y \in T : ~(y < x)
  BY <1>2, <1>3
<1>5. \A y \in T : x <= y
  BY <1>4
<1> QED
  BY <1>5 DEF Min

\* Induction up to n, over a set of numbers.
LEMMA UpTo ==
    ASSUME NEW n \in Nat, NEW S, 0 \in S, \A i \in 0..(n - 1) : i \in S => i + 1 \in S
    PROVE  \A i \in 0..n : i \in S
<1> DEFINE T == {i \in 0..n : i \notin S}
<1> SUFFICES ASSUME T # {} PROVE FALSE
  OBVIOUS
<1>1. T \subseteq Nat
  OBVIOUS
<1> DEFINE m == Min(T)
<1>2. m \in T /\ \A y \in T : m <= y
  BY <1>1, LeastMember
<1> HIDE DEF m
<1>3. m \in 1..n /\ m \notin S
  BY <1>2
<1>4. m - 1 \in 0..(n - 1) /\ (m - 1) + 1 = m /\ m - 1 \in 0..n /\ ~(m <= m - 1)
  BY <1>3
<1>5. m - 1 \in S
  BY <1>2, <1>4
<1> QED
  BY <1>3, <1>4, <1>5

\* The n-th member of a finite set of numbers is one of them.
LEMMA NthMember ==
    ASSUME NEW I \in SUBSET Nat, IsFiniteSet(I)
    PROVE  /\ Cardinality(I) \in Nat
           /\ \A n \in 1..Cardinality(I) : Nth(I, n) \in I
<1> DEFINE N == Cardinality(I)
           upto(i) == {j \in I : j <= i}
           rank == [i \in I |-> Cardinality(upto(i))]
<1>1. N \in Nat
  BY FS_CardinalityType
<1>2. ASSUME NEW i \in I
      PROVE  IsFiniteSet(upto(i)) /\ rank[i] \in 1..N
  <2>1. upto(i) \in SUBSET I /\ i \in upto(i)
    OBVIOUS
  <2> HIDE DEF upto
  <2>2. IsFiniteSet(upto(i)) /\ Cardinality(upto(i)) <= N
    BY <2>1, FS_Subset
  <2>3. Cardinality(upto(i)) \in Nat /\ Cardinality(upto(i)) # 0
    BY <2>1, <2>2, FS_CardinalityType, FS_EmptySet
  <2> QED
    BY <1>1, <2>2, <2>3
<1>3. ASSUME NEW i \in I, NEW j \in I, i < j
      PROVE  rank[i] # rank[j]
  <2>1. (\A k \in I : k <= i => k <= j) /\ j <= j /\ ~(j <= i)
    <3>1. \A k \in I : k \in Nat
      OBVIOUS
    <3>2. i \in Nat /\ j \in Nat
      BY <3>1
    <3> QED
      BY <1>3, <3>1, <3>2
  <2>2. upto(i) \in SUBSET upto(j) /\ j \in upto(j) /\ j \notin upto(i)
    BY <2>1
  <2> HIDE DEF upto
  <2>3. Cardinality(upto(i)) # Cardinality(upto(j))
    BY <1>2, <2>2, FS_Subset
  <2> QED
    BY <2>3
<1>4. rank \in [I -> 1..N]
  BY <1>2
<1>5. \A i, j \in I : rank[i] = rank[j] => i = j
  <2> SUFFICES ASSUME NEW i \in I, NEW j \in I, i # j PROVE rank[i] # rank[j]
    OBVIOUS
  <2>1. i < j \/ j < i
    OBVIOUS
  <2> QED
    BY <1>3, <2>1
<1> HIDE DEF rank
<1>6. rank \in Injection(I, 1..N)
  BY <1>4, <1>5 DEF Injection, IsInjective
<1>7. IsFiniteSet(1..N) /\ Cardinality(1..N) = N
  BY <1>1, FS_Interval
<1>8. rank \in Surjection(I, 1..N)
  BY <1>6, <1>7, FS_Injection
<1>9. \A n \in 1..N : \E i \in I : rank[i] = n
  BY <1>8 DEF Surjection
<1>10. \A n \in 1..N : \E i \in I : Cardinality({j \in I : j <= i}) = n
  BY <1>9 DEF rank
<1> QED
  BY <1>1, <1>10 DEF Nth

\* What is kept of a sequence are members of it, at the positions that count.
LEMMA KeptMembers ==
    ASSUME NEW X, NEW s \in Seq(X), NEW I \in SUBSET (DOMAIN s)
    PROVE  /\ Kept(s, I) \in Seq(X)
           /\ \A n \in DOMAIN Kept(s, I) : \E i \in I : Kept(s, I)[n] = s[i]
<1>1. Len(s) \in Nat /\ DOMAIN s = 1..Len(s)
  BY LenProperties
<1>2. IsFiniteSet(1..Len(s))
  BY <1>1, FS_Interval
<1>3. I \in SUBSET Nat /\ IsFiniteSet(I)
  BY <1>1, <1>2, FS_Subset
<1>4. Cardinality(I) \in Nat /\ \A n \in 1..Cardinality(I) : Nth(I, n) \in I
  BY <1>3, NthMember
<1>5. Kept(s, I) = [n \in 1..Cardinality(I) |-> s[Nth(I, n)]]
  BY DEF Kept
<1>6. \A n \in 1..Cardinality(I) : s[Nth(I, n)] \in X
  BY <1>1, <1>4, ElementOfSeq
<1> QED
  BY <1>4, <1>5, <1>6

\* FlattenSeq, piece by piece.
LEMMA Flattening ==
    ASSUME NEW X, NEW seqs \in Seq(Seq(X))
    PROVE  \E g : /\ g[0] = <<>>
                  /\ \A n \in 0..(Len(seqs) - 1) : g[n + 1] = g[n] \o seqs[n + 1]
                  /\ FlattenSeq(seqs) = g[Len(seqs)]
<1> DEFINE N == Len(seqs)
           Is(f, m) == f = [i \in 1..m |-> IF i = 1 THEN seqs[i] ELSE f[i - 1] \o seqs[i]]
           S == {m \in 0..N : \E f : Is(f, m)}
<1>0. N \in Nat /\ 0 \in 0..N /\ N \in 0..N
  BY LenProperties
<1>1. 0 \in S
  <2> DEFINE f == [i \in 1..0 |-> <<>>]
  <2>1. Is(f, 0)
    OBVIOUS
  <2> HIDE DEF f, Is
  <2> QED
    BY <1>0, <2>1
<1>2. ASSUME NEW m \in 0..(N - 1), m \in S
      PROVE  m + 1 \in S
  <2>1. PICK f : Is(f, m)
    BY <1>2
  <2> DEFINE h == [i \in 1..(m + 1) |->
                     IF i = m + 1 THEN IF i = 1 THEN seqs[i] ELSE f[m] \o seqs[m + 1] ELSE f[i]]
  <2>2. \A i \in 1..(m + 1) : h[i] = IF i = 1 THEN seqs[i] ELSE h[i - 1] \o seqs[i]
    <3>1. h[m + 1] = IF m + 1 = 1 THEN seqs[m + 1] ELSE h[m] \o seqs[m + 1]
      OBVIOUS
    <3>2. \A i \in 1..m : h[i] = f[i]
      OBVIOUS
    <3>3. \A i \in 1..m : f[i] = IF i = 1 THEN seqs[i] ELSE f[i - 1] \o seqs[i]
      BY <2>1
    <3> HIDE DEF h
    <3>4. \A i \in 1..m : h[i] = IF i = 1 THEN seqs[i] ELSE h[i - 1] \o seqs[i]
      BY <3>2, <3>3
    <3> QED
      BY <3>1, <3>4
  <2>3. h = [i \in 1..(m + 1) |-> h[i]]
    OBVIOUS
  <2> HIDE DEF h
  <2>4. Is(h, m + 1)
    BY <2>2, <2>3
  <2>5. m + 1 \in 0..N
    BY <1>0
  <2> HIDE DEF Is
  <2> QED
    BY <2>4, <2>5
<1>3. N \in S
  <2> HIDE DEF N, S
  <2> QED
    BY <1>0, <1>1, <1>2, UpTo
<1> DEFINE f == CHOOSE f : Is(f, N)
<1>4. Is(f, N)
  <2> HIDE DEF Is
  <2> QED
    BY <1>3, Zenon
<1>5. FlattenSeq(seqs) = IF N = 0 THEN seqs ELSE f[N]
  BY DEF FlattenSeq
<1> HIDE DEF f
<1> DEFINE g == [i \in 0..N |-> IF i = 0 THEN <<>> ELSE f[i]]
<1>6. ASSUME NEW n \in 0..(N - 1)
      PROVE  g[n + 1] = g[n] \o seqs[n + 1]
  <2>1. n \in Nat /\ n \in 0..N /\ n + 1 \in 1..N /\ n + 1 \in 0..N /\ n + 1 # 0
        /\ (n + 1) - 1 = n
    BY <1>0
  <2>2. f[n + 1] = IF n + 1 = 1 THEN seqs[n + 1] ELSE f[(n + 1) - 1] \o seqs[n + 1]
    BY <1>4, <2>1
  <2>3. g[n + 1] = f[n + 1] /\ g[n] = IF n = 0 THEN <<>> ELSE f[n]
    BY <2>1
  <2>4. seqs[n + 1] \in Seq(X)
    BY <2>1, ElementOfSeq
  <2>5. <<>> \o seqs[n + 1] = seqs[n + 1]
    BY <2>4, ConcatEmptySeq
  <2> HIDE DEF g
  <2>6. CASE n = 0
    <3>1. n + 1 = 1
      BY <2>6
    <3> QED
      BY <2>2, <2>3, <2>5, <2>6, <3>1
  <2>7. CASE n # 0
    <3>1. n + 1 # 1
      BY <2>1, <2>7
    <3> QED
      BY <2>1, <2>2, <2>3, <2>7, <3>1
  <2> QED
    BY <2>6, <2>7
<1>7. FlattenSeq(seqs) = g[N]
  <2>1. N = 0 => seqs = <<>>
    BY EmptySeq
  <2> QED
    BY <1>0, <1>5, <2>1
<1>8. g[0] = <<>>
  BY <1>0
<1> HIDE DEF g
<1> QED
  BY <1>6, <1>7, <1>8

-----------------------------------------------------------------------------

(* What is made of the answers. *)

\* The records with a title are some of the records.
LEMMA TitledMembers ==
    ASSUME NEW X, NEW records \in Seq(X)
    PROVE  /\ Titled(records) \in Seq(X)
           /\ \A n \in DOMAIN Titled(records) :
                 \E k \in DOMAIN records : Titled(records)[n] = records[k]
<1> DEFINE I == {k \in DOMAIN records : records[k].titled}
<1>1. I \in SUBSET (DOMAIN records)
  OBVIOUS
<1>2. Titled(records) = Kept(records, I)
  BY DEF Titled
<1> HIDE DEF I
<1> QED
  BY <1>1, <1>2, KeptMembers

\* FirstIsbn is an ISBN-13 that one of the numbers stands for, or none.
LEMMA FirstIsbnFound ==
    ASSUME NEW raws \in Seq(RawIsbns)
    PROVE  /\ FirstIsbn(raws) \in Isbns \cup {NoIsbn}
           /\ FirstIsbn(raws) # NoIsbn =>
                 \E k \in DOMAIN raws : Normal[raws[k]] = FirstIsbn(raws)
<1> DEFINE good == {k \in DOMAIN raws : Normal[raws[k]] # NoIsbn}
<1>1. FirstIsbn(raws) = IF good = {} THEN NoIsbn ELSE Normal[raws[Min(good)]]
  BY DEF FirstIsbn
<1>2. DOMAIN raws = 1..Len(raws) /\ Len(raws) \in Nat
  BY LenProperties
<1>3. good \subseteq Nat /\ good \subseteq DOMAIN raws
  BY <1>2
<1> HIDE DEF good
<1>4. CASE good # {}
  <2>1. Min(good) \in DOMAIN raws
    BY <1>3, <1>4, LeastMember
  <2>2. raws[Min(good)] \in RawIsbns
    BY <1>2, <2>1, ElementOfSeq
  <2> QED
    BY <1>1, <1>4, <2>1, <2>2, IsbnAssumption
<1> QED
  BY <1>1, <1>4

\* The same of the fields of a record.
LEMMA FieldsIsbnFound ==
    ASSUME NEW fields \in Seq(DnbField), NEW among \in SUBSET (DOMAIN fields)
    PROVE  /\ FieldsIsbn(fields, among) \in Isbns \cup {NoIsbn}
           /\ FieldsIsbn(fields, among) # NoIsbn =>
                 \E k \in among : FirstIsbn(fields[k].isbns) = FieldsIsbn(fields, among)
<1> DEFINE good == {k \in among : FirstIsbn(fields[k].isbns) # NoIsbn}
<1>1. FieldsIsbn(fields, among)
      = IF good = {} THEN NoIsbn ELSE FirstIsbn(fields[Min(good)].isbns)
  BY DEF FieldsIsbn
<1>2. DOMAIN fields = 1..Len(fields) /\ Len(fields) \in Nat
  BY LenProperties
<1>3. good \subseteq Nat /\ good \subseteq among
  BY <1>2
<1> HIDE DEF good
<1>4. CASE good # {}
  <2>1. Min(good) \in among
    BY <1>3, <1>4, LeastMember
  <2>2. fields[Min(good)] \in DnbField
    BY <1>2, <2>1, ElementOfSeq
  <2>3. FirstIsbn(fields[Min(good)].isbns) \in Isbns \cup {NoIsbn}
    BY <2>2, FirstIsbnFound DEF DnbField
  <2> QED
    BY <1>1, <1>4, <2>1, <2>3
<1> QED
  BY <1>1, <1>4

\* What the DNB's record yields stands in a field without a qualifier.
LEMMA DnbIsbnFound ==
    ASSUME NEW r \in DnbRecord
    PROVE  /\ DnbIsbn(r) \in Isbns \cup {NoIsbn}
           /\ DnbIsbn(r) # NoIsbn =>
                 \E f \in ToSet(r.fields) :
                     ~f.qualified /\ \E raw \in ToSet(f.isbns) : Normal[raw] = DnbIsbn(r)
<1> DEFINE among == {k \in DOMAIN r.fields : ~r.fields[k].qualified}
<1>1. r.fields \in Seq(DnbField) /\ among \in SUBSET (DOMAIN r.fields)
  BY DEF DnbRecord
<1>2. DnbIsbn(r) = FieldsIsbn(r.fields, among)
  BY DEF DnbIsbn
<1>3. \A k \in among : ~r.fields[k].qualified /\ k \in DOMAIN r.fields
  OBVIOUS
<1> HIDE DEF among
<1>4. /\ DnbIsbn(r) \in Isbns \cup {NoIsbn}
      /\ DnbIsbn(r) # NoIsbn => \E k \in among : FirstIsbn(r.fields[k].isbns) = DnbIsbn(r)
  BY <1>1, <1>2, FieldsIsbnFound
<1>5. ASSUME DnbIsbn(r) # NoIsbn
      PROVE  \E f \in ToSet(r.fields) :
                 ~f.qualified /\ \E raw \in ToSet(f.isbns) : Normal[raw] = DnbIsbn(r)
  <2>1. PICK k \in among : FirstIsbn(r.fields[k].isbns) = DnbIsbn(r)
    BY <1>4, <1>5
  <2> DEFINE f == r.fields[k]
  <2>2. f \in DnbField
    BY <1>1, <1>3, <2>1, LenProperties, ElementOfSeq
  <2>3. f.isbns \in Seq(RawIsbns)
    BY <2>2 DEF DnbField
  <2>4. PICK j \in DOMAIN f.isbns : Normal[f.isbns[j]] = DnbIsbn(r)
    BY <1>5, <2>1, <2>3, FirstIsbnFound
  <2>5. f.isbns[j] \in ToSet(f.isbns) /\ f \in ToSet(r.fields)
    BY <1>3, <2>1, <2>4 DEF ToSet
  <2>6. ~f.qualified
    BY <1>3, <2>1
  <2> HIDE DEF f
  <2> QED
    BY <2>4, <2>5, <2>6
<1> QED
  BY <1>4, <1>5

\* The records kept after the first n, one after the other.
LEMMA BnfRecursion ==
    ASSUME NEW told, Len(told) \in Nat
    PROVE  \E a : /\ BnfAfter(told) = a
                  /\ a[0] = <<>>
                  /\ \A n \in 0..(Len(told) - 1) : a[n + 1] = TakeBnf(a[n], told[n + 1])
<1> DEFINE N == Len(told)
           Is(g, m) == g = [n \in 0..m |-> IF n = 0 THEN <<>> ELSE TakeBnf(g[n - 1], told[n])]
           S == {m \in 0..N : \E g : Is(g, m)}
<1>0. N \in Nat /\ 0 \in 0..N /\ N \in 0..N
  OBVIOUS
<1>1. 0 \in S
  <2> DEFINE g == [n \in 0..0 |-> <<>>]
  <2>1. Is(g, 0)
    OBVIOUS
  <2> HIDE DEF g, Is
  <2> QED
    BY <1>0, <2>1
<1>2. ASSUME NEW i \in 0..(N - 1), i \in S
      PROVE  i + 1 \in S
  <2>1. PICK g : Is(g, i)
    BY <1>2
  <2> DEFINE h == [n \in 0..(i + 1) |-> IF n = i + 1 THEN TakeBnf(g[i], told[i + 1]) ELSE g[n]]
  <2>2. \A n \in 0..(i + 1) :
           h[n] = IF n = 0 THEN <<>> ELSE TakeBnf(h[n - 1], told[n])
    <3>1. h[i + 1] = TakeBnf(h[i], told[i + 1])
      OBVIOUS
    <3>2. \A n \in 0..i : h[n] = g[n]
      OBVIOUS
    <3>3. \A n \in 0..i : g[n] = IF n = 0 THEN <<>> ELSE TakeBnf(g[n - 1], told[n])
      BY <2>1
    <3> HIDE DEF h
    <3>4. \A n \in 0..i : h[n] = IF n = 0 THEN <<>> ELSE TakeBnf(h[n - 1], told[n])
      BY <3>2, <3>3
    <3> QED
      BY <3>1, <3>4
  <2>3. h = [n \in 0..(i + 1) |-> h[n]]
    OBVIOUS
  <2> HIDE DEF h
  <2>4. Is(h, i + 1)
    BY <2>2, <2>3
  <2>5. i + 1 \in 0..N
    OBVIOUS
  <2> QED
    BY <2>4, <2>5
<1>3. N \in S
  <2> HIDE DEF N, S
  <2> QED
    BY <1>0, <1>1, <1>2, UpTo
<1> HIDE DEF S
<1>4. \E g : Is(g, N)
  BY <1>3 DEF S
<1> DEFINE a == CHOOSE g : Is(g, N)
<1>5. BnfAfter(told) = a
  BY DEF BnfAfter
<1>6. Is(a, N)
  <2> HIDE DEF Is
  <2> QED
    BY <1>4, Zenon
<1>7. a[0] = <<>> /\ \A n \in 0..(N - 1) : a[n + 1] = TakeBnf(a[n], told[n + 1])
  <2> HIDE DEF a
  <2> QED
    BY <1>6
<1> QED
  BY <1>5, <1>7

\* The records kept of the first n, one of each ISBN and no worse than the others.
BestSoFar(told, n, kept) ==
    /\ kept \in Seq(BnfRecord)
    /\ \A k \in DOMAIN kept : \E i \in 1..n : kept[k] = told[i]
    /\ \A j, k \in DOMAIN kept : SameBnf(kept[j], kept[k]) => j = k
    /\ \A i \in 1..n : BnfIsbn(told[i]) # NoIsbn =>
          \E k \in DOMAIN kept : SameBnf(kept[k], told[i])
    /\ \A i \in 1..n : \A k \in DOMAIN kept :
          SameBnf(kept[k], told[i]) /\ ~told[i].shell =>
              ~kept[k].shell /\ kept[k].rich >= told[i].rich

\* One more record, of a book that is kept already.
LEMMA TakeSameBnf ==
    ASSUME NEW told \in Seq(BnfRecord), NEW n \in 0..(Len(told) - 1), NEW kept,
           BestSoFar(told, n, kept),
           \E k \in DOMAIN kept : SameBnf(kept[k], told[n + 1])
    PROVE  BestSoFar(told, n + 1, TakeBnf(kept, told[n + 1]))
<1> DEFINE r == told[n + 1]
           better(s) == IF SameBnf(s, r) /\ Beats(r, s) THEN r ELSE s
           after == TakeBnf(kept, r)
<1>1. /\ Len(told) \in Nat /\ n \in Nat /\ n + 1 \in 1..Len(told)
      /\ \A i \in 1..(n + 1) : i \in 1..n \/ i = n + 1
      /\ 1..n \subseteq 1..(n + 1) /\ n + 1 \in 1..(n + 1)
  BY LenProperties
<1>2. r \in BnfRecord /\ r.rich \in Nat /\ \A i \in 1..n : told[i].rich \in Nat
  <2>1. \A i \in 1..(n + 1) : told[i] \in BnfRecord
    BY <1>1, ElementOfSeq
  <2> QED
    BY <1>1, <2>1 DEF BnfRecord
<1>3. after = [k \in DOMAIN kept |-> better(kept[k])]
  BY DEF TakeBnf, Each
<1>4. kept \in Seq(BnfRecord) /\ \A k \in DOMAIN kept : kept[k] \in BnfRecord
  BY LenProperties, ElementOfSeq DEF BestSoFar
<1>5. DOMAIN after = DOMAIN kept /\ \A k \in DOMAIN kept : after[k] = better(kept[k])
  BY <1>3
<1>6. \A s : BnfIsbn(better(s)) = BnfIsbn(s) /\ (better(s) = s \/ better(s) = r)
  BY DEF SameBnf
<1>7. \A k \in DOMAIN kept : BnfIsbn(after[k]) = BnfIsbn(kept[k])
  <2> HIDE DEF better, after
  <2> QED
    BY <1>5, <1>6
<1>8. after \in Seq(BnfRecord)
  <2>1. \A k \in DOMAIN kept : better(kept[k]) \in BnfRecord
    BY <1>2, <1>4, <1>6
  <2> HIDE DEF better, after
  <2> QED
    BY <1>3, <1>4, <2>1, LenProperties
<1> HIDE DEF after
<1>9. \A k \in DOMAIN after : \E i \in 1..(n + 1) : after[k] = told[i]
  <2> SUFFICES ASSUME NEW k \in DOMAIN kept PROVE \E i \in 1..(n + 1) : after[k] = told[i]
    BY <1>5
  <2>1. PICK i \in 1..n : kept[k] = told[i]
    BY DEF BestSoFar
  <2>2. after[k] = told[i] \/ after[k] = told[n + 1]
    BY <1>5, <2>1
  <2> QED
    BY <1>1, <2>2
<1>10. \A j, k \in DOMAIN after : SameBnf(after[j], after[k]) => j = k
  BY <1>5, <1>7 DEF BestSoFar, SameBnf
<1>11. \A i \in 1..(n + 1) : BnfIsbn(told[i]) # NoIsbn =>
          \E k \in DOMAIN after : SameBnf(after[k], told[i])
  BY <1>1, <1>5, <1>7 DEF BestSoFar, SameBnf
<1>12. ASSUME NEW i \in 1..(n + 1), NEW k \in DOMAIN kept,
              SameBnf(after[k], told[i]), ~told[i].shell
       PROVE  ~after[k].shell /\ after[k].rich >= told[i].rich
  <2>1. SameBnf(kept[k], told[i])
    BY <1>7, <1>12 DEF SameBnf
  <2>2. kept[k].rich \in Nat
    BY <1>4 DEF BnfRecord
  <2>3. i \in 1..n => ~kept[k].shell /\ kept[k].rich >= told[i].rich /\ told[i].rich \in Nat
    BY <1>2, <1>12, <2>1 DEF BestSoFar
  <2>4. CASE SameBnf(kept[k], r) /\ Beats(r, kept[k])
    <3>1. after[k] = r /\ ~r.shell
      BY <1>5, <2>4 DEF Beats
    <3>2. i \in 1..n => r.rich > kept[k].rich
      BY <2>3, <2>4 DEF Beats, Richer
    <3>3. after[k].rich = r.rich
      BY <3>1
    <3>4. i \in 1..n => r.rich >= told[i].rich
      BY <1>2, <2>2, <2>3, <3>2
    <3>5. i = n + 1 => r.rich >= told[i].rich
      BY <1>2
    <3> QED
      BY <1>1, <3>1, <3>3, <3>4, <3>5
  <2>5. CASE ~(SameBnf(kept[k], r) /\ Beats(r, kept[k]))
    <3>1. after[k] = kept[k]
      BY <1>5, <2>5
    <3>2. i = n + 1 => ~kept[k].shell /\ ~(r.rich > kept[k].rich)
      BY <1>12, <2>1, <2>5 DEF Beats, Richer
    <3>3. i = n + 1 => ~kept[k].shell /\ kept[k].rich >= told[i].rich
      BY <1>2, <2>2, <3>2
    <3> QED
      BY <1>1, <2>3, <3>1, <3>3
  <2> QED
    BY <2>4, <2>5
<1>13. \A i \in 1..(n + 1) : \A k \in DOMAIN after :
          SameBnf(after[k], told[i]) /\ ~told[i].shell =>
              ~after[k].shell /\ after[k].rich >= told[i].rich
  BY <1>5, <1>12
<1>14. BestSoFar(told, n + 1, after)
  BY <1>8, <1>9, <1>10, <1>11, <1>13 DEF BestSoFar
<1> QED
  BY <1>14 DEF after

\* One more record, of a book that is not.
LEMMA TakeNewBnf ==
    ASSUME NEW told \in Seq(BnfRecord), NEW n \in 0..(Len(told) - 1), NEW kept,
           BestSoFar(told, n, kept),
           ~\E k \in DOMAIN kept : SameBnf(kept[k], told[n + 1])
    PROVE  BestSoFar(told, n + 1, TakeBnf(kept, told[n + 1]))
<1> DEFINE r == told[n + 1]
           after == TakeBnf(kept, r)
           m == Len(kept)
<1>1. /\ Len(told) \in Nat /\ n \in Nat /\ n + 1 \in 1..Len(told)
      /\ \A i \in 1..(n + 1) : i \in 1..n \/ i = n + 1
      /\ 1..n \subseteq 1..(n + 1) /\ n + 1 \in 1..(n + 1)
  BY LenProperties
<1>2. r \in BnfRecord /\ r.rich \in Nat
  <2>1. r \in BnfRecord
    BY <1>1, ElementOfSeq
  <2> QED
    BY <2>1 DEF BnfRecord
<1>3. kept \in Seq(BnfRecord)
  BY DEF BestSoFar
<1>4. after = Append(kept, r)
  BY DEF TakeBnf
<1>5. /\ after \in Seq(BnfRecord) /\ Len(after) = m + 1 /\ m \in Nat
      /\ DOMAIN after = 1..(m + 1) /\ DOMAIN kept = 1..m
      /\ \A k \in 1..m : after[k] = kept[k]
      /\ after[m + 1] = r
  BY <1>2, <1>3, <1>4, AppendProperties, LenProperties
<1>6. /\ \A k \in DOMAIN after : k \in DOMAIN kept \/ k = m + 1
      /\ \A k \in DOMAIN kept : k \in DOMAIN after /\ after[k] = kept[k]
      /\ m + 1 \in DOMAIN after /\ after[m + 1] = r
  BY <1>5
<1> HIDE DEF after, m
<1>7. ASSUME NEW k \in DOMAIN after
      PROVE  \E i \in 1..(n + 1) : after[k] = told[i]
  <2>1. CASE k \in DOMAIN kept
    <3>1. PICK i \in 1..n : kept[k] = told[i]
      BY <2>1 DEF BestSoFar
    <3> QED
      BY <1>1, <1>6, <2>1, <3>1
  <2> QED
    BY <1>1, <1>6, <2>1
<1>8. \A j, k \in DOMAIN after : SameBnf(after[j], after[k]) => j = k
  BY <1>6 DEF BestSoFar, SameBnf
<1>9. \A i \in 1..(n + 1) : BnfIsbn(told[i]) # NoIsbn =>
          \E k \in DOMAIN after : SameBnf(after[k], told[i])
  BY <1>1, <1>6 DEF BestSoFar, SameBnf
<1>10. ASSUME NEW i \in 1..(n + 1), NEW k \in DOMAIN after,
              SameBnf(after[k], told[i]), ~told[i].shell
       PROVE  ~after[k].shell /\ after[k].rich >= told[i].rich
  <2>1. CASE k \in DOMAIN kept
    <3>1. SameBnf(kept[k], told[i]) /\ after[k] = kept[k]
      BY <1>6, <1>10, <2>1
    <3>2. i # n + 1
      BY <2>1, <3>1
    <3> QED
      BY <1>1, <1>10, <2>1, <3>1, <3>2 DEF BestSoFar
  <2>2. CASE k = m + 1
    <3>1. after[k] = r
      BY <1>6, <2>2
    <3>2. i = n + 1
      <4>1. SUFFICES ASSUME i \in 1..n PROVE FALSE
        BY <1>1
      <4>2. BnfIsbn(told[i]) # NoIsbn /\ BnfIsbn(told[i]) = BnfIsbn(r)
        BY <1>10, <3>1 DEF SameBnf
      <4>3. PICK j \in DOMAIN kept : SameBnf(kept[j], told[i])
        BY <4>1, <4>2 DEF BestSoFar
      <4> QED
        BY <4>2, <4>3 DEF SameBnf
    <3> QED
      BY <1>2, <1>10, <3>1, <3>2
  <2> QED
    BY <1>6, <2>1, <2>2
<1>11. BestSoFar(told, n + 1, after)
  BY <1>5, <1>7, <1>8, <1>9, <1>10 DEF BestSoFar
<1> QED
  BY <1>11 DEF after

\* What is kept of an answer of the BnF is the best of each book.
LEMMA BnfBest ==
    ASSUME NEW records \in Seq(BnfRecord)
    PROVE  LET told == NewArks(Titled(records)) IN
           /\ told \in Seq(BnfRecord)
           /\ BestSoFar(told, Len(told), BnfKept(records))
<1> DEFINE told == NewArks(Titled(records))
           N == Len(told)
<1>1. told \in Seq(BnfRecord) /\ N \in Nat
  <2> DEFINE titled == Titled(records)
             I == {k \in DOMAIN titled : \/ titled[k].ark = NoIsbn
                                         \/ \A j \in 1..(k - 1) : titled[j].ark # titled[k].ark}
  <2>1. titled \in Seq(BnfRecord)
    BY TitledMembers
  <2>2. told = Kept(titled, I) /\ I \in SUBSET (DOMAIN titled)
    BY DEF NewArks
  <2> HIDE DEF titled, I, told
  <2>3. told \in Seq(BnfRecord)
    BY <2>1, <2>2, KeptMembers
  <2> QED
    BY <2>3, LenProperties
<1> HIDE DEF told
<1>2. PICK a : /\ BnfAfter(told) = a
               /\ a[0] = <<>>
               /\ \A n \in 0..(N - 1) : a[n + 1] = TakeBnf(a[n], told[n + 1])
  BY <1>1, BnfRecursion
<1> DEFINE S == {n \in 0..N : BestSoFar(told, n, a[n])}
<1>3. 0 \in S
  <2>1. BestSoFar(told, 0, <<>>)
    BY EmptySeq DEF BestSoFar
  <2> QED
    BY <1>1, <1>2, <2>1
<1>4. ASSUME NEW n \in 0..(N - 1), n \in S
      PROVE  n + 1 \in S
  <2>1. BestSoFar(told, n, a[n])
    BY <1>4
  <2>2. BestSoFar(told, n + 1, TakeBnf(a[n], told[n + 1]))
    BY <1>1, <2>1, TakeSameBnf, TakeNewBnf
  <2>3. n + 1 \in 0..N
    BY <1>1
  <2> QED
    BY <1>2, <2>2, <2>3
<1>5. BestSoFar(told, N, a[N])
  <2>1. \A n \in 0..N : n \in S
    <3> HIDE DEF S, N
    <3> QED
      BY <1>1, <1>3, <1>4, UpTo
  <2> QED
    BY <1>1, <2>1
<1>6. BnfKept(records) = a[N]
  BY <1>2 DEF BnfKept, told
<1> QED
  BY <1>1, <1>5, <1>6 DEF told

-----------------------------------------------------------------------------

(* The search. *)

SourcePlaces == {"off", "skipped", "asking", "second", "done", "failed", "stopped"}
GooglePlaces == {"idle", "asking", "waiting", "covers", "done", "failed", "raised", "stopped"}
SearchPlaces ==
    {"new", "gather", "fallback", "google", "ending", "raised", "cancelled"} \cup Over

\* Where a source may stand, with what it found.
Standing(r) == r.pc \in SourcePlaces /\ (r.found # <<>> => r.pc = "done")
Waiting(r) == r.pc \in {"asking", "second"}

\* The request to Google Books: only while it is asked, was garbled or is being
\* stopped are there covers to resolve, and a request that will be made again is below the limit.
GoogleInv ==
    /\ gb = [pc |-> gb.pc, attempts |-> gb.attempts, items |-> gb.items, probes |-> gb.probes]
    /\ gb.pc \in GooglePlaces
    /\ gb.attempts \in 0..(MaxRetries + 1)
    /\ gb.pc = "waiting" => gb.attempts <= MaxRetries
    /\ gb.probes \subseteq DOMAIN gb.items
    /\ gb.probes # {} => gb.pc \in {"covers", "raised", "stopped"}

SourcesInv ==
    /\ src = [s \in Parallel |-> src[s]]
    /\ \A s \in Parallel :
          src[s] = [pc |-> src[s].pc, found |-> src[s].found] /\ Standing(src[s])

\* The inductive invariant: who is under way is waited for, or has been cancelled.
SearchInv ==
    /\ SourcesInv
    /\ GoogleInv
    /\ pc \in SearchPlaces
    /\ client \in {"open", "closed"} /\ (client = "closed" => pc \in Over)
    /\ (\E s \in Parallel : Waiting(src[s])) => pc \in {"gather", "cancelled", "gone"}
    /\ gb.pc \in {"asking", "waiting", "covers"} => pc \in {"google", "cancelled"}
    /\ gb.pc = "stopped" => pc \in Leaving

-----------------------------------------------------------------------------

\* One source moves.
LEMMA SourceMoves ==
    ASSUME SearchInv, NEW s \in Parallel, NEW r, r = [pc |-> r.pc, found |-> r.found],
           src' = [src EXCEPT ![s] = r], Standing(r),
           Waiting(r) => pc \in {"gather", "cancelled", "gone"},
           UNCHANGED <<pc, gb, client>>
    PROVE  SearchInv'
<1>1. /\ src' = [t \in Parallel |-> src'[t]]
      /\ src'[s] = r
      /\ \A t \in Parallel \ {s} : src'[t] = src[t]
  BY DEF SearchInv, SourcesInv
<1>2. SourcesInv'
  BY <1>1 DEF SearchInv, SourcesInv
<1>3. GoogleInv'
  BY DEF SearchInv, GoogleInv
<1>4. (\E t \in Parallel : Waiting(src'[t])) => pc \in {"gather", "cancelled", "gone"}
  BY <1>1 DEF SearchInv
<1> QED
  BY <1>2, <1>3, <1>4 DEF SearchInv

\* The sources begin together, and the search waits for them.
LEMMA BeginKeeps == ASSUME SearchInv, Begin PROVE SearchInv'
<1> DEFINE row(s) == IF s \notin query.enabled THEN Source("off")
                     ELSE IF query.stream /\ Skipped(s) THEN Source("skipped")
                     ELSE IF Silent(s) THEN Source("done")
                     ELSE Source("asking")
<1>1. /\ pc = "new" /\ client = "open"
      /\ UNCHANGED <<gb, client>>
      /\ gb.pc \notin {"asking", "waiting", "covers", "stopped"}
  BY DEF Begin, SearchInv, Over, Leaving
<1>2. \/ pc' = "google" /\ UNCHANGED src
      \/ /\ pc' = IF query.enabled = {} THEN "fallback" ELSE "gather"
         /\ src' = [s \in Parallel |-> row(s)]
  BY DEF Begin
<1>3. \A s \in Parallel : /\ row(s) = [pc |-> row(s).pc, found |-> row(s).found]
                          /\ Standing(row(s))
                          /\ Waiting(row(s)) => query.enabled # {}
  BY DEF Source, Standing, Waiting, SourcePlaces
<1> HIDE DEF row
<1>4. GoogleInv'
  BY <1>1 DEF SearchInv, GoogleInv
<1>5. CASE pc' = "google" /\ UNCHANGED src
  BY <1>1, <1>4, <1>5 DEF SearchInv, SourcesInv, SearchPlaces, Over
<1>6. CASE /\ pc' = IF query.enabled = {} THEN "fallback" ELSE "gather"
           /\ src' = [s \in Parallel |-> row(s)]
  <2>1. \A s \in Parallel : src'[s] = row(s)
    BY <1>6
  <2>2. SourcesInv'
    BY <1>3, <1>6, <2>1 DEF SourcesInv
  <2>3. (\E s \in Parallel : Waiting(src'[s])) => pc' = "gather"
    BY <1>3, <1>6, <2>1
  <2> QED
    BY <1>1, <1>4, <1>6, <2>2, <2>3 DEF SearchInv, SearchPlaces
<1> QED
  BY <1>2, <1>5, <1>6

\* A step of one source.
LEMMA SourceStepKeeps ==
    ASSUME SearchInv, NEW s \in Parallel, SourceStep(s)
    PROVE  SearchInv'
<1>1. ASSUME NEW r, r = [pc |-> r.pc, found |-> r.found], Standing(r), ~Waiting(r),
             src' = [src EXCEPT ![s] = r], UNCHANGED <<pc, gb, client>>
      PROVE  SearchInv'
  BY <1>1, SourceMoves
<1>2. CASE Answer(s)
  <2>1. PICK answer \in Replies[s] : Answered(s, answer)
    BY <1>2 DEF Answer
  <2> DEFINE r == [pc |-> "done", found |-> Parse(s, answer)]
  <2>2. r = [pc |-> r.pc, found |-> r.found] /\ Standing(r) /\ ~Waiting(r)
    BY DEF Standing, Waiting, SourcePlaces
  <2>3. src' = [src EXCEPT ![s] = r] /\ UNCHANGED <<pc, gb, client>>
    BY <1>2, <2>1 DEF Answer, Answered
  <2> HIDE DEF r
  <2> QED
    BY <1>1, <2>2, <2>3
<1>3. CASE FailSource(s)
  <2> DEFINE r == Source(IF s = "hardcover" THEN "done" ELSE "failed")
  <2>1. r = [pc |-> r.pc, found |-> r.found] /\ Standing(r) /\ ~Waiting(r)
    BY DEF Source, Standing, Waiting, SourcePlaces
  <2>2. src' = [src EXCEPT ![s] = r] /\ UNCHANGED <<pc, gb, client>>
    BY <1>3 DEF FailSource
  <2> HIDE DEF r
  <2> QED
    BY <1>1, <2>1, <2>2
<1>4. CASE StopSource(s)
  <2> DEFINE r == Source("stopped")
  <2>1. r = [pc |-> r.pc, found |-> r.found] /\ Standing(r) /\ ~Waiting(r)
    BY DEF Source, Standing, Waiting, SourcePlaces
  <2>2. src' = [src EXCEPT ![s] = r] /\ UNCHANGED <<pc, gb, client>>
    BY <1>4 DEF StopSource
  <2> HIDE DEF r
  <2> QED
    BY <1>1, <2>1, <2>2
<1> QED
  BY <1>2, <1>3, <1>4 DEF SourceStep

\* Hardcover goes on to its second request, or has found nothing.
LEMMA FindTitleKeeps == ASSUME SearchInv, FindTitle PROVE SearchInv'
<1>1. PICK hits \in Hits :
         src' = [src EXCEPT !["hardcover"] =
                    Source(IF HardcoverIsbns(hits) = <<>> THEN "done" ELSE "second")]
  BY DEF FindTitle
<1> DEFINE r == Source(IF HardcoverIsbns(hits) = <<>> THEN "done" ELSE "second")
<1>2. r = [pc |-> r.pc, found |-> r.found] /\ Standing(r)
  BY DEF Source, Standing, SourcePlaces
<1>3. "hardcover" \in Parallel
  BY RegistryAssumption DEF Sources
<1>4. pc \in {"gather", "cancelled", "gone"} /\ UNCHANGED <<pc, gb, client>>
  BY <1>3 DEF FindTitle, SearchInv, Waiting
<1>5. src' = [src EXCEPT !["hardcover"] = r]
  BY <1>1
<1> HIDE DEF r
<1> QED
  BY <1>2, <1>3, <1>4, <1>5, SourceMoves

\* The search itself goes on, with no source and no Google request under way that
\* it does not wait for.
LEMMA SearchMoves ==
    ASSUME SearchInv, UNCHANGED <<src, client>>, GoogleInv', pc' \in SearchPlaces,
           client = "closed" => pc' \in Over,
           (\E s \in Parallel : Waiting(src[s])) => pc' \in {"gather", "cancelled", "gone"},
           gb'.pc \in {"asking", "waiting", "covers"} => pc' \in {"google", "cancelled"},
           gb'.pc = "stopped" => pc' \in Leaving
    PROVE  SearchInv'
BY DEF SearchInv, SourcesInv

\* What is under way, in the words of the invariant.
LEMMA UnderwayIs == Underway # {} <=> \E s \in Parallel : Waiting(src[s])
BY DEF Underway, Waiting

\* The steps of the search that leave Google's request as it is.
LEMMA ProceedKeeps == ASSUME SearchInv, Proceed \/ Disconnect \/ CloseClient PROVE SearchInv'
<1>1. UNCHANGED gb => GoogleInv'
  BY DEF SearchInv, GoogleInv
<1>2. client = "closed" => pc \in Over
  BY DEF SearchInv
<1>3. /\ (\E s \in Parallel : Waiting(src[s])) => pc \in {"gather", "cancelled", "gone"}
      /\ gb.pc \in {"asking", "waiting", "covers"} => pc \in {"google", "cancelled"}
      /\ gb.pc = "stopped" => pc \in Leaving
  BY DEF SearchInv
<1>4. CASE Gathered
  BY <1>1, <1>2, <1>3, <1>4, UnderwayIs, SearchMoves DEF Gathered, SearchPlaces, Over, Leaving
<1>5. CASE Fallback
  BY <1>1, <1>2, <1>3, <1>5, SearchMoves DEF Fallback, SearchPlaces, Over, Leaving
<1>6. CASE Complete
  BY <1>1, <1>2, <1>3, <1>6, SearchMoves DEF Complete, SearchPlaces, Over, Leaving
<1>7. CASE StopGoogle
  <2>1. /\ gb'.pc = "stopped" /\ UNCHANGED <<pc, src, client>>
        /\ pc = "cancelled"
    BY <1>7 DEF StopGoogle, SearchInv, GoogleInv
  <2>2. GoogleInv'
    BY <1>7 DEF StopGoogle, SearchInv, GoogleInv, GooglePlaces
  <2> QED
    BY <1>2, <1>3, <2>1, <2>2, SearchMoves DEF SearchPlaces, Leaving
<1>8. CASE Stopped
  BY <1>1, <1>2, <1>3, <1>8, UnderwayIs, SearchMoves DEF Stopped, SearchPlaces, Over, Leaving
<1>9. CASE Disconnect
  BY <1>1, <1>2, <1>3, <1>9, SearchMoves DEF Disconnect, SearchPlaces, Over, Leaving
<1>10. CASE CloseClient
  BY <1>1, <1>10 DEF CloseClient, SearchInv, SourcesInv
<1> QED
  BY <1>4, <1>5, <1>6, <1>7, <1>8, <1>9, <1>10, BeginKeeps, FindTitleKeeps DEF Proceed

\* The steps of the Google request.
LEMMA GoogleKeeps == ASSUME SearchInv, GoogleStep PROVE SearchInv'
<1>1. /\ client = "closed" => pc \in Over
      /\ (\E s \in Parallel : Waiting(src[s])) => pc \in {"gather", "cancelled", "gone"}
      /\ gb.pc \in {"asking", "waiting", "covers"} => pc \in {"google", "cancelled"}
      /\ gb.pc = "stopped" => pc \in Leaving
      /\ GoogleInv /\ MaxRetries \in Nat /\ pc \in SearchPlaces
  BY RegistryAssumption DEF SearchInv
<1>2. CASE SkipGoogle
  <2>1. GoogleInv' /\ pc = "google" /\ pc' = "ending" /\ UNCHANGED <<gb, src, client>>
    BY <1>1, <1>2 DEF SkipGoogle, GoogleAt, GoogleInv
  <2>2. gb.pc = "idle"
    BY <1>2 DEF SkipGoogle, GoogleAt
  <2> QED
    BY <1>1, <2>1, <2>2, SearchMoves DEF SearchPlaces, Over
<1>3. CASE AskGoogle
  <2>1. pc = "google" /\ UNCHANGED <<pc, src, client>> /\ gb'.pc = "asking"
    BY <1>1, <1>3 DEF AskGoogle, GoogleAt, NoGoogle, GoogleInv
  <2>2. GoogleInv'
    <3>1. gb' = [pc |-> "asking", attempts |-> 1, items |-> <<>>, probes |-> {}]
      BY <1>3 DEF AskGoogle, NoGoogle
    <3> QED
      BY <1>1, <3>1 DEF GoogleInv, GooglePlaces
  <2> QED
    BY <1>1, <2>1, <2>2, SearchMoves DEF Over
<1>4. CASE GoogleBusy
  <2>1. pc = "google" /\ UNCHANGED <<pc, src, client>> /\ gb'.pc = "waiting"
    BY <1>1, <1>4 DEF GoogleBusy, GoogleAt, NoGoogle, GoogleInv
  <2>2. GoogleInv'
    BY <1>1, <1>4 DEF GoogleBusy, GoogleAt, GoogleInv, GooglePlaces
  <2> QED
    BY <1>1, <2>1, <2>2, SearchMoves DEF Over
<1>5. CASE GoogleRetry
  <2>1. pc = "google" /\ UNCHANGED <<pc, src, client>> /\ gb'.pc = "asking"
    BY <1>1, <1>5 DEF GoogleRetry, GoogleAt, NoGoogle, GoogleInv
  <2>2. GoogleInv'
    <3>1. gb' = [gb EXCEPT !.pc = "asking", !.attempts = gb.attempts + 1]
      BY <1>5 DEF GoogleRetry
    <3>2. /\ gb'.pc = "asking" /\ gb'.attempts = gb.attempts + 1
          /\ gb'.items = gb.items /\ gb'.probes = gb.probes
          /\ gb' = [pc |-> gb'.pc, attempts |-> gb'.attempts, items |-> gb'.items,
                    probes |-> gb'.probes]
      BY <1>1, <3>1 DEF GoogleInv
    <3>3. gb.pc = "waiting" /\ gb.probes = {}
      BY <1>1, <1>5 DEF GoogleRetry, GoogleAt, GoogleInv
    <3>4. gb'.attempts \in 0..(MaxRetries + 1)
      BY <1>1, <3>2, <3>3 DEF GoogleInv
    <3> QED
      BY <1>1, <3>2, <3>3, <3>4 DEF GoogleInv, GooglePlaces
  <2> QED
    BY <1>1, <2>1, <2>2, SearchMoves DEF Over
<1>6. CASE GoogleFails
  <2>1. pc = "google" /\ pc' = "ending" /\ UNCHANGED <<src, client>> /\ gb'.pc = "failed"
    BY <1>1, <1>6 DEF GoogleFails, GoogleAt, GoogleInv
  <2>2. GoogleInv'
    BY <1>1, <1>6 DEF GoogleFails, GoogleAt, GoogleInv, GooglePlaces
  <2> QED
    BY <1>1, <2>1, <2>2, SearchMoves DEF SearchPlaces, Over
<1>7. CASE GoogleAnswer
  <2>1. pc = "google" /\ UNCHANGED <<pc, src, client>> /\ gb'.pc = "covers"
    BY <1>1, <1>7 DEF GoogleAnswer, GoogleAt, NoGoogle, GoogleInv
  <2>2. GoogleInv'
    <3>1. PICK items \in Replies[Google] :
             gb' = [gb EXCEPT !.pc = "covers", !.items = items,
                              !.probes = {k \in DOMAIN items : items[k].titled}]
      BY <1>7 DEF GoogleAnswer
    <3>2. /\ gb'.pc = "covers" /\ gb'.items = items /\ gb'.attempts = gb.attempts
          /\ gb'.probes = {k \in DOMAIN items : items[k].titled}
          /\ gb' = [pc |-> gb'.pc, attempts |-> gb'.attempts, items |-> gb'.items,
                    probes |-> gb'.probes]
      BY <1>1, <3>1 DEF GoogleInv
    <3>3. gb'.probes \subseteq DOMAIN gb'.items
      BY <3>2
    <3> QED
      BY <1>1, <3>2, <3>3 DEF GoogleInv, GooglePlaces
  <2> QED
    BY <1>1, <2>1, <2>2, SearchMoves DEF Over
<1>8. CASE GoogleGarbled
  <2>1. pc = "google" /\ pc' = "raised" /\ UNCHANGED <<src, client>> /\ gb'.pc = "raised"
    BY <1>1, <1>8 DEF GoogleGarbled, GoogleAt, GoogleInv
  <2>2. GoogleInv'
    BY <1>1, <1>8 DEF GoogleGarbled, GoogleAt, GoogleInv, GooglePlaces
  <2> QED
    BY <1>1, <2>1, <2>2, SearchMoves DEF SearchPlaces, Over
<1>9. CASE GoogleDone
  <2>1. pc = "google" /\ pc' = "ending" /\ UNCHANGED <<src, client>> /\ gb'.pc = "done"
    BY <1>1, <1>9 DEF GoogleDone, GoogleAt, GoogleInv
  <2>2. GoogleInv'
    BY <1>1, <1>9 DEF GoogleDone, GoogleAt, GoogleInv, GooglePlaces
  <2> QED
    BY <1>1, <2>1, <2>2, SearchMoves DEF SearchPlaces, Over
<1>10. ASSUME NEW k \in gb.probes, ProbeEnds(k) PROVE SearchInv'
  <2>1. UNCHANGED <<pc, src, client>> /\ gb'.pc = gb.pc
    BY <1>1, <1>10 DEF ProbeEnds, GoogleInv
  <2>2. GoogleInv'
    BY <1>1, <1>10 DEF ProbeEnds, GoogleInv
  <2> QED
    BY <1>1, <2>1, <2>2, SearchMoves
<1>11. ASSUME NEW k \in gb.probes, ProbeGarbled(k) PROVE SearchInv'
  <2>1. pc = "google" /\ pc' = "raised" /\ UNCHANGED <<src, client>> /\ gb'.pc = "raised"
    BY <1>1, <1>11 DEF ProbeGarbled, GoogleAt, GoogleInv
  <2>2. GoogleInv'
    BY <1>1, <1>11 DEF ProbeGarbled, GoogleAt, GoogleInv, GooglePlaces
  <2> QED
    BY <1>1, <2>1, <2>2, SearchMoves DEF SearchPlaces, Over
<1>12. ASSUME NEW k \in gb.probes, StopProbe(k) PROVE SearchInv'
  <2>1. pc \in Leaving /\ UNCHANGED <<pc, src, client>> /\ gb'.pc = "stopped"
    BY <1>1, <1>12 DEF StopProbe, GoogleInv
  <2>2. GoogleInv'
    BY <1>1, <1>12 DEF StopProbe, GoogleInv, GooglePlaces
  <2> QED
    BY <1>1, <2>1, <2>2, SearchMoves
<1> QED
  BY <1>2, <1>3, <1>4, <1>5, <1>6, <1>7, <1>8, <1>9, <1>10, <1>11, <1>12 DEF GoogleStep

\* Every step of a search keeps the invariant.
LEMMA SearchStep == ASSUME SearchInv, [SearchNext]_searchVars PROVE SearchInv'
<1>1. CASE UNCHANGED searchVars
  BY <1>1 DEF searchVars, SearchInv, SourcesInv, GoogleInv
<1> QED
  BY <1>1, SourceStepKeeps, GoogleKeeps, ProceedKeeps DEF SearchNext

\* No source is asked yet.
LEMMA IdleSearchInv == ASSUME IdleSearch PROVE SearchInv
<1>1. SourcesInv /\ \A s \in Parallel : ~Waiting(src[s])
  BY DEF IdleSearch, Source, SourcesInv, Standing, Waiting, SourcePlaces
<1>2. GoogleInv /\ gb.pc = "idle"
  BY RegistryAssumption DEF IdleSearch, NoGoogle, GoogleInv, GooglePlaces
<1> QED
  BY <1>1, <1>2 DEF IdleSearch, SearchInv, SearchPlaces

\* A search keeps its invariant, whoever answers, fails or goes, and in whatever order.
THEOREM SearchInvariant == SearchSpec => []SearchInv
<1>1. IdleSearch => SearchInv
  BY IdleSearchInv
<1>2. SearchInv /\ [SearchNext]_searchVars => SearchInv'
  BY SearchStep
<1> QED
  BY <1>1, <1>2, PTL DEF SearchSpec

\* The invariant says who may be under way once the search is over.
LEMMA ClosedLast == SearchInv => ClientClosedLast
<1> SUFFICES ASSUME SearchInv, client = "closed", pc # "gone"
             PROVE  Underway = {} /\ (gb.pc = "raised" \/ ~GoogleUnderway)
  BY DEF ClientClosedLast
<1>1. pc \notin {"gather", "google", "cancelled"}
  BY DEF SearchInv, Over
<1>2. Underway = {}
  BY <1>1, UnderwayIs DEF SearchInv
<1>3. gb.pc \notin {"asking", "waiting", "covers"}
  BY <1>1 DEF SearchInv
<1>4. gb.probes # {} => gb.pc = "raised"
  BY <1>1, <1>3 DEF SearchInv, GoogleInv, Leaving
<1> QED
  BY <1>2, <1>3, <1>4 DEF GoogleUnderway

\* The HTTP client that the coroutines of a search share (routers/import_.py) is closed
\* when none of them is under way, except the covers that gather left behind, unless
\* the reader has gone and they have been cancelled.
THEOREM ClientClosedLastAlways == SearchSpec => []ClientClosedLast
BY SearchInvariant, ClosedLast, PTL

-----------------------------------------------------------------------------

(* What has been found. *)

\* What has been found is what was made of the answer that came last.
AnswersInv ==
    /\ reply = [s \in Parallel \cup {Google} |-> reply[s]]
    /\ \A s \in Parallel \cup {Google} : reply[s] = <<>> \/ reply[s] \in Replies[s]
    /\ \A s \in Parallel : src[s].found # <<>> =>
          reply[s] \in Replies[s] /\ src[s].found = Parse(s, reply[s])

\* Whoever finds nothing, or loses what it had not, does not disturb it.
LEMMA NothingFound ==
    ASSUME AnswersInv, UNCHANGED reply,
           \A s \in Parallel : src'[s].found = src[s].found \/ src'[s].found = <<>>
    PROVE  AnswersInv'
BY DEF AnswersInv

\* Google Books is none of the parallel sources.
LEMMA GoogleApart == Google \notin Parallel /\ Parallel = Sources
BY RegistryAssumption DEF Google, Sources

\* Every step of a search keeps it.
LEMMA AnswersStep ==
    ASSUME SearchInv, AnswersInv, [SearchNext]_searchVars
    PROVE  AnswersInv'
<1>1. src = [s \in Parallel |-> src[s]]
  BY DEF SearchInv, SourcesInv
<1>2. CASE UNCHANGED <<src, reply>>
  BY <1>2, NothingFound
<1>3. ASSUME NEW t, NEW p, src' = [src EXCEPT ![t] = Source(p)], UNCHANGED reply
      PROVE  AnswersInv'
  <2>1. \A s \in Parallel : src'[s] = src[s] \/ src'[s] = Source(p)
    BY <1>1, <1>3
  <2>2. \A s \in Parallel : src'[s].found = src[s].found \/ src'[s].found = <<>>
    BY <2>1 DEF Source
  <2> QED
    BY <1>3, <2>2, NothingFound
<1>4. CASE Begin
  <2>1. UNCHANGED reply
    BY <1>4 DEF Begin
  <2>2. ASSUME NEW s \in Parallel
        PROVE  src'[s].found = src[s].found \/ src'[s].found = <<>>
    <3>1. UNCHANGED src \/ \E p : src'[s] = Source(p)
      BY <1>4 DEF Begin
    <3>2. \A p : Source(p).found = <<>>
      BY DEF Source
    <3> QED
      BY <3>1, <3>2
  <2> QED
    BY <2>1, <2>2, NothingFound
<1>5. CASE FindTitle
  <2>1. \E p : src' = [src EXCEPT !["hardcover"] = Source(p)]
    BY <1>5 DEF FindTitle
  <2> QED
    BY <1>3, <1>5, <2>1 DEF FindTitle
<1>6. ASSUME NEW t \in Parallel, SourceStep(t)
      PROVE  AnswersInv'
  <2>1. CASE Answer(t)
    <3>1. PICK answer \in Replies[t] : Answered(t, answer)
      BY <2>1 DEF Answer
    <3>2. /\ reply' = [reply EXCEPT ![t] = answer]
          /\ src' = [src EXCEPT ![t] = [pc |-> "done", found |-> Parse(t, answer)]]
      BY <3>1 DEF Answered
    <3>3. /\ reply' = [s \in Parallel \cup {Google} |-> reply'[s]]
          /\ reply'[t] = answer
          /\ \A s \in (Parallel \cup {Google}) \ {t} : reply'[s] = reply[s]
      BY <3>2 DEF AnswersInv
    <3>4. src'[t].found = Parse(t, answer) /\ \A s \in Parallel \ {t} : src'[s] = src[s]
      BY <1>1, <3>2
    <3> QED
      BY <3>3, <3>4 DEF AnswersInv
  <2>2. CASE FailSource(t)
    BY <1>3, <2>2 DEF FailSource
  <2>3. CASE StopSource(t)
    BY <1>3, <2>3 DEF StopSource
  <2> QED
    BY <1>6, <2>1, <2>2, <2>3 DEF SourceStep
<1>7. CASE GoogleAnswer
  <2>1. PICK items \in Replies[Google] : reply' = [reply EXCEPT ![Google] = items]
    BY <1>7 DEF GoogleAnswer
  <2>2. /\ reply' = [s \in Parallel \cup {Google} |-> reply'[s]]
        /\ reply'[Google] = items
        /\ \A s \in Parallel : reply'[s] = reply[s]
    BY <2>1, GoogleApart DEF AnswersInv
  <2>3. UNCHANGED src
    BY <1>7 DEF GoogleAnswer
  <2> QED
    BY <2>2, <2>3 DEF AnswersInv
<1>8. CASE GoogleStep
  <2>1. GoogleAnswer \/ UNCHANGED <<src, reply>>
    BY <1>8 DEF GoogleStep, SkipGoogle, AskGoogle, GoogleBusy, GoogleRetry, GoogleFails,
                GoogleGarbled, GoogleDone, ProbeEnds, ProbeGarbled, StopProbe
  <2> QED
    BY <1>2, <1>7, <2>1
<1>9. CASE Proceed \/ Disconnect \/ CloseClient
  <2>1. Begin \/ FindTitle \/ UNCHANGED <<src, reply>>
    BY <1>9 DEF Proceed, Gathered, Fallback, Complete, StopGoogle, Stopped, Disconnect,
                CloseClient
  <2> QED
    BY <1>2, <1>4, <1>5, <2>1
<1> QED
  BY <1>2, <1>6, <1>8, <1>9 DEF SearchNext, searchVars

\* Nobody has answered when a search begins.
LEMMA IdleAnswers == ASSUME IdleSearch PROVE AnswersInv
BY DEF IdleSearch, AnswersInv, Source

LEMMA AnswersInvariant == SearchSpec => []AnswersInv
<1>1. IdleSearch => AnswersInv
  BY IdleAnswers
<1>2. SearchInv /\ AnswersInv /\ [SearchNext]_searchVars => AnswersInv'
  BY AnswersStep
<1> QED
  BY <1>1, <1>2, SearchInvariant, PTL DEF SearchSpec

-----------------------------------------------------------------------------

\* The answer of the BnF is a sequence of records.
LEMMA BnfAnswers == AnswersInv => reply["bnf"] \in Seq(BnfRecord)
<1> SUFFICES ASSUME AnswersInv PROVE reply["bnf"] \in Seq(BnfRecord)
  OBVIOUS
<1>1. "bnf" \in Parallel
  BY GoogleApart DEF Sources
<1>2. AnswersOf("bnf") = Seq(BnfRecord)
  BY DEF AnswersOf
<1>3. Replies["bnf"] \subseteq Seq(BnfRecord)
  BY <1>1, <1>2, AnswersAssumption
<1>4. <<>> \in Seq(BnfRecord)
  BY EmptySeq
<1> QED
  BY <1>1, <1>3, <1>4 DEF AnswersInv

LEMMA BestKept == AnswersInv => BestOfBnf
<1> SUFFICES ASSUME AnswersInv PROVE BestOfBnf
  OBVIOUS
<1> DEFINE told == NewArks(Titled(reply["bnf"]))
           kept == BnfKept(reply["bnf"])
           real(r) == {s \in ToSet(told) : SameBnf(r, s) /\ ~s.shell}
<1>1. told \in Seq(BnfRecord) /\ BestSoFar(told, Len(told), kept)
  BY BnfAnswers, BnfBest
<1> HIDE DEF told, kept
<1>2. /\ DOMAIN told = 1..Len(told)
      /\ \A i \in 1..Len(told) : told[i] \in ToSet(told)
      /\ \A r \in ToSet(told) : \E i \in 1..Len(told) : r = told[i]
      /\ \A i \in 1..Len(told) : told[i].rich \in Nat
  <2>1. DOMAIN told = 1..Len(told)
    BY <1>1, LenProperties
  <2>2. \A i \in 1..Len(told) : told[i] \in BnfRecord
    BY <1>1, ElementOfSeq
  <2> QED
    BY <2>1, <2>2 DEF ToSet, BnfRecord
<1>3. ToSet(kept) \subseteq ToSet(told)
  BY <1>1, <1>2 DEF BestSoFar, ToSet
<1>4. \A j, k \in DOMAIN kept : SameBnf(kept[j], kept[k]) => j = k
  BY <1>1 DEF BestSoFar
<1>5. \A r \in ToSet(told) : BnfIsbn(r) # NoIsbn => \E k \in DOMAIN kept : SameBnf(kept[k], r)
  BY <1>1, <1>2 DEF BestSoFar
<1>6. ASSUME NEW k \in DOMAIN kept, real(kept[k]) # {}
      PROVE  kept[k] \in real(kept[k]) /\ ~\E s \in real(kept[k]) : Richer(s, kept[k])
  <2>1. PICK j \in 1..Len(told) : kept[k] = told[j]
    BY <1>1 DEF BestSoFar
  <2>2. ASSUME NEW s \in real(kept[k])
        PROVE  /\ BnfIsbn(kept[k]) # NoIsbn /\ ~kept[k].shell
               /\ ~Richer(s, kept[k])
    <3>1. PICK i \in 1..Len(told) : s = told[i]
      BY <1>2, <2>2
    <3>2. SameBnf(kept[k], told[i]) /\ ~told[i].shell
      BY <2>2, <3>1
    <3>3. ~kept[k].shell /\ kept[k].rich >= told[i].rich
      BY <1>1, <3>2 DEF BestSoFar
    <3>4. told[i].rich \in Nat /\ kept[k].rich \in Nat
      BY <1>2, <2>1
    <3> QED
      BY <3>1, <3>2, <3>3, <3>4 DEF SameBnf, Richer
  <2>3. kept[k] \in real(kept[k])
    BY <1>2, <1>6, <2>1, <2>2 DEF SameBnf
  <2> QED
    BY <2>2, <2>3
<1> QED
  BY <1>3, <1>4, <1>5, <1>6 DEF BestOfBnf, told, kept

\* Whatever records the BnF answers with, in whatever order, the loop of its search
\* (map_bnf_response: seen_arks, then best_by_key) keeps one record of each ISBN, a
\* real one if there is one, and none of the real ones is richer.
THEOREM BestOfBnfAlways == SearchSpec => []BestOfBnf
BY AnswersInvariant, BestKept, PTL

\* A sequence, of whatever its members are.
IsSequence(q) == q \in Seq({q[k] : k \in DOMAIN q})

\* A sequence of candidates of one source.
Candidates(q, s) == IsSequence(q) /\ \A k \in DOMAIN q : q[k].source = s

\* A function on the positions of a sequence is a sequence.
LEMMA SequenceOf ==
    ASSUME NEW X, NEW r \in Seq(X), NEW q, q = [k \in DOMAIN r |-> q[k]]
    PROVE  IsSequence(q)
<1>1. DOMAIN r = 1..Len(r) /\ Len(r) \in Nat
  BY LenProperties
<1> DEFINE Y == {q[k] : k \in DOMAIN q}
<1>2. \A k \in 1..Len(r) : q[k] \in Y
  BY <1>1
<1> HIDE DEF Y
<1>3. q = [k \in 1..Len(r) |-> q[k]]
  BY <1>1
<1>4. q \in [1..Len(r) -> Y]
  BY <1>2, <1>3
<1>5. q \in Seq(Y)
  BY <1>1, <1>4, SeqDef
<1> QED
  BY <1>5 DEF IsSequence, Y

\* Whatever a source answers, its own candidates come of it.
LEMMA ParsedIs ==
    ASSUME NEW s \in Sources, NEW answer \in AnswersOf(s)
    PROVE  Candidates(Parse(s, answer), s)
<1>1. ASSUME NEW X, NEW r \in Seq(X), NEW q, q = [k \in DOMAIN r |-> q[k]],
             \A k \in DOMAIN r : q[k].source = s
      PROVE  Candidates(q, s)
  BY <1>1, SequenceOf DEF Candidates
<1>2. CASE s = "open_library"
  <2> DEFINE docs == Titled(answer)
             q == Parse(s, answer)
  <2>1. PICK X : answer \in Seq(X)
    BY <1>2 DEF AnswersOf
  <2>2. docs \in Seq(X)
    BY <2>1, TitledMembers
  <2>3. q = [k \in DOMAIN docs |-> MapOpenLibrary(docs[k])]
    BY <1>2 DEF Parse, OpenLibrary, Each
  <2>4. \A d : MapOpenLibrary(d).source = "open_library"
    BY DEF MapOpenLibrary, Candidate
  <2> HIDE DEF docs, q
  <2>5. q = [k \in DOMAIN docs |-> q[k]] /\ \A k \in DOMAIN docs : q[k].source = s
    BY <1>2, <2>3, <2>4
  <2>6. Candidates(q, s)
    BY <1>1, <2>2, <2>5
  <2> QED
    BY <2>6 DEF q
<1>3. CASE s = "bnf"
  <2> DEFINE kept == BnfKept(answer)
             q == Parse(s, answer)
  <2>1. answer \in Seq(BnfRecord)
    BY <1>3 DEF AnswersOf
  <2>2. kept \in Seq(BnfRecord)
    BY <2>1, BnfBest DEF BestSoFar
  <2>3. q = [k \in DOMAIN kept |-> MapBnfRecord(kept[k])]
    BY <1>3 DEF Parse, Bnf, Each
  <2>4. \A r : MapBnfRecord(r).source = "bnf"
    BY DEF MapBnfRecord, Candidate
  <2> HIDE DEF kept, q
  <2>5. q = [k \in DOMAIN kept |-> q[k]] /\ \A k \in DOMAIN kept : q[k].source = s
    BY <1>3, <2>3, <2>4
  <2>6. Candidates(q, s)
    BY <1>1, <2>2, <2>5
  <2> QED
    BY <2>6 DEF q
<1>4. CASE s = "inventaire"
  <2> DEFINE q == Parse(s, answer)
  <2>1. q = <<>> \/ \E e : q = <<MapInventaire(e)>>
    BY <1>4 DEF Parse, Inventaire
  <2>2. \A e : MapInventaire(e).source = "inventaire"
    BY DEF MapInventaire, Candidate
  <2> HIDE DEF q
  <2>3. ASSUME q = <<>> PROVE Candidates(q, s)
    <3>1. \A Y : <<>> \in Seq(Y)
      BY EmptySeq
    <3>2. DOMAIN q = {}
      BY <2>3
    <3> QED
      BY <2>3, <3>1, <3>2 DEF Candidates, IsSequence
  <2>4. ASSUME NEW e, q = <<MapInventaire(e)>>
        PROVE  Candidates(q, s)
    BY <1>4, <2>2, <2>4 DEF Candidates, IsSequence
  <2>5. ASSUME \E e : q = <<MapInventaire(e)>> PROVE Candidates(q, s)
    <3>1. PICK e : q = <<MapInventaire(e)>>
      BY <2>5
    <3> QED
      BY <2>4, <3>1
  <2>6. Candidates(q, s)
    BY <2>1, <2>3, <2>5
  <2> QED
    BY <2>6 DEF q
<1>5. CASE s = "library_of_congress"
  <2> DEFINE told == Titled(answer)
             q == Parse(s, answer)
  <2>1. told \in Seq(LocRecord)
    BY <1>5, TitledMembers DEF AnswersOf
  <2>2. q = [k \in DOMAIN told |-> MapLocRecord(told[k])]
    BY <1>5 DEF Parse, LibraryOfCongress, Each
  <2>3. \A r : MapLocRecord(r).source = "library_of_congress"
    BY DEF MapLocRecord, Candidate
  <2> HIDE DEF told, q
  <2>4. q = [k \in DOMAIN told |-> q[k]] /\ \A k \in DOMAIN told : q[k].source = s
    BY <1>5, <2>2, <2>3
  <2>5. Candidates(q, s)
    BY <1>1, <2>1, <2>4
  <2> QED
    BY <2>5 DEF q
<1>6. CASE s = "dnb"
  <2> DEFINE told == Titled(answer)
             q == Parse(s, answer)
  <2>1. told \in Seq(DnbRecord)
    BY <1>6, TitledMembers DEF AnswersOf
  <2>2. q = [k \in DOMAIN told |-> MapDnbRecord(told[k])]
    BY <1>6 DEF Parse, Dnb, Each
  <2>3. \A r : MapDnbRecord(r).source = "dnb"
    BY DEF MapDnbRecord, Candidate
  <2> HIDE DEF told, q
  <2>4. q = [k \in DOMAIN told |-> q[k]] /\ \A k \in DOMAIN told : q[k].source = s
    BY <1>6, <2>2, <2>3
  <2>5. Candidates(q, s)
    BY <1>1, <2>1, <2>4
  <2> QED
    BY <2>5 DEF q
<1>7. CASE s = "hardcover"
  <2> DEFINE told == Titled(answer)
             new(k) == \/ told[k].isbn = NoIsbn
                       \/ \A j \in 1..(k - 1) : MapHardcover(told[j]) # MapHardcover(told[k])
             I == {k \in DOMAIN told : new(k)}
             kept == Kept(told, I)
             q == Parse(s, answer)
  <2>1. PICK X : answer \in Seq(X)
    BY <1>7 DEF AnswersOf
  <2>2. told \in Seq(X)
    BY <2>1, TitledMembers
  <2>3. q = [k \in DOMAIN kept |-> MapHardcover(kept[k])]
    BY <1>7 DEF Parse, Hardcover, Each
  <2>4. \A r : MapHardcover(r).source = "hardcover"
    BY DEF MapHardcover, Candidate
  <2>5. I \in SUBSET (DOMAIN told)
    OBVIOUS
  <2> HIDE DEF told, I, q
  <2>6. kept \in Seq(X)
    BY <2>2, <2>5, KeptMembers
  <2> HIDE DEF kept
  <2>7. q = [k \in DOMAIN kept |-> q[k]] /\ \A k \in DOMAIN kept : q[k].source = s
    BY <1>7, <2>3, <2>4
  <2>8. Candidates(q, s)
    BY <1>1, <2>6, <2>7
  <2> QED
    BY <2>8 DEF q
<1> QED
  BY <1>2, <1>3, <1>4, <1>5, <1>6, <1>7 DEF Sources

\* And of Google's items.
LEMMA GoogleBooksIs ==
    ASSUME NEW items \in Seq(GoogleItem)
    PROVE  Candidates(GoogleBooks(items), Google)
<1> DEFINE told == Titled(items)
           q == GoogleBooks(items)
<1>1. told \in Seq(GoogleItem)
  BY TitledMembers
<1>2. q = [k \in DOMAIN told |-> [MapGoogle(told[k]) EXCEPT !.ref = BestCover(told[k])]]
  BY DEF GoogleBooks, Each
<1>3. \A i, u : [MapGoogle(i) EXCEPT !.ref = u].source = Google
  BY DEF MapGoogle, Candidate, Google
<1> HIDE DEF told, q
<1>4. q = [k \in DOMAIN told |-> q[k]] /\ \A k \in DOMAIN told : q[k].source = Google
  BY <1>2, <1>3
<1>5. Candidates(q, Google)
  BY <1>1, <1>4, SequenceOf DEF Candidates
<1> QED
  BY <1>5 DEF q

\* What is found comes of an answer of the shape its source has.
LEMMA FoundOf ==
    ASSUME AnswersInv, NEW s \in Parallel, src[s].found # <<>>
    PROVE  s \in Sources /\ reply[s] \in AnswersOf(s) /\ src[s].found = Parse(s, reply[s])
BY GoogleApart, AnswersAssumption DEF AnswersInv

\* The candidates of the library catalogues have ISBN-13s or none.
LEMMA BnfLooksUp ==
    ASSUME NEW answer \in AnswersOf("bnf"), NEW k \in DOMAIN Parse("bnf", answer)
    PROVE  Parse("bnf", answer)[k].isbn \in Isbns \cup {NoIsbn}
<1> DEFINE kept == BnfKept(answer)
<1>1. answer \in Seq(BnfRecord)
  BY DEF AnswersOf
<1>2. kept \in Seq(BnfRecord)
  BY <1>1, BnfBest DEF BestSoFar
<1>3. Parse("bnf", answer) = [j \in DOMAIN kept |-> MapBnfRecord(kept[j])]
  BY DEF Parse, Bnf, Each
<1> HIDE DEF kept
<1>4. k \in DOMAIN kept /\ Parse("bnf", answer)[k] = MapBnfRecord(kept[k])
  BY <1>3
<1>5. kept[k].isbns \in Seq(RawIsbns)
  <2>1. kept[k] \in BnfRecord
    BY <1>2, <1>4, LenProperties, ElementOfSeq
  <2> QED
    BY <2>1 DEF BnfRecord
<1>6. MapBnfRecord(kept[k]).isbn = FirstIsbn(kept[k].isbns)
  BY DEF MapBnfRecord, Candidate, BnfIsbn
<1> QED
  BY <1>4, <1>5, <1>6, FirstIsbnFound

LEMMA InventaireLooksUp ==
    ASSUME NEW answer \in AnswersOf("inventaire"), NEW k \in DOMAIN Parse("inventaire", answer)
    PROVE  Parse("inventaire", answer)[k].isbn \in Isbns \cup {NoIsbn}
<1> DEFINE editions == EditionOf(answer)
           e == Head(editions)
<1>1. answer \in [redirect : Seq(Entity), entities : Seq(Entity)]
  BY DEF AnswersOf
<1>2. answer.redirect \in Seq(Entity) /\ answer.entities \in Seq(Entity)
  BY <1>1
<1>3. editions \in Seq(Entity)
  <2> DEFINE I == {j \in DOMAIN answer.entities : answer.entities[j].edition}
  <2>1. I \in SUBSET (DOMAIN answer.entities)
    OBVIOUS
  <2>2. editions = IF answer.redirect # <<>> THEN answer.redirect ELSE Kept(answer.entities, I)
    BY DEF EditionOf
  <2> HIDE DEF I, editions
  <2> QED
    BY <1>2, <2>1, <2>2, KeptMembers
<1>4. Parse("inventaire", answer)
      = IF editions = <<>> \/ ~e.titled THEN <<>> ELSE <<MapInventaire(e)>>
  BY DEF Parse, Inventaire
<1> HIDE DEF editions
<1>5. editions # <<>> /\ Parse("inventaire", answer)[k] = MapInventaire(e)
  BY <1>4
<1>6. e \in Entity
  BY <1>3, <1>5, HeadTailProperties
<1> HIDE DEF e
<1>7. e.isbns \in Seq(RawIsbns) /\ e.uri \in RawIsbns \cup {NoIsbn}
  BY <1>6 DEF Entity
<1>8. FirstIsbn(e.isbns) \in Isbns \cup {NoIsbn}
  BY <1>7, FirstIsbnFound
<1>9. InventaireIsbn(e) \in Isbns \cup {NoIsbn}
  BY <1>7, <1>8, IsbnAssumption DEF InventaireIsbn
<1>10. MapInventaire(e).isbn = InventaireIsbn(e)
  BY DEF MapInventaire, Candidate
<1> QED
  BY <1>5, <1>9, <1>10

LEMMA LocLooksUp ==
    ASSUME NEW answer \in AnswersOf("library_of_congress"),
           NEW k \in DOMAIN Parse("library_of_congress", answer)
    PROVE  Parse("library_of_congress", answer)[k].isbn \in Isbns \cup {NoIsbn}
<1> DEFINE told == Titled(answer)
<1>1. told \in Seq(LocRecord)
  BY TitledMembers DEF AnswersOf
<1>2. Parse("library_of_congress", answer) = [j \in DOMAIN told |-> MapLocRecord(told[j])]
  BY DEF Parse, LibraryOfCongress, Each
<1> HIDE DEF told
<1>3. k \in DOMAIN told /\ Parse("library_of_congress", answer)[k] = MapLocRecord(told[k])
  BY <1>2
<1>4. told[k].typed \in Seq(RawIsbns) /\ told[k].untyped \in Seq(RawIsbns)
  <2>1. told[k] \in LocRecord
    BY <1>1, <1>3, LenProperties, ElementOfSeq
  <2> QED
    BY <2>1 DEF LocRecord
<1>5. told[k].typed \o told[k].untyped \in Seq(RawIsbns)
  BY <1>4, ConcatProperties
<1>6. MapLocRecord(told[k]).isbn = FirstIsbn(told[k].typed \o told[k].untyped)
  BY DEF MapLocRecord, Candidate, LocIsbn
<1> QED
  BY <1>3, <1>5, <1>6, FirstIsbnFound

LEMMA DnbLooksUp ==
    ASSUME NEW answer \in AnswersOf("dnb"), NEW k \in DOMAIN Parse("dnb", answer)
    PROVE  LET isbn == Parse("dnb", answer)[k].isbn IN
           /\ isbn \in Isbns \cup {NoIsbn}
           /\ isbn # NoIsbn =>
                 \E r \in ToSet(answer) : \E f \in ToSet(r.fields) :
                     ~f.qualified /\ \E raw \in ToSet(f.isbns) : Normal[raw] = isbn
<1> DEFINE told == Titled(answer)
<1>1. answer \in Seq(DnbRecord)
  BY DEF AnswersOf
<1>2. told \in Seq(DnbRecord) /\ \A n \in DOMAIN told : \E j \in DOMAIN answer : told[n] = answer[j]
  BY <1>1, TitledMembers
<1>3. Parse("dnb", answer) = [j \in DOMAIN told |-> MapDnbRecord(told[j])]
  BY DEF Parse, Dnb, Each
<1> HIDE DEF told
<1>4. k \in DOMAIN told /\ Parse("dnb", answer)[k] = MapDnbRecord(told[k])
  BY <1>3
<1>5. MapDnbRecord(told[k]).isbn = DnbIsbn(told[k])
  BY DEF MapDnbRecord, Candidate
<1>6. told[k] \in DnbRecord /\ told[k] \in ToSet(answer)
  BY <1>2, <1>4, LenProperties, ElementOfSeq DEF ToSet
<1>7. Parse("dnb", answer)[k].isbn = DnbIsbn(told[k])
  BY <1>4, <1>5
<1>8. /\ DnbIsbn(told[k]) \in Isbns \cup {NoIsbn}
      /\ DnbIsbn(told[k]) # NoIsbn =>
            \E f \in ToSet(told[k].fields) :
                ~f.qualified /\ \E raw \in ToSet(f.isbns) : Normal[raw] = DnbIsbn(told[k])
  BY <1>6, DnbIsbnFound
<1> QED
  BY <1>6, <1>7, <1>8

\* So have all candidates of a search.
LEMMA LooksUp == AnswersInv => IsbnsLookUp
<1> SUFFICES ASSUME AnswersInv, NEW s \in Particular, NEW k \in DOMAIN src[s].found
             PROVE  LET c == src[s].found[k] IN
                    /\ c.isbn \in Isbns \cup {NoIsbn}
                    /\ s = "dnb" /\ c.isbn # NoIsbn =>
                          \E r \in ToSet(reply[s]) : \E f \in ToSet(r.fields) :
                              ~f.qualified /\ \E raw \in ToSet(f.isbns) : Normal[raw] = c.isbn
  BY DEF IsbnsLookUp
<1>1. s \in Parallel
  BY GoogleApart DEF Particular, Sources
<1>2. src[s].found # <<>>
  OBVIOUS
<1>3. reply[s] \in AnswersOf(s) /\ src[s].found = Parse(s, reply[s])
  BY <1>1, <1>2, FoundOf
<1>4. CASE s = "bnf"
  BY <1>3, <1>4, BnfLooksUp
<1>5. CASE s = "inventaire"
  BY <1>3, <1>5, InventaireLooksUp
<1>6. CASE s = "library_of_congress"
  BY <1>3, <1>6, LocLooksUp
<1>7. CASE s = "dnb"
  BY <1>3, <1>7, DnbLooksUp
<1> QED
  BY <1>4, <1>5, <1>6, <1>7 DEF Particular

\* Whatever the library catalogues answer, what their mappers make of it can be looked
\* up again: an ISBN-13 that normalize_isbn takes or none, and the DNB's stands in a
\* field that its record does not call wrong.
THEOREM IsbnsLookUpAlways == SearchSpec => []IsbnsLookUp
BY AnswersInvariant, LooksUp, PTL

-----------------------------------------------------------------------------

(* What a stream tells. *)

EventRow ==
    [stage : Parallel \cup {Google}, status : {"searching", "skipped", "error", "done"},
     count : Nat]

\* Askings, Verdicts and Own of any events and candidates.
AskingsIn(E, s) == {k \in DOMAIN E : E[k].stage = s /\ E[k].status = "searching"}
VerdictsIn(E, s) == {k \in DOMAIN E : E[k].stage = s /\ E[k].status # "searching"}
OwnIn(R, s) == {k \in DOMAIN R : R[k].source = s}

\* All of them of one source.
EventsAreOf(e, s) == \A k \in DOMAIN e : e[k].stage = s
AreOf(f, s) == \A k \in DOMAIN f : f[k].source = s

\* Of one source the truth is told.
SourceTold(asked, s, E, R) ==
    /\ asked.mode = "auto" /\ s \in asked.enabled => \E k \in DOMAIN E :
          /\ VerdictsIn(E, s) = {k}
          /\ IF E[k].status = "skipped" THEN AskingsIn(E, s) = {}
             ELSE \E j \in 1..(k - 1) : AskingsIn(E, s) = {j}
    /\ \A k \in VerdictsIn(E, s) : E[k].count = Cardinality(OwnIn(R, s))
    /\ OwnIn(R, s) # {} => VerdictsIn(E, s) # {}

\* Two sequences, one after the other.
LEMMA Joined ==
    ASSUME NEW X, NEW E \in Seq(X), NEW e \in Seq(X)
    PROVE  /\ E \o e \in Seq(X)
           /\ Len(E) \in Nat /\ Len(e) \in Nat
           /\ DOMAIN E = 1..Len(E) /\ DOMAIN e = 1..Len(e)
           /\ DOMAIN (E \o e) = 1..(Len(E) + Len(e))
           /\ \A k \in 1..Len(E) : (E \o e)[k] = E[k]
           /\ \A k \in 1..Len(e) : (E \o e)[Len(E) + k] = e[k]
           /\ \A k \in 1..(Len(E) + Len(e)) :
                 k \in 1..Len(E) \/ \E j \in 1..Len(e) : k = Len(E) + j
<1> DEFINE m == Len(E)
           n == Len(e)
           q == E \o e
<1>1. m \in Nat /\ n \in Nat /\ DOMAIN E = 1..m /\ DOMAIN e = 1..n
  BY LenProperties
<1>2. q \in Seq(X) /\ Len(q) = m + n
      /\ \A k \in 1..(m + n) : q[k] = IF k <= m THEN E[k] ELSE e[k - m]
  BY ConcatProperties
<1>3. DOMAIN q = 1..(m + n)
  BY <1>2, LenProperties
<1> HIDE DEF m, n, q
<1>4. \A k \in 1..m : q[k] = E[k]
  BY <1>1, <1>2
<1>5. ASSUME NEW k \in 1..n
      PROVE  q[m + k] = e[k]
  <2>1. m + k \in 1..(m + n) /\ ~(m + k <= m) /\ (m + k) - m = k
    BY <1>1
  <2> QED
    BY <1>2, <2>1
<1>6. ASSUME NEW k \in 1..(m + n)
      PROVE  k \in 1..m \/ \E j \in 1..n : k = m + j
  <2>1. k \in 1..m \/ (k - m \in 1..n /\ k = m + (k - m))
    BY <1>1
  <2> QED
    BY <2>1
<1> QED
  BY <1>1, <1>2, <1>3, <1>4, <1>5, <1>6 DEF m, n, q

\* The members of the two.
LEMMA JoinedMembers ==
    ASSUME NEW X, NEW E \in Seq(X), NEW e \in Seq(X)
    PROVE  /\ DOMAIN E \subseteq DOMAIN (E \o e)
           /\ \A k \in DOMAIN E : (E \o e)[k] = E[k]
           /\ \A k \in DOMAIN (E \o e) :
                 k \in DOMAIN E \/ \E j \in DOMAIN e : (E \o e)[k] = e[j]
<1>1. /\ Len(E) \in Nat /\ Len(e) \in Nat
      /\ DOMAIN E = 1..Len(E) /\ DOMAIN e = 1..Len(e)
      /\ DOMAIN (E \o e) = 1..(Len(E) + Len(e))
      /\ \A k \in 1..Len(E) : (E \o e)[k] = E[k]
      /\ \A k \in 1..Len(e) : (E \o e)[Len(E) + k] = e[k]
      /\ \A k \in 1..(Len(E) + Len(e)) :
            k \in 1..Len(E) \/ \E j \in 1..Len(e) : k = Len(E) + j
  BY Joined
<1> DEFINE q == E \o e
           m == Len(E)
           n == Len(e)
<1>2. /\ m \in Nat /\ n \in Nat
      /\ DOMAIN E = 1..m /\ DOMAIN e = 1..n
      /\ DOMAIN q = 1..(m + n)
      /\ \A k \in 1..m : q[k] = E[k]
      /\ \A k \in 1..n : q[m + k] = e[k]
      /\ \A k \in 1..(m + n) : k \in 1..m \/ \E j \in 1..n : k = m + j
  BY <1>1
<1> HIDE DEF q, m, n
<1>3. 1..m \subseteq 1..(m + n)
  BY <1>2
<1>4. DOMAIN E \subseteq DOMAIN q /\ \A k \in DOMAIN E : q[k] = E[k]
  BY <1>2, <1>3
<1>5. ASSUME NEW k \in DOMAIN q
      PROVE  k \in DOMAIN E \/ \E j \in DOMAIN e : q[k] = e[j]
  <2>1. k \in 1..(m + n)
    BY <1>2
  <2>2. CASE k \in 1..m
    BY <1>2, <2>2
  <2>3. CASE \E j \in 1..n : k = m + j
    <3>1. PICK j \in 1..n : k = m + j
      BY <2>3
    <3>2. q[k] = e[j]
      BY <1>2, <3>1
    <3> QED
      BY <1>2, <3>2
  <2> QED
    BY <1>2, <2>1, <2>2, <2>3
<1> QED
  BY <1>4, <1>5 DEF q

\* The candidates of one source do not touch those of another.
LEMMA OwnUntouched ==
    ASSUME NEW X, NEW R \in Seq(X), NEW f \in Seq(X), NEW s, NEW t, s # t, AreOf(f, s)
    PROVE  OwnIn(R \o f, t) = OwnIn(R, t)
<1> DEFINE Rf == R \o f
<1>1. /\ DOMAIN R \subseteq DOMAIN Rf
      /\ \A k \in DOMAIN R : Rf[k] = R[k]
      /\ \A k \in DOMAIN Rf : k \in DOMAIN R \/ Rf[k].source = s
  <2>1. /\ DOMAIN R \subseteq DOMAIN (R \o f)
        /\ \A k \in DOMAIN R : (R \o f)[k] = R[k]
        /\ \A k \in DOMAIN (R \o f) :
              k \in DOMAIN R \/ \E j \in DOMAIN f : (R \o f)[k] = f[j]
    BY JoinedMembers
  <2> QED
    BY <2>1 DEF AreOf
<1> HIDE DEF Rf
<1>2. OwnIn(Rf, t) = OwnIn(R, t)
  BY <1>1 DEF OwnIn
<1> QED
  BY <1>2 DEF Rf

\* What is told of one source does not touch what was told of another.
LEMMA OthersTold ==
    ASSUME NEW X, NEW E \in Seq(EventRow), NEW e \in Seq(EventRow),
           NEW R \in Seq(X), NEW f \in Seq(X), NEW s, NEW t, s # t,
           EventsAreOf(e, s), AreOf(f, s),
           SourceTold(query, t, E, R)
    PROVE  SourceTold(query, t, E \o e, R \o f)
<1> DEFINE Ee == E \o e
           Rf == R \o f
<1>1. /\ DOMAIN E \subseteq DOMAIN Ee
      /\ \A k \in DOMAIN E : Ee[k] = E[k]
      /\ \A k \in DOMAIN Ee : k \in DOMAIN E \/ Ee[k].stage = s
  <2>1. /\ DOMAIN E \subseteq DOMAIN (E \o e)
        /\ \A k \in DOMAIN E : (E \o e)[k] = E[k]
        /\ \A k \in DOMAIN (E \o e) :
              k \in DOMAIN E \/ \E j \in DOMAIN e : (E \o e)[k] = e[j]
    BY JoinedMembers
  <2> QED
    BY <2>1 DEF EventsAreOf
<1>2. OwnIn(Rf, t) = OwnIn(R, t)
  BY OwnUntouched
<1> HIDE DEF Ee, Rf
<1>3. /\ VerdictsIn(Ee, t) = VerdictsIn(E, t)
      /\ AskingsIn(Ee, t) = AskingsIn(E, t)
  BY <1>1 DEF VerdictsIn, AskingsIn
<1>4. \A k \in VerdictsIn(E, t) : k \in DOMAIN E
  BY DEF VerdictsIn
<1>5. SourceTold(query, t, Ee, Rf)
  BY <1>1, <1>2, <1>3, <1>4 DEF SourceTold
<1> QED
  BY <1>5 DEF Ee, Rf

\* The candidates of one source, after those of others.
LEMMA OwnAfter ==
    ASSUME NEW X, NEW R \in Seq(X), NEW f \in Seq(X), NEW s,
           \A k \in DOMAIN R : R[k].source # s,
           \A k \in DOMAIN f : f[k].source = s
    PROVE  /\ Cardinality(OwnIn(R \o f, s)) = Len(f)
           /\ f = <<>> => OwnIn(R \o f, s) = {}
<1> DEFINE m == Len(R)
           n == Len(f)
           q == R \o f
<1>0. /\ Len(R) \in Nat /\ Len(f) \in Nat
      /\ DOMAIN R = 1..Len(R) /\ DOMAIN f = 1..Len(f)
      /\ DOMAIN (R \o f) = 1..(Len(R) + Len(f))
      /\ \A k \in 1..Len(R) : (R \o f)[k] = R[k]
      /\ \A k \in 1..Len(f) : (R \o f)[Len(R) + k] = f[k]
  BY Joined
<1>1. /\ m \in Nat /\ n \in Nat
      /\ DOMAIN R = 1..m /\ DOMAIN f = 1..n
      /\ DOMAIN q = 1..(m + n)
      /\ \A k \in 1..m : q[k] = R[k]
      /\ \A k \in 1..n : q[m + k] = f[k]
  BY <1>0
<1> HIDE DEF m, n, q
<1>2. OwnIn(q, s) = (m + 1)..(m + n)
  <2>1. ASSUME NEW k \in (m + 1)..(m + n)
        PROVE  k \in OwnIn(q, s)
    <3>1. k \in 1..(m + n) /\ k - m \in 1..n /\ m + (k - m) = k
      BY <1>1
    <3>2. q[k] = f[k - m]
      BY <1>1, <3>1
    <3> QED
      BY <1>1, <3>1, <3>2 DEF OwnIn
  <2>2. ASSUME NEW k \in OwnIn(q, s)
        PROVE  k \in (m + 1)..(m + n)
    <3>1. k \in 1..(m + n) /\ q[k].source = s
      BY <1>1 DEF OwnIn
    <3>2. k \notin 1..m
      BY <1>1, <3>1
    <3> QED
      BY <1>1, <3>1, <3>2
  <2> QED
    BY <2>1, <2>2
<1>3. Cardinality((m + 1)..(m + n)) = n
  <2>1. m + 1 \in Int /\ m + n \in Int
    BY <1>1
  <2>2. Cardinality((m + 1)..(m + n))
        = IF m + 1 > m + n THEN 0 ELSE (m + n) - (m + 1) + 1
    BY <2>1, FS_Interval
  <2> QED
    BY <1>1, <2>2
<1>4. f = <<>> => n = 0
  BY DEF n
<1>5. n = 0 => OwnIn(q, s) = {}
  BY <1>1, <1>2
<1> QED
  BY <1>2, <1>3, <1>4, <1>5 DEF n, q

\* The events of one source, after those of others.
LEMMA EventsAfter ==
    ASSUME NEW E \in Seq(EventRow), NEW e \in Seq(EventRow), NEW s,
           VerdictsIn(E, s) = {}
    PROVE  /\ VerdictsIn(E \o e, s) = {Len(E) + k : k \in VerdictsIn(e, s)}
           /\ AskingsIn(E, s) = {} =>
                 AskingsIn(E \o e, s) = {Len(E) + k : k \in AskingsIn(e, s)}
<1> DEFINE m == Len(E)
           n == Len(e)
           q == E \o e
<1>0. /\ Len(E) \in Nat /\ Len(e) \in Nat
      /\ DOMAIN E = 1..Len(E) /\ DOMAIN e = 1..Len(e)
      /\ DOMAIN (E \o e) = 1..(Len(E) + Len(e))
      /\ \A k \in 1..Len(E) : (E \o e)[k] = E[k]
      /\ \A k \in 1..Len(e) : (E \o e)[Len(E) + k] = e[k]
      /\ \A k \in 1..(Len(E) + Len(e)) :
            k \in 1..Len(E) \/ \E j \in 1..Len(e) : k = Len(E) + j
  BY Joined
<1>1. /\ m \in Nat /\ n \in Nat
      /\ DOMAIN E = 1..m /\ DOMAIN e = 1..n
      /\ DOMAIN q = 1..(m + n)
      /\ \A k \in 1..m : q[k] = E[k]
      /\ \A k \in 1..n : q[m + k] = e[k]
      /\ \A k \in 1..(m + n) : k \in 1..m \/ \E j \in 1..n : k = m + j
  BY <1>0
<1> HIDE DEF m, n, q
<1>2. \A k \in 1..n : m + k \in DOMAIN q
  BY <1>1
<1>3. ASSUME NEW V, NEW W, NEW Z, V \subseteq DOMAIN q, W \subseteq 1..n,
             Z = {m + k : k \in W},
             \A k \in 1..m : k \notin V, \A k \in 1..n : m + k \in V <=> k \in W
      PROVE  V = Z
  <2>1. ASSUME NEW k \in V PROVE k \in Z
    <3>1. PICK j \in 1..n : k = m + j
      BY <1>1, <1>3
    <3> QED
      BY <1>3, <3>1
  <2>2. ASSUME NEW k \in Z PROVE k \in V
    <3>1. PICK j \in W : k = m + j
      BY <1>3
    <3> QED
      BY <1>3, <3>1
  <2> QED
    BY <2>1, <2>2
<1>4. VerdictsIn(q, s) = {m + k : k \in VerdictsIn(e, s)}
  <2>1. /\ VerdictsIn(q, s) \subseteq DOMAIN q /\ VerdictsIn(e, s) \subseteq 1..n
        /\ \A k \in 1..m : k \notin VerdictsIn(q, s)
        /\ \A k \in 1..n : m + k \in VerdictsIn(q, s) <=> k \in VerdictsIn(e, s)
    BY <1>1, <1>2 DEF VerdictsIn
  <2> QED
    BY <1>3, <2>1
<1>5. ASSUME AskingsIn(E, s) = {}
      PROVE  AskingsIn(q, s) = {m + k : k \in AskingsIn(e, s)}
  <2>1. /\ AskingsIn(q, s) \subseteq DOMAIN q /\ AskingsIn(e, s) \subseteq 1..n
        /\ \A k \in 1..m : k \notin AskingsIn(q, s)
        /\ \A k \in 1..n : m + k \in AskingsIn(q, s) <=> k \in AskingsIn(e, s)
    BY <1>1, <1>2, <1>5 DEF AskingsIn
  <2> QED
    BY <1>3, <2>1
<1> QED
  BY <1>4, <1>5 DEF m, q

\* What a source says of itself.
LEMMA EventsSay ==
    ASSUME SourcesInv, NEW s \in Parallel, IsSequence(src[s].found)
    PROVE  LET e == EventsOf(s) IN
           /\ e \in Seq(EventRow)
           /\ \A k \in DOMAIN e : e[k].stage = s
           /\ src[s].pc = "off" => VerdictsIn(e, s) = {} /\ src[s].found = <<>>
           /\ src[s].pc = "skipped" =>
                 VerdictsIn(e, s) = {1} /\ AskingsIn(e, s) = {} /\ e[1].status = "skipped"
           /\ src[s].pc \notin {"off", "skipped"} =>
                 VerdictsIn(e, s) = {2} /\ AskingsIn(e, s) = {1} /\ e[2].status # "skipped"
           /\ \A k \in VerdictsIn(e, s) : e[k].count = Len(src[s].found)
<1> DEFINE e == EventsOf(s)
           p == src[s].pc
           n == Len(src[s].found)
<1>1. n \in Nat
  BY LenProperties DEF IsSequence
<1>2. p # "done" => src[s].found = <<>>
  BY DEF SourcesInv, Standing
<1>3. p # "done" => n = 0
  BY <1>2
<1>4. e = IF p = "off" THEN <<>>
          ELSE IF p = "skipped" THEN <<Event(s, "skipped", 0)>>
          ELSE IF p = "failed" THEN <<Event(s, "searching", 0), Event(s, "error", 0)>>
          ELSE <<Event(s, "searching", 0), Event(s, "done", n)>>
  BY DEF EventsOf
<1> HIDE DEF e, p, n
<1>6. CASE p = "off"
  <2>1. e = <<>> /\ e \in Seq(EventRow) /\ DOMAIN e = {}
    BY <1>4, <1>6
  <2> QED
    BY <1>2, <1>6, <2>1 DEF e, p, VerdictsIn
<1>7. CASE p = "skipped"
  <2> DEFINE x == Event(s, "skipped", 0)
  <2>1. x \in EventRow /\ x.stage = s /\ x.status = "skipped" /\ x.count = 0
    BY DEF Event, EventRow
  <2>2. e = <<x>>
    BY <1>4, <1>7
  <2> HIDE DEF x
  <2>3. e \in Seq(EventRow) /\ DOMAIN e = {1} /\ e[1] = x
    BY <2>1, <2>2
  <2>4. VerdictsIn(e, s) = {1} /\ AskingsIn(e, s) = {}
    BY <2>1, <2>3 DEF VerdictsIn, AskingsIn
  <2> QED
    BY <1>3, <1>7, <2>1, <2>3, <2>4 DEF e, p, n
<1>8. CASE p \notin {"off", "skipped"}
  <2>1. ASSUME NEW st \in {"error", "done"},
               e = <<Event(s, "searching", 0), Event(s, st, n)>>
        PROVE  /\ e \in Seq(EventRow)
               /\ \A k \in DOMAIN e : e[k].stage = s
               /\ VerdictsIn(e, s) = {2} /\ AskingsIn(e, s) = {1}
               /\ e[2].status # "skipped" /\ e[2].count = n
    <3> DEFINE x == Event(s, "searching", 0)
               y == Event(s, st, n)
    <3>1. /\ x \in EventRow /\ x.stage = s /\ x.status = "searching"
          /\ y \in EventRow /\ y.stage = s /\ y.status = st /\ y.count = n
      BY <1>1 DEF Event, EventRow
    <3>2. e = <<x, y>>
      BY <2>1
    <3> HIDE DEF x, y
    <3>3. e \in Seq(EventRow) /\ DOMAIN e = {1, 2} /\ e[1] = x /\ e[2] = y
      BY <3>1, <3>2
    <3>4. VerdictsIn(e, s) = {2}
      BY <3>1, <3>3 DEF VerdictsIn
    <3>5. AskingsIn(e, s) = {1}
      BY <3>1, <3>3 DEF AskingsIn
    <3> QED
      BY <3>1, <3>3, <3>4, <3>5
  <2>2. \E st \in {"error", "done"} : e = <<Event(s, "searching", 0), Event(s, st, n)>>
    BY <1>3, <1>4, <1>8
  <2> QED
    BY <1>8, <2>1, <2>2 DEF e, p, n
<1> QED
  BY <1>6, <1>7, <1>8

\* A source speaks for itself after others have.
LEMMA SourceSpeaks ==
    ASSUME SourcesInv, NEW s \in Parallel, NEW X, NEW E \in Seq(EventRow), NEW R \in Seq(X),
           src[s].found \in Seq(X), Candidates(src[s].found, s),
           \A k \in DOMAIN E : E[k].stage # s,
           \A k \in DOMAIN R : R[k].source # s,
           query.mode = "auto" /\ s \in query.enabled => src[s].pc # "off"
    PROVE  /\ SourceTold(query, s, E \o EventsOf(s), R \o src[s].found)
           /\ Cardinality(OwnIn(R \o src[s].found, s)) = Len(src[s].found)
<1> DEFINE e == EventsOf(s)
           f == src[s].found
           m == Len(E)
           V == VerdictsIn(E \o e, s)
           A == AskingsIn(E \o e, s)
           O == OwnIn(R \o f, s)
<1>1. /\ e \in Seq(EventRow)
      /\ src[s].pc = "off" => VerdictsIn(e, s) = {} /\ f = <<>>
      /\ src[s].pc = "skipped" =>
            VerdictsIn(e, s) = {1} /\ AskingsIn(e, s) = {} /\ e[1].status = "skipped"
      /\ src[s].pc \notin {"off", "skipped"} =>
            VerdictsIn(e, s) = {2} /\ AskingsIn(e, s) = {1} /\ e[2].status # "skipped"
      /\ \A k \in VerdictsIn(e, s) : e[k].count = Len(f)
  BY EventsSay DEF Candidates
<1>2. VerdictsIn(E, s) = {} /\ AskingsIn(E, s) = {}
  BY DEF VerdictsIn, AskingsIn
<1>3. /\ V = {m + k : k \in VerdictsIn(e, s)}
      /\ A = {m + k : k \in AskingsIn(e, s)}
  BY <1>1, <1>2, EventsAfter
<1>4. Cardinality(O) = Len(f) /\ (f = <<>> => O = {})
  BY OwnAfter DEF Candidates
<1>5. /\ m \in Nat
      /\ DOMAIN e = 1..Len(e)
      /\ \A k \in 1..Len(e) : (E \o e)[m + k] = e[k]
  BY <1>1, Joined
<1>6. VerdictsIn(e, s) \subseteq DOMAIN e
  BY DEF VerdictsIn
<1>7. V \subseteq DOMAIN (E \o e)
  BY DEF VerdictsIn
<1> HIDE DEF V, A, O, e, f, m
<1>8. ASSUME NEW k \in V
      PROVE  (E \o e)[k].count = Cardinality(O)
  <2>1. PICK j \in VerdictsIn(e, s) : k = m + j
    BY <1>3
  <2>2. (E \o e)[k] = e[j]
    BY <1>5, <1>6, <2>1
  <2> QED
    BY <1>1, <1>4, <2>1, <2>2
<1>9. CASE src[s].pc = "off"
  <2>1. O = {} /\ ~(query.mode = "auto" /\ s \in query.enabled)
    BY <1>1, <1>4, <1>9
  <2> QED
    BY <1>4, <1>8, <2>1 DEF SourceTold, V, A, O, e, f
<1>10. CASE src[s].pc = "skipped"
  <2>1. V = {m + 1} /\ A = {} /\ (E \o e)[m + 1].status = "skipped"
    BY <1>1, <1>3, <1>5, <1>6, <1>10
  <2>2. m + 1 \in DOMAIN (E \o e)
    BY <1>7, <2>1
  <2> QED
    BY <1>4, <1>8, <2>1, <2>2 DEF SourceTold, V, A, O, e, f
<1>11. CASE src[s].pc \notin {"off", "skipped"}
  <2>1. V = {m + 2} /\ A = {m + 1} /\ (E \o e)[m + 2].status # "skipped"
    BY <1>1, <1>3, <1>5, <1>6, <1>11
  <2>2. m + 2 \in DOMAIN (E \o e)
    BY <1>7, <2>1
  <2>3. m + 1 \in 1..((m + 2) - 1)
    BY <1>5
  <2> QED
    BY <1>4, <1>8, <2>1, <2>2, <2>3 DEF SourceTold, V, A, O, e, f
<1> QED
  BY <1>9, <1>10, <1>11

\* The first n sources of the registry have spoken, each for itself.
SpokenUpTo(n, E, R) ==
    /\ E \in Seq(EventRow)
    /\ \A k \in DOMAIN E : \E j \in 1..n : E[k].stage = Registry[j]
    /\ \A k \in DOMAIN R : \E j \in 1..n : R[k].source = Registry[j]
    /\ \A j \in 1..n : /\ SourceTold(query, Registry[j], E, R)
                       /\ Cardinality(OwnIn(R, Registry[j])) = Len(src[Registry[j]].found)

\* One more of them.
LEMMA OneMoreSpeaks ==
    ASSUME SourcesInv, NEW n \in 0..(Len(Registry) - 1), NEW X, NEW E, NEW R \in Seq(X),
           SpokenUpTo(n, E, R),
           \A s \in Parallel : src[s].found \in Seq(X) /\ Candidates(src[s].found, s),
           \A s \in query.enabled : query.mode = "auto" => src[s].pc # "off"
    PROVE  LET s == Registry[n + 1] IN
           /\ SpokenUpTo(n + 1, E \o EventsOf(s), R \o src[s].found)
           /\ R \o src[s].found \in Seq(X)
<1> DEFINE s == Registry[n + 1]
           e == EventsOf(s)
           f == src[s].found
<1>1. /\ Len(Registry) \in Nat /\ DOMAIN Registry = 1..Len(Registry)
      /\ \A j \in DOMAIN Registry : Registry[j] \in Parallel
      /\ \A j, k \in DOMAIN Registry : Registry[j] = Registry[k] => j = k
  BY RegistryAssumption, LenProperties, ElementOfSeq
<1>2. /\ n \in Nat /\ n + 1 \in DOMAIN Registry
      /\ \A j \in 1..n : j \in DOMAIN Registry /\ j # n + 1
      /\ 1..n \subseteq 1..(n + 1) /\ n + 1 \in 1..(n + 1)
      /\ \A j \in 1..(n + 1) : j \in 1..n \/ j = n + 1
  BY <1>1
<1>3. s \in Parallel /\ \A j \in 1..n : Registry[j] # s
  BY <1>1, <1>2
<1> HIDE DEF s
<1>4. f \in Seq(X) /\ Candidates(f, s) /\ E \in Seq(EventRow)
  BY <1>3 DEF SpokenUpTo
<1>5. e \in Seq(EventRow) /\ \A k \in DOMAIN e : e[k].stage = s
  BY <1>3, <1>4, EventsSay DEF Candidates
<1>6. (\A k \in DOMAIN E : E[k].stage # s) /\ (\A k \in DOMAIN R : R[k].source # s)
  BY <1>3 DEF SpokenUpTo
<1>7. /\ SourceTold(query, s, E \o e, R \o f)
      /\ Cardinality(OwnIn(R \o f, s)) = Len(f)
  BY <1>3, <1>4, <1>6, SourceSpeaks
<1>8. ASSUME NEW j \in 1..n
      PROVE  /\ SourceTold(query, Registry[j], E \o e, R \o f)
             /\ Cardinality(OwnIn(R \o f, Registry[j])) = Len(src[Registry[j]].found)
  <2> DEFINE t == Registry[j]
  <2>1. /\ SourceTold(query, t, E, R) /\ s # t
        /\ Cardinality(OwnIn(R, t)) = Len(src[t].found)
    BY <1>3 DEF SpokenUpTo
  <2>2. AreOf(f, s)
    BY <1>4 DEF Candidates, AreOf
  <2>3. EventsAreOf(e, s)
    BY <1>5 DEF EventsAreOf
  <2>4. E \in Seq(EventRow) /\ e \in Seq(EventRow) /\ f \in Seq(X) /\ R \in Seq(X)
    BY <1>4, <1>5
  <2> HIDE DEF e, f, t
  <2>5. SourceTold(query, t, E \o e, R \o f)
    BY <2>1, <2>2, <2>3, <2>4, OthersTold, Zenon
  <2>6. OwnIn(R \o f, t) = OwnIn(R, t)
    BY <2>1, <2>2, <2>4, OwnUntouched, Zenon
  <2> QED
    BY <2>1, <2>5, <2>6 DEF t
<1>9. E \o e \in Seq(EventRow) /\ R \o f \in Seq(X)
  BY <1>4, <1>5, ConcatProperties
<1> DEFINE q == E \o e
           c == R \o f
<1>10. \A k \in DOMAIN q : \E j \in 1..(n + 1) : q[k].stage = Registry[j]
  <2>1. /\ \A k \in DOMAIN E : q[k] = E[k]
        /\ \A k \in DOMAIN q : k \in DOMAIN E \/ \E j \in DOMAIN e : q[k] = e[j]
    BY <1>4, <1>5, JoinedMembers
  <2> HIDE DEF q, e
  <2> SUFFICES ASSUME NEW k \in DOMAIN q
               PROVE  \E j \in 1..(n + 1) : q[k].stage = Registry[j]
    OBVIOUS
  <2>2. CASE k \in DOMAIN E
    <3>1. PICK j \in 1..n : E[k].stage = Registry[j]
      BY <2>2 DEF SpokenUpTo
    <3> QED
      BY <1>2, <2>1, <2>2, <3>1
  <2>3. CASE \E j \in DOMAIN e : q[k] = e[j]
    <3>1. q[k].stage = s
      BY <1>5, <2>3
    <3> QED
      BY <1>2, <3>1 DEF s
  <2> QED
    BY <2>1, <2>2, <2>3
<1>11. \A k \in DOMAIN c : \E j \in 1..(n + 1) : c[k].source = Registry[j]
  <2>1. /\ \A k \in DOMAIN R : c[k] = R[k]
        /\ \A k \in DOMAIN c : k \in DOMAIN R \/ \E j \in DOMAIN f : c[k] = f[j]
    <3> HIDE DEF f
    <3> QED
      BY <1>4, JoinedMembers
  <2>2. \A k \in DOMAIN f : f[k].source = s
    BY <1>4 DEF Candidates
  <2> HIDE DEF c, f
  <2> SUFFICES ASSUME NEW k \in DOMAIN c
               PROVE  \E j \in 1..(n + 1) : c[k].source = Registry[j]
    OBVIOUS
  <2>3. CASE k \in DOMAIN R
    <3>1. PICK j \in 1..n : R[k].source = Registry[j]
      BY <2>3 DEF SpokenUpTo
    <3> QED
      BY <1>2, <2>1, <2>3, <3>1
  <2>4. CASE \E j \in DOMAIN f : c[k] = f[j]
    <3>1. c[k].source = s
      BY <2>2, <2>4
    <3> QED
      BY <1>2, <3>1 DEF s
  <2> QED
    BY <2>1, <2>3, <2>4
<1> HIDE DEF q, c, e
<1>12. \A j \in 1..(n + 1) :
          /\ SourceTold(query, Registry[j], q, c)
          /\ Cardinality(OwnIn(c, Registry[j])) = Len(src[Registry[j]].found)
  BY <1>2, <1>7, <1>8 DEF s, q, c
<1>13. SpokenUpTo(n + 1, q, c)
  BY <1>9, <1>10, <1>11, <1>12 DEF SpokenUpTo, q
<1> QED
  BY <1>9, <1>13 DEF q, c, e, s

\* All that a stream has told so far, and all it has found.
AllTold(asked, E, R) ==
    /\ E \in Seq(EventRow)
    /\ IsSequence(R)
    /\ \A s \in Parallel \cup {Google} : SourceTold(asked, s, E, R)
    /\ \A k \in DOMAIN R : R[k].source \in Parallel \cup {Google}

\* Nothing is told before anything was found.
LEMMA NothingTold ==
    ASSUME query.mode = "auto" => query.enabled = {}
    PROVE  AllTold(query, <<>>, <<>>) /\ VerdictsIn(<<>>, Google) = {}
<1>1. <<>> \in Seq(EventRow) /\ DOMAIN <<>> = {} /\ IsSequence(<<>>)
  BY EmptySeq DEF IsSequence
<1>2. \A s : VerdictsIn(<<>>, s) = {} /\ OwnIn(<<>>, s) = {}
  BY DEF VerdictsIn, OwnIn
<1>3. \A s : SourceTold(query, s, <<>>, <<>>)
  BY <1>2 DEF SourceTold
<1> QED
  BY <1>1, <1>2, <1>3 DEF AllTold

\* When the sources have come back the stream tells of each, and has what each found.
LEMMA GatheredTells ==
    ASSUME SourcesInv,
           \A s \in Parallel : Candidates(src[s].found, s),
           query.mode = "auto" => \A s \in query.enabled : src[s].pc # "off",
           query.enabled \subseteq Parallel
    PROVE  LET E == FlattenSeq(Each(Registry, EventsOf))
               R == Merged(Registry)
           IN  /\ AllTold(query, E, R) /\ VerdictsIn(E, Google) = {}
               /\ R = <<>> => \A s \in Parallel : src[s].found = <<>>
<1> DEFINE N == Len(Registry)
           X == UNION {{src[s].found[k] : k \in DOMAIN src[s].found} : s \in Parallel}
           es == Each(Registry, EventsOf)
           fs == [k \in DOMAIN Registry |-> src[Registry[k]].found]
<1>1. /\ N \in Nat /\ DOMAIN Registry = 1..N
      /\ \A j \in 1..N : Registry[j] \in Parallel
      /\ \A s \in Parallel : \E j \in 1..N : s = Registry[j]
  BY RegistryAssumption, LenProperties, ElementOfSeq DEF Parallel, ToSet
<1>2. ASSUME NEW s \in Parallel
      PROVE  src[s].found \in Seq(X)
  <2> DEFINE Y == {src[s].found[k] : k \in DOMAIN src[s].found}
  <2>1. src[s].found \in Seq(Y)
    BY DEF Candidates, IsSequence
  <2>2. Y \subseteq X
    OBVIOUS
  <2> HIDE DEF X, Y
  <2> QED
    BY <2>1, <2>2, SeqMonotonic
<1>3. \A s \in Parallel : EventsOf(s) \in Seq(EventRow)
  BY EventsSay DEF Candidates
<1> HIDE DEF X
<1>4. es = [k \in 1..N |-> EventsOf(Registry[k])] /\ es \in Seq(Seq(EventRow)) /\ Len(es) = N
  <2>1. es = [k \in 1..N |-> EventsOf(Registry[k])]
    BY <1>1 DEF Each
  <2> HIDE DEF es, N
  <2> QED
    BY <1>1, <1>3, <2>1
<1>5. fs = [k \in 1..N |-> src[Registry[k]].found] /\ fs \in Seq(Seq(X)) /\ Len(fs) = N
  <2>1. fs = [k \in 1..N |-> src[Registry[k]].found]
    BY <1>1
  <2> HIDE DEF fs, N
  <2> QED
    BY <1>1, <1>2, <2>1
<1>6. Merged(Registry) = FlattenSeq(fs)
  BY DEF Merged, Each
<1> HIDE DEF es, fs
<1>7. PICK ge : /\ ge[0] = <<>>
                /\ \A n \in 0..(Len(es) - 1) : ge[n + 1] = ge[n] \o es[n + 1]
                /\ FlattenSeq(es) = ge[Len(es)]
  BY <1>4, Flattening
<1>8. PICK gf : /\ gf[0] = <<>>
                /\ \A n \in 0..(Len(fs) - 1) : gf[n + 1] = gf[n] \o fs[n + 1]
                /\ FlattenSeq(fs) = gf[Len(fs)]
  BY <1>5, Flattening
<1> DEFINE S == {n \in 0..N : SpokenUpTo(n, ge[n], gf[n]) /\ gf[n] \in Seq(X)}
<1>9. 0 \in S
  <2>1. <<>> \in Seq(X) /\ <<>> \in Seq(EventRow) /\ DOMAIN <<>> = {} /\ 1..0 = {}
    BY EmptySeq
  <2>2. SpokenUpTo(0, <<>>, <<>>)
    BY <2>1 DEF SpokenUpTo
  <2>3. 0 \in 0..N /\ ge[0] = <<>> /\ gf[0] = <<>>
    BY <1>1, <1>7, <1>8
  <2> HIDE DEF N
  <2> QED
    BY <2>1, <2>2, <2>3
<1>10. ASSUME NEW n \in 0..(N - 1), n \in S
       PROVE  n + 1 \in S
  <2> DEFINE s == Registry[n + 1]
  <2>1. n + 1 \in 1..N /\ n + 1 \in 0..N
    BY <1>1
  <2>2. ge[n + 1] = ge[n] \o EventsOf(s) /\ gf[n + 1] = gf[n] \o src[s].found
    BY <1>4, <1>5, <1>7, <1>8, <2>1
  <2>3. SpokenUpTo(n, ge[n], gf[n]) /\ gf[n] \in Seq(X)
    BY <1>10
  <2>4. \A t \in Parallel : src[t].found \in Seq(X) /\ Candidates(src[t].found, t)
    BY <1>2
  <2>5. /\ SpokenUpTo(n + 1, ge[n] \o EventsOf(s), gf[n] \o src[s].found)
        /\ gf[n] \o src[s].found \in Seq(X)
    BY <2>3, <2>4, OneMoreSpeaks DEF N
  <2> QED
    BY <2>1, <2>2, <2>5
<1>11. N \in S
  <2>1. N \in 0..N
    BY <1>1
  <2> HIDE DEF S, N
  <2> QED
    BY <1>1, <1>9, <1>10, <2>1, UpTo
<1> DEFINE E == FlattenSeq(es)
           R == Merged(Registry)
<1>12. SpokenUpTo(N, E, R) /\ R \in Seq(X)
  BY <1>4, <1>5, <1>6, <1>7, <1>8, <1>11
<1> HIDE DEF E, R, N
<1>13. /\ \A k \in DOMAIN E : E[k].stage \in Parallel
       /\ \A k \in DOMAIN R : R[k].source \in Parallel
  BY <1>1, <1>12 DEF SpokenUpTo
<1>14. VerdictsIn(E, Google) = {} /\ OwnIn(R, Google) = {}
  BY <1>13, GoogleApart DEF VerdictsIn, OwnIn
<1>15. SourceTold(query, Google, E, R)
  BY <1>14, GoogleApart DEF SourceTold
<1>16. \A s \in Parallel : SourceTold(query, s, E, R) /\ Cardinality(OwnIn(R, s)) = Len(src[s].found)
  BY <1>1, <1>12 DEF SpokenUpTo
<1>17. IsSequence(R)
  BY <1>12, SequenceOf DEF IsSequence
<1>18. AllTold(query, E, R)
  BY <1>12, <1>13, <1>15, <1>16, <1>17 DEF AllTold, SpokenUpTo
<1>19. ASSUME R = <<>>, NEW s \in Parallel
       PROVE  src[s].found = <<>>
  <2>1. OwnIn(R, s) = {}
    BY <1>19 DEF OwnIn
  <2>2. Len(src[s].found) = 0
    BY <1>16, <2>1, FS_EmptySet
  <2> QED
    BY <1>2, <2>2, EmptySeq
<1> QED
  BY <1>14, <1>18, <1>19 DEF E, R, es

FoundNothing == \A s \in Parallel : src[s].found = <<>>

\* What the stream has told when the search stands where it does.
ToldInv ==
    /\ query \in Queries
    /\ pc \in {"new", "gather"} => events = <<>> /\ results = <<>>
    /\ pc = "gather" /\ query.mode = "auto" => \A s \in query.enabled : src[s].pc # "off"
    /\ gb.pc = "covers" => gb.items \in Seq(GoogleItem)
    /\ query.stream =>
          /\ pc \in {"fallback", "google"} =>
                AllTold(query, events, results) /\ VerdictsIn(events, Google) = {}
          /\ pc = "fallback" /\ results = <<>> => FoundNothing
          /\ pc = "google" => results = <<>> /\ (query.mode = "auto" => FoundNothing)
          /\ pc \in {"ending", "complete"} =>
                /\ AllTold(query, events, results)
                /\ query.mode = "auto" /\ VerdictsIn(events, Google) # {} => FoundNothing

\* Google's candidates are counted by their number.
LEMMA GoogleOwn ==
    ASSUME NEW R, IsSequence(R), AreOf(R, Google)
    PROVE  Cardinality(OwnIn(R, Google)) = Len(R) /\ (R = <<>> => OwnIn(R, Google) = {})
<1>1. Len(R) \in Nat /\ DOMAIN R = 1..Len(R)
  BY LenProperties DEF IsSequence
<1>2. OwnIn(R, Google) = 1..Len(R)
  BY <1>1 DEF OwnIn, AreOf
<1>3. Cardinality(1..Len(R)) = Len(R)
  <2>1. Cardinality(1..Len(R)) = IF 1 > Len(R) THEN 0 ELSE Len(R) - 1 + 1
    BY <1>1, FS_Interval
  <2> QED
    BY <1>1, <2>1
<1>4. R = <<>> => OwnIn(R, Google) = {}
  BY DEF OwnIn
<1> QED
  BY <1>2, <1>3, <1>4

\* One more event of Google's, after which its candidates are there if it has any.
LEMMA GoogleSays ==
    ASSUME AllTold(query, events, <<>>), VerdictsIn(events, Google) = {},
           query.enabled \subseteq Parallel,
           NEW st \in {"searching", "skipped", "error", "done"}, NEW c \in Nat,
           NEW R, IsSequence(R), AreOf(R, Google),
           events' = Append(events, Event(Google, st, c)),
           IF st = "searching" THEN R = <<>> ELSE c = Len(R)
    PROVE  AllTold(query, events', R) /\ (st = "searching" => VerdictsIn(events', Google) = {})
<1> DEFINE x == Event(Google, st, c)
           E == events
           q == events'
           X == {R[k] : k \in DOMAIN R}
<1>1. x \in EventRow /\ x.stage = Google /\ x.status = st /\ x.count = c
  BY DEF Event, EventRow
<1>2. E \in Seq(EventRow)
  BY DEF AllTold
<1> HIDE DEF x
<1>3. <<x>> \in Seq(EventRow) /\ DOMAIN <<x>> = {1} /\ <<x>>[1] = x /\ Len(<<x>>) = 1
  BY <1>1
<1>4. q = E \o <<x>>
  BY <1>1, <1>2, AppendIsConcat DEF x
<1>5. R \in Seq(X) /\ <<>> \in Seq(X) /\ <<>> \o R = R
  BY ConcatEmptySeq, EmptySeq DEF IsSequence
<1> HIDE DEF X, q, E
<1>6. q \in Seq(EventRow)
  BY <1>2, <1>3, <1>4, ConcatProperties
<1>7. EventsAreOf(<<x>>, Google)
  BY <1>1, <1>3 DEF EventsAreOf
<1>8. ASSUME NEW t \in Parallel
      PROVE  SourceTold(query, t, q, R)
  <2> DEFINE Z == <<>>
             e == <<x>>
             g == Google
  <2>1. SourceTold(query, t, E, Z) /\ g # t
    BY GoogleApart DEF AllTold, E
  <2>2. Z \in Seq(X) /\ R \in Seq(X) /\ E \in Seq(EventRow) /\ e \in Seq(EventRow)
        /\ EventsAreOf(e, g) /\ AreOf(R, g)
    BY <1>2, <1>3, <1>5, <1>7
  <2> HIDE DEF Z, e, g
  <2>3. SourceTold(query, t, E \o e, Z \o R)
    BY <2>1, <2>2, OthersTold, Zenon
  <2> QED
    BY <1>4, <1>5, <2>3 DEF Z, e
<1>9. VerdictsIn(q, Google) = {Len(E) + k : k \in VerdictsIn(<<x>>, Google)}
  BY <1>2, <1>3, <1>4, EventsAfter DEF E
<1>10. VerdictsIn(<<x>>, Google) = IF st = "searching" THEN {} ELSE {1}
  BY <1>1, <1>3 DEF VerdictsIn
<1>11. Len(E) \in Nat /\ q[Len(E) + 1] = x
  BY <1>2, <1>3, <1>4, ConcatProperties, LenProperties
<1>12. SourceTold(query, Google, q, R)
  <2>1. Google \notin query.enabled
    BY GoogleApart
  <2>2. Cardinality(OwnIn(R, Google)) = Len(R) /\ (R = <<>> => OwnIn(R, Google) = {})
    BY GoogleOwn
  <2>3. CASE st = "searching"
    <3>1. VerdictsIn(q, Google) = {} /\ OwnIn(R, Google) = {}
      BY <1>9, <1>10, <2>2, <2>3
    <3> QED
      BY <2>1, <3>1 DEF SourceTold
  <2>4. CASE st # "searching"
    <3>1. VerdictsIn(q, Google) = {Len(E) + 1}
      BY <1>9, <1>10, <1>11, <2>4
    <3>2. \A k \in VerdictsIn(q, Google) : q[k].count = Cardinality(OwnIn(R, Google))
      BY <1>1, <1>11, <2>2, <2>4, <3>1
    <3> QED
      BY <2>1, <3>1, <3>2 DEF SourceTold
  <2> QED
    BY <2>3, <2>4
<1>13. \A k \in DOMAIN R : R[k].source \in Parallel \cup {Google}
  BY DEF AreOf
<1>14. AllTold(query, q, R)
  BY <1>6, <1>8, <1>12, <1>13 DEF AllTold
<1>15. st = "searching" => VerdictsIn(q, Google) = {}
  BY <1>9, <1>10
<1> QED
  BY <1>14, <1>15 DEF q

\* Every source has candidates of its own.
LEMMA FoundCandidates ==
    ASSUME AnswersInv, NEW s \in Parallel
    PROVE  Candidates(src[s].found, s)
<1>1. CASE src[s].found = <<>>
  <2>1. (\A Y : <<>> \in Seq(Y)) /\ DOMAIN <<>> = {}
    BY EmptySeq
  <2> QED
    BY <1>1, <2>1 DEF Candidates, IsSequence
<1>2. CASE src[s].found # <<>>
  <2>1. s \in Sources /\ reply[s] \in AnswersOf(s) /\ src[s].found = Parse(s, reply[s])
    BY <1>2, FoundOf
  <2> QED
    BY <2>1, ParsedIs
<1> QED
  BY <1>1, <1>2

\* What may be asked.
LEMMA QueryIs ==
    ASSUME ToldInv
    PROVE  /\ query.enabled \subseteq Parallel
           /\ query.mode \in {"auto", "google_only"}
BY AnswersAssumption DEF ToldInv

\* A source moves while the search waits for it, and none is switched off by that.
LEMMA SourceKeepsTold ==
    ASSUME ToldInv, pc \in {"gather", "cancelled", "gone"},
           UNCHANGED <<query, pc, gb, events, results>>,
           \A t \in Parallel : src'[t] = src[t] \/ src'[t].pc # "off"
    PROVE  ToldInv'
<1>1. query.enabled \subseteq Parallel
  BY QueryIs
<1>2. pc = "gather" /\ query.mode = "auto" => \A s \in query.enabled : src'[s].pc # "off"
  BY <1>1 DEF ToldInv
<1> QED
  BY <1>2 DEF ToldInv

LEMMA SourceStepTells ==
    ASSUME SearchInv, ToldInv, FindTitle \/ \E s \in Parallel : SourceStep(s)
    PROVE  ToldInv'
<1>1. \A s \in Parallel : Waiting(src[s]) => pc \in {"gather", "cancelled", "gone"}
  BY DEF SearchInv
<1>2. ASSUME NEW s \in Parallel, Waiting(src[s]), NEW r, r.pc # "off",
             src' = [src EXCEPT ![s] = r], UNCHANGED <<query, pc, gb, events, results>>
      PROVE  ToldInv'
  <2>1. \A t \in Parallel : src'[t] = src[t] \/ src'[t] = r
    BY <1>2 DEF SearchInv, SourcesInv
  <2>2. \A t \in Parallel : src'[t] = src[t] \/ src'[t].pc # "off"
    BY <1>2, <2>1
  <2>3. pc \in {"gather", "cancelled", "gone"}
    BY <1>1, <1>2
  <2> QED
    BY <1>2, <2>2, <2>3, SourceKeepsTold
<1>3. \A p : Source(p).pc = p
  BY DEF Source
<1>4. CASE FindTitle
  <2>1. PICK p \in {"done", "second"} : src' = [src EXCEPT !["hardcover"] = Source(p)]
    BY <1>4 DEF FindTitle
  <2>2. Source(p).pc # "off"
    BY <1>3
  <2>3. "hardcover" \in Parallel
    BY GoogleApart DEF Sources
  <2>4. Waiting(src["hardcover"]) /\ UNCHANGED <<query, pc, gb, events, results>>
    BY <1>4 DEF FindTitle, Waiting
  <2> QED
    BY <1>2, <2>1, <2>2, <2>3, <2>4
<1>5. ASSUME NEW s \in Parallel, SourceStep(s)
      PROVE  ToldInv'
  <2>1. UNCHANGED <<query, pc, gb, events, results>> /\ Waiting(src[s])
    BY <1>5 DEF SourceStep, Answer, FailSource, StopSource, Underway, Waiting
  <2>2. \E r : src' = [src EXCEPT ![s] = r] /\ r.pc # "off"
    <3>1. CASE Answer(s)
      <4>1. PICK answer \in Replies[s] : Answered(s, answer)
        BY <3>1 DEF Answer
      <4> DEFINE r == [pc |-> "done", found |-> Parse(s, answer)]
      <4>2. r.pc # "off" /\ src' = [src EXCEPT ![s] = r]
        BY <4>1 DEF Answered
      <4> QED
        BY <4>2
    <3>2. CASE FailSource(s)
      <4>1. PICK p \in {"done", "failed"} : src' = [src EXCEPT ![s] = Source(p)]
        BY <3>2 DEF FailSource
      <4> DEFINE r == Source(p)
      <4>2. r.pc # "off" /\ src' = [src EXCEPT ![s] = r]
        BY <1>3, <4>1
      <4> HIDE DEF r
      <4> QED
        BY <4>2
    <3>3. CASE StopSource(s)
      <4>1. src' = [src EXCEPT ![s] = Source("stopped")]
        BY <3>3 DEF StopSource
      <4> DEFINE r == Source("stopped")
      <4>2. r.pc # "off" /\ src' = [src EXCEPT ![s] = r]
        BY <1>3, <4>1
      <4> HIDE DEF r
      <4> QED
        BY <4>2
    <3> QED
      BY <1>5, <3>1, <3>2, <3>3 DEF SourceStep
  <2> QED
    BY <1>2, <2>1, <2>2
<1> QED
  BY <1>4, <1>5

LEMMA BeginTells == ASSUME SearchInv, ToldInv, Begin PROVE ToldInv'
<1>1. /\ query.enabled \subseteq Parallel /\ query.mode \in {"auto", "google_only"}
  BY QueryIs
<1>2. /\ pc = "new" /\ events = <<>> /\ results = <<>>
      /\ UNCHANGED <<query, gb, events, results>>
  BY DEF Begin, ToldInv
<1>3. CASE query.mode = "google_only"
  <2>1. pc' = "google"
    BY <1>3 DEF Begin
  <2>2. AllTold(query, <<>>, <<>>) /\ VerdictsIn(<<>>, Google) = {}
    BY <1>3, NothingTold
  <2>3. query.mode # "auto"
    BY <1>3
  <2> QED
    BY <1>2, <2>1, <2>2, <2>3 DEF ToldInv
<1>4. CASE query.mode = "auto"
  <2>1. query.mode # "google_only"
    BY <1>4
  <2> DEFINE row(s) == IF s \notin query.enabled THEN Source("off")
                       ELSE IF query.stream /\ Skipped(s) THEN Source("skipped")
                       ELSE IF Silent(s) THEN Source("done")
                       ELSE Source("asking")
  <2>2. /\ pc' = IF query.enabled = {} THEN "fallback" ELSE "gather"
        /\ src' = [s \in Parallel |-> row(s)]
    BY <2>1 DEF Begin
  <2>3. \A s \in Parallel : src'[s] = row(s)
    BY <2>2
  <2>4. \A s \in Parallel : row(s).found = <<>> /\ (s \in query.enabled => row(s).pc # "off")
    BY DEF Source
  <2> HIDE DEF row
  <2>5. CASE query.enabled = {}
    <3>1. AllTold(query, <<>>, <<>>) /\ VerdictsIn(<<>>, Google) = {}
      BY <2>5, NothingTold
    <3>2. FoundNothing' /\ pc' = "fallback"
      BY <2>2, <2>3, <2>4, <2>5 DEF FoundNothing
    <3> QED
      BY <1>2, <3>1, <3>2 DEF ToldInv
  <2>6. CASE query.enabled # {}
    <3>1. pc' = "gather"
      BY <2>2, <2>6
    <3>2. \A s \in query.enabled : src'[s].pc # "off"
      BY <1>1, <2>3, <2>4
    <3> QED
      BY <1>2, <3>1, <3>2 DEF ToldInv
  <2> QED
    BY <2>5, <2>6
<1> QED
  BY <1>1, <1>3, <1>4

LEMMA GatheredTellsAll ==
    ASSUME SearchInv, AnswersInv, ToldInv, Gathered
    PROVE  ToldInv'
<1>1. /\ pc = "gather" /\ pc' = "fallback"
      /\ UNCHANGED <<query, src, gb>>
      /\ results' = Merged(Registry)
      /\ query.stream => events' = FlattenSeq(Each(Registry, EventsOf))
  BY DEF Gathered
<1>2. \A s \in Parallel : Candidates(src[s].found, s)
  BY FoundCandidates
<1>3. query.enabled \subseteq Parallel
  BY QueryIs
<1>4. query.mode = "auto" => \A s \in query.enabled : src[s].pc # "off"
  BY <1>1 DEF ToldInv
<1>5. SourcesInv
  BY DEF SearchInv
<1> DEFINE E == FlattenSeq(Each(Registry, EventsOf))
           R == Merged(Registry)
<1>6. /\ AllTold(query, E, R) /\ VerdictsIn(E, Google) = {}
      /\ R = <<>> => \A s \in Parallel : src[s].found = <<>>
  BY <1>2, <1>3, <1>4, <1>5, GatheredTells
<1>7. results' = R /\ (query.stream => events' = E)
  BY <1>1
<1> HIDE DEF E, R
<1>8. /\ query.stream => AllTold(query, events', results') /\ VerdictsIn(events', Google) = {}
      /\ results' = <<>> => FoundNothing'
  BY <1>1, <1>6, <1>7 DEF FoundNothing
<1> QED
  BY <1>1, <1>8 DEF ToldInv

\* The steps that tell nothing.
LEMMA ProceedTells ==
    ASSUME SearchInv, ToldInv,
           Fallback \/ Complete \/ StopGoogle \/ Stopped \/ Disconnect \/ CloseClient
    PROVE  ToldInv'
<1>1. FoundNothing' <=> FoundNothing
  BY DEF Fallback, Complete, StopGoogle, Stopped, Disconnect, CloseClient, FoundNothing
<1>2. CASE Fallback
  BY <1>1, <1>2 DEF Fallback, ToldInv
<1>3. CASE Complete
  BY <1>1, <1>3 DEF Complete, ToldInv
<1>4. CASE StopGoogle
  <2>1. gb'.pc = "stopped"
    BY <1>4 DEF StopGoogle, SearchInv, GoogleInv
  <2> QED
    BY <1>1, <1>4, <2>1 DEF StopGoogle, ToldInv
<1>5. CASE Stopped
  BY <1>1, <1>5 DEF Stopped, ToldInv
<1>6. CASE Disconnect
  BY <1>1, <1>6 DEF Disconnect, ToldInv
<1>7. CASE CloseClient
  BY <1>1, <1>7 DEF CloseClient, ToldInv
<1> QED
  BY <1>2, <1>3, <1>4, <1>5, <1>6, <1>7

\* A step of Google's that tells something.
LEMMA GoogleTellsOne ==
    ASSUME ToldInv, query.stream, pc = "google", UNCHANGED query,
           NEW st \in {"searching", "skipped", "error", "done"}, NEW c \in Nat,
           IsSequence(results'), AreOf(results', Google), Tell(st, c),
           IF st = "searching" THEN results' = <<>> ELSE c = Len(results')
    PROVE  /\ AllTold(query, events', results')
           /\ st = "searching" => VerdictsIn(events', Google) = {}
<1>1. /\ AllTold(query, events, <<>>) /\ VerdictsIn(events, Google) = {}
      /\ query.enabled \subseteq Parallel
  BY QueryIs DEF ToldInv
<1>2. events' = Append(events, Event(Google, st, c))
  BY DEF Tell
<1> QED
  BY <1>1, <1>2, GoogleSays

\* The steps of the Google request.
LEMMA GoogleTells ==
    ASSUME SearchInv, AnswersInv, ToldInv, GoogleStep
    PROVE  ToldInv'
<1>1. /\ UNCHANGED <<query, src>>
      /\ FoundNothing' <=> FoundNothing
  BY DEF GoogleStep, SkipGoogle, AskGoogle, GoogleBusy, GoogleRetry, GoogleFails,
         GoogleAnswer, GoogleGarbled, GoogleDone, ProbeEnds, ProbeGarbled, StopProbe,
         FoundNothing
<1>2. IsSequence(<<>>) /\ AreOf(<<>>, Google) /\ Len(<<>>) = 0
  BY EmptySeq DEF IsSequence, AreOf
<1>3. gb = [pc |-> gb.pc, attempts |-> gb.attempts, items |-> gb.items, probes |-> gb.probes]
  BY DEF SearchInv, GoogleInv
<1>4. \* Nothing is told, and the search stands where it stood or has failed.
      ASSUME UNCHANGED <<events, results>>, pc' = pc \/ pc' = "raised",
             gb'.pc = "covers" => gb'.items \in Seq(GoogleItem)
      PROVE  ToldInv'
  BY <1>1, <1>4 DEF ToldInv
<1>5. \* The request ends with nothing.
      ASSUME NEW st \in {"skipped", "error"}, pc = "google", pc' = "ending", Tell(st, 0),
             UNCHANGED results, gb'.pc # "covers"
      PROVE  ToldInv'
  <2>1. CASE query.stream
    <3>1. results = <<>> /\ (query.mode = "auto" => FoundNothing)
      BY <1>5, <2>1 DEF ToldInv
    <3>2. AllTold(query, events', results')
      BY <1>1, <1>2, <1>5, <2>1, <3>1, GoogleTellsOne
    <3> QED
      BY <1>1, <1>5, <3>1, <3>2 DEF ToldInv
  <2>2. CASE ~query.stream
    BY <1>1, <1>5, <2>2 DEF ToldInv
  <2> QED
    BY <2>1, <2>2
<1>6. CASE SkipGoogle
  BY <1>3, <1>5, <1>6 DEF SkipGoogle, GoogleAt
<1>7. CASE GoogleFails
  <2>1. gb'.pc = "failed"
    BY <1>3, <1>7 DEF GoogleFails
  <2> QED
    BY <1>5, <1>7, <2>1 DEF GoogleFails, GoogleAt
<1>8. CASE AskGoogle
  <2>1. /\ pc = "google" /\ pc' = "google" /\ UNCHANGED results
        /\ gb'.pc = "asking" /\ Tell("searching", 0)
    BY <1>8 DEF AskGoogle, GoogleAt, NoGoogle
  <2>2. CASE query.stream
    <3>1. results = <<>> /\ (query.mode = "auto" => FoundNothing)
      BY <2>1, <2>2 DEF ToldInv
    <3>2. AllTold(query, events', results') /\ VerdictsIn(events', Google) = {}
      BY <1>1, <1>2, <2>1, <2>2, <3>1, GoogleTellsOne
    <3> QED
      BY <1>1, <2>1, <3>1, <3>2 DEF ToldInv
  <2>3. CASE ~query.stream
    BY <1>1, <2>1, <2>3 DEF ToldInv
  <2> QED
    BY <2>2, <2>3
<1>9. CASE GoogleBusy
  <2>1. gb'.pc = "waiting"
    BY <1>3, <1>9 DEF GoogleBusy
  <2> QED
    BY <1>4, <1>9, <2>1 DEF GoogleBusy
<1>10. CASE GoogleRetry
  <2>1. gb'.pc = "asking"
    <3>1. gb' = [gb EXCEPT !.pc = "asking", !.attempts = gb.attempts + 1]
      BY <1>10 DEF GoogleRetry
    <3> QED
      BY <1>3, <3>1
  <2> QED
    BY <1>4, <1>10, <2>1 DEF GoogleRetry
<1>11. CASE GoogleGarbled
  <2>1. gb'.pc = "raised"
    BY <1>3, <1>11 DEF GoogleGarbled
  <2> QED
    BY <1>4, <1>11, <2>1 DEF GoogleGarbled
<1>12. CASE GoogleAnswer
  <2>1. PICK items \in Replies[Google] :
           gb' = [gb EXCEPT !.pc = "covers", !.items = items,
                            !.probes = {k \in DOMAIN items : items[k].titled}]
    BY <1>12 DEF GoogleAnswer
  <2>2. gb'.items = items
    BY <1>3, <2>1
  <2>3. AnswersOf(Google) = Seq(GoogleItem)
    BY DEF AnswersOf, Google
  <2>4. items \in Seq(GoogleItem)
    BY <2>3, AnswersAssumption
  <2> QED
    BY <1>4, <1>12, <2>2, <2>4 DEF GoogleAnswer
<1>13. ASSUME NEW k \in gb.probes, ProbeEnds(k)
       PROVE  ToldInv'
  <2>1. gb'.pc = gb.pc /\ gb'.items = gb.items
    BY <1>3, <1>13 DEF ProbeEnds
  <2> QED
    BY <1>4, <1>13, <2>1 DEF ProbeEnds, ToldInv
<1>14. ASSUME NEW k \in gb.probes, ProbeGarbled(k)
       PROVE  ToldInv'
  <2>1. gb'.pc = "raised"
    BY <1>3, <1>14 DEF ProbeGarbled
  <2> QED
    BY <1>4, <1>14, <2>1 DEF ProbeGarbled
<1>15. CASE GoogleDone
  <2> DEFINE R == GoogleBooks(gb.items)
  <2>1. /\ pc = "google" /\ pc' = "ending" /\ gb.pc = "covers"
        /\ results' = R /\ Tell("done", Len(R))
    BY <1>15 DEF GoogleDone, GoogleAt
  <2>2. gb'.pc = "done"
    BY <1>3, <1>15 DEF GoogleDone
  <2>3. Candidates(R, Google)
    BY <2>1, GoogleBooksIs DEF ToldInv
  <2> HIDE DEF R
  <2>4. IsSequence(R) /\ AreOf(R, Google)
    BY <2>3 DEF Candidates, AreOf
  <2>5. Len(R) \in Nat
    BY <2>4, LenProperties DEF IsSequence
  <2>6. CASE query.stream
    <3>1. query.mode = "auto" => FoundNothing
      BY <2>1, <2>6 DEF ToldInv
    <3>2. AllTold(query, events', results')
      BY <1>1, <2>1, <2>4, <2>5, <2>6, GoogleTellsOne
    <3> QED
      BY <1>1, <2>1, <2>2, <3>1, <3>2 DEF ToldInv
  <2>7. CASE ~query.stream
    BY <1>1, <2>1, <2>2, <2>7 DEF ToldInv
  <2> QED
    BY <2>6, <2>7
<1>16. ASSUME NEW k \in gb.probes, StopProbe(k)
       PROVE  ToldInv'
  <2>1. gb'.pc = "stopped"
    BY <1>3, <1>16 DEF StopProbe
  <2> QED
    BY <1>4, <1>16, <2>1 DEF StopProbe, ToldInv
<1> QED
  BY <1>6, <1>7, <1>8, <1>9, <1>10, <1>11, <1>12, <1>13, <1>14, <1>15, <1>16 DEF GoogleStep

\* Every step of a search keeps what it tells true.
LEMMA ToldStep ==
    ASSUME SearchInv, AnswersInv, ToldInv, [SearchNext]_searchVars
    PROVE  ToldInv'
<1>1. CASE UNCHANGED searchVars
  BY <1>1 DEF searchVars, ToldInv, FoundNothing
<1> QED
  BY <1>1, SourceStepTells, BeginTells, GatheredTellsAll, ProceedTells, GoogleTells
  DEF SearchNext, Proceed

LEMMA IdleTold == ASSUME IdleSearch PROVE ToldInv
BY DEF IdleSearch, ToldInv, NoGoogle

LEMMA ToldInvariant == SearchSpec => []ToldInv
<1>1. IdleSearch => ToldInv
  BY IdleTold
<1>2. SearchInv /\ AnswersInv /\ ToldInv /\ [SearchNext]_searchVars => ToldInv'
  BY ToldStep
<1> QED
  BY <1>1, <1>2, SearchInvariant, AnswersInvariant, PTL DEF SearchSpec

\* What a complete stream has told is what the invariant says.
LEMMA ToldInTheEnd == ToldInv => ToldTruly
<1> SUFFICES ASSUME ToldInv, pc = "complete", query.stream PROVE
        /\ query.mode = "auto" => \A s \in query.enabled : \E k \in DOMAIN events :
              /\ Verdicts(s) = {k}
              /\ IF events[k].status = "skipped" THEN Askings(s) = {}
                 ELSE \E j \in 1..(k - 1) : Askings(s) = {j}
        /\ \A s \in Parallel \cup {Google} :
              /\ \A k \in Verdicts(s) : events[k].count = Cardinality(Own(s))
              /\ Own(s) # {} => Verdicts(s) # {}
        /\ DOMAIN results = UNION {Own(s) : s \in Parallel \cup {Google}}
        /\ query.mode = "auto" /\ Verdicts(Google) # {} =>
              \A s \in Parallel : src[s].found = <<>>
  BY DEF ToldTruly
<1>1. \A s : /\ Verdicts(s) = VerdictsIn(events, s)
             /\ Askings(s) = AskingsIn(events, s)
             /\ Own(s) = OwnIn(results, s)
  BY DEF Verdicts, VerdictsIn, Askings, AskingsIn, Own, OwnIn
<1>2. AllTold(query, events, results) /\ query.enabled \subseteq Parallel
  BY QueryIs DEF ToldInv
<1>3. ASSUME query.mode = "auto", NEW s \in query.enabled
      PROVE  \E k \in DOMAIN events :
                /\ Verdicts(s) = {k}
                /\ IF events[k].status = "skipped" THEN Askings(s) = {}
                   ELSE \E j \in 1..(k - 1) : Askings(s) = {j}
  <2>1. SourceTold(query, s, events, results)
    BY <1>2 DEF AllTold
  <2> QED
    BY <1>1, <1>3, <2>1 DEF SourceTold
<1>4. ASSUME NEW s \in Parallel \cup {Google}
      PROVE  /\ \A k \in Verdicts(s) : events[k].count = Cardinality(Own(s))
             /\ Own(s) # {} => Verdicts(s) # {}
  <2>1. SourceTold(query, s, events, results)
    BY <1>2 DEF AllTold
  <2> QED
    BY <1>1, <2>1 DEF SourceTold
<1>5. DOMAIN results = UNION {Own(s) : s \in Parallel \cup {Google}}
  <2>1. \A k \in DOMAIN results : results[k].source \in Parallel \cup {Google}
    BY <1>2 DEF AllTold
  <2>2. ASSUME NEW k \in DOMAIN results
        PROVE  k \in UNION {Own(s) : s \in Parallel \cup {Google}}
    <3>1. k \in Own(results[k].source)
      BY DEF Own
    <3> QED
      BY <2>1, <3>1
  <2>3. \A s : Own(s) \subseteq DOMAIN results
    BY DEF Own
  <2> QED
    BY <2>2, <2>3
<1>6. query.mode = "auto" /\ Verdicts(Google) # {} => \A s \in Parallel : src[s].found = <<>>
  BY <1>1 DEF ToldInv, FoundNothing
<1> QED
  BY <1>3, <1>4, <1>5, <1>6

\* A stream that is complete (stream_search_books_by_title) has told of every source
\* what became of it, whatever the order and the content of the answers: one verdict
\* each, with the number of its candidates, none of them lost; and Google Books was
\* asked in the automatic mode only when nobody else had found anything.
THEOREM ToldTrulyAlways == SearchSpec => []ToldTruly
BY ToldInvariant, ToldInTheEnd, PTL

-----------------------------------------------------------------------------
(* The lookups of covers. *)

Places == {"new", "want_page", "page", "want_query", "query", "want_probe", "probe", "done",
           "raised"}
TaskRow == [pc : Places, seen : Seq(HeadAnswers), answer : Nat]
Tasks == [Lookups -> [Providers -> TaskRow]]

\* What a coroutine has seen when it stands where it does; n URLs may be tried.
Fits(t, n) ==
    /\ t.pc \in {"new", "want_page", "page", "want_query", "query"} => t.seen = <<>>
    /\ t.pc \in {"want_probe", "probe"} =>
          Len(t.seen) < n /\ \A k \in DOMAIN t.seen : t.seen[k] = "bad"
    /\ t.pc = "done" /\ t.seen # <<>> =>
          LET good == {k \in DOMAIN t.seen : t.seen[k] = "good"} IN
          IF good = {} THEN t.answer = 1 /\ Len(t.seen) = n
          ELSE t.answer \in good /\ \A k \in good : t.answer <= k

\* The inductive invariant.
CoversInv ==
    /\ setting \in Settings
    /\ task \in Tasks
    /\ CoverTypes
    /\ \A l \in Lookups, p \in Providers : Fits(task[l][p], Forms(p))

\* The coroutine p of lookup l, and no other, becomes t.
Becomes(l, p, t) == task' = [task EXCEPT ![l][p] = t]

Held == In({"probe", "query"})
Reading == In({"page"})

-----------------------------------------------------------------------------

\* There are finitely many coroutines.
LEMMA FinitelyMany ==
    ASSUME NEW places
    PROVE  IsFiniteSet(In(places)) /\ Cardinality(In(places)) \in Nat
<1>1. IsFiniteSet({"plain", "hardcover", "thalia"})
  <2>1. IsFiniteSet({})
    BY FS_EmptySet
  <2>2. IsFiniteSet({} \cup {"plain"})
    BY <2>1, FS_AddElement
  <2>3. IsFiniteSet(({} \cup {"plain"}) \cup {"hardcover"})
    BY <2>2, FS_AddElement
  <2>4. IsFiniteSet((({} \cup {"plain"}) \cup {"hardcover"}) \cup {"thalia"})
    BY <2>3, FS_AddElement
  <2>5. {"plain", "hardcover", "thalia"}
        = (({} \cup {"plain"}) \cup {"hardcover"}) \cup {"thalia"}
    OBVIOUS
  <2> QED
    BY <2>4, <2>5
<1>2. IsFiniteSet(Lookups \X Providers)
  BY <1>1, LookupsAssumption, FS_Product DEF Providers
<1>3. In(places) \subseteq Lookups \X Providers
  BY DEF In
<1> QED
  BY <1>2, <1>3, FS_Subset, FS_CardinalityType

\* One coroutine moves: the tasks keep their type, and the others their place.
LEMMA OneMoves ==
    ASSUME task \in Tasks, NEW l \in Lookups, NEW p \in Providers, NEW t \in TaskRow,
           Becomes(l, p, t)
    PROVE  /\ task' \in Tasks
           /\ task'[l][p] = t
           /\ \A m \in Lookups, q \in Providers :
                 <<m, q>> # <<l, p>> => task'[m][q] = task[m][q]
<1>1. task' = [task EXCEPT ![l] = [task[l] EXCEPT ![p] = t]]
  BY DEF Becomes, Tasks
<1>2. [task[l] EXCEPT ![p] = t] \in [Providers -> TaskRow]
  BY DEF Tasks
<1>3. task' \in Tasks /\ task'[l] = [task[l] EXCEPT ![p] = t]
      /\ \A m \in Lookups \ {l} : task'[m] = task[m]
  BY <1>1, <1>2 DEF Tasks
<1>4. task'[l][p] = t /\ \A q \in Providers \ {p} : task'[l][q] = task[l][q]
  BY <1>3 DEF Tasks
<1> QED
  BY <1>3, <1>4

\* What the move does to the coroutines in some places.
LEMMA InAfter ==
    ASSUME task \in Tasks, NEW l \in Lookups, NEW p \in Providers, NEW t \in TaskRow,
           Becomes(l, p, t), NEW places
    PROVE  In(places)' = IF t.pc \in places THEN In(places) \cup {<<l, p>>}
                                            ELSE In(places) \ {<<l, p>>}
<1>1. /\ task'[l][p] = t
      /\ \A m \in Lookups, q \in Providers : <<m, q>> # <<l, p>> => task'[m][q] = task[m][q]
  BY OneMoves
<1>2. ASSUME NEW c \in Lookups \X Providers, c # <<l, p>>
      PROVE  c \in In(places)' <=> c \in In(places)
  <2>1. PICK m \in Lookups, q \in Providers : c = <<m, q>>
    OBVIOUS
  <2>2. task'[m][q] = task[m][q]
    BY <1>1, <1>2, <2>1
  <2> QED
    BY <2>1, <2>2 DEF In
<1>3. <<l, p>> \in In(places)' <=> t.pc \in places
  BY <1>1 DEF In
<1>4. In(places) \subseteq Lookups \X Providers /\ In(places)' \subseteq Lookups \X Providers
  BY DEF In
<1> QED
  BY <1>2, <1>3, <1>4

\* How many are there after it.
LEMMA Counts ==
    ASSUME task \in Tasks, NEW l \in Lookups, NEW p \in Providers, NEW t \in TaskRow,
           Becomes(l, p, t), NEW places
    PROVE  LET n == Cardinality(In(places))
               c == <<l, p>>
           IN  /\ n \in Nat
               /\ c \in In(places) <=> task[l][p].pc \in places
               /\ c \in In(places) => n > 0
               /\ Cardinality(In(places)') =
                     IF t.pc \in places
                     THEN IF c \in In(places) THEN n ELSE n + 1
                     ELSE IF c \in In(places) THEN n - 1 ELSE n
<1> DEFINE S == In(places)
           c == <<l, p>>
<1>1. IsFiniteSet(S) /\ Cardinality(S) \in Nat
  BY FinitelyMany
<1>2. In(places)' = IF t.pc \in places THEN S \cup {c} ELSE S \ {c}
  BY InAfter
<1>3. c \in S <=> task[l][p].pc \in places
  BY DEF In
<1> HIDE DEF S, c
<1>4. Cardinality(S \cup {c}) = IF c \in S THEN Cardinality(S) ELSE Cardinality(S) + 1
  BY <1>1, FS_AddElement
<1>5. Cardinality(S \ {c}) = IF c \in S THEN Cardinality(S) - 1 ELSE Cardinality(S)
  BY <1>1, FS_RemoveElement
<1>6. c \in S => Cardinality(S) > 0
  <2>1. S \ {c} \subseteq S
    OBVIOUS
  <2>2. Cardinality(S \ {c}) \in Nat
    BY <1>1, <2>1, FS_Subset, FS_CardinalityType
  <2> QED
    BY <1>1, <1>5, <2>2
<1>7. S = In(places) /\ c = <<l, p>>
  BY DEF S, c
<1> QED
  BY <1>1, <1>2, <1>3, <1>4, <1>5, <1>6, <1>7

-----------------------------------------------------------------------------

\* One coroutine moves to where it fits, and the permits are counted on: the
\* invariant is kept.
LEMMA MoveKeeps ==
    ASSUME CoversInv, NEW l \in Lookups, NEW p \in Providers, NEW t \in TaskRow,
           Becomes(l, p, t), Fits(t, Forms(p)), UNCHANGED setting, CoverTypes'
    PROVE  CoversInv'
<1>1. /\ task' \in Tasks
      /\ task'[l][p] = t
      /\ \A m \in Lookups, q \in Providers : <<m, q>> # <<l, p>> => task'[m][q] = task[m][q]
  BY OneMoves DEF CoversInv
<1>2. \A q : Forms(q)' = Forms(q)
  BY DEF Forms
<1>3. \A m \in Lookups, q \in Providers : Fits(task'[m][q], Forms(q))
  BY <1>1 DEF CoversInv
<1> QED
  BY <1>1, <1>2, <1>3 DEF CoversInv

\* The permits of the probes and of the pages, before and after a move.
LEMMA PermitsAfter ==
    ASSUME CoversInv, NEW l \in Lookups, NEW p \in Providers, NEW t \in TaskRow,
           Becomes(l, p, t),
           probes' = (IF t.pc \in {"probe", "query"} THEN 1 ELSE 0) + probes
                     - (IF task[l][p].pc \in {"probe", "query"} THEN 1 ELSE 0),
           pages' = (IF t.pc = "page" THEN 1 ELSE 0) + pages
                    - (IF task[l][p].pc = "page" THEN 1 ELSE 0),
           probes' > probes => probes < ProbeLimit,
           pages' > pages => pages < ThaliaLimit
    PROVE  CoverTypes'
<1>0. task \in Tasks
  BY DEF CoversInv
<1>1. /\ probes \in 0..ProbeLimit /\ probes = Cardinality(Held)
      /\ pages \in 0..ThaliaLimit /\ pages = Cardinality(Reading)
      /\ ProbeLimit \in Nat /\ ThaliaLimit \in Nat
  BY LimitsAssumption DEF CoversInv, CoverTypes, Held, Reading
<1>2. /\ <<l, p>> \in Held <=> task[l][p].pc \in {"probe", "query"}
      /\ <<l, p>> \in Held => Cardinality(Held) > 0
      /\ Cardinality(Held') = IF t.pc \in {"probe", "query"}
                              THEN IF <<l, p>> \in Held THEN Cardinality(Held)
                                   ELSE Cardinality(Held) + 1
                              ELSE IF <<l, p>> \in Held THEN Cardinality(Held) - 1
                                   ELSE Cardinality(Held)
  BY <1>0, Counts DEF Held
<1>3. /\ <<l, p>> \in Reading <=> task[l][p].pc \in {"page"}
      /\ <<l, p>> \in Reading => Cardinality(Reading) > 0
      /\ Cardinality(Reading') = IF t.pc \in {"page"}
                                 THEN IF <<l, p>> \in Reading THEN Cardinality(Reading)
                                      ELSE Cardinality(Reading) + 1
                                 ELSE IF <<l, p>> \in Reading THEN Cardinality(Reading) - 1
                                      ELSE Cardinality(Reading)
  BY <1>0, Counts DEF Reading
<1>4. probes' \in 0..ProbeLimit /\ probes' = Cardinality(Held')
  BY <1>1, <1>2
<1>5. pages' \in 0..ThaliaLimit /\ pages' = Cardinality(Reading')
  BY <1>1, <1>3
<1> QED
  BY <1>4, <1>5 DEF CoverTypes, Held, Reading

\* The row of a coroutine of a lookup.
LEMMA TaskFields ==
    ASSUME CoversInv, NEW l \in Lookups, NEW p \in Providers
    PROVE  task[l][p] \in TaskRow /\ Fits(task[l][p], Forms(p)) /\ Forms(p) \in {1, 2}
BY DEF CoversInv, Tasks, Forms

\* A coroutine goes to another place as it is.
LEMMA GoBecomes ==
    ASSUME CoversInv, NEW l \in Lookups, NEW p \in Providers, NEW next \in Places,
           Go(l, p, next), NEW t, t = [task[l][p] EXCEPT !.pc = next]
    PROVE  /\ Becomes(l, p, t) /\ t \in TaskRow
           /\ t.pc = next /\ t.seen = task[l][p].seen /\ t.answer = task[l][p].answer
<1>1. task[l][p] \in TaskRow
  BY TaskFields
<1>2. t \in TaskRow /\ t.pc = next /\ t.seen = task[l][p].seen /\ t.answer = task[l][p].answer
  BY <1>1 DEF TaskRow
<1>3. Becomes(l, p, t)
  BY DEF Go, Becomes
<1> QED
  BY <1>2, <1>3

\* Any step of a coroutine that only goes on.
LEMMA GoKeeps ==
    ASSUME CoversInv, NEW l \in Lookups, NEW p \in Providers, NEW next \in Places,
           Go(l, p, next), UNCHANGED setting,
           probes' = (IF next \in {"probe", "query"} THEN 1 ELSE 0) + probes
                     - (IF task[l][p].pc \in {"probe", "query"} THEN 1 ELSE 0),
           pages' = (IF next = "page" THEN 1 ELSE 0) + pages
                    - (IF task[l][p].pc = "page" THEN 1 ELSE 0),
           probes' > probes => probes < ProbeLimit,
           pages' > pages => pages < ThaliaLimit,
           \/ task[l][p].pc \in {"want_page", "page", "want_query", "query"}
              /\ next \notin {"new"}
           \/ task[l][p].pc = "want_probe" /\ next = "probe"
    PROVE  CoversInv'
<1> DEFINE t == [task[l][p] EXCEPT !.pc = next]
<1>1. /\ Becomes(l, p, t) /\ t \in TaskRow
      /\ t.pc = next /\ t.seen = task[l][p].seen
  BY GoBecomes
<1>2. task[l][p] \in TaskRow /\ Fits(task[l][p], Forms(p)) /\ Forms(p) \in {1, 2}
  BY TaskFields
<1> HIDE DEF t
<1>3. CoverTypes'
  BY <1>1, PermitsAfter
<1>4. Fits(t, Forms(p))
  <2>1. CASE task[l][p].pc \in {"want_page", "page", "want_query", "query"}
    <3>1. t.seen = <<>> /\ Len(t.seen) = 0 /\ DOMAIN t.seen = {}
      BY <2>1, <1>1, <1>2 DEF Fits
    <3> QED
      BY <3>1, <1>1, <1>2 DEF Fits
  <2>2. CASE task[l][p].pc = "want_probe" /\ next = "probe"
    BY <2>2, <1>1, <1>2 DEF Fits
  <2> QED
    BY <2>1, <2>2
<1> QED
  BY <1>1, <1>3, <1>4, MoveKeeps

\* The start of a lookup takes no permit.
LEMMA BeginLookupKeeps ==
    ASSUME CoversInv, NEW l \in Lookups, BeginLookup(l)
    PROVE  CoversInv'
<1> DEFINE row(p) == IF p \notin setting.asked THEN Task("done")
                     ELSE Task(CASE p = "plain" -> "want_probe"
                                 [] p = "hardcover" -> "want_query"
                                 [] p = "thalia" -> "want_page")
<1>1. /\ task \in Tasks
      /\ \A p \in Providers : task[l][p].pc = "new"
      /\ task' = [task EXCEPT ![l] = [p \in Providers |-> row(p)]]
      /\ UNCHANGED <<setting, probes, pages>>
  BY DEF BeginLookup, CoversInv
<1>2. \A p \in Providers : /\ row(p) \in TaskRow /\ row(p).seen = <<>>
                           /\ row(p).pc \in {"done", "want_probe", "want_query", "want_page"}
  BY DEF Providers, Task, TaskRow, Places
<1> HIDE DEF row
<1>3. ASSUME NEW p \in Providers PROVE Fits(row(p), Forms(p))
  <2>1. Forms(p) \in {1, 2}
    BY DEF Forms
  <2>2. row(p).seen = <<>> /\ Len(row(p).seen) = 0 /\ DOMAIN row(p).seen = {}
    BY <1>2
  <2> QED
    BY <1>2, <2>1, <2>2 DEF Fits
<1>4. /\ task' \in Tasks
      /\ \A p \in Providers : task'[l][p] = row(p)
      /\ \A m \in Lookups \ {l}, p \in Providers : task'[m][p] = task[m][p]
  <2>1. [p \in Providers |-> row(p)] \in [Providers -> TaskRow]
    BY <1>2
  <2> QED
    BY <1>1, <2>1 DEF Tasks
<1>5. ASSUME NEW places \in SUBSET {"probe", "query", "page"}
      PROVE  In(places)' = In(places)
  <2>1. ASSUME NEW c \in Lookups \X Providers
        PROVE  c \in In(places)' <=> c \in In(places)
    <3>1. PICK m \in Lookups, p \in Providers : c = <<m, p>>
      OBVIOUS
    <3>2. CASE m = l
      BY <3>1, <3>2, <1>1, <1>2, <1>4, <1>5 DEF In
    <3>3. CASE m # l
      BY <3>1, <3>3, <1>4 DEF In
    <3> QED
      BY <3>2, <3>3
  <2> QED
    BY <2>1 DEF In
<1>6. CoverTypes'
  <2>1. In({"probe", "query"})' = In({"probe", "query"}) /\ In({"page"})' = In({"page"})
    BY <1>5
  <2> QED
    BY <1>1, <2>1 DEF CoversInv, CoverTypes
<1>7. \A q : Forms(q)' = Forms(q)
  BY <1>1 DEF Forms
<1>8. \A m \in Lookups, p \in Providers : Fits(task'[m][p], Forms(p))
  BY <1>3, <1>4 DEF CoversInv
<1> QED
  BY <1>1, <1>4, <1>6, <1>7, <1>8 DEF CoversInv

\* A probe ends: after the first good answer, or the last bad one, the coroutine
\* has its answer.
LEMMA EndProbeKeeps ==
    ASSUME CoversInv, NEW l \in Lookups, NEW p \in Providers, EndProbe(l, p)
    PROVE  CoversInv'
<1>1. task[l][p] \in TaskRow /\ Fits(task[l][p], Forms(p)) /\ Forms(p) \in {1, 2}
  BY TaskFields
<1> DEFINE old == task[l][p].seen
<1>2. PICK a \in HeadAnswers :
          task' = [task EXCEPT ![l][p] =
                      IF a = "good" \/ Len(Append(old, a)) = Forms(p)
                      THEN [pc |-> "done", seen |-> Append(old, a),
                            answer |-> Taken(Append(old, a))]
                      ELSE [pc |-> "want_probe", seen |-> Append(old, a), answer |-> 0]]
  BY DEF EndProbe
<1>3. /\ task[l][p].pc = "probe"
      /\ probes' = probes - 1
      /\ UNCHANGED <<setting, pages>>
  BY DEF EndProbe
<1> DEFINE seen == Append(old, a)
           t == IF a = "good" \/ Len(seen) = Forms(p)
                THEN [pc |-> "done", seen |-> seen, answer |-> Taken(seen)]
                ELSE [pc |-> "want_probe", seen |-> seen, answer |-> 0]
<1>4. Becomes(l, p, t)
  BY <1>2 DEF Becomes
<1>5. old \in Seq(HeadAnswers) /\ Len(old) < Forms(p) /\ \A k \in DOMAIN old : old[k] = "bad"
  BY <1>1, <1>3 DEF Fits, TaskRow
<1>6. /\ seen \in Seq(HeadAnswers) /\ seen # <<>> /\ Len(seen) = Len(old) + 1
      /\ \A k \in 1..Len(old) : seen[k] = old[k]
      /\ seen[Len(seen)] = a
  BY <1>5, AppendProperties
<1> HIDE DEF old, seen
<1>7. /\ Len(seen) \in Nat \ {0} /\ Len(old) \in Nat /\ DOMAIN seen = 1..Len(seen)
      /\ DOMAIN old = 1..Len(old)
  BY <1>5, <1>6
<1>8. t \in TaskRow /\ t.pc \in {"done", "want_probe"} /\ t.seen = seen
  BY <1>6, <1>7 DEF TaskRow, Places, Taken
<1>9. \A k \in DOMAIN seen : k < Len(seen) => seen[k] = "bad"
  BY <1>5, <1>6, <1>7
<1>10. Fits(t, Forms(p))
  <2>1. CASE a = "good"
    <3>1. t.pc = "done" /\ t.seen = seen /\ t.answer = Len(seen)
      BY <2>1, <1>6 DEF Taken
    <3>2. {k \in DOMAIN seen : seen[k] = "good"} = {Len(seen)}
      BY <2>1, <1>6, <1>7, <1>9
    <3> HIDE DEF t
    <3> QED
      BY <3>1, <3>2, <1>7 DEF Fits
  <2>2. CASE a # "good" /\ Len(seen) = Forms(p)
    <3>1. t.pc = "done" /\ t.seen = seen /\ t.answer = 1
      BY <2>2, <1>6 DEF Taken
    <3>2. {k \in DOMAIN seen : seen[k] = "good"} = {}
      BY <2>2, <1>6, <1>7, <1>9
    <3> HIDE DEF t
    <3> QED
      BY <2>2, <3>1, <3>2 DEF Fits
  <2>3. CASE a # "good" /\ Len(seen) # Forms(p)
    <3>1. t.pc = "want_probe" /\ t.seen = seen
      BY <2>3
    <3>2. Len(seen) < Forms(p)
      BY <2>3, <1>1, <1>5, <1>6, <1>7
    <3>3. \A k \in DOMAIN seen : seen[k] = "bad"
      BY <2>3, <1>6, <1>7, <1>9 DEF HeadAnswers
    <3> HIDE DEF t
    <3> QED
      BY <3>1, <3>2, <3>3 DEF Fits
  <2> QED
    BY <2>1, <2>2, <2>3
<1> HIDE DEF t
<1>11. CoverTypes'
  <2>1. probes \in Nat /\ pages \in Nat
    BY DEF CoversInv, CoverTypes
  <2> QED
    BY <1>3, <1>4, <1>8, <2>1, PermitsAfter
<1> QED
  BY <1>3, <1>4, <1>8, <1>10, <1>11, MoveKeeps

\* Every step of a lookup keeps the invariant.
LEMMA CoversStep ==
    ASSUME CoversInv, [CoversNext]_coverVars
    PROVE  CoversInv'
<1>0. probes \in Nat /\ pages \in Nat /\ {"plain", "hardcover", "thalia"} = Providers
  BY DEF CoversInv, CoverTypes, Providers
<1>1. ASSUME NEW l \in Lookups, BeginPage(l) PROVE CoversInv'
  <2>1. /\ Go(l, "thalia", "page") /\ task[l]["thalia"].pc = "want_page"
        /\ pages' = pages + 1 /\ pages < ThaliaLimit /\ UNCHANGED <<setting, probes>>
    BY <1>1 DEF BeginPage
  <2> QED
    BY <1>0, <2>1, GoKeeps DEF Places
<1>2. ASSUME NEW l \in Lookups, EndPage(l) PROVE CoversInv'
  <2>1. PICK next \in {"want_probe", "done"} : Go(l, "thalia", next)
    BY <1>2 DEF EndPage
  <2>2. /\ task[l]["thalia"].pc = "page"
        /\ pages' = pages - 1 /\ UNCHANGED <<setting, probes>>
    BY <1>2 DEF EndPage
  <2> QED
    BY <1>0, <2>1, <2>2, GoKeeps DEF Places
<1>3. ASSUME NEW l \in Lookups, BeginQuery(l) PROVE CoversInv'
  <2>1. /\ Go(l, "hardcover", "query") /\ task[l]["hardcover"].pc = "want_query"
        /\ probes' = probes + 1 /\ probes < ProbeLimit /\ UNCHANGED <<setting, pages>>
    BY <1>3 DEF BeginQuery
  <2> QED
    BY <1>0, <2>1, GoKeeps DEF Places
<1>4. ASSUME NEW l \in Lookups, EndQuery(l) PROVE CoversInv'
  <2>1. PICK next \in {"want_probe", "done", "raised"} : Go(l, "hardcover", next)
    BY <1>4 DEF EndQuery
  <2>2. /\ task[l]["hardcover"].pc = "query"
        /\ probes' = probes - 1 /\ UNCHANGED <<setting, pages>>
    BY <1>4 DEF EndQuery
  <2> QED
    BY <1>0, <2>1, <2>2, GoKeeps DEF Places
<1>5. ASSUME NEW l \in Lookups, NEW p \in Providers, BeginProbe(l, p) PROVE CoversInv'
  <2>1. /\ Go(l, p, "probe") /\ task[l][p].pc = "want_probe"
        /\ probes' = probes + 1 /\ probes < ProbeLimit /\ UNCHANGED <<setting, pages>>
    BY <1>5 DEF BeginProbe
  <2> QED
    BY <1>0, <2>1, GoKeeps DEF Places
<1>6. CASE UNCHANGED coverVars
  BY <1>6 DEF coverVars, CoversInv, CoverTypes, In, Tasks, Forms
<1> QED
  BY <1>1, <1>2, <1>3, <1>4, <1>5, <1>6, BeginLookupKeeps, EndProbeKeeps
     DEF CoversNext, LookupStep

\* Nothing is asked yet.
LEMMA IdleCoversInv == ASSUME IdleCovers PROVE CoversInv
<1>1. Task("new") \in TaskRow /\ Task("new").pc = "new" /\ Task("new").seen = <<>>
  BY DEF Task, TaskRow, Places
<1>2. task \in Tasks /\ \A l \in Lookups, p \in Providers : task[l][p] = Task("new")
  BY <1>1 DEF IdleCovers, Tasks
<1>3. In({"probe", "query"}) = {} /\ In({"page"}) = {}
  BY <1>1, <1>2 DEF In
<1>4. CoverTypes
  BY <1>3, FS_EmptySet, LimitsAssumption DEF IdleCovers, CoverTypes
<1>5. \A l \in Lookups, p \in Providers : Fits(task[l][p], Forms(p))
  BY <1>1, <1>2 DEF Fits
<1> QED
  BY <1>2, <1>4, <1>5 DEF IdleCovers, CoversInv

\* The lookups keep theirs, however many there are and whatever the URLs answer.
THEOREM CoversInvariant == CoversSpec => []CoversInv
<1>1. IdleCovers => CoversInv
  BY IdleCoversInv
<1>2. CoversInv /\ [CoversNext]_coverVars => CoversInv'
  BY CoversStep
<1> QED
  BY <1>1, <1>2, PTL DEF CoversSpec

\* A lookup (_probe_source_candidates) answers the first URL that is available, and
\* when none is, it has tried them all.
THEOREM CoverIsFirstAlways == CoversSpec => []CoverIsFirst
<1>1. CoversInv => CoverIsFirst
  BY DEF CoversInv, CoverIsFirst, Fits
<1> QED
  BY <1>1, CoversInvariant, PTL

-----------------------------------------------------------------------------
(* The two forms of an ISBN. *)

\* The check digit of either form completes its sum.
LEMMA ChecksComplete ==
    ASSUME NEW n \in Nat
    PROVE  /\ (10 - (n % 10)) % 10 \in 0..9
           /\ (n + ((10 - (n % 10)) % 10)) % 10 = 0
           /\ LET value == 11 - (n % 11)
                  digit == IF value = 11 THEN 0 ELSE value
              IN  digit \in 0..10 /\ (n + digit) % 11 = 0
OBVIOUS

\* Two digits that complete the same sum are the same.
LEMMA OneCheck ==
    ASSUME NEW n \in Nat, NEW a \in Digit, NEW b \in Digit,
           (n + a) % 10 = 0, (n + b) % 10 = 0
    PROVE  a = b
BY DEF Digit

\* A function on 1..n is a sequence of length n.
LEMMA OfLength ==
    ASSUME NEW S, NEW n \in Nat, NEW s \in [1..n -> S]
    PROVE  s \in Seq(S) /\ Len(s) = n
<1>1. s \in Seq(S)
  BY SeqDef
<1>2. DOMAIN s = 1..Len(s) /\ Len(s) \in Nat
  BY <1>1, LenProperties
<1>3. 1..n = 1..Len(s)
  BY <1>2
<1>4. n <= Len(s)
  <2>1. CASE n = 0
    BY <2>1, <1>2
  <2>2. CASE n # 0
    <3>1. n \in 1..n
      BY <2>2
    <3>2. n \in 1..Len(s)
      BY <1>3, <3>1
    <3> QED
      BY <3>2
  <2> QED
    BY <2>1, <2>2
<1>5. Len(s) <= n
  <2>1. CASE Len(s) = 0
    BY <2>1
  <2>2. CASE Len(s) # 0
    <3>1. Len(s) \in 1..Len(s)
      BY <2>2, <1>2
    <3>2. Len(s) \in 1..n
      BY <1>3, <3>1
    <3> QED
      BY <3>2
  <2> QED
    BY <2>1, <2>2
<1> QED
  BY <1>1, <1>2, <1>4, <1>5

\* The sums of digits are numbers, and agree where the digits do.
LEMMA Sums ==
    ASSUME NEW n, \A k \in 1..9 : n[k] \in Digit
    PROVE  /\ Sum10(n) \in Nat
           /\ \A m : (\A k \in 1..9 : m[k] = n[k]) => Sum10(m) = Sum10(n)
<1>1. \A a \in Nat : /\ 10 * a \in Nat /\ 9 * a \in Nat /\ 8 * a \in Nat
                      /\ 7 * a \in Nat /\ 6 * a \in Nat /\ 5 * a \in Nat
                      /\ 4 * a \in Nat /\ 3 * a \in Nat /\ 2 * a \in Nat
  OBVIOUS
<1>2. /\ n[1] \in Nat /\ n[2] \in Nat /\ n[3] \in Nat
      /\ n[4] \in Nat /\ n[5] \in Nat /\ n[6] \in Nat
      /\ n[7] \in Nat /\ n[8] \in Nat /\ n[9] \in Nat
  BY DEF Digit
<1>3. Sum10(n) \in Nat
  <2>1. /\ 10 * n[1] \in Nat /\ 9 * n[2] \in Nat /\ 8 * n[3] \in Nat
        /\ 7 * n[4] \in Nat /\ 6 * n[5] \in Nat /\ 5 * n[6] \in Nat
        /\ 4 * n[7] \in Nat /\ 3 * n[8] \in Nat /\ 2 * n[9] \in Nat
    BY <1>1, <1>2, Zenon
  <2>2. \A a, b \in Nat : a + b \in Nat
    OBVIOUS
  <2> QED
    BY <2>1, <2>2, Zenon DEF Sum10
<1>4. ASSUME NEW m, \A k \in 1..9 : m[k] = n[k] PROVE Sum10(m) = Sum10(n)
  <2>1. /\ m[1] = n[1] /\ m[2] = n[2] /\ m[3] = n[3]
        /\ m[4] = n[4] /\ m[5] = n[5] /\ m[6] = n[6]
        /\ m[7] = n[7] /\ m[8] = n[8] /\ m[9] = n[9]
    BY <1>4
  <2> QED
    BY <2>1 DEF Sum10
<1> QED
  BY <1>3, <1>4

\* The same of the sum of an ISBN-13.
LEMMA Sums13 ==
    ASSUME NEW n, \A k \in 1..12 : n[k] \in Digit
    PROVE  /\ Sum13(n) \in Nat
           /\ \A m : (\A k \in 1..12 : m[k] = n[k]) => Sum13(m) = Sum13(n)
<1>1. ASSUME NEW a \in Nat, NEW b \in Nat, NEW c \in Nat, NEW d \in Nat, NEW e \in Nat,
             NEW f \in Nat, NEW g \in Nat, NEW h \in Nat, NEW i \in Nat, NEW j \in Nat,
             NEW k \in Nat, NEW l \in Nat
      PROVE  a + b + c + d + e + f + 3 * (g + h + i + j + k + l) \in Nat
  OBVIOUS
<1>2. /\ n[1] \in Nat /\ n[2] \in Nat /\ n[3] \in Nat
      /\ n[4] \in Nat /\ n[5] \in Nat /\ n[6] \in Nat
      /\ n[7] \in Nat /\ n[8] \in Nat /\ n[9] \in Nat
      /\ n[10] \in Nat /\ n[11] \in Nat /\ n[12] \in Nat
  BY DEF Digit
<1>3. Sum13(n) \in Nat
  BY <1>1, <1>2 DEF Sum13
<1>4. ASSUME NEW m, \A k \in 1..12 : m[k] = n[k] PROVE Sum13(m) = Sum13(n)
  <2>1. /\ m[1] = n[1] /\ m[2] = n[2] /\ m[3] = n[3]
        /\ m[4] = n[4] /\ m[5] = n[5] /\ m[6] = n[6]
        /\ m[7] = n[7] /\ m[8] = n[8] /\ m[9] = n[9]
        /\ m[10] = n[10] /\ m[11] = n[11] /\ m[12] = n[12]
    BY <1>4
  <2> QED
    BY <2>1 DEF Sum13
<1> QED
  BY <1>3, <1>4

\* The digits of the ISBN-10 of an ISBN-13.
LEMMA TenDigits ==
    ASSUME NEW x \in Isbn13
    PROVE  LET t == ToIsbn10(x) IN
           /\ \A k \in 1..9 : t[k] = x[k + 3] /\ t[k] \in Digit
           /\ t[10] \in 0..10
           /\ (Sum10(t) + t[10]) % 11 = 0
           /\ t \in Seq(0..10) /\ Len(t) = 10
<1> DEFINE core == SubSeq(x, 4, 12)
<1>1. \A k \in 4..12 : x[k] \in Digit
  BY DEF Isbn13
<1>2. core \in Seq(Digit) /\ Len(core) = 9 /\ \A k \in 1..9 : core[k] = x[k + 3]
  <2>1. /\ core \in Seq(Digit)
        /\ Len(core) = IF 4 <= 12 THEN 12 - 4 + 1 ELSE 0
        /\ \A k \in 1..(12 - 4 + 1) : core[k] = x[4 + k - 1]
    BY <1>1, SubSeqProperties
  <2> HIDE DEF core
  <2>2. ASSUME NEW k \in 1..9 PROVE core[k] = x[k + 3]
    <3>1. k \in 1..(12 - 4 + 1) /\ 4 + k - 1 = k + 3
      OBVIOUS
    <3> QED
      BY <2>1, <3>1
  <2>3. Len(core) = 9
    BY <2>1
  <2> QED
    BY <2>1, <2>2, <2>3
<1>3. \A k \in 1..9 : core[k] \in Digit
  BY <1>1, <1>2
<1> DEFINE t == Append(core, Check10(core))
<1> HIDE DEF core
<1>4. Sum10(core) \in Nat
  BY <1>3, Sums
<1>5. Check10(core) \in 0..10 /\ (Sum10(core) + Check10(core)) % 11 = 0
  BY <1>4, ChecksComplete DEF Check10
<1>6. /\ t \in Seq(0..10) /\ Len(t) = 10 /\ t[10] = Check10(core)
      /\ \A k \in 1..9 : t[k] = core[k]
  <2>1. core \in Seq(0..10)
    BY <1>2, SeqMonotonic DEF Digit
  <2>2. /\ t \in Seq(0..10) /\ Len(t) = Len(core) + 1
        /\ \A k \in 1..Len(core) : t[k] = core[k]
        /\ t[Len(core) + 1] = Check10(core)
    BY <1>5, <2>1, AppendProperties
  <2> HIDE DEF t
  <2> QED
    BY <1>2, <2>2
<1>7. Sum10(t) = Sum10(core)
  BY <1>3, <1>6, Sums
<1>8. ToIsbn10(x) = t
  BY DEF ToIsbn10, core
<1> HIDE DEF t
<1> QED
  BY <1>2, <1>3, <1>5, <1>6, <1>7, <1>8

\* And those of the ISBN-13 of an ISBN-10.
LEMMA ThirteenDigits ==
    ASSUME NEW t, \A k \in 1..9 : t[k] \in Digit
    PROVE  LET y == ToIsbn13(t) IN
           /\ y \in Isbn13
           /\ y[1] = 9 /\ y[2] = 7 /\ y[3] = 8
           /\ \A k \in 1..9 : y[k + 3] = t[k]
           /\ (Sum13(y) + y[13]) % 10 = 0
<1> DEFINE rest == SubSeq(t, 1, 9)
           head == <<9, 7, 8>>
           core == head \o rest
<1>1. rest \in Seq(Digit) /\ Len(rest) = 9 /\ \A k \in 1..9 : rest[k] = t[k]
  <2>1. /\ rest \in Seq(Digit)
        /\ Len(rest) = IF 1 <= 9 THEN 9 - 1 + 1 ELSE 0
        /\ \A k \in 1..(9 - 1 + 1) : rest[k] = t[1 + k - 1]
    BY SubSeqProperties
  <2> HIDE DEF rest
  <2>2. ASSUME NEW k \in 1..9 PROVE rest[k] = t[k]
    <3>1. k \in 1..(9 - 1 + 1) /\ 1 + k - 1 = k
      OBVIOUS
    <3> QED
      BY <2>1, <3>1
  <2>3. Len(rest) = 9
    BY <2>1
  <2> QED
    BY <2>1, <2>2, <2>3
<1>2. head \in Seq(Digit) /\ Len(head) = 3 /\ head[1] = 9 /\ head[2] = 7 /\ head[3] = 8
  BY DEF Digit
<1> HIDE DEF rest, head
<1>3. /\ core \in Seq(Digit) /\ Len(core) = 12
      /\ \A k \in 1..3 : core[k] = head[k]
      /\ \A k \in 1..9 : core[k + 3] = t[k]
  <2>0. /\ core \in Seq(Digit) /\ Len(core) = Len(head) + Len(rest)
        /\ \A k \in 1..(Len(head) + Len(rest)) :
              core[k] = IF k <= Len(head) THEN head[k] ELSE rest[k - Len(head)]
    BY <1>1, <1>2, ConcatProperties
  <2> HIDE DEF core
  <2>1. core \in Seq(Digit) /\ Len(core) = 12
    BY <1>1, <1>2, <2>0
  <2>2. \A k \in 1..(3 + 9) : core[k] = IF k <= 3 THEN head[k] ELSE rest[k - 3]
    BY <1>1, <1>2, <2>0
  <2>3. \A k \in 1..3 : core[k] = head[k]
    BY <2>2
  <2>4. ASSUME NEW k \in 1..9 PROVE core[k + 3] = t[k]
    <3>1. k + 3 \in 1..(3 + 9) /\ ~(k + 3 <= 3) /\ (k + 3) - 3 = k
      OBVIOUS
    <3>2. core[k + 3] = rest[(k + 3) - 3]
      BY <2>2, <3>1
    <3> QED
      BY <1>1, <3>1, <3>2
  <2> QED
    BY <2>1, <2>3, <2>4
<1> HIDE DEF core
<1>4. \A k \in 1..12 : core[k] \in Digit
  <2>1. \A k \in 1..3 : core[k] \in Digit
    BY <1>2, <1>3 DEF Digit
  <2>2. ASSUME NEW k \in 4..12 PROVE core[k] \in Digit
    <3>1. k - 3 \in 1..9 /\ (k - 3) + 3 = k
      OBVIOUS
    <3> QED
      BY <1>3, <3>1
  <2> QED
    BY <2>1, <2>2
<1>5. Sum13(core) \in Nat
  BY <1>4, Sums13
<1>6. Check13(core) \in Digit /\ (Sum13(core) + Check13(core)) % 10 = 0
  BY <1>5, ChecksComplete DEF Check13, Digit
<1> DEFINE y == Append(core, Check13(core))
<1>7. /\ y \in Seq(Digit) /\ Len(y) = 13 /\ y[13] = Check13(core)
      /\ \A k \in 1..12 : y[k] = core[k]
  <2>0. core \in Seq(Digit) /\ Check13(core) \in Digit
    BY <1>3, <1>6
  <2>1. /\ y \in Seq(Digit) /\ Len(y) = Len(core) + 1
        /\ \A k \in 1..Len(core) : y[k] = core[k]
        /\ y[Len(core) + 1] = Check13(core)
    BY <2>0, AppendProperties
  <2> HIDE DEF y
  <2> QED
    BY <1>3, <2>1
<1>8. ToIsbn13(t) = y
  BY DEF ToIsbn13, core, head, rest
<1> HIDE DEF y
<1>9. Sum13(y) = Sum13(core)
  BY <1>4, <1>7, Sums13
<1>10. y \in Isbn13
  <2>1. \A k \in 1..13 : y[k] \in Digit
    <3>1. \A k \in 1..12 : y[k] \in Digit
      BY <1>4, <1>7
    <3> QED
      BY <3>1, <1>6, <1>7
  <2>2. y = [k \in 1..13 |-> y[k]]
    BY <1>7
  <2> QED
    BY <2>1, <2>2 DEF Isbn13
<1>11. \A k \in 1..9 : y[k + 3] = t[k]
  BY <1>3, <1>7
<1>12. y[1] = 9 /\ y[2] = 7 /\ y[3] = 8
  BY <1>2, <1>3, <1>7
<1> QED
  BY <1>6, <1>7, <1>8, <1>9, <1>10, <1>11, <1>12

\* What HasIsbn10 looks at.
LEMMA Prefix ==
    ASSUME NEW x \in Isbn13, HasIsbn10(x)
    PROVE  x[1] = 9 /\ x[2] = 7 /\ x[3] = 8
<1> DEFINE p == SubSeq(x, 1, 3)
<1>1. \A k \in 1..3 : x[k] \in Digit
  BY DEF Isbn13
<1>2. \A k \in 1..(3 - 1 + 1) : p[k] = x[1 + k - 1]
  BY <1>1, SubSeqProperties
<1>3. p = <<9, 7, 8>>
  BY DEF HasIsbn10
<1> HIDE DEF p
<1> QED
  BY <1>2, <1>3

\* The forms of one ISBN.
LEMMA FormsOfOne ==
    ASSUME NEW x \in Isbn13, HasIsbn10(x)
    PROVE  /\ IsIsbn10(ToIsbn10(x))
           /\ IsIsbn13(ToIsbn13(ToIsbn10(x)))
           /\ IsIsbn13(x) => ToIsbn13(ToIsbn10(x)) = x
<1> DEFINE t == ToIsbn10(x)
           y == ToIsbn13(t)
<1>1. /\ \A k \in 1..9 : t[k] = x[k + 3] /\ t[k] \in Digit
      /\ (Sum10(t) + t[10]) % 11 = 0
  BY TenDigits
<1> HIDE DEF t
<1>2. /\ y \in Isbn13 /\ y[1] = 9 /\ y[2] = 7 /\ y[3] = 8
      /\ \A k \in 1..9 : y[k + 3] = t[k]
      /\ (Sum13(y) + y[13]) % 10 = 0
  BY <1>1, ThirteenDigits
<1> HIDE DEF y
<1>3. \A k \in 1..12 : y[k] = x[k]
  <2>1. y[1] = x[1] /\ y[2] = x[2] /\ y[3] = x[3]
    BY <1>2, Prefix
  <2>2. ASSUME NEW k \in 4..12 PROVE y[k] = x[k]
    <3>1. k - 3 \in 1..9 /\ (k - 3) + 3 = k
      OBVIOUS
    <3>2. y[(k - 3) + 3] = t[k - 3] /\ t[k - 3] = x[(k - 3) + 3]
      BY <1>1, <1>2, <3>1
    <3> QED
      BY <3>1, <3>2
  <2> QED
    BY <2>1, <2>2
<1>4. ASSUME IsIsbn13(x) PROVE y = x
  <2>1. Sum13(y) = Sum13(x) /\ Sum13(x) \in Nat
    <3>1. \A k \in 1..12 : x[k] \in Digit
      BY DEF Isbn13
    <3> QED
      BY <1>3, <3>1, Sums13
  <2>2. x[13] \in Digit /\ y[13] \in Digit
    BY <1>2 DEF Isbn13
  <2>3. y[13] = x[13]
    BY <1>2, <1>4, <2>1, <2>2, OneCheck DEF IsIsbn13
  <2> QED
    BY <1>2, <1>3, <2>3 DEF Isbn13
<1>5. IsIsbn10(t) /\ IsIsbn13(y)
  BY <1>1, <1>2 DEF IsIsbn10, IsIsbn13
<1> QED
  BY <1>4, <1>5 DEF t, y

\* The ISBN-10 of every ISBN (isbn_utils) is one, and so is the ISBN-13 of that; it is
\* the ISBN itself when the check digit was right.
THEOREM FormsAgreeAlways == CoversSpec => []FormsAgree
<1>1. CoversInv => FormsAgree
  BY FormsOfOne, LookupsAssumption DEF CoversInv, FormsAgree
<1> QED
  BY <1>1, CoversInvariant, PTL

-----------------------------------------------------------------------------
(* Both together. *)

\* A behaviour of the run is a search and some lookups.
LEMMA BothParts == Spec => SearchSpec /\ CoversSpec
<1>1. Init => IdleSearch /\ IdleCovers
  BY DEF Init
<1>2. [Next]_vars => [SearchNext]_searchVars /\ [CoversNext]_coverVars
  BY DEF Next, vars, searchVars, coverVars
<1> QED
  BY <1>1, <1>2, PTL DEF Spec, SearchSpec, CoversSpec

\* The types of both parts, and with them the limit of the attempts and the count of
\* the permits.
THEOREM TypesAlways == Spec => []TypeOK
<1>1. SearchInv => SearchTypes
  BY DEF SearchInv, SourcesInv, GoogleInv, Standing, SourcePlaces, SearchTypes
<1>2. CoversInv => CoverTypes
  BY DEF CoversInv
<1>3. SearchTypes /\ CoverTypes => TypeOK
  BY DEF TypeOK
<1> QED
  BY <1>1, <1>2, <1>3, BothParts, SearchInvariant, CoversInvariant, PTL
=============================================================================
