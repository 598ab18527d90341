--------------------------- MODULE IngestJobProofs ---------------------------
(***************************************************************************)
(* Machine-checked proofs about IngestJob: the audit trail of job_runs,    *)
(* that a directory source and a parallel run account for every file, and  *)
(* that a source yields what it holds, once and in order.                  *)
(***************************************************************************)
EXTENDS IngestJob, FiniteSetTheorems, SequenceTheorems, WellFoundedInduction, TLAPS

-----------------------------------------------------------------------------
(* Induction, over sets: T is the set of what the claim holds for.         *)

\* A set of numbers that is not empty has a least one.
LEMMA LeastNumber ==
    ASSUME NEW T, T \subseteq Nat, T # {}
    PROVE  \E x \in T : \A y \in T : x <= y
<1> DEFINE R == OpToRel(<, Nat)
<1>1. IsWellFoundedOn(R, Nat)
  BY NatLessThanWellFounded
<1>2. \A x \in Nat, y \in Nat : <<y, x>> \in R <=> y < x
  BY DEF OpToRel
<1> HIDE DEF R
<1>3. PICK x \in T : \A y \in T : ~ (<<y, x>> \in R)
  BY <1>1, WFMin
<1>4. \A y \in T : x <= y
  <2> TAKE y \in T
  <2>1. x \in Nat /\ y \in Nat /\ ~ (y < x)
    BY <1>2, <1>3
  <2> QED
    BY <2>1
<1> QED
  BY <1>4

\* Induction over the natural numbers.
LEMMA NumberInduction ==
    ASSUME NEW T, 0 \in T, \A n \in Nat : n \in T => n + 1 \in T
    PROVE  \A n \in Nat : n \in T
<1> DEFINE Bad == Nat \ T
<1>0. Bad \subseteq Nat
  OBVIOUS
<1> SUFFICES ASSUME Bad # {} PROVE FALSE
  OBVIOUS
<1>1. PICK m \in Bad : \A y \in Bad : m <= y
  <2> HIDE DEF Bad
  <2> QED
    BY <1>0, LeastNumber
<1>2. m # 0 /\ m \in Nat
  OBVIOUS
<1>3. m - 1 \in Nat /\ m - 1 \notin Bad
  BY <1>1, <1>2
<1>4. (m - 1) + 1 \in T
  BY <1>3
<1> QED
  BY <1>2, <1>4

\* Induction over the sequences of a set, from the back.
LEMMA SequenceInduction ==
    ASSUME NEW A, NEW T, << >> \in T,
           \A s \in Seq(A), e \in A : s \in T => Append(s, e) \in T
    PROVE  \A s \in Seq(A) : s \in T
<1> DEFINE G == {n \in Nat : \A s \in Seq(A) : Len(s) = n => s \in T}
<1>1. 0 \in G
  <2>1. \A s \in Seq(A) : Len(s) = 0 => s = << >>
    BY EmptySeq
  <2> QED
    BY <2>1
<1>2. ASSUME NEW n \in Nat, n \in G PROVE n + 1 \in G
  <2> SUFFICES ASSUME NEW s \in Seq(A), Len(s) = n + 1 PROVE s \in T
    OBVIOUS
  <2>1. s # << >>
    BY EmptySeq
  <2>2. PICK t \in Seq(A), e \in A : s = Append(t, e)
    BY <2>1, SequenceEmptyOrAppend
  <2>3. Len(t) \in Nat /\ Len(s) = Len(t) + 1
    BY <2>2, AppendProperties, LenProperties
  <2>4. Len(t) = n
    BY <2>3
  <2>5. t \in T
    BY <1>2, <2>4
  <2> QED
    BY <2>2, <2>5
<1> HIDE DEF G
<1>3. \A n \in Nat : n \in G
  BY <1>1, <1>2, NumberInduction
<1>4. \A s \in Seq(A) : Len(s) \in Nat
  BY LenProperties
<1> QED
  BY <1>3, <1>4 DEF G

-----------------------------------------------------------------------------
(* The filter Only *)

\* What Only computes: the part kept of the first i elements of s.
FirstParts(F, s, n, S) ==
    F = [i \in 0..n |-> IF i = 0 THEN << >>
                        ELSE IF s[i] \in S THEN Append(F[i - 1], s[i]) ELSE F[i - 1]]

\* There are such parts for every n.
LEMMA FirstPartsExist ==
    ASSUME NEW s, NEW S, NEW n \in Nat
    PROVE  \E F : FirstParts(F, s, n, S)
<1> DEFINE G == {m \in Nat : \E F : FirstParts(F, s, m, S)}
<1>1. 0 \in G
  <2>1. FirstParts([i \in 0..0 |-> << >>], s, 0, S)
    BY DEF FirstParts
  <2> QED
    BY <2>1
<1>2. ASSUME NEW m \in Nat, m \in G PROVE m + 1 \in G
  <2>1. PICK F : FirstParts(F, s, m, S)
    BY <1>2
  <2> DEFINE H == [i \in 0..(m + 1) |->
                      IF i <= m THEN F[i]
                      ELSE IF s[m + 1] \in S THEN Append(F[m], s[m + 1]) ELSE F[m]]
             K == [i \in 0..(m + 1) |->
                      IF i = 0 THEN << >>
                      ELSE IF s[i] \in S THEN Append(H[i - 1], s[i]) ELSE H[i - 1]]
  <2>2. ASSUME NEW i \in 0..(m + 1) PROVE H[i] = K[i]
    <3>1. CASE i = 0
      <4>1. F[0] = << >>
        BY <2>1 DEF FirstParts
      <4> QED
        BY <3>1, <4>1
    <3>2. CASE i # 0 /\ i <= m
      <4>1. i \in 0..m /\ i - 1 \in 0..(m + 1) /\ i - 1 <= m
        BY <3>2
      <4>2. F[i] = IF s[i] \in S THEN Append(F[i - 1], s[i]) ELSE F[i - 1]
        BY <2>1, <3>2, <4>1 DEF FirstParts
      <4>3. H[i - 1] = F[i - 1] /\ H[i] = F[i]
        BY <3>2, <4>1
      <4> QED
        BY <3>2, <4>2, <4>3
    <3>3. CASE i = m + 1
      <4>1. H[m] = F[m] /\ i - 1 = m /\ ~(i <= m) /\ i # 0
        BY <3>3
      <4>2. H[i] = IF s[m + 1] \in S THEN Append(F[m], s[m + 1]) ELSE F[m]
        BY <4>1
      <4>3. K[i] = IF s[m + 1] \in S THEN Append(H[m], s[m + 1]) ELSE H[m]
        BY <3>3, <4>1
      <4> QED
        BY <4>1, <4>2, <4>3
    <3> QED
      BY <3>1, <3>2, <3>3
  <2>3. FirstParts(H, s, m + 1, S)
    BY <2>2 DEF FirstParts
  <2> QED
    BY <2>3
<1> HIDE DEF G
<1>3. \A m \in Nat : m \in G
  BY <1>1, <1>2, NumberInduction
<1> QED
  BY <1>3 DEF G

\* They depend on those elements only.
LEMMA FirstPartsUnique ==
    ASSUME NEW s, NEW t, NEW S, NEW n \in Nat, NEW m \in Nat, n <= m,
           NEW F, FirstParts(F, s, n, S), NEW H, FirstParts(H, t, m, S),
           \A i \in 1..n : s[i] = t[i]
    PROVE  F[n] = H[n]
<1> DEFINE G == {i \in Nat : i <= n => F[i] = H[i]}
<1>1. 0 \in G
  BY DEF FirstParts
<1>2. ASSUME NEW i \in Nat, i \in G PROVE i + 1 \in G
  <2> SUFFICES ASSUME i + 1 <= n PROVE F[i + 1] = H[i + 1]
    OBVIOUS
  <2>1. F[i] = H[i]
    BY <1>2
  <2>2. i + 1 \in 0..n /\ i + 1 \in 0..m /\ i + 1 \in 1..n /\ (i + 1) - 1 = i /\ i + 1 # 0
    OBVIOUS
  <2>3. F[i + 1] = IF s[i + 1] \in S THEN Append(F[i], s[i + 1]) ELSE F[i]
    BY <2>2 DEF FirstParts
  <2>4. H[i + 1] = IF t[i + 1] \in S THEN Append(H[i], t[i + 1]) ELSE H[i]
    BY <2>2 DEF FirstParts
  <2> QED
    BY <2>1, <2>2, <2>3, <2>4
<1> HIDE DEF G
<1>3. n \in G
  BY <1>1, <1>2, NumberInduction
<1> QED
  BY <1>3 DEF G

\* Only(s, S) is the last of these parts.
LEMMA OnlyIs ==
    ASSUME NEW A, NEW s \in Seq(A), NEW S
    PROVE  \E F : FirstParts(F, s, Len(s), S) /\ Only(s, S) = F[Len(s)]
<1> DEFINE Eq(F) == F = [i \in 0..Len(s) |->
                            IF i = 0 THEN << >>
                            ELSE IF s[i] \in S THEN Append(F[i - 1], s[i]) ELSE F[i - 1]]
           F0 == CHOOSE F : Eq(F)
<1>0. Len(s) \in Nat
  BY LenProperties
<1>1. \A F : Eq(F) <=> FirstParts(F, s, Len(s), S)
  BY DEF FirstParts
<1>2. Eq(F0)
  <2>1. \E F : Eq(F)
    BY <1>0, <1>1, FirstPartsExist
  <2> QED
    BY <2>1
<1>3. Only(s, S) = F0[Len(s)]
  BY DEF Only
<1> HIDE DEF F0, Eq
<1> QED
  BY <1>1, <1>2, <1>3

\* Nothing is kept of the empty sequence.
LEMMA OnlyEmpty ==
    ASSUME NEW S
    PROVE  Only(<< >>, S) = << >>
<1>1. << >> \in Seq({}) /\ Len(<< >>) = 0
  BY EmptySeq
<1>2. PICK F : FirstParts(F, << >>, 0, S) /\ Only(<< >>, S) = F[0]
  BY <1>1, OnlyIs
<1> QED
  BY <1>2 DEF FirstParts

\* A further element is kept if it is in S.
LEMMA OnlyAppend ==
    ASSUME NEW A, NEW s \in Seq(A), NEW e \in A, NEW S
    PROVE  Only(Append(s, e), S) = IF e \in S THEN Append(Only(s, S), e) ELSE Only(s, S)
<1> DEFINE t == Append(s, e)
           n == Len(s)
<1>1. /\ n \in Nat /\ t \in Seq(A) /\ Len(t) = n + 1
      /\ \A i \in 1..n : t[i] = s[i]
      /\ t[n + 1] = e
  BY AppendProperties, LenProperties
<1> HIDE DEF t, n
<1>2. PICK F : FirstParts(F, s, n, S) /\ Only(s, S) = F[n]
  BY OnlyIs DEF n
<1>3. PICK H : FirstParts(H, t, n + 1, S) /\ Only(t, S) = H[n + 1]
  BY <1>1, OnlyIs
<1>4. F[n] = H[n]
  <2>1. n + 1 \in Nat /\ n <= n + 1
    BY <1>1
  <2> QED
    BY <1>1, <1>2, <1>3, <2>1, FirstPartsUnique
<1>5. H[n + 1] = IF t[n + 1] \in S THEN Append(H[n], t[n + 1]) ELSE H[n]
  <2>1. n + 1 \in 0..(n + 1) /\ n + 1 # 0 /\ (n + 1) - 1 = n
    BY <1>1
  <2> QED
    BY <1>3, <2>1 DEF FirstParts
<1> QED
  BY <1>1, <1>2, <1>3, <1>4, <1>5 DEF t

\* What is kept are elements of the sequence, and of S.
LEMMA OnlySeq ==
    ASSUME NEW A, NEW s \in Seq(A), NEW S
    PROVE  Only(s, S) \in Seq(A \intersect S)
<1> DEFINE T == {t \in Seq(A) : Only(t, S) \in Seq(A \intersect S)}
<1>1. << >> \in T
  BY OnlyEmpty, EmptySeq
<1>2. ASSUME NEW t \in Seq(A), NEW e \in A, t \in T PROVE Append(t, e) \in T
  <2>1. Append(t, e) \in Seq(A)
    BY AppendProperties
  <2>2. Only(t, S) \in Seq(A \intersect S)
    BY <1>2
  <2>3. Only(Append(t, e), S) = IF e \in S THEN Append(Only(t, S), e) ELSE Only(t, S)
    BY OnlyAppend
  <2>4. e \in S => Append(Only(t, S), e) \in Seq(A \intersect S)
    BY <2>2, AppendProperties
  <2> QED
    BY <2>1, <2>2, <2>3, <2>4
<1> HIDE DEF T
<1>3. s \in T
  BY <1>1, <1>2, SequenceInduction
<1> QED
  BY <1>3 DEF T

\* If every element is in S, all are kept.
LEMMA OnlyAll ==
    ASSUME NEW A, NEW s \in Seq(A), NEW S, A \subseteq S
    PROVE  Only(s, S) = s
<1> DEFINE T == {t \in Seq(A) : Only(t, S) = t}
<1>1. << >> \in T
  BY OnlyEmpty, EmptySeq
<1>2. ASSUME NEW t \in Seq(A), NEW e \in A, t \in T PROVE Append(t, e) \in T
  <2>1. Append(t, e) \in Seq(A)
    BY AppendProperties
  <2>2. Only(t, S) = t /\ e \in S
    BY <1>2
  <2>3. Only(Append(t, e), S) = Append(t, e)
    BY <2>2, OnlyAppend
  <2> QED
    BY <2>1, <2>3
<1> HIDE DEF T
<1>3. s \in T
  BY <1>1, <1>2, SequenceInduction
<1> QED
  BY <1>3 DEF T

\* If none is, nothing is.
LEMMA OnlyNone ==
    ASSUME NEW A, NEW s \in Seq(A), NEW S, A \intersect S = {}
    PROVE  Only(s, S) = << >>
<1> DEFINE T == {t \in Seq(A) : Only(t, S) = << >>}
<1>1. << >> \in T
  BY OnlyEmpty, EmptySeq
<1>2. ASSUME NEW t \in Seq(A), NEW e \in A, t \in T PROVE Append(t, e) \in T
  <2>1. Append(t, e) \in Seq(A)
    BY AppendProperties
  <2>2. Only(t, S) = << >> /\ e \notin S
    BY <1>2
  <2>3. Only(Append(t, e), S) = << >>
    BY <2>2, OnlyAppend
  <2> QED
    BY <2>1, <2>3
<1> HIDE DEF T
<1>3. s \in T
  BY <1>1, <1>2, SequenceInduction
<1> QED
  BY <1>3 DEF T

\* An element appended to two sequences, one after the other.
Appends(u, v, e) == Append(u \o v, e) = u \o Append(v, e)

\* It is appended to the second of them.
LEMMA AppendConcat ==
    ASSUME NEW A, NEW u \in Seq(A), NEW v \in Seq(A), NEW e \in A
    PROVE  Appends(u, v, e)
<1> DEFINE x == <<e>>
<1>1. x \in Seq(A)
  <2>1. e \in A => <<e>> \in Seq(A)
    OBVIOUS
  <2> QED
    BY <2>1
<1>2. u \o v \in Seq(A)
  BY ConcatProperties
<1>3. Append(u \o v, e) = (u \o v) \o x
  BY <1>2, AppendIsConcat
<1>4. Append(v, e) = v \o x
  BY AppendIsConcat
<1>5. (u \o v) \o x = u \o (v \o x)
  <2> HIDE DEF x
  <2>1. \A w \in Seq(A) : (u \o v) \o w = u \o (v \o w)
    BY ConcatAssociative
  <2> QED
    BY <1>1, <2>1
<1> HIDE DEF x
<1> QED
  BY <1>3, <1>4, <1>5 DEF Appends

\* Filtering two sequences one after the other filters each.
LEMMA OnlyConcat ==
    ASSUME NEW A, NEW r \in Seq(A), NEW s \in Seq(A), NEW S
    PROVE  Only(r \o s, S) = Only(r, S) \o Only(s, S)
<1> DEFINE T == {t \in Seq(A) : Only(r \o t, S) = Only(r, S) \o Only(t, S)}
<1>0. Only(r, S) \in Seq(A \intersect S)
  BY OnlySeq
<1>1. << >> \in T
  <2>1. r \o << >> = r /\ Only(r, S) \o << >> = Only(r, S)
    BY <1>0, ConcatEmptySeq
  <2> QED
    BY <2>1, OnlyEmpty, EmptySeq
<1>2. ASSUME NEW t \in Seq(A), NEW e \in A, t \in T PROVE Append(t, e) \in T
  <2>1. Append(t, e) \in Seq(A)
    BY AppendProperties
  <2>2. Only(r \o t, S) = Only(r, S) \o Only(t, S)
    BY <1>2
  <2>3. r \o t \in Seq(A)
    BY ConcatProperties
  <2>4. r \o Append(t, e) = Append(r \o t, e)
    <3>1. Appends(r, t, e)
      BY AppendConcat
    <3> QED
      BY <3>1 DEF Appends
  <2>5. Only(r \o Append(t, e), S)
            = IF e \in S THEN Append(Only(r \o t, S), e) ELSE Only(r \o t, S)
    <3> DEFINE w == r \o t
    <3>1. w \in Seq(A)
      BY <2>3
    <3> HIDE DEF w
    <3>2. Only(Append(w, e), S) = IF e \in S THEN Append(Only(w, S), e) ELSE Only(w, S)
      BY <3>1, OnlyAppend
    <3> QED
      BY <2>4, <3>2 DEF w
  <2>6. Only(Append(t, e), S) = IF e \in S THEN Append(Only(t, S), e) ELSE Only(t, S)
    BY OnlyAppend
  <2>7. CASE e \notin S
    BY <2>1, <2>2, <2>5, <2>6, <2>7
  <2>8. CASE e \in S
    <3> DEFINE u == Only(r, S)
               v == Only(t, S)
               B == A \intersect S
    <3>1. u \in Seq(B) /\ v \in Seq(B) /\ e \in B
      BY <1>0, <2>8, OnlySeq
    <3> HIDE DEF u, v, B
    <3>2. Append(u \o v, e) = u \o Append(v, e)
      <4>1. Appends(u, v, e)
        BY <3>1, AppendConcat
      <4> QED
        BY <4>1 DEF Appends
    <3> QED
      BY <2>1, <2>2, <2>5, <2>6, <2>8, <3>2 DEF u, v
  <2> QED
    BY <2>7, <2>8
<1> HIDE DEF T
<1>3. s \in T
  BY <1>1, <1>2, SequenceInduction
<1> QED
  BY <1>3 DEF T

\* Disjoint filters keep disjoint parts.
LEMMA OnlyUnion ==
    ASSUME NEW A, NEW s \in Seq(A), NEW S, NEW R, S \intersect R = {}
    PROVE  Len(Only(s, S \union R)) = Len(Only(s, S)) + Len(Only(s, R))
<1> DEFINE T == {t \in Seq(A) : Len(Only(t, S \union R)) = Len(Only(t, S)) + Len(Only(t, R))}
<1>1. << >> \in T
  BY OnlyEmpty, EmptySeq
<1>2. ASSUME NEW t \in Seq(A), NEW e \in A, t \in T PROVE Append(t, e) \in T
  <2>1. Append(t, e) \in Seq(A)
    BY AppendProperties
  <2>2. \A X : /\ Len(Only(t, X)) \in Nat
               /\ Len(Only(Append(t, e), X)) = Len(Only(t, X)) + (IF e \in X THEN 1 ELSE 0)
    <3> TAKE X
    <3>1. Only(t, X) \in Seq(A)
      BY OnlySeq, SeqMonotonic, A \intersect X \subseteq A
    <3>2. Len(Append(Only(t, X), e)) = Len(Only(t, X)) + 1 /\ Len(Only(t, X)) \in Nat
      BY <3>1, AppendProperties, LenProperties
    <3>3. Only(Append(t, e), X) = IF e \in X THEN Append(Only(t, X), e) ELSE Only(t, X)
      BY OnlyAppend
    <3> QED
      BY <3>2, <3>3
  <2>3. Len(Only(t, S \union R)) = Len(Only(t, S)) + Len(Only(t, R))
    BY <1>2
  <2>4. /\ Len(Only(t, S)) \in Nat /\ Len(Only(t, R)) \in Nat
        /\ Len(Only(Append(t, e), S)) = Len(Only(t, S)) + (IF e \in S THEN 1 ELSE 0)
        /\ Len(Only(Append(t, e), R)) = Len(Only(t, R)) + (IF e \in R THEN 1 ELSE 0)
        /\ Len(Only(Append(t, e), S \union R))
               = Len(Only(t, S \union R)) + (IF e \in S \union R THEN 1 ELSE 0)
    BY <2>2
  <2>5. ~ (e \in S /\ e \in R) /\ (e \in S \union R <=> e \in S \/ e \in R)
    OBVIOUS
  <2>6. Len(Only(Append(t, e), S \union R))
            = Len(Only(Append(t, e), S)) + Len(Only(Append(t, e), R))
    <3> DEFINE a == Len(Only(t, S))
               b == Len(Only(t, R))
               c == Len(Only(t, S \union R))
    <3> HIDE DEF a, b, c
    <3>1. a \in Nat /\ b \in Nat /\ c = a + b
      BY <2>3, <2>4 DEF a, b, c
    <3>2. /\ Len(Only(Append(t, e), S)) = a + (IF e \in S THEN 1 ELSE 0)
          /\ Len(Only(Append(t, e), R)) = b + (IF e \in R THEN 1 ELSE 0)
          /\ Len(Only(Append(t, e), S \union R)) = c + (IF e \in S \union R THEN 1 ELSE 0)
      BY <2>4 DEF a, b, c
    <3>3. CASE e \in S
      <4>1. e \notin R /\ e \in S \union R
        BY <2>5, <3>3
      <4>2. /\ Len(Only(Append(t, e), S)) = a + 1
            /\ Len(Only(Append(t, e), R)) = b + 0
            /\ Len(Only(Append(t, e), S \union R)) = c + 1
        BY <3>2, <3>3, <4>1
      <4>3. c + 1 = (a + 1) + (b + 0)
        BY <3>1
      <4> QED
        BY <4>2, <4>3
    <3>4. CASE e \in R
      <4>1. e \notin S /\ e \in S \union R
        BY <2>5, <3>4
      <4>2. /\ Len(Only(Append(t, e), S)) = a + 0
            /\ Len(Only(Append(t, e), R)) = b + 1
            /\ Len(Only(Append(t, e), S \union R)) = c + 1
        BY <3>2, <3>4, <4>1
      <4>3. c + 1 = (a + 0) + (b + 1)
        BY <3>1
      <4> QED
        BY <4>2, <4>3
    <3>5. CASE e \notin S /\ e \notin R
      <4>1. e \notin S \union R
        BY <2>5, <3>5
      <4>2. /\ Len(Only(Append(t, e), S)) = a + 0
            /\ Len(Only(Append(t, e), R)) = b + 0
            /\ Len(Only(Append(t, e), S \union R)) = c + 0
        BY <3>2, <3>5, <4>1
      <4>3. c + 0 = (a + 0) + (b + 0)
        BY <3>1
      <4> QED
        BY <4>2, <4>3
    <3> QED
      BY <3>3, <3>4, <3>5
  <2> QED
    BY <2>1, <2>6
<1> HIDE DEF T
<1>3. s \in T
  BY <1>1, <1>2, SequenceInduction
<1> QED
  BY <1>3 DEF T

\* A part is no longer than the whole.
LEMMA OnlyLength ==
    ASSUME NEW A, NEW s \in Seq(A), NEW S
    PROVE  Len(Only(s, S)) \in Nat /\ Len(Only(s, S)) <= Len(s)
<1> DEFINE R == A \ S
<1>1. Len(Only(s, S \union R)) = Len(Only(s, S)) + Len(Only(s, R))
  BY OnlyUnion
<1>2. Only(s, S \union R) = s
  BY OnlyAll
<1>3. Len(Only(s, S)) \in Nat /\ Len(Only(s, R)) \in Nat
  BY OnlySeq, LenProperties
<1> QED
  BY <1>1, <1>2, <1>3

\* No two elements of s are the same.
Distinct(s) == \A k, l \in 1..Len(s) : s[k] = s[l] => k = l

\* A filter of distinct elements has distinct elements.
LEMMA OnlyDistinct ==
    ASSUME NEW A, NEW s \in Seq(A), NEW S, Distinct(s)
    PROVE  Distinct(Only(s, S))
<1> DEFINE T == {t \in Seq(A) : Distinct(t) => Distinct(Only(t, S))}
<1>1. << >> \in T
  BY OnlyEmpty, EmptySeq DEF Distinct
<1>2. ASSUME NEW t \in Seq(A), NEW e \in A, t \in T PROVE Append(t, e) \in T
  <2>1. /\ Append(t, e) \in Seq(A) /\ Len(t) \in Nat /\ Len(Append(t, e)) = Len(t) + 1
        /\ \A i \in 1..Len(t) : Append(t, e)[i] = t[i]
        /\ Append(t, e)[Len(t) + 1] = e
    BY AppendProperties, LenProperties
  <2> SUFFICES ASSUME Distinct(Append(t, e)) PROVE Distinct(Only(Append(t, e), S))
    BY <2>1
  <2>2. Distinct(t) /\ \A i \in 1..Len(t) : t[i] # e
    <3>1. \A i \in 1..Len(t) : i \in 1..(Len(t) + 1) /\ i # Len(t) + 1
      BY <2>1
    <3>2. Len(t) + 1 \in 1..(Len(t) + 1)
      BY <2>1
    <3> QED
      BY <2>1, <3>1, <3>2 DEF Distinct
  <2> DEFINE u == Only(t, S)
             B == {t[i] : i \in 1..Len(t)}
  <2>3. u \in Seq(B)
    <3>1. t \in Seq(B)
      BY LenProperties
    <3>2. u \in Seq(B \intersect S)
      <4> HIDE DEF B
      <4> QED
        BY <3>1, OnlySeq
    <3>3. B \intersect S \subseteq B
      OBVIOUS
    <3> HIDE DEF B, u
    <3> QED
      BY <3>2, <3>3, SeqMonotonic
  <2>4. Distinct(u)
    BY <1>2, <2>2
  <2>5. e \notin B
    BY <2>2
  <2>6. Only(Append(t, e), S) = IF e \in S THEN Append(u, e) ELSE u
    BY OnlyAppend
  <2> HIDE DEF u, B
  <2>7. Distinct(Append(u, e))
    <3>1. u \in Seq(B \union {e})
      BY <2>3, SeqMonotonic
    <3>2. /\ Len(u) \in Nat /\ Len(Append(u, e)) = Len(u) + 1
          /\ \A i \in 1..Len(u) : Append(u, e)[i] = u[i]
          /\ Append(u, e)[Len(u) + 1] = e
      BY <3>1, AppendProperties, LenProperties
    <3>3. \A i \in 1..Len(u) : u[i] # e
      BY <2>3, <2>5, ElementOfSeq
    <3>4. \A i \in 1..(Len(u) + 1) : i \in 1..Len(u) \/ i = Len(u) + 1
      BY <3>2
    <3> QED
      BY <2>4, <3>2, <3>3, <3>4 DEF Distinct
  <2> QED
    BY <2>4, <2>6, <2>7
<1> HIDE DEF T
<1>3. s \in T
  BY <1>1, <1>2, SequenceInduction
<1> QED
  BY <1>3 DEF T


\* The last entry of a sequence that has one is replaced.
LEMMA UpdateLast ==
    ASSUME NEW A, NEW s \in Seq(A), s # << >>, NEW e \in A
    PROVE  /\ Len(s) \in 1..Len(s) /\ s[Len(s)] \in A
           /\ [s EXCEPT ![Len(s)] = e] \in Seq(A)
           /\ Len([s EXCEPT ![Len(s)] = e]) = Len(s)
           /\ [s EXCEPT ![Len(s)] = e][Len(s)] = e
           /\ \A j \in 1..Len(s) : j # Len(s) => [s EXCEPT ![Len(s)] = e][j] = s[j]
<1>1. Len(s) \in Nat \ {0}
  BY EmptySeq
<1>2. Len(s) \in 1..Len(s)
  BY <1>1
<1>3. s[Len(s)] \in A
  BY <1>2, ElementOfSeq
<1> QED
  BY <1>2, <1>3, ExceptSeq

\* A beginning of a sequence.
LEMMA BeginningSeq ==
    ASSUME NEW A, NEW s \in Seq(A), NEW n \in Nat, n <= Len(s)
    PROVE  /\ SubSeq(s, 1, n) \in Seq(A)
           /\ Len(SubSeq(s, 1, n)) = n
<1>1. Len(s) \in Nat
  BY LenProperties
<1>2. \A i \in 1..n : i \in 1..Len(s)
  BY <1>1
<1>3. \A i \in 1..n : s[i] \in A
  BY <1>2, ElementOfSeq
<1>4. /\ SubSeq(s, 1, n) \in Seq(A)
      /\ Len(SubSeq(s, 1, n)) = IF 1 <= n THEN n - 1 + 1 ELSE 0
  BY <1>3, SubSeqProperties
<1>5. (IF 1 <= n THEN n - 1 + 1 ELSE 0) = n
  OBVIOUS
<1> QED
  BY <1>4, <1>5

-----------------------------------------------------------------------------
(* Entries, and the parts that UpTo joins                                  *)

\* Of none there are no entries.
LEMMA EntriesNone ==
    ASSUME NEW i, NEW S
    PROVE  Entries(i, 0, S) = << >>
<1>1. [l \in 1..0 |-> <<i, l>>] = << >>
  OBVIOUS
<1> QED
  BY <1>1, OnlyEmpty DEF Entries

\* A further line is an entry if it is numbered in S.
LEMMA EntriesNext ==
    ASSUME NEW i, NEW n \in Nat, NEW S
    PROVE  Entries(i, n + 1, S) = IF n + 1 \in S THEN Append(Entries(i, n, S), <<i, n + 1>>)
                                  ELSE Entries(i, n, S)
<1> DEFINE A == {i} \X Nat
           s == [l \in 1..n |-> <<i, l>>]
           e == <<i, n + 1>>
           T == {i} \X S
<1>1. s \in Seq(A) /\ e \in A /\ Len(s) = n
  <2>1. \A l \in 1..n : <<i, l>> \in A
    OBVIOUS
  <2> HIDE DEF A
  <2>2. s \in Seq(A) /\ Len(s) = n
    BY <2>1, SMT
  <2>3. e \in A
    BY DEF A
  <2> QED
    BY <2>2, <2>3
<1>2. [l \in 1..(n + 1) |-> <<i, l>>] = Append(s, e)
  <2> DEFINE t == [l \in 1..(n + 1) |-> <<i, l>>]
  <2>1. t \in Seq(A) /\ Len(t) = n + 1
    <3>1. \A l \in 1..(n + 1) : <<i, l>> \in A
      OBVIOUS
    <3> HIDE DEF A
    <3> QED
      BY <3>1, SMT
  <2>2. /\ Append(s, e) \in Seq(A) /\ Len(Append(s, e)) = n + 1
        /\ \A l \in 1..n : Append(s, e)[l] = s[l]
        /\ Append(s, e)[n + 1] = e
    <3> HIDE DEF A, s, e
    <3> QED
      BY <1>1, AppendProperties
  <2>3. \A l \in 1..(n + 1) : t[l] = Append(s, e)[l]
    <3> TAKE l \in 1..(n + 1)
    <3>1. CASE l = n + 1
      BY <2>2, <3>1
    <3>2. CASE l \in 1..n
      <4>1. t[l] = <<i, l>> /\ s[l] = <<i, l>>
        BY <3>2
      <4> QED
        BY <2>2, <3>2, <4>1
    <3> QED
      BY <3>1, <3>2
  <2>4. t = Append(s, e)
    <3> HIDE DEF t, s, e, A
    <3> QED
      BY <2>1, <2>2, <2>3, SeqEqual
  <2> HIDE DEF s, e
  <2> QED
    BY <2>4
<1>3. e \in T <=> n + 1 \in S
  OBVIOUS
<1>4. Entries(i, n + 1, S) = Only(Append(s, e), T) /\ Entries(i, n, S) = Only(s, T)
  BY <1>2 DEF Entries
<1> HIDE DEF s, T, A
<1>5. Only(Append(s, e), T) = IF e \in T THEN Append(Only(s, T), e) ELSE Only(s, T)
  BY <1>1, OnlyAppend
<1> QED
  BY <1>3, <1>4, <1>5

\* Entries are under the number of their file or page.
LEMMA EntriesSeq ==
    ASSUME NEW i, NEW n \in Nat, NEW S
    PROVE  Entries(i, n, S) \in Seq({i} \X Nat)
<1> DEFINE A == {i} \X Nat
           G == {m \in Nat : Entries(i, m, S) \in Seq(A)}
<1>1. 0 \in G
  BY EntriesNone, EmptySeq
<1>2. ASSUME NEW m \in Nat, m \in G PROVE m + 1 \in G
  <2>1. Entries(i, m, S) \in Seq(A) /\ <<i, m + 1>> \in A /\ m + 1 \in Nat
    BY <1>2
  <2> HIDE DEF A
  <2>2. Append(Entries(i, m, S), <<i, m + 1>>) \in Seq(A)
    BY <2>1, AppendProperties
  <2>3. Entries(i, m + 1, S) \in Seq(A)
    BY <2>1, <2>2, EntriesNext
  <2> QED
    BY <2>1, <2>3
<1> HIDE DEF G
<1>3. n \in G
  BY <1>1, <1>2, NumberInduction
<1> QED
  BY <1>3 DEF G

\* t is s with a sequence of B at its end.
Begins(s, t, B) == \E r \in Seq(B) : t = s \o r

\* The entries of the first lines are a beginning of those of all of them.
LEMMA EntriesBeginning ==
    ASSUME NEW i, NEW m \in Nat, NEW n \in Nat, m <= n, NEW S, NEW B, {i} \X Nat \subseteq B
    PROVE  Begins(Entries(i, m, S), Entries(i, n, S), B)
<1> DEFINE A == {i} \X Nat
           G == {k \in Nat : \E r \in Seq(A) : Entries(i, m + k, S) = Entries(i, m, S) \o r}
<1>1. 0 \in G
  <2>1. Entries(i, m, S) \o << >> = Entries(i, m, S) /\ m + 0 = m /\ << >> \in Seq(A)
    BY EntriesSeq, ConcatEmptySeq, EmptySeq
  <2> QED
    BY <2>1
<1>2. ASSUME NEW k \in Nat, k \in G PROVE k + 1 \in G
  <2> DEFINE s == Entries(i, m, S)
             e == <<i, (m + k) + 1>>
  <2>1. PICK r \in Seq(A) : Entries(i, m + k, S) = s \o r
    BY <1>2
  <2>2. m + k \in Nat /\ m + (k + 1) = (m + k) + 1 /\ k + 1 \in Nat
    OBVIOUS
  <2>3. s \in Seq(A) /\ e \in A
    <3>1. s \in Seq(A)
      BY EntriesSeq
    <3>2. (m + k) + 1 \in Nat
      BY <2>2
    <3> HIDE DEF s
    <3> QED
      BY <3>1, <3>2
  <2>4. Entries(i, m + (k + 1), S)
            = IF (m + k) + 1 \in S THEN Append(s \o r, e) ELSE s \o r
    <3> DEFINE n1 == m + k
    <3>1. n1 \in Nat /\ Entries(i, n1, S) = s \o r /\ m + (k + 1) = n1 + 1
      BY <2>1, <2>2
    <3> HIDE DEF n1, s
    <3>2. Entries(i, n1 + 1, S) = IF n1 + 1 \in S THEN Append(s \o r, <<i, n1 + 1>>) ELSE s \o r
      BY <3>1, EntriesNext
    <3> QED
      BY <3>1, <3>2 DEF n1
  <2> HIDE DEF A, s, e
  <2>5. Append(s \o r, e) = s \o Append(r, e) /\ Append(r, e) \in Seq(A)
    <3>1. s \o r \in Seq(A) /\ <<e>> \in Seq(A) /\ Append(r, e) \in Seq(A)
      BY <2>3, ConcatProperties, AppendProperties
    <3>2. Append(s \o r, e) = (s \o r) \o <<e>> /\ Append(r, e) = r \o <<e>>
      BY <2>3, <3>1, AppendIsConcat
    <3>3. (s \o r) \o <<e>> = s \o (r \o <<e>>)
      BY <2>3, <3>1, ConcatAssociative
    <3> QED
      BY <3>1, <3>2, <3>3
  <2>6. \E q \in Seq(A) : Entries(i, m + (k + 1), S) = s \o q
    BY <2>4, <2>5
  <2> QED
    BY <2>2, <2>6 DEF s
<1> HIDE DEF G
<1>3. n - m \in Nat /\ m + (n - m) = n
  OBVIOUS
<1>4. n - m \in G
  BY <1>1, <1>2, <1>3, NumberInduction
<1>5. PICK r \in Seq(A) : Entries(i, n, S) = Entries(i, m, S) \o r
  BY <1>3, <1>4 DEF G
<1>6. r \in Seq(B)
  <2> HIDE DEF A
  <2>1. A \subseteq B
    BY DEF A
  <2> QED
    BY <2>1, SeqMonotonic
<1> QED
  BY <1>5, <1>6 DEF Begins

\* What UpTo computes: the first parts joined.
JoinedParts(F, parts, n) ==
    F = [k \in 0..n |-> IF k = 0 THEN << >> ELSE F[k - 1] \o parts[k]]

\* The first parts can be joined, for every number of them.
LEMMA JoinedPartsExist ==
    ASSUME NEW parts, NEW n \in Nat
    PROVE  \E F : JoinedParts(F, parts, n)
<1> DEFINE G == {m \in Nat : \E F : JoinedParts(F, parts, m)}
<1>1. 0 \in G
  <2>1. JoinedParts([k \in 0..0 |-> << >>], parts, 0)
    BY DEF JoinedParts
  <2> QED
    BY <2>1
<1>2. ASSUME NEW m \in Nat, m \in G PROVE m + 1 \in G
  <2>1. PICK F : JoinedParts(F, parts, m)
    BY <1>2
  <2> DEFINE H == [k \in 0..(m + 1) |-> IF k <= m THEN F[k] ELSE F[m] \o parts[m + 1]]
             K == [k \in 0..(m + 1) |-> IF k = 0 THEN << >> ELSE H[k - 1] \o parts[k]]
  <2>2. ASSUME NEW k \in 0..(m + 1) PROVE H[k] = K[k]
    <3>1. CASE k = 0
      <4>1. F[0] = << >>
        BY <2>1 DEF JoinedParts
      <4> QED
        BY <3>1, <4>1
    <3>2. CASE k # 0 /\ k <= m
      <4>1. k \in 0..m /\ k - 1 \in 0..(m + 1) /\ k - 1 <= m
        BY <3>2
      <4>2. F[k] = F[k - 1] \o parts[k]
        BY <2>1, <3>2, <4>1 DEF JoinedParts
      <4>3. H[k - 1] = F[k - 1] /\ H[k] = F[k]
        BY <3>2, <4>1
      <4> QED
        BY <3>2, <4>2, <4>3
    <3>3. CASE k = m + 1
      <4>1. H[m] = F[m] /\ k - 1 = m /\ ~(k <= m) /\ k # 0
        BY <3>3
      <4>2. H[k] = F[m] \o parts[m + 1]
        BY <4>1
      <4>3. K[k] = H[m] \o parts[m + 1]
        BY <3>3, <4>1
      <4> QED
        BY <4>1, <4>2, <4>3
    <3> QED
      BY <3>1, <3>2, <3>3
  <2>3. JoinedParts(H, parts, m + 1)
    BY <2>2 DEF JoinedParts
  <2> QED
    BY <2>3
<1> HIDE DEF G
<1>3. \A m \in Nat : m \in G
  BY <1>1, <1>2, NumberInduction
<1> QED
  BY <1>3 DEF G

\* What they join to depends on those parts only.
LEMMA JoinedPartsUnique ==
    ASSUME NEW parts, NEW others, NEW n \in Nat, NEW m \in Nat, n <= m,
           NEW F, JoinedParts(F, parts, n), NEW H, JoinedParts(H, others, m),
           \A k \in 1..n : parts[k] = others[k]
    PROVE  F[n] = H[n]
<1> DEFINE G == {k \in Nat : k <= n => F[k] = H[k]}
<1>1. 0 \in G
  BY DEF JoinedParts
<1>2. ASSUME NEW k \in Nat, k \in G PROVE k + 1 \in G
  <2> SUFFICES ASSUME k + 1 <= n PROVE F[k + 1] = H[k + 1]
    OBVIOUS
  <2>1. F[k] = H[k]
    BY <1>2
  <2>2. k + 1 \in 0..n /\ k + 1 \in 0..m /\ k + 1 \in 1..n /\ (k + 1) - 1 = k /\ k + 1 # 0
    OBVIOUS
  <2>3. F[k + 1] = F[k] \o parts[k + 1]
    BY <2>2 DEF JoinedParts
  <2>4. H[k + 1] = H[k] \o others[k + 1]
    BY <2>2 DEF JoinedParts
  <2> QED
    BY <2>1, <2>2, <2>3, <2>4
<1> HIDE DEF G
<1>3. n \in G
  BY <1>1, <1>2, NumberInduction
<1> QED
  BY <1>3 DEF G

\* UpTo(parts, n) is what the first n of them join to.
LEMMA UpToIs ==
    ASSUME NEW parts, NEW n \in Nat
    PROVE  \E F : JoinedParts(F, parts, n) /\ UpTo(parts, n) = F[n]
<1> DEFINE Eq(F) == F = [k \in 0..n |-> IF k = 0 THEN << >> ELSE F[k - 1] \o parts[k]]
           F0 == CHOOSE F : Eq(F)
<1>1. \A F : Eq(F) <=> JoinedParts(F, parts, n)
  BY DEF JoinedParts
<1>2. Eq(F0)
  <2> HIDE DEF Eq
  <2>1. \E F : Eq(F)
    BY <1>1, JoinedPartsExist
  <2> QED
    BY <2>1
<1>3. UpTo(parts, n) = F0[n]
  BY DEF UpTo
<1> HIDE DEF F0, Eq
<1>4. JoinedParts(F0, parts, n)
  BY <1>1, <1>2
<1> QED
  BY <1>3, <1>4

\* No parts join to nothing.
LEMMA UpToNone ==
    ASSUME NEW parts
    PROVE  UpTo(parts, 0) = << >>
<1>1. PICK F : JoinedParts(F, parts, 0) /\ UpTo(parts, 0) = F[0]
  BY UpToIs
<1> QED
  BY <1>1 DEF JoinedParts

\* The next part is joined at the end.
LEMMA UpToNext ==
    ASSUME NEW parts, NEW n \in Nat
    PROVE  UpTo(parts, n + 1) = UpTo(parts, n) \o parts[n + 1]
<1>1. PICK F : JoinedParts(F, parts, n) /\ UpTo(parts, n) = F[n]
  BY UpToIs
<1>2. PICK H : JoinedParts(H, parts, n + 1) /\ UpTo(parts, n + 1) = H[n + 1]
  BY n + 1 \in Nat, UpToIs
<1>3. F[n] = H[n]
  BY <1>1, <1>2, n + 1 \in Nat, n <= n + 1, JoinedPartsUnique
<1>4. H[n + 1] = H[n] \o parts[n + 1]
  <2>1. n + 1 \in 0..(n + 1) /\ n + 1 # 0 /\ (n + 1) - 1 = n
    OBVIOUS
  <2> QED
    BY <1>2, <2>1 DEF JoinedParts
<1> QED
  BY <1>1, <1>2, <1>3, <1>4

\* Parts that agree join to the same.
LEMMA UpToSame ==
    ASSUME NEW parts, NEW others, NEW n \in Nat, \A k \in 1..n : parts[k] = others[k]
    PROVE  UpTo(parts, n) = UpTo(others, n)
<1>1. PICK F : JoinedParts(F, parts, n) /\ UpTo(parts, n) = F[n]
  BY UpToIs
<1>2. PICK H : JoinedParts(H, others, n) /\ UpTo(others, n) = H[n]
  BY UpToIs
<1>3. F[n] = H[n]
  BY <1>1, <1>2, n <= n, JoinedPartsUnique
<1> QED
  BY <1>1, <1>2, <1>3

\* Sequences of a set join to a sequence of it.
LEMMA UpToSeq ==
    ASSUME NEW A, NEW parts, NEW n \in Nat, \A k \in 1..n : parts[k] \in Seq(A)
    PROVE  UpTo(parts, n) \in Seq(A)
<1> DEFINE G == {m \in Nat : m <= n => UpTo(parts, m) \in Seq(A)}
<1>1. 0 \in G
  BY UpToNone, EmptySeq
<1>2. ASSUME NEW m \in Nat, m \in G PROVE m + 1 \in G
  <2> SUFFICES ASSUME m + 1 <= n PROVE UpTo(parts, m + 1) \in Seq(A)
    OBVIOUS
  <2>1. UpTo(parts, m) \in Seq(A) /\ m + 1 \in 1..n
    BY <1>2
  <2>2. parts[m + 1] \in Seq(A)
    BY <2>1
  <2>3. UpTo(parts, m) \o parts[m + 1] \in Seq(A)
    BY <2>1, <2>2, ConcatProperties
  <2> QED
    BY <2>3, UpToNext
<1> HIDE DEF G
<1>3. n \in G
  BY <1>1, <1>2, NumberInduction
<1> QED
  BY <1>3 DEF G

\* The first parts join to a beginning of what all of them join to, and to the
\* whole of it when the others are empty.
LEMMA UpToBeginning ==
    ASSUME NEW A, NEW parts, NEW m \in Nat, NEW n \in Nat, m <= n,
           \A k \in 1..n : parts[k] \in Seq(A)
    PROVE  /\ Begins(UpTo(parts, m), UpTo(parts, n), A)
           /\ (\A k \in (m + 1)..n : parts[k] = << >>) => UpTo(parts, n) = UpTo(parts, m)
<1> DEFINE s == UpTo(parts, m)
           Empty(j) == \A k \in (m + 1)..j : parts[k] = << >>
           G == {j \in Nat : m + j <= n =>
                    /\ \E r \in Seq(A) : UpTo(parts, m + j) = s \o r
                    /\ Empty(m + j) => UpTo(parts, m + j) = s}
<1>0. s \in Seq(A)
  <2>1. \A k \in 1..m : k \in 1..n
    OBVIOUS
  <2> QED
    BY <2>1, UpToSeq
<1>1. 0 \in G
  <2>1. m + 0 = m /\ s \o << >> = s /\ << >> \in Seq(A)
    BY <1>0, ConcatEmptySeq, EmptySeq
  <2> QED
    BY <2>1
<1> HIDE DEF s, Empty
<1>2. ASSUME NEW j \in Nat, j \in G PROVE j + 1 \in G
  <2> SUFFICES ASSUME m + (j + 1) <= n
               PROVE  /\ \E r \in Seq(A) : UpTo(parts, m + (j + 1)) = s \o r
                      /\ Empty(m + (j + 1)) => UpTo(parts, m + (j + 1)) = s
    OBVIOUS
  <2>1. /\ m + j \in Nat /\ m + (j + 1) = (m + j) + 1 /\ m + j <= n
        /\ m + (j + 1) \in 1..n /\ m + (j + 1) \in (m + 1)..(m + (j + 1))
        /\ \A k \in (m + 1)..(m + j) : k \in (m + 1)..(m + (j + 1))
    OBVIOUS
  <2>2. PICK r \in Seq(A) : UpTo(parts, m + j) = s \o r
    BY <1>2, <2>1
  <2>3. Empty(m + j) => UpTo(parts, m + j) = s
    BY <1>2, <2>1
  <2> DEFINE p == parts[m + (j + 1)]
  <2>4. p \in Seq(A)
    BY <2>1
  <2>5. UpTo(parts, m + (j + 1)) = UpTo(parts, m + j) \o p
    BY <2>1, UpToNext
  <2>6. Empty(m + (j + 1)) => Empty(m + j) /\ p = << >>
    BY <2>1 DEF Empty
  <2> HIDE DEF p
  <2>7. (s \o r) \o p = s \o (r \o p) /\ r \o p \in Seq(A) /\ s \o << >> = s
    <3>1. (s \o r) \o p = s \o (r \o p)
      BY <1>0, <2>4, ConcatAssociative
    <3>2. r \o p \in Seq(A)
      BY <2>4, ConcatProperties
    <3>3. s \o << >> = s
      BY <1>0, ConcatEmptySeq
    <3> QED
      BY <3>1, <3>2, <3>3
  <2> QED
    BY <2>2, <2>3, <2>5, <2>6, <2>7
<1> HIDE DEF G
<1>3. n - m \in Nat /\ m + (n - m) = n
  OBVIOUS
<1>4. n - m \in G
  BY <1>1, <1>2, <1>3, NumberInduction
<1>5. /\ \E r \in Seq(A) : UpTo(parts, n) = s \o r
      /\ Empty(n) => UpTo(parts, n) = s
  BY <1>3, <1>4 DEF G
<1> QED
  BY <1>5 DEF s, Empty, Begins

\* A sequence is a prefix of itself with another at its end.
LEMMA ConcatPrefix ==
    ASSUME NEW A, NEW s \in Seq(A), NEW r \in Seq(A)
    PROVE  IsPrefix(s, s \o r)
<1> DEFINE t == s \o r
           n == Len(s)
<1>1. /\ n \in Nat /\ Len(r) \in Nat /\ t \in Seq(A) /\ Len(t) = n + Len(r)
      /\ \A i \in 1..(n + Len(r)) : t[i] = IF i <= n THEN s[i] ELSE r[i - n]
  BY LenProperties, ConcatProperties
<1> HIDE DEF t, n
<1>2. n <= Len(t) /\ n <= n
  BY <1>1
<1>3. SubSeq(s, 1, n) = s
  BY SubSeqFull DEF n
<1>4. SubSeq(t, 1, n) \in Seq(A) /\ Len(SubSeq(t, 1, n)) = n
  BY <1>1, <1>2, BeginningSeq
<1>5. \A i \in 1..n : SubSeq(t, 1, n)[i] = t[i]
  BY <1>1 DEF n
<1>6. \A i \in 1..n : t[i] = s[i]
  <2> TAKE i \in 1..n
  <2>1. i \in 1..(n + Len(r)) /\ i <= n
    BY <1>1
  <2> QED
    BY <1>1, <2>1
<1>7. SubSeq(t, 1, n) = s
  BY <1>4, <1>5, <1>6, SeqEqual DEF n
<1> QED
  BY <1>2, <1>3, <1>7 DEF IsPrefix, t, n

-----------------------------------------------------------------------------
(* What reaches the store *)

\* The store holds a beginning of what was read, and all of it when the read
\* ended.
LEMMA StoredSeq ==
    ASSUME NEW A, NEW g \in Seq(A), NEW complete
    PROVE  /\ Stored(g, complete) \in Seq(A)
           /\ Len(Stored(g, complete)) \in Nat
<1> DEFINE n == IF complete THEN Len(g) ELSE Len(g) - (Len(g) % BatchSize)
<1>1. Len(g) \in Nat /\ BatchSize \in Nat \ {0}
  BY IngestAssumption, LenProperties
<1>2. Len(g) % BatchSize \in Nat /\ Len(g) % BatchSize <= Len(g)
  BY <1>1, Z3
<1>3. n \in Nat /\ n <= Len(g)
  <2>1. CASE complete
    BY <1>1, <2>1
  <2>2. CASE ~complete
    BY <1>1, <1>2, <2>2
  <2> QED
    BY <2>1, <2>2
<1> HIDE DEF n
<1>4. SubSeq(g, 1, n) \in Seq(A) /\ Len(SubSeq(g, 1, n)) = n
  BY <1>3, BeginningSeq
<1> QED
  BY <1>3, <1>4 DEF Stored, n

\* What is visible of a file has a length.
LEMMA VisibleLength ==
    ASSUME NEW f \in Files
    PROVE  Len(Visible(f)) \in Nat
<1>1. f.lines \in Seq({"rec", "blank", "junk"})
  BY DEF Files
<1>2. Len(f.lines) \in Nat /\ MaxFileLines \in Nat
  BY <1>1, IngestAssumption, LenProperties
<1>3. Min2(Len(f.lines), MaxFileLines) \in Nat /\ Min2(Len(f.lines), MaxFileLines) <= Len(f.lines)
  BY <1>2 DEF Min2
<1>4. Len(SubSeq(f.lines, 1, Min2(Len(f.lines), MaxFileLines))) \in Nat
  BY <1>1, <1>3, BeginningSeq
<1> QED
  BY <1>2, <1>4 DEF Visible

\* The records of a file, and what a run over it stores of them, are under its
\* number.
LEMMA ItemsSeq ==
    ASSUME files \in Seq(Files), NEW i \in 1..Count
    PROVE  /\ Items(i) \in Seq({i} \X Nat)
           /\ FileRun(i).stored \in Seq({i} \X Nat)
           /\ FileRun(i).ok \in BOOLEAN
           /\ FileRun(i).ok => FileRun(i).stored = Items(i)
<1> DEFINE f == files[i]
           n == Len(Visible(f))
           before == Only(Items(i), {i} \X (1..(n - 1)))
<1>1. f \in Files /\ n \in Nat
  BY ElementOfSeq, VisibleLength DEF Count
<1>4. Items(i) \in Seq({i} \X Nat)
  <2> HIDE DEF f
  <2> QED
    BY <1>1, EntriesSeq DEF Items, f
<1>5. before \in Seq({i} \X Nat)
  <2> DEFINE S == {i} \X (1..(n - 1))
  <2> HIDE DEF S
  <2>1. Only(Items(i), S) \in Seq(({i} \X Nat) \intersect S)
    BY <1>4, OnlySeq
  <2>2. ({i} \X Nat) \intersect S \subseteq {i} \X Nat
    OBVIOUS
  <2> QED
    BY <2>1, <2>2, SeqMonotonic DEF S
<1>6. Stored(before, FALSE) \in Seq({i} \X Nat) /\ << >> \in Seq({i} \X Nat)
  <2> HIDE DEF before
  <2> QED
    BY <1>5, StoredSeq, EmptySeq
<1>8. CASE Opening(f) # "open" \/ SampleMeetsDamage(f)
  <2>1. FileRun(i) = [ok |-> FALSE, stored |-> << >>]
    <3> HIDE DEF n, before
    <3> QED
      BY <1>8 DEF FileRun
  <2> HIDE DEF f, n, before
  <2> QED
    BY <1>4, <1>6, <2>1
<1>9. CASE ~ (Opening(f) # "open" \/ SampleMeetsDamage(f)) /\ f.cond = "corrupt"
  <2> DEFINE part == Stored(before, FALSE)
  <2>1. part \in Seq({i} \X Nat)
    BY <1>6
  <2>2. FileRun(i) = [ok |-> FALSE, stored |-> part]
    BY <1>9 DEF FileRun
  <2> HIDE DEF f, n, before, part
  <2> QED
    BY <1>4, <2>1, <2>2
<1>10. CASE ~ (Opening(f) # "open" \/ SampleMeetsDamage(f)) /\ f.cond # "corrupt"
  <2>1. FileRun(i) = [ok |-> TRUE, stored |-> Items(i)]
    <3> HIDE DEF n, before
    <3> QED
      BY <1>10 DEF FileRun
  <2> HIDE DEF f, n, before
  <2> QED
    BY <1>4, <2>1
<1> QED
  BY <1>8, <1>9, <1>10

\* What they are depends on the files alone.
LEMMA ItemsSame ==
    ASSUME UNCHANGED files
    PROVE  \A i : Items(i)' = Items(i) /\ FileRun(i)' = FileRun(i)
BY DEF Items, TakenLines, FileRun

\* A file that is removed keeps the name of its records, and the other files
\* keep what a run over them comes to.
LEMMA ItemsVanished ==
    ASSUME files \in Seq(Files), NEW j \in 1..Count,
           files' = [files EXCEPT ![j].cond = "gone"]
    PROVE  /\ files' \in Seq(Files) /\ Count' = Count
           /\ \A i \in 1..Count : /\ Items(i)' = Items(i)
                                  /\ Visible(files'[i]) = Visible(files[i])
                                  /\ TakenLines(files'[i]) = TakenLines(files[i])
                                  /\ i # j => FileRun(i)' = FileRun(i)
<1> DEFINE e == [files[j] EXCEPT !.cond = "gone"]
<1>1. files[j] \in Files
  BY ElementOfSeq DEF Count
<1>2. e \in Files /\ e.kind = files[j].kind /\ e.lines = files[j].lines
  BY <1>1 DEF Files
<1>3. files' = [files EXCEPT ![j] = e]
  OBVIOUS
<1> HIDE DEF e
<1>4. /\ files' \in Seq(Files) /\ Len(files') = Len(files)
      /\ \A i \in 1..Len(files) : files'[i] = IF i = j THEN e ELSE files[i]
  BY <1>2, <1>3, ExceptSeq DEF Count
<1>5. ASSUME NEW i \in 1..Count, i # j
      PROVE  FileRun(i)' = FileRun(i) /\ Items(i)' = Items(i) /\ files'[i] = files[i]
  <2>1. files'[i] = files[i]
    BY <1>4, <1>5 DEF Count
  <2> QED
    BY <2>1 DEF FileRun, Items, TakenLines
<1>6. /\ Items(j)' = Items(j) /\ Visible(files'[j]) = Visible(files[j])
      /\ TakenLines(files'[j]) = TakenLines(files[j])
  <2>1. files'[j].kind = files[j].kind /\ files'[j].lines = files[j].lines
    BY <1>2, <1>4 DEF Count
  <2>2. Visible(files'[j]) = Visible(files[j])
    BY <2>1 DEF Visible
  <2>3. TakenLines(files'[j]) = TakenLines(files[j])
    BY <2>1, <2>2 DEF TakenLines, Takes
  <2> QED
    BY <2>2, <2>3 DEF Items
<1> QED
  BY <1>4, <1>5, <1>6 DEF Count


-----------------------------------------------------------------------------
(* Type correctness *)

\* The initial state is well typed.
LEMMA InitTypes == Init => TypeOK /\ ControlInv
<1> SUFFICES ASSUME Init PROVE TypeOK /\ ControlInv
  OBVIOUS
<1> USE DEF Init
<1>1. target \in Targets /\ files \in Seq(Files) /\ pc \in Locations
  <2>1. FileLists \subseteq Seq(Files)
    BY IngestAssumption
  <2> QED
    BY <2>1 DEF Locations
<1>2. attempt \in Nat /\ redelivered \in Nat /\ faults \in 0..MaxFaults
  BY IngestAssumption
<1>3. /\ rows \in Seq(JobRun) /\ published \in Seq(Seq(Records)) /\ got \in Seq(Records)
      /\ Len(rows) = Len(published)
  BY EmptySeq
<1>4. src \in Positions /\ src.line = 0
  <2>1. << >> \in Seq(Nat)
    BY EmptySeq
  <2> QED
    BY <2>1 DEF AtStart, Positions
<1>5. stats \in SourceStats /\ result \in PipelineResult
  BY DEF EmptyStats, Fresh, SourceStats, PipelineResult
<1>6. work \in [1..Count -> FutureStates]
  BY DEF FutureStates
<1> QED
  BY <1>1, <1>2, <1>3, <1>4, <1>5, <1>6 DEF TypeOK, ControlInv

\* No step changes what is ingested, and only Vanish the directory.
LEMMA TargetConstant ==
    ASSUME Next
    PROVE  /\ target' = target /\ Records' = Records
           /\ Vanish \/ UNCHANGED files
<1>1. target' = target /\ (Vanish \/ UNCHANGED files)
  BY DEF Next, Progress, Start, StartRun, BuildSource, Sample, OpenFile, ReadLine, CloseFile,
     FilesEnd, Fetch, ReadItem, PageEnds, PagesEnd, ReadRow, Finalise, FinishRun, Return,
     TakeFile, WorkerPublishes, Merge, PoolEnds, FetchFails, Redirected, DatabaseFails,
     FlushFails, Outage, Crash, Vanish, WorkerRaises, WorkerDies, jobVars
<1>2. Records' = Records
  BY <1>1 DEF Records
<1> QED
  BY <1>1, <1>2

\* Trying again keeps the location and the attempts well typed.
LEMMA RaiseTypes ==
    ASSUME attempt \in Nat, Raise
    PROVE  attempt' \in Nat /\ pc' \in {"start", "failed"}
BY DEF Raise

\* A failure of the environment stays within the bound.
LEMMA SpendTypes ==
    ASSUME faults \in 0..MaxFaults, Spend
    PROVE  faults' \in 0..MaxFaults
BY IngestAssumption DEF Spend

\* What a read of a file, of an endpoint or of a table changes.
ReadTypes ==
    /\ pc' \in {"read", "final"} /\ src' \in Positions /\ stats' \in SourceStats
    /\ got' \in Seq(Records) /\ result' \in PipelineResult

\* Well typed positions of the next file, of a further line and of a page.
LEMMA PositionTypes ==
    ASSUME src \in Positions
    PROVE  /\ NextFile \in Positions
           /\ \A n \in Nat : /\ [src EXCEPT !.line = n] \in Positions
                             /\ [src EXCEPT !.line = n, !.child = @ + 1] \in Positions
                             /\ \A m \in Nat :
                                  [src EXCEPT !.line = n, !.blank = @ + m] \in Positions
           /\ src.line + 1 \in Nat
           /\ [src EXCEPT !.at = @ + 1] \in Positions
           /\ \A b \in BOOLEAN : [src EXCEPT !.hops = @ + 1, !.bare = b] \in Positions
           /\ [src EXCEPT !.tries = @ + 1, !.hops = 0, !.bare = FALSE] \in Positions
           /\ \A i \in Nat : [NextFile EXCEPT !.skipped = @ \union {i}] \in Positions
<1>1. /\ src.at + 1 \in Nat \ {0} /\ src.child + 1 \in Nat /\ src.line + 1 \in Nat
      /\ src.hops + 1 \in Nat /\ src.tries + 1 \in Nat
      /\ \A m \in Nat : src.blank + m \in Nat
  <2>1. /\ src.at \in Nat \ {0} /\ src.child \in Nat /\ src.line \in Nat
        /\ src.hops \in Nat /\ src.tries \in Nat /\ src.blank \in Nat
    BY DEF Positions
  <2> QED
    BY <2>1
<1>2. NextFile \in Positions
  BY <1>1 DEF NextFile, Positions
<1>3. ASSUME NEW i \in Nat PROVE [NextFile EXCEPT !.skipped = @ \union {i}] \in Positions
  <2>1. NextFile.skipped \union {i} \in SUBSET Nat
    BY <1>2 DEF Positions
  <2> HIDE DEF NextFile
  <2> QED
    BY <1>2, <2>1 DEF Positions
<1>4. ASSUME NEW n \in Nat
      PROVE  /\ [src EXCEPT !.line = n] \in Positions
             /\ [src EXCEPT !.line = n, !.child = @ + 1] \in Positions
             /\ \A m \in Nat : [src EXCEPT !.line = n, !.blank = @ + m] \in Positions
  BY <1>1 DEF Positions
<1>5. /\ [src EXCEPT !.at = @ + 1] \in Positions
      /\ [src EXCEPT !.tries = @ + 1, !.hops = 0, !.bare = FALSE] \in Positions
      /\ \A b \in BOOLEAN : [src EXCEPT !.hops = @ + 1, !.bare = b] \in Positions
  BY <1>1 DEF Positions
<1> QED
  BY <1>1, <1>2, <1>3, <1>4, <1>5

\* The records counted stay numbers.
LEMMA StatsTypes ==
    ASSUME stats \in SourceStats, src \in Positions
    PROVE  /\ [stats EXCEPT !.records = @ + 1] \in SourceStats
           /\ [stats EXCEPT !.errors = @ + 1] \in SourceStats
           /\ [stats EXCEPT !.records = @ + src.child, !.empty = @ + src.blank] \in SourceStats
<1>1. /\ stats.records + 1 \in Nat /\ stats.errors + 1 \in Nat
      /\ stats.records + src.child \in Nat /\ stats.empty + src.blank \in Nat
  <2>1. stats.records \in Nat /\ stats.errors \in Nat /\ stats.empty \in Nat
    BY DEF SourceStats
  <2>2. src.child \in Nat /\ src.blank \in Nat
    BY DEF Positions
  <2> QED
    BY <2>1, <2>2
<1> QED
  BY <1>1 DEF SourceStats

\* A run that fails or whose read ends has a result.
LEMMA ResultTypes ==
    ASSUME result \in PipelineResult
    PROVE  /\ [result EXCEPT !.succeeded = FALSE] \in PipelineResult
           /\ [result EXCEPT !.ended = TRUE] \in PipelineResult
BY DEF PipelineResult


\* The steps of source.read() and of the requests it makes.
ReadStep ==
    \/ OpenFile \/ ReadLine \/ CloseFile \/ FilesEnd
    \/ Fetch \/ FetchFails \/ Redirected \/ ReadItem \/ PageEnds \/ PagesEnd
    \/ ReadRow \/ DatabaseFails

\* The file that is open, or opened next, is a number.
LEMMA OpenFileNumber ==
    ASSUME TypeOK, src.at <= Len(src.list)
    PROVE  /\ src.at \in 1..Len(src.list) /\ Len(src.list) \in Nat
           /\ src.list[src.at] \in Nat
<1>1. src.list \in Seq(Nat) /\ src.at \in Nat \ {0}
  BY DEF TypeOK, Positions
<1>2. Len(src.list) \in Nat
  BY <1>1, LenProperties
<1>3. src.at \in 1..Len(src.list)
  BY <1>1, <1>2
<1> QED
  BY <1>1, <1>2, <1>3, ElementOfSeq

\* A record yielded is one of those there can be.
LEMMA YieldTypes ==
    ASSUME TypeOK, NEW x \in Records, Yield(x)
    PROVE  got' \in Seq(Records) /\ Len(got') = Len(got) + 1 /\ Len(got) \in Nat
BY AppendProperties, LenProperties DEF Yield, TypeOK

\* The read steps keep their variables well typed.
LEMMA ReadStepTypes ==
    ASSUME TypeOK, ControlInv, ReadStep
    PROVE  ReadTypes
<1>0. /\ src \in Positions /\ stats \in SourceStats /\ got \in Seq(Records)
      /\ result \in PipelineResult /\ src.line \in Nat /\ src.page \in Nat
  BY DEF TypeOK, Positions
<1>1. /\ [result EXCEPT !.succeeded = FALSE] \in PipelineResult
      /\ [result EXCEPT !.ended = TRUE] \in PipelineResult
  BY <1>0, ResultTypes
<1>2. ASSUME Abort("final") PROVE pc' = "final" /\ result' \in PipelineResult
  BY <1>1, <1>2 DEF Abort
<1>3. ASSUME ReadEnds PROVE pc' = "final" /\ result' \in PipelineResult
  BY <1>1, <1>3 DEF ReadEnds
<1>4. /\ NextFile \in Positions
      /\ [src EXCEPT !.line = 1] \in Positions
      /\ [src EXCEPT !.line = src.line + 1] \in Positions
      /\ [src EXCEPT !.line = src.line + 1, !.child = @ + 1] \in Positions
      /\ \A m \in Nat : [src EXCEPT !.line = src.line + 1, !.blank = @ + m] \in Positions
      /\ [src EXCEPT !.at = @ + 1] \in Positions
      /\ \A b \in BOOLEAN : [src EXCEPT !.hops = @ + 1, !.bare = b] \in Positions
      /\ [src EXCEPT !.tries = @ + 1, !.hops = 0, !.bare = FALSE] \in Positions
  <2>1. src.line + 1 \in Nat /\ 1 \in Nat
    BY <1>0
  <2> QED
    BY <1>0, <2>1, PositionTypes
<1>5. /\ [stats EXCEPT !.records = @ + 1] \in SourceStats
      /\ [stats EXCEPT !.errors = @ + 1] \in SourceStats
      /\ [stats EXCEPT !.records = @ + src.child, !.empty = @ + src.blank] \in SourceStats
  BY <1>0, StatsTypes
<1>6. target.kind # "db" => Records = Nat \X Nat
  BY DEF Records
<1>7. CASE OpenFile
  <2> DEFINE i == src.list[src.at]
  <2>1. i \in Nat
    BY <1>7, OpenFileNumber DEF OpenFile
  <2>2. [NextFile EXCEPT !.skipped = @ \union {i}] \in Positions
    BY <1>0, <2>1, PositionTypes
  <2> HIDE DEF i
  <2>3. got' = got /\ pc = "read"
    BY <1>7 DEF OpenFile, Reads
  <2>4. CASE src' = [src EXCEPT !.line = 1] /\ UNCHANGED <<pc, stats, result>>
    BY <1>0, <1>4, <2>3, <2>4 DEF ReadTypes
  <2>5. CASE /\ src' = [NextFile EXCEPT !.skipped = @ \union {i}]
             /\ stats' = [stats EXCEPT !.errors = @ + 1]
             /\ UNCHANGED <<pc, result>>
    BY <1>0, <1>5, <2>2, <2>3, <2>5 DEF ReadTypes
  <2>6. CASE Abort("final") /\ UNCHANGED <<src, stats>>
    BY <1>0, <1>2, <2>3, <2>6 DEF ReadTypes
  <2> QED
    BY <1>7, <2>4, <2>5, <2>6 DEF OpenFile, i
<1>8. CASE ReadLine
  <2> DEFINE i == src.list[src.at]
             f == files[i]
             blank == IF f.lines[src.line] = "blank" THEN 1 ELSE 0
  <2>0. pc = "read" /\ target.kind \in {"file", "dir"} /\ src.line > 0
    BY <1>8 DEF ReadLine, Reads
  <2>1. i \in Nat
    BY <2>0, OpenFileNumber DEF ControlInv
  <2>2. <<i, src.line>> \in Records
    BY <1>0, <1>6, <2>0, <2>1
  <2>3. blank \in Nat
    OBVIOUS
  <2> HIDE DEF i, f, blank
  <2>4. CASE Abort("final") /\ AddChild /\ UNCHANGED <<src, got>>
    BY <1>0, <1>2, <1>5, <2>4 DEF ReadTypes, AddChild
  <2>5. CASE /\ Yield(<<i, src.line>>)
             /\ src' = [src EXCEPT !.line = src.line + 1, !.child = @ + 1]
             /\ UNCHANGED <<pc, stats, result>>
    BY <1>0, <1>4, <2>0, <2>2, <2>5, YieldTypes DEF ReadTypes
  <2>6. CASE /\ UNCHANGED got
             /\ src' = [src EXCEPT !.line = src.line + 1, !.blank = @ + blank]
             /\ UNCHANGED <<pc, stats, result>>
    BY <1>0, <1>4, <2>0, <2>3, <2>6 DEF ReadTypes
  <2> QED
    BY <1>8, <2>4, <2>5, <2>6 DEF ReadLine, i, f, blank
<1>9. CASE CloseFile
  BY <1>0, <1>4, <1>5, <1>9 DEF CloseFile, AddChild, ReadTypes, Reads
<1>10. CASE FilesEnd
  BY <1>0, <1>3, <1>10 DEF FilesEnd, ReadTypes
<1>11. CASE Fetch
  <2>1. CASE ReadEnds /\ UNCHANGED <<src, stats, got>>
    BY <1>0, <1>3, <2>1 DEF ReadTypes
  <2>2. CASE ~ (ReadEnds /\ UNCHANGED <<src, stats, got>>)
    <3> DEFINE asked == Asked
               strayed == src.strayed \/ asked # Wanted
    <3>1. asked \in Nat
      <4>1. src.cursor \in Nat /\ src.at \in Nat
        BY <1>0 DEF Positions
      <4> QED
        BY <4>1 DEF Asked, Wanted
    <3>2. strayed \in BOOLEAN
      OBVIOUS
    <3>3. /\ src' = [src EXCEPT !.line = 1, !.page = asked, !.tries = 0, !.hops = 0,
                               !.bare = FALSE, !.strayed = strayed]
          /\ UNCHANGED <<pc, result, stats, got>> /\ pc = "read"
      BY <1>11, <2>2 DEF Fetch, Reads
    <3> HIDE DEF asked, strayed
    <3>4. src' \in Positions
      BY <1>0, <3>1, <3>2, <3>3 DEF Positions
    <3> QED
      BY <1>0, <3>3, <3>4 DEF ReadTypes
  <2> QED
    BY <2>1, <2>2
<1>12. CASE FetchFails
  <2>0. pc = "read" /\ UNCHANGED <<stats, got>>
    BY <1>12 DEF FetchFails, Reads
  <2>1. CASE /\ src' = [src EXCEPT !.tries = @ + 1, !.hops = 0, !.bare = FALSE]
             /\ UNCHANGED <<pc, result>>
    BY <1>0, <1>4, <2>0, <2>1 DEF ReadTypes
  <2>2. CASE Abort("final") /\ UNCHANGED src
    BY <1>0, <1>2, <2>0, <2>2 DEF ReadTypes
  <2> QED
    BY <1>12, <2>1, <2>2 DEF FetchFails
<1>13. CASE Redirected
  <2>0. pc = "read" /\ UNCHANGED <<stats, got>>
    BY <1>13 DEF Redirected, Reads
  <2>1. CASE /\ \E b \in BOOLEAN : src' = [src EXCEPT !.hops = @ + 1, !.bare = b]
             /\ UNCHANGED <<pc, result>>
    BY <1>0, <1>4, <2>0, <2>1 DEF ReadTypes
  <2>2. CASE Abort("final") /\ UNCHANGED src
    BY <1>0, <1>2, <2>0, <2>2 DEF ReadTypes
  <2> QED
    BY <1>13, <2>1, <2>2 DEF Redirected
<1>14. CASE ReadItem
  <2>0. pc = "read" /\ target.kind = "api"
    BY <1>14 DEF ReadItem, Reads
  <2>1. <<src.page, src.line>> \in Records
    BY <1>0, <1>6, <2>0
  <2>2. src' = [src EXCEPT !.line = src.line + 1] /\ UNCHANGED <<pc, result>>
    BY <1>14 DEF ReadItem
  <2>3. CASE Yield(<<src.page, src.line>>) /\ stats' = [stats EXCEPT !.records = @ + 1]
    BY <1>0, <1>4, <1>5, <2>0, <2>1, <2>2, <2>3, YieldTypes DEF ReadTypes
  <2>4. CASE UNCHANGED got /\ stats' = [stats EXCEPT !.errors = @ + 1]
    BY <1>0, <1>4, <1>5, <2>0, <2>2, <2>4 DEF ReadTypes
  <2> QED
    BY <1>14, <2>3, <2>4 DEF ReadItem
<1>15. CASE PageEnds
  <2> DEFINE next == IF target.mode \in {"cursor", "both"} /\ src.page < Len(target.pages)
                     THEN src.page + 1 ELSE 0
  <2>1. next \in Nat /\ src.at + 1 \in Nat \ {0}
    <3>1. src.at \in Nat /\ src.page + 1 \in Nat
      BY <1>0 DEF Positions
    <3> QED
      BY <3>1
  <2>2. /\ src' = [src EXCEPT !.at = @ + 1, !.line = 0, !.cursor = next]
        /\ ReadEnds \/ UNCHANGED <<pc, result>>
        /\ UNCHANGED <<stats, got>> /\ pc = "read"
    BY <1>15 DEF PageEnds, Reads
  <2> HIDE DEF next
  <2>3. src' \in Positions
    BY <1>0, <2>1, <2>2 DEF Positions
  <2> QED
    BY <1>0, <1>3, <2>2, <2>3 DEF ReadTypes
<1>16. CASE PagesEnd
  BY <1>0, <1>3, <1>16 DEF PagesEnd, ReadTypes
<1>17. CASE ReadRow
  <2>1. CASE ReadEnds /\ UNCHANGED <<src, stats, got>>
    BY <1>0, <1>3, <2>1 DEF ReadTypes
  <2>2. CASE ~ (ReadEnds /\ UNCHANGED <<src, stats, got>>)
    <3> DEFINE x == Selected(target)[src.at]
    <3>1. /\ src.at <= Len(Selected(target)) /\ Yield(<<0, x>>)
          /\ stats' = [stats EXCEPT !.records = @ + 1]
          /\ src' = [src EXCEPT !.at = @ + 1]
          /\ UNCHANGED <<pc, result>> /\ pc = "read" /\ target.kind = "db"
      BY <1>17, <2>2 DEF ReadRow, Reads
    <3>2. src.at \in Int /\ 1 <= src.at
      BY <1>0 DEF Positions
    <3>3. <<0, x>> \in Records
      BY <3>1, <3>2 DEF Records
    <3> HIDE DEF x
    <3> QED
      BY <1>0, <1>4, <1>5, <3>1, <3>3, YieldTypes DEF ReadTypes
  <2> QED
    BY <2>1, <2>2
<1>18. CASE DatabaseFails
  BY <1>0, <1>2, <1>18 DEF DatabaseFails, ReadTypes
<1> QED
  BY <1>7, <1>8, <1>9, <1>10, <1>11, <1>12, <1>13, <1>14, <1>15, <1>16, <1>17, <1>18
     DEF ReadStep


\* One run more, or one fewer future to wait for: the job's variables stay well
\* typed.
LEMMA StartTypes ==
    ASSUME TypeOK, ControlInv, Start, target' = target, Records' = Records, files' = files
    PROVE  /\ TypeOK' /\ Len(rows)' = Len(published)'
           /\ pc' \in {"row", "build", "pool"} => /\ rows' # << >> /\ src' = AtStart(<< >>)
                                                  /\ work' = [i \in 1..Count |-> "none"]
           /\ pc' \in {"start", "failed", "row", "build", "pool"}
<1>1. CASE Raise /\ UNCHANGED <<rows, published, src, stats, got, result, work>>
  <2>1. attempt' \in Nat /\ pc' \in {"start", "failed"}
    BY <1>1, RaiseTypes DEF TypeOK
  <2>2. UNCHANGED <<redelivered, faults>>
    BY DEF Start
  <2> QED
    BY <1>1, <2>1, <2>2 DEF TypeOK, ControlInv, Locations, Count
<1>2. CASE ~ (Raise /\ UNCHANGED <<rows, published, src, stats, got, result, work>>)
  <2> DEFINE new == [status |-> "none", written |-> 0]
  <2>1. /\ rows' = Append(rows, new) /\ published' = Append(published, << >>)
        /\ src' = AtStart(<< >>) /\ stats' = EmptyStats /\ got' = << >> /\ result' = Fresh
        /\ work' = [i \in 1..Count |-> "none"]
        /\ pc' \in {"row", "build", "pool"}
        /\ UNCHANGED <<attempt, redelivered, faults>>
    BY <1>2 DEF Start
  <2>2. new \in JobRun /\ << >> \in Seq(Records) /\ << >> \in Seq(Nat)
    BY EmptySeq DEF JobRun
  <2> HIDE DEF new
  <2>3. /\ rows' \in Seq(JobRun) /\ rows' # << >> /\ Len(rows') = Len(rows) + 1
        /\ published' \in Seq(Seq(Records)) /\ Len(published') = Len(published) + 1
    BY <2>1, <2>2, AppendProperties DEF TypeOK
  <2>4. src' \in Positions
    BY <2>1, <2>2 DEF AtStart, Positions
  <2>5. stats' \in SourceStats /\ result' \in PipelineResult
    BY <2>1 DEF EmptyStats, Fresh, SourceStats, PipelineResult
  <2>6. work' \in [1..Count -> FutureStates]
    BY <2>1 DEF FutureStates
  <2> QED
    BY <2>1, <2>2, <2>3, <2>4, <2>5, <2>6 DEF TypeOK, ControlInv, Locations, Count
<1> QED
  BY <1>1, <1>2

\* The steps that replace the entries of the run in progress.
LEMMA RunTypes ==
    ASSUME TypeOK, ControlInv, Records' = Records,
           StartRun \/ Finalise \/ FinishRun \/ WorkerPublishes
    PROVE  /\ rows' \in Seq(JobRun) /\ Len(rows') = Len(rows) /\ rows' # << >>
           /\ published' \in Seq(Seq(Records)) /\ Len(published') = Len(published)
           /\ published # << >>
           /\ Finalise => result' \in PipelineResult
<1>0. /\ rows \in Seq(JobRun) /\ rows # << >> /\ published \in Seq(Seq(Records))
      /\ Len(rows) = Len(published) /\ result \in PipelineResult /\ got \in Seq(Records)
  BY DEF TypeOK, ControlInv, StartRun, Finalise, FinishRun, WorkerPublishes
<1>1. Len(rows) \in Nat \ {0}
  BY <1>0, EmptySeq
<1>2. published # << >>
  BY <1>0, <1>1, EmptySeq
<1>3. Row \in JobRun /\ published[Len(published)] \in Seq(Records)
  <2>1. Len(rows) \in 1..Len(rows) /\ Len(published) \in 1..Len(published)
    BY <1>0, <1>1
  <2> QED
    BY <1>0, <2>1, ElementOfSeq DEF Row
<1>4. ASSUME NEW e \in JobRun, rows' = [rows EXCEPT ![Len(rows)] = e]
      PROVE  rows' \in Seq(JobRun) /\ Len(rows') = Len(rows) /\ rows' # << >>
  <2>1. rows' \in Seq(JobRun) /\ Len(rows') = Len(rows)
    BY <1>0, <1>4, UpdateLast
  <2> QED
    BY <1>1, <2>1, EmptySeq
<1>5. ASSUME NEW e \in Seq(Records), published' = [published EXCEPT ![Len(published)] = e]
      PROVE  published' \in Seq(Seq(Records)) /\ Len(published') = Len(published)
  BY <1>0, <1>2, <1>5, UpdateLast
<1>6. CASE StartRun
  <2>1. [Row EXCEPT !.status = "RUNNING"] \in JobRun
    BY <1>3 DEF JobRun
  <2>2. /\ rows' = [rows EXCEPT ![Len(rows)] = [Row EXCEPT !.status = "RUNNING"]]
        /\ published' = published
    BY <1>6 DEF StartRun, Row
  <2>3. ~Finalise
    BY <1>6 DEF StartRun, Finalise
  <2> QED
    BY <1>0, <1>2, <1>4, <2>1, <2>2, <2>3
<1>7. CASE Finalise
  <2> DEFINE stored == Stored(got, result.ended)
  <2>1. stored \in Seq(Records) /\ Len(stored) \in Nat
    BY <1>0, StoredSeq
  <2>2. /\ published' = [published EXCEPT ![Len(published)] = stored] /\ rows' = rows
        /\ result' = [result EXCEPT !.written = Len(stored)]
    BY <1>7 DEF Finalise
  <2> HIDE DEF stored
  <2>3. result' \in PipelineResult
    BY <1>0, <2>1, <2>2 DEF PipelineResult
  <2> QED
    BY <1>0, <1>2, <1>5, <2>1, <2>2, <2>3
<1>8. CASE FinishRun
  <2> DEFINE e == [status |-> IF result.succeeded THEN "SUCCEEDED" ELSE "FAILED",
                   written |-> result.written]
  <2>1. e \in JobRun
    BY <1>0 DEF JobRun, PipelineResult
  <2>2. rows' = [rows EXCEPT ![Len(rows)] = e] /\ published' = published
    BY <1>8 DEF FinishRun
  <2>3. ~Finalise
    BY <1>8 DEF FinishRun, Finalise
  <2> QED
    BY <1>0, <1>2, <1>4, <2>1, <2>2, <2>3
<1>9. CASE WorkerPublishes
  <2>1. PICK i \in Busy :
           published' = [published EXCEPT ![Len(published)] = @ \o FileRun(i).stored]
    BY <1>9 DEF WorkerPublishes
  <2> DEFINE st == FileRun(i).stored
             p == published[Len(published)]
  <2>2. st \in Seq({i} \X Nat)
    BY ItemsSeq DEF TypeOK, Busy
  <2>3. Records = Nat \X Nat /\ i \in Nat
    <3>1. target.kind = "parallel"
      BY <1>9 DEF WorkerPublishes, ControlInv
    <3>2. i \in Nat
      BY DEF Busy
    <3> QED
      BY <3>1, <3>2 DEF Records
  <2>4. {i} \X Nat \subseteq Records
    BY <2>3
  <2> HIDE DEF st
  <2>5. st \in Seq(Records)
    BY <2>2, <2>4, SeqMonotonic
  <2>6. p \o st \in Seq(Records)
    BY <1>3, <2>5, ConcatProperties
  <2>7. published' = [published EXCEPT ![Len(published)] = p \o st]
    BY <2>1 DEF st
  <2>8. rows' = rows /\ ~Finalise
    BY <1>9 DEF WorkerPublishes, Finalise
  <2> HIDE DEF p
  <2> QED
    BY <1>0, <1>2, <1>5, <2>6, <2>7, <2>8
<1> QED
  BY <1>6, <1>7, <1>8, <1>9


\* The numbers of the files are distinct, and so are those of some of them.
LEMMA FileNumbers ==
    ASSUME files \in Seq(Files), NEW S
    PROVE  /\ Only(AllFiles, S) \in Seq(Nat) /\ Only(AllFiles, S) \in Seq(1..Count)
           /\ Distinct(Only(AllFiles, S))
<1>1. Count \in Nat
  BY LenProperties DEF Count
<1>2. AllFiles \in Seq(1..Count) /\ Distinct(AllFiles)
  BY <1>1, SMT DEF AllFiles, Distinct
<1> DEFINE A == (1..Count) \intersect S
           list == Only(AllFiles, S)
<1>3. list \in Seq(A) /\ Distinct(list)
  BY <1>2, OnlySeq, OnlyDistinct
<1>4. A \subseteq Nat /\ A \subseteq 1..Count
  OBVIOUS
<1> HIDE DEF A, list
<1>5. list \in Seq(Nat) /\ list \in Seq(1..Count)
  BY <1>3, <1>4, SeqMonotonic
<1> QED
  BY <1>3, <1>5 DEF list

\* What a source starts from.
LEMMA BuildTypes ==
    ASSUME TypeOK, BuildSource
    PROVE  /\ src' \in Positions /\ result' \in PipelineResult
           /\ pc' \in {"done", "finish", "sample"}
<1>0. src \in Positions /\ result \in PipelineResult /\ files \in Seq(Files)
  BY DEF TypeOK
<1>1. CASE src' = src
  BY <1>0, <1>1, ResultTypes DEF BuildSource, Abort, AtStart
<1>2. CASE src' # src
  <2>1. ASSUME NEW list \in Seq(Nat) PROVE AtStart(list) \in Positions
    BY DEF AtStart, Positions
  <2>2. /\ src' = AtStart(CASE target.kind = "file" -> <<1>>
                            [] target.kind = "dir" ->
                                 Only(AllFiles, {i \in 1..Count : files[i].cond # "gone"})
                            [] OTHER -> << >>)
        /\ pc' = "sample" /\ result' = result
    BY <1>2 DEF BuildSource
  <2>3. <<1>> \in Seq(Nat) /\ << >> \in Seq(Nat)
    BY EmptySeq
  <2> DEFINE there == {i \in 1..Count : files[i].cond # "gone"}
  <2>4. Only(AllFiles, there) \in Seq(Nat)
    <3> HIDE DEF there
    <3> QED
      BY <1>0, FileNumbers
  <2>5. CASE target.kind = "file"
    BY <1>0, <2>1, <2>2, <2>3, <2>5
  <2>6. CASE target.kind = "dir"
    BY <1>0, <2>1, <2>2, <2>4, <2>6
  <2>7. CASE target.kind \notin {"file", "dir"}
    BY <1>0, <2>1, <2>2, <2>3, <2>7
  <2> QED
    BY <2>5, <2>6, <2>7
<1> QED
  BY <1>1, <1>2

\* Numbers up to n are finitely many.
LEMMA NumbersFinite ==
    ASSUME NEW n \in Nat, NEW S \in SUBSET (1..n)
    PROVE  IsFiniteSet(S) /\ Cardinality(S) \in Nat
<1>1. IsFiniteSet(1..n)
  BY FS_Interval
<1>2. IsFiniteSet(S)
  BY <1>1, FS_Subset
<1> QED
  BY <1>2, FS_CardinalityType

\* The futures of a pool stay well typed, and so does the combined result.
LEMMA PoolTypes ==
    ASSUME TypeOK, ControlInv,
           TakeFile \/ WorkerPublishes \/ Merge \/ WorkerRaises \/ WorkerDies
    PROVE  work' \in [1..Count -> FutureStates] /\ result' \in PipelineResult
<1>0. /\ work \in [1..Count -> FutureStates] /\ result \in PipelineResult
      /\ published \in Seq(Seq(Records)) /\ Count \in Nat
      /\ {"running", "published", "merged", "failed", "noted"} \subseteq FutureStates
  BY LenProperties DEF TypeOK, Count, FutureStates
<1>1. CASE TakeFile
  BY <1>0, <1>1 DEF TakeFile
<1>2. CASE WorkerPublishes
  BY <1>0, <1>2 DEF WorkerPublishes
<1>3. CASE Merge
  <2>1. PICK i \in Busy :
          /\ work' = [work EXCEPT ![i] = IF FileRun(i).ok THEN "merged" ELSE "failed"]
          /\ result' = [result EXCEPT !.written = @ + Len(StoredOf(i)),
                                      !.succeeded = @ /\ FileRun(i).ok,
                                      !.errors = IF FileRun(i).ok THEN @ ELSE @ + 1]
    BY <1>3 DEF Merge
  <2>2. i \in 1..Count /\ i \in Nat
    BY DEF Busy
  <2>3. published # << >>
    <3>1. rows # << >> /\ Len(rows) = Len(published) /\ rows \in Seq(JobRun)
      BY <1>3 DEF Merge, ControlInv, TypeOK
    <3> QED
      BY <1>0, <3>1, EmptySeq
  <2>4. published[Len(published)] \in Seq(Records)
    <3>1. Len(published) \in 1..Len(published)
      BY <1>0, <2>3, EmptySeq
    <3> QED
      BY <1>0, <3>1, ElementOfSeq
  <2>5. Len(StoredOf(i)) \in Nat
    BY <2>4, OnlyLength DEF StoredOf
  <2>6. /\ result.written + Len(StoredOf(i)) \in Nat
        /\ (result.succeeded /\ FileRun(i).ok) \in BOOLEAN
        /\ (IF FileRun(i).ok THEN result.errors ELSE result.errors + 1) \in Nat
    <3>1. result.written \in Nat /\ result.errors \in Nat
      BY <1>0 DEF PipelineResult
    <3>2. (result.succeeded /\ FileRun(i).ok) \in BOOLEAN
      OBVIOUS
    <3>3. (IF FileRun(i).ok THEN result.errors ELSE result.errors + 1) \in Nat
      BY <3>1
    <3> QED
      BY <2>5, <3>1, <3>2, <3>3
  <2>7. result' \in PipelineResult
    BY <1>0, <2>1, <2>6 DEF PipelineResult
  <2>8. work' \in [1..Count -> FutureStates]
    BY <1>0, <2>1
  <2> QED
    BY <2>7, <2>8
<1>4. ASSUME NEW failed \in SUBSET (1..Count), Note(failed) PROVE result' \in PipelineResult
  <2>1. /\ result.named \union failed \in SUBSET Nat
        /\ result.errors + Cardinality(failed) \in Nat
    <3>1. result.named \in SUBSET Nat /\ failed \in SUBSET Nat /\ result.errors \in Nat
      BY <1>0 DEF PipelineResult
    <3>2. Cardinality(failed) \in Nat
      BY <1>0, NumbersFinite
    <3>3. result.errors + Cardinality(failed) \in Nat
      BY <3>1, <3>2
    <3>4. result.named \union failed \in SUBSET Nat
      BY <3>1
    <3> QED
      BY <3>3, <3>4
  <2> QED
    BY <1>0, <1>4, <2>1 DEF Note, PipelineResult
<1>5. CASE WorkerRaises
  <2>1. PICK i \in Busy :
          \/ work' = [work EXCEPT ![i] = "noted"] /\ Note({i})
          \/ UNCHANGED <<work, result>>
    BY <1>5 DEF WorkerRaises
  <2>2. {i} \in SUBSET (1..Count)
    BY DEF Busy
  <2> QED
    BY <1>0, <1>4, <2>1, <2>2
<1>6. CASE WorkerDies
  <2> DEFINE failed == {i \in 1..Count : work[i] \in {"none", "running", "published"}}
  <2>1. \/ /\ work' = [i \in 1..Count |-> IF i \in failed THEN "noted" ELSE work[i]]
           /\ Note(failed)
        \/ UNCHANGED <<work, result>>
    BY <1>6 DEF WorkerDies
  <2>2. failed \in SUBSET (1..Count)
    OBVIOUS
  <2> HIDE DEF failed
  <2>3. result' \in PipelineResult
    BY <1>0, <1>4, <2>1, <2>2
  <2>4. work' \in [1..Count -> FutureStates]
    BY <1>0, <2>1
  <2> QED
    BY <2>3, <2>4
<1> QED
  BY <1>1, <1>2, <1>3, <1>5, <1>6

\* Every step keeps the types.
LEMMA NextTypes ==
    ASSUME TypeOK, ControlInv, Next
    PROVE  TypeOK'
<1>0. target' = target /\ Records' = Records /\ (Vanish \/ UNCHANGED files)
  BY TargetConstant
<1>1. UNCHANGED files => Count' = Count
  BY DEF Count
<1>2. CASE Start
  BY <1>0, <1>2, StartTypes DEF Start
<1>3. CASE StartRun \/ Finalise \/ FinishRun
  <2>1. /\ rows' \in Seq(JobRun) /\ published' \in Seq(Seq(Records))
        /\ result' \in PipelineResult
    BY <1>0, <1>3, RunTypes DEF TypeOK, StartRun, FinishRun
  <2>2. /\ UNCHANGED <<files, attempt, src, stats, got, work, redelivered, faults>>
        /\ pc' \in Locations
    BY <1>3 DEF StartRun, Finalise, FinishRun, AfterRun, Locations
  <2> QED
    BY <1>0, <1>1, <2>1, <2>2 DEF TypeOK
<1>4. CASE BuildSource
  BY <1>0, <1>1, <1>4, BuildTypes DEF TypeOK, BuildSource, jobVars, Locations
<1>5. CASE Sample
  <2>1. result' \in PipelineResult /\ pc' \in Locations
    BY <1>5, ResultTypes DEF Sample, Abort, TypeOK, Locations
  <2> QED
    BY <1>0, <1>1, <1>5, <2>1 DEF TypeOK, Sample, jobVars
<1>6. CASE ReadStep
  <2>1. ReadTypes
    BY <1>6, ReadStepTypes
  <2>2. faults' \in 0..MaxFaults
    BY <1>6, SpendTypes DEF TypeOK, ReadStep, OpenFile, ReadLine, CloseFile, FilesEnd, Fetch,
       FetchFails, Redirected, ReadItem, PageEnds, PagesEnd, ReadRow, DatabaseFails
  <2>3. UNCHANGED jobVars
    BY <1>6 DEF ReadStep, OpenFile, ReadLine, CloseFile, FilesEnd, Fetch,
       FetchFails, Redirected, ReadItem, PageEnds, PagesEnd, ReadRow, DatabaseFails
  <2> QED
    BY <1>0, <1>1, <2>1, <2>2, <2>3 DEF TypeOK, ReadTypes, jobVars, Locations
<1>7. CASE FlushFails
  <2>1. (IF result.ended THEN Len(got) ELSE 0) \in Nat
    BY LenProperties DEF TypeOK
  <2>2. result' \in PipelineResult
    BY <1>7, <2>1 DEF FlushFails, TypeOK, PipelineResult
  <2>3. faults' \in 0..MaxFaults /\ pc' \in Locations
    BY <1>7, SpendTypes DEF FlushFails, TypeOK, AfterRun, Locations
  <2> QED
    BY <1>0, <1>1, <1>7, <2>2, <2>3 DEF TypeOK, FlushFails, jobVars
<1>8. CASE Return
  BY <1>0, <1>1, <1>8 DEF Return, TypeOK, jobVars, Locations
<1>9. CASE Outage
  <2>1. attempt' \in Nat /\ pc' \in Locations /\ faults' \in 0..MaxFaults
    BY <1>9, RaiseTypes, SpendTypes DEF Outage, TypeOK, Locations
  <2> QED
    BY <1>0, <1>1, <1>9, <2>1 DEF TypeOK, Outage
<1>10. CASE Crash
  <2>1. faults' \in 0..MaxFaults
    BY <1>10, SpendTypes DEF Crash, TypeOK
  <2> QED
    BY <1>0, <1>1, <1>10, <2>1 DEF TypeOK, Crash, Locations
<1>11. CASE Vanish
  <2>1. PICK i \in 1..Count : files' = [files EXCEPT ![i].cond = "gone"]
    BY <1>11 DEF Vanish
  <2>2. files' \in Seq(Files) /\ Count' = Count
    BY <2>1, ItemsVanished DEF TypeOK
  <2>3. faults' \in 0..MaxFaults
    BY <1>11, SpendTypes DEF Vanish, TypeOK
  <2> QED
    BY <1>0, <1>11, <2>2, <2>3 DEF TypeOK, Vanish
<1>12. CASE TakeFile \/ WorkerPublishes \/ Merge \/ WorkerRaises \/ WorkerDies
  <2>1. work' \in [1..Count -> FutureStates] /\ result' \in PipelineResult
    BY <1>12, PoolTypes
  <2>2. rows' \in Seq(JobRun) /\ published' \in Seq(Seq(Records))
    BY <1>0, <1>12, RunTypes DEF TypeOK, TakeFile, Merge, WorkerRaises, WorkerDies
  <2>3. attempt' \in Nat /\ pc' \in Locations
    BY <1>12, RaiseTypes
       DEF TypeOK, TakeFile, WorkerPublishes, Merge, WorkerRaises, WorkerDies, Locations
  <2>4. faults' \in 0..MaxFaults
    BY <1>12, SpendTypes
       DEF TypeOK, TakeFile, WorkerPublishes, Merge, WorkerRaises, WorkerDies
  <2>5. UNCHANGED <<files, src, stats, got, redelivered>>
    BY <1>12 DEF TakeFile, WorkerPublishes, Merge, WorkerRaises, WorkerDies
  <2> QED
    BY <1>0, <1>1, <2>1, <2>2, <2>3, <2>4, <2>5 DEF TypeOK
<1>13. CASE PoolEnds
  <2>1. result' \in PipelineResult
    BY <1>13, ResultTypes DEF PoolEnds, TypeOK
  <2> QED
    BY <1>0, <1>1, <1>13, <2>1 DEF TypeOK, PoolEnds, jobVars, Locations
<1> QED
  BY <1>2, <1>3, <1>4, <1>5, <1>6, <1>7, <1>8, <1>9, <1>10, <1>11, <1>12, <1>13
     DEF Next, Progress, ReadStep


-----------------------------------------------------------------------------
(* The control of the job *)

\* A command ingests endpoints and tables, a queue files and directories.
LEMMA Backends ==
    ASSUME TypeOK
    PROVE  /\ target.kind \in {"file", "dir", "parallel", "api", "db"}
           /\ target.backend = "cli" <=> target.kind \in {"api", "db"}
<1> DEFINE T1 == [kind : {"file", "dir"}, backend : {"thread", "celery"}, path : Paths]
           T2 == [kind : {"parallel"}, backend : {"thread"}, path : {"ok"}, workers : Requested]
           T3 == [kind : {"api"}, backend : {"cli"}, pages : Servers,
                  mode : {"single", "page", "cursor", "both"}]
           T4 == [kind : {"db"}, backend : {"cli"}, table : BOOLEAN, query : BOOLEAN,
                  rows : Tables]
<1>0. target \in T1 \/ target \in T2 \/ target \in T3 \/ target \in T4
  BY DEF TypeOK, Targets
<1>1. CASE target \in T1
  BY <1>1
<1>2. CASE target \in T2
  BY <1>2
<1>3. CASE target \in T3
  BY <1>3
<1>4. CASE target \in T4
  BY <1>4
<1> QED
  BY <1>0, <1>1, <1>2, <1>3, <1>4

\* Where a step may lead.
LEMMA ControlStep ==
    ASSUME TypeOK, ControlInv, Next
    PROVE  ControlInv'
<1>0. target' = target /\ Records' = Records /\ (Vanish \/ UNCHANGED files)
  BY TargetConstant
<1>1. /\ target.kind \in {"file", "dir", "parallel", "api", "db"}
      /\ target.backend = "cli" <=> target.kind \in {"api", "db"}
  BY Backends
<1>2. CASE Start
  <2>1. /\ Len(rows)' = Len(published)'
        /\ pc' \in {"row", "build", "pool"} => rows' # << >>
        /\ pc' \in {"start", "failed", "row", "build", "pool"}
    BY <1>0, <1>2, StartTypes DEF Start
  <2>2. /\ pc' \in {"start", "failed"}
           \/ pc' = CASE target.kind = "parallel" -> "pool"
                      [] target.backend = "cli" -> "build"
                      [] OTHER -> "row"
    BY <1>2 DEF Start, Raise
  <2>3. /\ pc' = "row" => target.kind \in {"file", "dir"}
        /\ pc' = "pool" => target.kind = "parallel"
        /\ pc' = "build" => target.kind # "parallel"
    BY <1>1, <2>2
  <2> QED
    BY <1>0, <2>1, <2>3 DEF ControlInv
<1>3. CASE StartRun \/ Finalise \/ FinishRun
  <2>1. Len(rows') = Len(rows) /\ rows' # << >> /\ Len(published') = Len(published)
    BY <1>0, <1>3, RunTypes
  <2>2. \/ pc = "row" /\ pc' = "build"
        \/ pc = "final" /\ pc' = AfterRun
        \/ pc = "finish" /\ pc' = "ack"
    BY <1>3 DEF StartRun, Finalise, FinishRun
  <2> QED
    BY <1>0, <1>1, <2>1, <2>2 DEF ControlInv, AfterRun
<1>4. CASE BuildSource
  <2>1. UNCHANGED <<target, rows, published>> /\ pc = "build"
    BY <1>4 DEF BuildSource, jobVars
  <2>2. \/ pc' = "sample" /\ src'.line = 0
        \/ pc' = IF target.backend = "cli" THEN "done" ELSE "finish"
    BY <1>4 DEF BuildSource, Abort, AtStart
  <2> QED
    BY <1>0, <1>1, <2>1, <2>2 DEF ControlInv
<1>5. CASE Sample
  BY <1>0, <1>5 DEF ControlInv, Sample, Abort, jobVars
<1>6. CASE ReadStep
  <2>1. /\ UNCHANGED <<target, rows, published>> /\ pc = "read" /\ pc' \in {"read", "final"}
    <3>1. ReadTypes
      BY <1>6, ReadStepTypes
    <3> QED
      BY <1>6, <3>1 DEF ReadTypes, ReadStep, OpenFile, ReadLine, CloseFile, FilesEnd, Fetch,
         FetchFails, Redirected, ReadItem, PageEnds, PagesEnd, ReadRow, DatabaseFails,
         Reads, jobVars
  <2>2. ASSUME target.kind \in {"file", "dir"}, pc' = "read", src'.line > 0
        PROVE  src'.at <= Len(src'.list)
    <3>1. OpenFile \/ ReadLine \/ CloseFile
      BY <1>6, <2>2 DEF ReadStep, FilesEnd, Fetch, FetchFails, Redirected, ReadItem,
         PageEnds, PagesEnd, ReadRow, DatabaseFails, Reads, ReadEnds
    <3>2. src \in Positions
      BY DEF TypeOK
    <3>3. CASE OpenFile
      <4> DEFINE skipping == [NextFile EXCEPT !.skipped = @ \union {src.list[src.at]}]
      <4>1. skipping.line = 0
        BY <3>2 DEF NextFile, Positions
      <4>2. \/ src' = [src EXCEPT !.line = 1]
            \/ src' = skipping
            \/ pc' = "final"
        BY <3>3 DEF OpenFile, Abort
      <4> HIDE DEF skipping
      <4>3. src' # skipping /\ pc' # "final"
        BY <2>2, <4>1
      <4>4. src' = [src EXCEPT !.line = 1]
        BY <4>2, <4>3
      <4> QED
        BY <3>2, <3>3, <4>4 DEF OpenFile, Positions
    <3>4. CASE ReadLine
      <4>1. src'.at = src.at /\ src'.list = src.list
        BY <3>2, <3>4 DEF ReadLine, Positions
      <4>2. src.at <= Len(src.list)
        BY <2>2, <2>1, <3>4 DEF ReadLine, ControlInv
      <4> QED
        BY <4>1, <4>2
    <3>5. CASE CloseFile
      <4>1. src'.line = 0
        BY <3>2, <3>5 DEF CloseFile, NextFile, Positions
      <4> QED
        BY <2>2, <4>1
    <3> QED
      BY <3>1, <3>3, <3>4, <3>5
  <2> QED
    BY <1>0, <2>1, <2>2 DEF ControlInv
<1>7. CASE FlushFails
  <2>1. UNCHANGED <<rows, published>> /\ pc = "final" /\ pc' = AfterRun
    BY <1>7 DEF FlushFails, jobVars
  <2> QED
    BY <1>0, <1>1, <2>1 DEF ControlInv, AfterRun
<1>8. CASE Return \/ Outage \/ Crash \/ PoolEnds
  <2>1. /\ UNCHANGED <<rows, published>> /\ pc' \in {"start", "failed", "lost", "done"}
        /\ pc' = "done" => pc \notin {"start", "failed", "lost"}
    BY <1>8, RaiseTypes DEF Return, Outage, Crash, PoolEnds, TypeOK, jobVars
  <2> QED
    BY <1>0, <2>1 DEF ControlInv
<1>9. CASE Vanish
  BY <1>0, <1>9 DEF Vanish, ControlInv
<1>10. CASE WorkerPublishes
  <2>1. Len(rows') = Len(rows) /\ rows' # << >> /\ Len(published') = Len(published)
    BY <1>0, <1>10, RunTypes
  <2> QED
    BY <1>0, <1>10, <2>1 DEF ControlInv, WorkerPublishes
<1>11. CASE TakeFile \/ Merge \/ WorkerRaises \/ WorkerDies
  <2>1. /\ UNCHANGED <<rows, published>> /\ pc = "pool" /\ pc' \in {"pool", "start", "failed"}
    BY <1>11, RaiseTypes DEF TakeFile, Merge, WorkerRaises, WorkerDies, TypeOK
  <2> QED
    BY <1>0, <2>1 DEF ControlInv
<1> QED
  BY <1>2, <1>3, <1>4, <1>5, <1>6, <1>7, <1>8, <1>9, <1>10, <1>11
     DEF Next, Progress, ReadStep

\* Every reachable state is well typed, and its control is where its target can
\* be.
LEMMA TypesHold == Spec => [](TypeOK /\ ControlInv)
<1>1. TypeOK /\ ControlInv /\ [Next]_vars => (TypeOK /\ ControlInv)'
  <2> SUFFICES ASSUME TypeOK, ControlInv, [Next]_vars PROVE TypeOK' /\ ControlInv'
    OBVIOUS
  <2>1. CASE Next
    BY <2>1, NextTypes, ControlStep
  <2>2. CASE UNCHANGED vars
    <3>1. Records' = Records /\ Count' = Count
      BY <2>2 DEF vars, Records, Count
    <3> QED
      BY <2>2, <3>1 DEF vars, TypeOK, ControlInv
  <2> QED
    BY <2>1, <2>2
<1> QED
  BY <1>1, InitTypes, PTL DEF Spec

\* Type correctness: what an ingest keeps is what its variables are meant to
\* hold, through its retries, its crashes and the futures of its pool.
THEOREM TypeCorrect == Spec => []TypeOK
BY TypesHold, PTL


-----------------------------------------------------------------------------
(* The audit trail *)

\* The runs that succeeded are finitely many.
LEMMA SucceededFinite ==
    ASSUME rows \in Seq(JobRun)
    PROVE  IsFiniteSet(Succeeded) /\ Cardinality(Succeeded) \in Nat
<1>1. Len(rows) \in Nat /\ Succeeded \in SUBSET (1..Len(rows))
  BY LenProperties DEF Succeeded
<1>2. IsFiniteSet(1..Len(rows))
  BY <1>1, FS_Interval
<1>3. IsFiniteSet(Succeeded)
  BY <1>1, <1>2, FS_Subset
<1> QED
  BY <1>3, FS_CardinalityType

\* The runs of a file or a directory whose rows and records no step touches.
Untouched ==
    /\ UNCHANGED <<rows, published>>
    /\ \/ /\ pc \in {"build", "sample", "read"} /\ pc' \in {"build", "sample", "read", "final"}
          /\ UNCHANGED redelivered
       \/ /\ pc \in {"build", "final"} /\ pc' = "finish" /\ ~result'.succeeded
          /\ UNCHANGED redelivered
       \/ pc = "ack" /\ pc' = "done" /\ UNCHANGED redelivered
       \/ pc \in {"start", "row", "build", "finish"} /\ pc' \in {"start", "failed"}
          /\ UNCHANGED redelivered
       \/ pc \notin {"done", "failed", "lost"} /\ pc' = "lost" /\ UNCHANGED redelivered
       \/ /\ pc \notin {"done", "failed", "lost"} /\ pc' = "start"
          /\ redelivered' = redelivered + 1

\* Most steps are of that kind.
LEMMA UntouchedSteps ==
    ASSUME TypeOK, ControlInv, target.kind \in {"file", "dir"},
           \/ BuildSource \/ Sample \/ ReadStep \/ FlushFails \/ Return \/ Outage \/ Crash
           \/ Vanish \/ (Start /\ Raise /\ UNCHANGED <<rows, published>>)
    PROVE  Untouched
<1>0. target.backend # "cli"
  BY Backends
<1>1. result \in PipelineResult /\ attempt \in Nat
  BY DEF TypeOK
<1>2. CASE BuildSource
  <2>1. /\ UNCHANGED <<rows, published, redelivered>> /\ pc = "build"
        /\ pc' = "sample" \/ Abort("finish")
    BY <1>0, <1>2 DEF BuildSource, jobVars
  <2>2. Abort("finish") => pc' = "finish" /\ ~result'.succeeded
    BY <1>1 DEF Abort, PipelineResult
  <2> QED
    BY <2>1, <2>2 DEF Untouched
<1>3. CASE Sample
  BY <1>3 DEF Sample, Untouched, Abort, jobVars
<1>4. CASE ReadStep
  <2>1. ReadTypes
    BY <1>4, ReadStepTypes
  <2>2. UNCHANGED <<rows, published, redelivered>> /\ pc = "read"
    BY <1>4 DEF ReadStep, OpenFile, ReadLine, CloseFile, FilesEnd, Fetch,
       FetchFails, Redirected, ReadItem, PageEnds, PagesEnd, ReadRow, DatabaseFails,
       Reads, jobVars
  <2> QED
    BY <2>1, <2>2 DEF Untouched, ReadTypes
<1>5. CASE FlushFails
  <2>1. ~result'.succeeded
    BY <1>1, <1>5 DEF FlushFails, PipelineResult
  <2> QED
    BY <1>0, <1>5, <2>1 DEF FlushFails, Untouched, AfterRun, jobVars
<1>6. CASE Return
  BY <1>6 DEF Return, Untouched, jobVars
<1>7. CASE Outage
  BY <1>1, <1>7, RaiseTypes DEF Outage, Untouched
<1>8. CASE Crash
  BY <1>8 DEF Crash, Untouched
<1>9. CASE Vanish
  <2>1. pc # "pool"
    BY <1>9 DEF ControlInv, Vanish
  <2> QED
    BY <1>9, <2>1 DEF Vanish, Untouched
<1>10. CASE Start /\ Raise /\ UNCHANGED <<rows, published>>
  BY <1>1, <1>10, RaiseTypes DEF Start, Untouched
<1> QED
  BY <1>2, <1>3, <1>4, <1>5, <1>6, <1>7, <1>8, <1>9, <1>10

\* They keep the audit trail: a crash after finish_run leaves a success behind
\* only under a task that is delivered again.
LEMMA RowUntouched ==
    ASSUME TypeOK, RowInv, target.kind \in {"file", "dir"}, target' = target, Untouched
    PROVE  RowInv'
<1>1. rows' = rows /\ published' = published /\ Row' = Row /\ Succeeded' = Succeeded
  BY DEF Untouched, Row, Succeeded
<1>2. Cardinality(Succeeded) \in Nat /\ redelivered \in Nat
  BY SucceededFinite DEF TypeOK
<1>3. Cardinality(Succeeded)
          <= redelivered + (IF pc \in {"ack", "done", "lost"} THEN 1 ELSE 0)
  BY DEF RowInv
<1>4. Cardinality(Succeeded)
          <= redelivered' + (IF pc' \in {"ack", "done", "lost"} THEN 1 ELSE 0)
  <2>1. CASE redelivered' = redelivered + 1
    <3>1. Cardinality(Succeeded) <= redelivered + 1
      BY <1>2, <1>3
    <3>2. redelivered + 1 \in Nat
      BY <1>2
    <3>3. Cardinality(Succeeded) <= redelivered'
      BY <2>1, <3>1
    <3>4. redelivered' \in Nat
      BY <2>1, <3>2
    <3> QED
      BY <1>2, <3>3, <3>4
  <2>2. CASE redelivered' = redelivered /\ pc \in {"ack", "done", "lost"}
    <3>1. pc' \in {"ack", "done", "lost"}
      BY <1>2, <2>2 DEF Untouched
    <3> QED
      BY <1>2, <1>3, <2>2, <3>1
  <2>3. CASE redelivered' = redelivered /\ pc \notin {"ack", "done", "lost"}
    <3>1. Cardinality(Succeeded) <= redelivered
      BY <1>2, <1>3, <2>3
    <3> QED
      BY <1>2, <2>3, <3>1
  <2> QED
    BY <2>1, <2>2, <2>3 DEF Untouched
<1>5. /\ \A r \in 1..Len(rows) :
           /\ published[r] # << >> => rows[r].status # "none"
           /\ rows[r].status = "SUCCEEDED" => rows[r].written = Len(published[r])
      /\ pc \in {"row", "build", "sample", "read", "final"} =>
             published[Len(published)] = << >>
      /\ pc \in {"build", "sample", "read", "final", "finish"} => Row.status = "RUNNING"
      /\ pc \in {"ack", "done"} => Row.status \in {"SUCCEEDED", "FAILED"}
  BY DEF RowInv
<1>6. /\ pc' \in {"row", "build", "sample", "read", "final"} =>
             published[Len(published)] = << >>
      /\ pc' \in {"build", "sample", "read", "final", "finish"} => Row.status = "RUNNING"
      /\ pc' # "row"
      /\ pc' \in {"ack", "done"} => Row.status \in {"SUCCEEDED", "FAILED"}
      /\ pc' = "finish" => ~result'.succeeded
  BY <1>5 DEF Untouched
<1> QED
  BY <1>1, <1>4, <1>5, <1>6 DEF RowInv


\* A run begins: its row is in neither state yet, and nothing is published.
LEMMA RowStarts ==
    ASSUME TypeOK, ControlInv, RowInv, target.kind \in {"file", "dir"}, target' = target,
           Start, ~ (Raise /\ UNCHANGED <<rows, published>>)
    PROVE  RowInv'
<1> DEFINE new == [status |-> "none", written |-> 0]
           n == Len(rows)
<1>0. target.backend # "cli"
  BY Backends
<1>1. /\ rows' = Append(rows, new) /\ published' = Append(published, << >>)
      /\ pc = "start" /\ pc' = "row" /\ redelivered' = redelivered
  BY <1>0 DEF Start
<1>2. new \in JobRun /\ << >> \in Seq(Records) /\ new.status = "none"
  BY EmptySeq DEF JobRun
<1>3. n \in Nat /\ Len(published) = n
  BY LenProperties DEF TypeOK, ControlInv
<1> HIDE DEF new, n
<1>4. /\ Len(rows') = n + 1 /\ rows'[n + 1] = new /\ \A r \in 1..n : rows'[r] = rows[r]
  BY <1>1, <1>2, AppendProperties DEF TypeOK, n
<1>5. /\ Len(published') = n + 1 /\ published'[n + 1] = << >>
      /\ \A r \in 1..n : published'[r] = published[r]
  BY <1>1, <1>2, <1>3, AppendProperties DEF TypeOK
<1>6. \A r \in 1..(n + 1) : r \in 1..n \/ r = n + 1
  BY <1>3
<1>7. \A r \in 1..Len(rows') :
         /\ published'[r] # << >> => rows'[r].status # "none"
         /\ rows'[r].status = "SUCCEEDED" => rows'[r].written = Len(published'[r])
  <2> TAKE r \in 1..Len(rows')
  <2>1. CASE r = n + 1
    BY <1>2, <1>4, <1>5, <2>1
  <2>2. CASE r \in 1..n
    <3>1. /\ published[r] # << >> => rows[r].status # "none"
          /\ rows[r].status = "SUCCEEDED" => rows[r].written = Len(published[r])
      BY <2>2 DEF RowInv, n
    <3> QED
      BY <1>4, <1>5, <2>2, <3>1
  <2> QED
    BY <1>4, <1>6, <2>1, <2>2
<1>8. Succeeded' = Succeeded
  <2>1. \A r \in 1..n : r \in 1..(n + 1)
    BY <1>3
  <2>2. \A r : r \in Succeeded' <=> r \in 1..(n + 1) /\ rows'[r].status = "SUCCEEDED"
    BY <1>4 DEF Succeeded
  <2>3. \A r : r \in Succeeded <=> r \in 1..n /\ rows[r].status = "SUCCEEDED"
    BY DEF Succeeded, n
  <2>4. \A r : r \in Succeeded' <=> r \in Succeeded
    BY <1>2, <1>4, <1>6, <2>1, <2>2, <2>3
  <2> QED
    BY <2>4
<1>9. Row'.status = "none" /\ published'[Len(published')] = << >>
  BY <1>2, <1>4, <1>5 DEF Row
<1>10. Cardinality(Succeeded) <= redelivered + 0
  BY <1>1 DEF RowInv
<1> QED
  BY <1>1, <1>7, <1>8, <1>9, <1>10 DEF RowInv

\* The row of the run is closed only by finish_run, which copies what the run
\* published.
LEMMA RowCloses ==
    ASSUME TypeOK, ControlInv, RowInv, target.kind \in {"file", "dir"}, target' = target,
           Records' = Records, StartRun \/ Finalise \/ FinishRun
    PROVE  RowInv'
<1> DEFINE n == Len(rows)
<1>0. target.backend # "cli"
  BY Backends
<1>1. /\ rows \in Seq(JobRun) /\ rows # << >> /\ published \in Seq(Seq(Records))
      /\ got \in Seq(Records) /\ Len(published) = n /\ result \in PipelineResult
  BY DEF TypeOK, ControlInv, StartRun, Finalise, FinishRun
<1>2. n \in Nat \ {0} /\ n \in 1..n
  BY <1>1, EmptySeq
<1>3. published # << >>
  BY <1>1, <1>2, EmptySeq
<1>4. Row \in JobRun /\ Row = rows[n]
  BY <1>1, <1>2, ElementOfSeq DEF Row
<1>5. /\ \A r \in 1..n :
           /\ published[r] # << >> => rows[r].status # "none"
           /\ rows[r].status = "SUCCEEDED" => rows[r].written = Len(published[r])
      /\ pc \in {"row", "final"} => published[n] = << >>
      /\ pc = "row" => Row.status = "none"
      /\ pc \in {"final", "finish"} => Row.status = "RUNNING"
      /\ pc = "finish" /\ result.succeeded => result.written = Len(published[n])
  BY <1>1 DEF RowInv
<1>6. IsFiniteSet(Succeeded) /\ Cardinality(Succeeded) \in Nat /\ redelivered \in Nat
  BY SucceededFinite DEF TypeOK
<1>7. pc \in {"row", "final", "finish"} => Cardinality(Succeeded) <= redelivered + 0
  BY DEF RowInv
<1>8. CASE StartRun
  <2> DEFINE e == [Row EXCEPT !.status = "RUNNING"]
  <2>1. e \in JobRun /\ e.status = "RUNNING"
    BY <1>4 DEF JobRun
  <2>2. /\ rows' = [rows EXCEPT ![n] = e] /\ published' = published /\ pc = "row"
        /\ pc' = "build" /\ redelivered' = redelivered
    BY <1>8 DEF StartRun, Row
  <2> HIDE DEF e
  <2>3. /\ Len(rows') = n /\ rows'[n] = e /\ \A j \in 1..n : j # n => rows'[j] = rows[j]
    BY <1>1, <2>1, <2>2, UpdateLast
  <2>4. \A r \in 1..n :
           /\ published'[r] # << >> => rows'[r].status # "none"
           /\ rows'[r].status = "SUCCEEDED" => rows'[r].written = Len(published'[r])
    BY <1>5, <2>1, <2>2, <2>3
  <2>5. Succeeded' = Succeeded
    <3>1. \A r \in 1..n : rows'[r].status = "SUCCEEDED" <=> rows[r].status = "SUCCEEDED"
      BY <1>4, <1>5, <2>1, <2>2, <2>3
    <3> QED
      BY <2>3, <3>1 DEF Succeeded
  <2>6. Row'.status = "RUNNING"
    BY <2>1, <2>3 DEF Row
  <2> HIDE DEF n
  <2>7. published'[Len(published')] = << >>
    BY <1>1, <1>5, <2>2
  <2> QED
    BY <1>7, <2>2, <2>3, <2>4, <2>5, <2>6, <2>7 DEF RowInv
<1>9. CASE Finalise
  <2> DEFINE stored == Stored(got, result.ended)
  <2>1. stored \in Seq(Records) /\ Len(stored) \in Nat
    BY <1>1, StoredSeq
  <2>2. /\ published' = [published EXCEPT ![Len(published)] = stored] /\ rows' = rows
        /\ result' = [result EXCEPT !.written = Len(stored)] /\ pc = "final"
        /\ pc' = "finish" /\ redelivered' = redelivered
    BY <1>0, <1>9 DEF Finalise, AfterRun
  <2> HIDE DEF stored
  <2>3. /\ Len(published') = n /\ published'[n] = stored
        /\ \A j \in 1..n : j # n => published'[j] = published[j]
    BY <1>1, <1>3, <2>1, <2>2, UpdateLast
  <2>4. \A r \in 1..n :
           /\ published'[r] # << >> => rows'[r].status # "none"
           /\ rows'[r].status = "SUCCEEDED" => rows'[r].written = Len(published'[r])
    <3> TAKE r \in 1..n
    <3>1. CASE r = n
      <4>1. rows'[r].status = "RUNNING"
        BY <1>4, <1>5, <2>2, <3>1
      <4> QED
        BY <4>1
    <3>2. CASE r # n
      BY <1>5, <2>2, <2>3, <3>2
    <3> QED
      BY <3>1, <3>2
  <2>5. Succeeded' = Succeeded /\ Row' = Row
    BY <2>2 DEF Succeeded, Row
  <2>6. result'.written = Len(published'[n])
    BY <1>1, <2>2, <2>3 DEF PipelineResult
  <2> HIDE DEF n
  <2>7. Len(rows') = n
    BY <2>2 DEF n
  <2> QED
    BY <1>5, <1>7, <2>2, <2>3, <2>4, <2>5, <2>6, <2>7 DEF RowInv
<1>10. CASE FinishRun
  <2> DEFINE e == [status |-> IF result.succeeded THEN "SUCCEEDED" ELSE "FAILED",
                   written |-> result.written]
  <2>1. /\ e \in JobRun /\ e.status \in {"SUCCEEDED", "FAILED"}
        /\ e.status = "SUCCEEDED" => result.succeeded
        /\ e.written = result.written
    BY <1>1 DEF JobRun, PipelineResult
  <2>2. /\ rows' = [rows EXCEPT ![n] = e] /\ published' = published /\ pc = "finish"
        /\ pc' = "ack" /\ redelivered' = redelivered
    BY <1>10 DEF FinishRun
  <2> HIDE DEF e
  <2>3. /\ Len(rows') = n /\ rows'[n] = e /\ \A j \in 1..n : j # n => rows'[j] = rows[j]
    BY <1>1, <2>1, <2>2, UpdateLast
  <2>4. \A r \in 1..n :
           /\ published'[r] # << >> => rows'[r].status # "none"
           /\ rows'[r].status = "SUCCEEDED" => rows'[r].written = Len(published'[r])
    <3> TAKE r \in 1..n
    <3>1. CASE r = n
      BY <1>5, <2>1, <2>2, <2>3, <3>1
    <3>2. CASE r # n
      BY <1>5, <2>2, <2>3, <3>2
    <3> QED
      BY <3>1, <3>2
  <2>5. Cardinality(Succeeded') <= redelivered + 1
    <3>1. Succeeded' \subseteq Succeeded \union {n}
      BY <2>3 DEF Succeeded
    <3>2. /\ IsFiniteSet(Succeeded \union {n})
          /\ Cardinality(Succeeded \union {n})
                = IF n \in Succeeded THEN Cardinality(Succeeded) ELSE Cardinality(Succeeded) + 1
      BY <1>6, FS_AddElement
    <3>3. Cardinality(Succeeded \union {n}) <= Cardinality(Succeeded) + 1
      BY <1>6, <3>2
    <3>4. /\ Cardinality(Succeeded') \in Nat
          /\ Cardinality(Succeeded') <= Cardinality(Succeeded \union {n})
      <4> DEFINE B == Succeeded \union {n}
                 D == Succeeded'
      <4> HIDE DEF B, D
      <4>1. IsFiniteSet(B) /\ D \in SUBSET B
        BY <3>1, <3>2 DEF B, D
      <4>2. Cardinality(D) <= Cardinality(B) /\ IsFiniteSet(D)
        BY <4>1, FS_Subset
      <4>3. Cardinality(D) \in Nat
        BY <4>2, FS_CardinalityType
      <4> QED
        BY <4>2, <4>3 DEF B, D
    <3>5. Cardinality(Succeeded \union {n}) \in Nat
      BY <3>2, FS_CardinalityType
    <3>6. Cardinality(Succeeded) <= redelivered
      BY <1>6, <1>7, <2>2
    <3> DEFINE a == Cardinality(Succeeded')
               b == Cardinality(Succeeded \union {n})
               c == Cardinality(Succeeded)
    <3> HIDE DEF a, b, c
    <3>7. a \in Nat /\ b \in Nat /\ c \in Nat /\ a <= b /\ b <= c + 1 /\ c <= redelivered
      BY <1>6, <3>3, <3>4, <3>5, <3>6 DEF a, b, c
    <3>8. a <= redelivered + 1
      BY <1>6, <3>7
    <3> QED
      BY <3>8 DEF a
  <2>6. Row'.status \in {"SUCCEEDED", "FAILED"}
    BY <2>1, <2>3 DEF Row
  <2> HIDE DEF n
  <2> QED
    BY <2>2, <2>3, <2>4, <2>5, <2>6 DEF RowInv
<1> QED
  BY <1>8, <1>9, <1>10

\* Every step keeps the audit trail.
LEMMA RowStep ==
    ASSUME TypeOK, ControlInv, RowInv, Next
    PROVE  RowInv'
<1>0. target' = target /\ Records' = Records
  BY TargetConstant
<1>1. CASE target.kind \notin {"file", "dir"}
  BY <1>0, <1>1 DEF RowInv
<1>2. CASE target.kind \in {"file", "dir"}
  <2>1. pc # "pool"
    BY <1>2 DEF ControlInv
  <2>2. \/ BuildSource \/ Sample \/ ReadStep \/ FlushFails \/ Return \/ Outage \/ Crash
        \/ Vanish \/ Start \/ StartRun \/ Finalise \/ FinishRun
    BY <2>1 DEF Next, Progress, ReadStep, TakeFile, WorkerPublishes, Merge, PoolEnds,
       WorkerRaises, WorkerDies
  <2>3. CASE Untouched
    BY <1>0, <1>2, <2>3, RowUntouched
  <2>4. CASE Start /\ ~ (Raise /\ UNCHANGED <<rows, published>>)
    BY <1>0, <1>2, <2>4, RowStarts
  <2>5. CASE StartRun \/ Finalise \/ FinishRun
    BY <1>0, <1>2, <2>5, RowCloses
  <2> QED
    BY <1>2, <2>2, <2>3, <2>4, <2>5, UntouchedSteps
<1> QED
  BY <1>1, <1>2

\* The audit trail of job_runs: records are in the dataset only under a run
\* that has a row, a SUCCEEDED row has the number of its records, one job
\* leaves two of them only when Celery delivered it again, and a job that
\* returned has closed its row, for every number of retries and faults.
THEOREM AuditTrailHolds == Spec => []AuditTrail
<1>1. Init => RowInv
  <2> SUFFICES ASSUME Init PROVE RowInv
    OBVIOUS
  <2>1. rows = << >> /\ published = << >> /\ pc = "start" /\ redelivered = 0
    BY DEF Init
  <2>2. Len(rows) = 0 /\ 1..0 = {}
    BY <2>1
  <2>3. Succeeded = {}
    BY <2>2 DEF Succeeded
  <2>4. Cardinality(Succeeded) = 0
    BY <2>3, FS_EmptySet
  <2> QED
    BY <2>1, <2>2, <2>4 DEF RowInv
<1>2. TypeOK /\ ControlInv /\ RowInv /\ [Next]_vars => RowInv'
  <2> SUFFICES ASSUME TypeOK, ControlInv, RowInv, [Next]_vars PROVE RowInv'
    OBVIOUS
  <2>1. CASE Next
    BY <2>1, RowStep
  <2>2. CASE UNCHANGED vars
    BY <2>2 DEF vars, RowInv, Row, Succeeded
  <2> QED
    BY <2>1, <2>2
<1>3. TypeOK /\ RowInv => AuditTrail
  <2> SUFFICES ASSUME TypeOK, RowInv, target.kind \in {"file", "dir"}
               PROVE  AuditTrail
    BY DEF AuditTrail
  <2>1. Cardinality(Succeeded) \in Nat /\ redelivered \in Nat
    BY SucceededFinite DEF TypeOK
  <2>2. Cardinality(Succeeded) <= 1 + redelivered
    <3>1. Cardinality(Succeeded)
              <= redelivered + (IF pc \in {"ack", "done", "lost"} THEN 1 ELSE 0)
      BY DEF RowInv
    <3> QED
      BY <2>1, <3>1
  <2> QED
    BY <2>2 DEF AuditTrail, RowInv, Succeeded
<1> QED
  BY <1>1, <1>2, <1>3, TypesHold, PTL DEF Spec


-----------------------------------------------------------------------------
(* The counters of a directory source *)

\* What SourceInv says of the positions: the files skipped are behind, and no
\* file is listed twice.
Listed ==
    /\ IsFiniteSet(src.skipped)
    /\ stats.errors = Cardinality(src.skipped)
    /\ src.line = 0 => src.child = 0
    /\ \A i \in src.skipped : \E k \in 1..Len(src.list) : k < src.at /\ src.list[k] = i
    /\ Distinct(src.list)

\* A file that is skipped was not skipped before: it is listed once.
LEMMA SkipsOnce ==
    ASSUME TypeOK, Listed, src.at <= Len(src.list), src.line = 0,
           src' = [NextFile EXCEPT !.skipped = @ \union {src.list[src.at]}],
           stats' = [stats EXCEPT !.errors = @ + 1]
    PROVE  Listed' /\ src'.child = 0 /\ stats'.records = stats.records /\ src.child = 0
<1> DEFINE i == src.list[src.at]
<1>0. src \in Positions /\ stats \in SourceStats /\ src.at \in 1..Len(src.list)
  BY OpenFileNumber DEF TypeOK
<1>1. /\ src'.list = src.list /\ src'.at = src.at + 1 /\ src'.line = 0 /\ src'.child = 0
      /\ src'.skipped = src.skipped \union {i}
      /\ stats'.errors = stats.errors + 1 /\ stats'.records = stats.records
  BY <1>0 DEF NextFile, Positions, SourceStats
<1>2. i \notin src.skipped
  <2> SUFFICES ASSUME i \in src.skipped PROVE FALSE
    OBVIOUS
  <2>1. PICK k \in 1..Len(src.list) : k < src.at /\ src.list[k] = i
    BY DEF Listed
  <2>2. k = src.at
    BY <1>0, <2>1 DEF Listed, Distinct
  <2> QED
    BY <1>0, <2>1, <2>2
<1> HIDE DEF i
<1>3. /\ IsFiniteSet(src.skipped \union {i})
      /\ Cardinality(src.skipped \union {i}) = stats.errors + 1
  BY <1>2, FS_AddElement DEF Listed
<1>4. \A j \in src.skipped \union {i} :
         \E k \in 1..Len(src.list) : k < src.at + 1 /\ src.list[k] = j
  <2> TAKE j \in src.skipped \union {i}
  <2>1. CASE j = i
    <3>1. src.at < src.at + 1 /\ src.list[src.at] = j
      BY <1>0, <2>1 DEF i
    <3> QED
      BY <1>0, <3>1
  <2>2. CASE j \in src.skipped
    <3>1. PICK k \in 1..Len(src.list) : k < src.at /\ src.list[k] = j
      BY <2>2 DEF Listed
    <3>2. k < src.at + 1
      BY <1>0, <3>1
    <3> QED
      BY <3>1, <3>2
  <2> QED
    BY <2>1, <2>2
<1>5. src.child = 0 /\ Distinct(src'.list)
  BY <1>1 DEF Listed
<1>6. IsFiniteSet(src'.skipped) /\ stats'.errors = Cardinality(src'.skipped)
  BY <1>1, <1>3
<1>7. \A j \in src'.skipped : \E k \in 1..Len(src'.list) : k < src'.at /\ src'.list[k] = j
  BY <1>1, <1>4
<1>8. Listed'
  BY <1>1, <1>5, <1>6, <1>7 DEF Listed, Distinct
<1> QED
  BY <1>1, <1>5, <1>8

\* A step that moves past a line or a file keeps what is listed.
LEMMA ListedMoves ==
    ASSUME TypeOK, Listed, src'.list = src.list, src'.skipped = src.skipped,
           stats'.errors = stats.errors, src'.at \in {src.at, src.at + 1},
           src'.line = 0 => src'.child = 0
    PROVE  Listed'
<1>1. src.at \in Nat /\ src.list \in Seq(Nat)
  BY DEF TypeOK, Positions
<1>2. Len(src.list) \in Nat
  BY <1>1, LenProperties
<1>3. \A k \in 1..Len(src.list) : k < src.at => k < src'.at
  BY <1>1, <1>2
<1> QED
  BY <1>3 DEF Listed, Distinct

\* The records counted, with those of the open file, are those yielded.
LEMMA SourceReads ==
    ASSUME TypeOK, ControlInv, SourceInv, target.kind = "dir", ReadStep
    PROVE  /\ Listed'
           /\ Len(got)' = stats'.records + (IF pc' = "read" THEN src'.child ELSE 0)
<1>0. pc = "read" /\ (OpenFile \/ ReadLine \/ CloseFile \/ FilesEnd)
  BY DEF ReadStep, OpenFile, ReadLine, CloseFile, FilesEnd, Fetch, FetchFails, Redirected,
     ReadItem, PageEnds, PagesEnd, ReadRow, DatabaseFails, Reads
<1>1. Listed /\ Len(got) = stats.records + src.child
  BY <1>0 DEF SourceInv, Listed, Distinct
<1>2. /\ src \in Positions /\ stats \in SourceStats /\ got \in Seq(Records)
      /\ src.child \in Nat /\ src.line \in Nat /\ src.at \in Nat
      /\ stats.records \in Nat /\ Len(got) \in Nat
  BY LenProperties DEF TypeOK, Positions, SourceStats
<1>3. CASE OpenFile
  <2>1. got' = got /\ src.line = 0 /\ src.at <= Len(src.list) /\ src.child = 0
    BY <1>1, <1>3 DEF OpenFile, Listed
  <2>2. CASE src' = [src EXCEPT !.line = 1] /\ UNCHANGED <<pc, stats, result>>
    <3>1. /\ src'.list = src.list /\ src'.skipped = src.skipped /\ src'.at = src.at
          /\ src'.line = 1 /\ src'.child = src.child
      BY <1>2, <2>2 DEF Positions
    <3>2. Listed'
      BY <1>1, <2>2, <3>1, ListedMoves
    <3> QED
      BY <1>0, <1>1, <2>1, <2>2, <3>1, <3>2
  <2>3. CASE /\ src' = [NextFile EXCEPT !.skipped = @ \union {src.list[src.at]}]
             /\ stats' = [stats EXCEPT !.errors = @ + 1]
             /\ UNCHANGED <<pc, result>>
    <3>1. Listed' /\ src'.child = 0 /\ stats'.records = stats.records
      BY <1>1, <2>1, <2>3, SkipsOnce
    <3> QED
      BY <1>0, <1>1, <2>1, <2>3, <3>1
  <2>4. CASE Abort("final") /\ UNCHANGED <<src, stats>>
    <3>1. pc' = "final" /\ src' = src /\ stats' = stats
      BY <2>4 DEF Abort
    <3>2. Listed'
      BY <1>1, <3>1 DEF Listed
    <3>3. Len(got) = stats.records + 0
      BY <1>1, <2>1
    <3> QED
      BY <2>1, <3>1, <3>2, <3>3
  <2> QED
    BY <1>3, <2>2, <2>3, <2>4 DEF OpenFile
<1>4. CASE ReadLine
  <2> DEFINE i == src.list[src.at]
             f == files[i]
             blank == IF f.lines[src.line] = "blank" THEN 1 ELSE 0
  <2>0. src.line > 0 /\ blank \in Nat
    BY <1>4 DEF ReadLine
  <2> HIDE DEF i, f, blank
  <2>1. CASE Abort("final") /\ AddChild /\ UNCHANGED <<src, got>>
    <3>1. /\ pc' = "final" /\ src' = src /\ got' = got
          /\ stats'.errors = stats.errors /\ stats'.records = stats.records + src.child
      BY <1>2, <2>1 DEF Abort, AddChild, SourceStats
    <3>2. Listed'
      BY <1>1, <3>1 DEF Listed
    <3>3. stats.records + src.child = (stats.records + src.child) + 0
      BY <1>2
    <3> QED
      BY <1>1, <3>1, <3>2, <3>3
  <2>2. CASE /\ Yield(<<i, src.line>>)
             /\ src' = [src EXCEPT !.line = src.line + 1, !.child = @ + 1]
             /\ UNCHANGED <<pc, stats, result>>
    <3>1. /\ src'.list = src.list /\ src'.skipped = src.skipped /\ src'.at = src.at
          /\ src'.line = src.line + 1 /\ src'.child = src.child + 1
      BY <1>2, <2>2 DEF Positions
    <3>2. src'.line # 0
      BY <1>2, <3>1
    <3>3. Listed'
      BY <1>1, <2>2, <3>1, <3>2, ListedMoves
    <3>4. Len(got)' = Len(got) + 1
      <4>1. i \in Nat
        BY <1>0, <2>0, OpenFileNumber DEF ControlInv, i
      <4>2. <<i, src.line>> \in Records
        BY <1>2, <4>1 DEF Records
      <4> QED
        BY <2>2, <4>2, YieldTypes
    <3>5. Len(got) + 1 = stats.records + (src.child + 1)
      BY <1>1, <1>2
    <3> QED
      BY <1>0, <2>2, <3>1, <3>3, <3>4, <3>5
  <2>3. CASE /\ UNCHANGED got
             /\ src' = [src EXCEPT !.line = src.line + 1, !.blank = @ + blank]
             /\ UNCHANGED <<pc, stats, result>>
    <3>1. /\ src'.list = src.list /\ src'.skipped = src.skipped /\ src'.at = src.at
          /\ src'.line = src.line + 1 /\ src'.child = src.child
      BY <1>2, <2>3 DEF Positions
    <3>2. src'.line # 0
      BY <1>2, <3>1
    <3>3. Listed'
      BY <1>1, <2>3, <3>1, <3>2, ListedMoves
    <3> QED
      BY <1>0, <1>1, <2>3, <3>1, <3>3
  <2> QED
    BY <1>4, <2>1, <2>2, <2>3 DEF ReadLine, i, f, blank
<1>5. CASE CloseFile
  <2>1. /\ got' = got /\ pc' = pc
        /\ src'.list = src.list /\ src'.skipped = src.skipped /\ src'.at = src.at + 1
        /\ src'.child = 0
        /\ stats'.errors = stats.errors /\ stats'.records = stats.records + src.child
    BY <1>2, <1>5 DEF CloseFile, AddChild, NextFile, Positions, SourceStats
  <2>2. Listed'
    BY <1>1, <2>1, ListedMoves
  <2>3. stats.records + src.child = (stats.records + src.child) + 0
    BY <1>2
  <2> QED
    BY <1>0, <1>1, <2>1, <2>2, <2>3
<1>6. CASE FilesEnd
  <2>1. pc' = "final" /\ UNCHANGED <<src, stats, got>> /\ src.at > Len(src.list)
    BY <1>6 DEF FilesEnd, ReadEnds
  <2>2. src.line = 0
    <3>1. src.line > 0 => src.at <= Len(src.list)
      BY <1>0 DEF ControlInv
    <3>2. Len(src.list) \in Nat
      BY <1>2, LenProperties DEF Positions
    <3> QED
      BY <1>2, <2>1, <3>1, <3>2
  <2>3. src.child = 0
    BY <1>1, <2>2 DEF Listed
  <2>4. Listed'
    BY <1>1, <2>1 DEF Listed
  <2>5. Len(got) = stats.records + 0
    BY <1>1, <2>3
  <2> QED
    BY <2>1, <2>4, <2>5
<1> QED
  BY <1>0, <1>3, <1>4, <1>5, <1>6


\* Every step keeps the counters of a directory source.
LEMMA SourceStep ==
    ASSUME TypeOK, ControlInv, SourceInv, Next
    PROVE  SourceInv'
<1> DEFINE open == {"row", "build", "sample", "read", "final", "finish"}
<1>0. target' = target
  BY TargetConstant
<1> SUFFICES ASSUME target.kind = "dir", pc' \in open
             PROVE  /\ Listed'
                    /\ Len(got)' = stats'.records + (IF pc' = "read" THEN src'.child ELSE 0)
                    /\ pc' \in {"row", "build", "sample"} => src'.line = 0 /\ src'.skipped = {}
  BY <1>0 DEF SourceInv, Listed, Distinct
<1>1. target.backend # "cli" /\ pc # "pool"
  BY Backends DEF ControlInv
<1>2. ASSUME pc \in open
      PROVE  /\ Listed /\ Len(got) = stats.records + (IF pc = "read" THEN src.child ELSE 0)
             /\ pc \in {"row", "build", "sample"} => src.line = 0 /\ src.skipped = {}
  BY <1>2 DEF SourceInv, Listed, Distinct
<1>3. CASE Start
  <2>1. src' = AtStart(<< >>) /\ stats' = EmptyStats /\ got' = << >> /\ pc' = "row"
    BY <1>1, <1>3, RaiseTypes DEF Start, TypeOK
  <2>2. /\ src'.list = << >> /\ src'.line = 0 /\ src'.child = 0 /\ src'.skipped = {}
        /\ stats'.errors = 0 /\ stats'.records = 0
    BY <2>1 DEF AtStart, EmptyStats
  <2>3. IsFiniteSet({}) /\ Cardinality({}) = 0 /\ Len(<< >>) = 0 /\ 1..0 = {}
    BY FS_EmptySet
  <2>4. Distinct(src'.list)
    BY <2>2, <2>3 DEF Distinct
  <2>5. Listed'
    BY <2>2, <2>3, <2>4 DEF Listed
  <2>6. Len(got)' = 0
    BY <2>1, <2>3
  <2> QED
    BY <2>1, <2>2, <2>5, <2>6
<1>4. CASE BuildSource
  <2>1. Listed /\ Len(got) = stats.records + 0 /\ src.skipped = {} /\ pc = "build"
    BY <1>2, <1>4 DEF BuildSource
  <2> DEFINE there == {i \in 1..Count : files[i].cond # "gone"}
  <2>2. /\ src' = AtStart(Only(AllFiles, there)) /\ pc' = "sample"
        /\ stats' = stats /\ got' = got
    BY <1>4 DEF BuildSource
  <2> HIDE DEF there
  <2>3. Distinct(Only(AllFiles, there))
    BY FileNumbers DEF TypeOK
  <2>4. /\ src'.list = Only(AllFiles, there) /\ src'.line = 0 /\ src'.child = 0
        /\ src'.skipped = {}
    BY <2>2 DEF AtStart
  <2>5. Listed'
    BY <2>1, <2>2, <2>3, <2>4 DEF Listed, Distinct
  <2> QED
    BY <2>1, <2>2, <2>4, <2>5
<1>5. CASE Sample
  <2>1. /\ Listed /\ Len(got) = stats.records + 0 /\ src.line = 0
        /\ pc' \in {"final", "read"} /\ UNCHANGED <<src, stats, got>>
    BY <1>2, <1>5 DEF Sample, Abort
  <2>2. src.child = 0 /\ Listed'
    BY <2>1 DEF Listed
  <2> QED
    BY <2>1, <2>2
<1>6. CASE ReadStep
  <2>1. ReadTypes
    BY <1>6, ReadStepTypes
  <2> QED
    BY <1>6, <2>1, SourceReads DEF ReadTypes
<1>7. CASE StartRun \/ Finalise \/ FlushFails \/ Vanish
  <2>1. /\ UNCHANGED <<src, stats, got>>
        /\ \/ pc = "row" /\ pc' = "build"
           \/ pc = "final" /\ pc' = "finish"
           \/ pc \in open /\ pc' = pc
    BY <1>1, <1>7 DEF StartRun, Finalise, FlushFails, Vanish, AfterRun
  <2>2. Listed' <=> Listed
    BY <2>1 DEF Listed
  <2> QED
    BY <1>2, <2>1, <2>2
<1>8. ~ (Return \/ FinishRun)
  BY DEF Return, FinishRun
<1>9. CASE Outage \/ Crash
  BY <1>9, RaiseTypes DEF Outage, Crash, TypeOK
<1>10. ~ (TakeFile \/ WorkerPublishes \/ Merge \/ PoolEnds \/ WorkerRaises \/ WorkerDies)
  BY <1>1 DEF TakeFile, WorkerPublishes, Merge, PoolEnds, WorkerRaises, WorkerDies
<1> QED
  BY <1>3, <1>4, <1>5, <1>6, <1>7, <1>8, <1>9, <1>10 DEF Next, Progress, ReadStep


-----------------------------------------------------------------------------
(* The futures of a parallel run *)

\* The files whose run failed or raised: each has an error.
Erred == {i \in 1..Count : work[i] \in {"failed", "noted"}}

\* What PoolInv says of a pool at work.
Futures ==
    /\ src.line = 0
    /\ \A i \in 1..Count :
         /\ work[i] \in {"none", "running"} => StoredOf(i) = << >>
         /\ work[i] = "published" => StoredOf(i) = FileRun(i).stored
         /\ work[i] = "merged" => StoredOf(i) = Items(i)
    /\ result.errors = Cardinality(Erred)
    /\ result.named = {i \in 1..Count : work[i] = "noted"}
    /\ published[Len(published)] \in Seq((1..Count) \X Nat)
    /\ result.succeeded <=> result.errors = 0
    /\ result.written = Len(Only(published[Len(published)], Merged \X Nat))

\* What a worker publishes is of its own file: the others' parts of the dataset
\* stay what they were, and so does the part that is merged.
LEMMA FuturesPublish ==
    ASSUME TypeOK, ControlInv, Futures, WorkerPublishes, Records' = Records
    PROVE  Futures'
<1> DEFINE n == Len(published)
           p == published[n]
           A == (1..Count) \X Nat
<1>1. PICK i \in Busy :
         /\ work[i] = "running"
         /\ published' = [published EXCEPT ![n] = @ \o FileRun(i).stored]
         /\ work' = [work EXCEPT ![i] = "published"]
  BY DEF WorkerPublishes
<1>2. UNCHANGED <<files, src, result>> /\ target.kind = "parallel"
  BY DEF WorkerPublishes, ControlInv
<1> DEFINE st == FileRun(i).stored
<1>3. /\ i \in 1..Count /\ i \in Nat /\ st \in Seq({i} \X Nat) /\ p \in Seq(A)
      /\ published \in Seq(Seq(Records)) /\ published # << >>
  BY <1>1, ItemsSeq, RunTypes DEF Busy, TypeOK, Futures
<1>4. {i} \X Nat \subseteq A /\ A \subseteq Records
  BY <1>2, <1>3 DEF Records
<1>5. Count' = Count /\ \A k : Items(k)' = Items(k) /\ FileRun(k)' = FileRun(k)
  BY <1>2, ItemsSame DEF Count
<1> HIDE DEF A, st
<1>6. st \in Seq(A) /\ p \o st \in Seq(A) /\ p \o st \in Seq(Records)
  <2>1. st \in Seq(A)
    BY <1>3, <1>4, SeqMonotonic
  <2>2. p \o st \in Seq(A)
    BY <1>3, <2>1, ConcatProperties
  <2> QED
    BY <1>4, <2>1, <2>2, SeqMonotonic
<1>7. published'[Len(published')] = p \o st
  <2> DEFINE e == p \o st
  <2>1. published' = [published EXCEPT ![n] = e] /\ e \in Seq(Records)
    BY <1>1, <1>6 DEF st
  <2> HIDE DEF e, p
  <2>2. Len(published') = n /\ published'[n] = e
    BY <1>3, <2>1, UpdateLast
  <2> QED
    BY <2>2 DEF e
<1> HIDE DEF n, p
<1>8. \A S : Only(p \o st, S) = Only(p, S) \o Only(st, S)
  <2> TAKE S
  <2>1. p \in Seq(A) /\ st \in Seq(A)
    BY <1>3, <1>6
  <2> QED
    BY <2>1, OnlyConcat
<1>9. \A S : Only(p, S) \in Seq(A)
  <2> TAKE S
  <2>1. A \intersect S \subseteq A /\ Only(p, S) \in Seq(A \intersect S)
    BY <1>3, OnlySeq
  <2> QED
    BY <2>1, SeqMonotonic
<1>10. \A S : ({i} \X Nat) \intersect S = {} => Only(p \o st, S) = Only(p, S)
  <2> TAKE S
  <2> HAVE ({i} \X Nat) \intersect S = {}
  <2>1. Only(st, S) = << >>
    BY <1>3, OnlyNone
  <2> QED
    BY <1>8, <1>9, <2>1, ConcatEmptySeq
<1>11. StoredOf(i)' = st
  <2>1. Only(st, {i} \X Nat) = st
    BY <1>3, OnlyAll
  <2>2. Only(p, {i} \X Nat) = << >>
    BY <1>1, <1>3 DEF Futures, StoredOf, p, n
  <2>3. << >> \o st = st
    BY <1>6, ConcatEmptySeq
  <2>4. Only(p \o st, {i} \X Nat) = st
    BY <1>8, <2>1, <2>2, <2>3
  <2> QED
    BY <1>7, <2>4 DEF StoredOf
<1>12. ASSUME NEW k \in 1..Count, k # i PROVE StoredOf(k)' = StoredOf(k)
  <2>1. ({i} \X Nat) \intersect ({k} \X Nat) = {}
    BY <1>12
  <2>2. Only(p \o st, {k} \X Nat) = Only(p, {k} \X Nat)
    BY <1>10, <2>1
  <2> QED
    BY <1>7, <2>2 DEF StoredOf, p, n
<1>13. \A k \in 1..Count : work'[k] = IF k = i THEN "published" ELSE work[k]
  BY <1>1 DEF TypeOK
<1>14. ASSUME NEW k \in 1..Count
       PROVE  /\ work'[k] \in {"none", "running"} => StoredOf(k)' = << >>
              /\ work'[k] = "published" => StoredOf(k)' = FileRun(k)'.stored
              /\ work'[k] = "merged" => StoredOf(k)' = Items(k)'
  <2>1. CASE k = i
    BY <1>5, <1>11, <1>13, <2>1 DEF st
  <2>2. CASE k # i
    BY <1>2, <1>5, <1>12, <1>13, <2>2 DEF Futures
  <2> QED
    BY <2>1, <2>2
<1>15. result'.written = Len(Only(p \o st, Merged' \X Nat))
  <2>1. Merged' = Merged /\ i \notin Merged
    BY <1>1, <1>5, <1>13 DEF Merged
  <2>2. ({i} \X Nat) \intersect (Merged \X Nat) = {}
    BY <2>1
  <2>3. Only(p \o st, Merged \X Nat) = Only(p, Merged \X Nat)
    BY <1>10, <2>2
  <2> QED
    BY <1>2, <2>1, <2>3 DEF Futures, p, n
<1>16. /\ Erred' = Erred
       /\ {k \in 1..Count' : work'[k] = "noted"} = {k \in 1..Count : work[k] = "noted"}
  BY <1>1, <1>5, <1>13 DEF Erred
<1> QED
  BY <1>2, <1>5, <1>6, <1>7, <1>14, <1>15, <1>16 DEF Futures, A


\* A result that is merged adds the records of one file more, and an error
\* unless its whole run went well.
LEMMA FuturesMerge ==
    ASSUME TypeOK, ControlInv, Futures, Merge
    PROVE  Futures'
<1> DEFINE p == published[Len(published)]
           A == (1..Count) \X Nat
<1>1. PICK i \in Busy :
         /\ work[i] = "published"
         /\ work' = [work EXCEPT ![i] = IF FileRun(i).ok THEN "merged" ELSE "failed"]
         /\ result' = [result EXCEPT !.written = @ + Len(StoredOf(i)),
                                     !.succeeded = @ /\ FileRun(i).ok,
                                     !.errors = IF FileRun(i).ok THEN @ ELSE @ + 1]
  BY DEF Merge
<1>2. UNCHANGED <<files, src, published>>
  BY DEF Merge
<1>3. i \in 1..Count /\ p \in Seq(A) /\ result \in PipelineResult /\ Count \in Nat
  BY LenProperties DEF Busy, TypeOK, Futures, Count
<1>4. /\ Count' = Count
      /\ \A k : Items(k)' = Items(k) /\ FileRun(k)' = FileRun(k) /\ StoredOf(k)' = StoredOf(k)
  BY <1>2, ItemsSame DEF Count, StoredOf
<1>5. \A k \in 1..Count : work'[k] = IF k # i THEN work[k]
                                   ELSE IF FileRun(i).ok THEN "merged" ELSE "failed"
  BY <1>1 DEF TypeOK
<1>6. /\ FileRun(i).ok \in BOOLEAN
      /\ FileRun(i).ok => StoredOf(i) = Items(i)
  BY <1>1, <1>3, ItemsSeq DEF TypeOK, Futures
<1>7. /\ result'.written = result.written + Len(StoredOf(i))
      /\ result'.succeeded = (result.succeeded /\ FileRun(i).ok)
      /\ result'.errors = (IF FileRun(i).ok THEN result.errors ELSE result.errors + 1)
      /\ result'.named = result.named
  BY <1>1, <1>3 DEF PipelineResult
<1>8. result'.errors = Cardinality(Erred')
  <2>1. i \notin Erred
    BY <1>1 DEF Erred
  <2>2. Erred' = IF FileRun(i).ok THEN Erred ELSE Erred \union {i}
    BY <1>3, <1>4, <1>5, <2>1 DEF Erred
  <2>3. IsFiniteSet(Erred)
    BY <1>3, NumbersFinite DEF Erred
  <2>4. Cardinality(Erred \union {i}) = Cardinality(Erred) + 1
    BY <2>1, <2>3, FS_AddElement
  <2> QED
    BY <1>7, <2>2, <2>4 DEF Futures
<1>9. result'.succeeded <=> result'.errors = 0
  <2>1. result.errors \in Nat
    BY <1>3 DEF PipelineResult
  <2>2. CASE FileRun(i).ok
    BY <1>7, <2>2 DEF Futures
  <2>3. CASE ~FileRun(i).ok
    <3>1. result'.errors = result.errors + 1
      BY <1>7, <2>3
    <3>2. result'.errors # 0
      BY <2>1, <3>1
    <3>3. ~ result'.succeeded
      BY <1>7, <2>3, Zenon
    <3> QED
      BY <3>2, <3>3
  <2> QED
    BY <2>2, <2>3
<1>10. ASSUME NEW k \in 1..Count
       PROVE  /\ work'[k] \in {"none", "running"} => StoredOf(k) = << >>
              /\ work'[k] = "published" => StoredOf(k) = FileRun(k).stored
              /\ work'[k] = "merged" => StoredOf(k) = Items(k)
  <2>1. CASE k = i
    BY <1>5, <1>6, <2>1
  <2>2. CASE k # i
    <3>1. work'[k] = work[k]
      BY <1>5, <2>2
    <3> QED
      BY <3>1 DEF Futures
  <2> QED
    BY <2>1, <2>2
<1>11. result'.written = Len(Only(p, Merged' \X Nat))
  <2>1. Merged' = Merged \union {i} /\ i \notin Merged
    BY <1>1, <1>3, <1>4, <1>5 DEF Merged
  <2>2. /\ (Merged \union {i}) \X Nat = (Merged \X Nat) \union ({i} \X Nat)
        /\ (Merged \X Nat) \intersect ({i} \X Nat) = {}
    BY <2>1
  <2>3. Len(Only(p, (Merged \X Nat) \union ({i} \X Nat)))
            = Len(Only(p, Merged \X Nat)) + Len(Only(p, {i} \X Nat))
    <3> DEFINE S == Merged \X Nat
               R == {i} \X Nat
    <3>1. S \intersect R = {}
      BY <2>2
    <3> HIDE DEF S, R, A, p
    <3>2. Len(Only(p, S \union R)) = Len(Only(p, S)) + Len(Only(p, R))
      BY <1>3, <3>1, OnlyUnion
    <3> QED
      BY <3>2 DEF S, R
  <2>4. result.written = Len(Only(p, Merged \X Nat)) /\ StoredOf(i) = Only(p, {i} \X Nat)
    BY DEF Futures, StoredOf
  <2> QED
    BY <1>7, <2>1, <2>2, <2>3, <2>4
<1>12. (1..Count)' = 1..Count /\ p' = p
  BY <1>2, <1>4
<1>13. ASSUME NEW k \in (1..Count)'
       PROVE  /\ work'[k] \in {"none", "running"} => StoredOf(k)' = << >>
              /\ work'[k] = "published" => StoredOf(k)' = FileRun(k)'.stored
              /\ work'[k] = "merged" => StoredOf(k)' = Items(k)'
  BY <1>4, <1>10, <1>12
<1>14. result'.named = {k \in (1..Count)' : work'[k] = "noted"}
  <2>1. \A k \in 1..Count : work'[k] = "noted" <=> work[k] = "noted"
    BY <1>1, <1>5
  <2>2. result.named = {k \in 1..Count : work[k] = "noted"}
    BY DEF Futures
  <2> QED
    BY <1>7, <1>12, <2>1, <2>2
<1> QED
  BY <1>2, <1>3, <1>4, <1>8, <1>9, <1>11, <1>13, <1>14 DEF Futures

\* An exception of a worker, or the end of a broken pool, names the files it
\* leaves behind.
LEMMA FuturesNote ==
    ASSUME TypeOK, Futures, UNCHANGED <<files, src, published>>,
           NEW failed \in SUBSET (1..Count), failed # {}, Note(failed),
           \A i \in failed : work[i] \in {"none", "running", "published"},
           \A i \in 1..Count : work'[i] = IF i \in failed THEN "noted" ELSE work[i]
    PROVE  Futures'
<1>1. /\ Count' = Count
      /\ \A k : Items(k)' = Items(k) /\ FileRun(k)' = FileRun(k) /\ StoredOf(k)' = StoredOf(k)
  BY ItemsSame DEF Count, StoredOf
<1>2. /\ result'.succeeded = FALSE /\ result'.errors = result.errors + Cardinality(failed)
      /\ result'.named = result.named \union failed
      /\ result'.written = result.written /\ result.errors \in Nat
  BY DEF Note, TypeOK, PipelineResult
<1>3. Merged' = Merged
  <2>1. \A i \in 1..Count : work'[i] \in {"merged", "failed"} <=> work[i] \in {"merged", "failed"}
    OBVIOUS
  <2> QED
    BY <1>1, <2>1 DEF Merged
<1>4. ASSUME NEW k \in 1..Count
      PROVE  /\ work'[k] \in {"none", "running"} => StoredOf(k) = << >>
             /\ work'[k] = "published" => StoredOf(k) = FileRun(k).stored
             /\ work'[k] = "merged" => StoredOf(k) = Items(k)
  <2>1. CASE k \in failed
    BY <1>2, <2>1
  <2>2. CASE k \notin failed
    BY <1>2, <2>2 DEF Futures
  <2> QED
    BY <2>1, <2>2
<1>5. result'.errors = Cardinality(Erred') /\ result'.errors # 0
  <2>1. Erred' = Erred \union failed /\ Erred \intersect failed = {}
    BY <1>1 DEF Erred
  <2>2. Count \in Nat
    BY LenProperties DEF TypeOK, Count
  <2>3. /\ IsFiniteSet(Erred) /\ Cardinality(Erred) \in Nat
        /\ IsFiniteSet(failed) /\ Cardinality(failed) \in Nat
    BY <2>2, NumbersFinite DEF Erred
  <2>4. /\ Cardinality(Erred \union failed)
              = Cardinality(Erred) + Cardinality(failed) - Cardinality(Erred \intersect failed)
        /\ Cardinality({}) = 0 /\ Cardinality(failed) # 0
    BY <2>3, FS_Union, FS_EmptySet
  <2>5. Cardinality(Erred \union failed) = Cardinality(Erred) + Cardinality(failed)
    <3>1. Cardinality(Erred \intersect failed) = 0
      BY <2>1, <2>4
    <3> QED
      BY <2>3, <2>4, <3>1
  <2>6. result'.errors = Cardinality(Erred) + Cardinality(failed)
    BY <1>2 DEF Futures
  <2>7. Cardinality(Erred) + Cardinality(failed) # 0
    BY <2>3, <2>4
  <2>8. result'.errors # 0
    BY <2>6, <2>7
  <2>9. result'.errors = Cardinality(Erred')
    BY <2>1, <2>5, <2>6
  <2> QED
    BY <2>8, <2>9
<1>6. (1..Count)' = 1..Count
  BY <1>1
<1>7. ASSUME NEW k \in (1..Count)'
      PROVE  /\ work'[k] \in {"none", "running"} => StoredOf(k)' = << >>
             /\ work'[k] = "published" => StoredOf(k)' = FileRun(k)'.stored
             /\ work'[k] = "merged" => StoredOf(k)' = Items(k)'
  BY <1>1, <1>4, <1>6
<1>8. result'.named = {k \in (1..Count)' : work'[k] = "noted"}
  <2>1. result.named = {k \in 1..Count : work[k] = "noted"}
    BY DEF Futures
  <2> QED
    BY <1>2, <1>6, <2>1
<1> QED
  BY <1>1, <1>2, <1>3, <1>5, <1>7, <1>8 DEF Futures

\* A file that is removed is none whose run is under way.
LEMMA FuturesVanish ==
    ASSUME TypeOK, Futures, Vanish
    PROVE  Futures'
<1>1. PICK j \in 1..Count :
         /\ work[j] \notin {"running", "published"}
         /\ files' = [files EXCEPT ![j].cond = "gone"]
  BY DEF Vanish
<1>2. UNCHANGED <<src, published, result, work>>
  BY DEF Vanish
<1>3. /\ Count' = Count
      /\ \A k \in 1..Count : /\ Items(k)' = Items(k)
                             /\ k # j => FileRun(k)' = FileRun(k)
  BY <1>1, ItemsVanished DEF TypeOK
<1>4. \A k : StoredOf(k)' = StoredOf(k)
  BY <1>2 DEF StoredOf
<1>5. Merged' = Merged /\ Erred' = Erred /\ (1..Count)' = 1..Count
  BY <1>2, <1>3 DEF Merged, Erred
<1>6. ASSUME NEW k \in (1..Count)'
      PROVE  /\ work'[k] \in {"none", "running"} => StoredOf(k)' = << >>
             /\ work'[k] = "published" => StoredOf(k)' = FileRun(k)'.stored
             /\ work'[k] = "merged" => StoredOf(k)' = Items(k)'
  <2>1. k \in 1..Count
    BY <1>5
  <2>2. work[k] = "published" => FileRun(k)' = FileRun(k)
    BY <1>1, <1>3, <2>1
  <2> QED
    BY <1>2, <1>3, <1>4, <2>1, <2>2 DEF Futures
<1> QED
  BY <1>2, <1>3, <1>5, <1>6 DEF Futures

\* A worker takes a file of which nothing is published yet.
LEMMA FuturesTake ==
    ASSUME TypeOK, Futures, TakeFile
    PROVE  Futures'
<1>1. PICK i \in 1..Count : work[i] = "none" /\ work' = [work EXCEPT ![i] = "running"]
  BY DEF TakeFile
<1>2. UNCHANGED <<files, src, published, result>>
  BY DEF TakeFile
<1>3. /\ Count' = Count
      /\ \A k : Items(k)' = Items(k) /\ FileRun(k)' = FileRun(k) /\ StoredOf(k)' = StoredOf(k)
  BY <1>2, ItemsSame DEF Count, StoredOf
<1>4. \A k \in 1..Count : work'[k] = IF k = i THEN "running" ELSE work[k]
  BY <1>1 DEF TypeOK
<1>5. /\ Merged' = Merged /\ Erred' = Erred /\ (1..Count)' = 1..Count
      /\ {k \in 1..Count : work'[k] = "noted"} = {k \in 1..Count : work[k] = "noted"}
  BY <1>1, <1>3, <1>4 DEF Merged, Erred
<1>6. ASSUME NEW k \in (1..Count)'
      PROVE  /\ work'[k] \in {"none", "running"} => StoredOf(k)' = << >>
             /\ work'[k] = "published" => StoredOf(k)' = FileRun(k)'.stored
             /\ work'[k] = "merged" => StoredOf(k)' = Items(k)'
  <2>1. k \in 1..Count
    BY <1>5
  <2>2. CASE k = i
    BY <1>1, <1>2, <1>3, <1>4, <2>1, <2>2 DEF Futures
  <2>3. CASE k # i
    <3>1. work'[k] = work[k]
      BY <1>4, <2>1, <2>3
    <3> QED
      BY <1>2, <1>3, <2>1, <3>1 DEF Futures
  <2> QED
    BY <2>2, <2>3
<1> QED
  BY <1>2, <1>3, <1>5, <1>6 DEF Futures

\* A run over the files begins with nothing published and nothing merged.
LEMMA FuturesStart ==
    ASSUME TypeOK, target.kind = "parallel", Start, pc' = "pool"
    PROVE  Futures'
<1>1. /\ published' = Append(published, << >>) /\ src' = AtStart(<< >>) /\ result' = Fresh
      /\ work' = [i \in 1..Count |-> "none"] /\ files' = files
  BY DEF Start, Raise
<1>2. published'[Len(published')] = << >>
  <2>1. << >> \in Seq(Records)
    BY EmptySeq
  <2> QED
    BY <1>1, <2>1, AppendProperties DEF TypeOK
<1>3. \A S : Only(<< >>, S) = << >>
  BY OnlyEmpty
<1>4. \A k : StoredOf(k)' = << >>
  BY <1>2, <1>3 DEF StoredOf
<1>5. (1..Count)' = 1..Count
  BY <1>1 DEF Count
<1>6. Len(Only(<< >>, Merged' \X Nat)) = 0 /\ << >> \in Seq((1..Count) \X Nat)
  BY <1>3, EmptySeq
<1>7. /\ src'.line = 0 /\ result'.errors = 0 /\ result'.named = {}
      /\ result'.succeeded /\ result'.written = 0
  BY <1>1 DEF AtStart, Fresh
<1>8. Erred' = {} /\ {k \in (1..Count)' : work'[k] = "noted"} = {} /\ Cardinality({}) = 0
  BY <1>1, <1>5, FS_EmptySet DEF Erred
<1> QED
  BY <1>1, <1>2, <1>4, <1>5, <1>6, <1>7, <1>8 DEF Futures


\* Every step keeps the futures of a parallel run accounted for.
LEMMA PoolStep ==
    ASSUME TypeOK, ControlInv, PoolInv, Next
    PROVE  PoolInv'
<1>0. target' = target /\ Records' = Records
  BY TargetConstant
<1> SUFFICES ASSUME target.kind = "parallel", pc' \in {"pool", "done"}
             PROVE  /\ Futures'
                    /\ pc' = "done" =>
                           \A i \in (1..Count)' : work'[i] \in {"merged", "failed", "noted"}
  BY <1>0 DEF PoolInv, Futures, Erred
<1>1. /\ pc \in {"start", "pool", "done", "failed", "lost"}
      /\ pc = "pool" => Futures
  BY DEF ControlInv, PoolInv, Futures, Erred
<1>2. CASE Start
  <2>1. pc' = "pool"
    BY <1>2, RaiseTypes DEF Start, TypeOK
  <2> QED
    BY <1>2, <2>1, FuturesStart
<1>3. CASE TakeFile
  BY <1>1, <1>3, FuturesTake DEF TakeFile
<1>4. CASE WorkerPublishes
  BY <1>0, <1>1, <1>4, FuturesPublish DEF WorkerPublishes
<1>5. CASE Merge
  BY <1>1, <1>5, FuturesMerge DEF Merge
<1>6. CASE WorkerRaises
  <2>1. pc = "pool" /\ UNCHANGED <<files, src, published>>
    BY <1>6 DEF WorkerRaises
  <2>2. ~Raise
    BY RaiseTypes DEF TypeOK
  <2>3. PICK i \in Busy : work' = [work EXCEPT ![i] = "noted"] /\ Note({i}) /\ UNCHANGED pc
    BY <1>6, <2>2 DEF WorkerRaises
  <2>4. /\ {i} \in SUBSET (1..Count) /\ {i} # {}
        /\ \A k \in {i} : work[k] \in {"none", "running", "published"}
        /\ \A k \in 1..Count : work'[k] = IF k \in {i} THEN "noted" ELSE work[k]
    BY <2>3 DEF Busy, TypeOK
  <2>5. Futures'
    BY <1>1, <2>1, <2>3, <2>4, FuturesNote
  <2> QED
    BY <2>1, <2>3, <2>5
<1>7. CASE WorkerDies
  <2> DEFINE failed == {i \in 1..Count : work[i] \in {"none", "running", "published"}}
  <2>0. ~Raise
    BY RaiseTypes DEF TypeOK
  <2>1. /\ pc = "pool" /\ pc' = pc /\ UNCHANGED <<files, src, published>> /\ Busy # {}
        /\ work' = [i \in 1..Count |-> IF i \in failed THEN "noted" ELSE work[i]]
        /\ Note(failed)
    BY <1>7, <2>0 DEF WorkerDies
  <2>2. /\ failed \in SUBSET (1..Count) /\ failed # {}
        /\ \A i \in failed : work[i] \in {"none", "running", "published"}
    BY <2>1 DEF Busy
  <2> HIDE DEF failed
  <2>3. \A i \in 1..Count : work'[i] = IF i \in failed THEN "noted" ELSE work[i]
    BY <2>1
  <2>4. Futures'
    BY <1>1, <2>1, <2>2, <2>3, FuturesNote
  <2> QED
    BY <2>1, <2>4
<1>8. CASE PoolEnds
  <2>1. /\ pc = "pool" /\ UNCHANGED <<files, src, published, work>>
        /\ result' = [result EXCEPT !.ended = TRUE]
        /\ \A i \in 1..Count : work[i] \in {"merged", "failed", "noted"}
    BY <1>8 DEF PoolEnds, jobVars
  <2>2. /\ result'.succeeded = result.succeeded /\ result'.errors = result.errors
        /\ result'.written = result.written /\ result'.named = result.named
    BY <2>1 DEF TypeOK, PipelineResult
  <2>3. /\ (1..Count)' = 1..Count /\ Merged' = Merged /\ Erred' = Erred
        /\ \A k : Items(k)' = Items(k) /\ FileRun(k)' = FileRun(k) /\ StoredOf(k)' = StoredOf(k)
    BY <2>1, ItemsSame DEF Count, StoredOf, Merged, Erred
  <2>4. Futures'
    BY <1>1, <2>1, <2>2, <2>3 DEF Futures
  <2> QED
    BY <2>1, <2>3, <2>4
<1>9. CASE Vanish
  <2>1. pc = "pool" /\ pc' = pc
    BY <1>1, <1>9 DEF Vanish
  <2> QED
    BY <1>1, <1>9, <2>1, FuturesVanish
<1>10. CASE Outage \/ Crash
  BY <1>10, RaiseTypes DEF Outage, Crash, TypeOK
<1>11. ~ReadStep
  BY DEF ReadStep, OpenFile, ReadLine, CloseFile, FilesEnd, Fetch, FetchFails, Redirected,
     ReadItem, PageEnds, PagesEnd, ReadRow, DatabaseFails, Reads
<1>12. ~ (StartRun \/ BuildSource \/ Sample \/ Finalise \/ FlushFails \/ FinishRun \/ Return)
  BY <1>1 DEF StartRun, BuildSource, Sample, Finalise, FlushFails, FinishRun, Return
<1> QED
  BY <1>2, <1>3, <1>4, <1>5, <1>6, <1>7, <1>8, <1>9, <1>10, <1>11, <1>12
     DEF Next, Progress, ReadStep

\* The counters of a directory source and the futures of a parallel run are
\* accounted for in every reachable state.
LEMMA AccountsHold == Spec => [](SourceInv /\ PoolInv)
<1>1. Init => SourceInv /\ PoolInv
  BY DEF Init, SourceInv, PoolInv
<1>2. TypeOK /\ ControlInv /\ SourceInv /\ PoolInv /\ [Next]_vars => (SourceInv /\ PoolInv)'
  <2> SUFFICES ASSUME TypeOK, ControlInv, SourceInv, PoolInv, [Next]_vars
               PROVE  SourceInv' /\ PoolInv'
    OBVIOUS
  <2>1. CASE Next
    BY <2>1, SourceStep, PoolStep
  <2>2. CASE UNCHANGED vars
    <3>1. SourceInv'
      BY <2>2 DEF vars, SourceInv
    <3>2. /\ (1..Count)' = 1..Count /\ Merged' = Merged
          /\ \A k : Items(k)' = Items(k) /\ FileRun(k)' = FileRun(k) /\ StoredOf(k)' = StoredOf(k)
      BY <2>2, ItemsSame DEF vars, Count, StoredOf, Merged
    <3>3. PoolInv'
      BY <2>2, <3>2 DEF vars, PoolInv
    <3> QED
      BY <3>1, <3>3
  <2> QED
    BY <2>1, <2>2
<1> QED
  BY <1>1, <1>2, TypesHold, PTL DEF Spec

\* No file disappears quietly: a directory source counts every file it skipped
\* and every record it yielded; a parallel run succeeds exactly when it has no
\* errors, names the files whose worker raised or died, has an error more for
\* each other file of which something is missing, and never counts more records
\* than it published.
THEOREM FilesAccountedHolds == Spec => []FilesAccounted
<1>1. TypeOK /\ SourceInv /\ PoolInv => FilesAccounted
  <2> SUFFICES ASSUME TypeOK, SourceInv, PoolInv PROVE FilesAccounted
    OBVIOUS
  <2>1. ASSUME target.kind = "dir", pc = "finish"
        PROVE  stats.errors = Cardinality(src.skipped) /\ stats.records = Len(got)
    <3>1. Len(got) = stats.records + 0 /\ stats.errors = Cardinality(src.skipped)
      BY <2>1 DEF SourceInv
    <3>2. stats.records \in Nat
      BY DEF TypeOK, SourceStats
    <3> QED
      BY <3>1, <3>2
  <2>2. ASSUME target.kind = "parallel", pc = "done"
        PROVE  /\ Cardinality({i \in (1..Count) \ result.named : StoredOf(i) # Items(i)})
                      <= result.errors - Cardinality(result.named)
               /\ result.succeeded = (result.errors = 0)
               /\ result.succeeded => result.written = Len(published[Len(published)])
               /\ result.written <= Len(published[Len(published)])
    <3> DEFINE p == published[Len(published)]
               A == (1..Count) \X Nat
    <3>1. /\ \A i \in 1..Count :
               /\ work[i] \in {"merged", "failed", "noted"}
               /\ work[i] = "merged" => StoredOf(i) = Items(i)
          /\ result.errors = Cardinality(Erred)
          /\ result.named = {i \in 1..Count : work[i] = "noted"}
          /\ p \in Seq(A)
          /\ result.succeeded <=> result.errors = 0
          /\ result.written = Len(Only(p, Merged \X Nat))
      BY <2>2 DEF PoolInv, Erred
    <3>2. result.succeeded = (result.errors = 0)
      BY <3>1, Zenon DEF TypeOK, PipelineResult
    <3>5. Cardinality({i \in (1..Count) \ result.named : StoredOf(i) # Items(i)})
              <= result.errors - Cardinality(result.named)
      <4> DEFINE missing == {i \in (1..Count) \ result.named : StoredOf(i) # Items(i)}
                 named == result.named
      <4>1. missing \subseteq Erred \ named /\ named \subseteq Erred
        BY <3>1 DEF Erred
      <4>2. Count \in Nat
        BY LenProperties DEF TypeOK, Count
      <4>3. IsFiniteSet(Erred) /\ Cardinality(Erred) \in Nat
        BY <4>2, NumbersFinite DEF Erred
      <4> HIDE DEF missing, named
      <4>4. /\ IsFiniteSet(Erred \ named)
            /\ Cardinality(Erred \ named) = Cardinality(Erred) - Cardinality(Erred \intersect named)
        BY <4>3, FS_Difference
      <4>5. Erred \intersect named = named
        BY <4>1
      <4>6. Cardinality(missing) <= Cardinality(Erred \ named)
        BY <4>1, <4>4, FS_Subset
      <4>7. Cardinality(missing) <= Cardinality(Erred) - Cardinality(named)
        BY <4>4, <4>5, <4>6
      <4> QED
        BY <3>1, <4>7 DEF missing, named
    <3>3. result.written <= Len(p)
      <4> HIDE DEF p, A
      <4> QED
        BY <3>1, OnlyLength
    <3>4. ASSUME result.succeeded PROVE result.written = Len(p)
      <4>0. Erred = {}
        <5>1. Count \in Nat
          BY LenProperties DEF TypeOK, Count
        <5>2. IsFiniteSet(Erred)
          BY <5>1, NumbersFinite DEF Erred
        <5> QED
          BY <3>1, <3>4, <5>2, FS_EmptySet
      <4>1. Merged = 1..Count
        BY <3>1, <4>0 DEF Merged, Erred
      <4> HIDE DEF p
      <4>2. Only(p, A) = p
        BY <3>1, OnlyAll
      <4> QED
        BY <3>1, <4>1, <4>2
    <3> QED
      BY <3>2, <3>3, <3>4, <3>5
  <2> QED
    BY <2>1, <2>2 DEF FilesAccounted
<1> QED
  BY <1>1, AccountsHold, TypesHold, PTL


-----------------------------------------------------------------------------
(* The order of what a source yields *)

\* The fields of an endpoint and of a table.
LEMMA TargetFields ==
    ASSUME TypeOK
    PROVE  /\ target.kind = "api" => target.pages \in Seq(Seq({"rec", "junk"}))
           /\ target.kind = "db" => target.rows \in Seq(Nat)
<1> DEFINE T1 == [kind : {"file", "dir"}, backend : {"thread", "celery"}, path : Paths]
           T2 == [kind : {"parallel"}, backend : {"thread"}, path : {"ok"}, workers : Requested]
           T3 == [kind : {"api"}, backend : {"cli"}, pages : Servers,
                  mode : {"single", "page", "cursor", "both"}]
           T4 == [kind : {"db"}, backend : {"cli"}, table : BOOLEAN, query : BOOLEAN,
                  rows : Tables]
<1>0. target \in T1 \/ target \in T2 \/ target \in T3 \/ target \in T4
  BY DEF TypeOK, Targets
<1>1. Servers \subseteq Seq(Seq({"rec", "junk"})) /\ Tables \subseteq Seq(Nat)
  BY IngestAssumption
<1>2. CASE target \in T1 \/ target \in T2
  <2>1. target.kind \in {"file", "dir", "parallel"}
    BY <1>2
  <2> QED
    BY <2>1
<1>3. CASE target \in T3
  <2>1. target.kind = "api" /\ target.pages \in Servers
    BY <1>3
  <2> QED
    BY <1>1, <2>1
<1>4. CASE target \in T4
  <2>1. target.kind = "db" /\ target.rows \in Tables
    BY <1>4
  <2> QED
    BY <1>1, <2>1
<1> QED
  BY <1>0, <1>2, <1>3, <1>4

\* The query selects a number of rows.
LEMMA SelectedLength ==
    ASSUME TypeOK, target.kind = "db"
    PROVE  Len(Selected(target)) \in Nat
<1>1. target.rows \in Seq(Nat)
  BY TargetFields
<1>2. CASE target.query
  <2>1. Selected(target) = target.rows
    BY <1>2 DEF Selected
  <2> QED
    BY <1>1, <2>1, LenProperties
<1>3. CASE ~target.query
  <2> DEFINE inRange == {u \in Since..(Until - 1) :
                           \E k \in 1..Len(target.rows) : target.rows[k] = u}
             ranked(k) == CHOOSE u \in inRange : Cardinality({v \in inRange : v < u}) = k - 1
             n == Min2(Cardinality(inRange), RowLimit)
  <2>1. Since \in Nat /\ Until \in Nat /\ RowLimit \in Nat
    BY IngestAssumption
  <2>2. IsFiniteSet(Since..(Until - 1))
    BY <2>1, FS_Interval
  <2>3. inRange \subseteq Since..(Until - 1)
    OBVIOUS
  <2>4. Selected(target) = [k \in 1..n |-> ranked(k)]
    BY <1>3 DEF Selected
  <2> HIDE DEF inRange
  <2>5. IsFiniteSet(inRange) /\ Cardinality(inRange) \in Nat
    BY <2>2, <2>3, FS_Subset, FS_CardinalityType
  <2>6. n \in Nat
    BY <2>1, <2>5 DEF Min2
  <2> HIDE DEF n, ranked
  <2>7. Len([k \in 1..n |-> ranked(k)]) = n
    BY <2>6, SMT
  <2> QED
    BY <2>4, <2>6, <2>7
<1> QED
  BY <1>2, <1>3

\* Which parts a target has, and how many.
LEMMA PartsLength ==
    ASSUME TypeOK, target.kind # "parallel"
    PROVE  /\ Len(Parts) \in Nat
           /\ target.kind \in {"file", "dir"} =>
                  Parts = FileParts /\ Len(Parts) = Len(src.list)
           /\ target.kind = "api" =>
                  /\ Parts = PageParts /\ Len(target.pages) \in Nat
                  /\ Len(Parts) <= Len(target.pages) /\ Len(Parts) <= MaxPages
                  /\ target.mode = "single" => Len(Parts) <= 1
                  /\ \A k \in Nat \ {0} :
                       k <= Len(target.pages) /\ k <= MaxPages
                           /\ (target.mode = "single" => k = 1) => k <= Len(Parts)
           /\ target.kind = "db" => Parts = RowParts /\ Len(Parts) = Len(Selected(target))
<1>0. target.kind \in {"file", "dir", "api", "db"}
  BY Backends
<1>1. CASE target.kind \in {"file", "dir"}
  <2>1. src.list \in Seq(Nat)
    BY DEF TypeOK, Positions
  <2>2. Len(src.list) \in Nat
    BY <2>1, LenProperties
  <2>3. Parts = FileParts
    BY <1>1 DEF Parts
  <2>4. Len(FileParts) = Len(src.list)
    <3> DEFINE n == Len(src.list)
               part(k) == IF src.list[k] \in src.skipped THEN << >> ELSE Items(src.list[k])
    <3>1. FileParts = [k \in 1..n |-> part(k)] /\ n \in Nat
      BY <2>2 DEF FileParts
    <3> HIDE DEF n, part
    <3>2. Len([k \in 1..n |-> part(k)]) = n
      BY <3>1, SMT
    <3> QED
      BY <3>1, <3>2 DEF n
  <2> QED
    BY <1>1, <2>2, <2>3, <2>4
<1>2. CASE target.kind = "api"
  <2> DEFINE p == Len(target.pages)
             most == IF target.mode = "single" THEN 1 ELSE MaxPages
             part(k) == IF \E m \in 1..k : target.pages[m] = << >> THEN << >>
                        ELSE Entries(k, Len(target.pages[k]), RecordsOn(target.pages[k]))
  <2>1. p \in Nat
    BY <1>2, TargetFields, LenProperties
  <2>2. MaxPages \in Nat \ {0}
    BY IngestAssumption
  <2>3. Parts = PageParts
    BY <1>2 DEF Parts
  <2>4. PageParts = [k \in 1..Min2(p, most) |-> part(k)]
    BY DEF PageParts
  <2>5. most \in Nat /\ most <= MaxPages /\ (target.mode = "single" => most <= 1)
    BY <2>2
  <2>5a. target.mode # "single" => most = MaxPages
    OBVIOUS
  <2> HIDE DEF p, most, part
  <2>6. /\ Min2(p, most) \in Nat /\ Min2(p, most) <= p /\ Min2(p, most) <= most
        /\ \A k \in Nat : k <= p /\ k <= most => k <= Min2(p, most)
    BY <2>1, <2>5 DEF Min2
  <2>7. Len(Parts) = Min2(p, most)
    <3> DEFINE n == Min2(p, most)
    <3> HIDE DEF n
    <3>1. n \in Nat => Len([k \in 1..n |-> part(k)]) = n
      BY SMT
    <3> QED
      BY <2>3, <2>4, <2>6, <3>1 DEF n
  <2>8. Min2(p, most) <= MaxPages /\ (target.mode = "single" => Min2(p, most) <= 1)
    BY <2>2, <2>5, <2>6
  <2>9. ASSUME NEW k \in Nat \ {0}, k <= p, k <= MaxPages, target.mode = "single" => k = 1
        PROVE  k <= Min2(p, most)
    <3>1. CASE target.mode = "single"
      <4>1. most = 1
        BY <3>1 DEF most
      <4> QED
        BY <2>6, <2>9, <3>1, <4>1
    <3>2. CASE target.mode # "single"
      BY <2>5a, <2>6, <2>9, <3>2
    <3> QED
      BY <3>1, <3>2
  <2> QED
    BY <1>2, <2>1, <2>3, <2>6, <2>7, <2>8, <2>9 DEF p
<1>3. CASE target.kind = "db"
  <2> DEFINE n == Len(Selected(target))
             part(k) == <<<<0, Selected(target)[k]>>>>
  <2>1. n \in Nat
    BY <1>3, SelectedLength
  <2>2. Parts = [k \in 1..n |-> part(k)] /\ Parts = RowParts
    BY <1>3 DEF Parts, RowParts
  <2> HIDE DEF n, part
  <2>3. Len([k \in 1..n |-> part(k)]) = n
    BY <2>1, SMT
  <2> QED
    BY <1>3, <2>1, <2>2, <2>3 DEF n
<1> QED
  BY <1>0, <1>1, <1>2, <1>3

\* The part of a file, of a page and of a row.
LEMMA PartIs ==
    ASSUME TypeOK, target.kind # "parallel", NEW k \in 1..Len(Parts)
    PROVE  /\ target.kind \in {"file", "dir"} =>
                  Parts[k] = IF src.list[k] \in src.skipped THEN << >> ELSE Items(src.list[k])
           /\ target.kind = "api" =>
                  Parts[k] = IF \E m \in 1..k : target.pages[m] = << >> THEN << >>
                             ELSE Entries(k, Len(target.pages[k]), RecordsOn(target.pages[k]))
           /\ target.kind = "db" => Parts[k] = <<<<0, Selected(target)[k]>>>>
<1>1. CASE target.kind \in {"file", "dir"}
  <2>1. Parts = FileParts /\ k \in 1..Len(src.list)
    BY <1>1, PartsLength
  <2> QED
    BY <1>1, <2>1 DEF FileParts
<1>2. CASE target.kind = "api"
  <2>1. Parts = PageParts
    BY <1>2, PartsLength
  <2> DEFINE n == Min2(Len(target.pages), IF target.mode = "single" THEN 1 ELSE MaxPages)
  <2>2. k \in 1..n
    <3>1. Len(target.pages) \in Nat
      BY <1>2, PartsLength
    <3>2. n \in Nat
      BY <3>1, IngestAssumption DEF Min2
    <3> DEFINE part(j) == IF \E m \in 1..j : target.pages[m] = << >> THEN << >>
                          ELSE Entries(j, Len(target.pages[j]), RecordsOn(target.pages[j]))
    <3>3. PageParts = [j \in 1..n |-> part(j)]
      BY DEF PageParts
    <3> HIDE DEF n, part
    <3>4. Len([j \in 1..n |-> part(j)]) = n
      BY <3>2, SMT
    <3> QED
      BY <2>1, <3>3, <3>4
  <2>3. PageParts[k] = IF \E m \in 1..k : target.pages[m] = << >> THEN << >>
                       ELSE Entries(k, Len(target.pages[k]), RecordsOn(target.pages[k]))
    BY <2>2 DEF PageParts
  <2> QED
    BY <1>2, <2>1, <2>3
<1>3. CASE target.kind = "db"
  <2>1. Parts = RowParts /\ k \in 1..Len(Selected(target))
    BY <1>3, PartsLength
  <2> QED
    BY <1>3, <2>1 DEF RowParts
<1>4. target.kind \in {"file", "dir", "api", "db"}
  BY Backends
<1> QED
  BY <1>1, <1>2, <1>3, <1>4

\* Parts hold records there can be of the target.
LEMMA PartsSeq ==
    ASSUME TypeOK, PositionInv, target.kind # "parallel"
    PROVE  \A k \in 1..Len(Parts) : Parts[k] \in Seq(Records)
<1> SUFFICES ASSUME NEW k \in 1..Len(Parts) PROVE Parts[k] \in Seq(Records)
  OBVIOUS
<1>0. target.kind \in {"file", "dir", "api", "db"} /\ << >> \in Seq(Records)
  BY Backends, EmptySeq
<1>1. ASSUME target.kind # "db", NEW i \in Nat, NEW s \in Seq({i} \X Nat)
      PROVE  s \in Seq(Records)
  <2>1. {i} \X Nat \subseteq Records
    BY <1>1 DEF Records
  <2> QED
    BY <1>1, <2>1, SeqMonotonic
<1>2. CASE target.kind \in {"file", "dir"}
  <2> DEFINE i == src.list[k]
  <2>1. i \in 1..Count /\ files \in Seq(Files)
    <3>1. k \in 1..Len(src.list)
      BY <1>2, PartsLength
    <3> QED
      BY <1>2, <3>1 DEF PositionInv, TypeOK
  <2> HIDE DEF i
  <2>2. Items(i) \in Seq({i} \X Nat) /\ i \in Nat
    BY <2>1, ItemsSeq
  <2>3. Items(i) \in Seq(Records)
    BY <1>1, <1>2, <2>2
  <2> QED
    BY <1>0, <1>2, <2>3, PartIs DEF i
<1>3. CASE target.kind = "api"
  <2>1. target.pages \in Seq(Seq({"rec", "junk"}))
    BY <1>3, TargetFields
  <2>2. k \in Nat /\ k \in 1..Len(target.pages)
    <3>1. Len(target.pages) \in Nat /\ Len(Parts) <= Len(target.pages) /\ Len(Parts) \in Nat
      BY <1>3, PartsLength
    <3> QED
      BY <3>1
  <2>3. Len(target.pages[k]) \in Nat
    BY <2>1, <2>2, ElementOfSeq, LenProperties
  <2>4. Entries(k, Len(target.pages[k]), RecordsOn(target.pages[k])) \in Seq({k} \X Nat)
    BY <2>3, EntriesSeq
  <2>5. Entries(k, Len(target.pages[k]), RecordsOn(target.pages[k])) \in Seq(Records)
    BY <1>1, <1>3, <2>2, <2>4
  <2> QED
    BY <1>0, <1>3, <2>5, PartIs
<1>4. CASE target.kind = "db"
  <2>1. k \in 1..Len(Selected(target)) /\ Parts[k] = <<<<0, Selected(target)[k]>>>>
    BY <1>4, PartsLength, PartIs
  <2>2. <<0, Selected(target)[k]>> \in Records
    BY <1>4, <2>1 DEF Records
  <2> DEFINE e == <<0, Selected(target)[k]>>
  <2> HIDE DEF e
  <2>3. e \in Records => <<e>> \in Seq(Records)
    OBVIOUS
  <2> QED
    BY <2>1, <2>2, <2>3 DEF e
<1> QED
  BY <1>0, <1>2, <1>3, <1>4


\* The part that is open is a beginning of the next part, and all of it when
\* its lines or items have been read.
LEMMA OpenPartBegins ==
    ASSUME TypeOK, YieldInv, PositionInv, target.kind # "parallel", ~ src.strayed, src.line > 0
    PROVE  /\ src.at \in 1..Len(Parts) /\ OpenPart \in Seq(Records)
           /\ Begins(OpenPart, Parts[src.at], Records)
           /\ target.kind \in {"file", "dir"} /\ src.line > Len(Visible(files[src.list[src.at]]))
                 => Parts[src.at] = OpenPart
           /\ target.kind = "api" /\ src.line > Len(target.pages[src.at])
                 => Parts[src.at] = OpenPart
<1>0. src.at \in Nat \ {0} /\ src.line \in Nat /\ Len(Parts) \in Nat
  BY PartsLength DEF TypeOK, Positions
<1>1. src.at \in 1..Len(Parts)
  BY <1>0 DEF YieldInv
<1>2. target.kind \in {"file", "dir", "api"}
  BY Backends DEF PositionInv
<1>3. ASSUME NEW i \in Nat, NEW n \in Nat, NEW S, src.line <= n + 1,
             Parts[src.at] = Entries(i, n, S), OpenPart = Entries(i, src.line - 1, S)
      PROVE  /\ OpenPart \in Seq(Records)
             /\ Begins(OpenPart, Parts[src.at], Records)
             /\ src.line > n => Parts[src.at] = OpenPart
  <2> DEFINE m == src.line - 1
  <2>1. m \in Nat /\ m <= n /\ (src.line > n => m = n)
    <3> DEFINE l == src.line
    <3>1. l \in Nat /\ l > 0 /\ l <= n + 1 /\ m = l - 1
      BY <1>0, <1>3
    <3> HIDE DEF l
    <3> QED
      BY <3>1 DEF l
  <2>2. {i} \X Nat \subseteq Records
    <3>1. target.kind # "db"
      BY <1>2
    <3> QED
      BY <3>1 DEF Records
  <2> HIDE DEF m
  <2>a. Parts[src.at] = Entries(i, n, S) /\ OpenPart = Entries(i, m, S)
    BY <1>3 DEF m
  <2>3. OpenPart \in Seq({i} \X Nat)
    BY <2>a, <2>1, EntriesSeq
  <2>4. OpenPart \in Seq(Records)
    BY <2>2, <2>3, SeqMonotonic
  <2>5. Begins(OpenPart, Parts[src.at], Records)
    <3>1. Begins(Entries(i, m, S), Entries(i, n, S), Records)
      BY <2>1, <2>2, EntriesBeginning
    <3> QED
      BY <2>a, <3>1
  <2>7. src.line > n => Parts[src.at] = OpenPart
    BY <2>a, <2>1
  <2> QED
    BY <2>4, <2>5, <2>7
<1>4. CASE target.kind \in {"file", "dir"}
  <2> DEFINE i == src.list[src.at]
             n == Len(Visible(files[i]))
  <2>1. src.at \in 1..Len(src.list)
    BY <1>1, <1>4, PartsLength
  <2>2. i \in 1..Count /\ i \notin src.skipped /\ src.line <= n + 1
    <3>1. src.at \in src.at..Len(src.list)
      BY <2>1
    <3> QED
      BY <1>4, <2>1, <3>1 DEF PositionInv
  <2>3. n \in Nat /\ i \in Nat
    <3>1. files[i] \in Files
      BY <2>2, ElementOfSeq DEF TypeOK, Count
    <3> QED
      BY <2>2, <3>1, VisibleLength
  <2>4. Parts[src.at] = Items(i)
    BY <1>1, <1>4, <2>2, PartIs
  <2>5. Items(i) = Entries(i, n, TakenLines(files[i]))
    BY DEF Items
  <2>6. OpenPart = Entries(i, src.line - 1, TakenLines(files[i]))
    BY <1>0, <1>4 DEF OpenPart
  <2> DEFINE S == TakenLines(files[i])
  <2>7. Parts[src.at] = Entries(i, n, S) /\ OpenPart = Entries(i, src.line - 1, S)
    BY <2>4, <2>5, <2>6
  <2> HIDE DEF i, n, S
  <2>8. /\ OpenPart \in Seq(Records)
        /\ Begins(OpenPart, Parts[src.at], Records)
        /\ src.line > n => Parts[src.at] = OpenPart
    BY <1>3, <2>2, <2>3, <2>7
  <2> QED
    BY <1>1, <1>4, <2>8 DEF i, n
<1>5. CASE target.kind = "api"
  <2> DEFINE k == src.at
             n == Len(target.pages[k])
             S == RecordsOn(target.pages[k])
  <2>1. k \in 1..Len(target.pages)
    BY <1>0, <1>1, <1>5, PartsLength
  <2>2. n \in Nat /\ k \in Nat
    <3>1. target.pages[k] \in Seq({"rec", "junk"})
      BY <1>5, <2>1, TargetFields, ElementOfSeq
    <3> QED
      BY <1>0, <3>1, LenProperties
  <2>3. src.line <= n + 1 /\ target.pages[k] # << >> /\ \A m \in 1..(k - 1) : target.pages[m] # << >>
    BY <1>5 DEF PositionInv
  <2>4. ~ \E m \in 1..k : target.pages[m] = << >>
    <3>1. \A m \in 1..k : m \in 1..(k - 1) \/ m = k
      BY <2>2
    <3> QED
      BY <2>3, <3>1
  <2>5. Parts[k] = Entries(k, n, S)
    BY <1>1, <1>5, <2>4, PartIs
  <2>6. OpenPart = Entries(k, src.line - 1, S)
    BY <1>0, <1>5 DEF OpenPart
  <2> HIDE DEF n, S
  <2>7. /\ OpenPart \in Seq(Records)
        /\ Begins(OpenPart, Parts[src.at], Records)
        /\ src.line > n => Parts[src.at] = OpenPart
    BY <1>3, <2>2, <2>3, <2>5, <2>6
  <2> QED
    BY <1>1, <1>5, <2>7 DEF n
<1> QED
  BY <1>2, <1>4, <1>5

\* The parts gone through are records of the target, followed by nothing where
\* no file and no page is open.
LEMMA PartsGone ==
    ASSUME TypeOK, YieldInv, PositionInv, target.kind # "parallel", ~ src.strayed
    PROVE  /\ src.at - 1 \in Nat /\ src.at - 1 <= Len(Parts) /\ Len(Parts) \in Nat
           /\ UpTo(Parts, src.at - 1) \in Seq(Records)
           /\ src.line = 0 => OpenPart = << >> /\ got = UpTo(Parts, src.at - 1)
<1>0. src.at \in Nat \ {0} /\ Len(Parts) \in Nat
  BY PartsLength DEF TypeOK, Positions
<1>1. src.at - 1 \in Nat /\ src.at - 1 <= Len(Parts)
  <2>1. src.at <= Len(Parts) + 1
    BY DEF YieldInv
  <2> QED
    BY <1>0, <2>1
<1>2. \A k \in 1..(src.at - 1) : Parts[k] \in Seq(Records)
  <2>1. \A k \in 1..(src.at - 1) : k \in 1..Len(Parts)
    BY <1>0, <1>1
  <2> QED
    BY <2>1, PartsSeq
<1>3. UpTo(Parts, src.at - 1) \in Seq(Records)
  BY <1>1, <1>2, UpToSeq
<1>4. ASSUME src.line = 0 PROVE OpenPart = << >> /\ got = UpTo(Parts, src.at - 1)
  <2>1. OpenPart = << >>
    BY <1>4 DEF OpenPart
  <2>2. got = UpTo(Parts, src.at - 1) \o OpenPart
    BY DEF YieldInv
  <2> QED
    BY <1>3, <2>1, <2>2, ConcatEmptySeq
<1> QED
  BY <1>0, <1>1, <1>3, <1>4

\* Parts and positions depend on the target, the files and where the read is.
LEMMA PartsUnmoved ==
    ASSUME UNCHANGED <<target, files>>, src'.list = src.list, src'.skipped = src.skipped
    PROVE  /\ Parts' = Parts /\ Count' = Count
           /\ src'.at = src.at /\ src'.line = src.line => OpenPart' = OpenPart
<1>1. /\ FileParts' = FileParts /\ PageParts' = PageParts /\ RowParts' = RowParts
  BY DEF FileParts, PageParts, RowParts, Items, TakenLines
<1> QED
  BY <1>1 DEF Parts, OpenPart, Count

\* What YieldInv asks of the location and of the end of the read.
YieldsOn ==
    /\ pc' \in {"row", "build", "sample"} => pc \in {"row", "build", "sample"}
    /\ pc' \in {"row", "build", "sample", "read"} => pc \in {"row", "build", "sample", "read"}
    /\ result'.ended = result.ended

\* No redirect was followed.
SameUrl == src'.bare = src.bare /\ src'.strayed = src.strayed

\* A step that reads nothing.
LEMMA YieldStays ==
    ASSUME YieldInv, PositionInv, target.kind # "parallel", UNCHANGED <<target, files, got>>,
           src'.list = src.list, src'.at = src.at, src'.line = src.line,
           src'.skipped = src.skipped, src'.cursor = src.cursor, src'.page = src.page,
           src'.strayed = src.strayed, target.kind = "api" \/ src'.bare = src.bare, YieldsOn
    PROVE  YieldInv' /\ PositionInv'
<1>1. Parts' = Parts /\ Count' = Count /\ OpenPart' = OpenPart
  BY PartsUnmoved
<1>2. YieldInv'
  BY <1>1 DEF YieldInv, YieldsOn
<1>3. PositionInv'
  BY <1>1 DEF PositionInv, YieldsOn
<1> QED
  BY <1>2, <1>3

\* The read ends where nothing is left.
LEMMA YieldEnds ==
    ASSUME YieldInv, PositionInv, TypeOK, target.kind # "parallel", ReadEnds,
           UNCHANGED <<target, files, src, got>>, src.line = 0,
           \A k \in src.at..Len(Parts) : Parts[k] = << >>
    PROVE  YieldInv' /\ PositionInv'
<1>1. Parts' = Parts /\ Count' = Count /\ OpenPart' = OpenPart
  BY PartsUnmoved
<1>2. pc' = "final" /\ result'.ended = TRUE
  BY DEF ReadEnds, TypeOK, PipelineResult
<1>3. YieldInv'
  BY <1>1, <1>2 DEF YieldInv
<1>4. PositionInv'
  BY <1>1, <1>2 DEF PositionInv
<1> QED
  BY <1>3, <1>4

\* One part more is gone through: what was yielded of it is all of it.
LEMMA PartDone ==
    ASSUME TypeOK, YieldInv, PositionInv, target.kind # "parallel", target' = target,
           ~ src.strayed, src.at <= Len(Parts), Len(Parts)' = Len(Parts),
           \A k \in 1..(src.at - 1) : Parts'[k] = Parts[k],
           src'.at = src.at + 1, src'.line = 0,
           got' = UpTo(Parts, src.at - 1) \o Parts'[src.at],
           Parts'[src.at] \in Seq(Records),
           pc' \notin {"row", "build", "sample"},
           \/ ~result'.ended
           \/ pc' # "read" /\ \A k \in src'.at..Len(Parts)' : Parts'[k] = << >>
    PROVE  YieldInv'
<1> DEFINE n == src.at - 1
           P == Parts'
<1>0. n \in Nat /\ src.at \in Nat /\ n + 1 = src.at /\ src'.at - 1 = n + 1 /\ Len(Parts) \in Nat
  <2>1. src.at \in Nat \ {0}
    BY DEF TypeOK, Positions
  <2> QED
    BY <2>1, PartsLength
<1>1. UpTo(P, n) = UpTo(Parts, n)
  <2> HIDE DEF P
  <2>1. \A k \in 1..n : P[k] = Parts[k]
    BY DEF P
  <2> HIDE DEF n
  <2> QED
    BY <1>0, <2>1, UpToSame
<1>2. UpTo(P, n + 1) = UpTo(P, n) \o P[n + 1]
  <2> HIDE DEF P, n
  <2> QED
    BY <1>0, UpToNext
<1>3. UpTo(Parts, n) \o P[n + 1] \in Seq(Records)
  <2>1. UpTo(Parts, n) \in Seq(Records)
    BY PartsGone
  <2>2. P[n + 1] \in Seq(Records)
    <3>1. P[src.at] \in Seq(Records)
      OBVIOUS
    <3> HIDE DEF P, n
    <3> QED
      BY <1>0, <3>1
  <2> HIDE DEF P, n
  <2> QED
    BY <2>1, <2>2, ConcatProperties
<1>4. got' = UpTo(P, src'.at - 1)
  <2>1. got' = UpTo(Parts, n) \o P[src.at]
    OBVIOUS
  <2> HIDE DEF P, n
  <2> QED
    BY <1>0, <1>1, <1>2, <2>1
<1>5. OpenPart' = << >>
  BY DEF OpenPart
<1>6. got' = UpTo(P, src'.at - 1) \o OpenPart'
  <2>1. got' \in Seq(Records)
    BY <1>0, <1>3
  <2> QED
    BY <1>4, <1>5, <2>1, ConcatEmptySeq
<1>7. src'.at <= Len(Parts)' + 1
  BY <1>0
<1>8. /\ ~ (src'.line > 0)
      /\ pc' \in {"row", "build", "sample", "read"} => ~result'.ended
      /\ result'.ended => src'.line = 0 /\ \A k \in src'.at..Len(Parts)' : Parts'[k] = << >>
  OBVIOUS
<1> QED
  BY <1>6, <1>7, <1>8 DEF YieldInv

\* A line or an item is read of the part that is open.
LEMMA LineDone ==
    ASSUME TypeOK, YieldInv, target.kind # "parallel", UNCHANGED <<target, files, pc, result>>,
           ~ src.strayed, src'.list = src.list, src'.skipped = src.skipped, src'.at = src.at,
           src.at <= Len(Parts), pc = "read",
           got' = UpTo(Parts, src.at - 1) \o OpenPart'
    PROVE  YieldInv'
<1>1. Parts' = Parts
  BY PartsUnmoved
<1>2. ~result.ended
  BY DEF YieldInv
<1> QED
  BY <1>1, <1>2 DEF YieldInv

\* What was yielded, after line or item l.
After(g, i, l, S) == IF l \in S THEN Append(g, <<i, l>>) ELSE g
ReadNext(u, i, n, l, S) == u \o Entries(i, l, S) = After(u \o Entries(i, n, S), i, l, S)

\* The line or item that is read is in the part, or is not, as the entries say.
LEMMA NextEntry ==
    ASSUME NEW A, NEW u \in Seq(A), NEW i, NEW n \in Nat, NEW l, l = n + 1, NEW S,
           {i} \X Nat \subseteq A
    PROVE  ReadNext(u, i, n, l, S)
<1> DEFINE e == <<i, l>>
           r == Entries(i, n, S)
<1>1. Entries(i, l, S) = IF l \in S THEN Append(r, e) ELSE r
  BY EntriesNext
<1>2. r \in Seq(A) /\ e \in A
  <2>1. r \in Seq({i} \X Nat)
    BY EntriesSeq
  <2>2. e \in {i} \X Nat
    OBVIOUS
  <2> HIDE DEF e, r
  <2> QED
    BY <2>1, <2>2, SeqMonotonic
<1> HIDE DEF e, r
<1>3. Append(u \o r, e) = u \o Append(r, e)
  <2>1. Appends(u, r, e)
    BY <1>2, AppendConcat
  <2> QED
    BY <2>1 DEF Appends
<1> QED
  BY <1>1, <1>3 DEF e, r, After, ReadNext

\* A run that fails has not ended its read.
LEMMA AbortStays ==
    ASSUME TypeOK, YieldInv, PositionInv, target.kind # "parallel",
           UNCHANGED <<target, files, src, got>>, Abort("final")
    PROVE  YieldInv' /\ PositionInv'
<1>1. pc' = "final" /\ result'.ended = result.ended
  BY DEF Abort, TypeOK, PipelineResult
<1>2. YieldsOn
  BY <1>1 DEF YieldsOn
<1> QED
  BY <1>2, YieldStays

\* The steps over files: each file ahead is opened once, read to its end or
\* skipped.
LEMMA FilesYield ==
    ASSUME TypeOK, YieldInv, PositionInv, target.kind \in {"file", "dir"},
           UNCHANGED <<target, files>>, OpenFile \/ ReadLine \/ CloseFile \/ FilesEnd
    PROVE  YieldInv' /\ PositionInv'
<1> DEFINE i == src.list[src.at]
           f == files[i]
           n == Len(Visible(f))
           S == TakenLines(f)
<1>0. /\ src \in Positions /\ src.list \in Seq(Nat) /\ src.at \in Nat \ {0} /\ src.line \in Nat
      /\ files \in Seq(Files) /\ target.kind # "parallel" /\ target.kind # "api"
      /\ ~ src.strayed /\ ~ src.bare
  BY DEF TypeOK, Positions, PositionInv
<1>1. Len(src.list) \in Nat /\ Parts = FileParts /\ Len(Parts) = Len(src.list)
  BY <1>0, LenProperties, PartsLength
<1>2. ASSUME src.at <= Len(src.list)
      PROVE  /\ src.at \in 1..Len(src.list) /\ i \in 1..Count /\ i \in Nat /\ n \in Nat
             /\ {i} \X Nat \subseteq Records
  <2>1. src.at \in 1..Len(src.list)
    BY <1>0, <1>1, <1>2
  <2>2. i \in 1..Count
    BY <2>1 DEF PositionInv
  <2>3. f \in Files
    BY <1>0, <2>2, ElementOfSeq DEF Count
  <2>4. n \in Nat
    BY <2>3, VisibleLength
  <2>5. target.kind # "db"
    OBVIOUS
  <2> HIDE DEF i, n
  <2>6. {i} \X Nat \subseteq Records
    BY <2>2, <2>5 DEF Records
  <2> QED
    BY <2>1, <2>2, <2>4, <2>6
<1>3. pc = "read" /\ ~result.ended
  <2>1. pc = "read"
    BY DEF OpenFile, ReadLine, CloseFile, FilesEnd, Reads
  <2> QED
    BY <1>0, <2>1 DEF YieldInv
<1>4. UpTo(Parts, src.at - 1) \in Seq(Records) /\ (src.line = 0 => got = UpTo(Parts, src.at - 1))
  BY <1>0, PartsGone
<1>5. ASSUME src'.list = src.list, src'.at = src.at, src'.skipped = src.skipped,
             src'.line <= n + 1, SameUrl
      PROVE  PositionInv'
  <2>1. Count' = Count /\ target' = target /\ files' = files
    BY DEF Count
  <2> HIDE DEF i, f, n
  <2>2. src'.line > 0 => src'.line <= Len(Visible(files[src'.list[src'.at]])) + 1
    BY <1>5 DEF n, f, i
  <2> QED
    BY <1>0, <1>5, <2>1, <2>2 DEF PositionInv, SameUrl
<1>6. CASE OpenFile
  <2>0. src.at <= Len(src.list) /\ src.line = 0 /\ got' = got
    BY <1>6 DEF OpenFile
  <2>1. CASE src' = [src EXCEPT !.line = 1] /\ UNCHANGED <<pc, stats, result>>
    <3>1. /\ src'.list = src.list /\ src'.at = src.at /\ src'.skipped = src.skipped
          /\ src'.line = 1 /\ SameUrl
      BY <1>0, <2>1 DEF Positions, SameUrl
    <3>2. OpenPart' = << >>
      <4>1. OpenPart' = Entries(src'.list[src'.at], src'.line - 1, TakenLines(files'[src'.list[src'.at]]))
        BY <1>0, <3>1 DEF OpenPart
      <4>2. src'.line - 1 = 0
        BY <3>1
      <4> QED
        BY <4>1, <4>2, EntriesNone
    <3>3. got' = UpTo(Parts, src.at - 1) \o OpenPart'
      BY <1>4, <2>0, <3>2, ConcatEmptySeq
    <3>4. YieldInv'
      BY <1>0, <1>1, <1>3, <2>0, <2>1, <3>1, <3>3, LineDone
    <3>5. PositionInv'
      <4>1. n \in Nat
        BY <1>2, <2>0
      <4> HIDE DEF n, f, i
      <4>2. 1 <= n + 1
        BY <4>1
      <4> QED
        BY <1>5, <3>1, <4>2
    <3> QED
      BY <3>4, <3>5
  <2>2. CASE src' = [NextFile EXCEPT !.skipped = @ \union {i}] /\ UNCHANGED <<pc, result>>
    <3>1. /\ src'.list = src.list /\ src'.at = src.at + 1 /\ src'.line = 0
          /\ src'.skipped = src.skipped \union {i} /\ SameUrl
      BY <1>0, <2>2 DEF NextFile, Positions, SameUrl
    <3>2. src.at \in 1..Len(src.list)
      BY <1>2, <2>0
    <3>3. \A k \in 1..Len(src.list) : src.list[k] = i => k = src.at
      BY <3>2 DEF PositionInv
    <3> DEFINE part(k) == IF src.list[k] \in src'.skipped THEN << >> ELSE Items(src.list[k])
    <3>4. Parts' = [k \in 1..Len(src.list) |-> part(k)]
      <4>1. Parts' = FileParts'
        BY DEF Parts
      <4>2. \A k : Items(k)' = Items(k)
        BY ItemsSame
      <4> QED
        BY <3>1, <4>1, <4>2 DEF FileParts
    <3>5. Len(Parts)' = Len(Parts)
      <4> HIDE DEF part
      <4>1. Len([k \in 1..Len(src.list) |-> part(k)]) = Len(src.list)
        BY <1>1, SMT
      <4> QED
        BY <1>1, <3>4, <4>1
    <3>6. Parts'[src.at] = << >>
      <4>1. src.list[src.at] \in src'.skipped
        BY <3>1
      <4> QED
        BY <3>2, <3>4, <4>1
    <3>7. \A k \in 1..(src.at - 1) : Parts'[k] = Parts[k]
      <4> TAKE k \in 1..(src.at - 1)
      <4>1. k \in 1..Len(src.list) /\ k # src.at
        <5> DEFINE a == src.at
                   c == Len(src.list)
        <5>1. a \in 1..c /\ c \in Nat /\ k \in 1..(a - 1)
          BY <1>1, <3>2
        <5> HIDE DEF a, c
        <5>2. k \in 1..c /\ k # a
          BY <5>1
        <5> QED
          BY <5>2 DEF a, c
      <4>2. src.list[k] \in src'.skipped <=> src.list[k] \in src.skipped
        BY <3>1, <3>3, <4>1
      <4>3. Parts'[k] = part(k)
        BY <3>4, <4>1
      <4>4. Parts[k] = IF src.list[k] \in src.skipped THEN << >> ELSE Items(src.list[k])
        BY <1>1, <4>1 DEF FileParts
      <4> QED
        BY <4>2, <4>3, <4>4
    <3>8. got' = UpTo(Parts, src.at - 1) \o Parts'[src.at] /\ Parts'[src.at] \in Seq(Records)
      <4> DEFINE u == UpTo(Parts, src.at - 1)
      <4>1. u \in Seq(Records) /\ got' = u
        BY <1>4, <2>0
      <4> HIDE DEF u
      <4>2. u \o << >> = u /\ << >> \in Seq(Records)
        BY <4>1, ConcatEmptySeq, EmptySeq
      <4> QED
        BY <3>6, <4>1, <4>2 DEF u
    <3>9. pc' = "read" /\ ~result'.ended
      BY <1>3, <2>2
    <3>10. YieldInv'
      <4> HIDE DEF i, part
      <4> QED
        BY <1>0, <1>1, <2>0, <3>1, <3>5, <3>7, <3>8, <3>9, PartDone
    <3>11. \A k \in src'.at..Len(src.list) : src.list[k] \notin src'.skipped
      <4> TAKE k \in src'.at..Len(src.list)
      <4>1. k \in src.at..Len(src.list) /\ k \in 1..Len(src.list) /\ k # src.at
        BY <1>0, <1>1, <3>1
      <4>2. src.list[k] \notin src.skipped
        BY <4>1 DEF PositionInv
      <4> QED
        BY <3>1, <3>3, <4>1, <4>2
    <3>12. PositionInv'
      <4>1. Count' = Count /\ target' = target
        BY DEF Count
      <4> HIDE DEF i, part
      <4> QED
        BY <1>0, <3>1, <3>11, <4>1 DEF PositionInv, SameUrl
    <3> QED
      BY <3>10, <3>12
  <2>3. CASE Abort("final") /\ UNCHANGED <<src, stats>>
    BY <1>0, <2>0, <2>3, AbortStays
  <2> QED
    BY <1>6, <2>1, <2>2, <2>3 DEF OpenFile
<1>7. CASE ReadLine
  <2> DEFINE l == src.line
             m == IF f.lines[l] = "blank" THEN 1 ELSE 0
  <2>0. l > 0 /\ l <= n /\ l \in Nat \ {0}
    <3>1. l > 0 /\ l <= n
      BY <1>7 DEF ReadLine
    <3> QED
      BY <1>0, <3>1
  <2>1. src.at <= Len(src.list)
    BY <1>0, <1>1, <2>0 DEF YieldInv
  <2>2. i \in Nat /\ n \in Nat /\ {i} \X Nat \subseteq Records
    BY <1>2, <2>1
  <2>3. l \in S <=> Takes(f, f.lines[l])
    <3>1. l \in 1..n
      <4> HIDE DEF l, n
      <4> QED
        BY <2>0, <2>2
    <3> HIDE DEF l, f
    <3> QED
      BY <3>1 DEF TakenLines
  <2>4. got = UpTo(Parts, src.at - 1) \o Entries(i, l - 1, S)
    <3>1. OpenPart = Entries(i, l - 1, S)
      BY <1>0, <2>0 DEF OpenPart
    <3>2. got = UpTo(Parts, src.at - 1) \o OpenPart
      BY <1>0 DEF YieldInv
    <3> QED
      BY <3>1, <3>2
  <2>5. UpTo(Parts, src.at - 1) \o Entries(i, l, S)
            = After(got, i, l, S)
    <3> DEFINE u == UpTo(Parts, src.at - 1)
               m1 == l - 1
    <3>1. m1 \in Nat /\ l = m1 + 1
      BY <2>0
    <3>2. u \in Seq(Records) /\ got = u \o Entries(i, m1, S)
      BY <1>4, <2>4
    <3> HIDE DEF i, l, S, u, m1
    <3>3. ReadNext(u, i, m1, l, S)
      BY <2>2, <3>1, <3>2, NextEntry
    <3> QED
      BY <3>2, <3>3 DEF u, ReadNext
  <2>6. ASSUME src'.list = src.list, src'.at = src.at, src'.skipped = src.skipped,
               src'.line = l + 1, SameUrl, UNCHANGED <<pc, result>>,
               got' = After(got, i, l, S)
        PROVE  YieldInv' /\ PositionInv'
    <3>1. OpenPart' = Entries(i, l, S)
      <4>1. src'.line # 0 /\ src'.line - 1 = l
        BY <2>0, <2>6
      <4>2. OpenPart' = Entries(i, src'.line - 1, S)
        BY <1>0, <2>6, <4>1 DEF OpenPart
      <4> QED
        BY <4>1, <4>2
    <3>2. got' = UpTo(Parts, src.at - 1) \o OpenPart'
      BY <2>5, <2>6, <3>1
    <3>3. YieldInv'
      BY <1>0, <1>1, <1>3, <2>1, <2>6, <3>2, LineDone
    <3>4. l + 1 <= n + 1
      <4> HIDE DEF l, n
      <4> QED
        BY <2>0, <2>2
    <3>5. PositionInv'
      BY <1>5, <2>6, <3>4
    <3> QED
      BY <3>3, <3>5
  <2>7. CASE Abort("final") /\ AddChild /\ UNCHANGED <<src, got>>
    BY <1>0, <2>7, AbortStays
  <2>8. CASE /\ Takes(f, f.lines[l]) /\ Yield(<<i, l>>)
             /\ src' = [src EXCEPT !.line = l + 1, !.child = @ + 1]
             /\ UNCHANGED <<pc, stats, result>>
    <3>1. /\ src'.list = src.list /\ src'.at = src.at /\ src'.skipped = src.skipped
          /\ src'.line = l + 1 /\ SameUrl
      BY <1>0, <2>8 DEF Positions, SameUrl
    <3>2. got' = After(got, i, l, S)
      BY <2>3, <2>8 DEF Yield, After
    <3> QED
      BY <2>6, <2>8, <3>1, <3>2
  <2>9. CASE /\ ~Takes(f, f.lines[l]) /\ UNCHANGED got
             /\ src' = [src EXCEPT !.line = l + 1, !.blank = @ + m]
             /\ UNCHANGED <<pc, stats, result>>
    <3> HIDE DEF m
    <3>1. /\ src'.list = src.list /\ src'.at = src.at /\ src'.skipped = src.skipped
          /\ src'.line = l + 1 /\ SameUrl
      BY <1>0, <2>9 DEF Positions, SameUrl
    <3>2. got' = After(got, i, l, S)
      BY <2>3, <2>9 DEF After
    <3> QED
      BY <2>6, <2>9, <3>1, <3>2
  <2> QED
    BY <1>7, <2>7, <2>8, <2>9 DEF ReadLine
<1>8. CASE CloseFile
  <2>0. /\ src.line > 0 /\ src.line > n /\ src' = NextFile /\ UNCHANGED <<pc, got, result>>
    BY <1>8 DEF CloseFile
  <2>1. /\ src'.list = src.list /\ src'.at = src.at + 1 /\ src'.line = 0
        /\ src'.skipped = src.skipped /\ SameUrl
    BY <1>0, <2>0 DEF NextFile, Positions, SameUrl
  <2>2. Parts[src.at] = OpenPart /\ src.at \in 1..Len(Parts)
    BY <1>0, <2>0, OpenPartBegins
  <2>3. Parts' = Parts /\ Count' = Count
    BY <2>1, PartsUnmoved
  <2>4. Parts'[src.at] \in Seq(Records)
    BY <1>0, <2>2, <2>3, PartsSeq
  <2>5. got' = UpTo(Parts, src.at - 1) \o Parts'[src.at]
    <3>1. got = UpTo(Parts, src.at - 1) \o OpenPart
      BY <1>0 DEF YieldInv
    <3> QED
      BY <2>0, <2>2, <2>3, <3>1
  <2>6. pc' = "read" /\ ~result'.ended
    BY <1>3, <2>0
  <2>7. src.at <= Len(Parts)
    BY <2>2
  <2>8. YieldInv'
    <3> HIDE DEF i, f, n, S
    <3> QED
      BY <1>0, <2>1, <2>3, <2>4, <2>5, <2>6, <2>7, PartDone
  <2>9. \A k \in src'.at..Len(src.list) : src.list[k] \notin src.skipped
    <3> TAKE k \in src'.at..Len(src.list)
    <3>1. k \in src.at..Len(src.list)
      BY <1>0, <1>1, <2>1
    <3> QED
      BY <3>1 DEF PositionInv
  <2>10. PositionInv'
    <3> HIDE DEF i, f, n, S
    <3> QED
      BY <1>0, <2>1, <2>3, <2>9 DEF PositionInv, SameUrl
  <2> QED
    BY <2>8, <2>10
<1>9. CASE FilesEnd
  <2>1. src.at > Len(src.list) /\ ReadEnds /\ UNCHANGED <<src, got>>
    BY <1>9 DEF FilesEnd
  <2>2. src.line = 0
    <3>1. src.line > 0 => src.at <= Len(src.list)
      BY <1>0, <1>1 DEF YieldInv
    <3> QED
      BY <1>0, <1>1, <2>1, <3>1
  <2>3. \A k \in src.at..Len(Parts) : Parts[k] = << >>
    <3> DEFINE a == src.at
               c == Len(src.list)
    <3>0. a \in Nat /\ c \in Nat /\ a > c /\ Len(Parts) = c
      BY <1>0, <1>1, <2>1
    <3> HIDE DEF a, c
    <3>1. a..c = {}
      BY <3>0
    <3> QED
      BY <3>0, <3>1 DEF a
  <2> QED
    BY <1>0, <2>1, <2>2, <2>3, YieldEnds
<1> QED
  BY <1>6, <1>7, <1>8, <1>9


\* Only a new run asks for the first page again.
LEMMA StaysStrayed ==
    ASSUME src \in Positions, src.strayed,
           Fetch \/ FetchFails \/ Redirected \/ ReadItem \/ PageEnds \/ PagesEnd
    PROVE  src'.strayed
<1>1. CASE Fetch
  <2> DEFINE strayed == src.strayed \/ Asked # Wanted
  <2>1. \/ UNCHANGED src
        \/ src' = [src EXCEPT !.line = 1, !.page = Asked, !.tries = 0, !.hops = 0,
                              !.bare = FALSE, !.strayed = strayed]
    BY <1>1 DEF Fetch
  <2>2. strayed
    OBVIOUS
  <2> HIDE DEF strayed
  <2> QED
    BY <2>1, <2>2 DEF Positions
<1>2. CASE FetchFails
  BY <1>2 DEF FetchFails, Positions
<1>3. CASE Redirected
  BY <1>3 DEF Redirected, Positions
<1>4. CASE ReadItem
  BY <1>4 DEF ReadItem, Positions
<1>5. CASE PageEnds
  BY <1>5 DEF PageEnds, Positions
<1>6. CASE PagesEnd
  BY <1>6 DEF PagesEnd
<1> QED
  BY <1>1, <1>2, <1>3, <1>4, <1>5, <1>6

\* Once a redirect has led to another page, the read goes on from there.
LEMMA StrayedYields ==
    ASSUME TypeOK, YieldInv, PositionInv, target.kind = "api", UNCHANGED <<target, files>>,
           Fetch \/ FetchFails \/ Redirected \/ ReadItem \/ PageEnds \/ PagesEnd,
           src'.strayed
    PROVE  YieldInv' /\ PositionInv'
<1>1. pc = "read" /\ ~result.ended
  <2>1. pc = "read"
    BY DEF Fetch, FetchFails, Redirected, ReadItem, PageEnds, PagesEnd, Reads
  <2> QED
    BY <2>1 DEF YieldInv
<1>2. pc' = "final" \/ UNCHANGED <<pc, result>>
  BY DEF Fetch, FetchFails, Redirected, ReadItem, PageEnds, PagesEnd, Abort, ReadEnds
<1>3. YieldInv'
  BY <1>1, <1>2 DEF YieldInv
<1> QED
  BY <1>3 DEF PositionInv

\* The steps over the pages of an endpoint: the page asked for is the next one,
\* by cursor and by number, and each is read to its end.
LEMMA PagesYield ==
    ASSUME TypeOK, YieldInv, PositionInv, target.kind = "api", UNCHANGED <<target, files>>,
           ~ src.strayed, ~ src'.strayed,
           Fetch \/ FetchFails \/ Redirected \/ ReadItem \/ PageEnds \/ PagesEnd
    PROVE  YieldInv' /\ PositionInv'
<1> DEFINE k == src.at
           c == Len(target.pages)
           d == Len(Parts)
           n == Len(target.pages[k])
           S == RecordsOn(target.pages[k])
<1>0. /\ src \in Positions /\ k \in Nat \ {0} /\ src.line \in Nat /\ src.cursor \in Nat
      /\ target.kind # "parallel"
  BY DEF TypeOK, Positions
<1>1. /\ c \in Nat /\ d \in Nat /\ d <= c /\ d <= MaxPages
      /\ target.mode = "single" => d <= 1
      /\ \A j \in Nat \ {0} :
           j <= c /\ j <= MaxPages /\ (target.mode = "single" => j = 1) => j <= d
  BY <1>0, PartsLength
<1>2. MaxPages \in Nat \ {0} /\ target.mode \in {"single", "page", "cursor", "both"}
  BY IngestAssumption DEF TypeOK, Targets
<1>3. pc = "read" /\ ~result.ended
  <2>1. pc = "read"
    BY DEF Fetch, FetchFails, Redirected, ReadItem, PageEnds, PagesEnd, Reads
  <2> QED
    BY <1>0, <2>1 DEF YieldInv
<1>4. UpTo(Parts, k - 1) \in Seq(Records) /\ (src.line = 0 => got = UpTo(Parts, k - 1))
  BY <1>0, PartsGone
<1>5. /\ \A m \in 1..(k - 1) : target.pages[m] # << >>
      /\ src.line > 0 => /\ src.page = k /\ target.pages[k] # << >> /\ src.line <= n + 1
      /\ src.cursor \in {0, k}
      /\ src.cursor > 0 => target.mode \in {"cursor", "both"}
      /\ src.cursor = 0 /\ target.mode \notin {"page", "both"} => k = 1
  BY <1>3 DEF PositionInv
<1>6. target.mode = "single" => k = 1
  BY <1>0, <1>5
<1>7. src.line > 0 => k <= d /\ k \in 1..c /\ n \in Nat
  <2> SUFFICES ASSUME src.line > 0 PROVE k <= d /\ k \in 1..c /\ n \in Nat
    OBVIOUS
  <2>1. k <= d
    BY <1>0 DEF YieldInv
  <2>2. k \in 1..c
    <3> HIDE DEF k, c, d
    <3> QED
      BY <1>0, <1>1, <2>1
  <2>3. target.pages[k] \in Seq({"rec", "junk"})
    BY <2>2, TargetFields, ElementOfSeq
  <2>4. n \in Nat
    BY <2>3, LenProperties
  <2> QED
    BY <2>1, <2>2, <2>4
<1>8. ASSUME src'.list = src.list, src'.at = k, src'.skipped = src.skipped,
             src'.cursor = src.cursor, src'.page = k, target.pages[k] # << >>,
             src'.line <= n + 1, result' = result
      PROVE  PositionInv'
  <2>1. target' = target /\ result'.ended = result.ended
    BY <1>8
  <2>2. src'.line > 0 => src'.line <= Len(target'.pages[src'.at]) + 1
    BY <1>8, <2>1
  <2>3. target'.pages[src'.at] # << >>
    BY <1>8, <2>1
  <2> HIDE DEF n
  <2> QED
    BY <1>5, <1>8, <2>1, <2>2, <2>3 DEF PositionInv
<1>9. CASE Fetch
  <2>0. src.line = 0 /\ k <= MaxPages /\ got' = got
    BY <1>9 DEF Fetch
  <2>a. Wanted = k
    <3>1. CASE src.cursor > 0
      <4>1. src.cursor = k
        BY <1>0, <1>5, <3>1
      <4> QED
        BY <3>1, <4>1 DEF Wanted
    <3>2. CASE ~ (src.cursor > 0) /\ target.mode \in {"page", "both"}
      BY <3>2 DEF Wanted
    <3>3. CASE ~ (src.cursor > 0) /\ target.mode \notin {"page", "both"}
      <4>1. src.cursor = 0
        BY <1>0, <3>3
      <4>2. k = 1
        BY <1>5, <3>3, <4>1
      <4> QED
        BY <3>3, <4>2 DEF Wanted
    <3> QED
      BY <3>1, <3>2, <3>3
  <2>b. Asked = k \/ (k > 1 /\ Asked = 1 /\ 1 <= c /\ target.pages[1] # << >>)
    <3>1. CASE src.bare
      <4>1. Asked = 1
        BY <3>1 DEF Asked
      <4>2. k - 1 <= d
        BY <1>0, PartsGone
      <4>3. k > 1 => 1 <= c /\ 1 \in 1..(k - 1)
        <5> HIDE DEF k, c, d
        <5> QED
          BY <1>0, <1>1, <4>2
      <4>4. k > 1 => target.pages[1] # << >>
        BY <1>5, <4>3
      <4>5. k = 1 \/ k > 1
        <5> HIDE DEF k
        <5> QED
          BY <1>0
      <4> QED
        BY <4>1, <4>3, <4>4, <4>5
    <3>2. CASE ~ src.bare
      BY <2>a, <3>2 DEF Asked
    <3> QED
      BY <3>1, <3>2
  <2>1. \/ (k > c \/ target.pages[k] = << >>) /\ ReadEnds /\ UNCHANGED src
        \/ /\ ~ (k > c) /\ target.pages[k] # << >>
           /\ src' = [src EXCEPT !.line = 1, !.page = k, !.tries = 0, !.hops = 0,
                                 !.bare = FALSE, !.strayed = FALSE]
           /\ UNCHANGED <<pc, result>>
    <3> DEFINE strayed == src.strayed \/ Asked # Wanted
    <3>1. CASE Asked > c \/ target.pages[Asked] = << >>
      <4>1. Asked = k
        <5>1. ~ (1 <= c /\ 1 > c)
          <6> HIDE DEF c
          <6> QED
            BY <1>1
        <5> QED
          BY <2>b, <3>1, <5>1
      <4>2. ReadEnds /\ UNCHANGED src
        BY <1>9, <3>1 DEF Fetch
      <4> QED
        BY <3>1, <4>1, <4>2
    <3>2. CASE ~ (Asked > c \/ target.pages[Asked] = << >>)
      <4>1. /\ src' = [src EXCEPT !.line = 1, !.page = Asked, !.tries = 0, !.hops = 0,
                                  !.bare = FALSE, !.strayed = strayed]
            /\ UNCHANGED <<pc, result>>
        BY <1>9, <3>2 DEF Fetch
      <4> HIDE DEF strayed
      <4>2. src'.strayed = strayed
        BY <1>0, <4>1 DEF Positions
      <4>3. strayed = FALSE
        BY <4>2, Zenon DEF strayed
      <4>4. Asked = k
        BY <2>a, <4>3, Zenon DEF strayed
      <4> QED
        BY <3>2, <4>1, <4>3, <4>4
    <3> QED
      BY <3>1, <3>2
  <2>2. CASE (k > c \/ target.pages[k] = << >>) /\ ReadEnds /\ UNCHANGED src
    <3>1. ASSUME NEW j \in k..d PROVE Parts[j] = << >>
      <4>1. j \in 1..d /\ k <= j /\ j <= c
        <5> HIDE DEF k, c, d
        <5> QED
          BY <1>0, <1>1
      <4>2. k \in 1..j /\ ~ (k > c)
        <5> HIDE DEF k, c, d
        <5> QED
          BY <1>0, <1>1, <4>1
      <4>3. \E m \in 1..j : target.pages[m] = << >>
        BY <2>2, <4>2
      <4> QED
        BY <1>0, <4>1, <4>3, PartIs
    <3> QED
      BY <1>0, <2>0, <2>2, <3>1, YieldEnds
  <2>3. CASE /\ ~ (k > c) /\ target.pages[k] # << >>
             /\ src' = [src EXCEPT !.line = 1, !.page = k, !.tries = 0, !.hops = 0,
                                   !.bare = FALSE, !.strayed = FALSE]
             /\ UNCHANGED <<pc, result>>
    <3>1. /\ src'.list = src.list /\ src'.at = k /\ src'.skipped = src.skipped
          /\ src'.line = 1 /\ src'.page = k /\ src'.cursor = src.cursor
      BY <1>0, <2>3 DEF Positions
    <3>2. k \in 1..c /\ k <= d
      <4>1. k <= c
        <5> HIDE DEF k, c
        <5> QED
          BY <1>0, <1>1, <2>3
      <4>2. /\ k <= c /\ k <= MaxPages
            /\ target.mode = "single" => k = 1
        BY <1>6, <2>0, <4>1
      <4> HIDE DEF k, c, d
      <4>3. k <= d
        BY <1>0, <1>1, <4>2
      <4> QED
        BY <1>0, <1>1, <4>1, <4>3
    <3>3. n \in Nat
      <4>1. target.pages[k] \in Seq({"rec", "junk"})
        BY <3>2, TargetFields, ElementOfSeq
      <4> QED
        BY <4>1, LenProperties
    <3>4. OpenPart' = << >>
      <4>1. OpenPart' = Entries(k, src'.line - 1, RecordsOn(target'.pages[k]))
        BY <3>1 DEF OpenPart
      <4>2. src'.line - 1 = 0
        BY <3>1
      <4> QED
        BY <4>1, <4>2, EntriesNone
    <3>5. got' = UpTo(Parts, k - 1) \o OpenPart'
      <4> DEFINE u == UpTo(Parts, k - 1)
      <4>1. u \in Seq(Records) /\ got' = u
        BY <1>4, <2>0
      <4> HIDE DEF u
      <4>2. u \o << >> = u
        BY <4>1, ConcatEmptySeq
      <4> QED
        BY <3>4, <4>1, <4>2 DEF u
    <3>6. YieldInv'
      BY <1>0, <1>3, <2>3, <3>1, <3>2, <3>5, LineDone
    <3>7. 1 <= n + 1
      <4> HIDE DEF n
      <4> QED
        BY <3>3
    <3>8. PositionInv'
      <4>1. src'.line <= n + 1
        BY <3>1, <3>7
      <4> HIDE DEF n
      <4> QED
        BY <1>8, <2>3, <3>1, <4>1
    <3> QED
      BY <3>6, <3>8
  <2> QED
    BY <2>1, <2>2, <2>3
<1>10. CASE FetchFails \/ Redirected
  <2>0. got' = got
    BY <1>10 DEF FetchFails, Redirected
  <2>1. CASE Abort("final") /\ UNCHANGED src
    BY <1>0, <2>0, <2>1, AbortStays
  <2>2. CASE /\ \/ src' = [src EXCEPT !.tries = @ + 1, !.hops = 0, !.bare = FALSE]
                \/ \E bare \in BOOLEAN : src' = [src EXCEPT !.hops = @ + 1, !.bare = bare]
             /\ UNCHANGED <<pc, result>>
    <3>1. /\ src'.list = src.list /\ src'.at = src.at /\ src'.line = src.line
          /\ src'.skipped = src.skipped /\ src'.cursor = src.cursor /\ src'.page = src.page
          /\ src'.strayed = src.strayed
      BY <1>0, <2>2 DEF Positions
    <3>2. YieldsOn
      BY <2>2 DEF YieldsOn
    <3> QED
      BY <1>0, <2>0, <3>1, <3>2, YieldStays
  <2> QED
    BY <1>10, <2>1, <2>2 DEF FetchFails, Redirected
<1>11. CASE ReadItem
  <2> DEFINE l == src.line
  <2>0. l > 0 /\ l \in Nat \ {0} /\ src.page = k
    BY <1>0, <1>5, <1>11 DEF ReadItem
  <2>1. k <= d /\ k \in 1..c /\ n \in Nat /\ l <= n
    BY <1>7, <1>11, <2>0 DEF ReadItem
  <2>2. l \in S <=> target.pages[k][l] = "rec"
    BY <2>0, <2>1 DEF RecordsOn
  <2>3. {k} \X Nat \subseteq Records
    <3>1. target.kind # "db"
      OBVIOUS
    <3> HIDE DEF k
    <3> QED
      BY <1>0, <3>1 DEF Records
  <2>4. got = UpTo(Parts, k - 1) \o Entries(k, l - 1, S)
    <3>1. OpenPart = Entries(k, l - 1, S)
      BY <2>0 DEF OpenPart
    <3>2. got = UpTo(Parts, k - 1) \o OpenPart
      BY <1>0 DEF YieldInv
    <3> QED
      BY <3>1, <3>2
  <2>5. UpTo(Parts, k - 1) \o Entries(k, l, S) = After(got, k, l, S)
    <3> DEFINE u == UpTo(Parts, k - 1)
               m1 == l - 1
    <3>1. m1 \in Nat /\ l = m1 + 1
      BY <2>0
    <3>2. u \in Seq(Records) /\ got = u \o Entries(k, m1, S)
      BY <1>4, <2>4
    <3> HIDE DEF k, l, S, u, m1
    <3>3. ReadNext(u, k, m1, l, S)
      BY <2>3, <3>1, <3>2, NextEntry
    <3> QED
      BY <3>2, <3>3 DEF u, ReadNext
  <2>6. /\ src' = [src EXCEPT !.line = @ + 1] /\ UNCHANGED <<pc, result>>
        /\ IF target.pages[k][l] = "rec" THEN Yield(<<k, l>>) ELSE UNCHANGED got
    BY <1>11, <2>0 DEF ReadItem
  <2>7. /\ src'.list = src.list /\ src'.at = k /\ src'.skipped = src.skipped
        /\ src'.line = l + 1 /\ src'.page = k /\ src'.cursor = src.cursor
    BY <1>0, <2>0, <2>6 DEF Positions
  <2>8. got' = After(got, k, l, S)
    BY <2>2, <2>6 DEF After, Yield
  <2>9. OpenPart' = Entries(k, l, S)
    <3>1. src'.line # 0 /\ src'.line - 1 = l
      BY <2>0, <2>7
    <3>2. OpenPart' = Entries(k, src'.line - 1, S)
      BY <2>7, <3>1 DEF OpenPart
    <3> QED
      BY <3>1, <3>2
  <2>10. got' = UpTo(Parts, k - 1) \o OpenPart'
    BY <2>5, <2>8, <2>9
  <2>11. YieldInv'
    BY <1>0, <1>3, <2>1, <2>6, <2>7, <2>10, LineDone
  <2>12. src'.line <= n + 1
    <3> HIDE DEF l, n
    <3> QED
      BY <2>0, <2>1, <2>7
  <2>13. PositionInv'
    <3>1. target.pages[k] # << >>
      BY <1>5, <2>0
    <3> HIDE DEF n, l
    <3> QED
      BY <1>8, <2>6, <2>7, <2>12, <3>1
  <2> QED
    BY <2>11, <2>13
<1>12. CASE PageEnds
  <2> DEFINE cursor == IF target.mode \in {"cursor", "both"} /\ k < c THEN k + 1 ELSE 0
  <2>0. src.line > 0 /\ src.page = k /\ got' = got
    BY <1>5, <1>12 DEF PageEnds
  <2>1. /\ src.line > n
        /\ src' = [src EXCEPT !.at = @ + 1, !.line = 0, !.cursor = cursor]
        /\ IF cursor = 0 /\ target.mode \notin {"page", "both"}
           THEN ReadEnds ELSE UNCHANGED <<pc, result>>
    BY <1>12, <2>0 DEF PageEnds
  <2>2. /\ src'.list = src.list /\ src'.at = k + 1 /\ src'.line = 0
        /\ src'.skipped = src.skipped /\ src'.cursor = cursor
    BY <1>0, <2>1 DEF Positions
  <2>3. Parts[k] = OpenPart /\ k \in 1..d /\ target.pages[k] # << >>
    BY <1>0, <1>5, <2>0, <2>1, OpenPartBegins
  <2>4. Parts' = Parts
    BY <2>2, PartsUnmoved
  <2>5. Parts'[k] \in Seq(Records)
    BY <1>0, <2>3, <2>4, PartsSeq
  <2>6. got' = UpTo(Parts, k - 1) \o Parts'[k]
    <3>1. got = UpTo(Parts, k - 1) \o OpenPart
      BY <1>0 DEF YieldInv
    <3> QED
      BY <2>0, <2>3, <2>4, <3>1
  <2>7. /\ pc' \in {"read", "final"}
        /\ \/ ~result'.ended /\ ~ (cursor = 0 /\ target.mode \notin {"page", "both"})
           \/ pc' = "final" /\ result'.ended /\ cursor = 0 /\ target.mode \notin {"page", "both"}
    BY <1>3, <2>1 DEF ReadEnds, TypeOK, PipelineResult
  <2>8. ASSUME cursor = 0, target.mode \notin {"page", "both"}
        PROVE  \A j \in src'.at..d : Parts[j] = << >>
    <3>1. k >= d
      <4>1. CASE target.mode = "single"
        <5>1. d <= 1 /\ k = 1
          BY <1>1, <1>6, <4>1
        <5> HIDE DEF k, d
        <5> QED
          BY <1>1, <5>1
      <4>2. CASE target.mode = "cursor"
        <5>1. ~ (k < c)
          <6>1. k < c => cursor = k + 1
            BY <4>2
          <6> HIDE DEF k, c, cursor
          <6> QED
            BY <1>0, <2>8, <6>1
        <5> HIDE DEF k, c, d
        <5> QED
          BY <1>0, <1>1, <5>1
      <4> QED
        BY <1>2, <2>8, <4>1, <4>2
    <3>2. src'.at..d = {}
      <4> HIDE DEF k, d
      <4> QED
        BY <1>0, <1>1, <2>2, <3>1
    <3> QED
      BY <3>2
  <2>9. k <= d
    <3> HIDE DEF k, d
    <3> QED
      BY <1>1, <2>3
  <2>10. YieldInv'
    <3>1. \/ ~result'.ended
          \/ pc' # "read" /\ \A j \in src'.at..Len(Parts)' : Parts'[j] = << >>
      BY <2>4, <2>7, <2>8
    <3>2. Len(Parts)' = Len(Parts) /\ pc' \notin {"row", "build", "sample"}
      BY <2>4, <2>7
    <3>3. \A j \in 1..(src.at - 1) : Parts'[j] = Parts[j]
      BY <2>4
    <3> HIDE DEF n, S, cursor
    <3> QED
      BY <1>0, <2>2, <2>5, <2>6, <2>9, <3>1, <3>2, <3>3, PartDone
  <2>11. \A m \in 1..k : target.pages[m] # << >>
    <3>1. \A m \in 1..k : m \in 1..(k - 1) \/ m = k
      <4> HIDE DEF k
      <4> QED
        BY <1>0
    <3> QED
      BY <1>5, <2>3, <3>1
  <2>12. /\ cursor \in {0, k + 1} /\ (cursor > 0 => target.mode \in {"cursor", "both"})
    OBVIOUS
  <2>13. PositionInv'
    <3>1. target' = target /\ src'.at - 1 = k
      <4> HIDE DEF k
      <4> QED
        BY <1>0, <2>2
    <3> HIDE DEF n, S, cursor, k
    <3> QED
      BY <2>2, <2>7, <2>11, <2>12, <3>1 DEF PositionInv
  <2> QED
    BY <2>10, <2>13
<1>13. CASE PagesEnd
  <2>1. k > MaxPages /\ ReadEnds /\ UNCHANGED <<src, got>>
    BY <1>13 DEF PagesEnd
  <2>2. ~ (k <= d)
    <3> HIDE DEF k, d
    <3> QED
      BY <1>0, <1>1, <1>2, <2>1
  <2>3. src.line = 0
    BY <1>0, <1>7, <2>2
  <2>4. k..d = {}
    <3> HIDE DEF k, d
    <3> QED
      BY <1>0, <1>1, <2>2
  <2>5. \A j \in k..d : Parts[j] = << >>
    BY <2>4
  <2> QED
    BY <1>0, <2>1, <2>3, <2>5, YieldEnds
<1> QED
  BY <1>9, <1>10, <1>11, <1>12, <1>13



\* The steps over the rows of a table: each row is a part, yielded whole.
LEMMA RowsYield ==
    ASSUME TypeOK, YieldInv, PositionInv, target.kind = "db", UNCHANGED <<target, files>>,
           ReadRow \/ DatabaseFails
    PROVE  YieldInv' /\ PositionInv'
<1> DEFINE a == src.at
           c == Len(Parts)
           e == <<0, Selected(target)[a]>>
           u == UpTo(Parts, a - 1)
<1>0. /\ src \in Positions /\ a \in Nat \ {0} /\ target.kind # "parallel" /\ src.line = 0
      /\ c \in Nat /\ c = Len(Selected(target)) /\ ~ src.strayed /\ ~ src.bare
  BY PartsLength DEF TypeOK, Positions, PositionInv
<1>1. u \in Seq(Records) /\ got = u
  BY <1>0, PartsGone
<1>2. CASE ReadRow /\ a <= c
  <2>1. got' = Append(got, e) /\ src' = [src EXCEPT !.at = @ + 1] /\ UNCHANGED <<pc, result>>
    BY <1>0, <1>2 DEF ReadRow, Yield
  <2>2. /\ src'.list = src.list /\ src'.at = a + 1 /\ src'.line = 0
        /\ src'.skipped = src.skipped /\ SameUrl
    BY <1>0, <2>1 DEF Positions, SameUrl
  <2>3. a \in 1..c
    <3> HIDE DEF a, c
    <3> QED
      BY <1>0, <1>2
  <2>4. Parts[a] = <<e>>
    BY <1>0, <2>3, PartIs
  <2>5. Parts' = Parts
    BY <2>2, PartsUnmoved
  <2>6. Parts'[a] \in Seq(Records)
    BY <1>0, <2>3, <2>5, PartsSeq
  <2>7. got' = u \o Parts'[a]
    <3>1. e \in Records
      BY <1>0, <2>3 DEF Records
    <3>2. got' = Append(u, e) /\ Parts'[a] = <<e>>
      BY <1>1, <2>1, <2>4, <2>5
    <3> HIDE DEF e, u, a
    <3> QED
      BY <1>1, <3>1, <3>2, AppendIsConcat
  <2>8. pc = "read" /\ ~result.ended
    <3>1. pc = "read"
      BY <1>2 DEF ReadRow, Reads
    <3> QED
      BY <1>0, <3>1 DEF YieldInv
  <2>9. pc' = "read" /\ ~result'.ended
    BY <2>1, <2>8
  <2>10. YieldInv'
    <3>1. Len(Parts)' = Len(Parts)
      BY <2>5
    <3>2. \A j \in 1..(src.at - 1) : Parts'[j] = Parts[j]
      BY <2>5
    <3>3. src.at <= Len(Parts)
      BY <1>2
    <3> HIDE DEF e
    <3> QED
      BY <1>0, <2>2, <2>6, <2>7, <2>9, <3>1, <3>2, <3>3, PartDone
  <2>11. PositionInv'
    BY <1>0, <2>2 DEF PositionInv, SameUrl
  <2> QED
    BY <2>10, <2>11
<1>3. CASE ReadRow /\ ~ (a <= c)
  <2>1. ReadEnds /\ UNCHANGED <<src, got>>
    BY <1>0, <1>3 DEF ReadRow
  <2>2. a..c = {}
    <3> HIDE DEF a, c
    <3> QED
      BY <1>0, <1>3
  <2>3. \A j \in a..c : Parts[j] = << >>
    BY <2>2
  <2> QED
    BY <1>0, <2>1, <2>3, YieldEnds
<1>4. CASE DatabaseFails
  <2>1. Abort("final") /\ UNCHANGED <<src, got>>
    BY <1>4 DEF DatabaseFails
  <2> QED
    BY <1>0, <2>1, AbortStays
<1> QED
  BY <1>2, <1>3, <1>4


\* A source that starts has its parts all ahead of it.
LEMMA YieldBegins ==
    ASSUME TypeOK, UNCHANGED <<target, files>>, target.kind # "parallel",
           NEW list \in Seq(Nat), src' = AtStart(list), got' = << >>, ~result'.ended,
           target.kind \in {"file", "dir"} =>
               /\ target.kind = "file" => Count > 0
               /\ \A k \in 1..Len(list) : list[k] \in 1..Count
               /\ \A k, l \in 1..Len(list) : list[k] = list[l] => k = l
    PROVE  YieldInv' /\ PositionInv'
<1>0. /\ src'.list = list /\ src'.at = 1 /\ src'.line = 0 /\ src'.skipped = {}
      /\ src'.cursor = 0 /\ ~ src'.bare /\ ~ src'.strayed
  BY DEF AtStart
<1>1. target.kind \in {"file", "dir", "api", "db"} /\ Count' = Count
  BY Backends DEF Count
<1>2. Len(list) \in Nat
  BY LenProperties
<1>3. Len(Parts)' \in Nat
  <2>1. CASE target.kind \in {"file", "dir"}
    <3> DEFINE n == Len(list)
               part(k) == IF list[k] \in src'.skipped THEN << >> ELSE Items(list[k])'
    <3>1. Parts' = [k \in 1..n |-> part(k)]
      BY <1>0, <2>1 DEF Parts, FileParts
    <3> HIDE DEF n, part
    <3>2. n \in Nat => Len([k \in 1..n |-> part(k)]) = n
      BY SMT
    <3> QED
      BY <1>2, <3>1, <3>2 DEF n
  <2>2. CASE target.kind \in {"api", "db"}
    <3>1. PageParts' = PageParts /\ RowParts' = RowParts
      BY DEF PageParts, RowParts
    <3>2. Parts' = Parts
      BY <2>2, <3>1 DEF Parts
    <3> QED
      BY <3>2, PartsLength
  <2> QED
    BY <1>1, <2>1, <2>2
<1>4. got' = UpTo(Parts', src'.at - 1) \o OpenPart'
  <2>1. OpenPart' = << >>
    BY <1>0 DEF OpenPart
  <2>2. src'.at - 1 = 0 /\ UpTo(Parts', 0) = << >>
    BY <1>0, UpToNone
  <2>3. << >> \o << >> = << >>
    BY EmptySeq, ConcatEmptySeq
  <2> QED
    BY <2>1, <2>2, <2>3
<1>5. src'.at <= Len(Parts)' + 1
  BY <1>0, <1>3
<1>6. YieldInv'
  BY <1>0, <1>4, <1>5 DEF YieldInv
<1>7. PositionInv'
  <2>1. \A m \in 1..(src'.at - 1) : FALSE
    BY <1>0
  <2> QED
    BY <1>0, <1>1, <2>1 DEF PositionInv
<1> QED
  BY <1>6, <1>7

\* A new run begins, or the handler raised before there was one.
LEMMA StartYields ==
    ASSUME TypeOK, YieldInv, PositionInv, target.kind # "parallel", Start
    PROVE  YieldInv' /\ PositionInv'
<1>1. CASE Raise /\ UNCHANGED <<src, got, result>>
  <2>1. pc' \in {"start", "failed"}
    BY <1>1, RaiseTypes DEF TypeOK
  <2>2. YieldsOn
    BY <1>1, <2>1 DEF YieldsOn
  <2>3. UNCHANGED <<target, files>>
    BY DEF Start
  <2> QED
    BY <1>1, <2>2, <2>3, YieldStays
<1>2. CASE src' = AtStart(<< >>) /\ got' = << >> /\ result' = Fresh
  <2>1. /\ UNCHANGED <<target, files>> /\ ~result'.ended
        /\ target.kind = "file" => Count > 0
    BY <1>2 DEF Start, Fresh, PositionInv
  <2> DEFINE list == << >>
  <2>2. list \in Seq(Nat) /\ \A k \in 1..Len(list) : FALSE
    BY EmptySeq
  <2>3. src' = AtStart(list)
    BY <1>2
  <2> HIDE DEF list
  <2> QED
    BY <1>2, <2>1, <2>2, <2>3, YieldBegins
<1> QED
  BY <1>1, <1>2 DEF Start

\* The source is built: the directory is listed, each file once.
LEMMA BuildYields ==
    ASSUME TypeOK, YieldInv, PositionInv, target.kind # "parallel", BuildSource
    PROVE  YieldInv' /\ PositionInv'
<1>0. pc = "build" /\ UNCHANGED <<target, files, got>> /\ result \in PipelineResult
  BY DEF BuildSource, jobVars, TypeOK
<1>1. src.at = 1 /\ src.line = 0 /\ ~result.ended /\ ~ src.strayed
  BY <1>0 DEF YieldInv
<1>2. got' = << >>
  <2>1. got = UpTo(Parts, src.at - 1)
    BY <1>1, PartsGone
  <2>2. src.at - 1 = 0
    BY <1>1
  <2> QED
    BY <1>0, <2>1, <2>2, UpToNone
<1>3. CASE UNCHANGED src /\ (Abort("done") \/ Abort("finish"))
  <2>1. pc' \in {"done", "finish"} /\ result'.ended = result.ended
    BY <1>0, <1>3 DEF Abort, PipelineResult
  <2>2. YieldsOn
    BY <2>1 DEF YieldsOn
  <2> QED
    BY <1>0, <1>3, <2>2, YieldStays
<1>4. ASSUME NEW list \in Seq(Nat), src' = AtStart(list), result' = result,
             target.kind \in {"file", "dir"} =>
               /\ \A k \in 1..Len(list) : list[k] \in 1..Count
               /\ \A k, l \in 1..Len(list) : list[k] = list[l] => k = l
      PROVE  YieldInv' /\ PositionInv'
  <2>1. target.kind = "file" => Count > 0
    BY DEF PositionInv
  <2>2. ~result'.ended
    BY <1>1, <1>4
  <2> QED
    BY <1>0, <1>2, <1>4, <2>1, <2>2, YieldBegins
<1>5. CASE target.kind = "file" /\ src' = AtStart(<<1>>) /\ result' = result
  <2> DEFINE list == <<1>>
  <2>1. list \in Seq(Nat) /\ \A k \in 1..Len(list) : k = 1 /\ list[k] = 1
    OBVIOUS
  <2>2. 1 \in 1..Count
    <3>1. Count > 0 /\ Count \in Nat
      BY <1>5, LenProperties DEF PositionInv, TypeOK, Count
    <3> QED
      BY <3>1
  <2>3. src' = AtStart(list)
    BY <1>5
  <2> HIDE DEF list
  <2>4. /\ \A k \in 1..Len(list) : list[k] \in 1..Count
        /\ \A k, l \in 1..Len(list) : list[k] = list[l] => k = l
    BY <2>1, <2>2
  <2> QED
    BY <1>4, <1>5, <2>1, <2>3, <2>4
<1>6. CASE /\ target.kind = "dir" /\ result' = result
           /\ src' = AtStart(Only(AllFiles, {i \in 1..Count : files[i].cond # "gone"}))
  <2> DEFINE there == {i \in 1..Count : files[i].cond # "gone"}
             list == Only(AllFiles, there)
  <2>1. src' = AtStart(list)
    BY <1>6
  <2> HIDE DEF there
  <2>2. list \in Seq(Nat) /\ Distinct(list) /\ list \in Seq(1..Count)
    BY FileNumbers DEF TypeOK
  <2> HIDE DEF list
  <2>3. \A k \in 1..Len(list) : list[k] \in 1..Count
    BY <2>2, ElementOfSeq
  <2>4. \A k, l \in 1..Len(list) : list[k] = list[l] => k = l
    BY <2>2 DEF Distinct
  <2> QED
    BY <1>4, <1>6, <2>1, <2>2, <2>3, <2>4
<1>7. CASE target.kind \notin {"file", "dir"} /\ src' = AtStart(<< >>) /\ result' = result
  <2> DEFINE list == << >>
  <2>1. list \in Seq(Nat)
    BY EmptySeq
  <2>2. src' = AtStart(list)
    BY <1>7
  <2> HIDE DEF list
  <2> QED
    BY <1>4, <1>7, <2>1, <2>2
<1> QED
  BY <1>3, <1>5, <1>6, <1>7 DEF BuildSource


\* A file that disappears keeps its part: what was read of it, and what is
\* ahead, is found out when it is opened.
LEMMA VanishYields ==
    ASSUME TypeOK, YieldInv, PositionInv, target.kind # "parallel", Vanish
    PROVE  YieldInv' /\ PositionInv'
<1>0. /\ UNCHANGED <<target, pc, src, got, result>> /\ target.kind \in {"file", "dir"}
      /\ src \in Positions /\ src.list \in Seq(Nat) /\ src.at \in Nat \ {0}
      /\ ~ src.strayed
  BY DEF Vanish, TypeOK, Positions, PositionInv
<1>1. PICK j \in 1..Count : files' = [files EXCEPT ![j].cond = "gone"]
  BY DEF Vanish
<1>2. /\ Count' = Count
      /\ \A i \in 1..Count : /\ Items(i)' = Items(i)
                             /\ Visible(files'[i]) = Visible(files[i])
                             /\ TakenLines(files'[i]) = TakenLines(files[i])
  BY <1>1, ItemsVanished DEF TypeOK
<1>3. \A k \in 1..Len(src.list) : src.list[k] \in 1..Count
  BY <1>0 DEF PositionInv
<1>4. Parts' = Parts
  <2>1. \A k \in 1..Len(src.list) : Items(src.list[k])' = Items(src.list[k])
    BY <1>0, <1>2, <1>3
  <2>2. FileParts' = FileParts
    BY <1>0, <2>1 DEF FileParts
  <2> QED
    BY <1>0, <2>2 DEF Parts
<1>5. Len(Parts) = Len(src.list) /\ Len(src.list) \in Nat
  BY <1>0, PartsLength
<1>6. src.line > 0 => src.list[src.at] \in 1..Count
  <2> SUFFICES ASSUME src.line > 0 PROVE src.list[src.at] \in 1..Count
    OBVIOUS
  <2>1. src.at <= Len(src.list)
    BY <1>0, <1>5 DEF YieldInv
  <2>2. src.at \in 1..Len(src.list)
    BY <1>0, <1>5, <2>1
  <2> QED
    BY <1>3, <2>2
<1>7. OpenPart' = OpenPart
  <2>1. CASE src.line = 0
    BY <1>0, <2>1 DEF OpenPart
  <2>2. CASE src.line # 0
    <3>1. src.line > 0
      BY <1>0, <2>2 DEF Positions
    <3>2. TakenLines(files'[src.list[src.at]]) = TakenLines(files[src.list[src.at]])
      BY <1>2, <1>6, <3>1
    <3> QED
      BY <1>0, <3>2 DEF OpenPart
  <2> QED
    BY <2>1, <2>2
<1>8. YieldInv'
  BY <1>0, <1>4, <1>7 DEF YieldInv
<1>9. PositionInv'
  <2>1. src.line > 0 =>
            src.line <= Len(Visible(files'[src.list[src.at]])) + 1
    BY <1>0, <1>2, <1>6 DEF PositionInv
  <2> QED
    BY <1>0, <1>2, <2>1 DEF PositionInv
<1> QED
  BY <1>8, <1>9

\* The other steps of a run over a source read nothing.
LEMMA RunStays ==
    ASSUME TypeOK, ControlInv, YieldInv, PositionInv, target.kind # "parallel",
           \/ StartRun \/ Sample \/ Finalise \/ FlushFails
           \/ FinishRun \/ Return \/ Outage \/ Crash
    PROVE  YieldInv' /\ PositionInv'
<1>0. UNCHANGED <<target, files, src, got>> /\ result \in PipelineResult
  BY DEF StartRun, Sample, Finalise, FlushFails, FinishRun, Return, Outage, Crash, jobVars,
         TypeOK
<1>1. CASE StartRun \/ FinishRun \/ Return
  BY <1>0, <1>1, YieldStays DEF StartRun, FinishRun, Return, YieldsOn
<1>2. CASE Sample
  <2>1. pc = "sample" /\ pc' \in {"read", "final"} /\ result'.ended = result.ended
    BY <1>0, <1>2 DEF Sample, Abort, PipelineResult
  <2>2. YieldsOn
    BY <2>1 DEF YieldsOn
  <2> QED
    BY <1>0, <2>2, YieldStays
<1>3. CASE Finalise \/ FlushFails
  <2>1. pc' \in {"done", "finish"} /\ result'.ended = result.ended
    BY <1>0, <1>3 DEF Finalise, FlushFails, AfterRun, PipelineResult
  <2>2. YieldsOn
    BY <2>1 DEF YieldsOn
  <2> QED
    BY <1>0, <2>2, YieldStays
<1>4. CASE Outage \/ Crash
  <2>1. pc' \in {"start", "failed", "lost"} /\ result' = result
    BY <1>4, RaiseTypes DEF Outage, Crash, TypeOK
  <2>2. YieldsOn
    BY <2>1 DEF YieldsOn
  <2> QED
    BY <1>0, <2>2, YieldStays
<1> QED
  BY <1>1, <1>2, <1>3, <1>4

\* Every step keeps what was yielded the parts gone through and a beginning of
\* the next one.
LEMMA YieldStep ==
    ASSUME TypeOK, ControlInv, YieldInv, PositionInv, Next
    PROVE  YieldInv' /\ PositionInv'
<1>0. target' = target /\ (Vanish \/ UNCHANGED files)
  BY TargetConstant
<1>1. CASE target.kind = "parallel"
  BY <1>0, <1>1 DEF YieldInv, PositionInv
<1>2. CASE target.kind # "parallel"
  <2>0. pc # "pool"
    BY <1>2 DEF ControlInv
  <2>1. CASE Start
    BY <1>2, <2>1, StartYields
  <2>2. CASE BuildSource
    BY <1>2, <2>2, BuildYields
  <2>3. CASE Vanish
    BY <1>2, <2>3, VanishYields
  <2>4. CASE OpenFile \/ ReadLine \/ CloseFile \/ FilesEnd
    <3>1. UNCHANGED <<target, files>> /\ target.kind \in {"file", "dir"}
      BY <2>4 DEF OpenFile, ReadLine, CloseFile, FilesEnd, Reads, jobVars
    <3> QED
      BY <2>4, <3>1, FilesYield
  <2>5. CASE Fetch \/ FetchFails \/ Redirected \/ ReadItem \/ PageEnds \/ PagesEnd
    <3>1. UNCHANGED <<target, files>> /\ target.kind = "api"
      BY <2>5 DEF Fetch, FetchFails, Redirected, ReadItem, PageEnds, PagesEnd, Reads, jobVars
    <3>2. CASE src'.strayed
      BY <2>5, <3>1, <3>2, StrayedYields
    <3>3. CASE ~ src'.strayed
      <4>1. src \in Positions
        BY DEF TypeOK
      <4>2. ~ src.strayed
        BY <2>5, <3>3, <4>1, StaysStrayed
      <4> QED
        BY <2>5, <3>1, <3>3, <4>2, PagesYield
    <3> QED
      BY <3>2, <3>3
  <2>6. CASE ReadRow \/ DatabaseFails
    <3>1. UNCHANGED <<target, files>> /\ target.kind = "db"
      BY <2>6 DEF ReadRow, DatabaseFails, Reads, jobVars
    <3> QED
      BY <2>6, <3>1, RowsYield
  <2>7. CASE \/ StartRun \/ Sample \/ Finalise \/ FlushFails
             \/ FinishRun \/ Return \/ Outage \/ Crash
    BY <1>2, <2>7, RunStays
  <2>8. ~ (TakeFile \/ WorkerPublishes \/ Merge \/ PoolEnds \/ WorkerRaises \/ WorkerDies)
    <3>1. ~TakeFile /\ ~WorkerPublishes
      BY <2>0 DEF TakeFile, WorkerPublishes
    <3>2. ~Merge
      BY <2>0, Zenon DEF Merge
    <3>4. ~PoolEnds
      BY <2>0 DEF PoolEnds
    <3>3. ~WorkerRaises /\ ~WorkerDies
      BY <2>0 DEF WorkerRaises, WorkerDies
    <3> QED
      BY <3>1, <3>2, <3>3, <3>4
  <2>9. \/ Start \/ BuildSource \/ Vanish
        \/ OpenFile \/ ReadLine \/ CloseFile \/ FilesEnd
        \/ Fetch \/ FetchFails \/ Redirected \/ ReadItem \/ PageEnds \/ PagesEnd
        \/ ReadRow \/ DatabaseFails
        \/ StartRun \/ Sample \/ Finalise \/ FlushFails
        \/ FinishRun \/ Return \/ Outage \/ Crash
    BY <2>8 DEF Next, Progress
  <2> QED
    BY <2>1, <2>2, <2>3, <2>4, <2>5, <2>6, <2>7, <2>9
<1> QED
  BY <1>1, <1>2

\* In every reachable state a source is where it should be, and has yielded
\* what lies before it.
LEMMA YieldsHold == Spec => [](YieldInv /\ PositionInv)
<1>1. Init => YieldInv /\ PositionInv
  <2> SUFFICES ASSUME Init PROVE YieldInv /\ PositionInv
    OBVIOUS
  <2>1. TypeOK
    BY InitTypes
  <2>2. /\ src.list = << >> /\ src.at = 1 /\ src.line = 0 /\ src.cursor = 0
        /\ ~ src.bare /\ ~ src.strayed
    BY DEF Init, AtStart
  <2>3. target.kind # "parallel" => Len(Parts) \in Nat
    BY <2>1, PartsLength
  <2>4. got = UpTo(Parts, src.at - 1) \o OpenPart
    <3>1. OpenPart = << >> /\ got = << >> /\ src.at - 1 = 0
      BY <2>2 DEF OpenPart, Init
    <3>2. << >> \o << >> = << >>
      BY EmptySeq, ConcatEmptySeq
    <3> QED
      BY <3>1, <3>2, UpToNone
  <2>5. ~result.ended
    BY DEF Init, Fresh
  <2>6. YieldInv
    BY <2>2, <2>3, <2>4, <2>5 DEF YieldInv
  <2>7. target.kind = "file" => Count > 0
    <3>1. target.kind = "file" => files # << >>
      BY DEF Init
    <3> QED
      BY <2>1, <3>1, EmptySeq, LenProperties DEF TypeOK, Count
  <2>8. /\ \A k \in 1..Len(src.list) : FALSE
        /\ \A k \in src.at..Len(src.list) : FALSE
        /\ \A m \in 1..(src.at - 1) : FALSE
    BY <2>2
  <2>9. PositionInv
    BY <2>2, <2>7, <2>8 DEF PositionInv
  <2> QED
    BY <2>6, <2>9
<1>2. TypeOK /\ ControlInv /\ YieldInv /\ PositionInv /\ [Next]_vars => (YieldInv /\ PositionInv)'
  <2> SUFFICES ASSUME TypeOK, ControlInv, YieldInv, PositionInv, [Next]_vars
               PROVE  YieldInv' /\ PositionInv'
    OBVIOUS
  <2>1. CASE Next
    BY <2>1, YieldStep
  <2>2. CASE UNCHANGED vars
    <3>0. UNCHANGED <<target, files, pc, src, got, result>>
      BY <2>2 DEF vars
    <3>1. Parts' = Parts /\ Count' = Count /\ OpenPart' = OpenPart
      BY <3>0, PartsUnmoved
    <3> QED
      BY <3>0, <3>1 DEF YieldInv, PositionInv
  <2> QED
    BY <2>1, <2>2
<1> QED
  BY <1>1, <1>2, TypesHold, PTL DEF Spec

\* What a source yields is a beginning of what it holds: no record twice, none
\* out of order, through skipped files, retried requests, cursors and redirects
\* to a place that answers with the page wanted; and a read that ended without
\* an exception has yielded all of it.
THEOREM ReadsInOrderHolds == Spec => []ReadsInOrder
<1>1. TypeOK /\ YieldInv /\ PositionInv => ReadsInOrder
  <2> SUFFICES ASSUME TypeOK, YieldInv, PositionInv, target.kind # "parallel", ~ src.strayed
               PROVE  IsPrefix(got, Holds) /\ (result.ended => got = Holds)
    BY DEF ReadsInOrder
  <2> DEFINE m == src.at - 1
             n == Len(Parts)
  <2>1. m \in Nat /\ m <= n /\ n \in Nat /\ m + 1 = src.at
    BY PartsGone DEF TypeOK, Positions
  <2>2. \A k \in 1..n : Parts[k] \in Seq(Records)
    BY PartsSeq
  <2>3. CASE src.line = 0
    <3>1. got = UpTo(Parts, m) /\ got \in Seq(Records)
      BY <2>3, PartsGone
    <3>2. result.ended => \A k \in (m + 1)..n : Parts[k] = << >>
      BY <2>1 DEF YieldInv
    <3> HIDE DEF m, n
    <3>3. /\ Begins(UpTo(Parts, m), UpTo(Parts, n), Records)
          /\ result.ended => UpTo(Parts, n) = UpTo(Parts, m)
      <4> DEFINE P == Parts
      <4>1. \A k \in 1..n : P[k] \in Seq(Records)
        BY <2>2
      <4>2. result.ended => \A k \in (m + 1)..n : P[k] = << >>
        BY <3>2
      <4> HIDE DEF P
      <4>3. Begins(UpTo(P, m), UpTo(P, n), Records)
        BY <2>1, <4>1, UpToBeginning
      <4>4. result.ended => UpTo(P, n) = UpTo(P, m)
        BY <2>1, <4>1, <4>2, UpToBeginning
      <4> QED
        BY <4>3, <4>4 DEF P
    <3>4. Holds = UpTo(Parts, n)
      BY DEF Holds, n
    <3>5. PICK r \in Seq(Records) : Holds = got \o r
      BY <3>1, <3>3, <3>4 DEF Begins
    <3> QED
      BY <3>1, <3>2, <3>3, <3>4, <3>5, ConcatPrefix
  <2>4. CASE src.line # 0
    <3>0. src.line > 0 /\ ~result.ended
      <4>1. src.line \in Nat
        BY DEF TypeOK, Positions
      <4>2. ~result.ended
        BY <2>4 DEF YieldInv
      <4> QED
        BY <2>4, <4>1, <4>2
    <3>1. /\ src.at \in 1..Len(Parts) /\ OpenPart \in Seq(Records)
          /\ Begins(OpenPart, Parts[src.at], Records)
      BY <3>0, OpenPartBegins
    <3>2. UpTo(Parts, m) \in Seq(Records) /\ got = UpTo(Parts, m) \o OpenPart
      BY PartsGone DEF YieldInv
    <3>3. PICK r \in Seq(Records) : Parts[src.at] = OpenPart \o r
      BY <3>1 DEF Begins
    <3> DEFINE at == src.at
    <3>4. at \in Nat /\ at <= n /\ at = m + 1 /\ Parts[at] = OpenPart \o r
      BY <2>1, <3>1, <3>3
    <3> HIDE DEF m, n, at
    <3>5. UpTo(Parts, at) = UpTo(Parts, m) \o Parts[at]
      BY <2>1, <3>4, UpToNext
    <3>6. UpTo(Parts, at) = got \o r
      <4> DEFINE u == UpTo(Parts, m)
                 o == OpenPart
      <4>1. u \in Seq(Records) /\ o \in Seq(Records) /\ got = u \o o
        BY <3>1, <3>2
      <4>2. UpTo(Parts, at) = u \o (o \o r)
        BY <3>4, <3>5
      <4> HIDE DEF u, o
      <4>3. (u \o o) \o r = u \o (o \o r)
        BY <4>1, ConcatAssociative
      <4> QED
        BY <4>1, <4>2, <4>3
    <3>7. Begins(UpTo(Parts, at), UpTo(Parts, n), Records)
      <4> DEFINE P == Parts
      <4>1. \A k \in 1..n : P[k] \in Seq(Records)
        BY <2>2
      <4> HIDE DEF P
      <4>2. Begins(UpTo(P, at), UpTo(P, n), Records)
        BY <2>1, <3>4, <4>1, UpToBeginning
      <4> QED
        BY <4>2 DEF P
    <3>8. PICK q \in Seq(Records) : UpTo(Parts, n) = UpTo(Parts, at) \o q
      BY <3>7 DEF Begins
    <3>9. got \in Seq(Records) /\ r \o q \in Seq(Records)
      BY <3>1, <3>2, ConcatProperties
    <3>10. Holds = got \o (r \o q)
      <4>1. Holds = (got \o r) \o q
        BY <3>6, <3>8 DEF Holds, n
      <4> QED
        BY <3>9, <4>1, ConcatAssociative
    <3> QED
      BY <3>0, <3>9, <3>10, ConcatPrefix
  <2> QED
    BY <2>3, <2>4
<1> QED
  BY <1>1, TypesHold, YieldsHold, PTL
=============================================================================
