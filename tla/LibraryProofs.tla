---------------------------- MODULE LibraryProofs ----------------------------
(***************************************************************************)
(* What Min, FlattenSeq and SetToSeq of the community modules return.      *)
(***************************************************************************)
EXTENDS SequencesExt, WellFoundedInduction, FiniteSetTheorems, SequenceTheorems, TLAPS

-----------------------------------------------------------------------------
(* Min *)

(* A set of natural numbers that has a member has a smallest one.          *)
LEMMA SmallestMember ==
  ASSUME NEW S \in SUBSET Nat, S # {}
  PROVE  \E m \in S : \A x \in S : m <= x
<1> DEFINE Less == {ss \in Nat \X Nat : ss[1] < ss[2]}
<1>1. IsWellFoundedOn(Less, Nat)
  BY NatLessThanWellFounded DEF OpToRel
<1>2. \A x, y \in Nat : x < y => <<x, y>> \in Less
  OBVIOUS
<1> HIDE DEF Less
<1>3. PICK m \in S : \A x \in S : ~(<<x, m>> \in Less)
  BY <1>1, WFMin, S \subseteq Nat
<1>4. ASSUME NEW x \in S PROVE m <= x
  <2>1. m \in Nat /\ x \in Nat
    OBVIOUS
  <2>2. ~(x < m)
    BY <1>2, <1>3, <2>1
  <2> QED BY <2>1, <2>2
<1> QED BY <1>4

LEMMA MinInSet ==
  ASSUME NEW S \in SUBSET Nat, S # {}
  PROVE  Min(S) \in S
<1>1. \E x \in S : \A y \in S : x =< y
  BY SmallestMember
<1> QED BY <1>1 DEF Min

(* It is the one below the others.                                         *)
LEMMA MinIs ==
  ASSUME NEW S \in SUBSET Nat, NEW m \in S, \A k \in S : m <= k
  PROVE  Min(S) = m
<1>1. PICK j : j = Min(S)
  OBVIOUS
<1>2. j \in S /\ \A k \in S : j <= k
  BY <1>1 DEF Min
<1> QED BY <1>1, <1>2

-----------------------------------------------------------------------------
(* FlattenSeq *)

(* FlattenSeq, one sequence at a time. *)
Joined(flat, seqs, i) == IF i = 1 THEN seqs[i] ELSE flat[i - 1] \o seqs[i]
Flattens(flat, seqs, n) == flat = [i \in 1 .. n |-> Joined(flat, seqs, i)]

(* The sequences behind the first are joined to what there is. *)
LEMMA JoinedNext == \A flat, seqs, i : i # 1 => Joined(flat, seqs, i) = flat[i - 1] \o seqs[i]
BY Zenon DEF Joined

(* Joining goes on with the next sequence, *)
LEMMA FlattensOn ==
  ASSUME NEW seqs, NEW n \in Nat, NEW flat, Flattens(flat, seqs, n)
  PROVE  \E longer : Flattens(longer, seqs, n + 1)
<1> DEFINE longer == [i \in 1 .. n + 1 |-> IF i <= n THEN flat[i] ELSE Joined(flat, seqs, i)]
<1>1. ASSUME NEW i \in 1 .. n + 1 PROVE longer[i] = Joined(longer, seqs, i)
  <2>1. i # 1 => longer[i - 1] = flat[i - 1]
    OBVIOUS
  <2>2. Joined(longer, seqs, i) = Joined(flat, seqs, i)
    BY <2>1 DEF Joined
  <2>3. i <= n => flat[i] = Joined(flat, seqs, i)
    BY DEF Flattens
  <2> QED BY <2>2, <2>3
<1>2. longer = [i \in 1 .. n + 1 |-> Joined(longer, seqs, i)]
  BY <1>1
<1> QED BY <1>2 DEF Flattens

(* so FlattenSeq joins any number of them. *)
LEMMA FlattenReads == \A seqs : \A n \in Nat : \E flat : Flattens(flat, seqs, n)
<1> SUFFICES ASSUME NEW seqs PROVE \A n \in Nat : \E flat : Flattens(flat, seqs, n)
  OBVIOUS
<1> DEFINE stuck == {n \in Nat : ~\E flat : Flattens(flat, seqs, n)}
<1>1. ASSUME stuck # {} PROVE FALSE
  <2>1. PICK n \in stuck : \A k \in stuck : n <= k
    BY <1>1, SmallestMember
  <2>2. CASE n = 0
    <3> DEFINE first == [i \in 1 .. 0 |-> 0]
    <3>1. first = [i \in 1 .. 0 |-> Joined(first, seqs, i)]
      OBVIOUS
    <3> QED BY <2>1, <2>2, <3>1 DEF Flattens
  <2>3. CASE n # 0
    <3>1. n - 1 \in Nat /\ n - 1 \notin stuck /\ (n - 1) + 1 = n
      BY <2>1, <2>3
    <3> QED BY <2>1, <3>1, FlattensOn
  <2> QED BY <2>2, <2>3
<1> QED BY <1>1

(* What is joined of the first sequences. *)
LEMMA FlattenUnfolds ==
  ASSUME NEW S, NEW seqs \in Seq(S)
  PROVE  \E flat : /\ FlattenSeq(seqs) = IF seqs = <<>> THEN <<>> ELSE flat[Len(seqs)]
                   /\ \A i \in 1 .. Len(seqs) : flat[i] = Joined(flat, seqs, i)
<1> DEFINE flat == CHOOSE f : Flattens(f, seqs, Len(seqs))
<1>1. Len(seqs) \in Nat /\ (Len(seqs) = 0 <=> seqs = <<>>)
  OBVIOUS
<1>2. Flattens(flat, seqs, Len(seqs))
  BY <1>1, FlattenReads
<1>3. FlattenSeq(seqs) = IF Len(seqs) = 0 THEN seqs ELSE flat[Len(seqs)]
  BY Zenon DEF FlattenSeq, Flattens, Joined
<1> HIDE DEF flat
<1>4. \A i \in 1 .. Len(seqs) : flat[i] = Joined(flat, seqs, i)
  BY <1>2 DEF Flattens
<1>5. FlattenSeq(seqs) = IF seqs = <<>> THEN <<>> ELSE flat[Len(seqs)]
  BY <1>1, <1>3
<1> QED BY <1>4, <1>5

(* What is joined of sequences over a set is a sequence over it. *)
LEMMA JoinedType ==
  ASSUME NEW S, NEW seqs \in Seq(Seq(S)), NEW flat,
         \A i \in 1 .. Len(seqs) : flat[i] = Joined(flat, seqs, i)
  PROVE  \A i \in 1 .. Len(seqs) : flat[i] \in Seq(S)
<1> DEFINE wrong == {i \in Nat : i \in 1 .. Len(seqs) /\ flat[i] \notin Seq(S)}
<1>1. ASSUME wrong # {} PROVE FALSE
  <2>1. PICK i \in wrong : \A k \in wrong : i <= k
    BY <1>1, SmallestMember
  <2>2. i \in Nat /\ i \in 1 .. Len(seqs) /\ flat[i] \notin Seq(S) /\ seqs[i] \in Seq(S)
    BY <2>1
  <2>3. flat[i] = Joined(flat, seqs, i)
    BY <2>2
  <2>4. CASE i = 1
    BY <2>2, <2>3, <2>4 DEF Joined
  <2>5. CASE i # 1
    <3>1. i - 1 \in Nat /\ i - 1 \in 1 .. Len(seqs) /\ i - 1 < i
      BY <2>2, <2>5
    <3>2. i - 1 \notin wrong
      BY <2>1, <3>1
    <3>3. flat[i - 1] \in Seq(S)
      BY <3>1, <3>2
    <3>4. flat[i] = flat[i - 1] \o seqs[i]
      BY <2>3, <2>5, JoinedNext, Zenon
    <3> QED BY <2>2, <3>3, <3>4
  <2> QED BY <2>4, <2>5
<1>2. ASSUME NEW i \in 1 .. Len(seqs), flat[i] \notin Seq(S) PROVE FALSE
  <2>1. i \in wrong
    BY <1>2
  <2> QED BY <1>1, <2>1
<1> QED BY <1>2

(* FlattenSeq makes a sequence of the items. *)
LEMMA FlattenType ==
  ASSUME NEW S, NEW seqs \in Seq(Seq(S))
  PROVE  FlattenSeq(seqs) \in Seq(S)
<1>1. PICK flat : /\ FlattenSeq(seqs) = IF seqs = <<>> THEN <<>> ELSE flat[Len(seqs)]
                  /\ \A i \in 1 .. Len(seqs) : flat[i] = Joined(flat, seqs, i)
  BY FlattenUnfolds
<1>2. \A i \in 1 .. Len(seqs) : flat[i] \in Seq(S)
  BY <1>1, JoinedType
<1>3. seqs # <<>> => Len(seqs) \in 1 .. Len(seqs)
  OBVIOUS
<1> QED BY <1>1, <1>2, <1>3

(* A sequence that is joined last is the end. *)
LEMMA FlattenAppend ==
  ASSUME NEW S, NEW seqs \in Seq(Seq(S)), NEW s \in Seq(S)
  PROVE  FlattenSeq(Append(seqs, s)) = FlattenSeq(seqs) \o s
<1> DEFINE more == Append(seqs, s)
           T == Seq(S)
<1>1. /\ more \in Seq(T) /\ more # <<>> /\ Len(more) = Len(seqs) + 1
      /\ \A i \in 1 .. Len(seqs) : more[i] = seqs[i]
      /\ more[Len(seqs) + 1] = s
      /\ Len(seqs) \in Nat
  <2>1. seqs \in Seq(T) /\ s \in T
    OBVIOUS
  <2> HIDE DEF T
  <2> QED BY <2>1, AppendProperties, LenProperties
<1> HIDE DEF more
<1>2. PICK flat : /\ FlattenSeq(seqs) = IF seqs = <<>> THEN <<>> ELSE flat[Len(seqs)]
                  /\ \A i \in 1 .. Len(seqs) : flat[i] = Joined(flat, seqs, i)
  BY FlattenUnfolds
<1>3. PICK flat2 : /\ FlattenSeq(more) = IF more = <<>> THEN <<>> ELSE flat2[Len(more)]
                   /\ \A i \in 1 .. Len(more) : flat2[i] = Joined(flat2, more, i)
  BY <1>1, FlattenUnfolds
<1> DEFINE wrong == {i \in Nat : i \in 1 .. Len(seqs) /\ flat2[i] # flat[i]}
<1>4. ASSUME wrong # {} PROVE FALSE
  <2>1. PICK i \in wrong : \A k \in wrong : i <= k
    BY <1>4, SmallestMember
  <2>2. i \in Nat /\ i \in 1 .. Len(seqs) /\ flat2[i] # flat[i] /\ i \in 1 .. Len(more)
    BY <1>1, <2>1
  <2>3. flat[i] = Joined(flat, seqs, i) /\ flat2[i] = Joined(flat2, more, i) /\ more[i] = seqs[i]
    BY <1>1, <1>2, <1>3, <2>2
  <2>4. CASE i = 1
    BY <2>2, <2>3, <2>4 DEF Joined
  <2>5. CASE i # 1
    <3>1. i - 1 \in Nat /\ i - 1 \in 1 .. Len(seqs) /\ i - 1 < i
      BY <2>2, <2>5
    <3>2. flat2[i - 1] = flat[i - 1]
      <4>1. flat2[i - 1] # flat[i - 1] => i - 1 \in wrong
        BY <3>1
      <4> HIDE DEF wrong
      <4> QED BY <2>1, <2>2, <3>1, <4>1
    <3> QED BY <2>2, <2>3, <2>5, <3>2 DEF Joined
  <2> QED BY <2>4, <2>5
<1>5. ASSUME NEW i \in 1 .. Len(seqs) PROVE flat2[i] = flat[i]
  <2>1. flat2[i] # flat[i] => i \in wrong
    OBVIOUS
  <2> QED BY <1>4, <2>1
<1>6. FlattenSeq(more) = Joined(flat2, more, Len(seqs) + 1)
  BY <1>1, <1>3
<1>7. CASE seqs = <<>>
  <2>1. FlattenSeq(seqs) = <<>> /\ Len(seqs) = 0
    BY <1>2, <1>7
  <2>2. FlattenSeq(more) = s
    BY <1>1, <1>6, <2>1 DEF Joined
  <2>3. <<>> \o s = s
    OBVIOUS
  <2> QED BY <2>1, <2>2, <2>3 DEF more
<1>8. CASE seqs # <<>>
  <2>1. Len(seqs) \in 1 .. Len(seqs) /\ Len(seqs) + 1 # 1 /\ (Len(seqs) + 1) - 1 = Len(seqs)
    BY <1>1, <1>8
  <2>2. FlattenSeq(more) = flat2[Len(seqs)] \o s
    BY <1>1, <1>6, <2>1 DEF Joined
  <2> QED BY <1>2, <1>5, <1>8, <2>1, <2>2 DEF more
<1> QED BY <1>7, <1>8

(* One that is joined first is the beginning. *)
LEMMA FlattenFront ==
  ASSUME NEW S, NEW seqs \in Seq(Seq(S)), NEW s \in Seq(S)
  PROVE  FlattenSeq(<<s>> \o seqs) = s \o FlattenSeq(seqs)
<1> DEFINE more == <<s>> \o seqs
<1>1. /\ more \in Seq(Seq(S)) /\ more # <<>> /\ Len(more) = Len(seqs) + 1
      /\ \A i \in 1 .. Len(seqs) : more[i + 1] = seqs[i]
      /\ more[1] = s
      /\ Len(seqs) \in Nat
  OBVIOUS
<1> HIDE DEF more
<1>2. PICK flat : /\ FlattenSeq(seqs) = IF seqs = <<>> THEN <<>> ELSE flat[Len(seqs)]
                  /\ \A i \in 1 .. Len(seqs) : flat[i] = Joined(flat, seqs, i)
  BY FlattenUnfolds
<1>3. PICK flat2 : /\ FlattenSeq(more) = IF more = <<>> THEN <<>> ELSE flat2[Len(more)]
                   /\ \A i \in 1 .. Len(more) : flat2[i] = Joined(flat2, more, i)
  BY <1>1, FlattenUnfolds
<1>4. flat2[1] = s
  BY <1>1, <1>3 DEF Joined
<1>5. \A i \in 1 .. Len(seqs) : flat[i] \in Seq(S)
  BY <1>2, JoinedType
<1> DEFINE wrong == {i \in Nat : i \in 1 .. Len(seqs) /\ flat2[i + 1] # s \o flat[i]}
<1>6. ASSUME wrong # {} PROVE FALSE
  <2>1. PICK i \in wrong : \A k \in wrong : i <= k
    BY <1>6, SmallestMember
  <2>2. i \in Nat /\ i \in 1 .. Len(seqs) /\ flat2[i + 1] # s \o flat[i] /\ i + 1 \in 1 .. Len(more)
    BY <1>1, <2>1
  <2>3. ASSUME NEW k \in Nat, k \in 1 .. Len(seqs), k \notin wrong PROVE flat2[k + 1] = s \o flat[k]
    BY <2>3, Zenon
  <2> HIDE DEF wrong
  <2>4. /\ flat[i] = Joined(flat, seqs, i) /\ flat2[i + 1] = Joined(flat2, more, i + 1)
        /\ more[i + 1] = seqs[i] /\ seqs[i] \in Seq(S)
    <3>1. i \in 1 .. Len(seqs) /\ i + 1 \in 1 .. Len(more)
      BY <2>2
    <3>2. flat[i] = Joined(flat, seqs, i)
      BY <1>2, <3>1
    <3>3. flat2[i + 1] = Joined(flat2, more, i + 1)
      BY <1>3, <3>1
    <3>4. more[i + 1] = seqs[i]
      BY <1>1, <3>1
    <3>5. seqs[i] \in Seq(S)
      BY <3>1
    <3> QED BY <3>2, <3>3, <3>4, <3>5
  <2>5. flat2[i + 1] = flat2[i] \o seqs[i]
    <3>1. i + 1 # 1 /\ (i + 1) - 1 = i
      BY <2>2
    <3>2. flat2[i + 1] = flat2[(i + 1) - 1] \o more[i + 1]
      BY <2>4, <3>1, JoinedNext, Zenon
    <3> QED BY <2>4, <3>1, <3>2, Zenon
  <2>6. CASE i = 1
    BY <1>4, <2>2, <2>4, <2>5, <2>6 DEF Joined
  <2>7. CASE i # 1
    <3>1. i - 1 \in Nat /\ i - 1 \in 1 .. Len(seqs) /\ i - 1 < i /\ (i - 1) + 1 = i
      BY <2>2, <2>7
    <3>2. i - 1 \notin wrong
      BY <2>1, <3>1
    <3>3. flat2[i] = s \o flat[i - 1]
      <4>1. flat2[(i - 1) + 1] = s \o flat[i - 1]
        BY <2>3, <3>1, <3>2, Zenon
      <4> QED BY <3>1, <4>1, Zenon
    <3>4. flat[i] = flat[i - 1] \o seqs[i]
      BY <2>4, <2>7, JoinedNext, Zenon
    <3>5. (s \o flat[i - 1]) \o seqs[i] = s \o (flat[i - 1] \o seqs[i])
      <4>1. flat[i - 1] \in Seq(S) /\ seqs[i] \in Seq(S) /\ s \in Seq(S)
        BY <1>5, <2>4, <3>1
      <4>2. PICK a \in Seq(S) : a = flat[i - 1]
        BY <4>1
      <4>3. PICK b \in Seq(S) : b = seqs[i]
        BY <4>1
      <4>4. (s \o a) \o b = s \o (a \o b)
        OBVIOUS
      <4> QED BY <4>2, <4>3, <4>4, Zenon
    <3> QED BY <2>2, <2>5, <3>3, <3>4, <3>5
  <2> QED BY <2>6, <2>7
<1>7. CASE seqs = <<>>
  <2>1. FlattenSeq(seqs) = <<>> /\ Len(more) = 1
    BY <1>1, <1>2, <1>7
  <2>2. FlattenSeq(more) = s
    BY <1>1, <1>3, <1>4, <2>1
  <2>3. s \o <<>> = s
    OBVIOUS
  <2> QED BY <2>1, <2>2, <2>3 DEF more
<1>8. CASE seqs # <<>>
  <2>1. Len(seqs) \in 1 .. Len(seqs)
    BY <1>1, <1>8
  <2>2. flat2[Len(seqs) + 1] = s \o flat[Len(seqs)]
    BY <1>1, <1>6, <2>1
  <2> QED BY <1>1, <1>2, <1>3, <1>8, <2>2 DEF more
<1> QED BY <1>7, <1>8

-----------------------------------------------------------------------------
(* SetToSeq *)

(* The members of a finite set, once each. *)
LEMMA SetToSeqIs ==
  ASSUME NEW S, IsFiniteSet(S)
  PROVE  /\ SetToSeq(S) \in Seq(S)
         /\ Len(SetToSeq(S)) = Cardinality(S)
         /\ Cardinality(S) \in Nat
<1>1. Cardinality(S) \in Nat /\ ExistsBijection(1 .. Cardinality(S), S)
  BY FS_CardinalityType
<1>2. \E f \in [1 .. Cardinality(S) -> S] : IsInjective(f)
  BY <1>1 DEF ExistsBijection, Bijection, Injection, IsInjective
<1> DEFINE f == SetToSeq(S)
<1>3. f \in [1 .. Cardinality(S) -> S]
  BY <1>2, Zenon DEF SetToSeq
<1> HIDE DEF f
<1>4. f \in Seq(S) /\ Len(f) = Cardinality(S)
  BY <1>1, <1>3
<1> QED BY <1>1, <1>4 DEF f
=============================================================================
