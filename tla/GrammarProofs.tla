---------------------------- MODULE GrammarProofs ----------------------------
(***************************************************************************)
(* On every line that the grammar of README.md allows the parser builds    *)
(* the tree of the grammar, and it gives up only where no line that the    *)
(* grammar allows can follow: GrammarInv is inductive, relative to the     *)
(* ParserInv of CommandLineProofs.                                         *)
(***************************************************************************)
EXTENDS GrammarInvariant, CommandLineProofs, FiniteSetTheorems

-----------------------------------------------------------------------------
(* Positions in order *)

(* A set of positions, from left to right. *)
Sorted(s, S) ==
  /\ s \in Seq(S)
  /\ \A x \in S : \E i \in DOMAIN s : s[i] = x
  /\ \A i, j \in DOMAIN s : i < j => s[i] < s[j]

(* Two ways to sort a set agree as far as they go, *)
LEMMA SortedAgree ==
  ASSUME NEW S \in SUBSET Nat, NEW s, Sorted(s, S), NEW t, Sorted(t, S)
  PROVE  \A k \in 1 .. Len(s) : k <= Len(t) => s[k] = t[k]
<1> DEFINE wrong == {k \in 1 .. Len(s) : k <= Len(t) /\ s[k] # t[k]}
<1>1. /\ Len(s) \in Nat /\ DOMAIN s = 1 .. Len(s) /\ \A i \in 1 .. Len(s) : s[i] \in S
      /\ Len(t) \in Nat /\ DOMAIN t = 1 .. Len(t) /\ \A i \in 1 .. Len(t) : t[i] \in S
  BY DEF Sorted
<1>2. ASSUME wrong # {} PROVE FALSE
  <2>1. wrong \in SUBSET Nat
    BY <1>1
  <2>2. PICK k \in wrong : \A x \in wrong : k <= x
    BY <1>2, <2>1, SmallestMember
  <2>3. k \in 1 .. Len(s) /\ k \in 1 .. Len(t) /\ s[k] # t[k]
    BY <1>1, <2>2
  <2>4. ASSUME NEW j \in 1 .. Len(s), j < k PROVE s[j] = t[j] /\ j \in 1 .. Len(t)
    <3>1. j \notin wrong
      BY <1>1, <2>1, <2>2, <2>4
    <3> QED BY <1>1, <2>3, <2>4, <3>1
  <2>5. PICK i \in 1 .. Len(s) : s[i] = t[k]
    BY <1>1, <2>3 DEF Sorted
  <2>6. PICK j \in 1 .. Len(t) : t[j] = s[k]
    BY <1>1, <2>3 DEF Sorted
  <2>7. s[k] \in Nat /\ t[k] \in Nat
    BY <1>1, <2>3
  <2>8. s[k] < t[k]
    <3>1. ~(i < k)
      <4>1. i < k => s[i] = t[i] /\ i \in 1 .. Len(t) /\ t[i] < t[k]
        BY <1>1, <2>3, <2>4, <2>5 DEF Sorted
      <4> QED BY <2>5, <2>7, <4>1
    <3>2. i # k
      BY <2>3, <2>5
    <3>3. k < i
      BY <1>1, <2>3, <2>5, <3>1, <3>2
    <3>4. s[k] < s[i]
      BY <1>1, <2>3, <3>3 DEF Sorted
    <3> QED BY <2>5, <3>4
  <2>9. t[k] < s[k]
    <3>1. ~(j < k)
      <4>1. j < k => s[j] = t[j] /\ j \in 1 .. Len(s) /\ s[j] < s[k]
        BY <1>1, <2>3, <2>4, <2>6 DEF Sorted
      <4> QED BY <2>6, <2>7, <4>1
    <3>2. j # k
      BY <2>3, <2>6
    <3>3. k < j
      BY <1>1, <2>3, <2>6, <3>1, <3>2
    <3>4. t[k] < t[j]
      BY <1>1, <2>3, <3>3 DEF Sorted
    <3> QED BY <2>6, <3>4
  <2> QED BY <2>7, <2>8, <2>9
<1> QED BY <1>2

(* and so there is but one. *)
LEMMA SortedOnce ==
  ASSUME NEW S \in SUBSET Nat, NEW s, Sorted(s, S), NEW t, Sorted(t, S)
  PROVE  s = t
<1>1. /\ s \in Seq(S) /\ Len(s) \in Nat /\ DOMAIN s = 1 .. Len(s) /\ \A i \in 1 .. Len(s) : s[i] \in S
      /\ t \in Seq(S) /\ Len(t) \in Nat /\ DOMAIN t = 1 .. Len(t) /\ \A i \in 1 .. Len(t) : t[i] \in S
  BY DEF Sorted
<1>2. ~(Len(s) < Len(t))
  <2>1. ASSUME Len(s) < Len(t) PROVE FALSE
    <3>1. PICK k : k = Len(s) + 1
      OBVIOUS
    <3>2. k \in 1 .. Len(t) /\ t[k] \in S
      BY <1>1, <2>1, <3>1
    <3>3. PICK i \in 1 .. Len(s) : s[i] = t[k]
      BY <1>1, <3>2 DEF Sorted
    <3>4. t[i] = t[k] /\ i < k /\ i \in 1 .. Len(t)
      BY <1>1, <2>1, <3>1, <3>3, SortedAgree
    <3>5. t[i] < t[k]
      BY <1>1, <3>2, <3>4 DEF Sorted
    <3>6. t[k] \in Nat
      BY <3>2
    <3> QED BY <3>4, <3>5, <3>6
  <2> QED BY <2>1
<1>3. ~(Len(t) < Len(s))
  <2>1. ASSUME Len(t) < Len(s) PROVE FALSE
    <3>1. PICK k : k = Len(t) + 1
      OBVIOUS
    <3>2. k \in 1 .. Len(s) /\ s[k] \in S
      BY <1>1, <2>1, <3>1
    <3>3. PICK i \in 1 .. Len(t) : t[i] = s[k]
      BY <1>1, <3>2 DEF Sorted
    <3>4. s[i] = s[k] /\ i < k /\ i \in 1 .. Len(s)
      BY <1>1, <2>1, <3>1, <3>3, SortedAgree
    <3>5. s[i] < s[k]
      BY <1>1, <3>2, <3>4 DEF Sorted
    <3>6. s[k] \in Nat
      BY <3>2
    <3> QED BY <3>4, <3>5, <3>6
  <2> QED BY <2>1
<1>4. Len(s) = Len(t)
  <2>1. Len(s) \in Nat /\ Len(t) \in Nat
    BY <1>1
  <2> QED BY <1>2, <1>3, <2>1
<1>5. \A i \in 1 .. Len(s) : s[i] = t[i]
  BY <1>1, <1>4, SortedAgree
<1> QED BY <1>1, <1>4, <1>5, SeqEqual

(* A set of positions up to m can be sorted. *)
LEMMA SortedOneMore ==
  ASSUME NEW m \in Nat, NEW S \in SUBSET (1 .. m), NEW s, Sorted(s, S)
  PROVE  Sorted(Append(s, m + 1), S \cup {m + 1})
<1>1. PICK T, t : T = S \cup {m + 1} /\ t = Append(s, m + 1)
  OBVIOUS
<1>2. s \in Seq(T) /\ m + 1 \in T /\ Len(s) \in Nat /\ DOMAIN s = 1 .. Len(s) /\ \A i \in 1 .. Len(s) : s[i] \in S
  <2>1. s \in Seq(S) /\ S \subseteq T
    BY <1>1 DEF Sorted
  <2> QED BY <1>1, <2>1, SeqMonotonic
<1>3. /\ t \in Seq(T) /\ DOMAIN t = 1 .. Len(s) + 1
      /\ \A i \in 1 .. Len(s) : t[i] = s[i]
      /\ t[Len(s) + 1] = m + 1
  BY <1>1, <1>2
<1>4. \A x \in T : \E i \in DOMAIN t : t[i] = x
  <2>1. ASSUME NEW x \in T PROVE \E i \in DOMAIN t : t[i] = x
    <3>1. CASE x \in S
      <4>1. PICK i \in 1 .. Len(s) : s[i] = x
        BY <1>2, <3>1 DEF Sorted
      <4> QED BY <1>2, <1>3, <4>1
    <3>2. CASE x = m + 1
      <4>1. Len(s) + 1 \in DOMAIN t
        BY <1>2, <1>3
      <4> QED BY <1>3, <3>2, <4>1
    <3> QED BY <1>1, <3>1, <3>2
  <2> QED BY <2>1
<1>5. ASSUME NEW i \in DOMAIN t, NEW j \in DOMAIN t, i < j PROVE t[i] < t[j]
  <2>1. i \in 1 .. Len(s) /\ t[i] = s[i]
    BY <1>2, <1>3, <1>5
  <2>2. CASE j \in 1 .. Len(s)
    BY <1>2, <1>3, <1>5, <2>1, <2>2 DEF Sorted
  <2>3. CASE j = Len(s) + 1
    <3>1. s[i] \in 1 .. m /\ t[j] = m + 1
      BY <1>2, <1>3, <2>1, <2>3
    <3> QED BY <2>1, <3>1
  <2> QED BY <1>2, <1>3, <2>2, <2>3
<1> QED BY <1>1, <1>3, <1>4, <1>5 DEF Sorted

(* The positions up to some m can be sorted, whichever they are. *)
LEMMA SortedExists == \A m \in Nat : \A S \in SUBSET (1 .. m) : \E s : Sorted(s, S)
<1> DEFINE stuck == {m \in Nat : ~\A S \in SUBSET (1 .. m) : \E s : Sorted(s, S)}
<1>1. ASSUME stuck # {} PROVE FALSE
  <2>1. PICK m \in stuck : \A k \in stuck : m <= k
    BY <1>1, SmallestMember
  <2>2. PICK S \in SUBSET (1 .. m) : ~\E s : Sorted(s, S)
    BY <2>1
  <2>3. CASE m \notin S
    <3>1. CASE m = 0
      <4>1. S = {} /\ Sorted(<<>>, {})
        BY <3>1 DEF Sorted
      <4> QED BY <2>2, <4>1
    <3>2. CASE m # 0
      <4>1. m - 1 \in Nat /\ ~(m <= m - 1)
        BY <3>2
      <4>2. m - 1 \notin stuck
        BY <2>1, <4>1
      <4>3. \A x \in S : x \in 1 .. m - 1
        BY <2>3
      <4> QED BY <2>2, <4>1, <4>2, <4>3
    <3> QED BY <3>1, <3>2
  <2>4. CASE m \in S
    <3>1. PICK R : R = S \ {m}
      OBVIOUS
    <3>2. m - 1 \in Nat /\ ~(m <= m - 1) /\ (m - 1) + 1 = m
      BY <2>4
    <3>3. m - 1 \notin stuck
      BY <2>1, <3>2
    <3>4. R \in SUBSET (1 .. m - 1)
      BY <3>1
    <3>5. PICK s : Sorted(s, R)
      BY <3>2, <3>3, <3>4
    <3>6. Sorted(Append(s, (m - 1) + 1), R \cup {(m - 1) + 1})
      BY <3>2, <3>4, <3>5, SortedOneMore
    <3>7. S = R \cup {m}
      BY <2>4, <3>1
    <3> QED BY <2>2, <3>2, <3>6, <3>7
  <2> QED BY <2>3, <2>4
<1> QED BY <1>1

(* InOrder of Grammar sorts. *)
LEMMA InOrderIs ==
  ASSUME NEW S \in SUBSET Nat, NEW s, Sorted(s, S)
  PROVE  G!InOrder(S) = s
<1>1. /\ s \in Seq(S) /\ Len(s) \in Nat /\ DOMAIN s = 1 .. Len(s) /\ \A i \in 1 .. Len(s) : s[i] \in S
      /\ s \in [1 .. Len(s) -> S]
  BY DEF Sorted
<1>2. Cardinality(S) = Len(s)
  <2>1. IsFiniteSet(1 .. Len(s)) /\ Cardinality(1 .. Len(s)) = Len(s)
    BY <1>1, FS_Interval
  <2>2. s \in Bijection(1 .. Len(s), S)
    <3>1. \A x \in S : \E i \in 1 .. Len(s) : s[i] = x
      BY <1>1 DEF Sorted
    <3>2. \A i, j \in 1 .. Len(s) : s[i] = s[j] => i = j
      <4>1. \A i, j \in 1 .. Len(s) : i < j => s[i] < s[j]
        BY <1>1 DEF Sorted
      <4>2. \A i \in 1 .. Len(s) : s[i] \in Nat
        BY <1>1
      <4>3. Len(s) \in Nat
        BY <1>1
      <4> QED BY <4>1, <4>2, <4>3
    <3> QED BY <1>1, <3>1, <3>2 DEF Bijection, Injection, Surjection, IsInjective
  <2>3. ExistsBijection(1 .. Len(s), S)
    BY <2>2 DEF ExistsBijection
  <2> QED BY <2>1, <2>3, FS_Bijection
<1>3. G!Cardinality(S) = Cardinality(S)
  BY DEF G!Cardinality, Cardinality, G!IsFiniteSet, IsFiniteSet
<1> DEFINE Order(t) == G!Range(t) = S /\ \A i, j \in DOMAIN t : i < j => t[i] < t[j]
<1>4. G!InOrder(S) = CHOOSE t \in [1 .. Len(s) -> S] : Order(t)
  BY <1>2, <1>3 DEF G!InOrder
<1>5. Order(s)
  BY <1>1 DEF Sorted, G!Range
<1>6. ASSUME NEW t \in [1 .. Len(s) -> S], Order(t) PROVE t = s
  <2>1. t \in Seq(S)
    BY <1>1
  <2>2. Sorted(t, S)
    BY <1>6, <2>1 DEF Sorted, G!Range
  <2> QED BY <2>2, SortedOnce
<1> HIDE DEF Order
<1> QED BY <1>1, <1>4, <1>5, <1>6

-----------------------------------------------------------------------------
(* Pieces of a line *)

(* Positions are sorted, whatever they are positions of. *)
LEMMA PositionsSorted ==
  ASSUME NEW n \in Nat, NEW S \in SUBSET (1 .. n)
  PROVE  /\ Sorted(G!InOrder(S), S)
         /\ G!InOrder(S) \in Seq(Nat) /\ Len(G!InOrder(S)) \in Nat
         /\ DOMAIN G!InOrder(S) = 1 .. Len(G!InOrder(S))
         /\ \A i \in DOMAIN G!InOrder(S) : G!InOrder(S)[i] \in S
<1>1. PICK s : Sorted(s, S)
  BY SortedExists
<1>2. G!InOrder(S) = s
  BY <1>1, InOrderIs
<1>3. s \in Seq(Nat) /\ Len(s) \in Nat /\ DOMAIN s = 1 .. Len(s) /\ \A i \in DOMAIN s : s[i] \in S
  <2>1. s \in Seq(S)
    BY <1>1 DEF Sorted
  <2>2. S \subseteq Nat
    OBVIOUS
  <2>3. s \in Seq(Nat)
    BY <2>1, <2>2, SeqMonotonic
  <2>4. Len(s) \in Nat /\ DOMAIN s = 1 .. Len(s) /\ \A i \in DOMAIN s : s[i] \in S
    BY <2>1
  <2> QED BY <2>3, <2>4
<1> QED BY <1>1, <1>2, <1>3

(* The cuts of Pieces: the ends, and what is between them. *)
Cuts(from, s, to) == <<from - 1>> \o s \o <<to + 1>>

(* What Pieces cuts at, one by one. *)
LEMMA CutsAt ==
  ASSUME NEW from \in Nat, NEW to \in Nat, NEW s \in Seq(Nat)
  PROVE  /\ Len(s) \in Nat
         /\ Len(Cuts(from, s, to)) = Len(s) + 2
         /\ Cuts(from, s, to)[1] = from - 1
         /\ Cuts(from, s, to)[Len(s) + 2] = to + 1
         /\ \A k \in 1 .. Len(s) : Cuts(from, s, to)[k + 1] = s[k]
<1>1. PICK a, b : a = from - 1 /\ b = to + 1
  OBVIOUS
<1>2. a \in Int /\ b \in Int /\ s \in Seq(Int) /\ Len(s) \in Nat
  BY <1>1
<1>3. PICK c : c = <<a>> \o s
  OBVIOUS
<1>4. c \in Seq(Int) /\ Len(c) = Len(s) + 1 /\ c[1] = a /\ \A k \in 1 .. Len(s) : c[k + 1] = s[k]
  BY <1>2, <1>3
<1>5. PICK d : d = c \o <<b>>
  OBVIOUS
<1>6. Len(d) = Len(c) + 1 /\ d[Len(c) + 1] = b /\ \A k \in 1 .. Len(c) : d[k] = c[k]
  BY <1>2, <1>4, <1>5
<1>7. Cuts(from, s, to) = d
  BY <1>1, <1>3, <1>5 DEF Cuts
<1>8. Len(d) = Len(s) + 2 /\ d[1] = a /\ d[Len(s) + 2] = b
  BY <1>2, <1>4, <1>6
<1>9. ASSUME NEW k \in 1 .. Len(s) PROVE d[k + 1] = s[k]
  <2>1. k + 1 \in 1 .. Len(c)
    BY <1>2, <1>4
  <2> QED BY <1>4, <1>6, <2>1
<1> QED BY <1>1, <1>2, <1>7, <1>8, <1>9

(* They go up. *)
LEMMA CutsUp ==
  ASSUME NEW from \in Nat, NEW to \in Nat, from <= to + 1,
         NEW S \in SUBSET (from .. to), NEW s, Sorted(s, S),
         NEW c, c = Cuts(from, s, to)
  PROVE  \A a, b \in 1 .. Len(s) + 2 : a < b => c[a] < c[b]
<1>1. s \in Seq(Nat) /\ Len(s) \in Nat /\ \A i \in 1 .. Len(s) : s[i] \in from .. to
  <2>1. s \in Seq(S)
    BY DEF Sorted
  <2>2. S \subseteq Nat
    OBVIOUS
  <2>3. s \in Seq(Nat)
    BY <2>1, <2>2, SeqMonotonic
  <2>4. Len(s) \in Nat /\ \A i \in 1 .. Len(s) : s[i] \in S
    BY <2>1
  <2> QED BY <2>3, <2>4
<1>2. \A i, j \in 1 .. Len(s) : i < j => s[i] < s[j]
  BY <1>1 DEF Sorted
<1>3. /\ c[1] = from - 1 /\ c[Len(s) + 2] = to + 1
      /\ \A k \in 1 .. Len(s) : c[k + 1] = s[k]
  BY <1>1, CutsAt, Zenon
<1>4. PICK m \in Nat : m = Len(s)
  BY <1>1
<1>5. ASSUME NEW a \in 1 .. m + 2, NEW b \in 1 .. m + 2, a < b PROVE c[a] < c[b]
  <2>1. a = 1 \/ (a - 1 \in 1 .. m /\ a = (a - 1) + 1)
    BY <1>5
  <2>2. b = m + 2 \/ (b - 1 \in 1 .. m /\ b = (b - 1) + 1)
    BY <1>5
  <2>3. (a - 1 \in 1 .. m => c[a] = s[a - 1] /\ s[a - 1] \in from .. to)
    BY <1>1, <1>3, <1>4, <2>1
  <2>4. (b - 1 \in 1 .. m => c[b] = s[b - 1] /\ s[b - 1] \in from .. to)
    BY <1>1, <1>3, <1>4, <2>2
  <2>5. CASE a = 1 /\ b = m + 2
    BY <1>3, <1>4, <2>5
  <2>6. CASE a = 1 /\ b - 1 \in 1 .. m
    BY <1>3, <2>4, <2>6
  <2>7. CASE a - 1 \in 1 .. m /\ b = m + 2
    BY <1>3, <1>4, <2>3, <2>7
  <2>8. CASE a - 1 \in 1 .. m /\ b - 1 \in 1 .. m
    <3>1. s[a - 1] < s[b - 1]
      BY <1>2, <1>4, <1>5, <2>8
    <3> QED BY <2>3, <2>4, <2>8, <3>1
  <2> QED BY <2>1, <2>2, <2>5, <2>6, <2>7, <2>8
<1> QED BY <1>4, <1>5

(* What Pieces returns: the tokens but for those of these kinds, in order. *)
ArePieces(q, l, from, to, kinds) ==
  /\ Len(q) \in Nat \ {0} /\ DOMAIN q = 1 .. Len(q)
  /\ q[1].from = from
  /\ q[Len(q)].to = to
  /\ \A k \in 1 .. Len(q) :
       /\ q[k].from \in Nat \ {0} /\ q[k].to \in Nat
       /\ from <= q[k].from /\ q[k].from <= q[k].to + 1 /\ q[k].to <= to
       /\ \A x \in q[k].from .. q[k].to : l[x] \notin kinds
       /\ k < Len(q) => l[q[k].to + 1] \in kinds /\ q[k + 1].from = q[k].to + 2

(* Pieces cuts exactly there. *)
LEMMA PiecesAre ==
  ASSUME NEW l, NEW from \in Nat \ {0}, NEW to \in Nat, from <= to + 1, NEW kinds
  PROVE  ArePieces(G!Pieces(l, from, to, kinds), l, from, to, kinds)
<1>1. PICK S : S = G!Positions(l, from, to, kinds)
  OBVIOUS
<1>2. S \in SUBSET (from .. to) /\ S \in SUBSET (1 .. to) /\ \A x \in from .. to : x \in S <=> l[x] \in kinds
  BY <1>1 DEF G!Positions
<1>3. PICK s : s = G!InOrder(S)
  OBVIOUS
<1>4. Sorted(s, S) /\ s \in Seq(Nat) /\ Len(s) \in Nat /\ DOMAIN s = 1 .. Len(s) /\ \A i \in DOMAIN s : s[i] \in S
  BY <1>2, <1>3, PositionsSorted
<1>5. PICK c : c = Cuts(from, s, to)
  OBVIOUS
<1>6. PICK m \in Nat : m = Len(s)
  BY <1>4
<1>7. /\ Len(c) = m + 2 /\ c[1] = from - 1 /\ c[m + 2] = to + 1
      /\ \A k \in 1 .. m : c[k + 1] \in S
      /\ \A x \in S : \E k \in 1 .. m : c[k + 1] = x
  <2>1. Len(c) = Len(s) + 2 /\ c[1] = from - 1 /\ c[Len(s) + 2] = to + 1 /\ \A k \in 1 .. Len(s) : c[k + 1] = s[k]
    <3>1. from \in Nat
      OBVIOUS
    <3> QED BY <1>4, <1>5, <3>1, CutsAt, Zenon
  <2>2. \A x \in S : \E k \in 1 .. Len(s) : s[k] = x
    BY <1>4 DEF Sorted
  <2> QED BY <1>4, <1>6, <2>1, <2>2
<1>8. \A a, b \in 1 .. m + 2 : a < b => c[a] < c[b]
  BY <1>2, <1>4, <1>5, <1>6, CutsUp
<1>9. PICK q : q = [k \in 1 .. m + 1 |-> [from |-> c[k] + 1, to |-> c[k + 1] - 1]]
  OBVIOUS
<1>10. G!Pieces(l, from, to, kinds) = q
  <2>1. (m + 2) - 1 = m + 1
    OBVIOUS
  <2>2. G!Pieces(l, from, to, kinds) = [k \in 1 .. Len(c) - 1 |-> [from |-> c[k] + 1, to |-> c[k + 1] - 1]]
    BY <1>1, <1>3, <1>5 DEF G!Pieces, Cuts
  <2> QED BY <1>7, <1>9, <2>1, <2>2
<1>11. /\ Len(q) = m + 1 /\ DOMAIN q = 1 .. m + 1
       /\ \A k \in 1 .. m + 1 : q[k].from = c[k] + 1 /\ q[k].to = c[k + 1] - 1
  BY <1>9
<1>12. q[1].from = from /\ q[m + 1].to = to
  <2>1. (m + 1) + 1 = m + 2 /\ 1 \in 1 .. m + 1 /\ m + 1 \in 1 .. m + 1
    OBVIOUS
  <2>2. q[1].from = c[1] + 1 /\ q[m + 1].to = c[m + 2] - 1
    BY <1>11, <2>1
  <2> QED BY <1>7, <2>2
<1>13. \A k \in 1 .. m + 2 : c[k] \in from - 1 .. to + 1
  <2>1. ASSUME NEW k \in 1 .. m + 2 PROVE c[k] \in from - 1 .. to + 1
    <3>1. k = 1 \/ k = m + 2 \/ (k - 1 \in 1 .. m /\ (k - 1) + 1 = k)
      OBVIOUS
    <3>2. k - 1 \in 1 .. m => c[k] \in from .. to
      <4>1. ASSUME k - 1 \in 1 .. m PROVE c[k] \in from .. to
        <5>1. c[(k - 1) + 1] \in S /\ (k - 1) + 1 = k
          BY <1>7, <4>1
        <5> QED BY <1>2, <5>1
      <4> QED BY <4>1
    <3> QED BY <1>7, <3>1, <3>2
  <2> QED BY <2>1
<1>14. ASSUME NEW k \in 1 .. m + 1
       PROVE  /\ q[k].from \in Nat \ {0} /\ q[k].to \in Nat
              /\ from <= q[k].from /\ q[k].from <= q[k].to + 1 /\ q[k].to <= to
  <2>1. k \in 1 .. m + 2 /\ k + 1 \in 1 .. m + 2 /\ k < k + 1
    OBVIOUS
  <2>2. c[k] \in from - 1 .. to + 1 /\ c[k + 1] \in from - 1 .. to + 1 /\ c[k] < c[k + 1]
    BY <1>8, <1>13, <2>1
  <2>3. q[k].from = c[k] + 1 /\ q[k].to = c[k + 1] - 1
    BY <1>11
  <2> QED BY <2>2, <2>3
<1>15. ASSUME NEW k \in 1 .. m + 1, NEW x \in q[k].from .. q[k].to PROVE l[x] \notin kinds
  <2>1. /\ k \in 1 .. m + 2 /\ k + 1 \in 1 .. m + 2
        /\ c[k] \in Int /\ c[k + 1] \in Int
    BY <1>13
  <2>2. x \in from .. to /\ c[k] < x /\ x < c[k + 1]
    <3>1. q[k].from = c[k] + 1 /\ q[k].to = c[k + 1] - 1
      BY <1>11
    <3>2. from <= q[k].from /\ q[k].to <= to
      BY <1>14
    <3>3. x \in c[k] + 1 .. c[k + 1] - 1 /\ from <= c[k] + 1 /\ c[k + 1] - 1 <= to
      BY <3>1, <3>2
    <3> QED BY <2>1, <3>3
  <2>3. ASSUME x \in S PROVE FALSE
    <3>1. PICK e \in 1 .. m : c[e + 1] = x
      BY <1>7, <2>3
    <3>2. PICK f \in 1 .. m + 2 : f = e + 1
      OBVIOUS
    <3>3. c[f] = x
      BY <3>1, <3>2
    <3>4. ~(f <= k)
      <4>1. f < k \/ f = k => c[f] < c[k] \/ c[f] = c[k]
        BY <1>8, <2>1
      <4>2. f <= k <=> f < k \/ f = k
        OBVIOUS
      <4> QED BY <2>1, <2>2, <3>3, <4>1, <4>2
    <3>5. ~(k + 1 <= f)
      <4>1. k + 1 < f \/ k + 1 = f => c[k + 1] < c[f] \/ c[f] = c[k + 1]
        BY <1>8, <2>1
      <4>2. k + 1 <= f <=> k + 1 < f \/ k + 1 = f
        OBVIOUS
      <4> QED BY <2>1, <2>2, <3>3, <4>1, <4>2
    <3> QED BY <3>4, <3>5
  <2> QED BY <1>2, <2>2, <2>3
<1>16. ASSUME NEW k \in 1 .. m + 1, k < m + 1 PROVE l[q[k].to + 1] \in kinds /\ q[k + 1].from = q[k].to + 2
  <2>1. k \in 1 .. m /\ k + 1 \in 1 .. m + 1
    BY <1>16
  <2>2. c[k + 1] \in S
    BY <1>7, <2>1
  <2>3. q[k].to = c[k + 1] - 1 /\ q[k + 1].from = c[k + 1] + 1
    BY <1>11, <2>1
  <2>4. c[k + 1] \in Int /\ l[c[k + 1]] \in kinds
    <3>1. PICK x \in from .. to : x = c[k + 1]
      BY <1>2, <2>2
    <3>2. l[x] \in kinds /\ x \in Int
      BY <1>2, <2>2, <3>1
    <3> QED BY <3>1, <3>2, Zenon
  <2>5. q[k].to + 1 = c[k + 1] /\ q[k + 1].from = q[k].to + 2
    BY <2>3, <2>4
  <2> QED BY <2>4, <2>5
<1>17. ArePieces(q, l, from, to, kinds)
  BY <1>11, <1>12, <1>14, <1>15, <1>16 DEF ArePieces
<1> QED BY <1>10, <1>17

-----------------------------------------------------------------------------
(* Where a grammatical line is cut *)

Lines == {l \in Seq(token_type_e) : l # <<>> /\ G!Grammatical(l)}

(* A grammatical line has an end. *)
LEMMA LineLength ==
  ASSUME NEW l \in Lines
  PROVE  Len(l) \in Nat \ {0} /\ l[Len(l)] = "eof"
<1>1. l \in Seq(token_type_e) /\ l # <<>>
  BY DEF Lines
<1>2. Len(l) \in Nat \ {0}
  BY <1>1
<1>3. l[Len(l)] = "eof"
  BY Zenon DEF Lines, G!Grammatical
<1> QED BY <1>2, <1>3

(* The lists are the pieces of the line without its end, *)
LEMMA ListsAre ==
  ASSUME NEW l \in Lines
  PROVE  ArePieces(G!Lists(l), l, 1, Len(l) - 1, {"semi", "bg"})
<1>1. PICK n \in Nat : n = Len(l) - 1
  <2>1. PICK m \in Nat \ {0} : m = Len(l)
    BY LineLength
  <2>2. m - 1 \in Nat
    OBVIOUS
  <2> QED BY <2>1, <2>2
<1>2. ArePieces(G!Pieces(l, 1, n, {"semi", "bg"}), l, 1, n, {"semi", "bg"})
  BY PiecesAre
<1> QED BY <1>1, <1>2, Zenon DEF G!Lists

(* A piece can be cut again. *)
LEMMA PiecesOfPiece ==
  ASSUME NEW l, NEW q, NEW from, NEW to, NEW kinds, ArePieces(q, l, from, to, kinds),
         NEW i \in DOMAIN q, NEW others
  PROVE  ArePieces(G!Pieces(l, q[i].from, q[i].to, others), l, q[i].from, q[i].to, others)
<1>1. PICK a, b : a = q[i].from /\ b = q[i].to
  OBVIOUS
<1>2. a \in Nat \ {0} /\ b \in Nat /\ a <= b + 1
  BY <1>1 DEF ArePieces
<1>3. ArePieces(G!Pieces(l, a, b, others), l, a, b, others)
  BY <1>2, PiecesAre
<1> QED BY <1>1, <1>3

(* the pipelines of a list are its pieces, *)
LEMMA PipelinesAre ==
  ASSUME NEW l \in Lines, NEW i \in DOMAIN G!Lists(l)
  PROVE  ArePieces(PipelinesAt(l, i), l, ListAt(l, i).from, ListAt(l, i).to, {"and", "or"})
BY ListsAre, PiecesOfPiece, Zenon DEF PipelinesAt, ListAt, G!Pipelines

(* and so are the commands of a pipeline. *)
LEMMA CommandsAre ==
  ASSUME NEW l \in Lines, NEW i \in DOMAIN G!Lists(l), NEW j \in DOMAIN PipelinesAt(l, i)
  PROVE  ArePieces(CommandsAt(l, i, j), l, PipelinesAt(l, i)[j].from, PipelinesAt(l, i)[j].to, {"pipe"})
BY PipelinesAre, PiecesOfPiece, Zenon DEF CommandsAt, G!Commands

(* What is behind a list, a pipeline and a command. *)
LEMMA BehindList ==
  ASSUME NEW l \in Lines, NEW i \in DOMAIN G!Lists(l), NEW list, list = ListAt(l, i)
  PROVE  /\ i \in 1 .. Len(G!Lists(l)) /\ Len(G!Lists(l)) \in Nat
         /\ list.from \in Nat \ {0} /\ list.to \in Nat /\ list.from <= list.to + 1 /\ list.to + 1 <= Len(l)
         /\ i = 1 => list.from = 1
         /\ \A x \in list.from .. list.to : l[x] \notin {"semi", "bg"}
         /\ i < Len(G!Lists(l)) =>
              l[list.to + 1] \in {"semi", "bg"} /\ ListAt(l, i + 1).from = list.to + 2
         /\ i = Len(G!Lists(l)) => list.to + 1 = Len(l) /\ l[list.to + 1] = "eof"
<1>1. PICK n \in Nat : n + 1 = Len(l) /\ n = Len(l) - 1
  BY LineLength
<1>2. ArePieces(G!Lists(l), l, 1, n, {"semi", "bg"})
  BY <1>1, ListsAre
<1>3. l[n + 1] = "eof"
  BY <1>1, LineLength
<1>4. PICK q, m : q = G!Lists(l) /\ m = Len(q)
  OBVIOUS
<1>5. /\ m \in Nat \ {0} /\ i \in 1 .. m
      /\ q[1].from = 1
      /\ q[m].to = n
      /\ \A k \in 1 .. m :
           /\ q[k].from \in Nat \ {0} /\ q[k].to \in Nat
           /\ q[k].from <= q[k].to + 1 /\ q[k].to <= n
           /\ \A x \in q[k].from .. q[k].to : l[x] \notin {"semi", "bg"}
           /\ k < m => l[q[k].to + 1] \in {"semi", "bg"} /\ q[k + 1].from = q[k].to + 2
  BY <1>2, <1>4, Zenon DEF ArePieces
<1>6. list = q[i] /\ ListAt(l, i + 1) = q[i + 1]
  BY <1>4 DEF ListAt
<1>7. /\ i \in 1 .. m /\ m \in Nat
      /\ list.from \in Nat \ {0} /\ list.to \in Nat /\ list.from <= list.to + 1 /\ list.to <= n
      /\ i = 1 => list.from = 1
      /\ \A x \in list.from .. list.to : l[x] \notin {"semi", "bg"}
      /\ i < m => l[list.to + 1] \in {"semi", "bg"} /\ ListAt(l, i + 1).from = list.to + 2
      /\ i = m => list.to = n
  BY <1>5, <1>6
<1>8. list.to + 1 <= Len(l) /\ (i = m => list.to + 1 = Len(l) /\ l[list.to + 1] = "eof")
  BY <1>1, <1>3, <1>7
<1> QED BY <1>4, <1>7, <1>8

LEMMA BehindPipeline ==
  ASSUME NEW l \in Lines, NEW i \in DOMAIN G!Lists(l), NEW j \in DOMAIN PipelinesAt(l, i),
         NEW p, p = PipelinesAt(l, i)[j]
  PROVE  /\ j \in 1 .. Len(PipelinesAt(l, i)) /\ Len(PipelinesAt(l, i)) \in Nat
         /\ p.from \in Nat \ {0} /\ p.to \in Nat /\ p.from <= p.to + 1
         /\ ListAt(l, i).from <= p.from /\ p.to <= ListAt(l, i).to
         /\ j = 1 => p.from = ListAt(l, i).from
         /\ \A x \in p.from .. p.to : l[x] \notin {"and", "or"}
         /\ j < Len(PipelinesAt(l, i)) =>
              l[p.to + 1] \in {"and", "or"} /\ PipelinesAt(l, i)[j + 1].from = p.to + 2
         /\ j = Len(PipelinesAt(l, i)) => p.to = ListAt(l, i).to
<1>1. PICK q, a, b : q = PipelinesAt(l, i) /\ a = ListAt(l, i).from /\ b = ListAt(l, i).to
  OBVIOUS
<1>2. ArePieces(q, l, a, b, {"and", "or"})
  BY <1>1, PipelinesAre
<1> QED BY <1>1, <1>2 DEF ArePieces

LEMMA BehindCommand ==
  ASSUME NEW l \in Lines, NEW i \in DOMAIN G!Lists(l), NEW j \in DOMAIN PipelinesAt(l, i),
         NEW k \in DOMAIN CommandsAt(l, i, j), NEW c, c = CommandsAt(l, i, j)[k]
  PROVE  /\ k \in 1 .. Len(CommandsAt(l, i, j)) /\ Len(CommandsAt(l, i, j)) \in Nat
         /\ c.from \in Nat \ {0} /\ c.to \in Nat /\ c.from <= c.to + 1
         /\ PipelinesAt(l, i)[j].from <= c.from /\ c.to <= PipelinesAt(l, i)[j].to
         /\ k = 1 => c.from = PipelinesAt(l, i)[j].from
         /\ \A x \in c.from .. c.to : l[x] # "pipe"
         /\ k < Len(CommandsAt(l, i, j)) =>
              l[c.to + 1] = "pipe" /\ CommandsAt(l, i, j)[k + 1].from = c.to + 2
         /\ k = Len(CommandsAt(l, i, j)) => c.to = PipelinesAt(l, i)[j].to
<1>1. PICK q, a, b : q = CommandsAt(l, i, j) /\ a = PipelinesAt(l, i)[j].from /\ b = PipelinesAt(l, i)[j].to
  OBVIOUS
<1>2. ArePieces(q, l, a, b, {"pipe"})
  BY <1>1, CommandsAre
<1> QED BY <1>1, <1>2 DEF ArePieces

(* A command in a grammatical line. *)
Ends == {"pipe", "and", "or", "semi", "bg", "eof"}

GoodCommand(l, c) ==
  /\ c.from \in Nat \ {0} /\ c.to \in Nat /\ c.from <= c.to /\ c.to + 1 <= Len(l)
  /\ \A x \in c.from .. c.to : l[x] \notin Ends \ {"eof"}
  /\ l[c.to + 1] \in Ends
  /\ l[c.from] = "word"
  /\ G!IsGrammaticalCommand(l, c)

(* Every command of a list that is not empty is one. *)
LEMMA CommandsGood ==
  ASSUME NEW l \in Lines, NEW i \in DOMAIN G!Lists(l), ~G!Empty(ListAt(l, i)),
         NEW j \in DOMAIN PipelinesAt(l, i), NEW k \in DOMAIN CommandsAt(l, i, j)
  PROVE  GoodCommand(l, CommandsAt(l, i, j)[k])
<1>1. PICK c, p, list : c = CommandsAt(l, i, j)[k] /\ p = PipelinesAt(l, i)[j] /\ list = ListAt(l, i)
  OBVIOUS
<1>2. PICK a, b, d : a = Len(G!Lists(l)) /\ b = Len(PipelinesAt(l, i)) /\ d = Len(CommandsAt(l, i, j))
  OBVIOUS
<1>3. /\ i \in 1 .. a /\ a \in Nat
      /\ list.from \in Nat \ {0} /\ list.to \in Nat /\ list.from <= list.to + 1 /\ list.to + 1 <= Len(l)
      /\ \A x \in list.from .. list.to : l[x] \notin {"semi", "bg"}
      /\ i < a => l[list.to + 1] \in {"semi", "bg"}
      /\ i = a => l[list.to + 1] = "eof"
  BY <1>1, <1>2, BehindList, SMTT(60)
<1>4. /\ j \in 1 .. b /\ b \in Nat
      /\ p.from \in Nat \ {0} /\ p.to \in Nat /\ p.from <= p.to + 1
      /\ list.from <= p.from /\ p.to <= list.to
      /\ \A x \in p.from .. p.to : l[x] \notin {"and", "or"}
      /\ j < b => l[p.to + 1] \in {"and", "or"}
      /\ j = b => p.to = list.to
  BY <1>1, <1>2, BehindPipeline, SMTT(60)
<1>5. /\ k \in 1 .. d /\ d \in Nat
      /\ c.from \in Nat \ {0} /\ c.to \in Nat /\ c.from <= c.to + 1
      /\ p.from <= c.from /\ c.to <= p.to
      /\ \A x \in c.from .. c.to : l[x] # "pipe"
      /\ k < d => l[c.to + 1] = "pipe"
      /\ k = d => c.to = p.to
  BY <1>1, <1>2, BehindCommand, SMTT(60)
<1>6. Len(l) \in Nat /\ c.to + 1 <= Len(l)
  BY <1>3, <1>4, <1>5, LineLength
<1>7. \A x \in c.from .. c.to : l[x] \notin Ends \ {"eof"}
  <2>1. \A x \in c.from .. c.to : x \in p.from .. p.to /\ x \in list.from .. list.to
    <3>1. c.from \in Nat /\ c.to \in Nat /\ p.from <= c.from /\ c.to <= p.to
      BY <1>5
    <3>2. p.from \in Nat /\ p.to \in Nat /\ list.from <= p.from /\ p.to <= list.to
      BY <1>4
    <3>3. list.from \in Nat /\ list.to \in Nat
      BY <1>3
    <3> QED BY <3>1, <3>2, <3>3
  <2> QED BY <1>3, <1>4, <1>5, <2>1 DEF Ends
<1>8. l[c.to + 1] \in Ends
  <2>1. i < a \/ i = a
    BY <1>3
  <2>2. l[list.to + 1] \in Ends
    BY <1>3, <2>1 DEF Ends
  <2>3. j < b \/ j = b
    BY <1>4
  <2>4. l[p.to + 1] \in Ends
    BY <1>4, <2>2, <2>3 DEF Ends
  <2>5. k < d \/ k = d
    BY <1>5
  <2> QED BY <1>5, <2>4, <2>5 DEF Ends
<1>9. G!IsGrammaticalCommand(l, c)
  <2>1. \A jj \in DOMAIN G!Pipelines(l, list) : \A kk \in DOMAIN G!Commands(l, G!Pipelines(l, list)[jj]) :
          G!IsGrammaticalCommand(l, G!Commands(l, G!Pipelines(l, list)[jj])[kk])
    BY <1>1, Zenon DEF Lines, G!Grammatical, ListAt
  <2> QED BY <1>1, <2>1 DEF PipelinesAt, CommandsAt
<1>10. PICK y : y \in G!Arguments(l, c)
  BY <1>9 DEF G!IsGrammaticalCommand
<1>11. y \in c.from .. c.to /\ \A x \in c.from .. y : l[x] = "word"
  BY <1>10 DEF G!Arguments
<1>12. c.from <= c.to /\ c.from \in c.from .. y
  BY <1>5, <1>11
<1> QED BY <1>1, <1>5, <1>6, <1>7, <1>8, <1>9, <1>11, <1>12 DEF GoodCommand

-----------------------------------------------------------------------------
(* A command *)

(* The next position is the last one in order. *)
LEMMA InOrderAppend ==
  ASSUME NEW n \in Nat \ {0}, NEW S \in SUBSET (1 .. n - 1)
  PROVE  G!InOrder(S \cup {n}) = Append(G!InOrder(S), n)
<1>1. PICK m \in Nat : m = n - 1 /\ m + 1 = n
  OBVIOUS
<1>2. PICK s : s = G!InOrder(S)
  OBVIOUS
<1>3. S \in SUBSET (1 .. m)
  BY <1>1
<1>4. Sorted(s, S)
  BY <1>2, <1>3, PositionsSorted
<1>5. Sorted(Append(s, m + 1), S \cup {m + 1})
  BY <1>3, <1>4, SortedOneMore
<1>6. S \cup {n} \in SUBSET Nat
  OBVIOUS
<1>7. Sorted(Append(s, n), S \cup {n})
  BY <1>1, <1>5
<1> QED BY <1>2, <1>6, <1>7, InOrderIs

(* No positions are none in order. *)
LEMMA InOrderNone == G!InOrder({}) = <<>>
<1>1. {} \in SUBSET Nat
  OBVIOUS
<1>2. Sorted(<<>>, {})
  BY DEF Sorted
<1> QED BY <1>1, <1>2, InOrderIs

TargetsBelow(l, c, n) == {x \in G!Targets(l, c) : x < n}

(* A target is a word behind something that is no word. *)
LEMMA TargetsAre ==
  ASSUME NEW l, NEW c
  PROVE  \A x : x \in G!Targets(l, c) <=>
                  x \in c.from .. c.to /\ l[x] = "word" /\ \E y \in c.from .. x : l[y] # "word"
BY DEF G!Targets, G!Positions, G!Arguments

(* One more argument. *)
LEMMA OneArgument ==
  ASSUME NEW l, NEW c, GoodCommand(l, c), NEW n \in c.from .. c.to + 1,
         \A x \in c.from .. n - 1 : l[x] = "word", l[n] = "word"
  PROVE  /\ n + 1 \in c.from + 1 .. c.to + 1
         /\ \A x \in c.from .. n : l[x] = "word"
         /\ G!InOrder(c.from .. n) = Append(G!InOrder(c.from .. n - 1), n)
<1>1. PICK a, b \in Nat : a = c.from /\ b = c.to /\ a # 0 /\ a <= b
  BY DEF GoodCommand
<1>2. n \in a .. b + 1 /\ n # b + 1
  BY <1>1 DEF GoodCommand, Ends
<1>3. n + 1 \in a + 1 .. b + 1
  BY <1>2
<1>4. \A x \in a .. n : x = n \/ x \in a .. n - 1
  BY <1>2
<1>5. a .. n - 1 \in SUBSET (1 .. n - 1) /\ n \in Nat \ {0} /\ a .. n = (a .. n - 1) \cup {n}
  BY <1>1, <1>2
<1>6. G!InOrder(a .. n) = Append(G!InOrder(a .. n - 1), n)
  BY <1>5, InOrderAppend
<1> QED BY <1>1, <1>3, <1>4, <1>6

(* The arguments end before a token that is no word. *)
LEMMA ArgumentsEnd ==
  ASSUME NEW l, NEW c, GoodCommand(l, c), NEW n \in c.from + 1 .. c.to + 1,
         \A x \in c.from .. n - 1 : l[x] = "word", l[n] # "word"
  PROVE  /\ G!Arguments(l, c) = c.from .. n - 1
         /\ TargetsBelow(l, c, n) = {}
<1>1. PICK a, b \in Nat : a = c.from /\ b = c.to /\ a # 0 /\ a <= b
  BY DEF GoodCommand
<1>2. n \in a + 1 .. b + 1
  BY <1>1
<1>3. \A x \in a .. b : (\A y \in a .. x : l[y] = "word") <=> x \in a .. n - 1
  <2>1. ASSUME NEW x \in a .. b, x \in a .. n - 1 PROVE \A y \in a .. x : l[y] = "word"
    <3>1. \A y \in a .. x : y \in a .. n - 1
      BY <1>2, <2>1
    <3> QED BY <1>1, <3>1
  <2>2. ASSUME NEW x \in a .. b, x \notin a .. n - 1 PROVE \E y \in a .. x : l[y] # "word"
    <3>1. n \in a .. x
      BY <1>2, <2>2
    <3> QED BY <3>1
  <2> QED BY <2>1, <2>2
<1>4. \A x \in a .. n - 1 : x \in a .. b
  BY <1>2
<1>5. G!Arguments(l, c) = a .. n - 1
  BY <1>1, <1>3, <1>4 DEF G!Arguments
<1>6. ASSUME NEW x \in TargetsBelow(l, c, n) PROVE FALSE
  <2>1. x \in a .. b /\ x < n /\ \E y \in a .. x : l[y] # "word"
    BY <1>1, TargetsAre DEF TargetsBelow
  <2>2. x \in a .. n - 1
    BY <1>2, <2>1
  <2> QED BY <1>3, <2>1, <2>2
<1> QED BY <1>1, <1>5, <1>6

(* A token that is no word is no target. *)
LEMMA NoTarget ==
  ASSUME NEW l, NEW c, GoodCommand(l, c), NEW n \in Nat, l[n] # "word"
  PROVE  TargetsBelow(l, c, n + 1) = TargetsBelow(l, c, n)
<1>1. PICK a, b \in Nat : a = c.from /\ b = c.to
  BY DEF GoodCommand
<1>2. \A x \in G!Targets(l, c) : x \in Nat /\ x # n
  BY <1>1, TargetsAre
<1>3. \A x \in G!Targets(l, c) : x < n + 1 <=> x < n
  BY <1>2
<1> QED BY <1>3 DEF TargetsBelow

(* One more target. *)
LEMMA OneTarget ==
  ASSUME NEW l, NEW c, GoodCommand(l, c), NEW n \in c.from + 1 .. c.to,
         \E x \in c.from .. n - 1 : l[x] # "word", l[n] = "word"
  PROVE  G!InOrder(TargetsBelow(l, c, n + 1)) = Append(G!InOrder(TargetsBelow(l, c, n)), n)
<1>1. PICK a, b \in Nat : a = c.from /\ b = c.to /\ a # 0
  BY DEF GoodCommand
<1>2. n \in a + 1 .. b /\ n \in Nat \ {0}
  BY <1>1
<1>3. n \in G!Targets(l, c)
  <2>1. PICK x \in a .. n - 1 : l[x] # "word"
    BY <1>1
  <2>2. x \in a .. n /\ n \in a .. b
    BY <1>2
  <2> QED BY <1>1, <2>1, <2>2, TargetsAre
<1>4. \A x \in G!Targets(l, c) : x \in a .. b
  BY <1>1, TargetsAre
<1>5. \A x \in G!Targets(l, c) : x < n + 1 <=> x < n \/ x = n
  <2>1. \A x \in a .. b : x < n + 1 <=> x < n \/ x = n
    BY <1>2
  <2> QED BY <1>4, <2>1
<1>6. TargetsBelow(l, c, n + 1) = TargetsBelow(l, c, n) \cup {n}
  BY <1>3, <1>5 DEF TargetsBelow
<1>7. TargetsBelow(l, c, n) \in SUBSET (1 .. n - 1)
  BY <1>1, <1>2, <1>4 DEF TargetsBelow
<1> QED BY <1>2, <1>6, <1>7, InOrderAppend

(* What is behind a descriptor, an operator and a target. *)
LEMMA BehindOperator ==
  ASSUME NEW l, NEW c, GoodCommand(l, c), NEW n \in c.from .. c.to + 1, l[n] \in {"fd", "redir"}
  PROVE  /\ n + 1 \in c.from + 1 .. c.to
         /\ l[n] = "fd" => l[n + 1] = "redir"
         /\ l[n] = "redir" => l[n + 1] = "word"
<1>1. PICK a, b \in Nat : a = c.from /\ b = c.to
  BY DEF GoodCommand
<1>2. n \in a .. b
  <2>1. n # b + 1
    BY <1>1 DEF GoodCommand, Ends
  <2> QED BY <1>1, <2>1
<1>3. /\ l[n] = "fd" => n < b /\ l[n + 1] = "redir"
      /\ l[n] = "redir" => n < b /\ l[n + 1] = "word"
  BY <1>1, <1>2 DEF GoodCommand, G!IsGrammaticalCommand
<1>4. n < b
  BY <1>3
<1> QED BY <1>1, <1>2, <1>3, <1>4

(* A word that is no argument is the target of an operator. *)
LEMMA BeforeTarget ==
  ASSUME NEW l, NEW c, GoodCommand(l, c), NEW n \in c.from + 1 .. c.to + 1,
         \E x \in c.from .. n - 1 : l[x] # "word", l[n] = "word"
  PROVE  n <= c.to /\ l[n - 1] = "redir"
<1>1. PICK a, b \in Nat : a = c.from /\ b = c.to
  BY DEF GoodCommand
<1>2. n \in a + 1 .. b
  <2>1. n # b + 1
    BY <1>1 DEF GoodCommand, Ends
  <2> QED BY <1>1, <2>1
<1>3. n \in G!Targets(l, c)
  <2>1. PICK x \in a .. n - 1 : l[x] # "word"
    BY <1>1
  <2>2. x \in a .. n /\ n \in a .. b
    BY <1>2
  <2> QED BY <1>1, <2>1, <2>2, TargetsAre
<1>4. n \in a .. b
  BY <1>2
<1> QED BY <1>1, <1>3, <1>4 DEF GoodCommand, G!IsGrammaticalCommand

(* A command ends where no word and no redirection follows. *)
LEMMA CommandEnds ==
  ASSUME NEW l \in Lines, NEW c, GoodCommand(l, c), NEW n \in c.from + 1 .. c.to + 1,
         l[n] \in Ends, l[n] = "eof" => n = Len(l)
  PROVE  n = c.to + 1 /\ TargetsBelow(l, c, n) = G!Targets(l, c)
<1>1. PICK a, b \in Nat : a = c.from /\ b = c.to
  BY DEF GoodCommand
<1>2. n \in a + 1 .. b + 1
  BY <1>1
<1>3. n \notin a .. b
  <2>1. ASSUME n \in a .. b PROVE FALSE
    <3>1. l[n] = "eof"
      BY <1>1, <2>1 DEF GoodCommand, Ends
    <3>2. b + 1 <= Len(l) /\ Len(l) \in Nat
      BY <1>1, LineLength DEF GoodCommand
    <3>3. b + 1 <= n
      BY <3>1, <3>2
    <3> QED BY <2>1, <3>3
  <2> QED BY <2>1
<1>4. n = b + 1
  BY <1>2, <1>3
<1>5. \A x \in G!Targets(l, c) : x < n
  BY <1>1, <1>4, TargetsAre
<1> QED BY <1>1, <1>4, <1>5 DEF TargetsBelow

-----------------------------------------------------------------------------
(* The trees of pipelines and lists *)

(* The tree of the first j pipelines p of a list, from that of those before. *)
TreeWith(l, p, tree, j) ==
  IF j = 1 THEN G!PipelineTree(l, p[1])
  ELSE G!cond_node_t(tree[j - 1], l[p[j].from - 1], G!PipelineTree(l, p[j]))

AreTrees(tree, l, p, n) == tree = [j \in 1 .. n |-> TreeWith(l, p, tree, j)]

(* Each pipeline can be joined to the tree of those before, *)
LEMMA TreesOn ==
  ASSUME NEW l, NEW p, NEW n \in Nat, NEW tree, AreTrees(tree, l, p, n)
  PROVE  \E more : AreTrees(more, l, p, n + 1)
<1> DEFINE more == [j \in 1 .. n + 1 |-> IF j <= n THEN tree[j] ELSE TreeWith(l, p, tree, j)]
<1>1. ASSUME NEW j \in 1 .. n + 1 PROVE more[j] = TreeWith(l, p, more, j)
  <2>1. j # 1 => more[j - 1] = tree[j - 1]
    OBVIOUS
  <2>2. TreeWith(l, p, more, j) = TreeWith(l, p, tree, j)
    BY <2>1 DEF TreeWith
  <2>3. j <= n => tree[j] = TreeWith(l, p, tree, j)
    BY DEF AreTrees
  <2> QED BY <2>2, <2>3
<1>2. more = [j \in 1 .. n + 1 |-> TreeWith(l, p, more, j)]
  BY <1>1
<1> QED BY <1>2 DEF AreTrees

(* so that there is a tree of any number of pipelines, *)
LEMMA TreesExist == \A l, p : \A n \in Nat : \E tree : AreTrees(tree, l, p, n)
<1> SUFFICES ASSUME NEW l, NEW p PROVE \A n \in Nat : \E tree : AreTrees(tree, l, p, n)
  OBVIOUS
<1> DEFINE stuck == {n \in Nat : ~\E tree : AreTrees(tree, l, p, n)}
<1>1. ASSUME stuck # {} PROVE FALSE
  <2>1. PICK n \in stuck : \A k \in stuck : n <= k
    BY <1>1, SmallestMember
  <2>2. CASE n = 0
    <3> DEFINE none == [j \in 1 .. 0 |-> 0]
    <3>1. none = [j \in 1 .. 0 |-> TreeWith(l, p, none, j)]
      OBVIOUS
    <3> QED BY <2>1, <2>2, <3>1 DEF AreTrees
  <2>3. CASE n # 0
    <3>1. n - 1 \in Nat /\ n - 1 \notin stuck /\ (n - 1) + 1 = n
      BY <2>1, <2>3
    <3> QED BY <2>1, <3>1, TreesOn
  <2> QED BY <2>2, <2>3
<1> QED BY <1>1

(* which is that of the grammar. *)
LEMMA FirstPipelinesAre ==
  ASSUME NEW l \in Lines, NEW i \in DOMAIN G!Lists(l), NEW j \in DOMAIN PipelinesAt(l, i)
  PROVE  G!FirstPipelines(l, ListAt(l, i))[j] = TreeWith(l, PipelinesAt(l, i), G!FirstPipelines(l, ListAt(l, i)), j)
<1>1. PICK p, n, t : p = PipelinesAt(l, i) /\ n = Len(p) /\ t = G!FirstPipelines(l, ListAt(l, i))
  OBVIOUS
<1>2. DOMAIN p = 1 .. n /\ n \in Nat
  BY <1>1, PipelinesAre DEF ArePieces
<1>3. t = CHOOSE tree : AreTrees(tree, l, p, n)
  <2>1. t = CHOOSE tree : tree = [x \in DOMAIN p |-> IF x = 1 THEN G!PipelineTree(l, p[1])
                             ELSE G!cond_node_t(tree[x - 1], l[p[x].from - 1], G!PipelineTree(l, p[x]))]
    BY <1>1, Zenon DEF G!FirstPipelines, PipelinesAt
  <2> QED BY <1>2, <2>1, Zenon DEF AreTrees, TreeWith
<1>4. AreTrees(t, l, p, n)
  BY <1>2, <1>3, TreesExist
<1>5. t[j] = TreeWith(l, p, t, j)
  BY <1>1, <1>2, <1>4, Zenon DEF AreTrees
<1> QED BY <1>1, <1>5

(* A pipeline is one command, or the sequence of them. *)
LEMMA PipelineTreeIs ==
  ASSUME NEW l, NEW p, NEW trees, trees = [c \in DOMAIN G!Commands(l, p) |-> G!CommandTree(l, G!Commands(l, p)[c])]
  PROVE  G!PipelineTree(l, p) = IF Len(trees) = 1 THEN trees[1] ELSE G!pipe_node_t(trees)
BY DEF G!PipelineTree

(* The parser returns the pipeline of the grammar. *)
LEMMA PipelineParsed ==
  ASSUME NEW l \in Lines, NEW i \in DOMAIN G!Lists(l), NEW j \in DOMAIN PipelinesAt(l, i),
         CommandsParsed(l, i, j, Len(CommandsAt(l, i, j)))
  PROVE  pipeline = G!PipelineTree(l, PipelinesAt(l, i)[j])
<1>1. PICK q, n, p : q = CommandsAt(l, i, j) /\ n = Len(q) /\ p = PipelinesAt(l, i)[j]
  OBVIOUS
<1>2. DOMAIN q = 1 .. n /\ n \in Nat
  BY <1>1, CommandsAre DEF ArePieces
<1>3. pipe = [c \in 1 .. n |-> G!CommandTree(l, q[c])]
  BY <1>1 DEF CommandsParsed
<1>4. Len(pipe) = n
  BY <1>2, <1>3
<1>5. q = G!Commands(l, p)
  BY <1>1 DEF CommandsAt
<1>6. G!PipelineTree(l, p) = IF Len(pipe) = 1 THEN pipe[1] ELSE G!pipe_node_t(pipe)
  <2>1. pipe = [c \in DOMAIN G!Commands(l, p) |-> G!CommandTree(l, G!Commands(l, p)[c])]
    BY <1>2, <1>3, <1>5
  <2> QED BY <2>1, PipelineTreeIs, Zenon
<1>7. G!pipe_node_t(pipe) = pipe_node_t(pipe)
  BY DEF G!pipe_node_t, pipe_node_t
<1> QED BY <1>1, <1>6, <1>7 DEF pipeline

(* and then the list as far as it has come. *)
LEMMA PipelineJoined ==
  ASSUME NEW l \in Lines, NEW i \in DOMAIN G!Lists(l), NEW j \in DOMAIN PipelinesAt(l, i),
         InPipeline(l, i, j), op \in {"none", "and", "or"},
         CommandsParsed(l, i, j, Len(CommandsAt(l, i, j)))
  PROVE  joined = G!FirstPipelines(l, ListAt(l, i))[j]
<1>1. PICK p, t : p = PipelinesAt(l, i) /\ t = G!FirstPipelines(l, ListAt(l, i))
  OBVIOUS
<1>2. pipeline = G!PipelineTree(l, p[j])
  BY <1>1, PipelineParsed
<1>3. t[j] = TreeWith(l, p, t, j)
  BY <1>1, FirstPipelinesAre
<1>4. CASE j = 1
  <2>1. op = "none"
    BY <1>4 DEF InPipeline
  <2> QED BY <1>1, <1>2, <1>3, <1>4, <2>1 DEF joined, TreeWith
<1>5. CASE j # 1
  <2>1. left = t[j - 1] /\ op = l[p[j].from - 1]
    BY <1>1, <1>5 DEF InPipeline
  <2>2. op # "none"
    <3>1. j - 1 \in 1 .. Len(p) /\ j - 1 < Len(p) /\ (j - 1) + 1 = j
      <4>1. j \in 1 .. Len(p) /\ Len(p) \in Nat
        BY <1>1, PipelinesAre DEF ArePieces
      <4> QED BY <1>5, <4>1
    <3>2. j - 1 \in DOMAIN p
      BY <1>1, <3>1, PipelinesAre DEF ArePieces
    <3>3. l[p[j - 1].to + 1] \in {"and", "or"} /\ p[j].from = p[j - 1].to + 2 /\ p[j - 1].to \in Nat
      BY <1>1, <3>1, <3>2, BehindPipeline
    <3>4. p[j].from - 1 = p[j - 1].to + 1
      BY <3>3
    <3> QED BY <2>1, <3>3, <3>4
  <2>3. G!cond_node_t(left, op, pipeline) = cond_node_t(left, op, pipeline)
    BY DEF G!cond_node_t, cond_node_t
  <2> QED BY <1>1, <1>2, <1>3, <1>5, <2>1, <2>2, <2>3 DEF joined, TreeWith
<1> QED BY <1>4, <1>5

(* It is not NULL. *)
LEMMA ListNotNull ==
  ASSUME NEW l \in Lines, NEW i \in DOMAIN G!Lists(l), NEW j \in DOMAIN PipelinesAt(l, i)
  PROVE  G!FirstPipelines(l, ListAt(l, i))[j] # NoNode
<1>1. PICK p, t : p = PipelinesAt(l, i) /\ t = G!FirstPipelines(l, ListAt(l, i))
  OBVIOUS
<1>2. t[j] = TreeWith(l, p, t, j)
  BY <1>1, FirstPipelinesAre
<1>3. CASE j # 1
  <2>1. t[j].type = "conditional"
    BY <1>2, <1>3 DEF TreeWith, G!cond_node_t
  <2> QED BY <1>1, <2>1 DEF NoNode
<1>4. CASE j = 1
  <2>1. t[j] = G!PipelineTree(l, p[j])
    BY <1>2, <1>4 DEF TreeWith
  <2>2. PICK q, n : q = CommandsAt(l, i, j) /\ n = Len(q)
    OBVIOUS
  <2>3. DOMAIN q = 1 .. n /\ n \in Nat
    BY <2>2, CommandsAre DEF ArePieces
  <2>4. PICK trees : trees = [c \in 1 .. n |-> G!CommandTree(l, q[c])]
    OBVIOUS
  <2>5. Len(trees) = n
    BY <2>3, <2>4
  <2>6. q = G!Commands(l, p[j])
    BY <1>1, <2>2 DEF CommandsAt
  <2>7. G!PipelineTree(l, p[j]) = IF Len(trees) = 1 THEN trees[1] ELSE G!pipe_node_t(trees)
    <3>1. trees = [c \in DOMAIN G!Commands(l, p[j]) |-> G!CommandTree(l, G!Commands(l, p[j])[c])]
      BY <2>3, <2>4, <2>6
    <3> QED BY <3>1, PipelineTreeIs, Zenon
  <2>8. G!pipe_node_t(trees).type = "pipeline"
    BY DEF G!pipe_node_t
  <2>9. Len(trees) = 1 => trees[1].type = "cmd"
    <3>1. Len(trees) = 1 => trees[1] = G!CommandTree(l, q[1])
      BY <2>4, <2>5
    <3> QED BY <3>1 DEF G!CommandTree, G!cmd_node_t
  <2> QED BY <1>1, <2>1, <2>7, <2>8, <2>9 DEF NoNode
<1> QED BY <1>3, <1>4

(* The lists that are not empty, in order. *)
LEMMA FullListsAre ==
  ASSUME NEW l \in Lines, NEW i \in Nat, NEW full, full = G!InOrder(FullLists(l, i))
  PROVE  full \in Seq(Nat) /\ Len(full) \in Nat /\ DOMAIN full = 1 .. Len(full) /\ FullLists(l, i) \in SUBSET (1 .. i)
<1>1. FullLists(l, i) \in SUBSET (1 .. i)
  BY DEF FullLists
<1> QED BY <1>1, PositionsSorted, Zenon

(* The next list is parsed, *)
LEMMA OneList ==
  ASSUME NEW l \in Lines, NEW i \in Nat \ {0}, ~G!Empty(ListAt(l, i)), ListsParsed(l, i - 1),
         left = G!ListTree(l, ListAt(l, i)), root' = [root EXCEPT !.nodes = Append(@, left)]
  PROVE  ListsParsed(l, i)'
<1>1. PICK full : full = G!InOrder(FullLists(l, i - 1))
  OBVIOUS
<1>2. PICK m \in Nat : m = i - 1 /\ m + 1 = i
  OBVIOUS
<1>3. full \in Seq(Nat) /\ Len(full) \in Nat /\ DOMAIN full = 1 .. Len(full) /\ FullLists(l, i - 1) \in SUBSET (1 .. m)
  BY <1>1, <1>2, FullListsAre
<1>4. FullLists(l, i) = FullLists(l, i - 1) \cup {i}
  <2>1. \A x : x \in 1 .. i <=> x \in 1 .. i - 1 \/ x = i
    OBVIOUS
  <2> QED BY <2>1 DEF FullLists
<1>5. PICK more : more = Append(full, i)
  OBVIOUS
<1>6. G!InOrder(FullLists(l, i)) = more
  BY <1>1, <1>2, <1>3, <1>4, <1>5, InOrderAppend
<1>7. PICK n \in Nat : n = Len(full)
  BY <1>3
<1>8. /\ DOMAIN more = 1 .. n + 1
      /\ \A k \in 1 .. n : more[k] = full[k]
      /\ more[n + 1] = i
  BY <1>3, <1>5, <1>7
<1>9. PICK nodes : nodes = [k \in 1 .. n |-> G!ListTree(l, ListAt(l, full[k]))]
  OBVIOUS
<1>10. root = seq_node_t(nodes)
  BY <1>1, <1>3, <1>7, <1>9, Zenon DEF ListsParsed
<1>11. root' = seq_node_t(Append(nodes, left))
  BY <1>10 DEF seq_node_t
<1>12. PICK after : after = [k \in 1 .. n + 1 |-> G!ListTree(l, ListAt(l, more[k]))]
  OBVIOUS
<1>13. after = Append(nodes, left)
  <2>1. ASSUME NEW k \in 1 .. n + 1 PROVE after[k] = Append(nodes, left)[k]
    <3>1. CASE k = n + 1
      <4>1. after[k] = left
        BY <1>8, <1>12, <3>1
      <4> QED BY <1>9, <3>1, <4>1
    <3>2. CASE k \in 1 .. n
      <4>1. after[k] = nodes[k]
        BY <1>8, <1>9, <1>12, <3>2
      <4> QED BY <1>9, <3>2, <4>1
    <3>3. k = n + 1 \/ k \in 1 .. n
      OBVIOUS
    <3> QED BY <3>1, <3>2, <3>3, Zenon
  <2>2. DOMAIN Append(nodes, left) = 1 .. n + 1
    BY <1>9
  <2>3. after = [k \in 1 .. n + 1 |-> after[k]] /\ Append(nodes, left) = [k \in 1 .. n + 1 |-> Append(nodes, left)[k]]
    BY <1>9, <1>12
  <2> QED BY <2>1, <2>3
<1>14. root' = seq_node_t([k \in DOMAIN more |-> G!ListTree(l, ListAt(l, more[k]))])
  BY <1>8, <1>11, <1>12, <1>13
<1> QED BY <1>6, <1>14, Zenon DEF ListsParsed

(* and so is one that is empty. *)
LEMMA EmptyList ==
  ASSUME NEW l \in Lines, NEW i \in Nat \ {0}, G!Empty(ListAt(l, i)), ListsParsed(l, i - 1)
  PROVE  ListsParsed(l, i)
<1>1. FullLists(l, i) = FullLists(l, i - 1)
  <2>1. \A x : x \in 1 .. i <=> x \in 1 .. i - 1 \/ x = i
    OBVIOUS
  <2> QED BY <2>1 DEF FullLists
<1> QED BY <1>1 DEF ListsParsed

(* At first there are none. *)
LEMMA NoLists ==
  ASSUME NEW l, root' = seq_node_t(<<>>)
  PROVE  ListsParsed(l, 0)'
<1>1. FullLists(l, 0) = {}
  BY DEF FullLists
<1>2. G!InOrder(FullLists(l, 0)) = <<>>
  BY <1>1, InOrderNone
<1>3. [k \in DOMAIN <<>> |-> G!ListTree(l, ListAt(l, <<>>[k]))] = <<>>
  OBVIOUS
<1> QED BY <1>2, <1>3 DEF ListsParsed

(* With the last list the tree is complete. *)
LEMMA AllLists ==
  ASSUME NEW l \in Lines, l # <<"eof">>, ListsParsed(l, Len(G!Lists(l)))
  PROVE  root = G!Tree(l)
<1>1. PICK lists, n : lists = G!Lists(l) /\ n = Len(lists)
  OBVIOUS
<1>2. DOMAIN lists = 1 .. n
  BY <1>1, ListsAre DEF ArePieces
<1>3. PICK full : full = G!InOrder(FullLists(l, n))
  OBVIOUS
<1>4. FullLists(l, n) = {x \in DOMAIN lists : ~G!Empty(lists[x])}
  BY <1>1, <1>2 DEF FullLists, ListAt
<1>5. PICK trees : trees = [k \in DOMAIN full |-> G!ListTree(l, lists[full[k]])]
  OBVIOUS
<1>6. root = seq_node_t(trees)
  BY <1>1, <1>3, <1>5, Zenon DEF ListsParsed, ListAt
<1>7. G!Tree(l) = G!seq_node_t(trees)
  BY <1>1, <1>3, <1>4, <1>5 DEF G!Tree
<1>8. G!seq_node_t(trees) = seq_node_t(trees)
  BY DEF G!seq_node_t, seq_node_t
<1> QED BY <1>6, <1>7, <1>8

-----------------------------------------------------------------------------
(* The tokens of the line that have been read. *)
LEMMA OnLine ==
  ASSUME NEW l \in Seq(token_type_e), line \in Seq(token_type_e), line # <<>>, Continues(l)
  PROVE  /\ Len(line) \in Nat \ {0} /\ Len(line) <= Len(l)
         /\ l[Len(line)] = g_tok /\ g_tok \in token_type_e
         /\ l # <<>>
<1>1. Len(line) \in Nat \ {0} /\ DOMAIN line = 1 .. Len(line) /\ line[Len(line)] \in token_type_e
  OBVIOUS
<1>2. Len(line) \in DOMAIN line
  BY <1>1
<1>3. g_tok = line[Len(line)]
  BY <1>1 DEF g_tok, Last
<1>4. l[Len(line)] = line[Len(line)] /\ Len(line) <= Len(l)
  BY <1>2 DEF Continues
<1>5. Len(l) \in Nat
  OBVIOUS
<1>6. Len(l) # 0
  BY <1>1, <1>4, <1>5
<1>7. l # <<>>
  BY <1>6
<1> QED BY <1>1, <1>3, <1>4, <1>7

(* One more token has been read. *)
LEMMA NextToken ==
  ASSUME NEW l \in Seq(token_type_e), line \in Seq(token_type_e), next_token, Continues(l)'
  PROVE  /\ line' \in Seq(token_type_e) /\ line' # <<>>
         /\ Len(line') = Len(line) + 1
         /\ Continues(l)
<1>1. PICK t : t \in token_type_e /\ line' = Append(line, t)
  <2>1. PICK t \in TokensAfter(line) : line' = Append(line, t)
    BY DEF next_token
  <2>2. t \in token_type_e
    BY <2>1 DEF TokensAfter, token_type_e
  <2> QED BY <2>1, <2>2
<1>2. PICK longer : longer = Append(line, t)
  OBVIOUS
<1>3. /\ longer \in Seq(token_type_e) /\ longer # <<>> /\ Len(longer) = Len(line) + 1
      /\ Len(line) \in Nat /\ DOMAIN line = 1 .. Len(line) /\ DOMAIN longer = 1 .. Len(longer)
      /\ \A x \in 1 .. Len(line) : longer[x] = line[x]
  BY <1>1, <1>2
<1>4. Len(l) \in Nat /\ Len(l) >= Len(longer) /\ \A x \in DOMAIN longer : l[x] = longer[x]
  BY <1>1, <1>2 DEF Continues
<1>5. Continues(l)
  BY <1>3, <1>4 DEF Continues
<1> QED BY <1>1, <1>2, <1>3, <1>5

-----------------------------------------------------------------------------
(* In a command *)

(* There are that many lists, pipelines in the i-th list, and commands in   *)
(* the j-th of them.                                                       *)
IsPlace(l, i, j, k) ==
  /\ i \in DOMAIN G!Lists(l)
  /\ j \in DOMAIN PipelinesAt(l, i)
  /\ k \in DOMAIN CommandsAt(l, i, j)

(* The parser is in a command of a pipeline. *)
LEMMA StaysInCommand ==
  ASSUME NEW l \in Lines, at' \in {"command"} \cup InCommand,
         NEW i, NEW j, NEW k, IsPlace(l, i, j, k),
         InPipeline(l, i, j)', CommandsParsed(l, i, j, k - 1)', InCommandAt(l, CommandsAt(l, i, j)[k])'
  PROVE  InStep(l)'
<1>1. StepInCommand(l)'
  BY DEF StepInCommand, IsPlace
<1>2. at' \notin {"pipeline", "conditional", "separators", "parsed", "exit"}
  BY DEF InCommand
<1> QED BY <1>1, <1>2, Zenon DEF InStep

(* and goes on there. *)
LEMMA GoesOnInCommand ==
  ASSUME NEW l \in Lines, at' \in InCommand, UNCHANGED <<pipe, left, op, root>>,
         NEW i, NEW j, NEW k, IsPlace(l, i, j, k),
         InPipeline(l, i, j), CommandsParsed(l, i, j, k - 1), InCommandAt(l, CommandsAt(l, i, j)[k])'
  PROVE  InStep(l)'
<1>1. InPipeline(l, i, j)'
  BY DEF InPipeline, InList, ListsParsed
<1>2. CommandsParsed(l, i, j, k - 1)'
  BY DEF CommandsParsed
<1> QED BY <1>1, <1>2, StaysInCommand

(* A grammatical line of which the parser has read the first tokens. *)
Ahead(l) ==
  /\ l \in Lines
  /\ line \in Seq(token_type_e) /\ line # <<>>
  /\ Continues(l)

(* How long it is, and its token at hand. *)
LEMMA AheadIs ==
  ASSUME NEW l, Ahead(l)
  PROVE  /\ l \in Lines /\ l \in Seq(token_type_e)
         /\ Len(line) \in Nat \ {0} /\ Len(line) <= Len(l)
         /\ l[Len(line)] = g_tok /\ g_tok \in token_type_e
BY OnLine DEF Ahead, Lines

(* It is still ahead after one more token. *)
LEMMA AheadNext ==
  ASSUME NEW l \in Lines, line \in Seq(token_type_e), line # <<>>, next_token, Continues(l)'
  PROVE  Ahead(l) /\ Ahead(l)' /\ Len(line') = Len(line) + 1
<1>1. l \in Seq(token_type_e)
  BY DEF Lines
<1> QED BY <1>1, NextToken DEF Ahead

(* Where the command is. *)
LEMMA CommandIs ==
  ASSUME NEW l, Ahead(l), InStep(l), at \in {"command"} \cup InCommand
  PROVE  \E i, j, k :
           /\ IsPlace(l, i, j, k)
           /\ InPipeline(l, i, j)
           /\ CommandsParsed(l, i, j, k - 1)
           /\ GoodCommand(l, CommandsAt(l, i, j)[k])
           /\ InCommandAt(l, CommandsAt(l, i, j)[k])
<1>1. l \in Lines
  BY DEF Ahead
<1>2. StepInCommand(l)
  BY DEF InStep
<1>3. PICK i \in DOMAIN G!Lists(l) : \E j \in DOMAIN PipelinesAt(l, i) : \E k \in DOMAIN CommandsAt(l, i, j) :
           /\ InPipeline(l, i, j)
           /\ CommandsParsed(l, i, j, k - 1)
           /\ InCommandAt(l, CommandsAt(l, i, j)[k])
  BY <1>2 DEF StepInCommand
<1>4. PICK j \in DOMAIN PipelinesAt(l, i) : \E k \in DOMAIN CommandsAt(l, i, j) :
           /\ InPipeline(l, i, j)
           /\ CommandsParsed(l, i, j, k - 1)
           /\ InCommandAt(l, CommandsAt(l, i, j)[k])
  BY <1>3
<1>5. PICK k \in DOMAIN CommandsAt(l, i, j) :
           /\ InPipeline(l, i, j)
           /\ CommandsParsed(l, i, j, k - 1)
           /\ InCommandAt(l, CommandsAt(l, i, j)[k])
  BY <1>4
<1>6. ~G!Empty(ListAt(l, i))
  BY <1>5 DEF InPipeline, InList
<1>7. GoodCommand(l, CommandsAt(l, i, j)[k])
  BY <1>1, <1>6, CommandsGood
<1>8. IsPlace(l, i, j, k)
  BY DEF IsPlace
<1> QED BY <1>5, <1>7, <1>8

(* ParseArgument *)
LEMMA ArgumentStep ==
  ASSUME NEW l \in Lines, Ahead(l), Ahead(l)', Len(line') = Len(line) + 1, ParserInv, InStep(l), ParseArgument
  PROVE  InStep(l)'
<1>1. at \in {"command", "arguments"} /\ g_tok = "word" /\ at' = "arguments" /\ UNCHANGED <<pipe, left, op, root>>
      /\ command' = [command EXCEPT !.argv_parts = Append(@, Len(line))]
  BY DEF ParseArgument, Goto
<1>2. PICK i, j, k :
           /\ IsPlace(l, i, j, k)
           /\ InPipeline(l, i, j)
           /\ CommandsParsed(l, i, j, k - 1)
           /\ GoodCommand(l, CommandsAt(l, i, j)[k])
           /\ InCommandAt(l, CommandsAt(l, i, j)[k])
  BY <1>1, CommandIs DEF InCommand
<1>3. PICK c, n : c = CommandsAt(l, i, j)[k] /\ n = Len(line)
  OBVIOUS
<1>4. n \in Nat \ {0} /\ l[n] = "word"
  BY <1>1, <1>3, AheadIs
<1>5. /\ n \in c.from .. c.to + 1
      /\ \A x \in c.from .. n - 1 : l[x] = "word"
      /\ command = [argv_parts |-> G!InOrder(c.from .. n - 1), redir |-> <<>>]
  <2>1. CASE at = "command"
    <3>1. n = c.from /\ c.from \in Nat /\ c.to \in Nat /\ c.from <= c.to
      BY <1>2, <1>3, <2>1 DEF InCommandAt, GoodCommand
    <3>2. command = no_arguments
      BY <2>1 DEF ParserInv, PlacesOK, InCommand
    <3>3. c.from .. n - 1 = {}
      BY <3>1
    <3> QED BY <3>1, <3>2, <3>3, InOrderNone DEF no_arguments
  <2>2. CASE at = "arguments"
    <3>1. n \in c.from + 1 .. c.to + 1 /\ InArguments(l, c)
      BY <1>2, <1>3, <2>2 DEF InCommandAt
    <3>2. c.from \in Nat /\ c.to \in Nat
      BY <1>2, <1>3 DEF GoodCommand
    <3>3. n \in c.from .. c.to + 1
      BY <3>1, <3>2
    <3> QED BY <1>3, <3>1, <3>3 DEF InArguments
  <2> QED BY <1>1, <2>1, <2>2
<1>6. /\ n + 1 \in c.from + 1 .. c.to + 1
      /\ \A x \in c.from .. n : l[x] = "word"
      /\ G!InOrder(c.from .. n) = Append(G!InOrder(c.from .. n - 1), n)
  BY <1>2, <1>3, <1>4, <1>5, OneArgument
<1>7. command' = [argv_parts |-> G!InOrder(c.from .. n), redir |-> <<>>]
  BY <1>1, <1>3, <1>5, <1>6
<1>8. Len(line') = n + 1 /\ Len(line') - 1 = n
  BY <1>3, <1>4
<1>9. InArguments(l, c)'
  BY <1>6, <1>7, <1>8, Zenon DEF InArguments
<1>10. InCommandAt(l, c)'
  BY <1>1, <1>6, <1>8, <1>9 DEF InCommandAt
<1> QED BY <1>1, <1>2, <1>3, <1>10, GoesOnInCommand DEF InCommand

(* What the parser has of a command when no word follows. *)
LEMMA CommandSoFar ==
  ASSUME NEW l, Ahead(l), at \in {"arguments", "redirections"}, g_tok # "word",
         NEW c, GoodCommand(l, c), InCommandAt(l, c)
  PROVE  /\ Len(line) \in c.from + 1 .. c.to + 1
         /\ command = [argv_parts |-> G!InOrder(G!Arguments(l, c)),
                       redir |-> G!InOrder(TargetsBelow(l, c, Len(line)))]
<1>1. PICK n \in Nat \ {0} : n = Len(line) /\ l[n] # "word"
  BY AheadIs
<1>2. n \in c.from + 1 .. c.to + 1
  BY <1>1 DEF InCommandAt
<1>3. CASE at = "arguments"
  <2>1. /\ \A x \in c.from .. n - 1 : l[x] = "word"
        /\ command = [argv_parts |-> G!InOrder(c.from .. n - 1), redir |-> <<>>]
    BY <1>1, <1>3 DEF InCommandAt, InArguments
  <2>2. G!Arguments(l, c) = c.from .. n - 1 /\ TargetsBelow(l, c, n) = {}
    BY <1>1, <1>2, <2>1, ArgumentsEnd
  <2> QED BY <1>1, <1>2, <2>1, <2>2, InOrderNone
<1>4. CASE at = "redirections"
  BY <1>1, <1>2, <1>4 DEF InCommandAt, InRedirections, TargetsBelow
<1> QED BY <1>3, <1>4

(* ParseDescriptor and ParseOperator *)
LEMMA OperatorStep ==
  ASSUME NEW l \in Lines, Ahead(l), Ahead(l)', Len(line') = Len(line) + 1, InStep(l),
         ParseDescriptor \/ ParseOperator
  PROVE  InStep(l)'
<1>1. /\ at \in {"arguments", "redirections"} /\ g_tok \in {"fd", "redir"}
      /\ at' = (IF g_tok = "redir" THEN "target" ELSE "redirections")
      /\ UNCHANGED <<command, pipe, left, op, root>>
  BY DEF ParseDescriptor, ParseOperator, Goto
<1>2. PICK i, j, k :
           /\ IsPlace(l, i, j, k)
           /\ InPipeline(l, i, j)
           /\ CommandsParsed(l, i, j, k - 1)
           /\ GoodCommand(l, CommandsAt(l, i, j)[k])
           /\ InCommandAt(l, CommandsAt(l, i, j)[k])
  BY <1>1, CommandIs DEF InCommand
<1>3. PICK c, n : c = CommandsAt(l, i, j)[k] /\ n = Len(line)
  OBVIOUS
<1>4. n \in Nat \ {0} /\ l[n] = g_tok
  BY <1>3, AheadIs
<1>5. /\ n \in c.from + 1 .. c.to + 1
      /\ command = [argv_parts |-> G!InOrder(G!Arguments(l, c)), redir |-> G!InOrder(TargetsBelow(l, c, n))]
  <2>1. g_tok # "word"
    BY <1>1
  <2> QED BY <1>1, <1>2, <1>3, <2>1, CommandSoFar
<1>6. c.from \in Nat /\ c.to \in Nat
  BY <1>2, <1>3 DEF GoodCommand
<1>7. n \in c.from .. c.to + 1 /\ n \in c.from .. n
  BY <1>5, <1>6
<1>8. n + 1 \in c.from + 1 .. c.to + 1
  <2>1. n + 1 \in c.from + 1 .. c.to
    BY <1>1, <1>2, <1>3, <1>4, <1>7, BehindOperator
  <2> QED BY <1>6, <2>1
<1>9. TargetsBelow(l, c, n + 1) = TargetsBelow(l, c, n)
  <2>1. l[n] # "word"
    BY <1>1, <1>4
  <2> QED BY <1>2, <1>3, <1>4, <2>1, NoTarget
<1>10. Len(line') = n + 1 /\ Len(line') - 1 = n
  BY <1>3, <1>4
<1>11. \E x \in c.from .. n : l[x] # "word"
  BY <1>1, <1>4, <1>7
<1>12. at' = "target" <=> l[n] = "redir"
  BY <1>1, <1>4
<1>13. command' = [argv_parts |-> G!InOrder(G!Arguments(l, c)),
                   redir |-> G!InOrder({x \in G!Targets(l, c) : x < n + 1})]
  BY <1>1, <1>5, <1>9 DEF TargetsBelow
<1>14. InRedirections(l, c)'
  BY <1>10, <1>11, <1>12, <1>13, Zenon DEF InRedirections
<1>15. InCommandAt(l, c)'
  BY <1>1, <1>8, <1>10, <1>14 DEF InCommandAt
<1> QED BY <1>1, <1>2, <1>3, <1>15, GoesOnInCommand DEF InCommand

(* ParseTarget *)
LEMMA TargetStep ==
  ASSUME NEW l \in Lines, Ahead(l), Ahead(l)', Len(line') = Len(line) + 1, InStep(l), ParseTarget
  PROVE  InStep(l)'
<1>1. /\ at = "target" /\ g_tok = "word" /\ at' = "redirections"
      /\ command' = [command EXCEPT !.redir = Append(@, Len(line))]
      /\ UNCHANGED <<pipe, left, op, root>>
  BY DEF ParseTarget, Goto
<1>2. PICK i, j, k :
           /\ IsPlace(l, i, j, k)
           /\ InPipeline(l, i, j)
           /\ CommandsParsed(l, i, j, k - 1)
           /\ GoodCommand(l, CommandsAt(l, i, j)[k])
           /\ InCommandAt(l, CommandsAt(l, i, j)[k])
  BY <1>1, CommandIs DEF InCommand
<1>3. PICK c, n : c = CommandsAt(l, i, j)[k] /\ n = Len(line)
  OBVIOUS
<1>4. n \in Nat \ {0} /\ l[n] = "word"
  BY <1>1, <1>3, AheadIs
<1>5. /\ n \in c.from + 1 .. c.to + 1
      /\ \E x \in c.from .. n - 1 : l[x] # "word"
      /\ command = [argv_parts |-> G!InOrder(G!Arguments(l, c)), redir |-> G!InOrder(TargetsBelow(l, c, n))]
  BY <1>1, <1>2, <1>3 DEF InCommandAt, InRedirections, TargetsBelow
<1>6. c.from \in Nat /\ c.to \in Nat
  BY <1>2, <1>3 DEF GoodCommand
<1>7. n \in c.from + 1 .. c.to
  <2>1. n <= c.to
    BY <1>2, <1>3, <1>4, <1>5, BeforeTarget
  <2> QED BY <1>5, <1>6, <2>1
<1>8. n + 1 \in c.from + 1 .. c.to + 1
  BY <1>6, <1>7
<1>9. G!InOrder(TargetsBelow(l, c, n + 1)) = Append(G!InOrder(TargetsBelow(l, c, n)), n)
  BY <1>2, <1>3, <1>4, <1>5, <1>7, OneTarget
<1>10. Len(line') = n + 1 /\ Len(line') - 1 = n
  BY <1>3, <1>4
<1>11. \E x \in c.from .. n : l[x] # "word"
  <2>1. PICK x \in c.from .. n - 1 : l[x] # "word"
    BY <1>5
  <2>2. x \in c.from .. n
    BY <1>6, <1>7
  <2> QED BY <2>1, <2>2
<1>12. at' = "target" <=> l[n] = "redir"
  BY <1>1, <1>4
<1>13. command' = [argv_parts |-> G!InOrder(G!Arguments(l, c)),
                   redir |-> G!InOrder({x \in G!Targets(l, c) : x < n + 1})]
  <2>1. command' = [argv_parts |-> G!InOrder(G!Arguments(l, c)), redir |-> G!InOrder(TargetsBelow(l, c, n + 1))]
    BY <1>1, <1>3, <1>5, <1>9
  <2> QED BY <2>1 DEF TargetsBelow
<1>14. InRedirections(l, c)'
  BY <1>10, <1>11, <1>12, <1>13, Zenon DEF InRedirections
<1>15. InCommandAt(l, c)'
  BY <1>1, <1>8, <1>10, <1>14 DEF InCommandAt
<1> QED BY <1>1, <1>2, <1>3, <1>15, GoesOnInCommand DEF InCommand

(* A grammatical line has the target, and the command. *)
LEMMA NoMissingTarget ==
  ASSUME NEW l \in Lines, Ahead(l), InStep(l), MissingTarget
  PROVE  FALSE
<1>1. at = "target" /\ g_tok # "word"
  BY DEF MissingTarget
<1>2. PICK i, j, k :
           /\ IsPlace(l, i, j, k)
           /\ GoodCommand(l, CommandsAt(l, i, j)[k])
           /\ InCommandAt(l, CommandsAt(l, i, j)[k])
  BY <1>1, CommandIs DEF InCommand
<1>3. PICK c, n : c = CommandsAt(l, i, j)[k] /\ n = Len(line)
  OBVIOUS
<1>4. n \in Nat \ {0} /\ l[n] # "word"
  BY <1>1, <1>3, AheadIs
<1>5. n \in c.from + 1 .. c.to + 1 /\ l[n - 1] = "redir"
  BY <1>1, <1>2, <1>3 DEF InCommandAt, InRedirections
<1>6. c.from \in Nat /\ c.to \in Nat
  BY <1>2, <1>3 DEF GoodCommand
<1>7. PICK m \in c.from .. c.to + 1 : m = n - 1 /\ m + 1 = n
  <2>1. n - 1 \in c.from .. c.to + 1 /\ (n - 1) + 1 = n
    BY <1>4, <1>5, <1>6
  <2> QED BY <2>1
<1>8. l[m + 1] = "word"
  BY <1>2, <1>3, <1>5, <1>7, BehindOperator
<1> QED BY <1>4, <1>7, <1>8

LEMMA NoMissingCommand ==
  ASSUME NEW l \in Lines, Ahead(l), InStep(l), NoFirstCommand \/ NoLaterCommand
  PROVE  FALSE
<1>1. at = "command" /\ g_tok # "word"
  BY DEF NoFirstCommand, NoLaterCommand
<1>2. PICK i, j, k :
           /\ IsPlace(l, i, j, k)
           /\ GoodCommand(l, CommandsAt(l, i, j)[k])
           /\ InCommandAt(l, CommandsAt(l, i, j)[k])
  BY <1>1, CommandIs DEF InCommand
<1>3. Len(line) = CommandsAt(l, i, j)[k].from
  BY <1>1, <1>2 DEF InCommandAt
<1>4. l[Len(line)] = "word"
  BY <1>2, <1>3 DEF GoodCommand
<1>5. l[Len(line)] = g_tok
  BY AheadIs
<1> QED BY <1>1, <1>4, <1>5

(* EndCommand *)
LEMMA CommandStep ==
  ASSUME NEW l \in Lines, Ahead(l), ParserInv, InStep(l), EndCommand
  PROVE  InStep(l)'
<1>1. /\ at \in {"arguments", "redirections"}
      /\ at = "arguments" => g_tok # "word"
      /\ g_tok \notin {"fd", "redir"} /\ at' = "pipeline"
      /\ pipe' = Append(pipe, cmd_node_t(command.argv_parts, command.redir, is_bg))
      /\ UNCHANGED <<line, left, op, root>>
  BY DEF EndCommand, Goto
<1>2. PICK i, j, k :
           /\ IsPlace(l, i, j, k)
           /\ InPipeline(l, i, j)
           /\ CommandsParsed(l, i, j, k - 1)
           /\ GoodCommand(l, CommandsAt(l, i, j)[k])
           /\ InCommandAt(l, CommandsAt(l, i, j)[k])
  BY <1>1, CommandIs DEF InCommand
<1>3. PICK c, n : c = CommandsAt(l, i, j)[k] /\ n = Len(line)
  OBVIOUS
<1>4. n \in Nat \ {0} /\ l[n] = g_tok /\ g_tok \in token_type_e
  BY <1>3, AheadIs
<1>5. g_tok # "word"
  <2>1. ASSUME at = "redirections", g_tok = "word" PROVE FALSE
    <3>1. /\ n \in c.from + 1 .. c.to + 1
          /\ \E x \in c.from .. n - 1 : l[x] # "word"
          /\ l[n - 1] # "redir"
      BY <1>2, <1>3, <2>1 DEF InCommandAt, InRedirections
    <3>2. l[n - 1] = "redir"
      BY <1>2, <1>3, <1>4, <2>1, <3>1, BeforeTarget
    <3> QED BY <3>1, <3>2
  <2> QED BY <1>1, <2>1
<1>6. /\ n \in c.from + 1 .. c.to + 1
      /\ command = [argv_parts |-> G!InOrder(G!Arguments(l, c)), redir |-> G!InOrder(TargetsBelow(l, c, n))]
  BY <1>1, <1>2, <1>3, <1>5, CommandSoFar
<1>7. ASSUME Whole(l) PROVE StepInPipeline(l)'
  <2>1. l[n] \in Ends
    BY <1>1, <1>4, <1>5 DEF Ends, token_type_e
  <2>2. l[n] = "eof" => n = Len(l)
    BY <1>3, <1>4, <1>7 DEF Whole
  <2>3. n = c.to + 1 /\ TargetsBelow(l, c, n) = G!Targets(l, c)
    BY <1>2, <1>3, <1>6, <2>1, <2>2, CommandEnds
  <2>4. cmd_node_t(command.argv_parts, command.redir, is_bg) = G!CommandTree(l, c)
    <3>1. is_bg = (l[c.to + 1] = "bg")
      BY <1>4, <2>3 DEF is_bg
    <3> QED BY <1>6, <2>3, <3>1 DEF G!CommandTree, G!cmd_node_t, cmd_node_t
  <2>5. k \in Nat \ {0}
    BY <1>2, CommandsAre DEF IsPlace, ArePieces
  <2>6. PICK m \in Nat : m = k - 1 /\ m + 1 = k
    BY <2>5
  <2>7. pipe = [x \in 1 .. m |-> G!CommandTree(l, CommandsAt(l, i, j)[x])]
    BY <1>2, <2>6 DEF CommandsParsed
  <2>8. pipe' = Append(pipe, G!CommandTree(l, CommandsAt(l, i, j)[k]))
    BY <1>1, <1>3, <2>4
  <2>9. pipe' = [x \in 1 .. m + 1 |-> G!CommandTree(l, CommandsAt(l, i, j)[x])]
    BY <2>6, <2>7, <2>8
  <2>10. CommandsParsed(l, i, j, k)'
    BY <2>6, <2>9 DEF CommandsParsed
  <2>11. InPipeline(l, i, j)'
    BY <1>1, <1>2 DEF InPipeline, InList, ListsParsed
  <2>12. Len(line') = CommandsAt(l, i, j)[k].to + 1
    BY <1>1, <1>3, <2>3
  <2> QED BY <1>2, <2>10, <2>11, <2>12 DEF StepInPipeline, IsPlace
<1>8. Whole(l)' => Whole(l)
  BY <1>1 DEF Whole, g_tok
<1>9. at' \notin {"command", "conditional", "separators", "parsed", "exit"} \cup InCommand
  BY <1>1 DEF InCommand
<1> QED BY <1>1, <1>7, <1>8, <1>9, Zenon DEF InStep

-----------------------------------------------------------------------------
(* Between commands *)

(* What is behind a list and a pipeline, wherever they are. *)
LEMMA ListEnds ==
  ASSUME NEW l \in Lines, NEW i \in DOMAIN G!Lists(l), NEW list, list = ListAt(l, i)
  PROVE  l[list.to + 1] \in {"semi", "bg", "eof"}
<1>1. PICK m : m = Len(G!Lists(l))
  OBVIOUS
<1>2. /\ i \in 1 .. m /\ m \in Nat
      /\ i < m => l[list.to + 1] \in {"semi", "bg"}
      /\ i = m => l[list.to + 1] = "eof"
  BY <1>1, BehindList
<1>3. i < m \/ i = m
  BY <1>2
<1> QED BY <1>2, <1>3

LEMMA PipelineEnds ==
  ASSUME NEW l \in Lines, NEW i \in DOMAIN G!Lists(l), NEW j \in DOMAIN PipelinesAt(l, i),
         NEW p, p = PipelinesAt(l, i)[j]
  PROVE  l[p.to + 1] \in {"and", "or", "semi", "bg", "eof"}
<1>1. PICK m, list : m = Len(PipelinesAt(l, i)) /\ list = ListAt(l, i)
  OBVIOUS
<1>2. /\ j \in 1 .. m /\ m \in Nat
      /\ j < m => l[p.to + 1] \in {"and", "or"}
      /\ j = m => p.to = list.to
  BY <1>1, BehindPipeline
<1>3. l[list.to + 1] \in {"semi", "bg", "eof"}
  BY <1>1, ListEnds
<1>4. j < m \/ j = m
  BY <1>2
<1> QED BY <1>2, <1>3, <1>4

(* At the first command of a pipeline. *)
LEMMA FirstCommand ==
  ASSUME NEW l \in Lines, NEW i \in DOMAIN G!Lists(l), NEW j \in DOMAIN PipelinesAt(l, i),
         InPipeline(l, i, j)', at' = "command", pipe' = <<>>, Len(line') = PipelinesAt(l, i)[j].from
  PROVE  InStep(l)'
<1>1. PICK q : q = CommandsAt(l, i, j)
  OBVIOUS
<1>2. 1 \in DOMAIN q /\ q[1].from = Len(line')
  BY <1>1, CommandsAre DEF ArePieces
<1>3. IsPlace(l, i, j, 1)
  BY <1>1, <1>2 DEF IsPlace
<1>4. CommandsParsed(l, i, j, 1 - 1)'
  <2>1. [c \in 1 .. 0 |-> G!CommandTree(l, CommandsAt(l, i, j)[c])] = <<>>
    OBVIOUS
  <2>2. 1 - 1 = 0
    OBVIOUS
  <2> QED BY <2>1, <2>2 DEF CommandsParsed
<1>5. InCommandAt(l, CommandsAt(l, i, j)[1])'
  BY <1>1, <1>2 DEF InCommandAt
<1> QED BY <1>3, <1>4, <1>5, StaysInCommand

(* ParsePipe *)
LEMMA PipeStep ==
  ASSUME NEW l \in Lines, Ahead(l), Ahead(l)', Len(line') = Len(line) + 1, ParserInv, InStep(l), ParsePipe
  PROVE  InStep(l)'
<1>1. at = "pipeline" /\ g_tok = "pipe" /\ at' = "command" /\ UNCHANGED <<command, pipe, left, op, root>>
  BY DEF ParsePipe, Goto
<1>2. StepInPipeline(l)
  BY <1>1 DEF InStep, Whole
<1>3. PICK i \in DOMAIN G!Lists(l) : \E j \in DOMAIN PipelinesAt(l, i) : \E k \in DOMAIN CommandsAt(l, i, j) :
        /\ InPipeline(l, i, j)
        /\ CommandsParsed(l, i, j, k)
        /\ Len(line) = CommandsAt(l, i, j)[k].to + 1
  BY <1>2 DEF StepInPipeline
<1>4. PICK j \in DOMAIN PipelinesAt(l, i) : \E k \in DOMAIN CommandsAt(l, i, j) :
        /\ InPipeline(l, i, j)
        /\ CommandsParsed(l, i, j, k)
        /\ Len(line) = CommandsAt(l, i, j)[k].to + 1
  BY <1>3
<1>5. PICK k \in DOMAIN CommandsAt(l, i, j) :
        /\ InPipeline(l, i, j)
        /\ CommandsParsed(l, i, j, k)
        /\ Len(line) = CommandsAt(l, i, j)[k].to + 1
  BY <1>4
<1>6. PICK c, p, list, n : c = CommandsAt(l, i, j)[k] /\ p = PipelinesAt(l, i)[j] /\ list = ListAt(l, i) /\ n = Len(line)
  OBVIOUS
<1>7. n \in Nat \ {0} /\ l[n] = "pipe" /\ n = c.to + 1
  BY <1>1, <1>5, <1>6, AheadIs
<1>8. PICK d : d = Len(CommandsAt(l, i, j))
  OBVIOUS
<1>9. k < d
  <2>1. /\ k \in 1 .. d /\ d \in Nat
        /\ k = d => c.to = p.to
    BY <1>6, <1>8, BehindCommand
  <2>2. l[p.to + 1] # "pipe"
    BY <1>6, PipelineEnds
  <2> QED BY <1>7, <2>1, <2>2
<1>10. k + 1 \in DOMAIN CommandsAt(l, i, j) /\ k \in Nat
  BY <1>8, <1>9, CommandsAre DEF ArePieces
<1>11. CommandsAt(l, i, j)[k + 1].from = n + 1
  <2>1. CommandsAt(l, i, j)[k + 1].from = c.to + 2 /\ c.to \in Nat
    BY <1>6, <1>8, <1>9, BehindCommand
  <2> QED BY <1>7, <2>1
<1>12. InPipeline(l, i, j)'
  BY <1>1, <1>5 DEF InPipeline, InList, ListsParsed
<1>13. CommandsParsed(l, i, j, (k + 1) - 1)'
  <2>1. (k + 1) - 1 = k
    BY <1>10
  <2> QED BY <1>1, <1>5, <2>1 DEF CommandsParsed
<1>14. InCommandAt(l, CommandsAt(l, i, j)[k + 1])'
  BY <1>1, <1>6, <1>11 DEF InCommandAt
<1>15. IsPlace(l, i, j, k + 1)
  BY <1>10 DEF IsPlace
<1> QED BY <1>1, <1>12, <1>13, <1>14, <1>15, StaysInCommand

(* EndPipeline *)
LEMMA PipelineStep ==
  ASSUME NEW l \in Lines, Ahead(l), ParserInv, InStep(l), EndPipeline
  PROVE  InStep(l)'
<1>1. at = "pipeline" /\ g_tok # "pipe" /\ at' = "conditional" /\ left' = joined /\ UNCHANGED <<line, root>>
  BY DEF EndPipeline, Goto
<1>2. ASSUME Whole(l) PROVE StepInConditional(l)'
  <2>1. StepInPipeline(l)
    BY <1>1, <1>2 DEF InStep
  <2>2. PICK i \in DOMAIN G!Lists(l) : \E j \in DOMAIN PipelinesAt(l, i) : \E k \in DOMAIN CommandsAt(l, i, j) :
          /\ InPipeline(l, i, j)
          /\ CommandsParsed(l, i, j, k)
          /\ Len(line) = CommandsAt(l, i, j)[k].to + 1
    BY <2>1 DEF StepInPipeline
  <2>3. PICK j \in DOMAIN PipelinesAt(l, i) : \E k \in DOMAIN CommandsAt(l, i, j) :
          /\ InPipeline(l, i, j)
          /\ CommandsParsed(l, i, j, k)
          /\ Len(line) = CommandsAt(l, i, j)[k].to + 1
    BY <2>2
  <2>4. PICK k \in DOMAIN CommandsAt(l, i, j) :
          /\ InPipeline(l, i, j)
          /\ CommandsParsed(l, i, j, k)
          /\ Len(line) = CommandsAt(l, i, j)[k].to + 1
    BY <2>3
  <2>5. PICK c, d, n : c = CommandsAt(l, i, j)[k] /\ d = Len(CommandsAt(l, i, j)) /\ n = Len(line)
    OBVIOUS
  <2>6. l[n] # "pipe" /\ n = c.to + 1
    BY <1>1, <2>4, <2>5, AheadIs
  <2>7. /\ k \in 1 .. d /\ d \in Nat
        /\ k < d => l[c.to + 1] = "pipe"
        /\ k = d => c.to = PipelinesAt(l, i)[j].to
    BY <2>5, BehindCommand
  <2>8. k = d
    BY <2>6, <2>7
  <2>9. joined = G!FirstPipelines(l, ListAt(l, i))[j]
    <3>1. op \in {"none", "and", "or"}
      BY DEF ParserInv, LocalsOK
    <3>2. CommandsParsed(l, i, j, Len(CommandsAt(l, i, j)))
      BY <2>4, <2>5, <2>8
    <3> QED BY <2>4, <3>1, <3>2, PipelineJoined
  <2>10. left' = G!FirstPipelines(l, ListAt(l, i))[j]
    BY <1>1, <2>9
  <2>11. Len(line') = PipelinesAt(l, i)[j].to + 1
    BY <1>1, <2>5, <2>6, <2>7, <2>8
  <2>12. InList(l, i)'
    BY <1>1, <2>4 DEF InPipeline, InList, ListsParsed
  <2> QED BY <2>10, <2>11, <2>12 DEF StepInConditional
<1>3. Whole(l)' => Whole(l)
  BY <1>1 DEF Whole, g_tok
<1>4. at' \notin {"command", "pipeline", "separators", "parsed", "exit"} \cup InCommand
  BY <1>1 DEF InCommand
<1> QED BY <1>1, <1>2, <1>3, <1>4, Zenon DEF InStep

(* Where the pipeline ends. *)
LEMMA PipelineIs ==
  ASSUME NEW l, Ahead(l), InStep(l), at = "conditional", Whole(l)
  PROVE  \E i, j :
           /\ i \in DOMAIN G!Lists(l) /\ j \in DOMAIN PipelinesAt(l, i)
           /\ InList(l, i)
           /\ left = G!FirstPipelines(l, ListAt(l, i))[j]
           /\ Len(line) = PipelinesAt(l, i)[j].to + 1
BY DEF InStep, StepInConditional

(* ParseAndOr *)
LEMMA AndOrStep ==
  ASSUME NEW l \in Lines, Ahead(l), Ahead(l)', Len(line') = Len(line) + 1, ParserInv, InStep(l), ParseAndOr
  PROVE  InStep(l)'
<1>1. at = "conditional" /\ g_tok \in {"and", "or"} /\ at' = "command" /\ op' = g_tok /\ UNCHANGED <<command, pipe, left, root>>
  BY DEF ParseAndOr, Goto
<1>2. PICK i, j :
        /\ i \in DOMAIN G!Lists(l) /\ j \in DOMAIN PipelinesAt(l, i)
        /\ InList(l, i)
        /\ left = G!FirstPipelines(l, ListAt(l, i))[j]
        /\ Len(line) = PipelinesAt(l, i)[j].to + 1
  BY <1>1, PipelineIs DEF Whole
<1>3. PICK p, b, n : p = PipelinesAt(l, i)[j] /\ b = Len(PipelinesAt(l, i)) /\ n = Len(line)
  OBVIOUS
<1>4. n \in Nat \ {0} /\ l[n] = g_tok /\ n = p.to + 1
  BY <1>2, <1>3, AheadIs
<1>5. j < b
  <2>1. /\ j \in 1 .. b /\ b \in Nat
        /\ j = b => p.to = ListAt(l, i).to
    BY <1>2, <1>3, BehindPipeline
  <2>2. l[ListAt(l, i).to + 1] \in {"semi", "bg", "eof"}
    BY <1>2, ListEnds
  <2> QED BY <1>1, <1>4, <2>1, <2>2
<1>6. j + 1 \in DOMAIN PipelinesAt(l, i) /\ j \in Nat \ {0}
  BY <1>2, <1>3, <1>5, PipelinesAre DEF ArePieces
<1>7. PipelinesAt(l, i)[j + 1].from = n + 1
  <2>1. PipelinesAt(l, i)[j + 1].from = p.to + 2 /\ p.to \in Nat
    BY <1>2, <1>3, <1>5, BehindPipeline
  <2> QED BY <1>4, <2>1
<1>8. InPipeline(l, i, j + 1)'
  <2>1. InList(l, i)'
    BY <1>1, <1>2 DEF InList, ListsParsed
  <2>2. j + 1 # 1 /\ (j + 1) - 1 = j
    BY <1>6
  <2>3. PipelinesAt(l, i)[j + 1].from - 1 = n
    BY <1>4, <1>7
  <2>4. left' = G!FirstPipelines(l, ListAt(l, i))[(j + 1) - 1]
    BY <1>1, <1>2, <2>2
  <2>5. op' = l[PipelinesAt(l, i)[j + 1].from - 1]
    BY <1>1, <1>4, <2>3
  <2> QED BY <1>6, <2>1, <2>2, <2>4, <2>5, Zenon DEF InPipeline
<1>9. pipe' = <<>>
  BY <1>1 DEF ParserInv, PlacesOK
<1>10. Len(line') = PipelinesAt(l, i)[j + 1].from
  BY <1>3, <1>7
<1> QED BY <1>1, <1>2, <1>6, <1>8, <1>9, <1>10, FirstCommand

(* EndConditional *)
LEMMA ConditionalStep ==
  ASSUME NEW l \in Lines, Ahead(l), InStep(l), EndConditional
  PROVE  InStep(l)'
<1>1. /\ at = "conditional" /\ g_tok \notin {"and", "or"} /\ at' = "separators" /\ line' = line
      /\ root' = [root EXCEPT !.nodes = Append(@, left)]
  BY DEF EndConditional, Goto
<1>2. ASSUME Whole(l) PROVE StepInSeparators(l)'
  <2>1. PICK i, j :
          /\ i \in DOMAIN G!Lists(l) /\ j \in DOMAIN PipelinesAt(l, i)
          /\ InList(l, i)
          /\ left = G!FirstPipelines(l, ListAt(l, i))[j]
          /\ Len(line) = PipelinesAt(l, i)[j].to + 1
    BY <1>1, <1>2, PipelineIs
  <2>2. PICK p, b, n, list : p = PipelinesAt(l, i)[j] /\ b = Len(PipelinesAt(l, i)) /\ n = Len(line) /\ list = ListAt(l, i)
    OBVIOUS
  <2>3. n \in Nat \ {0} /\ l[n] = g_tok /\ n = p.to + 1
    BY <2>1, <2>2, AheadIs
  <2>4. /\ j \in 1 .. b /\ b \in Nat
        /\ j < b => l[p.to + 1] \in {"and", "or"}
        /\ j = b => p.to = list.to
    BY <2>1, <2>2, BehindPipeline
  <2>5. j = b
    BY <1>1, <2>3, <2>4
  <2>6. left = G!ListTree(l, list)
    BY <2>1, <2>2, <2>5 DEF G!ListTree, PipelinesAt
  <2>7. i \in Nat \ {0} /\ list.from \in Nat \ {0} /\ list.to \in Nat
    BY <2>1, <2>2, BehindList
  <2>8. ~G!Empty(list) /\ ListsParsed(l, i - 1)
    BY <2>1, <2>2 DEF InList
  <2>9. ListsParsed(l, i)'
    BY <1>1, <2>2, <2>6, <2>7, <2>8, OneList
  <2>10. Len(line') > 1 /\ Len(line') = list.to + 1
    <3>1. list.from <= list.to
      BY <2>7, <2>8 DEF G!Empty
    <3> QED BY <1>1, <2>2, <2>3, <2>4, <2>5, <2>7, <3>1
  <2> QED BY <2>1, <2>2, <2>9, <2>10 DEF StepInSeparators
<1>3. Whole(l)' => Whole(l)
  BY <1>1 DEF Whole, g_tok
<1>4. at' \notin {"command", "pipeline", "conditional", "parsed", "exit"} \cup InCommand
  BY <1>1 DEF InCommand
<1> QED BY <1>1, <1>2, <1>3, <1>4, Zenon DEF InStep

(* EndOfCommands *)
LEMMA NothingStep ==
  ASSUME NEW l \in Lines, Ahead(l), InStep(l), EndOfCommands
  PROVE  InStep(l)'
<1>1. at = "conditional" /\ left = NoNode /\ at' = "parsed" /\ line' = line
  BY DEF EndOfCommands, NothingParsed, Goto
<1>2. ASSUME Whole(l) PROVE FALSE
  <2>1. PICK i, j :
          /\ i \in DOMAIN G!Lists(l) /\ j \in DOMAIN PipelinesAt(l, i)
          /\ left = G!FirstPipelines(l, ListAt(l, i))[j]
    BY <1>1, <1>2, PipelineIs
  <2> QED BY <1>1, <2>1, ListNotNull
<1>3. g_tok' = "eof" /\ l # line'
  BY <1>1, <1>2 DEF Whole, g_tok
<1>4. at' \notin {"command", "pipeline", "conditional", "separators", "exit"} \cup InCommand
  BY <1>1 DEF InCommand
<1> QED BY <1>1, <1>3, <1>4, Zenon DEF InStep

-----------------------------------------------------------------------------
(* Between lists *)

(* Where a list ends: at a separator, and at the end of the line. *)
LEMMA ListIs ==
  ASSUME NEW l, Ahead(l), InStep(l), at = "separators", Whole(l), g_tok \in {"semi", "bg", "eof"}
  PROVE  \E i :
           /\ i \in DOMAIN G!Lists(l)
           /\ ListsParsed(l, i)
           /\ Len(line) = ListAt(l, i).to + 1
<1>1. l \in Lines
  BY DEF Ahead
<1>2. StepInSeparators(l)
  BY DEF InStep
<1>3. PICK i \in DOMAIN G!Lists(l) :
        \/ Len(line) = ListAt(l, i).to + 1 /\ ListsParsed(l, i)
        \/ Len(line) = ListAt(l, i).from /\ ListsParsed(l, i - 1)
  BY <1>2 DEF StepInSeparators
<1>4. PICK list, n : list = ListAt(l, i) /\ n = Len(line)
  OBVIOUS
<1>5. CASE n = list.from /\ ListsParsed(l, i - 1)
  <2>1. n \in Nat \ {0} /\ l[n] = g_tok /\ n <= Len(l)
    BY <1>4, AheadIs
  <2>2. /\ i \in Nat \ {0}
        /\ list.from \in Nat \ {0} /\ list.to \in Nat /\ list.from <= list.to + 1 /\ list.to + 1 <= Len(l)
        /\ \A x \in list.from .. list.to : l[x] \notin {"semi", "bg"}
    BY <1>1, <1>4, BehindList
  <2>3. ~(list.from <= list.to)
    <3>1. ASSUME list.from <= list.to PROVE FALSE
      <4>1. n \in list.from .. list.to
        BY <1>5, <2>2, <3>1
      <4>2. g_tok = "eof"
        BY <2>1, <2>2, <4>1
      <4>3. n = Len(l)
        BY <1>4, <4>2 DEF Whole
      <4>4. list.to + 1 <= n
        BY <2>2, <4>3
      <4> QED BY <1>5, <2>2, <3>1, <4>4
    <3> QED BY <3>1
  <2>4. G!Empty(list)
    BY <2>2, <2>3 DEF G!Empty
  <2>5. ListsParsed(l, i)
    BY <1>1, <1>4, <1>5, <2>2, <2>4, EmptyList
  <2>6. n = list.to + 1
    BY <1>5, <2>2, <2>3
  <2> QED BY <1>4, <2>5, <2>6
<1> QED BY <1>3, <1>4, <1>5

(* ParseSeparator *)
LEMMA SeparatorStep ==
  ASSUME NEW l \in Lines, Ahead(l), Ahead(l)', Len(line') = Len(line) + 1, InStep(l), ParseSeparator
  PROVE  InStep(l)'
<1>1. at = "separators" /\ g_tok \in {"semi", "bg"} /\ at' = at /\ root' = root
  BY DEF ParseSeparator, separator
<1>2. Whole(l)
  BY <1>1 DEF Whole
<1>3. PICK i :
        /\ i \in DOMAIN G!Lists(l)
        /\ ListsParsed(l, i)
        /\ Len(line) = ListAt(l, i).to + 1
  BY <1>1, <1>2, ListIs
<1>4. PICK list, n, m : list = ListAt(l, i) /\ n = Len(line) /\ m = Len(G!Lists(l))
  OBVIOUS
<1>5. n \in Nat \ {0} /\ l[n] = g_tok /\ n = list.to + 1
  BY <1>3, <1>4, AheadIs
<1>6. /\ i \in 1 .. m /\ m \in Nat /\ list.to \in Nat
      /\ i < m => ListAt(l, i + 1).from = list.to + 2
      /\ i = m => l[list.to + 1] = "eof"
  BY <1>3, <1>4, BehindList
<1>7. i < m
  BY <1>1, <1>5, <1>6
<1>8. i + 1 \in DOMAIN G!Lists(l) /\ (i + 1) - 1 = i
  <2>1. DOMAIN G!Lists(l) = 1 .. m
    BY <1>4, ListsAre DEF ArePieces
  <2> QED BY <1>6, <1>7, <2>1
<1>9. Len(line') = ListAt(l, i + 1).from /\ Len(line') > 1
  BY <1>4, <1>5, <1>6, <1>7
<1>10. ListsParsed(l, (i + 1) - 1)'
  BY <1>1, <1>3, <1>8 DEF ListsParsed
<1>11. StepInSeparators(l)'
  BY <1>8, <1>9, <1>10 DEF StepInSeparators
<1>12. at' \notin {"command", "pipeline", "conditional", "parsed", "exit"} \cup InCommand
  BY <1>1 DEF InCommand
<1> QED BY <1>11, <1>12, Zenon DEF InStep

(* A list that is not empty has a first pipeline. *)
LEMMA FirstPipeline ==
  ASSUME NEW l \in Lines, NEW i \in DOMAIN G!Lists(l), ~G!Empty(ListAt(l, i)), ListsParsed(l, i - 1)',
         left' = NoNode, op' = "none", at' = "command", pipe' = <<>>, Len(line') = ListAt(l, i).from
  PROVE  InStep(l)'
<1>1. 1 \in DOMAIN PipelinesAt(l, i) /\ PipelinesAt(l, i)[1].from = ListAt(l, i).from
  BY PipelinesAre DEF ArePieces
<1>2. InPipeline(l, i, 1)'
  BY <1>1 DEF InPipeline, InList
<1> QED BY <1>1, <1>2, FirstCommand

(* EndOfSeparators *)
LEMMA SeparatorsStep ==
  ASSUME NEW l \in Lines, Ahead(l), ParserInv, InStep(l), EndOfSeparators
  PROVE  InStep(l)'
<1>1. /\ at = "separators" /\ g_tok \notin {"semi", "bg"}
      /\ at' = (IF g_tok = "eof" THEN "parsed" ELSE "command")
      /\ UNCHANGED <<line, pipe, left, op, root>>
  BY DEF EndOfSeparators, separator, Goto
<1>2. CASE g_tok = "eof"
  <2>1. ASSUME l = line PROVE root = G!Tree(l)
    <3>1. Whole(l)
      BY <2>1 DEF Whole
    <3>2. PICK i :
            /\ i \in DOMAIN G!Lists(l)
            /\ ListsParsed(l, i)
            /\ Len(line) = ListAt(l, i).to + 1
      BY <1>1, <1>2, <3>1, ListIs
    <3>3. PICK list, m : list = ListAt(l, i) /\ m = Len(G!Lists(l))
      OBVIOUS
    <3>4. l[list.to + 1] = "eof"
      BY <1>2, <3>2, <3>3, AheadIs
    <3>5. /\ i \in 1 .. m /\ m \in Nat
          /\ i < m => l[list.to + 1] \in {"semi", "bg"}
      BY <3>2, <3>3, BehindList
    <3>6. i = m
      BY <3>4, <3>5
    <3>7. Len(line) > 1
      BY <1>1, <3>1 DEF InStep, StepInSeparators
    <3>8. l # <<"eof">>
      <4>1. Len(<<"eof">>) = 1
        OBVIOUS
      <4>2. Len(l) > 1
        BY <2>1, <3>7
      <4>3. l = <<"eof">> => Len(l) = 1
        BY <4>1, Zenon
      <4>4. PICK n \in Nat : n = Len(l)
        BY LineLength
      <4>5. n # 1
        BY <4>2, <4>4
      <4> QED BY <4>3, <4>4, <4>5, Zenon
    <3> QED BY <3>2, <3>3, <3>6, <3>8, AllLists
  <2>2. at' = "parsed" /\ g_tok' = "eof" /\ (l = line' => root' = G!Tree(l))
    BY <1>1, <1>2, <2>1 DEF g_tok
  <2>3. at' \notin {"command", "pipeline", "conditional", "separators", "exit"} \cup InCommand
    BY <2>2 DEF InCommand
  <2> QED BY <2>2, <2>3, Zenon DEF InStep
<1>3. CASE g_tok # "eof"
  <2>1. StepInSeparators(l)
    BY <1>1, <1>3 DEF InStep, Whole
  <2>2. PICK i \in DOMAIN G!Lists(l) :
          \/ Len(line) = ListAt(l, i).to + 1 /\ ListsParsed(l, i)
          \/ Len(line) = ListAt(l, i).from /\ ListsParsed(l, i - 1)
    BY <2>1 DEF StepInSeparators
  <2>3. PICK list, n : list = ListAt(l, i) /\ n = Len(line)
    OBVIOUS
  <2>4. l[n] = g_tok
    BY <2>3, AheadIs
  <2>5. n # list.to + 1
    <3>1. l[list.to + 1] \in {"semi", "bg", "eof"}
      BY <2>3, ListEnds
    <3> QED BY <1>1, <1>3, <2>4, <3>1
  <2>6. n = list.from /\ ListsParsed(l, i - 1)
    BY <2>2, <2>3, <2>5
  <2>7. ~G!Empty(list)
    <3>1. list.from \in Nat \ {0} /\ list.to \in Nat /\ list.from <= list.to + 1
      BY <2>3, BehindList
    <3> QED BY <2>5, <2>6, <3>1 DEF G!Empty
  <2>8. pipe' = <<>> /\ op' = "none" /\ left' = NoNode
    BY <1>1 DEF ParserInv, PlacesOK
  <2>9. ListsParsed(l, i - 1)'
    BY <1>1, <2>6 DEF ListsParsed
  <2> QED BY <1>1, <1>3, <2>3, <2>6, <2>7, <2>8, <2>9, FirstPipeline
<1> QED BY <1>2, <1>3

(* EmptyLine and StartLine *)
LEMMA TypedStep ==
  ASSUME NEW l \in Lines, ParserInv, Continues(l)', TypeLine
  PROVE  InStep(l)'
<1>1. at = "prompt" /\ line = <<>> /\ root = NoNode /\ pipe = <<>> /\ op = "none" /\ left = NoNode
  BY DEF TypeLine, EmptyLine, StartLine, ParserInv, LocalsOK, PlacesOK, BetweenLines
<1>2. CASE EmptyLine
  <2>1. line' = <<"eof">> /\ at' = "parsed" /\ root' = NoNode
    BY <1>1, <1>2 DEF EmptyLine, Goto
  <2>2. g_tok' = "eof"
    BY <2>1 DEF g_tok, Last
  <2>3. l = line' => root' = G!Tree(l)
    BY <2>1 DEF G!Tree, G!NoNode, NoNode
  <2>4. at' \notin {"command", "pipeline", "conditional", "separators", "exit"} \cup InCommand
    BY <2>1 DEF InCommand
  <2> QED BY <2>1, <2>2, <2>3, <2>4, Zenon DEF InStep
<1>3. CASE StartLine
  <2>1. /\ next_token /\ line' # <<"eof">> /\ root' = seq_node_t(<<>>) /\ at' = "command"
        /\ UNCHANGED <<pipe, left, op>>
    BY <1>3 DEF StartLine, Goto
  <2>2. PICK t \in token_type_e : line' = <<t>> /\ t # "eof"
    <3>1. PICK t \in TokensAfter(line) : line' = Append(line, t)
      BY <2>1 DEF next_token
    <3>2. t \in token_type_e /\ line' = <<t>>
      BY <1>1, <3>1 DEF TokensAfter
    <3> QED BY <2>1, <3>2
  <2>3. PICK n \in Nat \ {0} : n = Len(l) /\ l[n] = "eof"
    BY LineLength
  <2>4. n > 1
    <3>1. l[1] = t
      BY <2>2 DEF Continues
    <3> QED BY <2>2, <2>3, <3>1
  <2>5. 1 \in DOMAIN G!Lists(l) /\ ListAt(l, 1).from = 1
    BY ListsAre DEF ArePieces, ListAt
  <2>6. ~G!Empty(ListAt(l, 1))
    <3>1. Len(l) > 1 => ~G!Empty(G!Lists(l)[1])
      BY Zenon DEF Lines, G!Grammatical
    <3> QED BY <2>3, <2>4, <3>1 DEF ListAt
  <2>7. ListsParsed(l, 1 - 1)'
    <3>1. 1 - 1 = 0
      OBVIOUS
    <3> QED BY <2>1, <3>1, NoLists
  <2>8. Len(line') = 1
    BY <2>2
  <2> QED BY <1>1, <2>1, <2>5, <2>6, <2>7, <2>8, FirstPipeline
<1> QED BY <1>2, <1>3 DEF TypeLine

(* Nothing is claimed while a line is executed, or typed. *)
LEMMA OtherStep ==
  ASSUME NEW l, \/ at' \in {"exec_node", "prompt"}
                \/ at' = "exit" /\ stack' # <<>>
  PROVE  InStep(l)'
<1>1. at' \notin {"command", "pipeline", "conditional", "separators", "parsed"} \cup InCommand
  BY DEF InCommand
<1>2. ~(at' = "exit" /\ stack' = <<>>)
  OBVIOUS
<1> QED BY <1>1, <1>2, Zenon DEF InStep

(* A step of the parser stays in step with each line that can follow. *)
LEMMA ParserStepKeeps ==
  ASSUME ParserInv, GrammarInv, ParserStep, NEW l \in Lines, Continues(l)'
  PROVE  InStep(l)'
<1>1. line \in Seq(token_type_e) /\ line # <<>>
  BY DEF ParserInv, LocalsOK, ParserPlaces, ParserStep, ParseArgument, ParseDescriptor, ParseOperator, ParseTarget,
         MissingTarget, EndCommand, NoFirstCommand, NoLaterCommand, ParsePipe, EndPipeline, ParseAndOr,
         EndConditional, EndOfCommands, ParseSeparator, EndOfSeparators
<1>2. Continues(l) => Ahead(l) /\ InStep(l)
  BY <1>1 DEF Ahead, GrammarInv, Lines
<1>3. CASE next_token
  <2>1. Ahead(l) /\ Ahead(l)' /\ Len(line') = Len(line) + 1 /\ InStep(l)
    BY <1>1, <1>2, <1>3, AheadNext DEF Ahead
  <2>2. line' # line
    BY <2>1, AheadIs
  <2>3. ParseArgument \/ ParseDescriptor \/ ParseOperator \/ ParseTarget \/ ParsePipe \/ ParseAndOr \/ ParseSeparator
    BY <2>2 DEF ParserStep, MissingTarget, EndCommand, NoFirstCommand, NoLaterCommand, EndPipeline, EndConditional,
                EndOfCommands, NothingParsed, EndOfSeparators
  <2> QED BY <2>1, <2>3, ArgumentStep, OperatorStep, TargetStep, PipeStep, AndOrStep, SeparatorStep, Zenon
<1>4. CASE line' = line
  <2>1. Continues(l)
    BY <1>4 DEF Continues
  <2>2. Ahead(l) /\ InStep(l)
    BY <1>2, <2>1
  <2>3. ASSUME next_token PROVE FALSE
    <3>1. Len(line') = Len(line) + 1
      BY <1>1, <2>3, AheadNext
    <3> QED BY <1>4, <2>2, <3>1, AheadIs
  <2>4. \/ MissingTarget \/ EndCommand \/ NoFirstCommand \/ NoLaterCommand \/ EndPipeline \/ EndConditional
        \/ EndOfCommands \/ EndOfSeparators
    BY <2>3 DEF ParserStep, ParseArgument, ParseDescriptor, ParseOperator, ParseTarget, ParsePipe, ParseAndOr, ParseSeparator
  <2> QED BY <2>2, <2>4, NoMissingTarget, NoMissingCommand, CommandStep, PipelineStep, ConditionalStep, NothingStep,
             SeparatorsStep, Zenon
<1>5. next_token \/ line' = line
  BY DEF ParserStep, ParseArgument, ParseDescriptor, ParseOperator, ParseTarget,
         MissingTarget, EndCommand, NoFirstCommand, NoLaterCommand, ParsePipe, EndPipeline, ParseAndOr,
         EndConditional, EndOfCommands, NothingParsed, ParseSeparator, EndOfSeparators
<1> QED BY <1>3, <1>4, <1>5

(* Nor does a step that changes nothing. *)
LEMMA SameStep ==
  ASSUME NEW l, InStep(l), UNCHANGED vars
  PROVE  InStep(l)'
<1>1. UNCHANGED <<line, at, command, pipe, left, op, root, stack>>
  BY DEF vars, parser_vars, execution_vars
<1>2. \A i : ListsParsed(l, i)' = ListsParsed(l, i)
  BY <1>1 DEF ListsParsed
<1>3. \A i : InList(l, i)' = InList(l, i)
  BY <1>2 DEF InList
<1>4. \A i, j : InPipeline(l, i, j)' = InPipeline(l, i, j)
  BY <1>1, <1>3 DEF InPipeline
<1>5. \A i, j, k : CommandsParsed(l, i, j, k)' = CommandsParsed(l, i, j, k)
  BY <1>1 DEF CommandsParsed
<1>6. \A c : InCommandAt(l, c)' = InCommandAt(l, c)
  BY <1>1 DEF InCommandAt, InArguments, InRedirections
<1>7. StepInCommand(l) => StepInCommand(l)'
  BY <1>4, <1>5, <1>6, Zenon DEF StepInCommand
<1>8. StepInPipeline(l) => StepInPipeline(l)'
  BY <1>1, <1>4, <1>5 DEF StepInPipeline
<1>9. StepInConditional(l) => StepInConditional(l)'
  BY <1>1, <1>3 DEF StepInConditional
<1>10. StepInSeparators(l) => StepInSeparators(l)'
  BY <1>1, <1>2 DEF StepInSeparators
<1>11. Whole(l)' = Whole(l) /\ g_tok' = g_tok
  BY <1>1 DEF Whole, g_tok
<1> QED BY <1>1, <1>7, <1>8, <1>9, <1>10, <1>11 DEF InStep

(* The invariant is inductive. *)
LEMMA GrammarNext ==
  ASSUME ParserInv, GrammarInv, [Next]_vars
  PROVE  GrammarInv'
<1>1. ASSUME NEW l \in Seq(token_type_e), Continues(l)', G!Grammatical(l) PROVE InStep(l)'
  <2>1. CASE at' \in {"exec_node", "prompt"} \/ (at' = "exit" /\ stack' # <<>>)
    BY <2>1, OtherStep
  <2>2. CASE UNCHANGED vars
    <3>1. Continues(l)
      BY <1>1, <2>2 DEF Continues, vars, parser_vars
    <3>2. InStep(l)
      BY <1>1, <3>1 DEF GrammarInv
    <3> QED BY <2>2, <3>2, SameStep
  <2>3. CASE ExecutionStep
    <3>1. at' \in {"exec_node", "prompt"} \/ (at' = "exit" /\ stack' # <<>>)
      BY <2>3 DEF ExecutionStep, ExecuteLine, FinishLine, Unusable, Usable, Executing, NextOfSequence, EndOfSequence,
                  LeftOfConditional, RightOfConditional, EndOfConditional, RunsJob, RunBuiltin, RunBackground,
                  RunForeground, NoName, Goto, parser_vars, execution_vars
    <3> QED BY <2>1, <3>1
  <2>4. CASE TypeLine \/ ParserStep
    <3>1. line' # <<>>
      <4>1. CASE TypeLine
        <5>1. CASE EmptyLine
          BY <5>1 DEF EmptyLine
        <5>2. CASE StartLine
          <6>1. PICK t : line' = Append(line, t)
            BY <5>2 DEF StartLine, next_token
          <6>2. line \in Seq(token_type_e)
            BY DEF ParserInv, LocalsOK
          <6> QED BY <6>1, <6>2
        <5> QED BY <4>1, <5>1, <5>2 DEF TypeLine
      <4>2. CASE ParserStep
        <5>1. ParserInv'
          BY ParserInvNext
        <5>2. at' \in ParserPlaces \cup {"parsed", "exit"}
          BY <4>2 DEF ParserStep, ParseArgument, ParseDescriptor, ParseOperator, ParseTarget, Goto, ParserPlaces,
                  MissingTarget, EndCommand, NoFirstCommand, NoLaterCommand, ParsePipe, EndPipeline, ParseAndOr,
                  EndConditional, EndOfCommands, NothingParsed, ParseSeparator, EndOfSeparators
        <5>3. CASE at' \in ParserPlaces \cup {"parsed"}
          BY <5>1, <5>3 DEF ParserInv, LocalsOK
        <5>4. CASE at' = "exit"
          <6>1. line' = line /\ at \in ParserPlaces
            BY <4>2, <5>4 DEF ParserStep, ParseArgument, ParseDescriptor, ParseOperator, ParseTarget, Goto, ParserPlaces,
                  MissingTarget, EndCommand, NoFirstCommand, NoLaterCommand, ParsePipe, EndPipeline, ParseAndOr,
                  EndConditional, EndOfCommands, NothingParsed, ParseSeparator, EndOfSeparators
          <6> QED BY <6>1 DEF ParserInv, LocalsOK
        <5> QED BY <5>2, <5>3, <5>4
      <4> QED BY <2>4, <4>1, <4>2
    <3>2. line' \in Seq(token_type_e)
      BY ParserInvNext DEF ParserInv, LocalsOK
    <3>3. l # <<>>
      <4>1. Len(line') \in Nat \ {0} /\ Len(l) \in Nat
        BY <3>1, <3>2
      <4>2. Len(l) >= Len(line')
        BY <1>1 DEF Continues
      <4> QED BY <4>1, <4>2
    <3>4. l \in Lines
      BY <1>1, <3>3 DEF Lines
    <3> QED BY <1>1, <2>4, <3>4, TypedStep, ParserStepKeeps
  <2> QED BY <2>2, <2>3, <2>4 DEF Next, LineStep
<1> QED BY <1>1 DEF GrammarInv

(* The line as it is, or with whatever may follow. *)
LEMMA GrammarMet ==
  ASSUME ParserInv, GrammarInv
  PROVE  ParserMeetsGrammar
<1>1. line \in Seq(token_type_e)
  BY DEF ParserInv, LocalsOK
<1>2. ASSUME G!Viable(line) PROVE \E l \in Seq(token_type_e) : InStep(l)
  <2>1. PICK rest : rest \in Seq(token_type_e) /\ G!Grammatical(line \o rest)
    <3>1. PICK rest \in {<<"eof">>, <<"word", "eof">>, <<"redir", "word", "eof">>} : G!Grammatical(line \o rest)
      BY <1>2 DEF G!Viable
    <3>2. rest \in Seq(token_type_e)
      <4>1. {"word", "redir", "eof"} \subseteq token_type_e
        BY DEF token_type_e
      <4>2. <<"eof">> \in Seq(token_type_e)
        BY <4>1
      <4>3. <<"word", "eof">> \in Seq(token_type_e)
        BY <4>1
      <4>4. <<"redir", "word", "eof">> \in Seq(token_type_e)
        BY <4>1
      <4> QED BY <4>2, <4>3, <4>4
    <3> QED BY <3>1, <3>2
  <2>2. PICK l : l = line \o rest
    OBVIOUS
  <2>3. l \in Seq(token_type_e) /\ Len(l) >= Len(line) /\ \A x \in DOMAIN line : l[x] = line[x]
    BY <1>1, <2>1, <2>2
  <2> QED BY <2>1, <2>2, <2>3 DEF GrammarInv, Continues
<1>3. ASSUME G!Grammatical(line) PROVE InStep(line)
  <2>1. Continues(line)
    BY <1>1 DEF Continues
  <2> QED BY <1>1, <1>3, <2>1 DEF GrammarInv
<1>4. ASSUME at = "parsed", g_tok = "eof", G!Grammatical(line) PROVE root = G!Tree(line)
  BY <1>3, <1>4 DEF InStep
<1>5. ASSUME at = "parsed", g_tok # "eof" PROVE ~G!Viable(line)
  BY <1>2, <1>5 DEF InStep
<1>6. ASSUME at = "exit", stack = <<>> PROVE ~G!Viable(line)
  BY <1>2, <1>6 DEF InStep
<1> QED BY <1>4, <1>5, <1>6 DEF ParserMeetsGrammar

(* parser.c builds the tree that README.md:19-26 shows for each line it     *)
(* allows, reads all of it, and drops the rest of a line or ends the shell  *)
(* only where the line is wrong (parse_command, parse_redirection,          *)
(* parse_pipeline, parse_conditional, parser_create_ast).                   *)
THEOREM TreesAreGrammatical == Spec => []ParserMeetsGrammar
<1>1. Init => ParserInv /\ GrammarInv
  <2>1. ASSUME Init, NEW l PROVE InStep(l)
    <3>1. at = "prompt"
      BY <2>1 DEF Init, ParserInit
    <3>2. at \notin {"command", "pipeline", "conditional", "separators", "parsed", "exit"} \cup InCommand
      BY <3>1 DEF InCommand
    <3> QED BY <3>2, Zenon DEF InStep
  <2> QED BY <2>1, ParserInvInit DEF GrammarInv
<1>2. ParserInv /\ GrammarInv /\ [Next]_vars => (ParserInv /\ GrammarInv)'
  BY ParserInvNext, GrammarNext
<1>3. ParserInv /\ GrammarInv => ParserMeetsGrammar
  BY GrammarMet
<1> QED BY <1>1, <1>2, <1>3, PTL DEF Spec
=============================================================================
