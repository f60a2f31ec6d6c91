--------------------------- MODULE CommandLineProofs ---------------------------
(***************************************************************************)
(* What CommandLine guarantees for every bound on the line, every set of   *)
(* exit codes and whatever malloc returns: the types, the words and their  *)
(* order, the place of background jobs, and that exec_node implements      *)
(* AndOrLists.  ParserInv, WordsInv, BackgroundInv and StackInv are        *)
(* inductive, each relative to those before it.                            *)
(***************************************************************************)
EXTENDS CommandLineInvariant, LibraryProofs, SequenceTheorems, TLAPS

-----------------------------------------------------------------------------
(* Lists of jobs *)

(* What is read off a list next, and the item it is. *)
ItemOf(n) == [op |-> n.op, job |-> n.right]

NextReading(r) ==
  IF IsConditional(r.left)
  THEN [left |-> r.left.left, items |-> <<[op |-> r.left.op, job |-> r.left.right]>> \o r.items]
  ELSE r

FirstReading(n) == [left |-> n, items |-> <<>>]
ReadOff(read, n, k) == IF k = 0 THEN {FirstReading(n)} ELSE {NextReading(r) : r \in read[k - 1]}
ReadsList(read, n, m) == read = [k \in 0 .. m |-> ReadOff(read, n, k)]

(* Reading a list goes on with the next item, *)
LEMMA ListGoesOn ==
  ASSUME NEW n, NEW m \in Nat, NEW read, ReadsList(read, n, m)
  PROVE  \E longer : ReadsList(longer, n, m + 1)
<1> DEFINE longer == [k \in 0 .. m + 1 |-> IF k <= m THEN read[k] ELSE ReadOff(read, n, k)]
<1>1. ASSUME NEW k \in 0 .. m + 1 PROVE longer[k] = ReadOff(longer, n, k)
  <2>1. k # 0 => longer[k - 1] = read[k - 1]
    OBVIOUS
  <2>2. ReadOff(longer, n, k) = ReadOff(read, n, k)
    BY <2>1, Zenon DEF ReadOff
  <2>3. k <= m => read[k] = ReadOff(read, n, k)
    BY DEF ReadsList
  <2> QED BY <2>2, <2>3
<1>2. longer = [k \in 0 .. m + 1 |-> ReadOff(longer, n, k)]
  BY <1>1
<1> QED BY <1>2 DEF ReadsList

(* so ListItems reads any number of them. *)
LEMMA ListReads == \A n : \A m \in Nat : \E read : ReadsList(read, n, m)
<1> SUFFICES ASSUME NEW n PROVE \A m \in Nat : \E read : ReadsList(read, n, m)
  OBVIOUS
<1> DEFINE stuck == {m \in Nat : ~\E read : ReadsList(read, n, m)}
<1>1. ASSUME stuck # {} PROVE FALSE
  <2>1. PICK m \in stuck : \A k \in stuck : m <= k
    BY <1>1, SmallestMember
  <2>2. CASE m = 0
    <3> DEFINE first == [k \in 0 .. 0 |-> {FirstReading(n)}]
    <3>1. first = [k \in 0 .. 0 |-> ReadOff(first, n, k)]
      BY DEF ReadOff
    <3> QED BY <2>1, <2>2, <3>1 DEF ReadsList
  <2>3. CASE m # 0
    <3>1. m - 1 \in Nat /\ m - 1 \notin stuck /\ (m - 1) + 1 = m
      BY <2>1, <2>3
    <3> QED BY <2>1, <3>1, ListGoesOn
  <2> QED BY <2>2, <2>3
<1> QED BY <1>1

(* The readings of a list, one after the other. *)
Readings(f, n) ==
  /\ f[0] = FirstReading(n)
  /\ \A k \in 1 .. MaxTokens : f[k] = NextReading(f[k - 1])

(* What ListItems has read is what is left of the list and its items. *)
LEMMA ListUnfolds ==
  ASSUME NEW n
  PROVE  \E f : Readings(f, n) /\ ListItems(n) = <<[op |-> "none", job |-> f[MaxTokens].left]>> \o f[MaxTokens].items
<1> DEFINE read == CHOOSE g : ReadsList(g, n, MaxTokens)
           chosen == CHOOSE r \in read[MaxTokens] : TRUE
<1>1. MaxTokens \in Nat
  BY CommandLineAssumption
<1>2. ReadsList(read, n, MaxTokens)
  BY <1>1, ListReads
<1>3. ListItems(n) = <<[op |-> "none", job |-> chosen.left]>> \o chosen.items
  BY Zenon DEF ListItems, ReadsList, ReadOff, NextReading, FirstReading
<1>4. \A k \in 0 .. MaxTokens : read[k] = ReadOff(read, n, k)
  <2> HIDE DEF read
  <2> QED BY <1>2 DEF ReadsList
<1> HIDE DEF read
<1> DEFINE f == [k \in 0 .. MaxTokens |-> CHOOSE r \in read[k] : TRUE]
           wrong == {k \in Nat : k \in 0 .. MaxTokens /\ read[k] # {f[k]}}
<1>5. ASSUME NEW k \in 0 .. MaxTokens, NEW r, read[k] = {r} PROVE f[k] = r
  BY <1>5
<1>6. ASSUME wrong # {} PROVE FALSE
  <2>1. PICK k \in wrong : \A j \in wrong : k <= j
    BY <1>6, SmallestMember
  <2>2. k \in Nat /\ k \in 0 .. MaxTokens /\ read[k] # {f[k]} /\ read[k] = ReadOff(read, n, k)
    BY <1>4, <2>1
  <2>3. \E r : read[k] = {r}
    <3>1. CASE k = 0
      BY <2>2, <3>1 DEF ReadOff
    <3>2. CASE k # 0
      <4>1. k - 1 \in Nat /\ k - 1 \in 0 .. MaxTokens /\ k - 1 < k
        BY <1>1, <2>2, <3>2
      <4>2. read[k - 1] # {f[k - 1]} => k - 1 \in wrong
        BY <4>1
      <4>3. read[k - 1] = {f[k - 1]}
        <5> HIDE DEF wrong, f
        <5> QED BY <2>1, <2>2, <4>1, <4>2
      <4> HIDE DEF f
      <4>4. read[k] = {NextReading(r) : r \in {f[k - 1]}}
        BY <2>2, <3>2, <4>3, Zenon DEF ReadOff
      <4>5. read[k] = {NextReading(f[k - 1])}
        BY <4>4
      <4> QED BY <4>5
    <3> QED BY <3>1, <3>2
  <2> HIDE DEF f
  <2> QED BY <1>5, <2>2, <2>3
<1>7. ASSUME NEW k \in 0 .. MaxTokens PROVE read[k] = {f[k]}
  <2>1. read[k] # {f[k]} => k \in wrong
    BY <1>1
  <2> HIDE DEF wrong, f
  <2> QED BY <1>6, <2>1
<1>8. chosen = f[MaxTokens]
  <2>1. MaxTokens \in 0 .. MaxTokens
    BY <1>1
  <2> QED BY <2>1
<1> HIDE DEF f, chosen
<1>9. Readings(f, n)
  <2>1. f[0] = FirstReading(n)
    <3>1. 0 \in 0 .. MaxTokens
      BY <1>1
    <3>2. read[0] = {f[0]} /\ read[0] = ReadOff(read, n, 0)
      BY <1>4, <1>7, <3>1
    <3>3. {f[0]} = {FirstReading(n)}
      BY <3>2 DEF ReadOff
    <3> QED BY <3>3
  <2>2. ASSUME NEW k \in 1 .. MaxTokens PROVE f[k] = NextReading(f[k - 1])
    <3>1. k \in 0 .. MaxTokens /\ k - 1 \in 0 .. MaxTokens /\ k # 0
      BY <1>1
    <3>2. read[k] = {f[k]} /\ read[k - 1] = {f[k - 1]} /\ read[k] = ReadOff(read, n, k)
      BY <1>4, <1>7, <3>1
    <3>3. {f[k]} = {NextReading(r) : r \in {f[k - 1]}}
      BY <3>1, <3>2, Zenon DEF ReadOff
    <3> QED BY <3>3
  <2> QED BY <2>1, <2>2 DEF Readings
<1> QED BY <1>3, <1>8, <1>9

FirstItem(n) == [op |-> "none", job |-> n]

(* All that is read is of the list. *)
Items_(f) == {ItemOf(f[k].left) : k \in 0 .. MaxTokens}

(* What has been read of a list is a sequence of its items. *)
LEMMA ReadingTypes ==
  ASSUME NEW n, NEW f, Readings(f, n)
  PROVE  \A k \in 0 .. MaxTokens : f[k].items \in Seq(Items_(f))
<1>1. MaxTokens \in Nat
  BY CommandLineAssumption
<1> DEFINE wrong == {k \in Nat : k \in 0 .. MaxTokens /\ f[k].items \notin Seq(Items_(f))}
<1>2. ASSUME wrong # {} PROVE FALSE
  <2>1. PICK k \in wrong : \A j \in wrong : k <= j
    BY <1>2, SmallestMember
  <2>2. k \in Nat /\ k \in 0 .. MaxTokens /\ f[k].items \notin Seq(Items_(f))
    BY <2>1
  <2>3. CASE k = 0
    <3>1. f[0].items = <<>>
      BY DEF Readings, FirstReading
    <3>2. <<>> \in Seq(Items_(f))
      OBVIOUS
    <3> QED BY <2>2, <2>3, <3>1, <3>2
  <2>4. CASE k # 0
    <3>1. k - 1 \in Nat /\ k - 1 \in 0 .. MaxTokens /\ k - 1 < k /\ k \in 1 .. MaxTokens
      BY <1>1, <2>2, <2>4
    <3>2. f[k - 1].items \notin Seq(Items_(f)) => k - 1 \in wrong
      BY <3>1
    <3>3. f[k - 1].items \in Seq(Items_(f))
      <4> HIDE DEF wrong
      <4> QED BY <2>1, <2>2, <3>1, <3>2
    <3>4. PICK r : r = f[k - 1]
      OBVIOUS
    <3>5. f[k] = NextReading(r) /\ r.items \in Seq(Items_(f)) /\ ItemOf(r.left) \in Items_(f)
      BY <3>1, <3>3, <3>4 DEF Readings, Items_
    <3>6. CASE IsConditional(r.left)
      <4>1. f[k].items = <<ItemOf(r.left)>> \o r.items
        BY <3>5, <3>6 DEF NextReading, ItemOf
      <4>2. PICK s, e : s = r.items /\ e = ItemOf(r.left)
        OBVIOUS
      <4>3. s \in Seq(Items_(f)) /\ e \in Items_(f) /\ f[k].items = <<e>> \o s
        BY <3>5, <4>1, <4>2
      <4>4. <<e>> \o s \in Seq(Items_(f))
        BY <4>3
      <4> QED BY <2>2, <4>3, <4>4
    <3>7. CASE ~IsConditional(r.left)
      <4>1. f[k] = r
        BY <3>5, <3>7 DEF NextReading
      <4> QED BY <2>2, <3>5, <4>1
    <3> QED BY <3>6, <3>7
  <2> QED BY <2>3, <2>4
<1>3. ASSUME NEW k \in 0 .. MaxTokens, f[k].items \notin Seq(Items_(f)) PROVE FALSE
  <2>1. k \in wrong
    BY <1>1, <1>3
  <2> QED BY <1>2, <2>1
<1> QED BY <1>3

(* While there are conditionals to read off, each gives an item. *)
LEMMA EachGivesOne ==
  ASSUME NEW n, NEW f, Readings(f, n)
  PROVE  \A k \in 0 .. MaxTokens : IsConditional(f[k].left) => Len(f[k].items) = k
<1>1. MaxTokens \in Nat
  BY CommandLineAssumption
<1> DEFINE Bad(k) == k \in 0 .. MaxTokens /\ IsConditional(f[k].left) /\ Len(f[k].items) # k
           wrong == {k \in Nat : Bad(k)}
<1>2. ASSUME wrong # {} PROVE FALSE
  <2>1. PICK k \in wrong : \A j \in wrong : k <= j
    BY <1>2, SmallestMember
  <2>2. k \in Nat /\ k \in 0 .. MaxTokens /\ IsConditional(f[k].left) /\ Len(f[k].items) # k
    BY <2>1
  <2>3. CASE k = 0
    BY <2>2, <2>3 DEF Readings, FirstReading
  <2>4. CASE k # 0
    <3>1. k - 1 \in Nat /\ k - 1 \in 0 .. MaxTokens /\ k - 1 < k /\ k \in 1 .. MaxTokens
      BY <1>1, <2>2, <2>4
    <3>2. Bad(k - 1) => k - 1 \in wrong
      BY <3>1
    <3>3. ~Bad(k - 1)
      <4> HIDE DEF wrong, Bad
      <4> QED BY <2>1, <2>2, <3>1, <3>2
    <3>4. PICK r : r = f[k - 1]
      OBVIOUS
    <3>5. f[k] = NextReading(r) /\ r.items \in Seq(Items_(f))
      BY <3>1, <3>4, ReadingTypes DEF Readings
    <3>6. IsConditional(r.left)
      BY <2>2, <3>5 DEF NextReading
    <3>7. Len(r.items) = k - 1
      BY <3>1, <3>3, <3>4, <3>6
    <3>8. Len(f[k].items) = k
      <4>1. f[k].items = <<ItemOf(r.left)>> \o r.items
        BY <3>5, <3>6 DEF NextReading, ItemOf
      <4>2. PICK s, e : s = r.items /\ e = ItemOf(r.left)
        OBVIOUS
      <4>3. s \in Seq(Items_(f)) /\ f[k].items = <<e>> \o s /\ Len(s) = k - 1
        BY <3>5, <3>7, <4>1, <4>2
      <4>4. Len(<<e>> \o s) = 1 + Len(s)
        BY <4>3
      <4> QED BY <2>2, <4>3, <4>4
    <3> QED BY <2>2, <3>8
  <2> QED BY <2>3, <2>4
<1>3. ASSUME NEW k \in 0 .. MaxTokens, Bad(k) PROVE FALSE
  <2>1. k \in wrong
    BY <1>1, <1>3
  <2> QED BY <1>2, <2>1
<1> QED BY <1>3

(* A conditional gives the next item. *)
LEMMA ConditionalReading ==
  ASSUME NEW r, IsConditional(r.left)
  PROVE  /\ NextReading(r).left = r.left.left
         /\ NextReading(r).items = <<ItemOf(r.left)>> \o r.items
BY DEF NextReading, ItemOf

(* Reading a conditional is to read its left side, with its right side behind. *)
LEMMA ReadingOfConditional ==
  ASSUME NEW n, IsConditional(n), NEW f, Readings(f, n), NEW g, Readings(g, n.left),
         NEW k \in 0 .. MaxTokens - 1
  PROVE  /\ f[k + 1].left = g[k].left
         /\ f[k + 1].items = Append(g[k].items, ItemOf(n))
<1>1. MaxTokens \in Nat /\ MaxTokens \in 1 .. MaxTokens
  BY CommandLineAssumption
<1> DEFINE x == ItemOf(n)
           S == Items_(g) \cup {x}
<1>2. ASSUME NEW j \in 0 .. MaxTokens PROVE g[j].items \in Seq(S)
  BY ReadingTypes
<1> DEFINE Good(j) == f[j + 1].left = g[j].left /\ f[j + 1].items = Append(g[j].items, x)
           wrong == {j \in Nat : j \in 0 .. MaxTokens - 1 /\ ~Good(j)}
<1>3. ASSUME wrong # {} PROVE FALSE
  <2>1. PICK j \in wrong : \A i \in wrong : j <= i
    BY <1>3, SmallestMember
  <2>2. j \in Nat /\ j \in 0 .. MaxTokens - 1 /\ ~Good(j)
    BY <2>1
  <2>3. CASE j = 0
    <3>1. f[1] = NextReading(f[0]) /\ f[0] = FirstReading(n) /\ g[0] = FirstReading(n.left)
      <4>1. 1 \in 1 .. MaxTokens /\ 1 - 1 = 0
        BY <1>1
      <4>2. f[1] = NextReading(f[1 - 1])
        BY <4>1 DEF Readings
      <4> QED BY <4>1, <4>2 DEF Readings
    <3>2. f[1] = [left |-> n.left, items |-> <<x>> \o <<>>]
      BY <3>1 DEF FirstReading, NextReading, ItemOf
    <3>3. <<x>> \o <<>> = Append(<<>>, x)
      OBVIOUS
    <3>4. f[0 + 1].left = g[0].left /\ f[0 + 1].items = Append(g[0].items, x)
      BY <3>1, <3>2, <3>3 DEF FirstReading
    <3> QED BY <2>2, <2>3, <3>4
  <2>4. CASE j # 0
    <3>1. j - 1 \in Nat /\ j - 1 \in 0 .. MaxTokens - 1 /\ j - 1 < j /\ (j - 1) + 1 = j
          /\ j \in 1 .. MaxTokens /\ j + 1 \in 1 .. MaxTokens /\ (j + 1) - 1 = j
          /\ j - 1 \in 0 .. MaxTokens
      BY <1>1, <2>2, <2>4
    <3>2. ~Good(j - 1) => j - 1 \in wrong
      BY <3>1
    <3>3. Good(j - 1)
      <4> HIDE DEF wrong, Good
      <4> QED BY <2>1, <2>2, <3>1, <3>2
    <3>4. PICK r, p : r = g[j - 1] /\ p = f[j]
      OBVIOUS
    <3>5. /\ g[j] = NextReading(r) /\ r.items \in Seq(S)
          /\ f[j + 1] = NextReading(p)
          /\ p.left = r.left /\ p.items = Append(r.items, x)
      <4>1. f[j] = f[(j - 1) + 1] /\ f[j + 1] = NextReading(f[(j + 1) - 1]) /\ f[(j + 1) - 1] = f[j]
        BY <3>1 DEF Readings
      <4>2. p.left = r.left /\ p.items = Append(r.items, x)
        BY <3>3, <3>4, <4>1
      <4>3. g[j] = NextReading(r) /\ r.items \in Seq(S)
        BY <1>2, <3>1, <3>4 DEF Readings
      <4> QED BY <3>4, <4>1, <4>2, <4>3
    <3>6. CASE IsConditional(r.left)
      <4> DEFINE y == ItemOf(r.left)
      <4>1. /\ g[j].left = r.left.left /\ g[j].items = <<y>> \o r.items
            /\ f[j + 1].left = r.left.left /\ f[j + 1].items = <<y>> \o Append(r.items, x)
        <5>1. g[j].left = r.left.left /\ g[j].items = <<y>> \o r.items
          BY <3>5, <3>6, ConditionalReading
        <5>2. f[j + 1].left = p.left.left /\ f[j + 1].items = <<ItemOf(p.left)>> \o p.items
          BY <3>5, <3>6, ConditionalReading
        <5> QED BY <3>5, <5>1, <5>2, Zenon
      <4>2. PICK s, e : s = r.items /\ e = y
        OBVIOUS
      <4> HIDE DEF x, S
      <4>3. s \in Seq(S \cup {e})
        BY <3>5, <4>2
      <4>4. <<e>> \o Append(s, x) = Append(<<e>> \o s, x)
        BY <4>3
      <4> QED BY <2>2, <4>1, <4>2, <4>4
    <3>7. CASE ~IsConditional(r.left)
      <4>1. g[j] = r /\ f[j + 1] = p
        BY <3>5, <3>7 DEF NextReading
      <4> QED BY <2>2, <3>5, <4>1
    <3> QED BY <3>6, <3>7
  <2> QED BY <2>3, <2>4
<1>4. ~Good(k) => k \in wrong
  BY <1>1
<1> HIDE DEF wrong
<1> QED BY <1>3, <1>4

(* The types of nodes differ. *)
LEMMA NodesDiffer ==
  /\ \A n \in CommandNodes :
       /\ IsCommand(n) /\ ~IsPipeline(n) /\ ~IsConditional(n) /\ ~IsSequence(n) /\ n # NoNode
       /\ n.argv_parts \in Seq(Nat) /\ n.argv_parts # <<>> /\ n.redir \in Seq(Nat) /\ n.is_bg \in BOOLEAN
  /\ \A n \in PipelineNodes :
       /\ IsPipeline(n) /\ ~IsCommand(n) /\ ~IsConditional(n) /\ ~IsSequence(n) /\ n # NoNode
       /\ n.nodes \in Seq(CommandNodes \cup {NoNode})
  /\ ~IsCommand(NoNode) /\ ~IsPipeline(NoNode) /\ ~IsConditional(NoNode) /\ ~IsSequence(NoNode)
  /\ \A n : IsConditional(n) => ~IsSequence(n) /\ n # NoNode
  /\ \A n : IsSequence(n) => n # NoNode
<1> USE DEF IsCommand, IsPipeline, IsConditional, IsSequence, NoNode
<1>1. \A n \in CommandNodes :
       /\ IsCommand(n) /\ ~IsPipeline(n) /\ ~IsConditional(n) /\ ~IsSequence(n) /\ n # NoNode
       /\ n.argv_parts \in Seq(Nat) /\ n.argv_parts # <<>> /\ n.redir \in Seq(Nat) /\ n.is_bg \in BOOLEAN
  BY DEF CommandNodes
<1>2. ASSUME NEW n \in PipelineNodes
      PROVE  /\ IsPipeline(n) /\ ~IsCommand(n) /\ ~IsConditional(n) /\ ~IsSequence(n) /\ n # NoNode
             /\ n.nodes \in Seq(CommandNodes \cup {NoNode})
  <2> DEFINE T == Seq(CommandNodes \cup {NoNode})
  <2>1. n \in [type : {"pipeline"}, nodes : T]
    BY DEF PipelineNodes
  <2> HIDE DEF T
  <2>2. n.type = "pipeline" /\ n.nodes \in T
    BY <2>1
  <2>3. n.type # "null" /\ n.type # "cmd" /\ n.type # "conditional" /\ n.type # "sequence"
    BY <2>2
  <2>4. n # NoNode
    BY <2>3
  <2> QED BY <2>2, <2>3, <2>4 DEF T
<1>3. ~IsCommand(NoNode) /\ ~IsPipeline(NoNode) /\ ~IsConditional(NoNode) /\ ~IsSequence(NoNode)
  OBVIOUS
<1>4. \A n : IsConditional(n) => ~IsSequence(n) /\ n # NoNode
  OBVIOUS
<1>5. \A n : IsSequence(n) => n # NoNode
  OBVIOUS
<1> QED BY <1>1, <1>2, <1>3, <1>4, <1>5

(* Jobs are no conditionals. *)
LEMMA JobsDiffer ==
  ASSUME NEW n \in JobNodes \cup {NoNode}
  PROVE  ~IsConditional(n) /\ ~IsSequence(n)
BY NodesDiffer DEF JobNodes

(* What is no conditional is a list of one item. *)
LEMMA OneItem ==
  ASSUME NEW n, ~IsConditional(n)
  PROVE  ListItems(n) = <<FirstItem(n)>>
<1>1. MaxTokens \in Nat
  BY CommandLineAssumption
<1>2. PICK f : Readings(f, n) /\ ListItems(n) = <<[op |-> "none", job |-> f[MaxTokens].left]>> \o f[MaxTokens].items
  BY ListUnfolds
<1> DEFINE Bad(k) == k \in 0 .. MaxTokens /\ f[k] # FirstReading(n)
           wrong == {k \in Nat : Bad(k)}
<1>3. ASSUME wrong # {} PROVE FALSE
  <2>1. PICK k \in wrong : \A j \in wrong : k <= j
    BY <1>3, SmallestMember
  <2>2. k \in Nat /\ Bad(k)
    BY <2>1
  <2>3. k # 0
    BY <1>2, <2>2 DEF Readings
  <2>4. k - 1 \in Nat /\ k - 1 \in 0 .. MaxTokens /\ k - 1 < k /\ k \in 1 .. MaxTokens
    BY <1>1, <2>2, <2>3
  <2>5. Bad(k - 1) => k - 1 \in wrong
    BY <2>4
  <2>6. ~Bad(k - 1)
    <3> HIDE DEF wrong, Bad
    <3> QED BY <2>1, <2>2, <2>4, <2>5
  <2>7. f[k] = NextReading(FirstReading(n))
    BY <1>2, <2>4, <2>6 DEF Readings
  <2>8. NextReading(FirstReading(n)) = FirstReading(n)
    BY DEF NextReading, FirstReading
  <2> QED BY <2>2, <2>7, <2>8
<1>4. ~Bad(MaxTokens)
  <2>1. Bad(MaxTokens) => MaxTokens \in wrong
    BY <1>1
  <2> HIDE DEF wrong, Bad
  <2> QED BY <1>3, <2>1
<1>5. f[MaxTokens] = [left |-> n, items |-> <<>>]
  BY <1>1, <1>4 DEF FirstReading
<1>6. <<FirstItem(n)>> \o <<>> = <<FirstItem(n)>>
  OBVIOUS
<1> QED BY <1>2, <1>5, <1>6 DEF FirstItem

(* A job alone is a list. *)
LEMMA JobIsList ==
  ASSUME NEW n \in JobNodes \cup {NoNode}
  PROVE  ListItems(n) = <<FirstItem(n)>> /\ IsList(n)
<1>1. ListItems(n) = <<FirstItem(n)>>
  BY JobsDiffer, OneItem
<1>2. FirstItem(n) \in ListItem /\ FirstItem(n).op = "none"
  BY DEF FirstItem, ListItem
<1>3. <<FirstItem(n)>> \in Seq(ListItem) /\ DOMAIN <<FirstItem(n)>> = {1} /\ <<FirstItem(n)>>[1] = FirstItem(n)
  BY <1>2
<1> QED BY <1>1, <1>2, <1>3 DEF IsList

(* A conditional has one item more than its left side. *)
LEMMA ItemsOfConditional ==
  ASSUME NEW n, IsConditional(n), NEW f, Readings(f, n), NEW g, Readings(g, n.left),
         ListItems(n) = <<[op |-> "none", job |-> f[MaxTokens].left]>> \o f[MaxTokens].items,
         ListItems(n.left) = <<[op |-> "none", job |-> g[MaxTokens].left]>> \o g[MaxTokens].items,
         MaxTokens # 0, ~IsConditional(g[MaxTokens - 1].left)
  PROVE  \E S : ListItems(n.left) \in Seq(S) /\ ListItems(n) = Append(ListItems(n.left), ItemOf(n))
<1>1. /\ MaxTokens \in 1 .. MaxTokens /\ MaxTokens - 1 \in 0 .. MaxTokens - 1
      /\ (MaxTokens - 1) + 1 = MaxTokens /\ MaxTokens \in 0 .. MaxTokens
  BY CommandLineAssumption
<1>2. g[MaxTokens] = g[MaxTokens - 1]
  BY <1>1 DEF Readings, NextReading
<1>3. /\ f[MaxTokens].left = g[MaxTokens].left
      /\ f[MaxTokens].items = Append(g[MaxTokens].items, ItemOf(n))
  <2>1. /\ f[(MaxTokens - 1) + 1].left = g[MaxTokens - 1].left
        /\ f[(MaxTokens - 1) + 1].items = Append(g[MaxTokens - 1].items, ItemOf(n))
    BY <1>1, ReadingOfConditional
  <2> QED BY <1>1, <1>2, <2>1, Zenon
<1>4. PICK e, s, x : /\ e = [op |-> "none", job |-> g[MaxTokens].left]
                     /\ s = g[MaxTokens].items /\ x = ItemOf(n)
  OBVIOUS
<1> DEFINE S == Items_(g) \cup {e, x}
<1>5. s \in Seq(S) /\ e \in S /\ x \in S
  <2>1. s \in Seq(Items_(g))
    BY <1>1, <1>4, ReadingTypes
  <2> QED BY <2>1
<1> HIDE DEF S
<1>6. ListItems(n.left) = <<e>> \o s
  BY <1>4
<1>7. ListItems(n) = <<e>> \o Append(s, x)
  BY <1>3, <1>4, Zenon
<1>8. <<e>> \o s \in Seq(S)
  BY <1>5
<1>9. <<e>> \o Append(s, x) = Append(<<e>> \o s, x)
  BY <1>5
<1> QED BY <1>4, <1>6, <1>7, <1>8, <1>9, Zenon

(* A job behind a list makes a longer list, *)
LEMMA BuildList ==
  ASSUME NEW n, IsConditional(n), n.op \in {"and", "or"}, n.right \in JobNodes \cup {NoNode},
         IsList(n.left), Len(ListItems(n.left)) <= MaxTokens
  PROVE  ListItems(n) = Append(ListItems(n.left), ItemOf(n)) /\ IsList(n)
<1>1. MaxTokens \in Nat
  BY CommandLineAssumption
<1>2. PICK f : Readings(f, n) /\ ListItems(n) = <<[op |-> "none", job |-> f[MaxTokens].left]>> \o f[MaxTokens].items
  BY ListUnfolds
<1>3. PICK g : Readings(g, n.left) /\ ListItems(n.left) = <<[op |-> "none", job |-> g[MaxTokens].left]>> \o g[MaxTokens].items
  BY ListUnfolds
<1>4. \A k \in 0 .. MaxTokens : g[k].items \in Seq(Items_(g))
  BY <1>3, ReadingTypes
<1>5. Len(ListItems(n.left)) = 1 + Len(g[MaxTokens].items) /\ Len(g[MaxTokens].items) \in Nat
  <2>1. PICK e, s : e = [op |-> "none", job |-> g[MaxTokens].left] /\ s = g[MaxTokens].items
    OBVIOUS
  <2>2. s \in Seq(Items_(g)) /\ ListItems(n.left) = <<e>> \o s
    BY <1>1, <1>3, <1>4, <2>1
  <2>3. Len(<<e>> \o s) = 1 + Len(s) /\ Len(s) \in Nat
    BY <2>2
  <2> QED BY <2>1, <2>2, <2>3
<1>6. MaxTokens # 0 /\ MaxTokens - 1 \in 0 .. MaxTokens /\ MaxTokens \in 1 .. MaxTokens
  BY <1>1, <1>5
<1>7. ~IsConditional(g[MaxTokens - 1].left)
  <2> SUFFICES ASSUME IsConditional(g[MaxTokens - 1].left) PROVE FALSE
    OBVIOUS
  <2>1. PICK r : r = g[MaxTokens - 1]
    OBVIOUS
  <2>2. Len(r.items) = MaxTokens - 1 /\ r.items \in Seq(Items_(g)) /\ IsConditional(r.left)
    BY <1>3, <1>4, <1>6, <2>1, EachGivesOne
  <2>3. g[MaxTokens].items = <<ItemOf(r.left)>> \o r.items
    <3>1. g[MaxTokens] = NextReading(r)
      BY <1>3, <1>6, <2>1 DEF Readings
    <3> QED BY <2>2, <3>1, ConditionalReading
  <2>4. PICK s, e : s = r.items /\ e = ItemOf(r.left)
    OBVIOUS
  <2>5. s \in Seq(Items_(g)) /\ Len(s) = MaxTokens - 1 /\ g[MaxTokens].items = <<e>> \o s
    BY <2>2, <2>3, <2>4
  <2>6. Len(<<e>> \o s) = 1 + Len(s)
    BY <2>5
  <2> QED BY <1>1, <1>5, <2>5, <2>6
<1>8. PICK S : ListItems(n.left) \in Seq(S) /\ ListItems(n) = Append(ListItems(n.left), ItemOf(n))
  BY <1>2, <1>3, <1>6, <1>7, ItemsOfConditional
<1>9. ItemOf(n) \in ListItem /\ ItemOf(n).op # "none"
  BY DEF ItemOf, ListItem
<1>10. PICK s, x : s = ListItems(n.left) /\ x = ItemOf(n)
  OBVIOUS
<1>11. /\ s \in Seq(ListItem) /\ x \in ListItem /\ x.op # "none" /\ Len(s) \in Nat /\ Len(s) # 0
       /\ \A i \in 1 .. Len(s) : s[i].op = "none" <=> i = 1
  BY <1>5, <1>9, <1>10 DEF IsList
<1>12. /\ Append(s, x) \in Seq(ListItem)
       /\ DOMAIN Append(s, x) = 1 .. Len(s) + 1
       /\ \A i \in 1 .. Len(s) : Append(s, x)[i] = s[i]
       /\ Append(s, x)[Len(s) + 1] = x
  BY <1>11
<1>13. \A i \in DOMAIN Append(s, x) : Append(s, x)[i].op = "none" <=> i = 1
  BY <1>11, <1>12
<1> QED BY <1>8, <1>10, <1>12, <1>13, Zenon DEF IsList

(* and to the left of the last job of a list there is a list. *)
LEMMA SplitList ==
  ASSUME NEW n, IsConditional(n), IsList(n)
  PROVE  /\ ListItems(n) = Append(ListItems(n.left), ItemOf(n)) /\ IsList(n.left)
         /\ n.op \in {"and", "or"} /\ n.right \in JobNodes \cup {NoNode}
<1>1. MaxTokens \in Nat
  BY CommandLineAssumption
<1>2. PICK f : Readings(f, n) /\ ListItems(n) = <<[op |-> "none", job |-> f[MaxTokens].left]>> \o f[MaxTokens].items
  BY ListUnfolds
<1>3. PICK g : Readings(g, n.left) /\ ListItems(n.left) = <<[op |-> "none", job |-> g[MaxTokens].left]>> \o g[MaxTokens].items
  BY ListUnfolds
<1>4. f[MaxTokens].left \in JobNodes \cup {NoNode}
  <2>1. PICK e, s : e = [op |-> "none", job |-> f[MaxTokens].left] /\ s = f[MaxTokens].items
    OBVIOUS
  <2>2. s \in Seq(Items_(f))
    BY <1>1, <1>2, <2>1, ReadingTypes
  <2>3. <<e>> \o s \in Seq(ListItem)
    BY <1>2, <2>1 DEF IsList
  <2>4. (<<e>> \o s)[1] = e /\ Len(<<e>> \o s) = 1 + Len(s) /\ Len(s) \in Nat
    BY <2>2
  <2>5. e \in ListItem
    BY <2>3, <2>4
  <2>6. e.job \in JobNodes \cup {NoNode}
    BY <2>5 DEF ListItem
  <2> QED BY <2>1, <2>6
<1>5. MaxTokens # 0
  <2>1. f[0].left = n
    BY <1>2 DEF Readings, FirstReading
  <2> QED BY <1>4, <2>1, JobsDiffer
<1>6. MaxTokens - 1 \in 0 .. MaxTokens - 1 /\ (MaxTokens - 1) + 1 = MaxTokens
  BY <1>1, <1>5
<1>7. ~IsConditional(g[MaxTokens - 1].left)
  <2>1. f[(MaxTokens - 1) + 1].left = g[MaxTokens - 1].left
    BY <1>2, <1>3, <1>6, ReadingOfConditional
  <2> QED BY <1>4, <1>6, <2>1, JobsDiffer
<1>8. PICK S : ListItems(n.left) \in Seq(S) /\ ListItems(n) = Append(ListItems(n.left), ItemOf(n))
  BY <1>2, <1>3, <1>5, <1>7, ItemsOfConditional
<1>9. PICK s, x : s = ListItems(n.left) /\ x = ItemOf(n)
  OBVIOUS
<1>10. /\ s \in Seq(S) /\ Append(s, x) \in Seq(ListItem)
       /\ \A i \in DOMAIN Append(s, x) : Append(s, x)[i].op = "none" <=> i = 1
  BY <1>8, <1>9 DEF IsList
<1>11. /\ Len(s) \in Nat /\ Len(Append(s, x)) = Len(s) + 1 /\ DOMAIN Append(s, x) = 1 .. Len(s) + 1
       /\ \A i \in 1 .. Len(s) : Append(s, x)[i] = s[i]
       /\ Append(s, x)[Len(s) + 1] = x /\ DOMAIN s = 1 .. Len(s)
  BY <1>10
<1>12. Len(s) # 0
  <2>1. PICK e, t : e = [op |-> "none", job |-> g[MaxTokens].left] /\ t = g[MaxTokens].items
    OBVIOUS
  <2>2. t \in Seq(Items_(g)) /\ s = <<e>> \o t
    BY <1>1, <1>3, <1>9, <2>1, ReadingTypes
  <2>3. Len(<<e>> \o t) = 1 + Len(t) /\ Len(t) \in Nat
    BY <2>2
  <2> QED BY <2>2, <2>3
<1>13. s \in Seq(ListItem) /\ x \in ListItem
  <2>1. \A i \in 1 .. Len(s) + 1 : Append(s, x)[i] \in ListItem
    BY <1>10, <1>11
  <2>2. \A i \in 1 .. Len(s) : s[i] \in ListItem
    BY <1>11, <2>1
  <2> QED BY <1>10, <1>11, <2>1, <2>2
<1>14. /\ \A i \in DOMAIN s : s[i].op = "none" <=> i = 1
       /\ x.op # "none"
  BY <1>10, <1>11, <1>12
<1>15. x.op = n.op /\ x.job = n.right
  BY <1>9 DEF ItemOf
<1>16. x.op \in {"and", "or"} /\ x.job \in JobNodes \cup {NoNode}
  BY <1>13, <1>14 DEF ListItem
<1> QED BY <1>8, <1>9, <1>13, <1>14, <1>15, <1>16, Zenon DEF IsList

-----------------------------------------------------------------------------
(* The invariant of the parser *)

(* The next token is one more on the line. *)
LEMMA TokenFollows ==
  ASSUME line \in Seq(token_type_e), next_token
  PROVE  /\ line' \in Seq(token_type_e) /\ line' # <<>>
         /\ Len(line) \in Nat /\ Len(line') = Len(line) + 1
         /\ \A i \in 1 .. Len(line) : line'[i] = line[i]
         /\ line'[Len(line) + 1] = g_tok' /\ g_tok' \in token_type_e
         /\ Len(line) >= MaxTokens /\ line # <<>> => g_tok' = "eof" \/ (g_tok = "fd" /\ g_tok' = "redir")
<1>1. PICK t \in TokensAfter(line) : (Len(line) >= MaxTokens => t = "eof" \/ g_tok = "fd") /\ line' = Append(line, t)
  BY DEF next_token
<1>2. t \in token_type_e /\ (line # <<>> /\ g_tok = "fd" => t = "redir")
  BY DEF TokensAfter, token_type_e, g_tok
<1>3. /\ line' \in Seq(token_type_e) /\ line' # <<>>
      /\ Len(line) \in Nat /\ Len(line') = Len(line) + 1
      /\ \A i \in 1 .. Len(line) : line'[i] = line[i]
      /\ line'[Len(line) + 1] = t
  BY <1>1, <1>2
<1>4. g_tok' = t
  BY <1>3 DEF g_tok, Last
<1> QED BY <1>1, <1>2, <1>3, <1>4

(* What parse_pipeline returns is a job, or NULL. *)
LEMMA PipelineIsJob ==
  ASSUME pipe \in Seq(CommandNodes \cup {NoNode}), OneMissing(pipe), pipe # <<>>
  PROVE  pipeline \in JobNodes \cup {NoNode}
<1> DEFINE C == CommandNodes \cup {NoNode}
<1>1. /\ Len(pipe) \in Nat /\ Len(pipe) # 0 /\ \A i \in 1 .. Len(pipe) : pipe[i] \in C
  OBVIOUS
<1>2. CASE Len(pipe) = 1
  BY <1>1, <1>2 DEF pipeline, JobNodes
<1>3. CASE Len(pipe) # 1
  <2>1. pipeline = [type |-> "pipeline", nodes |-> pipe]
    BY <1>3 DEF pipeline, pipe_node_t
  <2>2. pipeline \in PipelineNodes /\ pipeline.nodes = pipe
    BY <2>1 DEF PipelineNodes
  <2>3. Len(pipe) > 1
    <3>1. PICK k : k = Len(pipe)
      OBVIOUS
    <3>2. k \in Nat /\ k # 0 /\ k # 1
      BY <1>1, <1>3, <3>1, Zenon
    <3>3. k > 1
      BY <3>2
    <3> QED BY <3>1, <3>3, Zenon
  <2>4. PICK n : n = pipeline
    OBVIOUS
  <2>5. n \in PipelineNodes /\ Len(n.nodes) > 1 /\ OneMissing(n.nodes)
    BY <2>2, <2>3, <2>4, Zenon
  <2>6. n \in JobNodes
    BY <2>5, Zenon DEF JobNodes
  <2> QED BY <2>4, <2>6
<1> QED BY <1>2, <1>3

(* NULL is a list without a job. *)
LEMMA NoNodeIsList == IsList(NoNode) /\ Len(ListItems(NoNode)) = 1
BY JobIsList

(* A line more. *)
LEMMA TreeGrows ==
  ASSUME IsTree(root), IsList(left), left # NoNode
  PROVE  IsTree([root EXCEPT !.nodes = Append(@, left)])
<1> PICK nodes, n : nodes = root.nodes /\ n = left
  OBVIOUS
<1> DEFINE more == Append(nodes, n)
<1>1. root = [type |-> "sequence", nodes |-> nodes]
  BY DEF IsTree, seq_node_t
<1>2. [root EXCEPT !.nodes = Append(@, left)] = [type |-> "sequence", nodes |-> more]
  BY <1>1
<1>3. /\ nodes \in Seq(Range(nodes))
      /\ \A i \in DOMAIN nodes : nodes[i] # NoNode /\ IsList(nodes[i])
  BY DEF IsTree
<1>4. /\ DOMAIN more = 1 .. Len(nodes) + 1 /\ Len(nodes) \in Nat /\ Len(more) = Len(nodes) + 1
      /\ \A i \in 1 .. Len(nodes) : more[i] = nodes[i] /\ i \in DOMAIN nodes
      /\ more[Len(nodes) + 1] = n
  BY <1>3
<1>5. more \in Seq(Range(more))
  <2>1. more \in Seq(Range(nodes) \cup {n})
    BY <1>3
  <2>2. \A i \in 1 .. Len(more) : more[i] \in Range(more)
    BY <1>4 DEF Range
  <2> HIDE DEF more
  <2> QED BY <1>4, <2>1, <2>2
<1>6. \A i \in DOMAIN more : more[i] # NoNode /\ IsList(more[i])
  BY <1>3, <1>4
<1> HIDE DEF more
<1> DEFINE tree == [type |-> "sequence", nodes |-> more]
<1>7. tree.nodes = more
  OBVIOUS
<1>8. tree = seq_node_t(tree.nodes)
  BY <1>7 DEF seq_node_t
<1> HIDE DEF tree
<1>9. IsTree(tree)
  BY <1>5, <1>6, <1>7, <1>8, Zenon DEF IsTree
<1> QED BY <1>2, <1>9 DEF tree

(* What is read off a list with a job more. *)
LEMMA JoinedIsList ==
  ASSUME ParserInv, at = "pipeline"
  PROVE  /\ IsList(joined)
         /\ op = "none" => ListItems(joined) = <<FirstItem(joined)>> /\ left = NoNode
         /\ op # "none" => /\ ListItems(joined) = Append(ListItems(left), [op |-> op, job |-> pipeline])
                           /\ Len(ListItems(joined)) = Len(ListItems(left)) + 1
<1>1. pipeline \in JobNodes \cup {NoNode}
  BY PipelineIsJob DEF ParserInv, LocalsOK, PlacesOK
<1>2. CASE op = "none"
  BY <1>1, <1>2, JobIsList DEF joined, ParserInv, PlacesOK
<1>3. CASE op # "none"
  <2> DEFINE n == cond_node_t(left, op, pipeline)
  <2>1. IsConditional(n) /\ n.op = op /\ n.right = pipeline /\ n.left = left /\ joined = n
    BY <1>3 DEF cond_node_t, IsConditional, joined
  <2> HIDE DEF n
  <2>2. MaxTokens \in Nat
    BY CommandLineAssumption
  <2>3. IsList(left) /\ op \in {"and", "or"} /\ Len(ListItems(left)) <= MaxTokens
    <3>1. PICK k : k = Len(ListItems(left))
      OBVIOUS
    <3>2. IsList(left) /\ op \in {"and", "or"} /\ k + 1 <= MaxTokens + 1 /\ k \in Nat
      BY <1>3, <3>1 DEF ParserInv, LocalsOK, LengthOK, IsList
    <3> QED BY <2>2, <3>1, <3>2
  <2>4. ListItems(n) = Append(ListItems(n.left), ItemOf(n)) /\ IsList(n)
    BY <1>1, <2>1, <2>3, BuildList
  <2>5. ItemOf(n) = [op |-> op, job |-> pipeline]
    BY <2>1 DEF ItemOf
  <2>6. Len(Append(ListItems(left), ItemOf(n))) = Len(ListItems(left)) + 1
    <3>1. PICK s, x : s = ListItems(left) /\ x = ItemOf(n)
      OBVIOUS
    <3>2. s \in Seq(ListItem)
      BY <2>3, <3>1 DEF IsList
    <3>3. Len(Append(s, x)) = Len(s) + 1
      BY <3>2
    <3> QED BY <3>1, <3>3
  <2> QED BY <1>3, <2>1, <2>4, <2>5, <2>6, Zenon
<1> QED BY <1>2, <1>3

(* The invariant of the parser holds at first. *)
LEMMA ParserInvInit == Init => ParserInv
<1> SUFFICES ASSUME Init PROVE ParserInv
  OBVIOUS
<1>1. /\ line = <<>> /\ at = "prompt" /\ root = NoNode
      /\ command = no_arguments /\ pipe = <<>> /\ left = NoNode /\ op = "none"
  BY DEF Init, ParserInit, ParserIdle
<1>2. MaxTokens \in Nat
  BY CommandLineAssumption
<1>3. LocalsOK
  <2>1. no_arguments \in [argv_parts : Seq(Nat), redir : Seq(Nat)]
    BY DEF no_arguments
  <2>2. line \in Seq(token_type_e)
    BY <1>1
  <2>3. pipe \in Seq(CommandNodes \cup {NoNode}) /\ OneMissing(pipe)
    BY <1>1 DEF OneMissing
  <2> QED BY <1>1, <2>1, <2>2, <2>3, NoNodeIsList DEF LocalsOK, ParserPlaces
<1>4. PlacesOK
  BY <1>1 DEF PlacesOK, InCommand, BetweenLines, ParserPlaces
<1>5. LengthOK
  BY <1>1, <1>2, NoNodeIsList DEF LengthOK, ParserPlaces
<1> QED BY <1>3, <1>4, <1>5 DEF ParserInv

(* The length of the list, with the operator that has been read. *)
Operators == Len(ListItems(left)) + (IF op = "none" THEN 0 ELSE 1)

(* The length of the list while a token is read, and while none is. *)
LEMMA LengthToken ==
  ASSUME ParserInv, at \in ParserPlaces, next_token, UNCHANGED <<left, op>>
  PROVE  LengthOK'
<1>1. MaxTokens \in Nat /\ line \in Seq(token_type_e) /\ line # <<>>
  BY CommandLineAssumption DEF ParserInv, LocalsOK
<1>2. PICK k : k = Operators
  OBVIOUS
<1>3. k \in 1 .. Len(line) /\ k <= MaxTokens + 1 /\ Len(line) \in Nat /\ Len(line') = Len(line) + 1
  BY <1>1, <1>2, TokenFollows DEF Operators, ParserInv, LengthOK
<1>4. Len(line') > MaxTokens => g_tok' \in {"eof", "redir"}
  <2>1. Len(line') > MaxTokens => Len(line) >= MaxTokens
    BY <1>1, <1>3
  <2> QED BY <1>1, <2>1, TokenFollows
<1>5. k = Operators' /\ k \in 1 .. Len(line')
  BY <1>2, <1>3 DEF Operators
<1> QED BY <1>3, <1>4, <1>5 DEF LengthOK, Operators

(* While no token is read, LengthOK depends on the operators only. *)
LEMMA LengthSame ==
  ASSUME ParserInv, UNCHANGED line, at' \in ParserPlaces => at \in ParserPlaces, Operators' = Operators
  PROVE  LengthOK'
<1>1. g_tok' = g_tok
  BY DEF g_tok
<1> QED BY <1>1 DEF LengthOK, Operators, ParserInv

(* TypeLine keeps the invariant of the parser, *)
LEMMA StartInv ==
  ASSUME ParserInv, EmptyLine \/ StartLine
  PROVE  ParserInv'
<1> USE DEF Goto
<1>1. MaxTokens \in Nat
  BY CommandLineAssumption
<1>2. CASE EmptyLine
  <2>1. line' \in Seq(token_type_e)
    BY <1>2 DEF EmptyLine, token_type_e
  <2>2. LocalsOK'
    BY <1>2, <2>1 DEF EmptyLine, ParserInv, LocalsOK, ParserPlaces
  <2>3. PlacesOK'
    BY <1>2 DEF EmptyLine, ParserInv, PlacesOK, InCommand, BetweenLines, ParserPlaces
  <2>4. LengthOK'
    BY <1>2 DEF EmptyLine, ParserInv, LengthOK, ParserPlaces
  <2> QED BY <2>2, <2>3, <2>4 DEF ParserInv
<1>3. CASE StartLine
  <2>1. line \in Seq(token_type_e) /\ line = <<>> /\ Len(line) = 0
    BY <1>3 DEF ParserInv, LocalsOK, PlacesOK, StartLine
  <2>2. IsTree(root') /\ root' # NoNode
    <3> DEFINE tree == seq_node_t(<<>>)
    <3>1. tree.nodes = <<>> /\ tree = seq_node_t(tree.nodes) /\ IsSequence(tree)
      BY DEF seq_node_t, IsSequence
    <3>2. <<>> \in Seq(Range(<<>>)) /\ DOMAIN <<>> = {}
      OBVIOUS
    <3> HIDE DEF tree
    <3>3. IsTree(tree) /\ tree # NoNode
      BY <3>1, <3>2, NodesDiffer DEF IsTree
    <3> QED BY <1>3, <3>3 DEF StartLine, tree
  <2>3. LocalsOK'
    BY <1>3, <2>1, <2>2, TokenFollows DEF StartLine, ParserInv, LocalsOK, ParserPlaces
  <2>4. PlacesOK'
    BY <1>3, <2>2 DEF StartLine, ParserInv, PlacesOK, InCommand, BetweenLines, ParserPlaces
  <2>5. LengthOK'
    <3>1. Len(line') = 1
      BY <1>3, <2>1, TokenFollows DEF StartLine
    <3>2. MaxTokens >= 1
      BY CommandLineAssumption
    <3>3. left' = NoNode /\ op' = "none"
      BY <1>3 DEF StartLine, ParserInv, PlacesOK, BetweenLines
    <3> QED BY <1>1, <1>3, <2>1, <3>1, <3>2, <3>3, NoNodeIsList DEF LengthOK
  <2> QED BY <2>3, <2>4, <2>5 DEF ParserInv
<1> QED BY <1>2, <1>3

(* The actions that take a token. *)
LEMMA TokenInv ==
  ASSUME ParserInv,
         \/ ParseArgument \/ ParseDescriptor \/ ParseOperator \/ ParseTarget
         \/ ParsePipe \/ ParseSeparator
  PROVE  ParserInv'
<1> USE DEF Goto
<1>1. at \in ParserPlaces /\ next_token /\ UNCHANGED <<left, op>>
  BY DEF ParseArgument, ParseDescriptor, ParseOperator, ParseTarget, ParsePipe, ParseSeparator, ParserPlaces
<1>2. line \in Seq(token_type_e) /\ line # <<>> /\ Len(line) \in Nat
  BY <1>1 DEF ParserInv, LocalsOK
<1>3. line' \in Seq(token_type_e) /\ line' # <<>>
  BY <1>1, <1>2, TokenFollows
<1>4. LengthOK'
  BY <1>1, LengthToken

<1>5. CASE ParseArgument
  <2>1. command' \in [argv_parts : Seq(Nat), redir : Seq(Nat)] /\ command'.argv_parts # <<>> /\ command'.redir = <<>>
    <3>1. PICK c, k : c = command /\ k = Len(line) /\ k \in Nat
      BY <1>2
    <3>2. c \in [argv_parts : Seq(Nat), redir : Seq(Nat)] /\ c.redir = <<>>
      BY <1>5, <3>1 DEF ParserInv, LocalsOK, PlacesOK, ParseArgument, InCommand, no_arguments
    <3>3. command' = [c EXCEPT !.argv_parts = Append(@, k)]
      BY <1>5, <3>1, Zenon DEF ParseArgument
    <3>4. PICK a \in Seq(Nat) : c = [argv_parts |-> a, redir |-> <<>>]
      BY <3>2
    <3>5. command' = [argv_parts |-> Append(a, k), redir |-> <<>>]
      BY <3>3, <3>4
    <3> QED BY <3>1, <3>5
  <2>2. LocalsOK'
    BY <1>5, <1>1, <1>3, <2>1 DEF ParseArgument, ParserInv, LocalsOK, ParserPlaces
  <2>3. PlacesOK'
    BY <1>5, <2>1 DEF ParseArgument, ParserInv, PlacesOK, InCommand, BetweenLines, ParserPlaces
  <2> QED BY <1>4, <2>2, <2>3 DEF ParserInv

<1>6. CASE ParseTarget
  <2>1. command' \in [argv_parts : Seq(Nat), redir : Seq(Nat)] /\ command'.argv_parts = command.argv_parts
    <3>1. PICK c, k : c = command /\ k = Len(line) /\ k \in Nat
      BY <1>2
    <3>2. c \in [argv_parts : Seq(Nat), redir : Seq(Nat)]
      BY <3>1 DEF ParserInv, LocalsOK
    <3>3. command' = [c EXCEPT !.redir = Append(@, k)]
      BY <1>6, <3>1, Zenon DEF ParseTarget
    <3>4. PICK a \in Seq(Nat), r \in Seq(Nat) : c = [argv_parts |-> a, redir |-> r]
      BY <3>2
    <3>5. command' = [argv_parts |-> a, redir |-> Append(r, k)]
      BY <3>3, <3>4
    <3> QED BY <3>1, <3>4, <3>5
  <2>2. LocalsOK'
    BY <1>6, <1>1, <1>3, <2>1 DEF ParseTarget, ParserInv, LocalsOK, ParserPlaces
  <2>3. PlacesOK'
    BY <1>6, <2>1 DEF ParseTarget, ParserInv, PlacesOK, InCommand, BetweenLines, ParserPlaces
  <2> QED BY <1>4, <2>2, <2>3 DEF ParserInv

<1>7. CASE ParseDescriptor
  <2>2. LocalsOK'
    BY <1>7, <1>1, <1>3 DEF ParseDescriptor, ParserInv, LocalsOK, ParserPlaces
  <2>3. PlacesOK'
    BY <1>7 DEF ParseDescriptor, ParserInv, PlacesOK, InCommand, BetweenLines, ParserPlaces
  <2> QED BY <1>4, <2>2, <2>3 DEF ParserInv

<1>8. CASE ParseOperator
  <2>2. LocalsOK'
    BY <1>8, <1>1, <1>3 DEF ParseOperator, ParserInv, LocalsOK, ParserPlaces
  <2>3. PlacesOK'
    BY <1>8 DEF ParseOperator, ParserInv, PlacesOK, InCommand, BetweenLines, ParserPlaces
  <2> QED BY <1>4, <2>2, <2>3 DEF ParserInv

<1>9. CASE ParsePipe
  <2>2. LocalsOK'
    BY <1>9, <1>1, <1>3 DEF ParsePipe, ParserInv, LocalsOK, ParserPlaces
  <2>3. PlacesOK'
    BY <1>9 DEF ParsePipe, ParserInv, PlacesOK, InCommand, BetweenLines, ParserPlaces
  <2> QED BY <1>4, <2>2, <2>3 DEF ParserInv

<1>10. CASE ParseSeparator
  <2>2. LocalsOK'
    BY <1>10, <1>1, <1>3 DEF ParseSeparator, ParserInv, LocalsOK, ParserPlaces
  <2>3. PlacesOK'
    BY <1>10 DEF ParseSeparator, ParserInv, PlacesOK, InCommand, BetweenLines, ParserPlaces
  <2> QED BY <1>4, <2>2, <2>3 DEF ParserInv

<1> QED BY <1>5, <1>6, <1>7, <1>8, <1>9, <1>10

(* The actions that only go on. *)
LEMMA GoOnInv ==
  ASSUME ParserInv,
         \/ MissingTarget \/ NoLaterCommand \/ EndOfCommands \/ EndOfSeparators
         \/ ExecuteLine \/ NoName
         \/ UNCHANGED parser_vars
  PROVE  ParserInv'
<1> USE DEF Goto
<1>1. /\ UNCHANGED <<line, command, pipe, left, op, root>>
      /\ at' \in ParserPlaces => at \in ParserPlaces
      /\ at' \in {at, "exit", "parsed", "command", "exec_node"}
      /\ at' = "parsed" => at \in {"conditional", "separators", "parsed"}
      /\ at' = "exec_node" => at \in {"parsed", "exec_node"}
      /\ at' = "command" => at \in {"command", "separators"}
      /\ at = "conditional" => (at' # at => left = NoNode)
  BY DEF MissingTarget, NoLaterCommand, EndOfCommands, NothingParsed, EndOfSeparators, ExecuteLine, NoName,
         Usable, Executing, parser_vars, ParserPlaces
<1>2. LocalsOK'
  BY <1>1 DEF ParserInv, LocalsOK, ParserPlaces
<1>3. PlacesOK'
  BY <1>1 DEF ParserInv, PlacesOK, InCommand, BetweenLines, ParserPlaces
<1>4. LengthOK'
  <2>1. Operators' = Operators
    BY <1>1 DEF Operators
  <2> QED BY <1>1, <2>1, LengthSame
<1> QED BY <1>2, <1>3, <1>4 DEF ParserInv

(* So do the ends of a command, *)
LEMMA EndCommandInv ==
  ASSUME ParserInv, EndCommand
  PROVE  ParserInv'
<1> USE DEF Goto
<1>1. /\ at \in {"arguments", "redirections"} /\ at' = "pipeline"
      /\ UNCHANGED <<line, left, op, root>> /\ command' = no_arguments
  BY DEF EndCommand
<1> DEFINE cmd == cmd_node_t(command.argv_parts, command.redir, is_bg)
<1>2. cmd \in CommandNodes /\ pipe' = Append(pipe, cmd)
  <2>1. command \in [argv_parts : Seq(Nat), redir : Seq(Nat)] /\ command.argv_parts # <<>>
    BY <1>1 DEF ParserInv, LocalsOK, PlacesOK, InCommand
  <2>2. is_bg \in BOOLEAN
    BY DEF is_bg
  <2> HIDE DEF is_bg
  <2> QED BY <2>1, <2>2 DEF EndCommand, cmd_node_t, CommandNodes
<1> HIDE DEF cmd
<1>3. pipe' \in Seq(CommandNodes \cup {NoNode}) /\ OneMissing(pipe') /\ pipe' # <<>>
  <2>1. pipe \in Seq(CommandNodes \cup {NoNode}) /\ OneMissing(pipe)
    BY DEF ParserInv, LocalsOK
  <2> QED BY <1>2, <2>1 DEF OneMissing
<1>4. LocalsOK'
  <2>1. no_arguments \in [argv_parts : Seq(Nat), redir : Seq(Nat)]
    BY DEF no_arguments
  <2> QED BY <1>1, <1>3, <2>1 DEF ParserInv, LocalsOK, ParserPlaces
<1>5. PlacesOK'
  BY <1>1, <1>3 DEF ParserInv, PlacesOK, InCommand, BetweenLines, ParserPlaces
<1>6. LengthOK'
  <2>1. Operators' = Operators
    BY <1>1 DEF Operators
  <2> QED BY <1>1, <2>1, LengthSame DEF ParserPlaces
<1> QED BY <1>4, <1>5, <1>6 DEF ParserInv

(* its absence, *)
LEMMA NoFirstCommandInv ==
  ASSUME ParserInv, NoFirstCommand
  PROVE  ParserInv'
<1>1. /\ at = "command" /\ at' = "pipeline"
      /\ UNCHANGED <<line, command, left, op, root>> /\ pipe' = <<NoNode>>
  BY DEF NoFirstCommand, Goto
<1>2. pipe' \in Seq(CommandNodes \cup {NoNode}) /\ OneMissing(pipe') /\ pipe' # <<>>
  <2> PICK n : n = NoNode
    OBVIOUS
  <2>1. <<n>> \in Seq(CommandNodes \cup {n}) /\ OneMissing(<<n>>) /\ <<n>> # <<>>
    BY DEF OneMissing
  <2> QED BY <1>1, <2>1
<1>3. LocalsOK'
  BY <1>1, <1>2 DEF ParserInv, LocalsOK, ParserPlaces
<1>4. PlacesOK'
  BY <1>1, <1>2 DEF ParserInv, PlacesOK, InCommand, BetweenLines, ParserPlaces
<1>5. LengthOK'
  <2>1. Operators' = Operators
    BY <1>1 DEF Operators
  <2> QED BY <1>1, <2>1, LengthSame DEF ParserPlaces
<1> QED BY <1>3, <1>4, <1>5 DEF ParserInv

(* and no commands are a pipeline with nothing missing. *)
LEMMA EmptyPipe == <<>> \in Seq(CommandNodes \cup {NoNode}) /\ OneMissing(<<>>)
BY DEF OneMissing

(* So does the end of a pipeline, *)
LEMMA EndPipelineInv ==
  ASSUME ParserInv, EndPipeline
  PROVE  ParserInv'
<1>1. /\ at = "pipeline" /\ at' = "conditional" /\ left' = joined /\ op' = "none"
      /\ UNCHANGED <<line, command, root>> /\ pipe' = <<>>
  BY DEF EndPipeline, Goto
<1>2. IsList(left')
  BY <1>1, JoinedIsList
<1>3. LocalsOK'
  BY <1>1, <1>2, EmptyPipe DEF ParserInv, LocalsOK, ParserPlaces
<1>4. PlacesOK'
  BY <1>1 DEF ParserInv, PlacesOK, InCommand, BetweenLines, ParserPlaces
<1>5. LengthOK'
  <2>1. Operators' = Operators
    <3>1. CASE op = "none"
      <4>1. ListItems(joined) = <<FirstItem(joined)>> /\ left = NoNode
        BY <1>1, <3>1, JoinedIsList
      <4>2. Len(<<FirstItem(joined)>>) = 1
        OBVIOUS
      <4> QED BY <1>1, <3>1, <4>1, <4>2, NoNodeIsList DEF Operators
    <3>2. CASE op # "none"
      <4>1. PICK j, k : j = Len(ListItems(joined)) /\ k = Len(ListItems(left))
        OBVIOUS
      <4>2. j = k + 1 /\ Operators' = j + 0 /\ Operators = k + 1
        BY <1>1, <3>2, <4>1, JoinedIsList DEF Operators
      <4>3. k \in Nat
        <5>1. PICK s : s = ListItems(left)
          OBVIOUS
        <5>2. s \in Seq(ListItem)
          BY <5>1 DEF ParserInv, LocalsOK, IsList
        <5>3. Len(s) \in Nat
          BY <5>2
        <5> QED BY <4>1, <5>1, <5>3
      <4> QED BY <4>2, <4>3
    <3> QED BY <3>1, <3>2
  <2> QED BY <1>1, <2>1, LengthSame DEF ParserPlaces
<1> QED BY <1>3, <1>4, <1>5 DEF ParserInv

(* A list has a length. *)
LEMMA ListLength ==
  ASSUME NEW n, IsList(n)
  PROVE  Len(ListItems(n)) \in Nat
<1>1. PICK s : s = ListItems(n)
  OBVIOUS
<1>2. s \in Seq(ListItem)
  BY <1>1 DEF IsList
<1>3. Len(s) \in Nat
  BY <1>2
<1> QED BY <1>1, <1>3

(* So do && and ||, *)
LEMMA ParseAndOrInv ==
  ASSUME ParserInv, ParseAndOr
  PROVE  ParserInv'
<1>1. /\ at = "conditional" /\ at' = "command" /\ op' = g_tok /\ g_tok \in {"and", "or"} /\ next_token
      /\ UNCHANGED <<command, pipe, left, root>>
  BY DEF ParseAndOr, Goto
<1>2. line \in Seq(token_type_e) /\ line # <<>> /\ Len(line) \in Nat /\ at \in ParserPlaces
  BY <1>1 DEF ParserInv, LocalsOK, ParserPlaces
<1>3. LocalsOK'
  BY <1>1, <1>2, TokenFollows DEF ParserInv, LocalsOK, ParserPlaces
<1>4. PlacesOK'
  BY <1>1 DEF ParserInv, PlacesOK, InCommand, BetweenLines, ParserPlaces
<1>5. LengthOK'
  <2>1. PICK k : k = Len(ListItems(left))
    OBVIOUS
  <2>2. MaxTokens \in Nat
    BY CommandLineAssumption
  <2>3. Len(line) <= MaxTokens
    BY <1>1, <1>2, <2>2 DEF ParserInv, LengthOK
  <2>4. op = "none"
    BY <1>1 DEF ParserInv, PlacesOK
  <2>5. k + 0 \in 1 .. Len(line) /\ k \in Nat
    <3>1. k \in Nat
      BY <2>1, ListLength DEF ParserInv, LocalsOK
    <3> QED BY <1>2, <2>1, <2>4, <3>1 DEF ParserInv, LengthOK
  <2>6. Len(line') = Len(line) + 1 /\ (Len(line) >= MaxTokens => g_tok' \in {"eof", "redir"})
    BY <1>1, <1>2, TokenFollows
  <2>7. op' # "none" /\ k = Len(ListItems(left'))
    BY <1>1, <2>1
  <2>8. k + 1 \in 1 .. Len(line') /\ k + 1 <= MaxTokens + 1
    <3>1. PICK m, m2 : m = Len(line) /\ m2 = Len(line')
      OBVIOUS
    <3>2. m \in Nat /\ m2 = m + 1 /\ m <= MaxTokens /\ k \in 1 .. m
      BY <1>2, <2>3, <2>5, <2>6, <3>1
    <3>3. k + 1 \in 1 .. m2 /\ k + 1 <= MaxTokens + 1
      BY <2>2, <3>2
    <3> QED BY <3>1, <3>3
  <2>9. Len(line') > MaxTokens => g_tok' \in {"eof", "redir"}
    BY <1>2, <2>2, <2>6
  <2> QED BY <2>7, <2>8, <2>9 DEF LengthOK
<1> QED BY <1>3, <1>4, <1>5 DEF ParserInv

(* the end of a list, *)
LEMMA EndConditionalInv ==
  ASSUME ParserInv, EndConditional
  PROVE  ParserInv'
<1>1. /\ at = "conditional" /\ at' = "separators" /\ left # NoNode /\ left' = NoNode
      /\ root' = [root EXCEPT !.nodes = Append(@, left)]
      /\ UNCHANGED <<line, command, pipe, op>>
  BY DEF EndConditional, Goto
<1>2. IsTree(root') /\ root' # NoNode
  <2>1. IsTree(root) /\ IsList(left)
    BY <1>1 DEF ParserInv, LocalsOK, PlacesOK, ParserPlaces
  <2>2. IsTree(root')
    BY <1>1, <2>1, TreeGrows
  <2>3. \A n : IsTree(n) => IsSequence(n)
    BY DEF IsTree, seq_node_t, IsSequence
  <2> QED BY <2>2, <2>3, NodesDiffer
<1>3. LocalsOK'
  BY <1>1, <1>2, NoNodeIsList DEF ParserInv, LocalsOK, ParserPlaces
<1>4. PlacesOK'
  BY <1>1, <1>2 DEF ParserInv, PlacesOK, InCommand, BetweenLines, ParserPlaces
<1>5. LengthOK'
  <2>1. op = "none" /\ op' = "none"
    BY <1>1 DEF ParserInv, PlacesOK
  <2>2. Len(line) \in Nat /\ Len(line) # 0 /\ line' = line /\ g_tok' = g_tok
    BY <1>1 DEF ParserInv, LocalsOK, ParserPlaces, g_tok
  <2>3. MaxTokens \in Nat
    BY CommandLineAssumption
  <2>4. 1 + 0 \in 1 .. Len(line) /\ 1 + 0 <= MaxTokens + 1
    BY <2>2, <2>3
  <2>5. Len(line) > MaxTokens => g_tok \in {"eof", "redir"}
    BY <1>1 DEF ParserInv, LengthOK, ParserPlaces
  <2> QED BY <1>1, <2>1, <2>2, <2>4, <2>5, NoNodeIsList DEF LengthOK
<1> QED BY <1>3, <1>4, <1>5 DEF ParserInv

(* and the next line. *)
LEMMA FinishLineInv ==
  ASSUME ParserInv, FinishLine
  PROVE  ParserInv'
<1>1. /\ at = "exec_node" /\ at' = "prompt" /\ line' = <<>> /\ root' = NoNode
      /\ UNCHANGED <<command, pipe, left, op>>
  BY DEF FinishLine, Goto
<1>2. LocalsOK'
  <2>1. <<>> \in Seq(token_type_e)
    OBVIOUS
  <2> QED BY <1>1, <2>1 DEF ParserInv, LocalsOK, ParserPlaces
<1>3. PlacesOK'
  BY <1>1 DEF ParserInv, PlacesOK, InCommand, BetweenLines, ParserPlaces
<1>4. LengthOK'
  BY <1>1 DEF ParserInv, LengthOK, ParserPlaces
<1> QED BY <1>2, <1>3, <1>4 DEF ParserInv

(* The invariant of the parser is inductive. *)
LEMMA ParserInvNext ==
  ASSUME ParserInv, [Next]_vars
  PROVE  ParserInv'
<1>1. CASE TypeLine
  BY <1>1, StartInv DEF TypeLine
<1>2. CASE ParserStep
  BY <1>2, TokenInv, GoOnInv, EndCommandInv, NoFirstCommandInv, EndPipelineInv, ParseAndOrInv, EndConditionalInv
     DEF ParserStep
<1>3. CASE ExecutionStep
  BY <1>3, GoOnInv, FinishLineInv
     DEF ExecutionStep, Unusable, NextOfSequence, EndOfSequence, LeftOfConditional, RightOfConditional,
         EndOfConditional, RunBuiltin, RunBackground, RunForeground, RunsJob
<1>4. CASE UNCHANGED vars
  BY <1>4, GoOnInv DEF vars
<1> QED BY <1>1, <1>2, <1>3, <1>4 DEF Next, LineStep

-----------------------------------------------------------------------------
(* The calls of exec_node *)

(* A list that is no conditional is a job, or NULL. *)
LEMMA ListOfOne ==
  ASSUME NEW n, IsList(n), ~IsConditional(n)
  PROVE  n \in JobNodes \cup {NoNode}
<1>1. ListItems(n) = <<FirstItem(n)>>
  BY OneItem
<1>2. PICK e : e = FirstItem(n)
  OBVIOUS
<1>3. <<e>> \in Seq(ListItem)
  BY <1>1, <1>2 DEF IsList
<1>4. e \in ListItem
  BY <1>3
<1> QED BY <1>2, <1>4 DEF FirstItem, ListItem

(* A list is no sequence. *)
LEMMA ListNotSequence ==
  ASSUME NEW n, IsList(n)
  PROVE  ~IsSequence(n)
BY ListOfOne, JobsDiffer, NodesDiffer

(* Of calls that are in order the callers are. *)
LEMMA PopFrame ==
  ASSUME NEW frames, FramesOK(frames), frames # <<>>
  PROVE  /\ FramesOK(Tail(frames))
         /\ Len(frames) \in Nat /\ Len(Tail(frames)) = Len(frames) - 1
         /\ \A i \in 1 .. Len(frames) - 1 : Tail(frames)[i] = frames[i + 1]
<1> DEFINE rest == Tail(frames)
<1>1. frames \in Seq(Range(frames))
  BY DEF FramesOK
<1>2. /\ rest \in Seq(Range(frames)) /\ Len(frames) \in Nat /\ Len(rest) = Len(frames) - 1 /\ DOMAIN rest = 1 .. Len(rest)
      /\ DOMAIN frames = 1 .. Len(frames) /\ Len(frames) # 0
      /\ \A i \in 1 .. Len(frames) - 1 : rest[i] = frames[i + 1]
  BY <1>1
<1>3. rest \in Seq(Range(rest))
  BY <1>2, SeqOfRange
<1> HIDE DEF rest
<1>4. ASSUME NEW i \in DOMAIN rest
      PROVE  /\ i = Len(rest) =>
                  /\ rest[i].node = root
                  /\ rest[i].pc \in IF root = NoNode THEN {0} ELSE 0 .. Len(root.nodes)
             /\ i < Len(rest) =>
                  /\ IsList(rest[i].node)
                  /\ rest[i].pc \in IF IsConditional(rest[i].node) THEN 0 .. 2 ELSE {0}
                  /\ Calls(rest[i + 1], rest[i])
  <2>1. /\ i + 1 \in DOMAIN frames /\ rest[i] = frames[i + 1]
        /\ i = Len(rest) => i + 1 = Len(frames)
        /\ i < Len(rest) => i + 1 < Len(frames) /\ rest[i + 1] = frames[(i + 1) + 1]
    BY <1>2
  <2> QED BY <2>1 DEF FramesOK
<1> QED BY <1>2, <1>3, <1>4 DEF FramesOK, rest

Pushed(p, n) == <<Call(n), [node |-> node, pc |-> p]>> \o Tail(stack)

(* A call goes on top of its caller, which goes on behind it. *)
LEMMA PushFrame ==
  ASSUME FramesOK(stack), stack # <<>>, NEW p, NEW n, IsList(n),
         NEW frames, frames = Pushed(p, n),
         Calls([node |-> node, pc |-> p], Call(n)),
         Len(stack) = 1 => p \in IF root = NoNode THEN {0} ELSE 0 .. Len(root.nodes),
         Len(stack) # 1 => p \in 0 .. 2 /\ IsConditional(node) /\ ~(IsConditional(stack[2].node) /\ stack[2].pc = 2)
  PROVE  /\ FramesOK(frames)
         /\ Len(frames) = Len(stack) + 1 /\ Len(stack) \in Nat
         /\ frames[1] = Call(n) /\ frames[2] = [node |-> node, pc |-> p]
         /\ \A i \in 2 .. Len(stack) : frames[i + 1] = stack[i]
<1>1. stack \in Seq(Range(stack))
  BY DEF FramesOK
<1>2. PICK a, b : a = Call(n) /\ b = [node |-> node, pc |-> p]
  OBVIOUS
<1>3. frames = <<a, b>> \o Tail(stack)
  BY <1>2 DEF Pushed
<1>4. /\ frames \in Seq(Range(stack) \cup {a, b}) /\ Len(stack) \in Nat /\ Len(stack) # 0 /\ Len(frames) = Len(stack) + 1
      /\ DOMAIN frames = 1 .. Len(frames) /\ DOMAIN stack = 1 .. Len(stack)
      /\ frames[1] = a /\ frames[2] = b
      /\ \A i \in 2 .. Len(stack) : frames[i + 1] = stack[i]
  <2>1. PICK rest : rest = Tail(stack)
    OBVIOUS
  <2>2. /\ rest \in Seq(Range(stack)) /\ Len(stack) \in Nat /\ Len(stack) # 0 /\ Len(rest) = Len(stack) - 1
        /\ \A i \in 1 .. Len(stack) - 1 : rest[i] = stack[i + 1]
    BY <1>1, <2>1
  <2>3. /\ frames \in Seq(Range(stack) \cup {a, b}) /\ Len(frames) = 2 + Len(rest)
        /\ frames[1] = a /\ frames[2] = b
        /\ \A i \in 1 .. Len(rest) : frames[i + 2] = rest[i]
    BY <1>3, <2>1, <2>2
  <2>4. \A i \in 2 .. Len(stack) : frames[i + 1] = stack[i]
    <3> TAKE i \in 2 .. Len(stack)
    <3>1. PICK j : j = i - 1
      OBVIOUS
    <3>2. j \in 1 .. Len(stack) - 1 /\ j + 2 = i + 1 /\ j + 1 = i /\ j \in 1 .. Len(rest)
      BY <2>2, <3>1
    <3>3. frames[j + 2] = rest[j] /\ rest[j] = stack[j + 1]
      BY <2>2, <2>3, <3>2
    <3> QED BY <3>2, <3>3, Zenon
  <2> QED BY <1>1, <2>2, <2>3, <2>4
<1>5. frames \in Seq(Range(frames))
  BY <1>4, SeqOfRange
<1>6. a.node = n /\ a.pc = 0 /\ b.node = node /\ b.pc = p /\ Calls(b, a)
  BY <1>2 DEF Call
<1>7. node = stack[1].node /\ 1 \in DOMAIN stack
  BY <1>1, <1>4 DEF node
<1>8. ASSUME NEW i \in DOMAIN frames
      PROVE  /\ i = Len(frames) =>
                  /\ frames[i].node = root
                  /\ frames[i].pc \in IF root = NoNode THEN {0} ELSE 0 .. Len(root.nodes)
             /\ i < Len(frames) =>
                  /\ IsList(frames[i].node)
                  /\ frames[i].pc \in IF IsConditional(frames[i].node) THEN 0 .. 2 ELSE {0}
                  /\ Calls(frames[i + 1], frames[i])
  <2>1. CASE i = 1
    BY <1>4, <1>6, <2>1
  <2>2. CASE i = 2
    <3>1. CASE Len(stack) = 1
      BY <1>4, <1>6, <1>7, <2>2, <3>1 DEF FramesOK
    <3>2. CASE Len(stack) # 1
      <4>1. 1 < Len(stack) /\ 2 \in 2 .. Len(stack) /\ frames[2 + 1] = stack[2] /\ 2 < Len(frames)
        BY <1>4, <3>2
      <4>2. IsList(node) /\ Calls(stack[1 + 1], stack[1])
        BY <1>7, <4>1 DEF FramesOK
      <4>3. Calls(stack[2], b)
        BY <1>6, <1>7, <3>2, <4>2 DEF Calls
      <4> QED BY <1>4, <1>6, <2>2, <3>2, <4>1, <4>2, <4>3
    <3> QED BY <3>1, <3>2
  <2>3. CASE i \notin {1, 2}
    <3>1. /\ i - 1 \in 2 .. Len(stack) /\ (i - 1) + 1 = i /\ i - 1 \in DOMAIN stack
          /\ i = Len(frames) => i - 1 = Len(stack)
          /\ i < Len(frames) => i - 1 < Len(stack) /\ i \in 2 .. Len(stack)
      BY <1>4, <2>3
    <3>2. frames[i] = stack[i - 1] /\ (i < Len(frames) => frames[i + 1] = stack[i])
      BY <1>4, <3>1
    <3>3. i < Len(frames) => Calls(stack[i], stack[i - 1])
      BY <3>1 DEF FramesOK
    <3> QED BY <3>1, <3>2, <3>3 DEF FramesOK
  <2> QED BY <2>1, <2>2, <2>3
<1> QED BY <1>2, <1>4, <1>5, <1>8 DEF FramesOK

(* The invariant of the calls holds at first. *)
LEMMA StackInit == Init => StackInv
<1> SUFFICES ASSUME Init PROVE StackInv
  OBVIOUS
<1>1. stack = <<>> /\ status = 0 /\ ran = <<>> /\ outcome = "none"
  BY DEF Init
<1>2. <<>> \in Seq(Range(<<>>)) /\ DOMAIN <<>> = {} /\ Len(<<>>) = 0 /\ <<>> \in Seq(JobNodes)
  OBVIOUS
<1>3. FramesOK(stack)
  BY <1>1, <1>2 DEF FramesOK
<1> QED BY <1>1, <1>2, <1>3 DEF StackInv

(* The innermost call. *)
LEMMA HeadFrame ==
  ASSUME ParserInv, StackInv, Executing
  PROVE  /\ stack \in Seq(Range(stack)) /\ stack[1].node = node /\ stack[1].pc = pc /\ Len(stack) \in Nat /\ Len(stack) >= 1
         /\ Len(stack) = 1 => /\ node = root /\ (root = NoNode \/ IsTree(root))
                              /\ pc \in IF root = NoNode THEN {0} ELSE 0 .. Len(root.nodes)
                              /\ ~IsConditional(node) /\ ~IsCommand(node) /\ ~IsPipeline(node)
         /\ Len(stack) # 1 => /\ IsList(node) /\ ~IsSequence(node) /\ 1 < Len(stack)
                              /\ pc \in IF IsConditional(node) THEN 0 .. 2 ELSE {0}
                              /\ Calls(stack[2], stack[1])
<1>1. stack \in Seq(Range(stack)) /\ stack # <<>>
  BY DEF StackInv, FramesOK, Executing
<1>2. /\ stack[1].node = node /\ stack[1].pc = pc /\ Len(stack) \in Nat /\ Len(stack) >= 1 /\ 1 \in DOMAIN stack
  BY <1>1 DEF node, pc
<1>3. ASSUME Len(stack) = 1
      PROVE  /\ node = root /\ (root = NoNode \/ IsTree(root))
             /\ pc \in IF root = NoNode THEN {0} ELSE 0 .. Len(root.nodes)
             /\ ~IsConditional(node) /\ ~IsCommand(node) /\ ~IsPipeline(node)
  <2>1. node = root /\ pc \in IF root = NoNode THEN {0} ELSE 0 .. Len(root.nodes)
    BY <1>2, <1>3 DEF StackInv, FramesOK
  <2>2. root = NoNode \/ IsTree(root)
    BY DEF ParserInv, LocalsOK
  <2>3. IsTree(root) => ~IsConditional(root) /\ ~IsCommand(root) /\ ~IsPipeline(root)
    BY DEF IsTree, seq_node_t, IsConditional, IsCommand, IsPipeline
  <2> QED BY <2>1, <2>2, <2>3, NodesDiffer
<1>4. ASSUME Len(stack) # 1
      PROVE  /\ IsList(node) /\ ~IsSequence(node) /\ 1 < Len(stack)
             /\ pc \in IF IsConditional(node) THEN 0 .. 2 ELSE {0}
             /\ Calls(stack[2], stack[1])
  <2>1. 1 < Len(stack)
    <3>1. \A k \in Nat : k >= 1 /\ k # 1 => 1 < k
      OBVIOUS
    <3> QED BY <1>2, <1>4, <3>1, Zenon
  <2>2. IsList(node) /\ pc \in (IF IsConditional(node) THEN 0 .. 2 ELSE {0}) /\ Calls(stack[2], stack[1])
    BY <1>2, <2>1 DEF StackInv, FramesOK
  <2> QED BY <2>1, <2>2, ListNotSequence
<1> QED BY <1>1, <1>2, <1>3, <1>4

(* The right side of a conditional is no conditional. *)
LEMMA RightIsJob ==
  ASSUME ParserInv, StackInv, Executing, Len(stack) # 1, IsConditional(stack[2].node), stack[2].pc = 2
  PROVE  /\ ~IsConditional(node) /\ node = stack[2].node.right /\ node \in JobNodes \cup {NoNode} /\ pc = 0
         /\ Len(stack) > 2 /\ IsList(stack[2].node)
<1>1. /\ Calls(stack[2], stack[1]) /\ stack[1].node = node /\ stack[1].pc = pc
      /\ Len(stack) \in Nat /\ 1 < Len(stack)
  BY HeadFrame
<1>2. node = stack[2].node.right /\ pc = 0
  <2>1. ~IsSequence(stack[2].node)
    BY NodesDiffer
  <2> QED BY <1>1, <2>1 DEF Calls
<1>3. IsList(stack[2].node) /\ Len(stack) > 2
  <2>1. 2 \in DOMAIN stack
    BY <1>1, HeadFrame
  <2>2. 2 = Len(stack) => IsTree(root) \/ root = NoNode
    BY DEF ParserInv, LocalsOK
  <2>3. IsTree(root) => ~IsConditional(root)
    BY DEF IsTree, seq_node_t, IsConditional
  <2>4. 2 = Len(stack) => stack[2].node = root
    BY <2>1 DEF StackInv, FramesOK
  <2>5. 2 # Len(stack)
    BY <2>2, <2>3, <2>4, NodesDiffer
  <2>6. 2 < Len(stack)
    <3>1. \A k \in Nat : 1 < k /\ 2 # k => 2 < k
      OBVIOUS
    <3> QED BY <1>1, <2>5, <3>1
  <2> QED BY <2>1, <2>6 DEF StackInv, FramesOK
<1>4. node \in JobNodes \cup {NoNode}
  BY <1>2, <1>3, SplitList
<1> QED BY <1>2, <1>3, <1>4, JobsDiffer

(* A return keeps the invariant of the calls, *)
LEMMA ReturnInv ==
  ASSUME ParserInv, StackInv, Executing, UNCHANGED parser_vars, stack' = Tail(stack),
         status' \in ExitCodes \cup {0, JOB_STOPPED_EXIT_CODE, -1},
         outcome' \in {"none", "started", "ok", "failed", "stopped"},
         ran' \in Seq(JobNodes)
  PROVE  StackInv'
<1>1. FramesOK(stack) /\ stack # <<>>
  BY DEF StackInv, Executing
<1>2. /\ FramesOK(Tail(stack))
      /\ Len(stack) \in Nat /\ Len(Tail(stack)) = Len(stack) - 1
      /\ \A i \in 1 .. Len(stack) - 1 : Tail(stack)[i] = stack[i + 1]
  BY <1>1, PopFrame
<1>3. FramesOK(stack)'
  <2>1. PICK frames : frames = stack' /\ FramesOK(frames)
    BY <1>2
  <2>2. root' = root
    BY DEF parser_vars
  <2> QED BY <2>1, <2>2 DEF FramesOK
<1>4. ~(Len(stack') = 1 /\ stack'[1].pc = 0)
  <2> SUFFICES ASSUME Len(stack') = 1, stack'[1].pc = 0 PROVE FALSE
    OBVIOUS
  <2>1. Len(stack) = 2 /\ stack'[1] = stack[2]
    BY <1>2
  <2>2. Calls(stack[2], stack[1]) /\ stack[2].pc = 0
    <3>1. Len(stack) # 1
      BY <2>1
    <3>2. Calls(stack[2], stack[1])
      BY <3>1, HeadFrame, Zenon
    <3>3. PICK e : e = stack[2]
      OBVIOUS
    <3>4. e.pc = 0
      BY <2>1, <3>3, Zenon
    <3> QED BY <3>2, <3>3, <3>4, Zenon
  <2>3. PICK e : e = stack[2]
    OBVIOUS
  <2>4. e.pc = 0 /\ Calls(e, stack[1])
    BY <2>2, <2>3
  <2>5. ~(0 \in 1 .. Len(e.node.nodes))
    OBVIOUS
  <2> QED BY <2>4, <2>5 DEF Calls
<1>5. ~(Len(stack') > 1 /\ IsConditional(stack'[2].node) /\ stack'[2].pc = 2)
  <2> SUFFICES ASSUME Len(stack') > 1, IsConditional(stack'[2].node), stack'[2].pc = 2 PROVE FALSE
    OBVIOUS
  <2>1. Len(stack) > 2 /\ stack'[2] = stack[3] /\ 2 \in DOMAIN stack /\ 2 < Len(stack)
    <3>1. 2 \in 1 .. Len(stack) - 1 /\ Len(stack) > 2
      BY <1>2
    <3> QED BY <1>2, <3>1, HeadFrame
  <2>2. Calls(stack[2], stack[1]) /\ Calls(stack[2 + 1], stack[2]) /\ stack[2 + 1] = stack[3]
    BY <2>1, HeadFrame DEF StackInv, FramesOK
  <2>3. stack[2].pc = 0
    BY <2>1, <2>2, NodesDiffer DEF Calls
  <2> QED BY <2>2, <2>3 DEF Calls
<1>6. at' = "exec_node"
  BY DEF Executing, parser_vars
<1> QED BY <1>3, <1>4, <1>5, <1>6 DEF StackInv

(* and so does a call. *)
LEMMA CallInv ==
  ASSUME ParserInv, StackInv, Executing, UNCHANGED <<parser_vars, ran, outcome>>,
         NEW p, NEW n, CallFrom(p, n), IsList(n),
         Calls([node |-> node, pc |-> p], Call(n)),
         Len(stack) = 1 => p \in IF root = NoNode THEN {0} ELSE 0 .. Len(root.nodes),
         Len(stack) # 1 => p \in 0 .. 2 /\ IsConditional(node),
         p = 2 /\ IsConditional(node) => GoesOn(node)
  PROVE  StackInv'
<1>1. FramesOK(stack) /\ stack # <<>> /\ stack' = Pushed(p, n) /\ status' = status
  BY DEF StackInv, Executing, CallFrom, Pushed
<1>2. Len(stack) # 1 => ~(IsConditional(stack[2].node) /\ stack[2].pc = 2)
  BY RightIsJob
<1>3. PICK frames, m : frames = stack' /\ m = node
  OBVIOUS
<1>4. /\ FramesOK(frames)
      /\ Len(frames) = Len(stack) + 1 /\ Len(stack) \in Nat
      /\ frames[1] = Call(n) /\ frames[2] = [node |-> m, pc |-> p]
  <2>1. frames = Pushed(p, n)
    BY <1>1, <1>3
  <2>2. FramesOK(stack) /\ stack # <<>>
    BY <1>1
  <2>3. Len(stack) # 1 => p \in 0 .. 2 /\ IsConditional(node) /\ ~(IsConditional(stack[2].node) /\ stack[2].pc = 2)
    BY <1>2
  <2>4. /\ FramesOK(frames)
        /\ Len(frames) = Len(stack) + 1 /\ Len(stack) \in Nat
        /\ frames[1] = Call(n) /\ frames[2] = [node |-> node, pc |-> p]
    BY <2>1, <2>2, <2>3, PushFrame
  <2> QED BY <1>3, <2>4, Zenon
<1>5. FramesOK(stack)'
  <2>1. root' = root
    BY DEF parser_vars
  <2> QED BY <1>3, <1>4, <2>1 DEF FramesOK
<1>6. Len(frames) # 1
  BY <1>4, HeadFrame
<1>7. (Len(stack) > 1 /\ IsConditional(stack[2].node) /\ stack[2].pc = 2 => GoesOn(stack[2].node))'
  <2>1. frames[2].node = m /\ frames[2].pc = p
    BY <1>4
  <2>2. p = 2 /\ IsConditional(m) => GoesOn(m)
    BY <1>3
  <2>3. stack'[2].node = m /\ stack'[2].pc = p
    BY <1>3, <2>1
  <2> QED BY <1>1, <2>2, <2>3 DEF GoesOn, IsConditional
<1>8. at' = "exec_node"
  BY DEF Executing, parser_vars
<1>9. ran' = ran /\ outcome' = outcome
  OBVIOUS
<1> QED BY <1>1, <1>3, <1>5, <1>6, <1>7, <1>8, <1>9 DEF StackInv

(* A line of the root: what is in it is a list. *)
LEMMA LineOfSequence ==
  ASSUME ParserInv, StackInv, Executing, IsSequence(node)
  PROVE  /\ Len(stack) = 1 /\ node = root /\ IsTree(root) /\ pc \in 0 .. Len(root.nodes)
         /\ Len(root.nodes) \in Nat
         /\ \A i \in 1 .. Len(root.nodes) : IsList(root.nodes[i]) /\ root.nodes[i] # NoNode
<1>1. Len(stack) = 1 /\ node = root /\ IsTree(root) /\ pc \in 0 .. Len(root.nodes)
  BY HeadFrame, NodesDiffer
<1>2. /\ root.nodes \in Seq(Range(root.nodes))
      /\ \A i \in DOMAIN root.nodes : root.nodes[i] # NoNode /\ IsList(root.nodes[i])
  BY <1>1 DEF IsTree
<1>3. DOMAIN root.nodes = 1 .. Len(root.nodes) /\ Len(root.nodes) \in Nat
  BY <1>2, LenProperties
<1> QED BY <1>1, <1>2, <1>3

(* The next list of a line is called, *)
LEMMA NextOfSequenceStack ==
  ASSUME ParserInv, StackInv, NextOfSequence
  PROVE  StackInv'
<1>1. /\ Executing /\ IsSequence(node) /\ pc < Len(node.nodes) /\ CallFrom(pc + 1, node.nodes[pc + 1])
      /\ UNCHANGED <<parser_vars, ran, outcome>>
  BY DEF NextOfSequence, Usable
<1>2. PICK m, k : m = node /\ k = pc
  OBVIOUS
<1>3. /\ Len(stack) = 1 /\ m = root /\ Len(m.nodes) \in Nat /\ k \in 0 .. Len(m.nodes) /\ k < Len(m.nodes)
      /\ \A i \in 1 .. Len(m.nodes) : IsList(m.nodes[i])
      /\ root # NoNode /\ IsSequence(m)
  BY <1>1, <1>2, LineOfSequence, NodesDiffer
<1>4. k + 1 \in 1 .. Len(m.nodes) /\ k + 1 \in 0 .. Len(m.nodes)
  <2>1. \A c \in Nat : \A j \in 0 .. c : j < c => j + 1 \in 1 .. c /\ j + 1 \in 0 .. c
    OBVIOUS
  <2> QED BY <1>3, <2>1, Zenon
<1>5. PICK n : n = m.nodes[k + 1]
  OBVIOUS
<1>6. IsList(n) /\ CallFrom(k + 1, n)
  BY <1>1, <1>2, <1>3, <1>4, <1>5, Zenon
<1>7. Calls([node |-> m, pc |-> k + 1], Call(n))
  BY <1>3, <1>4, <1>5 DEF Calls, Call
<1>8. ~IsConditional(m)
  BY <1>3, NodesDiffer
<1>9. Len(stack) = 1 => k + 1 \in IF root = NoNode THEN {0} ELSE 0 .. Len(root.nodes)
  BY <1>3, <1>4
<1>10. Calls([node |-> node, pc |-> k + 1], Call(n)) /\ ~IsConditional(node)
  BY <1>2, <1>7, <1>8
<1> QED BY <1>1, <1>3, <1>6, <1>9, <1>10, CallInv

(* a side of a conditional is called, *)
LEMMA ConditionalStack ==
  ASSUME ParserInv, StackInv, LeftOfConditional \/ RightOfConditional
  PROVE  StackInv'
<1>1. /\ Executing /\ IsConditional(node) /\ UNCHANGED <<parser_vars, ran, outcome>>
      /\ CallFrom(1, node.left) \/ (CallFrom(2, node.right) /\ GoesOn(node))
  BY DEF LeftOfConditional, RightOfConditional, Usable
<1>2. Len(stack) # 1 /\ IsList(node)
  BY <1>1, HeadFrame
<1>3. IsList(node.left) /\ node.right \in JobNodes \cup {NoNode}
  BY <1>1, <1>2, SplitList
<1>4. IsList(node.right)
  BY <1>3, JobIsList
<1>5. PICK m, l, r : m = node /\ l = node.left /\ r = node.right
  OBVIOUS
<1>6. Calls([node |-> m, pc |-> 1], Call(l)) /\ Calls([node |-> m, pc |-> 2], Call(r))
  BY <1>1, <1>5 DEF Calls, Call
<1>7. Calls([node |-> node, pc |-> 1], Call(l)) /\ Calls([node |-> node, pc |-> 2], Call(r))
      /\ IsList(l) /\ IsList(r) /\ (CallFrom(1, l) \/ (CallFrom(2, r) /\ GoesOn(node)))
  BY <1>1, <1>3, <1>4, <1>5, <1>6, Zenon
<1>8. CASE CallFrom(1, l)
  <2>1. 1 \in 0 .. 2 /\ 1 # 2
    OBVIOUS
  <2> QED BY <1>1, <1>2, <1>7, <1>8, <2>1, CallInv
<1>9. CASE CallFrom(2, r) /\ GoesOn(node)
  <2>1. 2 \in 0 .. 2
    OBVIOUS
  <2> QED BY <1>1, <1>2, <1>7, <1>9, <2>1, CallInv
<1> QED BY <1>7, <1>8, <1>9

(* and all other calls return. *)
LEMMA ReturnStack ==
  ASSUME ParserInv, StackInv,
         Unusable \/ EndOfSequence \/ EndOfConditional \/ RunBuiltin \/ RunBackground \/ RunForeground
  PROVE  StackInv'
<1>1. Executing /\ UNCHANGED parser_vars /\ stack' = Tail(stack)
  BY DEF Unusable, EndOfSequence, EndOfConditional, RunBuiltin, RunBackground, RunForeground, RunsJob, Usable, Return
<1>2. status' \in ExitCodes \cup {0, JOB_STOPPED_EXIT_CODE, -1}
  BY DEF StackInv, Unusable, EndOfSequence, EndOfConditional, RunBuiltin, RunBackground, RunForeground, Return
<1>3. outcome' \in {"none", "started", "ok", "failed", "stopped"}
  BY DEF StackInv, Unusable, EndOfSequence, EndOfConditional, RunBuiltin, RunBackground, RunForeground
<1>4. ran' \in Seq(JobNodes)
  <2>1. ran \in Seq(JobNodes)
    BY DEF StackInv
  <2>2. CASE ran' = ran
    BY <2>1, <2>2
  <2>3. CASE ran' # ran
    <3>1. ran' = Append(ran, node) /\ (IsCommand(node) \/ IsPipeline(node))
      BY <2>3 DEF Unusable, EndOfSequence, EndOfConditional, RunBuiltin, RunBackground, RunForeground, RunsJob
    <3>2. IsList(node) /\ ~IsConditional(node)
      <4>1. IsList(node)
        BY <1>1, <3>1, HeadFrame
      <4> QED BY <3>1, <4>1, NodesDiffer DEF IsCommand, IsPipeline, IsConditional
    <3>3. node \in JobNodes
      BY <3>1, <3>2, ListOfOne, NodesDiffer
    <3>4. PICK n : n = node
      OBVIOUS
    <3> QED BY <2>1, <3>1, <3>3, <3>4
  <2> QED BY <2>2, <2>3
<1> QED BY <1>1, <1>2, <1>3, <1>4, ReturnInv

(* While a line is parsed nothing is called. *)
LEMMA IdleStack ==
  ASSUME ParserInv, StackInv, stack = <<>>, UNCHANGED execution_vars,
         at' # "exec_node", at \notin {"exec_node", "exit"}
  PROVE  StackInv'
<1>1. stack' = <<>> /\ ran' = <<>> /\ status' = 0 /\ outcome' = outcome
  BY DEF execution_vars, StackInv
<1>2. <<>> \in Seq(Range(<<>>)) /\ DOMAIN <<>> = {} /\ Len(<<>>) = 0 /\ <<>> \in Seq(JobNodes)
  OBVIOUS
<1>3. FramesOK(stack)'
  BY <1>1, <1>2 DEF FramesOK
<1> QED BY <1>1, <1>2, <1>3 DEF StackInv

(* The invariant of the calls is inductive. *)
LEMMA StackNext ==
  ASSUME ParserInv, StackInv, [Next]_vars
  PROVE  StackInv'
<1> USE DEF Goto
<1>1. CASE TypeLine \/ (ParserStep /\ UNCHANGED execution_vars)
  <2>1. at \notin {"exec_node", "exit"} /\ at' # "exec_node" /\ UNCHANGED execution_vars
    BY <1>1 DEF TypeLine, EmptyLine, StartLine, ParserStep, ParseArgument, ParseDescriptor, ParseOperator, ParseTarget,
                MissingTarget, EndCommand, NoFirstCommand, NoLaterCommand, ParsePipe, EndPipeline, ParseAndOr,
                EndConditional, EndOfCommands, NothingParsed, ParseSeparator, EndOfSeparators
  <2> QED BY <2>1, IdleStack DEF StackInv
<1>2. CASE ExecuteLine
  <2>1. PICK r : r = root
    OBVIOUS
  <2>2. PICK c : c = Call(r)
    OBVIOUS
  <2>3. stack' = <<c>> /\ c.node = r /\ c.pc = 0 /\ ran' = ran /\ status' = 0 /\ outcome' = outcome /\ at' = "exec_node"
        /\ root' = r
    BY <1>2, <2>1, <2>2 DEF ExecuteLine, Call
  <2>4. ran = <<>> /\ outcome \in {"none", "started", "ok", "failed", "stopped"} /\ ran \in Seq(JobNodes)
    BY <1>2 DEF StackInv, ExecuteLine
  <2>5. 0 \in IF r = NoNode THEN {0} ELSE 0 .. Len(r.nodes)
    <3>1. r = NoNode \/ Len(r.nodes) \in Nat
      <4>1. r # NoNode => r.nodes \in Seq(Range(r.nodes))
        BY <2>1 DEF ParserInv, LocalsOK, IsTree
      <4> QED BY <4>1, LenProperties
    <3>2. \A k \in Nat : 0 \in 0 .. k
      OBVIOUS
    <3> QED BY <3>1, <3>2, Zenon
  <2>6. <<c>> \in Seq(Range(<<c>>)) /\ DOMAIN <<c>> = {1} /\ Len(<<c>>) = 1 /\ <<c>>[1] = c
    BY DEF Range
  <2>7. FramesOK(stack)'
    BY <2>3, <2>5, <2>6 DEF FramesOK
  <2> QED BY <2>3, <2>4, <2>6, <2>7 DEF StackInv
<1>3. CASE FinishLine
  <2>1. stack' = <<>> /\ ran' = <<>> /\ status' = 0 /\ outcome' = "none"
    BY <1>3 DEF FinishLine
  <2>2. <<>> \in Seq(Range(<<>>)) /\ DOMAIN <<>> = {} /\ Len(<<>>) = 0 /\ <<>> \in Seq(JobNodes)
    OBVIOUS
  <2>3. FramesOK(stack)'
    BY <2>1, <2>2 DEF FramesOK
  <2> QED BY <2>1, <2>2, <2>3 DEF StackInv
<1>4. CASE NoName \/ UNCHANGED vars
  <2>1. UNCHANGED <<root, execution_vars>> /\ (at' \notin {"exec_node", "exit"} => at \notin {"exec_node", "exit"})
    BY <1>4 DEF NoName, vars, parser_vars
  <2>2. FramesOK(stack)'
    BY <2>1 DEF FramesOK, StackInv, execution_vars
  <2>3. UNCHANGED <<stack, status, ran, outcome>>
    BY <2>1 DEF execution_vars
  <2>4. Len(stack) > 1 /\ IsConditional(stack[2].node) /\ stack[2].pc = 2 => GoesOn(stack[2].node)'
    BY <2>3 DEF StackInv, GoesOn
  <2> QED BY <2>1, <2>2, <2>3, <2>4 DEF StackInv
<1> QED BY <1>1, <1>2, <1>3, <1>4, NextOfSequenceStack, ConditionalStack, ReturnStack
        DEF Next, LineStep, ExecutionStep

(* The invariants imply the types. *)
LEMMA TypesHold ==
  ASSUME ParserInv, StackInv
  PROVE  CommandLineTypeOK
<1>1. ASSUME NEW n \in JobNodes PROVE IsJobNode(n)
  <2>1. CASE n \in CommandNodes
    BY <2>1, NodesDiffer DEF IsJobNode
  <2>2. CASE n \in PipelineNodes /\ Len(n.nodes) > 1 /\ OneMissing(n.nodes)
    <3>1. IsPipeline(n) /\ n.nodes \in Seq(CommandNodes \cup {NoNode})
      BY <2>2, NodesDiffer
    <3>2. ASSUME NEW i \in DOMAIN n.nodes PROVE IsCommand(n.nodes[i]) \/ (i = 1 /\ n.nodes[i] = NoNode)
      BY <2>2, <3>1, NodesDiffer DEF OneMissing
    <3> QED BY <2>2, <3>1, <3>2 DEF IsJobNode
  <2> QED BY <2>1, <2>2 DEF JobNodes
<1>2. ASSUME NEW n, IsList(n) PROVE IsListNode(n)
  <2>1. PICK s : s = ListItems(n)
    OBVIOUS
  <2>2. s \in Seq(ListItem)
    BY <1>2, <2>1 DEF IsList
  <2>3. \A e \in Range(s) : e \in ListItem
    BY <2>2 DEF Range
  <2>4. \A e \in Range(s) : e.op \in {"none", "and", "or"} /\ (e.job = NoNode \/ IsJobNode(e.job))
    BY <1>1, <2>3 DEF ListItem
  <2> QED BY <2>1, <2>4, Zenon DEF IsListNode
<1>3. root # NoNode =>
        /\ IsSequence(root)
        /\ \A i \in DOMAIN root.nodes : root.nodes[i] # NoNode /\ IsListNode(root.nodes[i])
  BY <1>2 DEF ParserInv, LocalsOK, IsTree, seq_node_t, IsSequence
<1>4. \A i \in DOMAIN ran : IsJobNode(ran[i])
  <2>1. ran \in Seq(JobNodes)
    BY DEF StackInv
  <2>2. \A i \in DOMAIN ran : ran[i] \in JobNodes
    BY <2>1
  <2> QED BY <1>1, <2>2
<1> QED BY <1>2, <1>3, <1>4 DEF ParserInv, LocalsOK, StackInv, CommandLineTypeOK

(* parser.c and exec_node keep the types of their locals and of the tree:  *)
(* parse_cond_node and parse_pipeline put jobs, or a missing one, where    *)
(* exec_node and run_job expect them.                                      *)
THEOREM CommandLineTypeCorrect == Spec => []CommandLineTypeOK
<1>1. Init => ParserInv /\ StackInv
  BY ParserInvInit, StackInit
<1>2. ParserInv /\ StackInv /\ [Next]_vars => ParserInv' /\ StackInv'
  BY ParserInvNext, StackNext
<1>3. ParserInv /\ StackInv => CommandLineTypeOK
  BY TypesHold
<1> QED BY <1>1, <1>2, <1>3, PTL DEF Spec

-----------------------------------------------------------------------------
(* Words *)

CommandsOrNull == CommandNodes \cup {NoNode}
JobsOrNull == JobNodes \cup {NoNode}

(* No words are words, and add nothing. *)
LEMMA NoWords == <<>> \in Seq(Nat) /\ \A s \in Seq(Nat) : s \o <<>> = s /\ <<>> \o s = s
OBVIOUS

(* Words can be joined in any order of joining. *)
LEMMA JoinWords ==
  /\ \A s, t \in Seq(Nat) : s \o t \in Seq(Nat)
  /\ \A s, t, u \in Seq(Nat) : (s \o t) \o u = s \o (t \o u)
  /\ \A s, t \in Seq(Nat), k \in Nat : s \o Append(t, k) = Append(s \o t, k)
  /\ \A s \in Seq(Nat), k \in Nat : Append(s, k) \in Seq(Nat)
<1>1. \A s, t \in Seq(Nat) : s \o t \in Seq(Nat)
  OBVIOUS
<1>2. \A s, t, u \in Seq(Nat) : (s \o t) \o u = s \o (t \o u)
  OBVIOUS
<1>3. \A s, t \in Seq(Nat), k \in Nat : s \o Append(t, k) = Append(s \o t, k)
  OBVIOUS
<1>4. \A s \in Seq(Nat), k \in Nat : Append(s, k) \in Seq(Nat)
  OBVIOUS
<1> QED BY <1>1, <1>2, <1>3, <1>4

(* A command has words. *)
LEMMA CommandWordsType ==
  ASSUME NEW n \in CommandsOrNull
  PROVE  CommandWords(n) \in Seq(Nat)
<1>1. CASE n = NoNode
  BY <1>1, NoWords DEF CommandWords
<1>2. CASE n \in CommandNodes
  <2>1. n # NoNode /\ n.argv_parts \in Seq(Nat) /\ n.redir \in Seq(Nat)
    BY <1>2, NodesDiffer
  <2> QED BY <2>1, JoinWords, Zenon DEF CommandWords
<1> QED BY <1>1, <1>2 DEF CommandsOrNull

(* A sequence that is another one with an item behind it. *)
LEMMA IsAppend ==
  ASSUME NEW T, NEW words \in Seq(T), NEW w \in T, NEW longer \in Seq(T),
         Len(longer) = Len(words) + 1,
         \A i \in 1 .. Len(words) : longer[i] = words[i],
         longer[Len(words) + 1] = w
  PROVE  longer = Append(words, w)
<1>1. PICK s : s = Append(words, w)
  OBVIOUS
<1>2. /\ s \in Seq(T) /\ Len(s) = Len(words) + 1 /\ Len(words) \in Nat
      /\ \A i \in 1 .. Len(words) : s[i] = words[i]
      /\ s[Len(words) + 1] = w
  BY <1>1
<1>3. \A i \in 1 .. Len(words) + 1 : i \in 1 .. Len(words) \/ i = Len(words) + 1
  BY <1>2
<1>4. \A i \in 1 .. Len(words) + 1 : longer[i] = s[i]
  BY <1>2, <1>3
<1>5. longer = s
  BY <1>2, <1>4
<1> QED BY <1>1, <1>5

(* The words of the commands of a pipeline. *)
LEMMA PipeWordsType ==
  ASSUME NEW nodes \in Seq(CommandsOrNull)
  PROVE  /\ PipeWords(nodes) \in Seq(Nat)
         /\ [i \in DOMAIN nodes |-> CommandWords(nodes[i])] \in Seq(Seq(Nat))
<1> DEFINE W == Seq(Nat)
<1>1. ASSUME NEW i \in DOMAIN nodes PROVE CommandWords(nodes[i]) \in W
  <2>1. nodes[i] \in CommandsOrNull
    OBVIOUS
  <2> QED BY <2>1, CommandWordsType
<1> HIDE DEF W
<1>2. [i \in DOMAIN nodes |-> CommandWords(nodes[i])] \in Seq(W)
  <2>1. DOMAIN nodes = 1 .. Len(nodes) /\ Len(nodes) \in Nat
    OBVIOUS
  <2> QED BY <1>1, <2>1
<1>3. [i \in DOMAIN nodes |-> CommandWords(nodes[i])] \in Seq(Seq(Nat))
  BY <1>2 DEF W
<1> QED BY <1>3, FlattenType, Zenon DEF PipeWords

(* The words of one command more. *)
LEMMA PipeWordsAppend ==
  ASSUME NEW nodes \in Seq(CommandsOrNull), NEW n \in CommandsOrNull
  PROVE  PipeWords(Append(nodes, n)) = PipeWords(nodes) \o CommandWords(n)
<1> DEFINE W == Seq(Nat)
<1>1. PICK more, w : more = Append(nodes, n) /\ w = CommandWords(n)
  OBVIOUS
<1>2. /\ more \in Seq(CommandsOrNull)
      /\ DOMAIN more = 1 .. Len(nodes) + 1 /\ Len(nodes) \in Nat /\ DOMAIN nodes = 1 .. Len(nodes)
      /\ \A i \in 1 .. Len(nodes) : more[i] = nodes[i]
      /\ more[Len(nodes) + 1] = n
  BY <1>1
<1>3. PICK words, longer : /\ words = [i \in DOMAIN nodes |-> CommandWords(nodes[i])]
                           /\ longer = [i \in DOMAIN more |-> CommandWords(more[i])]
  OBVIOUS
<1>4. w \in W /\ words \in Seq(W) /\ longer \in Seq(W)
  BY <1>1, <1>2, <1>3, CommandWordsType, PipeWordsType
<1> HIDE DEF W
<1>5. longer = Append(words, w)
  <2>1. /\ Len(words) = Len(nodes) /\ Len(longer) = Len(words) + 1
        /\ \A i \in 1 .. Len(words) : longer[i] = words[i]
        /\ longer[Len(words) + 1] = w
    BY <1>1, <1>2, <1>3, <1>4
  <2> QED BY <1>4, <2>1, IsAppend
<1>6. FlattenSeq(longer) = FlattenSeq(words) \o w
  BY <1>4, <1>5, FlattenAppend, Zenon DEF W
<1> QED BY <1>1, <1>3, <1>6, Zenon DEF PipeWords

(* One sequence, or none, is not changed by joining. *)
LEMMA FlattenShort ==
  ASSUME NEW S, NEW s \in Seq(S)
  PROVE  FlattenSeq(<<>>) = <<>> /\ FlattenSeq(<<s>>) = s
<1> DEFINE T == Seq(S)
<1>1. <<>> \in Seq(T) /\ s \in T
  OBVIOUS
<1> HIDE DEF T
<1>2. FlattenSeq(<<>>) = <<>>
  <2>1. PICK flat : FlattenSeq(<<>>) = IF <<>> = <<>> THEN <<>> ELSE flat[Len(<<>>)]
    BY <1>1, FlattenUnfolds, Zenon
  <2> QED BY <2>1
<1>3. FlattenSeq(<<s>>) = s
  <2>1. <<s>> = Append(<<>>, s)
    OBVIOUS
  <2>2. FlattenSeq(Append(<<>>, s)) = FlattenSeq(<<>>) \o s
    BY <1>1, FlattenAppend, Zenon DEF T
  <2>3. <<>> \o s = s
    OBVIOUS
  <2> QED BY <1>2, <2>1, <2>2, <2>3, Zenon
<1> QED BY <1>2, <1>3

(* A job has words. *)
LEMMA JobWordsType ==
  ASSUME NEW n \in JobsOrNull
  PROVE  JobWords(n) \in Seq(Nat)
<1>1. CASE n \in CommandsOrNull
  <2>1. ~IsPipeline(n)
    BY <1>1, NodesDiffer DEF CommandsOrNull
  <2> QED BY <1>1, <2>1, CommandWordsType, Zenon DEF JobWords
<1>2. CASE n \in PipelineNodes
  <2>1. IsPipeline(n) /\ n.nodes \in Seq(CommandsOrNull)
    BY <1>2, NodesDiffer DEF CommandsOrNull
  <2>2. PipeWords(n.nodes) \in Seq(Nat)
    BY <2>1, PipeWordsType
  <2> QED BY <2>1, <2>2, Zenon DEF JobWords, PipeWords
<1> QED BY <1>1, <1>2 DEF JobsOrNull, JobNodes, CommandsOrNull

(* The words of the items of a list. *)
ItemsWords(items) == FlattenSeq([i \in DOMAIN items |-> JobWords(items[i].job)])

(* Items have words. *)
LEMMA ItemsWordsType ==
  ASSUME NEW items \in Seq(ListItem)
  PROVE  /\ ItemsWords(items) \in Seq(Nat)
         /\ [i \in DOMAIN items |-> JobWords(items[i].job)] \in Seq(Seq(Nat))
<1> DEFINE W == Seq(Nat)
<1>1. ASSUME NEW i \in DOMAIN items PROVE JobWords(items[i].job) \in W
  <2>1. items[i].job \in JobsOrNull
    <3>1. PICK x : x = items[i]
      OBVIOUS
    <3>2. x \in ListItem
      BY <3>1
    <3>3. x.job \in JobsOrNull
      BY <3>2 DEF ListItem, JobsOrNull
    <3> QED BY <3>1, <3>3
  <2> QED BY <2>1, JobWordsType
<1> HIDE DEF W
<1>2. [i \in DOMAIN items |-> JobWords(items[i].job)] \in Seq(W)
  <2>1. DOMAIN items = 1 .. Len(items) /\ Len(items) \in Nat
    OBVIOUS
  <2> QED BY <1>1, <2>1
<1>3. [i \in DOMAIN items |-> JobWords(items[i].job)] \in Seq(Seq(Nat))
  BY <1>2 DEF W
<1> QED BY <1>3, FlattenType, Zenon DEF ItemsWords

(* The words of one item more. *)
LEMMA ItemsWordsAppend ==
  ASSUME NEW items \in Seq(ListItem), NEW x \in ListItem
  PROVE  ItemsWords(Append(items, x)) = ItemsWords(items) \o JobWords(x.job)
<1> DEFINE W == Seq(Nat)
<1>1. PICK more, w : more = Append(items, x) /\ w = JobWords(x.job)
  OBVIOUS
<1>2. /\ more \in Seq(ListItem)
      /\ DOMAIN more = 1 .. Len(items) + 1 /\ Len(items) \in Nat /\ DOMAIN items = 1 .. Len(items)
      /\ \A i \in 1 .. Len(items) : more[i] = items[i]
      /\ more[Len(items) + 1] = x
  BY <1>1
<1>3. PICK words, longer : /\ words = [i \in DOMAIN items |-> JobWords(items[i].job)]
                           /\ longer = [i \in DOMAIN more |-> JobWords(more[i].job)]
  OBVIOUS
<1>4. w \in W /\ words \in Seq(W) /\ longer \in Seq(W)
  <2>1. x.job \in JobsOrNull
    BY DEF ListItem, JobsOrNull
  <2> QED BY <1>1, <1>2, <1>3, <2>1, JobWordsType, ItemsWordsType
<1> HIDE DEF W
<1>5. longer = Append(words, w)
  <2>1. /\ Len(words) = Len(items) /\ Len(longer) = Len(words) + 1
        /\ \A i \in 1 .. Len(words) : longer[i] = words[i]
        /\ longer[Len(words) + 1] = w
    BY <1>1, <1>2, <1>3, <1>4
  <2> QED BY <1>4, <2>1, IsAppend
<1>6. FlattenSeq(longer) = FlattenSeq(words) \o w
  BY <1>4, <1>5, FlattenAppend, Zenon DEF W
<1> QED BY <1>1, <1>3, <1>6, Zenon DEF ItemsWords

(* A list has words. *)
LEMMA ListWordsType ==
  ASSUME NEW n, IsList(n)
  PROVE  ListWords(n) = ItemsWords(ListItems(n)) /\ ListWords(n) \in Seq(Nat)
<1>1. ListWords(n) = ItemsWords(ListItems(n))
  BY DEF ListWords, ItemsWords
<1> QED BY <1>1, ItemsWordsType DEF IsList

(* The words of a job alone, *)
LEMMA ListWordsJob ==
  ASSUME NEW n \in JobsOrNull
  PROVE  ListWords(n) = JobWords(n)
<1>1. ListItems(n) = <<FirstItem(n)>> /\ IsList(n)
  BY JobIsList DEF JobsOrNull
<1>2. PICK items, w : items = ListItems(n) /\ w = JobWords(n)
  OBVIOUS
<1>3. items = <<FirstItem(n)>>
  BY <1>1, <1>2
<1>4. [i \in DOMAIN items |-> JobWords(items[i].job)] = <<w>>
  <2>1. PICK e : e = FirstItem(n)
    OBVIOUS
  <2>2. e.job = n
    BY <2>1 DEF FirstItem
  <2>3. DOMAIN <<e>> = {1} /\ <<e>>[1] = e
    OBVIOUS
  <2>4. [i \in DOMAIN items |-> JobWords(items[i].job)] = [i \in {1} |-> w]
    BY <1>2, <1>3, <2>1, <2>2, <2>3
  <2>5. [i \in {1} |-> w] = <<w>>
    OBVIOUS
  <2> QED BY <2>4, <2>5
<1>5. FlattenSeq(<<w>>) = w
  BY <1>2, JobWordsType, FlattenShort
<1>6. ItemsWords(items) = w
  BY <1>4, <1>5, Zenon DEF ItemsWords
<1>7. ListWords(n) = ItemsWords(items)
  BY <1>1, <1>2, ListWordsType
<1> QED BY <1>2, <1>6, <1>7

(* and of a list with a job more. *)
LEMMA ListWordsAppend ==
  ASSUME NEW n, IsList(n), NEW l, IsList(l), NEW x, ListItems(n) = Append(ListItems(l), x)
  PROVE  ListWords(n) = ListWords(l) \o JobWords(x.job) /\ x \in ListItem
<1>1. PICK items : items = ListItems(l)
  OBVIOUS
<1>2. items \in Seq(ListItem) /\ Append(items, x) \in Seq(ListItem)
  BY <1>1 DEF IsList
<1>3. x \in ListItem
  <2>1. Len(items) + 1 \in 1 .. Len(Append(items, x)) /\ Append(items, x)[Len(items) + 1] = x
    BY <1>2
  <2> QED BY <1>2, <2>1
<1>4. ItemsWords(Append(items, x)) = ItemsWords(items) \o JobWords(x.job)
  BY <1>2, <1>3, ItemsWordsAppend
<1> QED BY <1>1, <1>3, <1>4, ListWordsType, Zenon

(* The words of the lists of a line. *)
LinesWords(nodes) == FlattenSeq([i \in DOMAIN nodes |-> ListWords(nodes[i])])

(* The lists of a line have words. *)
LEMMA LinesWordsType ==
  ASSUME NEW S, \A n \in S : IsList(n), NEW nodes \in Seq(S)
  PROVE  /\ LinesWords(nodes) \in Seq(Nat)
         /\ [i \in DOMAIN nodes |-> ListWords(nodes[i])] \in Seq(Seq(Nat))
<1> DEFINE W == Seq(Nat)
<1>1. ASSUME NEW i \in DOMAIN nodes PROVE ListWords(nodes[i]) \in W
  <2>1. nodes[i] \in S
    OBVIOUS
  <2> QED BY <2>1, ListWordsType
<1> HIDE DEF W
<1>2. [i \in DOMAIN nodes |-> ListWords(nodes[i])] \in Seq(W)
  <2>1. DOMAIN nodes = 1 .. Len(nodes) /\ Len(nodes) \in Nat
    OBVIOUS
  <2> QED BY <1>1, <2>1
<1>3. [i \in DOMAIN nodes |-> ListWords(nodes[i])] \in Seq(Seq(Nat))
  BY <1>2 DEF W
<1> QED BY <1>3, FlattenType, Zenon DEF LinesWords

(* The words of one list more. *)
LEMMA LinesWordsAppend ==
  ASSUME NEW S, \A m \in S : IsList(m), NEW nodes \in Seq(S), NEW n \in S
  PROVE  LinesWords(Append(nodes, n)) = LinesWords(nodes) \o ListWords(n)
<1> DEFINE W == Seq(Nat)
<1>1. PICK more, w : more = Append(nodes, n) /\ w = ListWords(n)
  OBVIOUS
<1>2. /\ more \in Seq(S)
      /\ DOMAIN more = 1 .. Len(nodes) + 1 /\ Len(nodes) \in Nat /\ DOMAIN nodes = 1 .. Len(nodes)
      /\ \A i \in 1 .. Len(nodes) : more[i] = nodes[i]
      /\ more[Len(nodes) + 1] = n
  BY <1>1
<1>3. PICK words, longer : /\ words = [i \in DOMAIN nodes |-> ListWords(nodes[i])]
                           /\ longer = [i \in DOMAIN more |-> ListWords(more[i])]
  OBVIOUS
<1>4. w \in W /\ words \in Seq(W) /\ longer \in Seq(W)
  BY <1>1, <1>2, <1>3, ListWordsType, LinesWordsType
<1> HIDE DEF W
<1>5. longer = Append(words, w)
  <2>1. /\ Len(words) = Len(nodes) /\ Len(longer) = Len(words) + 1
        /\ \A i \in 1 .. Len(words) : longer[i] = words[i]
        /\ longer[Len(words) + 1] = w
    BY <1>1, <1>2, <1>3, <1>4
  <2> QED BY <1>4, <2>1, IsAppend
<1>6. FlattenSeq(longer) = FlattenSeq(words) \o w
  BY <1>4, <1>5, FlattenAppend, Zenon DEF W
<1> QED BY <1>1, <1>3, <1>6, Zenon DEF LinesWords

(* The words of the tree and of the pipeline while they are built. *)
LEMMA TreeWords ==
  ASSUME NEW tree, tree = NoNode \/ IsTree(tree)
  PROVE  /\ Words(tree) \in Seq(Nat)
         /\ tree = NoNode => Words(tree) = <<>>
         /\ tree # NoNode => Words(tree) = LinesWords(tree.nodes)
<1>1. CASE tree = NoNode
  <2>1. ~IsSequence(tree) /\ ~IsPipeline(tree) /\ tree \in JobsOrNull
    BY <1>1, NodesDiffer DEF JobsOrNull
  <2>2. Words(tree) = CommandWords(tree)
    BY <2>1, ListWordsJob, Zenon DEF Words, JobWords
  <2> QED BY <1>1, <2>2, NoWords DEF CommandWords
<1>2. CASE IsTree(tree)
  <2>1. IsSequence(tree)
    BY <1>2 DEF IsTree, seq_node_t, IsSequence
  <2>2. tree # NoNode /\ Words(tree) = LinesWords(tree.nodes)
    BY <2>1, NodesDiffer, Zenon DEF Words, LinesWords
  <2>3. PICK nodes : nodes = tree.nodes
    OBVIOUS
  <2>4. nodes \in Seq(Range(nodes)) /\ \A i \in DOMAIN nodes : IsList(nodes[i])
    BY <1>2, <2>3 DEF IsTree
  <2>5. \A n \in Range(nodes) : IsList(n)
    BY <2>4 DEF Range
  <2>6. LinesWords(nodes) \in Seq(Nat)
    BY <2>4, <2>5, LinesWordsType
  <2> QED BY <2>2, <2>3, <2>6
<1> QED BY <1>1, <1>2

(* A list that is put into the tree adds its words. *)
LEMMA TreeWordsGrow ==
  ASSUME IsTree(root), IsList(left)
  PROVE  Words([root EXCEPT !.nodes = Append(@, left)]) = Words(root) \o ListWords(left)
<1> PICK nodes, n : nodes = root.nodes /\ n = left
  OBVIOUS
<1>1. root = [type |-> "sequence", nodes |-> nodes]
  BY DEF IsTree, seq_node_t
<1>2. PICK tree : tree = [root EXCEPT !.nodes = Append(@, left)]
  OBVIOUS
<1>3. tree.type = "sequence" /\ tree.nodes = Append(nodes, n) /\ root.type = "sequence"
  BY <1>1, <1>2
<1>4. Words(tree) = LinesWords(Append(nodes, n)) /\ Words(root) = LinesWords(nodes)
  <2>1. \A m : IsSequence(m) => Words(m) = LinesWords(m.nodes)
    BY Zenon DEF Words, LinesWords
  <2>2. IsSequence(tree) /\ IsSequence(root)
    BY <1>3 DEF IsSequence
  <2> QED BY <1>3, <2>1, <2>2
<1>5. nodes \in Seq(Range(nodes)) /\ \A i \in DOMAIN nodes : IsList(nodes[i])
  BY DEF IsTree
<1>6. PICK S : S = Range(nodes) \cup {n}
  OBVIOUS
<1>7. nodes \in Seq(S) /\ n \in S /\ \A m \in S : IsList(m)
  BY <1>5, <1>6 DEF Range
<1>8. LinesWords(Append(nodes, n)) = LinesWords(nodes) \o ListWords(n)
  BY <1>7, LinesWordsAppend
<1> QED BY <1>2, <1>4, <1>8, Zenon

-----------------------------------------------------------------------------
(* The words that have been taken off the line *)

(* A word that is taken is the last of those in order, *)
LEMMA OrderAppend ==
  ASSUME NEW tokens, NEW longer, NEW n \in Nat, NEW words, InOrder(words, tokens, n),
         \A i \in 1 .. n : longer[i] = tokens[i], longer[n + 1] = "word"
  PROVE  InOrder(Append(words, n + 1), longer, n + 1)
<1>1. /\ words \in Seq(Nat) /\ Range(words) = {i \in 1 .. n : tokens[i] = "word"}
      /\ \A i, j \in DOMAIN words : i < j => words[i] < words[j]
  BY DEF InOrder
<1>2. PICK more : more = Append(words, n + 1)
  OBVIOUS
<1>3. /\ more \in Seq(Nat) /\ Len(words) \in Nat
      /\ DOMAIN words = 1 .. Len(words) /\ DOMAIN more = 1 .. Len(words) + 1
      /\ \A i \in 1 .. Len(words) : more[i] = words[i]
      /\ more[Len(words) + 1] = n + 1
  BY <1>1, <1>2
<1>4. \A i \in DOMAIN words : words[i] \in 1 .. n /\ tokens[words[i]] = "word"
  BY <1>1 DEF Range
<1>5. Range(more) = {i \in 1 .. n + 1 : longer[i] = "word"}
  <2>1. ASSUME NEW i \in 1 .. n + 1, longer[i] = "word" PROVE i \in Range(more)
    <3>1. CASE i = n + 1
      <4>1. Len(words) + 1 \in DOMAIN more
        BY <1>3
      <4> QED BY <1>3, <3>1, <4>1 DEF Range
    <3>2. CASE i \in 1 .. n
      <4>1. i \in Range(words)
        BY <1>1, <2>1, <3>2
      <4>2. PICK j \in DOMAIN words : words[j] = i
        BY <4>1 DEF Range
      <4>3. j \in DOMAIN more /\ more[j] = i
        BY <1>3, <4>2
      <4> QED BY <4>3 DEF Range
    <3> QED BY <3>1, <3>2
  <2>2. ASSUME NEW j \in DOMAIN more PROVE more[j] \in 1 .. n + 1 /\ longer[more[j]] = "word"
    <3>1. CASE j = Len(words) + 1
      BY <1>3, <3>1
    <3>2. CASE j \in 1 .. Len(words)
      BY <1>3, <1>4, <3>2
    <3> QED BY <1>3, <3>1, <3>2
  <2> QED BY <2>1, <2>2 DEF Range
<1>6. ASSUME NEW i \in DOMAIN more, NEW j \in DOMAIN more, i < j PROVE more[i] < more[j]
  <2>1. i \in 1 .. Len(words) /\ more[i] = words[i] /\ words[i] \in 1 .. n
    BY <1>3, <1>4, <1>6
  <2>2. CASE j = Len(words) + 1
    BY <1>3, <2>1, <2>2
  <2>3. CASE j \in 1 .. Len(words)
    BY <1>1, <1>3, <1>6, <2>1, <2>3
  <2> QED BY <1>3, <2>2, <2>3
<1> QED BY <1>2, <1>3, <1>5, <1>6 DEF InOrder

(* and a token that is no word changes nothing. *)
LEMMA OrderKept ==
  ASSUME NEW tokens, NEW longer, NEW n \in Nat, NEW words, InOrder(words, tokens, n),
         \A i \in 1 .. n : longer[i] = tokens[i], longer[n + 1] # "word"
  PROVE  InOrder(words, longer, n + 1)
<1>1. {i \in 1 .. n : tokens[i] = "word"} = {i \in 1 .. n + 1 : longer[i] = "word"}
  OBVIOUS
<1> QED BY <1>1 DEF InOrder

(* The words of all parts. *)
LEMMA TakenTypes ==
  ASSUME ParserInv
  PROVE  /\ Words(root) \in Seq(Nat) /\ ListWords(left) \in Seq(Nat) /\ PipeWords(pipe) \in Seq(Nat)
         /\ command.argv_parts \in Seq(Nat) /\ command.redir \in Seq(Nat)
         /\ Taken \in Seq(Nat)
<1>1. /\ Words(root) \in Seq(Nat) /\ ListWords(left) \in Seq(Nat) /\ PipeWords(pipe) \in Seq(Nat)
  BY TreeWords, ListWordsType, PipeWordsType DEF ParserInv, LocalsOK, CommandsOrNull
<1>2. command.argv_parts \in Seq(Nat) /\ command.redir \in Seq(Nat)
  BY DEF ParserInv, LocalsOK
<1>3. Taken \in Seq(Nat)
  BY <1>1, <1>2, JoinWords, Zenon DEF Taken
<1> QED BY <1>1, <1>2, <1>3

(* Where there is nothing there are no words. *)
LEMMA NothingTaken ==
  /\ ListWords(NoNode) = <<>>
  /\ PipeWords(<<>>) = <<>> /\ PipeWords(<<NoNode>>) = <<>>
  /\ no_arguments.argv_parts = <<>> /\ no_arguments.redir = <<>>
<1>1. ListWords(NoNode) = <<>>
  BY TreeWords, NodesDiffer, Zenon DEF Words
<1>2. FlattenSeq(<<>>) = <<>> /\ FlattenSeq(<<<<>>>>) = <<>>
  BY NoWords, FlattenShort, Zenon
<1>3. PipeWords(<<>>) = <<>>
  <2>1. PICK none : none = <<>>
    OBVIOUS
  <2>2. [i \in DOMAIN none |-> CommandWords(none[i])] = <<>>
    BY <2>1
  <2> QED BY <1>2, <2>1, <2>2, Zenon DEF PipeWords
<1>4. PipeWords(<<NoNode>>) = <<>>
  <2>1. PICK one, w : one = <<NoNode>> /\ w = <<>>
    OBVIOUS
  <2>2. DOMAIN one = {1} /\ one[1] = NoNode
    BY <2>1
  <2>3. CommandWords(NoNode) = w
    BY <2>1 DEF CommandWords
  <2>4. [i \in DOMAIN one |-> CommandWords(one[i])] = [i \in {1} |-> w]
    BY <2>2, <2>3
  <2>5. [i \in {1} |-> w] = <<w>>
    OBVIOUS
  <2> QED BY <1>2, <2>1, <2>4, <2>5, Zenon DEF PipeWords
<1> QED BY <1>1, <1>3, <1>4 DEF no_arguments

(* A token is taken off the line. *)
LEMMA TokenTaken ==
  ASSUME ParserInv, WordsInv, at \in ParserPlaces, next_token,
         IF g_tok = "word" THEN Taken' = Append(Taken, Len(line)) ELSE Taken' = Taken
  PROVE  InOrder(Taken', line', Len(line') - 1)
<1>1. /\ line \in Seq(token_type_e) /\ line # <<>>
  BY DEF ParserInv, LocalsOK
<1>2. PICK m, n : m = Len(line) /\ n = m - 1
  OBVIOUS
<1>3. m \in Nat /\ n \in Nat /\ n + 1 = m /\ g_tok = line[n + 1]
  BY <1>1, <1>2 DEF g_tok, Last
<1>4. Len(line') - 1 = n + 1
  BY <1>1, <1>2, <1>3, TokenFollows
<1>5. \A i \in 1 .. n + 1 : line'[i] = line[i]
  BY <1>1, <1>2, <1>3, TokenFollows
<1>6. n + 1 \in 1 .. n + 1 /\ \A i \in 1 .. n : i \in 1 .. n + 1
  BY <1>3
<1>7. InOrder(Taken, line, n)
  BY <1>2 DEF WordsInv
<1>8. CASE g_tok = "word"
  <2>1. PICK words : words = Taken
    OBVIOUS
  <2>2. InOrder(Append(words, n + 1), line', n + 1)
    BY <1>3, <1>5, <1>6, <1>7, <1>8, <2>1, OrderAppend
  <2>3. Taken' = Append(words, n + 1)
    BY <1>2, <1>3, <1>8, <2>1
  <2> QED BY <1>4, <2>2, <2>3
<1>9. CASE g_tok # "word"
  <2>1. PICK words : words = Taken
    OBVIOUS
  <2>2. InOrder(words, line', n + 1)
    BY <1>3, <1>5, <1>6, <1>7, <1>9, <2>1, OrderKept
  <2>3. Taken' = words
    BY <1>9, <2>1
  <2> QED BY <1>4, <2>2, <2>3
<1> QED BY <1>8, <1>9

(* At first no words are taken. *)
LEMMA WordsInit == Init => WordsInv
BY DEF Init, ParserInit, WordsInv, ParserPlaces

(* The words of the pipeline are those of the list that it ends. *)
LEMMA JoinedWords ==
  ASSUME ParserInv, at = "pipeline"
  PROVE  ListWords(joined) = ListWords(left) \o PipeWords(pipe)
<1>1. pipeline \in JobsOrNull /\ pipe # <<>> /\ pipe \in Seq(CommandsOrNull) /\ PipeWords(pipe) \in Seq(Nat)
  BY PipelineIsJob, TakenTypes DEF ParserInv, LocalsOK, PlacesOK, JobsOrNull, CommandsOrNull
<1>2. JobWords(pipeline) = PipeWords(pipe)
  <2>1. CASE Len(pipe) = 1
    <3>1. PICK c : c = pipe[1]
      OBVIOUS
    <3>2. pipe = <<c>> /\ c \in CommandsOrNull
      BY <1>1, <2>1, <3>1
    <3>3. ~IsPipeline(c)
      BY <3>2, NodesDiffer DEF CommandsOrNull
    <3>4. PipeWords(Append(<<>>, c)) = PipeWords(<<>>) \o CommandWords(c)
      <4>1. <<>> \in Seq(CommandsOrNull)
        OBVIOUS
      <4> QED BY <3>2, <4>1, PipeWordsAppend
    <3>5. Append(<<>>, c) = pipe
      BY <3>2
    <3>6. PipeWords(pipe) = CommandWords(c)
      BY <3>2, <3>4, <3>5, NothingTaken, NoWords, CommandWordsType, Zenon
    <3> QED BY <2>1, <3>1, <3>3, <3>6, Zenon DEF pipeline, JobWords
  <2>2. CASE Len(pipe) # 1
    <3>1. PICK n : n = pipe_node_t(pipe)
      OBVIOUS
    <3>2. IsPipeline(n) /\ n.nodes = pipe
      BY <3>1 DEF pipe_node_t, IsPipeline
    <3>3. JobWords(n) = PipeWords(pipe)
      BY <3>2, Zenon DEF JobWords, PipeWords
    <3> QED BY <2>2, <3>1, <3>3 DEF pipeline
  <2> QED BY <2>1, <2>2
<1>3. CASE op = "none"
  <2>1. joined = pipeline /\ left = NoNode
    BY <1>3, JoinedIsList DEF joined
  <2>2. ListWords(joined) = PipeWords(pipe)
    BY <1>1, <1>2, <2>1, ListWordsJob
  <2>3. <<>> \o PipeWords(pipe) = PipeWords(pipe)
    BY <1>1, NoWords
  <2> QED BY <2>1, <2>2, <2>3, NothingTaken, Zenon
<1>4. CASE op # "none"
  <2>1. PICK x : x = [op |-> op, job |-> pipeline]
    OBVIOUS
  <2>2. IsList(joined) /\ IsList(left) /\ ListItems(joined) = Append(ListItems(left), x)
    BY <1>4, <2>1, JoinedIsList DEF ParserInv, LocalsOK
  <2>3. ListWords(joined) = ListWords(left) \o JobWords(x.job)
    BY <2>2, ListWordsAppend
  <2>4. x.job = pipeline
    BY <2>1
  <2> QED BY <1>2, <2>3, <2>4, Zenon
<1> QED BY <1>3, <1>4

(* A token that is read is taken, if it is a word. *)
LEMMA TokenWords ==
  ASSUME ParserInv, WordsInv,
         \/ ParseArgument \/ ParseDescriptor \/ ParseOperator \/ ParseTarget
         \/ ParsePipe \/ ParseAndOr \/ ParseSeparator
  PROVE  WordsInv'
<1> USE DEF Goto
<1>1. /\ at \in ParserPlaces /\ at' \in ParserPlaces /\ at' \notin {"pipeline", "conditional", "parsed"} /\ next_token
      /\ UNCHANGED <<root, left, pipe>>
  BY DEF ParseArgument, ParseDescriptor, ParseOperator, ParseTarget, ParsePipe, ParseAndOr, ParseSeparator, separator, ParserPlaces
<1>2. IF g_tok = "word" THEN Taken' = Append(Taken, Len(line)) ELSE Taken' = Taken
  <2>1. PICK before : before = (Words(root) \o ListWords(left)) \o PipeWords(pipe)
    OBVIOUS
  <2>2. before = ((Words(root) \o ListWords(left)) \o PipeWords(pipe))'
    BY <1>1, <2>1
  <2>3. before \in Seq(Nat) /\ Len(line) \in Nat
    <3>1. before \in Seq(Nat)
      BY <2>1, TakenTypes, JoinWords, Zenon
    <3>2. line \in Seq(token_type_e)
      BY DEF ParserInv, LocalsOK
    <3>3. Len(line) \in Nat
      BY <3>2
    <3> QED BY <3>1, <3>3
  <2>4. Taken = before \o (command.argv_parts \o command.redir)
    BY <2>1, Zenon DEF Taken
  <2>5. Taken' = before \o (command'.argv_parts \o command'.redir)
    BY <2>2, Zenon DEF Taken
  <2>6. PICK a, r, k : a = command.argv_parts /\ r = command.redir /\ k = Len(line)
    OBVIOUS
  <2>7. a \in Seq(Nat) /\ r \in Seq(Nat) /\ k \in Nat
    BY <2>3, <2>6, TakenTypes
  <2>8. command = [argv_parts |-> a, redir |-> r]
    BY <2>6 DEF ParserInv, LocalsOK
  <2>9. CASE ParseArgument
    <3>1. r = <<>>
      BY <2>6, <2>9 DEF ParserInv, PlacesOK, InCommand, ParseArgument, no_arguments
    <3>2. command'.argv_parts = Append(a, k) /\ command'.redir = r
      BY <2>6, <2>8, <2>9 DEF ParseArgument
    <3>3. a \o r = a /\ Append(a, k) \o r = Append(a, k) /\ before \o Append(a, k) = Append(before \o a, k)
      BY <2>3, <2>7, <3>1, NoWords, JoinWords
    <3>4. g_tok = "word"
      BY <2>9 DEF ParseArgument
    <3> QED BY <2>4, <2>5, <2>6, <3>2, <3>3, <3>4, Zenon
  <2>10. CASE ParseTarget
    <3>1. command'.argv_parts = a /\ command'.redir = Append(r, k)
      BY <2>6, <2>8, <2>10 DEF ParseTarget
    <3>2. a \o Append(r, k) = Append(a \o r, k) /\ a \o r \in Seq(Nat)
      BY <2>7, JoinWords, Zenon
    <3>3. before \o Append(a \o r, k) = Append(before \o (a \o r), k)
      BY <2>3, <2>7, <3>2, JoinWords, Zenon
    <3>4. g_tok = "word"
      BY <2>10 DEF ParseTarget
    <3> QED BY <2>4, <2>5, <2>6, <3>1, <3>2, <3>3, <3>4, Zenon
  <2>11. CASE ParseDescriptor \/ ParseOperator \/ ParsePipe \/ ParseAndOr \/ ParseSeparator
    <3>1. command' = command /\ g_tok # "word"
      BY <2>11 DEF ParseDescriptor, ParseOperator, ParsePipe, ParseAndOr, ParseSeparator, separator
    <3> QED BY <2>4, <2>5, <3>1, Zenon
  <2> QED BY <2>9, <2>10, <2>11
<1>3. InOrder(Taken', line', Len(line') - 1)
  BY <1>1, <1>2, TokenTaken
<1> QED BY <1>1, <1>3 DEF WordsInv

(* What has been taken off the line goes from one part of the tree to another. *)
LEMMA BuiltWords ==
  ASSUME ParserInv, WordsInv, EndCommand \/ NoFirstCommand \/ EndPipeline \/ EndConditional
  PROVE  WordsInv'
<1> USE DEF Goto
<1>1. PICK w, l, p, a, r : /\ w = Words(root) /\ l = ListWords(left) /\ p = PipeWords(pipe)
                           /\ a = command.argv_parts /\ r = command.redir
  OBVIOUS
<1>2. w \in Seq(Nat) /\ l \in Seq(Nat) /\ p \in Seq(Nat) /\ a \in Seq(Nat) /\ r \in Seq(Nat)
  BY <1>1, TakenTypes
<1>3. Taken = ((w \o l) \o p) \o (a \o r)
  BY <1>1, Zenon DEF Taken
<1>4. w \o l \in Seq(Nat) /\ a \o r \in Seq(Nat) /\ (w \o l) \o p \in Seq(Nat) /\ <<>> \in Seq(Nat)
  BY <1>2, JoinWords, NoWords, Zenon
<1>5. Taken' = Taken
  <2>1. CASE EndCommand
    <3>1. /\ root' = root /\ left' = left /\ command' = no_arguments
          /\ pipe' = Append(pipe, cmd_node_t(a, r, is_bg))
      BY <1>1, <2>1 DEF EndCommand
    <3>2. PICK c : c = cmd_node_t(a, r, is_bg)
      OBVIOUS
    <3>3. c \in CommandNodes /\ CommandWords(c) = a \o r
      <4>1. a # <<>>
        BY <1>1, <2>1 DEF EndCommand, ParserInv, PlacesOK, InCommand
      <4>2. PICK b \in BOOLEAN : b = is_bg
        BY DEF is_bg
      <4>3. c = [type |-> "cmd", argv_parts |-> a, redir |-> r, is_bg |-> b]
        BY <3>2, <4>2 DEF cmd_node_t
      <4>4. c \in CommandNodes
        BY <1>2, <4>1, <4>3 DEF CommandNodes
      <4>5. c.argv_parts = a /\ c.redir = r
        BY <4>3
      <4> QED BY <4>4, <4>5, NodesDiffer, Zenon DEF CommandWords
    <3>4. PipeWords(Append(pipe, c)) = p \o (a \o r)
      <4>1. c \in CommandsOrNull /\ pipe \in Seq(CommandsOrNull)
        BY <3>3 DEF CommandsOrNull, ParserInv, LocalsOK
      <4>2. PipeWords(Append(pipe, c)) = PipeWords(pipe) \o CommandWords(c)
        BY <4>1, PipeWordsAppend
      <4> QED BY <1>1, <3>3, <4>2, Zenon
    <3>5. Taken' = ((w \o l) \o (p \o (a \o r))) \o (<<>> \o <<>>)
      <4>1. Words(root)' = w /\ ListWords(left)' = l /\ PipeWords(pipe)' = p \o (a \o r)
        BY <1>1, <3>1, <3>2, <3>4
      <4>2. command.argv_parts' = <<>> /\ command.redir' = <<>>
        BY <3>1, NothingTaken
      <4> QED BY <4>1, <4>2, Zenon DEF Taken
    <3>6. <<>> \o <<>> = <<>> /\ p \o (a \o r) \in Seq(Nat)
      BY <1>2, <1>4, NoWords, JoinWords, Zenon
    <3>7. (w \o l) \o (p \o (a \o r)) = ((w \o l) \o p) \o (a \o r) /\ (w \o l) \o (p \o (a \o r)) \in Seq(Nat)
      <4>1. PICK x, y : x = w \o l /\ y = a \o r
        OBVIOUS
      <4>2. x \in Seq(Nat) /\ y \in Seq(Nat) /\ p \o y \in Seq(Nat)
        BY <1>4, <3>6, <4>1, Zenon
      <4>3. (x \o p) \o y = x \o (p \o y) /\ x \o (p \o y) \in Seq(Nat)
        <5>1. (x \o p) \o y = x \o (p \o y)
          <6>1. x \in Seq(Nat) /\ p \in Seq(Nat) /\ y \in Seq(Nat)
            BY <1>2, <4>2
          <6> QED BY <6>1, JoinWords, Zenon
        <5>2. x \o (p \o y) \in Seq(Nat)
          BY <4>2, JoinWords, Zenon
        <5> QED BY <5>1, <5>2
      <4> QED BY <4>1, <4>3, Zenon
    <3> QED BY <1>3, <3>5, <3>6, <3>7, NoWords, Zenon
  <2>2. CASE NoFirstCommand
    <3>1. UNCHANGED <<root, left, command>> /\ pipe = <<>> /\ pipe' = <<NoNode>>
      BY <2>2 DEF NoFirstCommand
    <3>2. PipeWords(pipe)' = PipeWords(pipe)
      BY <3>1, NothingTaken
    <3> QED BY <3>1, <3>2 DEF Taken
  <2>3. CASE EndPipeline
    <3>1. UNCHANGED <<root, command>> /\ pipe' = <<>> /\ left' = joined /\ at = "pipeline"
      BY <2>3 DEF EndPipeline
    <3>2. ListWords(left)' = l \o p /\ PipeWords(pipe)' = <<>>
      BY <1>1, <3>1, JoinedWords, NothingTaken
    <3>3. Words(root)' = w /\ command.argv_parts' = a /\ command.redir' = r
      BY <1>1, <3>1
    <3>4. Taken' = ((w \o (l \o p)) \o <<>>) \o (a \o r)
      BY <3>2, <3>3, Zenon DEF Taken
    <3>5. w \o (l \o p) = (w \o l) \o p
      BY <1>2, JoinWords, Zenon
    <3>6. ((w \o l) \o p) \o <<>> = (w \o l) \o p
      BY <1>4, NoWords, Zenon
    <3> QED BY <1>3, <3>4, <3>5, <3>6, Zenon
  <2>4. CASE EndConditional
    <3>1. UNCHANGED <<pipe, command>> /\ left' = NoNode /\ root' = [root EXCEPT !.nodes = Append(@, left)]
          /\ at = "conditional"
      BY <2>4 DEF EndConditional
    <3>2. IsTree(root) /\ IsList(left)
      BY <3>1 DEF ParserInv, LocalsOK, PlacesOK, ParserPlaces
    <3>3. Words(root)' = w \o l /\ ListWords(left)' = <<>>
      BY <1>1, <3>1, <3>2, TreeWordsGrow, NothingTaken
    <3>4. PipeWords(pipe)' = p /\ command.argv_parts' = a /\ command.redir' = r
      BY <1>1, <3>1
    <3>5. Taken' = (((w \o l) \o <<>>) \o p) \o (a \o r)
      BY <3>3, <3>4, Zenon DEF Taken
    <3>6. (w \o l) \o <<>> = w \o l
      BY <1>4, NoWords, Zenon
    <3> QED BY <1>3, <3>5, <3>6, Zenon
  <2> QED BY <2>1, <2>2, <2>3, <2>4
<1>6. line' = line /\ at \in ParserPlaces /\ at' \in ParserPlaces
  BY DEF EndCommand, NoFirstCommand, EndPipeline, EndConditional, ParserPlaces
<1>7. InOrder(Taken', line', Len(line') - 1)
  BY <1>5, <1>6 DEF WordsInv
<1>8. at' = "pipeline" /\ pipe' = <<NoNode>> => g_tok' # "word"
  <2>1. g_tok' = g_tok
    BY <1>6 DEF g_tok
  <2>2. CASE EndCommand
    <3>1. pipe' # <<NoNode>>
      <4>1. PICK c : c = cmd_node_t(command.argv_parts, command.redir, is_bg)
        OBVIOUS
      <4>2. pipe' = Append(pipe, c) /\ c # NoNode
        <5>1. c.type = "cmd"
          BY <4>1 DEF cmd_node_t
        <5>2. NoNode.type = "null"
          BY DEF NoNode
        <5> QED BY <2>2, <4>1, <5>1, <5>2 DEF EndCommand
      <4>3. PICK n : n = NoNode
        OBVIOUS
      <4>4. pipe \in Seq(CommandsOrNull)
        BY DEF ParserInv, LocalsOK, CommandsOrNull
      <4>5. Append(pipe, c)[Len(pipe) + 1] = c /\ Len(Append(pipe, c)) = Len(pipe) + 1
        BY <4>4
      <4>6. Len(<<n>>) = 1 /\ <<n>>[1] = n
        OBVIOUS
      <4>7. Append(pipe, c) # <<n>>
        BY <4>2, <4>3, <4>4, <4>5, <4>6
      <4> QED BY <4>2, <4>3, <4>7
    <3> QED BY <3>1
  <2>3. CASE NoFirstCommand
    BY <2>1, <2>3 DEF NoFirstCommand
  <2>4. CASE EndPipeline \/ EndConditional
    BY <2>4 DEF EndPipeline, EndConditional
  <2> QED BY <2>2, <2>3, <2>4
<1>9. at' = "conditional" /\ left' = NoNode => g_tok' # "word"
  <2>1. g_tok' = g_tok
    BY <1>6 DEF g_tok
  <2>2. SUFFICES ASSUME EndPipeline, left' = NoNode PROVE g_tok # "word"
    BY <2>1 DEF EndCommand, NoFirstCommand, EndConditional
  <2>3. joined = NoNode /\ at = "pipeline" /\ pipe # <<>>
    BY <2>2 DEF EndPipeline, ParserInv, PlacesOK
  <2>4. op = "none" /\ pipeline = NoNode
    <3>1. cond_node_t(left, op, pipeline) # NoNode
      BY NodesDiffer DEF cond_node_t, IsConditional
    <3> QED BY <2>3, <3>1, Zenon DEF joined
  <2>5. Len(pipe) = 1 /\ pipe[1] = NoNode
    <3>1. pipe_node_t(pipe) # NoNode
      <4>1. pipe_node_t(pipe).type = "pipeline" /\ NoNode.type = "null"
        BY DEF pipe_node_t, NoNode
      <4> QED BY <4>1
    <3> QED BY <2>4, <3>1, Zenon DEF pipeline
  <2>6. PICK n : n = NoNode
    OBVIOUS
  <2>7. pipe = <<n>>
    <3>1. pipe \in Seq(CommandsOrNull)
      BY DEF ParserInv, LocalsOK, CommandsOrNull
    <3> QED BY <2>5, <2>6, <3>1
  <2> QED BY <2>3, <2>6, <2>7 DEF WordsInv
<1> QED BY <1>6, <1>7, <1>8, <1>9 DEF WordsInv, ParserPlaces

(* Only the tree is left when a line has been parsed. *)
LEMMA OnlyTheTree ==
  ASSUME ParserInv, left = NoNode, pipe = <<>>, command = no_arguments
  PROVE  Taken = Words(root)
<1>1. PICK w : w = Words(root) /\ w \in Seq(Nat)
  BY TakenTypes
<1>2. Taken = ((w \o <<>>) \o <<>>) \o (<<>> \o <<>>)
  BY <1>1, NothingTaken, Zenon DEF Taken
<1>3. w \o <<>> = w /\ <<>> \o <<>> = <<>>
  BY <1>1, NoWords
<1> QED BY <1>1, <1>2, <1>3, Zenon

(* At the end of the line all words are in the tree. *)
LEMMA WordsParsed ==
  ASSUME ParserInv, WordsInv, EndOfCommands \/ EndOfSeparators
  PROVE  WordsInv'
<1> USE DEF Goto
<1>1. /\ UNCHANGED <<line, command, pipe, left, op, root>> /\ at \in ParserPlaces
      /\ left = NoNode /\ pipe = <<>> /\ command = no_arguments
      /\ at' \in {"parsed", "command"} /\ (at' = "parsed" => g_tok # "word")
  BY DEF EndOfCommands, NothingParsed, EndOfSeparators, ParserInv, PlacesOK, InCommand, BetweenLines,
         ParserPlaces, WordsInv
<1>2. InOrder(Taken', line', Len(line') - 1)
  <2>1. Taken' = Taken
    BY <1>1 DEF Taken
  <2> QED BY <1>1, <2>1 DEF WordsInv
<1>3. ASSUME at' = "parsed" PROVE InOrder(Words(root)', line', Len(line'))
  <2>1. PICK m, n : m = Len(line) /\ n = m - 1
    OBVIOUS
  <2>2. m \in Nat /\ n \in Nat /\ n + 1 = m /\ g_tok = line[n + 1]
    <3>1. line \in Seq(token_type_e) /\ line # <<>>
      BY <1>1 DEF ParserInv, LocalsOK
    <3> QED BY <2>1, <3>1 DEF g_tok, Last
  <2>3. PICK w : w = Words(root)
    OBVIOUS
  <2>4. InOrder(w, line, n)
    <3>1. Taken = Words(root)
      BY <1>1, OnlyTheTree
    <3> QED BY <1>1, <2>1, <2>3, <3>1 DEF WordsInv
  <2>5. InOrder(w, line, n + 1)
    BY <1>1, <1>3, <2>2, <2>4, OrderKept
  <2> QED BY <1>1, <2>1, <2>2, <2>3, <2>5
<1> QED BY <1>1, <1>2, <1>3 DEF WordsInv

(* At the beginning of a line none are taken. *)
LEMMA WordsStart ==
  ASSUME ParserInv, WordsInv, EmptyLine \/ StartLine
  PROVE  WordsInv'
<1> USE DEF Goto
<1>1. at = "prompt" /\ UNCHANGED <<command, pipe, left, op>> /\ left = NoNode /\ pipe = <<>> /\ command = no_arguments
      /\ root = NoNode
  BY DEF EmptyLine, StartLine, ParserInv, PlacesOK, InCommand, BetweenLines
<1>2. CASE EmptyLine
  <2>1. line' = <<"eof">> /\ at' = "parsed" /\ root' = NoNode
    BY <1>1, <1>2 DEF EmptyLine
  <2>2. Words(NoNode) = <<>>
    BY TreeWords
  <2>3. InOrder(<<>>, <<"eof">>, Len(<<"eof">>))
    <3>1. PICK s, w : s = <<"eof">> /\ w = <<>>
      OBVIOUS
    <3>2. Len(s) = 1 /\ s[1] = "eof" /\ w \in Seq(Nat) /\ DOMAIN w = {} /\ "eof" # "word"
      BY <3>1
    <3>3. Range(w) = {} /\ {i \in 1 .. 1 : s[i] = "word"} = {}
      BY <3>2 DEF Range
    <3>4. InOrder(w, s, 1)
      BY <3>2, <3>3 DEF InOrder
    <3> QED BY <3>1, <3>2, <3>4
  <2> QED BY <2>1, <2>2, <2>3 DEF WordsInv, ParserPlaces
<1>3. CASE StartLine
  <2>1. PICK tree : tree = seq_node_t(<<>>)
    OBVIOUS
  <2>2. Words(tree) = <<>>
    <3>1. IsSequence(tree) /\ tree.nodes = <<>>
      BY <2>1 DEF seq_node_t, IsSequence
    <3>2. PICK none : none = <<>>
      OBVIOUS
    <3>3. [i \in DOMAIN none |-> ListWords(none[i])] = <<>>
      BY <3>2
    <3>4. FlattenSeq(<<>>) = <<>>
      BY NoWords, FlattenShort, Zenon
    <3> QED BY <3>1, <3>2, <3>3, <3>4, Zenon DEF Words
  <2>3. /\ root' = tree /\ left' = NoNode /\ pipe' = <<>> /\ command' = no_arguments /\ at' = "command"
        /\ Len(line') = 1
    <3>1. Len(line) = 0 /\ line \in Seq(token_type_e)
      BY <1>1 DEF ParserInv, LocalsOK
    <3>2. Len(line') = 1
      BY <1>3, <3>1, TokenFollows DEF StartLine
    <3> QED BY <1>1, <1>3, <2>1, <3>2 DEF StartLine
  <2>4. Taken' = ((<<>> \o <<>>) \o <<>>) \o (<<>> \o <<>>)
    <3>1. Words(root)' = <<>> /\ ListWords(left)' = <<>> /\ PipeWords(pipe)' = <<>>
          /\ command.argv_parts' = <<>> /\ command.redir' = <<>>
      BY <2>2, <2>3, NothingTaken
    <3> QED BY <3>1, Zenon DEF Taken
  <2>5. <<>> \o <<>> = <<>>
    OBVIOUS
  <2>6. Taken' = <<>>
    BY <2>4, <2>5
  <2>7. InOrder(Taken', line', Len(line') - 1)
    <3>1. PICK w : w = <<>>
      OBVIOUS
    <3>2. w \in Seq(Nat) /\ DOMAIN w = {} /\ Range(w) = {} /\ {i \in 1 .. 0 : line'[i] = "word"} = {}
      BY <3>1 DEF Range
    <3>3. InOrder(w, line', 0)
      BY <3>2 DEF InOrder
    <3> QED BY <2>3, <2>6, <3>1, <3>3
  <2> QED BY <2>3, <2>7 DEF WordsInv
<1> QED BY <1>2, <1>3

(* What is known of the words is inductive. *)
LEMMA WordsNext ==
  ASSUME ParserInv, WordsInv, [Next]_vars
  PROVE  WordsInv'
<1> USE DEF Goto
<1>1. CASE TypeLine
  BY <1>1, WordsStart DEF TypeLine
<1>2. CASE ParserStep
  <2>1. CASE MissingTarget \/ NoLaterCommand
    BY <2>1 DEF MissingTarget, NoLaterCommand, WordsInv, ParserPlaces
  <2> QED BY <1>2, <2>1, TokenWords, BuiltWords, WordsParsed DEF ParserStep
<1>3. CASE ExecutionStep
  <2>1. at' \notin ParserPlaces \cup {"parsed"}
    BY <1>3 DEF ExecutionStep, ExecuteLine, FinishLine, Unusable, NextOfSequence, EndOfSequence, LeftOfConditional,
                RightOfConditional, EndOfConditional, RunBuiltin, RunBackground, RunForeground, RunsJob, NoName,
                Usable, Executing, parser_vars, ParserPlaces
  <2> QED BY <2>1 DEF WordsInv, ParserPlaces
<1>4. CASE UNCHANGED vars
  <2>1. UNCHANGED <<line, at, command, pipe, left, op, root>>
    BY <1>4 DEF vars, parser_vars
  <2>2. Taken' = Taken /\ g_tok' = g_tok
    BY <2>1 DEF Taken, g_tok
  <2> QED BY <2>1, <2>2 DEF WordsInv
<1> QED BY <1>1, <1>2, <1>3, <1>4 DEF Next, LineStep

(* The parser neither loses nor repeats nor moves a word, whatever the     *)
(* line (parse_command, parse_pipeline, parse_cond_node,                   *)
(* parser_create_ast).                                                     *)
THEOREM WordsStayInOrder == Spec => []WordsInOrder
<1>1. Init => ParserInv /\ WordsInv
  BY ParserInvInit, WordsInit
<1>2. ParserInv /\ WordsInv /\ [Next]_vars => ParserInv' /\ WordsInv'
  BY ParserInvNext, WordsNext
<1>3. ParserInv /\ WordsInv => WordsInOrder
  <2> SUFFICES ASSUME ParserInv, WordsInv, at = "parsed"
               PROVE  /\ Range(Words(root)) = {i \in DOMAIN line : line[i] = "word"}
                      /\ \A i, j \in DOMAIN Words(root) : i < j => Words(root)[i] < Words(root)[j]
    BY Zenon DEF WordsInOrder
  <2>1. DOMAIN line = 1 .. Len(line)
    BY DEF ParserInv, LocalsOK
  <2> QED BY <2>1 DEF WordsInv, InOrder
<1> QED BY <1>1, <1>2, <1>3, PTL DEF Spec

-----------------------------------------------------------------------------
(* Background jobs *)

(* The items of the lists of a line. *)
LinesItems(nodes) == FlattenSeq([i \in DOMAIN nodes |-> ListItems(nodes[i])])

(* The items of the lists of a line are items. *)
LEMMA LinesItemsType ==
  ASSUME NEW S, \A n \in S : IsList(n), NEW nodes \in Seq(S)
  PROVE  /\ LinesItems(nodes) \in Seq(ListItem)
         /\ [i \in DOMAIN nodes |-> ListItems(nodes[i])] \in Seq(Seq(ListItem))
<1> DEFINE W == Seq(ListItem)
<1>1. ASSUME NEW i \in DOMAIN nodes PROVE ListItems(nodes[i]) \in W
  <2>1. nodes[i] \in S
    OBVIOUS
  <2> QED BY <2>1 DEF IsList
<1> HIDE DEF W
<1>2. [i \in DOMAIN nodes |-> ListItems(nodes[i])] \in Seq(W)
  <2>1. DOMAIN nodes = 1 .. Len(nodes) /\ Len(nodes) \in Nat
    OBVIOUS
  <2> QED BY <1>1, <2>1
<1>3. [i \in DOMAIN nodes |-> ListItems(nodes[i])] \in Seq(Seq(ListItem))
  BY <1>2 DEF W
<1> QED BY <1>3, FlattenType, Zenon DEF LinesItems

(* The items of one list more. *)
LEMMA LinesItemsAppend ==
  ASSUME NEW S, \A m \in S : IsList(m), NEW nodes \in Seq(S), NEW n \in S
  PROVE  LinesItems(Append(nodes, n)) = LinesItems(nodes) \o ListItems(n)
<1> DEFINE W == Seq(ListItem)
<1>1. PICK more, w : more = Append(nodes, n) /\ w = ListItems(n)
  OBVIOUS
<1>2. /\ more \in Seq(S)
      /\ DOMAIN more = 1 .. Len(nodes) + 1 /\ Len(nodes) \in Nat /\ DOMAIN nodes = 1 .. Len(nodes)
      /\ \A i \in 1 .. Len(nodes) : more[i] = nodes[i]
      /\ more[Len(nodes) + 1] = n
  BY <1>1
<1>3. PICK items, longer : /\ items = [i \in DOMAIN nodes |-> ListItems(nodes[i])]
                           /\ longer = [i \in DOMAIN more |-> ListItems(more[i])]
  OBVIOUS
<1>4. w \in W /\ items \in Seq(W) /\ longer \in Seq(W)
  <2>1. w \in W
    BY <1>1 DEF IsList
  <2> QED BY <1>1, <1>2, <1>3, <2>1, LinesItemsType
<1> HIDE DEF W
<1>5. longer = Append(items, w)
  <2>1. /\ Len(items) = Len(nodes) /\ Len(longer) = Len(items) + 1
        /\ \A i \in 1 .. Len(items) : longer[i] = items[i]
        /\ longer[Len(items) + 1] = w
    BY <1>1, <1>2, <1>3, <1>4
  <2> QED BY <1>4, <2>1, IsAppend
<1>6. FlattenSeq(longer) = FlattenSeq(items) \o w
  BY <1>4, <1>5, FlattenAppend, Zenon DEF W
<1> QED BY <1>1, <1>3, <1>6, Zenon DEF LinesItems

(* The items of a tree are those of its lists. *)
LEMMA TreeItems ==
  ASSUME NEW tree, tree = NoNode \/ IsTree(tree)
  PROVE  /\ Items(tree) \in Seq(ListItem)
         /\ tree = NoNode => Items(tree) = <<FirstItem(NoNode)>>
         /\ tree # NoNode => Items(tree) = LinesItems(tree.nodes)
<1>1. CASE tree = NoNode
  <2>1. ~IsSequence(tree)
    BY <1>1, NodesDiffer
  <2>2. ListItems(NoNode) = <<FirstItem(NoNode)>> /\ IsList(NoNode)
    BY JobIsList
  <2>3. Items(tree) = <<FirstItem(NoNode)>> /\ Items(tree) \in Seq(ListItem)
    BY <1>1, <2>1, <2>2, Zenon DEF Items, IsList
  <2> QED BY <1>1, <2>3
<1>2. CASE IsTree(tree)
  <2>1. IsSequence(tree)
    BY <1>2 DEF IsTree, seq_node_t, IsSequence
  <2>2. tree # NoNode /\ Items(tree) = LinesItems(tree.nodes)
    BY <2>1, NodesDiffer, Zenon DEF Items, LinesItems
  <2>3. PICK nodes : nodes = tree.nodes
    OBVIOUS
  <2>4. nodes \in Seq(Range(nodes)) /\ \A i \in DOMAIN nodes : IsList(nodes[i])
    BY <1>2, <2>3 DEF IsTree
  <2>5. \A n \in Range(nodes) : IsList(n)
    BY <2>4 DEF Range
  <2>6. LinesItems(nodes) \in Seq(ListItem)
    BY <2>4, <2>5, LinesItemsType
  <2> QED BY <2>2, <2>3, <2>6
<1> QED BY <1>1, <1>2

(* A list that is put into the tree adds its items. *)
LEMMA TreeItemsGrow ==
  ASSUME IsTree(root), IsList(left)
  PROVE  Items([root EXCEPT !.nodes = Append(@, left)]) = Items(root) \o ListItems(left)
<1> PICK nodes, n : nodes = root.nodes /\ n = left
  OBVIOUS
<1>1. root = [type |-> "sequence", nodes |-> nodes]
  BY DEF IsTree, seq_node_t
<1>2. PICK tree : tree = [root EXCEPT !.nodes = Append(@, left)]
  OBVIOUS
<1>3. tree.type = "sequence" /\ tree.nodes = Append(nodes, n) /\ root.type = "sequence"
  BY <1>1, <1>2
<1>4. Items(tree) = LinesItems(Append(nodes, n)) /\ Items(root) = LinesItems(nodes)
  <2>1. \A m : IsSequence(m) => Items(m) = LinesItems(m.nodes)
    BY Zenon DEF Items, LinesItems
  <2>2. IsSequence(tree) /\ IsSequence(root)
    BY <1>3 DEF IsSequence
  <2> QED BY <1>3, <2>1, <2>2
<1>5. nodes \in Seq(Range(nodes)) /\ \A i \in DOMAIN nodes : IsList(nodes[i])
  BY DEF IsTree
<1>6. PICK S : S = Range(nodes) \cup {n}
  OBVIOUS
<1>7. nodes \in Seq(S) /\ n \in S /\ \A m \in S : IsList(m)
  BY <1>5, <1>6 DEF Range
<1>8. LinesItems(Append(nodes, n)) = LinesItems(nodes) \o ListItems(n)
  BY <1>7, LinesItemsAppend
<1> QED BY <1>2, <1>4, <1>8, Zenon

(* Words that end somewhere. *)
LEMMA EndsBehind ==
  ASSUME NEW s \in Seq(Nat), NEW t \in Seq(Nat), NEW n, EndsAt(t, n)
  PROVE  EndsAt(s \o t, n)
<1>1. t # <<>> /\ t[Len(t)] = n /\ Len(t) \in Nat /\ Len(t) # 0 /\ Len(s) \in Nat
  BY DEF EndsAt, Last
<1>2. PICK u : u = s \o t
  OBVIOUS
<1>3. Len(u) = Len(s) + Len(t) /\ u[Len(s) + Len(t)] = t[Len(t)] /\ u # <<>>
  BY <1>1, <1>2
<1> QED BY <1>1, <1>2, <1>3 DEF EndsAt, Last

(* Words that end with a word. *)
LEMMA EndsWithItem ==
  ASSUME NEW s \in Seq(Nat), NEW n \in Nat
  PROVE  EndsAt(Append(s, n), n)
<1>1. PICK u : u = Append(s, n)
  OBVIOUS
<1>2. Len(u) = Len(s) + 1 /\ u[Len(s) + 1] = n /\ u # <<>> /\ Len(s) \in Nat
  BY <1>1
<1> QED BY <1>1, <1>2 DEF EndsAt, Last

(* The pipeline is in the background as its last command is. *)
LEMMA PipelineBackground ==
  ASSUME ParserInv, at = "pipeline", pipeline # NoNode
  PROVE  /\ Last(pipe) # NoNode
         /\ InBackground(pipeline) <=> Last(pipe).is_bg = TRUE
         /\ \A n : EndsAt(CommandWords(Last(pipe)), n) => EndsAt(JobWords(pipeline), n)
<1>1. /\ pipe \in Seq(CommandsOrNull) /\ pipe # <<>> /\ OneMissing(pipe)
      /\ Len(pipe) \in Nat /\ Len(pipe) # 0
  BY DEF ParserInv, LocalsOK, PlacesOK, CommandsOrNull
<1>2. PICK last : last = Last(pipe)
  OBVIOUS
<1>3. last = pipe[Len(pipe)] /\ last \in CommandsOrNull
  BY <1>1, <1>2 DEF Last
<1>4. CASE Len(pipe) = 1
  <2>1. pipeline = last
    BY <1>3, <1>4 DEF pipeline
  <2>2. last # NoNode /\ ~IsPipeline(last) /\ last.is_bg \in BOOLEAN
    BY <1>3, <2>1, NodesDiffer DEF CommandsOrNull, CommandNodes
  <2>4. InBackground(last) <=> last.is_bg
    BY <2>2, Zenon DEF InBackground, IsBackground
  <2>3. JobWords(pipeline) = CommandWords(last)
    BY <2>1, <2>2, Zenon DEF JobWords
  <2> QED BY <1>2, <2>1, <2>2, <2>3, <2>4
<1>5. CASE Len(pipe) # 1
  <2>1. PICK n : n = pipeline
    OBVIOUS
  <2>2. n.nodes = pipe /\ IsPipeline(n)
    BY <1>5, <2>1 DEF pipeline, pipe_node_t, IsPipeline
  <2>3. last \in CommandNodes
    <3>1. PICK k : k = Len(pipe)
      OBVIOUS
    <3>2. k \in DOMAIN pipe /\ k # 1 /\ last = pipe[k]
      BY <1>1, <1>3, <1>5, <3>1
    <3> QED BY <1>1, <3>2, Zenon DEF OneMissing
  <2>4. Max({i \in DOMAIN pipe : IsCommand(pipe[i])}) = Len(pipe)
    <3>1. PICK I : I = {i \in DOMAIN pipe : IsCommand(pipe[i])}
      OBVIOUS
    <3>2. Len(pipe) \in I /\ \A i \in I : i <= Len(pipe) /\ i \in Nat
      BY <1>1, <1>3, <2>3, <3>1, NodesDiffer
    <3>3. \A x \in I : (\A y \in I : x >= y) <=> x = Len(pipe)
      BY <1>1, <3>2
    <3>4. Max(I) = CHOOSE x \in I : \A y \in I : x >= y
      BY Zenon DEF Max
    <3>5. \E x \in I : \A y \in I : x >= y
      BY <3>2, <3>3
    <3> QED BY <3>1, <3>3, <3>4, <3>5
  <2>5. InBackground(n) <=> last.is_bg
    <3>1. n # NoNode
      BY <2>1
    <3> QED BY <1>3, <2>2, <2>4, <3>1, Zenon DEF InBackground, IsBackground
  <2>7. last.is_bg \in BOOLEAN
    BY <2>3 DEF CommandNodes
  <2>6. ASSUME NEW k, EndsAt(CommandWords(last), k) PROVE EndsAt(JobWords(n), k)
    <3>1. PICK front \in Seq(CommandsOrNull), e \in CommandsOrNull : pipe = Append(front, e)
      BY <1>1, SequenceEmptyOrAppend
    <3>2. e = last
      <4>1. Append(front, e)[Len(Append(front, e))] = e
        OBVIOUS
      <4> QED BY <1>3, <3>1, <4>1
    <3>3. PipeWords(Append(front, e)) = PipeWords(front) \o CommandWords(e)
      BY PipeWordsAppend
    <3>4. JobWords(n) = PipeWords(front) \o CommandWords(last)
      BY <2>2, <3>1, <3>2, <3>3, Zenon DEF JobWords, PipeWords
    <3> QED BY <1>3, <2>6, <3>4, EndsBehind, PipeWordsType, CommandWordsType
  <2> QED BY <1>2, <2>1, <2>3, <2>5, <2>6, <2>7, NodesDiffer
<1> QED BY <1>4, <1>5

(* What is put behind a sequence is its last. *)
LEMMA LastAppend ==
  ASSUME NEW S, NEW s \in Seq(S), NEW e \in S
  PROVE  Last(Append(s, e)) = e
<1>1. PICK u : u = Append(s, e)
  OBVIOUS
<1>2. Len(u) = Len(s) + 1 /\ u[Len(s) + 1] = e
  BY <1>1
<1> QED BY <1>1, <1>2 DEF Last

(* What is known of & while a command or a pipeline is parsed is           *)
(* inductive,                                                              *)
LEMMA CommandBackgroundNext ==
  ASSUME ParserInv, CommandBackground, [Next]_vars
  PROVE  CommandBackground'
<1> USE DEF Goto
<1>1. CASE at' \notin {"arguments", "redirections", "pipeline"}
  BY <1>1 DEF CommandBackground
<1>2. CASE UNCHANGED parser_vars
  <2>1. UNCHANGED <<line, at, command, pipe>> /\ g_tok' = g_tok
    BY <1>2 DEF parser_vars, g_tok
  <2> QED BY <2>1 DEF CommandBackground
<1>3. CASE ParseArgument \/ ParseDescriptor \/ ParseTarget
  <2>1. next_token /\ at \in ParserPlaces
    BY <1>3 DEF ParseArgument, ParseDescriptor, ParseTarget, ParserPlaces
  <2>2. line \in Seq(token_type_e) /\ line # <<>>
    BY <2>1 DEF ParserInv, LocalsOK
  <2>3. PICK a, r, k : a = command.argv_parts /\ r = command.redir /\ k = Len(line)
    OBVIOUS
  <2>4. /\ a \in Seq(Nat) /\ r \in Seq(Nat) /\ k \in Nat /\ Len(line') - 1 = k
        /\ command = [argv_parts |-> a, redir |-> r]
    <3>1. command \in [argv_parts : Seq(Nat), redir : Seq(Nat)]
      BY DEF ParserInv, LocalsOK
    <3>2. k \in Nat /\ Len(line') = k + 1
      BY <2>1, <2>2, <2>3, TokenFollows
    <3> QED BY <2>3, <3>1, <3>2
  <2>5. CASE ParseArgument
    <3>1. command'.argv_parts = Append(a, k) /\ at' = "arguments"
      BY <2>3, <2>4, <2>5 DEF ParseArgument
    <3> QED BY <2>4, <3>1, EndsWithItem DEF CommandBackground
  <2>6. CASE ParseTarget
    <3>1. command'.argv_parts = a /\ command'.redir = Append(r, k) /\ at' = "redirections"
      BY <2>3, <2>4, <2>6 DEF ParseTarget
    <3>2. EndsAt(a \o Append(r, k), k)
      <4>1. PICK t : t = Append(r, k) /\ t \in Seq(Nat)
        <5>1. Append(r, k) \in Seq(Nat)
          BY <2>4, JoinWords, Zenon
        <5> QED BY <5>1
      <4>2. EndsAt(t, k)
        BY <2>4, <4>1, EndsWithItem
      <4>3. EndsAt(a \o t, k)
        BY <2>4, <4>1, <4>2, EndsBehind
      <4> QED BY <4>1, <4>3
    <3>3. EndsAt(command'.argv_parts \o command'.redir, Len(line') - 1)
      BY <2>4, <3>1, <3>2, Zenon
    <3> QED BY <3>1, <3>3 DEF CommandBackground
  <2>7. CASE ParseDescriptor
    <3>1. g_tok' = "redir" /\ at' = "redirections"
      <4>1. PICK t \in TokensAfter(line) : line' = Append(line, t)
        BY <2>1 DEF next_token
      <4>2. t = "redir"
        BY <2>2, <2>7, <4>1 DEF TokensAfter, g_tok, ParseDescriptor
      <4>3. g_tok' = t
        <5>1. t \in token_type_e
          BY <4>2 DEF token_type_e
        <5> QED BY <2>2, <4>1, <5>1, LastAppend DEF g_tok
      <4> QED BY <2>7, <4>2, <4>3 DEF ParseDescriptor
    <3> QED BY <3>1 DEF CommandBackground
  <2> QED BY <1>3, <2>5, <2>6, <2>7
<1>4. CASE EndCommand
  <2>1. /\ at' = "pipeline" /\ line' = line /\ g_tok' = g_tok
        /\ at \in {"arguments", "redirections"} /\ g_tok # "redir"
    BY <1>4 DEF EndCommand, g_tok
  <2>2. PICK a, r, b : a = command.argv_parts /\ r = command.redir /\ b = is_bg
    OBVIOUS
  <2>3. b = (g_tok = "bg") /\ a \in Seq(Nat) /\ r \in Seq(Nat) /\ a # <<>>
    BY <2>1, <2>2 DEF is_bg, ParserInv, LocalsOK, PlacesOK, InCommand
  <2>4. PICK c : c = [type |-> "cmd", argv_parts |-> a, redir |-> r, is_bg |-> b]
    OBVIOUS
  <2>5. c \in CommandNodes /\ pipe' = Append(pipe, c) /\ c.argv_parts = a /\ c.redir = r /\ c.is_bg = b
    <3>1. b \in BOOLEAN
      BY <2>3
    <3>2. c.argv_parts = a /\ c.redir = r /\ c.is_bg = b
      BY <2>4
    <3>3. c \in CommandNodes
      BY <2>3, <2>4, <3>1 DEF CommandNodes
    <3>4. cmd_node_t(command.argv_parts, command.redir, is_bg) = c
      BY <2>2, <2>4, Zenon DEF cmd_node_t
    <3> QED BY <1>4, <3>2, <3>3, <3>4 DEF EndCommand
  <2>6. Last(pipe') = c
    <3>1. pipe \in Seq(CommandsOrNull) /\ c \in CommandsOrNull
      BY <2>5 DEF ParserInv, LocalsOK, CommandsOrNull
    <3> QED BY <2>5, <3>1, LastAppend
  <2>7. EndsAt(a \o r, Len(line) - 1)
    <3>1. CASE at = "arguments"
      <4>1. r = <<>> /\ EndsAt(a, Len(line) - 1)
        BY <2>2, <3>1 DEF ParserInv, PlacesOK, CommandBackground
      <4>2. a \o r = a
        BY <2>3, <4>1, NoWords
      <4> QED BY <4>1, <4>2
    <3>2. CASE at = "redirections"
      BY <2>1, <2>2, <3>2 DEF CommandBackground
    <3> QED BY <2>1, <3>1, <3>2
  <2>8. CommandWords(c) = a \o r
    BY <2>5, NodesDiffer, Zenon DEF CommandWords
  <2> QED BY <2>1, <2>3, <2>5, <2>6, <2>7, <2>8 DEF CommandBackground
<1>5. CASE NoFirstCommand
  <2>1. at' = "pipeline" /\ pipe' = <<NoNode>>
    BY <1>5 DEF NoFirstCommand
  <2>2. Last(<<NoNode>>) = NoNode
    <3>1. PICK n : n = NoNode
      OBVIOUS
    <3>2. Last(<<n>>) = n
      BY DEF Last
    <3> QED BY <3>1, <3>2
  <2> QED BY <2>1, <2>2 DEF CommandBackground
<1>6. at' \in {"arguments", "redirections", "pipeline"} =>
        \/ ParseArgument \/ ParseDescriptor \/ ParseTarget \/ EndCommand \/ NoFirstCommand
        \/ UNCHANGED parser_vars
  <2>1. SUFFICES ASSUME ~UNCHANGED parser_vars, at' \in {"arguments", "redirections", "pipeline"}
                 PROVE  ParseArgument \/ ParseDescriptor \/ ParseTarget \/ EndCommand \/ NoFirstCommand
    OBVIOUS
  <2>2. CASE TypeLine
    BY <2>1, <2>2 DEF TypeLine, EmptyLine, StartLine
  <2>3. CASE ParserStep
    <3>1. ~(MissingTarget \/ NoLaterCommand \/ ParsePipe \/ EndPipeline \/ ParseAndOr \/ EndConditional \/ EndOfCommands
            \/ ParseSeparator \/ EndOfSeparators \/ ParseOperator)
      BY <2>1 DEF MissingTarget, NoLaterCommand, ParsePipe, EndPipeline, ParseAndOr, EndConditional, EndOfCommands,
                  NothingParsed, ParseSeparator, EndOfSeparators, ParseOperator
    <3> QED BY <2>3, <3>1 DEF ParserStep
  <2>4. CASE ExecutionStep
    BY <2>1, <2>4 DEF ExecutionStep, ExecuteLine, FinishLine, Unusable, NextOfSequence, EndOfSequence, LeftOfConditional,
                RightOfConditional, EndOfConditional, RunBuiltin, RunBackground, RunForeground, RunsJob, NoName
  <2>5. CASE UNCHANGED vars
    BY <2>1, <2>5 DEF vars
  <2> QED BY <2>2, <2>3, <2>4, <2>5 DEF Next, LineStep
<1> QED BY <1>1, <1>2, <1>3, <1>4, <1>5, <1>6

(* NULL is not in the background. *)
LEMMA NothingInBackground ==
  /\ DOMAIN ListItems(NoNode) = {1} /\ ListItems(NoNode)[1].job = NoNode
  /\ ListItems(NoNode) = <<FirstItem(NoNode)>>
<1>1. ListItems(NoNode) = <<FirstItem(NoNode)>>
  BY JobIsList
<1>2. PICK e : e = FirstItem(NoNode)
  OBVIOUS
<1>3. e.job = NoNode
  BY <1>2 DEF FirstItem
<1>4. DOMAIN <<e>> = {1} /\ <<e>>[1] = e
  OBVIOUS
<1> QED BY <1>1, <1>2, <1>3, <1>4

(* The mark of a job stays on a line that grows. *)
LEMMA MarkStays ==
  ASSUME NEW l, NEW more, NEW job, MarkedOn(l, job),
         Len(l) \in Nat, Len(more) \in Nat, Len(l) <= Len(more),
         \A i \in 1 .. Len(l) : more[i] = l[i]
  PROVE  MarkedOn(more, job)
<1>1. PICK n \in 0 .. Len(l) - 1 : EndsAt(JobWords(job), n) /\ (InBackground(job) <=> l[n + 1] = "bg")
  BY DEF MarkedOn
<1>2. n \in 0 .. Len(more) - 1 /\ n + 1 \in 1 .. Len(l)
  BY <1>1
<1>3. more[n + 1] = l[n + 1]
  BY <1>2
<1> QED BY <1>1, <1>2, <1>3, Zenon DEF MarkedOn

(* The line only grows while it is parsed. *)
LEMMA LineGrows ==
  ASSUME ParserInv, at \in ParserPlaces, UNCHANGED line \/ next_token
  PROVE  /\ Len(line) \in Nat /\ Len(line') \in Nat /\ Len(line) <= Len(line')
         /\ \A i \in 1 .. Len(line) : line'[i] = line[i]
<1>1. line \in Seq(token_type_e) /\ line # <<>>
  BY DEF ParserInv, LocalsOK
<1>2. Len(line) \in Nat
  BY <1>1
<1> QED BY <1>1, <1>2, TokenFollows

(* A pipeline with & ends the line so far. *)
LEMMA PipelineEndsList ==
  ASSUME ParserInv, CommandBackground, ListBackground, EndPipeline
  PROVE  ListBackground'
<1>1. at = "pipeline" /\ at' = "conditional" /\ left' = joined /\ line' = line /\ g_tok' = g_tok
  BY DEF EndPipeline, Goto, g_tok
<1>2. PICK old, items : old = ListItems(left) /\ items = ListItems(joined)
  OBVIOUS
<1>3. old \in Seq(ListItem) /\ items \in Seq(ListItem)
  BY <1>1, <1>2, JoinedIsList DEF ParserInv, LocalsOK, IsList
<1>4. \A i \in DOMAIN old : old[i].job # NoNode => MarkedOn(line, old[i].job) /\ ~InBackground(old[i].job)
  BY <1>1, <1>2 DEF ListBackground
<1>5. Len(items) \in DOMAIN items /\ items[Len(items)].job = pipeline
      /\ \A i \in DOMAIN items : i # Len(items) => i \in DOMAIN old /\ items[i] = old[i]
  <2>1. CASE op = "none"
    <3>1. PICK e : e = FirstItem(joined)
      OBVIOUS
    <3>2. items = <<e>> /\ e.job = pipeline
      BY <1>1, <1>2, <2>1, <3>1, JoinedIsList DEF FirstItem, joined
    <3>3. Len(items) = 1 /\ DOMAIN items = {1} /\ items[1] = e
      BY <3>2
    <3> QED BY <3>2, <3>3
  <2>2. CASE op # "none"
    <3>1. PICK x : x = [op |-> op, job |-> pipeline]
      OBVIOUS
    <3>2. items = Append(old, x) /\ x.job = pipeline
      BY <1>1, <1>2, <2>2, <3>1, JoinedIsList
    <3>3. /\ Len(items) = Len(old) + 1 /\ DOMAIN items = 1 .. Len(items) /\ DOMAIN old = 1 .. Len(old) /\ Len(old) \in Nat
          /\ items[Len(old) + 1] = x
          /\ \A i \in 1 .. Len(old) : items[i] = old[i]
      BY <1>3, <3>2
    <3>4. \A i \in DOMAIN items : i # Len(items) => i \in 1 .. Len(old)
      BY <3>3
    <3> QED BY <3>2, <3>3, <3>4
  <2> QED BY <2>1, <2>2
<1>6. ASSUME NEW i \in DOMAIN items, items[i].job # NoNode
      PROVE  /\ MarkedOn(line, items[i].job)
             /\ InBackground(items[i].job) => i = Len(items) /\ g_tok = "bg"
  <2>1. CASE i # Len(items)
    BY <1>4, <1>5, <1>6, <2>1
  <2>2. CASE i = Len(items)
    <3>1. PICK job : job = pipeline
      OBVIOUS
    <3>2. items[i].job = job /\ job # NoNode
      BY <1>5, <1>6, <2>2, <3>1
    <3>3. /\ Last(pipe) # NoNode
          /\ InBackground(job) <=> Last(pipe).is_bg = TRUE
          /\ \A n : EndsAt(CommandWords(Last(pipe)), n) => EndsAt(JobWords(job), n)
      BY <1>1, <3>1, <3>2, PipelineBackground
    <3>4. Last(pipe).is_bg = (g_tok = "bg") /\ EndsAt(CommandWords(Last(pipe)), Len(line) - 1)
      BY <1>1, <3>3 DEF CommandBackground
    <3>5. InBackground(job) <=> g_tok = "bg"
      BY <3>3, <3>4
    <3>6. PICK m : m = Len(line)
      OBVIOUS
    <3>7. m - 1 \in 0 .. m - 1 /\ line[(m - 1) + 1] = g_tok
      <4>1. line \in Seq(token_type_e) /\ line # <<>>
        BY <1>1 DEF ParserInv, LocalsOK, ParserPlaces
      <4> QED BY <3>6, <4>1 DEF g_tok, Last
    <3>8. EndsAt(JobWords(job), m - 1)
      BY <3>3, <3>4, <3>6
    <3>9. MarkedOn(line, job)
      BY <3>5, <3>6, <3>7, <3>8, Zenon DEF MarkedOn
    <3> QED BY <2>2, <3>2, <3>5, <3>9
  <2> QED BY <2>1, <2>2
<1>7. ListItems(left)' = items
  BY <1>1, <1>2
<1> QED BY <1>1, <1>6, <1>7, Zenon DEF ListBackground

(* what is known of & in the list is inductive, *)
LEMMA ListBackgroundNext ==
  ASSUME ParserInv, CommandBackground, ListBackground, [Next]_vars
  PROVE  ListBackground'
<1> USE DEF Goto
<1>1. CASE left' = NoNode
  BY <1>1, NothingInBackground DEF ListBackground
<1>2. CASE EndPipeline
  BY <1>2, PipelineEndsList
<1>3. CASE UNCHANGED parser_vars
  <2>1. UNCHANGED <<line, at, left>> /\ g_tok' = g_tok
    BY <1>3 DEF parser_vars, g_tok
  <2> QED BY <2>1 DEF ListBackground
<1>4. CASE /\ at \in ParserPlaces /\ left' = left /\ (UNCHANGED line \/ next_token)
           /\ at = "conditional" => g_tok # "bg"
  <2>1. PICK items : items = ListItems(left)
    OBVIOUS
  <2>2. ASSUME NEW i \in DOMAIN items, items[i].job # NoNode
        PROVE  MarkedOn(line', items[i].job) /\ ~InBackground(items[i].job)
    <3>1. MarkedOn(line, items[i].job) /\ ~InBackground(items[i].job)
      BY <1>4, <2>1, <2>2 DEF ListBackground, ParserPlaces
    <3>2. /\ Len(line) \in Nat /\ Len(line') \in Nat /\ Len(line) <= Len(line')
          /\ \A j \in 1 .. Len(line) : line'[j] = line[j]
      BY <1>4, LineGrows
    <3> QED BY <3>1, <3>2, MarkStays
  <2>3. ListItems(left)' = items
    BY <1>4, <2>1
  <2> QED BY <2>2, <2>3, Zenon DEF ListBackground
<1>5. \/ at' = "exit" \/ left' = NoNode \/ EndPipeline \/ UNCHANGED parser_vars
      \/ /\ at \in ParserPlaces /\ left' = left /\ (UNCHANGED line \/ next_token)
         /\ at = "conditional" => g_tok # "bg"
  <2>1. at \in {"prompt", "parsed", "exec_node"} => left = NoNode
    BY DEF ParserInv, PlacesOK, BetweenLines
  <2>2. CASE TypeLine
    BY <2>1, <2>2 DEF TypeLine, EmptyLine, StartLine
  <2>3. CASE ParserStep
    BY <2>3 DEF ParserStep, MissingTarget, NoLaterCommand, ParsePipe, ParseAndOr, EndConditional, EndOfCommands,
                NothingParsed, ParseSeparator, EndOfSeparators, ParseOperator, ParseArgument, ParseDescriptor,
                ParseTarget, EndCommand, NoFirstCommand, ParserPlaces
  <2>4. CASE ExecutionStep
    BY <2>1, <2>4 DEF ExecutionStep, ExecuteLine, FinishLine, Unusable, NextOfSequence, EndOfSequence,
                LeftOfConditional, RightOfConditional, EndOfConditional, RunBuiltin, RunBackground, RunForeground,
                RunsJob, NoName, Usable, Executing
  <2>5. CASE UNCHANGED vars
    BY <2>5 DEF vars
  <2> QED BY <2>2, <2>3, <2>4, <2>5 DEF Next, LineStep
<1>6. CASE at' = "exit"
  BY <1>6 DEF ListBackground
<1> QED BY <1>1, <1>2, <1>3, <1>4, <1>5, <1>6

(* The tree that does not change, on a line that grows. *)
LEMMA TreeSameBackground ==
  ASSUME ParserInv, TreeBackground, at \in ParserPlaces, UNCHANGED root, UNCHANGED line \/ next_token
  PROVE  TreeBackground'
<1>1. PICK items : items = Items(root)
  OBVIOUS
<1>2. /\ Len(line) \in Nat /\ Len(line') \in Nat /\ Len(line) <= Len(line')
      /\ \A i \in 1 .. Len(line) : line'[i] = line[i]
  BY LineGrows
<1>3. ASSUME NEW i \in DOMAIN items, items[i].job # NoNode
      PROVE  /\ MarkedOn(line', items[i].job)
             /\ InBackground(items[i].job) /\ i < Len(items) => items[i + 1].op = "none"
  <2>1. /\ MarkedOn(line, items[i].job)
        /\ InBackground(items[i].job) /\ i < Len(items) => items[i + 1].op = "none"
    BY <1>1, <1>3, Zenon DEF TreeBackground
  <2>2. MarkedOn(line', items[i].job)
    BY <1>2, <2>1, MarkStays
  <2> QED BY <2>1, <2>2
<1>4. Items(root)' = items
  BY <1>1
<1> QED BY <1>3, <1>4, Zenon DEF TreeBackground

(* The list whose last job alone may be in the background is put into the  *)
(* tree.                                                                   *)
LEMMA TreeGrowsBackground ==
  ASSUME ParserInv, ListBackground, TreeBackground, EndConditional
  PROVE  TreeBackground'
<1>1. /\ at = "conditional" /\ line' = line /\ IsList(left) /\ IsTree(root)
      /\ root' = [root EXCEPT !.nodes = Append(@, left)]
  BY DEF EndConditional, Goto, ParserInv, LocalsOK, PlacesOK, ParserPlaces
<1>2. PICK old, list, items : old = Items(root) /\ list = ListItems(left) /\ items = old \o list
  OBVIOUS
<1>3. Items(root)' = items
  BY <1>1, <1>2, TreeItemsGrow
<1>4. /\ old \in Seq(ListItem) /\ list \in Seq(ListItem)
      /\ \A i \in DOMAIN list : list[i].op = "none" <=> i = 1
  BY <1>1, <1>2, TreeItems DEF IsList
<1>5. /\ Len(old) \in Nat /\ Len(list) \in Nat /\ Len(items) = Len(old) + Len(list)
      /\ DOMAIN old = 1 .. Len(old) /\ DOMAIN list = 1 .. Len(list) /\ DOMAIN items = 1 .. Len(old) + Len(list)
      /\ \A i \in 1 .. Len(old) : items[i] = old[i]
      /\ \A i \in 1 .. Len(list) : items[Len(old) + i] = list[i]
  BY <1>2, <1>4
<1>6. PICK h : h = Len(old)
  OBVIOUS
<1>7. ASSUME NEW i \in DOMAIN items, items[i].job # NoNode
      PROVE  /\ MarkedOn(line, items[i].job)
             /\ InBackground(items[i].job) /\ i < Len(items) => items[i + 1].op = "none"
  <2>1. CASE i \in 1 .. h
    <3>1. items[i] = old[i] /\ i \in DOMAIN old
      BY <1>5, <1>6, <2>1
    <3>2. /\ MarkedOn(line, items[i].job)
          /\ InBackground(items[i].job) /\ i < Len(old) => old[i + 1].op = "none"
      BY <1>1, <1>2, <1>7, <3>1, Zenon DEF TreeBackground, ParserPlaces
    <3>3. ASSUME InBackground(items[i].job), i < Len(items) PROVE items[i + 1].op = "none"
      <4>1. CASE i < h
        <5>1. i + 1 \in 1 .. Len(old)
          BY <1>5, <1>6, <2>1, <4>1
        <5> QED BY <1>5, <1>6, <3>2, <3>3, <4>1, <5>1
      <4>2. CASE i = h
        <5>1. 1 \in 1 .. Len(list) /\ items[i + 1] = list[1]
          BY <1>5, <1>6, <3>3, <4>2
        <5> QED BY <1>4, <1>5, <5>1
      <4> QED BY <1>5, <1>6, <2>1, <4>1, <4>2
    <3> QED BY <3>2, <3>3
  <2>2. CASE i \notin 1 .. h
    <3>1. PICK j : j = i - h
      OBVIOUS
    <3>2. j \in 1 .. Len(list) /\ items[i] = list[j] /\ i = h + j
      BY <1>5, <1>6, <2>2, <3>1
    <3>3. MarkedOn(line, list[j].job) /\ (InBackground(list[j].job) => j = Len(list))
      BY <1>1, <1>2, <1>5, <1>7, <3>2 DEF ListBackground
    <3>4. j = Len(list) => ~(i < Len(items))
      BY <1>5, <1>6, <3>2
    <3> QED BY <3>2, <3>3, <3>4
  <2> QED BY <2>1, <2>2
<1> QED BY <1>1, <1>3, <1>7, Zenon DEF TreeBackground

(* and so is what is known of & in the tree. *)
LEMMA TreeBackgroundNext ==
  ASSUME ParserInv, ListBackground, TreeBackground, [Next]_vars
  PROVE  TreeBackground'
<1> USE DEF Goto
<1>1. CASE at' \notin ParserPlaces \cup {"parsed"}
  BY <1>1 DEF TreeBackground
<1>2. CASE at \in ParserPlaces /\ UNCHANGED root /\ (UNCHANGED line \/ next_token)
  BY <1>2, TreeSameBackground
<1>3. CASE EndConditional
  BY <1>3, TreeGrowsBackground
<1>4. CASE EmptyLine
  <2>1. root' = NoNode
    BY <1>4 DEF EmptyLine, ParserInv, PlacesOK
  <2>2. Items(NoNode) = ListItems(NoNode)
    BY NodesDiffer, Zenon DEF Items
  <2> QED BY <2>1, <2>2, NothingInBackground DEF TreeBackground
<1>5. CASE StartLine
  <2>1. PICK tree : tree = seq_node_t(<<>>)
    OBVIOUS
  <2>2. Items(tree) = <<>>
    <3>1. IsSequence(tree) /\ tree.nodes = <<>>
      BY <2>1 DEF seq_node_t, IsSequence
    <3>2. PICK none : none = <<>>
      OBVIOUS
    <3>3. [i \in DOMAIN none |-> ListItems(none[i])] = <<>>
      BY <3>2
    <3>4. FlattenSeq(<<>>) = <<>>
      BY NoWords, FlattenShort, Zenon
    <3> QED BY <3>1, <3>2, <3>3, <3>4, Zenon DEF Items
  <2>3. Items(root)' = <<>>
    BY <1>5, <2>1, <2>2 DEF StartLine
  <2>4. DOMAIN <<>> = {}
    OBVIOUS
  <2> QED BY <2>3, <2>4 DEF TreeBackground
<1>6. CASE UNCHANGED parser_vars
  <2>1. UNCHANGED <<line, at, root>>
    BY <1>6 DEF parser_vars
  <2> QED BY <2>1 DEF TreeBackground
<1>7. \/ at' \notin ParserPlaces \cup {"parsed"}
      \/ at \in ParserPlaces /\ UNCHANGED root /\ (UNCHANGED line \/ next_token)
      \/ EndConditional \/ EmptyLine \/ StartLine \/ UNCHANGED parser_vars
  <2>1. CASE TypeLine
    BY <2>1 DEF TypeLine
  <2>2. CASE ParserStep
    BY <2>2 DEF ParserStep, MissingTarget, NoLaterCommand, ParsePipe, EndPipeline, ParseAndOr, EndOfCommands,
                NothingParsed, ParseSeparator, EndOfSeparators, ParseOperator, ParseArgument, ParseDescriptor,
                ParseTarget, EndCommand, NoFirstCommand, ParserPlaces
  <2>3. CASE ExecutionStep
    BY <2>3 DEF ExecutionStep, ExecuteLine, FinishLine, Unusable, NextOfSequence, EndOfSequence, LeftOfConditional,
                RightOfConditional, EndOfConditional, RunBuiltin, RunBackground, RunForeground, RunsJob, NoName,
                ParserPlaces
  <2>4. CASE UNCHANGED vars
    BY <2>4 DEF vars
  <2> QED BY <2>1, <2>2, <2>3, <2>4 DEF Next, LineStep
<1> QED BY <1>1, <1>2, <1>3, <1>4, <1>5, <1>6, <1>7

(* At first nothing is in the background. *)
LEMMA BackgroundInit == Init => BackgroundInv
<1> SUFFICES ASSUME Init PROVE BackgroundInv
  OBVIOUS
<1>1. at = "prompt" /\ left = NoNode
  BY DEF Init, ParserInit, ParserIdle
<1>2. CommandBackground /\ TreeBackground
  BY <1>1 DEF CommandBackground, TreeBackground, ParserPlaces
<1>3. ListBackground
  BY <1>1, NothingInBackground DEF ListBackground
<1> QED BY <1>2, <1>3 DEF BackgroundInv

(* parse_command sets is_bg where & ends the command, and parse_cond_node  *)
(* then ends the list: no && or || follows a background job.               *)
THEOREM BackgroundIsLast == Spec => []BackgroundEndsList
<1>1. Init => ParserInv /\ BackgroundInv
  BY ParserInvInit, BackgroundInit
<1>2. ParserInv /\ BackgroundInv /\ [Next]_vars => ParserInv' /\ BackgroundInv'
  BY ParserInvNext, CommandBackgroundNext, ListBackgroundNext, TreeBackgroundNext DEF BackgroundInv
<1>3. BackgroundInv => BackgroundEndsList
  <2> SUFFICES ASSUME BackgroundInv, at = "parsed", NEW items, items = Items(root),
                      NEW i \in DOMAIN items, items[i].job # NoNode
               PROVE  /\ IsBackground(items[i].job) <=> line[Last(JobWords(items[i].job)) + 1] = "bg"
                      /\ IsBackground(items[i].job) /\ i < Len(items) => items[i + 1].op = "none"
    BY Zenon DEF BackgroundEndsList
  <2>1. PICK job : job = items[i].job
    OBVIOUS
  <2>2. InBackground(job) <=> IsBackground(job)
    BY <2>1, Zenon DEF InBackground
  <2>3. /\ MarkedOn(line, job)
        /\ InBackground(job) /\ i < Len(items) => items[i + 1].op = "none"
    BY <2>1, Zenon DEF BackgroundInv, TreeBackground
  <2>4. InBackground(job) <=> line[Last(JobWords(job)) + 1] = "bg"
    BY <2>3, Zenon DEF MarkedOn, EndsAt
  <2> QED BY <2>1, <2>2, <2>3, <2>4, Zenon
<1> QED BY <1>1, <1>2, <1>3, PTL DEF Spec

-----------------------------------------------------------------------------
(* exec_node implements AndOrLists *)

TodoOf(frames) == FlattenSeq([i \in DOMAIN frames |-> ItemsLeft(frames, i)])

(* Where there is one item more in front. *)
LEMMA IsFront ==
  ASSUME NEW S, NEW s \in Seq(S), NEW e \in S, NEW longer \in Seq(S),
         Len(longer) = Len(s) + 1, longer[1] = e, \A i \in 1 .. Len(s) : longer[i + 1] = s[i]
  PROVE  longer = <<e>> \o s
<1>1. PICK k, t : k = Len(s) /\ t = <<e>> \o s
  OBVIOUS
<1>2. t \in Seq(S) /\ Len(t) = k + 1 /\ t[1] = e /\ k \in Nat /\ \A i \in 1 .. k : t[i + 1] = s[i]
  BY <1>1
<1>3. \A j \in 1 .. k + 1 : longer[j] = t[j]
  <2> TAKE j \in 1 .. k + 1
  <2>1. CASE j = 1
    BY <1>2, <2>1
  <2>2. CASE j # 1
    <3>1. PICK i : i = j - 1
      OBVIOUS
    <3>2. i \in 1 .. k /\ i + 1 = j
      BY <1>2, <2>2, <3>1
    <3> QED BY <1>1, <1>2, <3>2
  <2> QED BY <2>1, <2>2
<1> QED BY <1>1, <1>2, <1>3

(* What is left of a call is a part of a list, or of the line. *)
LEMMA LeftWhenStarted ==
  ASSUME NEW frames, NEW i, frames[i].pc = 0
  PROVE  ItemsLeft(frames, i) = IF IsRight(frames, i) THEN RightItem(frames[i + 1].node) ELSE Items(frames[i].node)
<1>1. PICK n, p : n = frames[i].node /\ p = frames[i].pc
  OBVIOUS
<1>2. p = 0
  BY <1>1
<1>3. ItemsLeft(frames, i) =
       CASE p = 0 /\ IsRight(frames, i)   -> RightItem(frames[i + 1].node)
        [] p = 0 /\ ~IsRight(frames, i)  -> Items(n)
        [] p > 0 /\ IsSequence(n)        -> Items(seq_node_t(SubSeq(n.nodes, p + 1, Len(n.nodes))))
        [] p = 1 /\ IsConditional(n)     -> RightItem(n)
        [] p = 2 /\ IsConditional(n)     -> <<>>
  BY <1>1, Zenon DEF ItemsLeft
<1>4. CASE IsRight(frames, i)
  <2>1. ~(p = 0 /\ ~IsRight(frames, i)) /\ ~(p > 0) /\ ~(p = 1) /\ ~(p = 2)
    BY <1>2, <1>4
  <2> QED BY <1>2, <1>3, <1>4, <2>1
<1>5. CASE ~IsRight(frames, i)
  <2>1. ~(p > 0) /\ ~(p = 1) /\ ~(p = 2)
    BY <1>2
  <2> QED BY <1>1, <1>2, <1>3, <1>5, <2>1
<1> QED BY <1>4, <1>5

(* The lists of the line that have not been called, *)
LEMMA LeftOfLine ==
  ASSUME NEW frames, NEW i, frames[i].pc \in Nat, frames[i].pc # 0, IsSequence(frames[i].node)
  PROVE  ItemsLeft(frames, i) =
           LinesItems(SubSeq(frames[i].node.nodes, frames[i].pc + 1, Len(frames[i].node.nodes)))
<1>1. PICK n, p : n = frames[i].node /\ p = frames[i].pc
  OBVIOUS
<1>2. p \in Nat /\ p # 0 /\ IsSequence(n) /\ ~IsConditional(n) /\ p > 0
  BY <1>1, NodesDiffer
<1>3. ItemsLeft(frames, i) =
       CASE p = 0 /\ IsRight(frames, i)   -> RightItem(frames[i + 1].node)
        [] p = 0 /\ ~IsRight(frames, i)  -> Items(n)
        [] p > 0 /\ IsSequence(n)        -> Items(seq_node_t(SubSeq(n.nodes, p + 1, Len(n.nodes))))
        [] p = 1 /\ IsConditional(n)     -> RightItem(n)
        [] p = 2 /\ IsConditional(n)     -> <<>>
  BY <1>1, Zenon DEF ItemsLeft
<1>4. ItemsLeft(frames, i) = Items(seq_node_t(SubSeq(n.nodes, p + 1, Len(n.nodes))))
  BY <1>2, <1>3
<1>5. PICK rest : rest = SubSeq(n.nodes, p + 1, Len(n.nodes))
  OBVIOUS
<1>6. IsSequence(seq_node_t(rest)) /\ seq_node_t(rest).nodes = rest
  BY DEF seq_node_t, IsSequence
<1>7. Items(seq_node_t(rest)) = LinesItems(rest)
  BY <1>6, Zenon DEF Items, LinesItems
<1> QED BY <1>1, <1>4, <1>5, <1>7, Zenon

(* and the right side of a conditional. *)
LEMMA LeftOfList ==
  ASSUME NEW frames, NEW i, IsConditional(frames[i].node)
  PROVE  /\ frames[i].pc = 1 => ItemsLeft(frames, i) = RightItem(frames[i].node)
         /\ frames[i].pc = 2 => ItemsLeft(frames, i) = <<>>
<1>1. PICK n, p : n = frames[i].node /\ p = frames[i].pc
  OBVIOUS
<1>2. IsConditional(n) /\ ~IsSequence(n)
  BY <1>1, NodesDiffer
<1>3. ItemsLeft(frames, i) =
       CASE p = 0 /\ IsRight(frames, i)   -> RightItem(frames[i + 1].node)
        [] p = 0 /\ ~IsRight(frames, i)  -> Items(n)
        [] p > 0 /\ IsSequence(n)        -> Items(seq_node_t(SubSeq(n.nodes, p + 1, Len(n.nodes))))
        [] p = 1 /\ IsConditional(n)     -> RightItem(n)
        [] p = 2 /\ IsConditional(n)     -> <<>>
  BY <1>1, Zenon DEF ItemsLeft
<1>4. p = 1 => ItemsLeft(frames, i) = RightItem(n)
  BY <1>2, <1>3
<1>5. p = 2 => ItemsLeft(frames, i) = <<>>
  BY <1>2, <1>3
<1> QED BY <1>1, <1>4, <1>5

(* The items of a part of the lists. *)
LEMMA SomeLines ==
  ASSUME NEW tree, IsTree(tree), NEW p \in Nat
  PROVE  /\ LinesItems(SubSeq(tree.nodes, p + 1, Len(tree.nodes))) \in Seq(ListItem)
         /\ p = 0 => SubSeq(tree.nodes, p + 1, Len(tree.nodes)) = tree.nodes
         /\ p = Len(tree.nodes) => LinesItems(SubSeq(tree.nodes, p + 1, Len(tree.nodes))) = <<>>
         /\ p < Len(tree.nodes) =>
              /\ LinesItems(SubSeq(tree.nodes, p + 1, Len(tree.nodes)))
                   = ListItems(tree.nodes[p + 1]) \o LinesItems(SubSeq(tree.nodes, (p + 1) + 1, Len(tree.nodes)))
              /\ IsList(tree.nodes[p + 1])
<1>1. PICK nodes : nodes = tree.nodes
  OBVIOUS
<1>2. nodes \in Seq(Range(nodes)) /\ \A i \in DOMAIN nodes : IsList(nodes[i])
  BY <1>1 DEF IsTree
<1>3. PICK S : S = Range(nodes)
  OBVIOUS
<1>4. nodes \in Seq(S) /\ (\A n \in S : IsList(n)) /\ Len(nodes) \in Nat /\ DOMAIN nodes = 1 .. Len(nodes)
  BY <1>2, <1>3 DEF Range
<1>5. PICK rest : rest = SubSeq(nodes, p + 1, Len(nodes))
  OBVIOUS
<1>6. rest \in Seq(S)
  BY <1>4, <1>5
<1>7. LinesItems(rest) \in Seq(ListItem)
  BY <1>4, <1>6, LinesItemsType
<1>8. p = 0 => rest = nodes
  BY <1>4, <1>5
<1>9. ASSUME p = Len(nodes) PROVE LinesItems(rest) = <<>>
  <2>1. rest = <<>>
    BY <1>4, <1>5, <1>9
  <2>2. PICK none : none = <<>>
    OBVIOUS
  <2>3. [i \in DOMAIN none |-> ListItems(none[i])] = <<>>
    BY <2>2
  <2>4. FlattenSeq(<<>>) = <<>>
    BY NoWords, FlattenShort, Zenon
  <2> QED BY <2>1, <2>2, <2>3, <2>4, Zenon DEF LinesItems
<1>10. ASSUME p < Len(nodes)
       PROVE  LinesItems(rest) = ListItems(nodes[p + 1]) \o LinesItems(SubSeq(nodes, (p + 1) + 1, Len(nodes)))
              /\ IsList(nodes[p + 1])
  <2>1. PICK e, more : e = nodes[p + 1] /\ more = SubSeq(nodes, (p + 1) + 1, Len(nodes))
    OBVIOUS
  <2>2. p + 1 \in 1 .. Len(nodes) /\ e \in S /\ more \in Seq(S)
    BY <1>4, <1>10, <2>1
  <2>3. rest = <<e>> \o more
    <3>1. PICK m, k : m = p + 1 /\ k = Len(nodes)
      OBVIOUS
    <3>2. m \in 1 .. Len(nodes) /\ k \in m .. Len(nodes)
      BY <1>4, <1>10, <3>1
    <3>3. SubSeq(nodes, m, k) = <<nodes[m]>> \o SubSeq(nodes, m + 1, k)
      BY <1>4, <3>2, SubSeqRecursiveFirst, Zenon
    <3> QED BY <1>5, <2>1, <3>1, <3>3, Zenon
  <2>4. PICK w, items, longer : /\ w = ListItems(e)
                                /\ items = [i \in DOMAIN more |-> ListItems(more[i])]
                                /\ longer = [i \in DOMAIN rest |-> ListItems(rest[i])]
    OBVIOUS
  <2> DEFINE W == Seq(ListItem)
  <2>5. w \in W /\ items \in Seq(W) /\ longer \in Seq(W) /\ IsList(e)
    <3>1. w \in W /\ IsList(e)
      BY <1>4, <2>2, <2>4 DEF IsList
    <3> QED BY <1>4, <1>6, <2>2, <2>4, <3>1, LinesItemsType
  <2> HIDE DEF W
  <2>6. longer = <<w>> \o items
    <3>1. /\ DOMAIN rest = 1 .. Len(more) + 1 /\ Len(more) \in Nat /\ DOMAIN more = 1 .. Len(more)
          /\ rest[1] = e /\ \A i \in 1 .. Len(more) : rest[i + 1] = more[i]
      BY <1>6, <2>2, <2>3
    <3>2. /\ Len(longer) = Len(more) + 1 /\ Len(items) = Len(more)
          /\ longer[1] = w /\ \A i \in 1 .. Len(more) : longer[i + 1] = items[i]
      BY <2>4, <2>5, <3>1
    <3> QED BY <2>5, <3>1, <3>2, IsFront
  <2>7. FlattenSeq(longer) = w \o FlattenSeq(items)
    BY <2>5, <2>6, FlattenFront, Zenon DEF W
  <2> QED BY <2>1, <2>4, <2>5, <2>7, Zenon DEF LinesItems
<1> QED BY <1>1, <1>5, <1>7, <1>8, <1>9, <1>10

(* What is left is a part of a list, or of the lists of the line. *)
LEMMA LeftType ==
  ASSUME root = NoNode \/ IsTree(root), NEW frames, FramesOK(frames), NEW i \in DOMAIN frames
  PROVE  ItemsLeft(frames, i) \in Seq(ListItem)
<1>1. /\ frames \in Seq(Range(frames)) /\ Len(frames) \in Nat /\ DOMAIN frames = 1 .. Len(frames)
      /\ i \in 1 .. Len(frames)
  BY DEF FramesOK
<1>2. ASSUME NEW n, IsConditional(n), IsList(n)
      PROVE  RightItem(n) \in Seq(ListItem)
  <2>1. PICK e : e = [op |-> n.op, job |-> n.right]
    OBVIOUS
  <2>2. e \in ListItem
    BY <1>2, <2>1, SplitList DEF ListItem
  <2>3. <<e>> \in Seq(ListItem)
    BY <2>2
  <2> QED BY <2>1, <2>3, Zenon DEF RightItem
<1>3. CASE i = Len(frames)
  <2>1. frames[i].node = root /\ frames[i].pc \in (IF root = NoNode THEN {0} ELSE 0 .. Len(root.nodes)) /\ ~IsRight(frames, i)
    BY <1>1, <1>3 DEF FramesOK, IsRight
  <2>2. CASE frames[i].pc = 0
    <3>1. ItemsLeft(frames, i) = Items(root)
      BY <2>1, <2>2, LeftWhenStarted
    <3> QED BY <3>1, TreeItems
  <2>3. CASE frames[i].pc # 0
    <3>1. IsTree(root) /\ frames[i].pc \in Nat
      BY <2>1, <2>3 DEF IsTree
    <3>2. IsSequence(root)
      BY <3>1 DEF IsTree, seq_node_t, IsSequence
    <3>3. ItemsLeft(frames, i) = LinesItems(SubSeq(root.nodes, frames[i].pc + 1, Len(root.nodes)))
      BY <2>1, <2>3, <3>1, <3>2, LeftOfLine
    <3> QED BY <3>1, <3>3, SomeLines
  <2> QED BY <2>2, <2>3
<1>4. CASE i # Len(frames)
  <2>1. i < Len(frames) /\ i + 1 \in DOMAIN frames
    BY <1>1, <1>4
  <2>2. /\ IsList(frames[i].node)
        /\ frames[i].pc \in (IF IsConditional(frames[i].node) THEN 0 .. 2 ELSE {0})
    BY <2>1 DEF FramesOK
  <2>3. CASE frames[i].pc = 0
    <3>1. CASE IsRight(frames, i)
      <4>1. i + 1 # Len(frames)
        <5> SUFFICES ASSUME i + 1 = Len(frames) PROVE FALSE
          OBVIOUS
        <5>1. frames[i + 1].node = root
          BY <2>1 DEF FramesOK
        <5>2. IsConditional(root)
          BY <3>1, <5>1 DEF IsRight
        <5>3. IsTree(root) => ~IsConditional(root)
          BY DEF IsTree, seq_node_t, IsConditional
        <5> QED BY <5>2, <5>3, NodesDiffer
      <4>2. i + 1 < Len(frames)
        BY <1>1, <2>1, <4>1
      <4>3. IsList(frames[i + 1].node) /\ IsConditional(frames[i + 1].node)
        BY <2>1, <3>1, <4>2 DEF FramesOK, IsRight
      <4>4. RightItem(frames[i + 1].node) \in Seq(ListItem)
        BY <1>2, <4>3
      <4> QED BY <2>3, <3>1, <4>4, LeftWhenStarted
    <3>2. CASE ~IsRight(frames, i)
      <4>1. ItemsLeft(frames, i) = Items(frames[i].node)
        BY <2>3, <3>2, LeftWhenStarted
      <4>2. ~IsSequence(frames[i].node)
        BY <2>2, ListNotSequence
      <4>3. Items(frames[i].node) = ListItems(frames[i].node)
        BY <4>2, Zenon DEF Items
      <4> QED BY <2>2, <4>1, <4>3 DEF IsList
    <3> QED BY <3>1, <3>2
  <2>4. CASE frames[i].pc # 0
    <3>1. IsConditional(frames[i].node) /\ frames[i].pc \in {1, 2}
      BY <2>2, <2>4
    <3>2. RightItem(frames[i].node) \in Seq(ListItem) /\ <<>> \in Seq(ListItem)
      BY <1>2, <2>2, <3>1
    <3> QED BY <3>1, <3>2, LeftOfList
  <2> QED BY <2>3, <2>4
<1> QED BY <1>3, <1>4

(* What the callers have left does not depend on the call. *)
LEMMA LeftOfCallers ==
  ASSUME root = NoNode \/ IsTree(root),
         NEW S, NEW frames \in Seq(S), frames # <<>>, NEW rest, rest = Tail(frames), FramesOK(rest), NEW i \in DOMAIN rest
  PROVE  ItemsLeft(rest, i) = ItemsLeft(frames, i + 1)
<1>1. /\ Len(frames) \in Nat /\ Len(rest) = Len(frames) - 1 /\ DOMAIN rest = 1 .. Len(rest)
      /\ \A j \in 1 .. Len(rest) : rest[j] = frames[j + 1]
  BY HeadTailProperties
<1>2. rest[i] = frames[i + 1] /\ (i < Len(rest) <=> i + 1 < Len(frames)) /\ (i < Len(rest) => rest[i + 1] = frames[(i + 1) + 1])
  BY <1>1
<1>3. PICK f : f = rest[i]
  OBVIOUS
<1>4. CASE f.pc = 0
  <2>1. /\ ItemsLeft(rest, i) = IF IsRight(rest, i) THEN RightItem(rest[i + 1].node) ELSE Items(f.node)
        /\ ItemsLeft(frames, i + 1) = IF IsRight(frames, i + 1) THEN RightItem(frames[(i + 1) + 1].node) ELSE Items(f.node)
    <3>1. rest[i].pc = 0 /\ frames[i + 1].pc = 0 /\ rest[i].node = f.node /\ frames[i + 1].node = f.node
      BY <1>2, <1>3, <1>4
    <3> QED BY <3>1, LeftWhenStarted, Zenon
  <2>2. IsRight(rest, i) <=> IsRight(frames, i + 1)
    BY <1>2 DEF IsRight
  <2>3. IsRight(rest, i) => rest[i + 1] = frames[(i + 1) + 1]
    BY <1>2 DEF IsRight
  <2> QED BY <2>1, <2>2, <2>3
<1>5. CASE f.pc # 0 /\ i = Len(rest)
  <2>1. f.node = root /\ f.pc \in IF root = NoNode THEN {0} ELSE 0 .. Len(root.nodes)
    BY <1>3, <1>5 DEF FramesOK
  <2>2. IsTree(root) /\ f.pc \in Nat
    BY <1>5, <2>1 DEF IsTree
  <2>3. IsSequence(f.node) /\ f.pc \in Nat /\ f.pc # 0
    BY <1>5, <2>1, <2>2 DEF IsTree, seq_node_t, IsSequence
  <2>4. rest[i].node = f.node /\ rest[i].pc = f.pc /\ frames[i + 1].node = f.node /\ frames[i + 1].pc = f.pc
    BY <1>2, <1>3
  <2>5. /\ ItemsLeft(rest, i) = LinesItems(SubSeq(f.node.nodes, f.pc + 1, Len(f.node.nodes)))
        /\ ItemsLeft(frames, i + 1) = LinesItems(SubSeq(f.node.nodes, f.pc + 1, Len(f.node.nodes)))
    BY <2>3, <2>4, LeftOfLine, Zenon
  <2> QED BY <2>5
<1>6. CASE f.pc # 0 /\ i # Len(rest)
  <2>1. i < Len(rest)
    BY <1>1, <1>6
  <2>2. f.pc \in IF IsConditional(f.node) THEN 0 .. 2 ELSE {0}
    BY <1>3, <2>1 DEF FramesOK
  <2>3. IsConditional(f.node) /\ f.pc \in {1, 2}
    BY <1>6, <2>2
  <2>4. rest[i].node = f.node /\ rest[i].pc = f.pc /\ frames[i + 1].node = f.node /\ frames[i + 1].pc = f.pc
    BY <1>2, <1>3
  <2> QED BY <2>3, <2>4, LeftOfList
<1> QED BY <1>4, <1>5, <1>6

(* What is left: of the innermost call, and of its callers. *)
LEMMA LeftOfCalls ==
  ASSUME root = NoNode \/ IsTree(root), NEW frames, FramesOK(frames), frames # <<>>,
         NEW rest, rest = Tail(frames), FramesOK(rest)
  PROVE  /\ TodoOf(frames) = ItemsLeft(frames, 1) \o TodoOf(rest)
         /\ ItemsLeft(frames, 1) \in Seq(ListItem) /\ TodoOf(rest) \in Seq(ListItem)
<1> DEFINE W == Seq(ListItem)
<1>1. frames \in Seq(Range(frames)) /\ rest \in Seq(Range(rest))
  BY DEF FramesOK
<1>2. /\ Len(frames) \in Nat /\ Len(frames) # 0 /\ Len(rest) = Len(frames) - 1
      /\ DOMAIN rest = 1 .. Len(rest) /\ DOMAIN frames = 1 .. Len(frames)
  BY <1>1, HeadTailProperties
<1>3. PICK w, left_, more : /\ w = ItemsLeft(frames, 1)
                            /\ left_ = [i \in DOMAIN rest |-> ItemsLeft(rest, i)]
                            /\ more = [i \in DOMAIN frames |-> ItemsLeft(frames, i)]
  OBVIOUS
<1>4. /\ \A i \in DOMAIN rest : ItemsLeft(rest, i) \in W
      /\ \A i \in DOMAIN frames : ItemsLeft(frames, i) \in W
  BY LeftType
<1> HIDE DEF W
<1>5. w \in W /\ left_ \in Seq(W) /\ more \in Seq(W)
  BY <1>2, <1>3, <1>4
<1>6. /\ Len(more) = Len(left_) + 1 /\ more[1] = w /\ Len(left_) \in Nat
      /\ \A i \in 1 .. Len(left_) : more[i + 1] = left_[i]
  <2>1. Len(more) = Len(frames) /\ Len(left_) = Len(rest)
    BY <1>2, <1>3, <1>5
  <2>2. \A i \in DOMAIN rest : ItemsLeft(rest, i) = ItemsLeft(frames, i + 1)
    BY <1>1, LeftOfCallers
  <2>3. more[1] = w
    BY <1>2, <1>3
  <2>4. ASSUME NEW i \in 1 .. Len(left_) PROVE more[i + 1] = left_[i]
    <3>1. i \in DOMAIN rest /\ i + 1 \in DOMAIN frames
      BY <1>2, <2>1
    <3> QED BY <1>3, <2>2, <3>1
  <2> QED BY <1>2, <2>1, <2>3, <2>4
<1>7. more = <<w>> \o left_
  BY <1>5, <1>6, IsFront
<1>8. FlattenSeq(more) = w \o FlattenSeq(left_)
  BY <1>5, <1>7, FlattenFront, Zenon DEF W
<1>9. FlattenSeq(left_) \in Seq(ListItem)
  BY <1>5, FlattenType, Zenon DEF W
<1> QED BY <1>3, <1>5, <1>8, <1>9, Zenon DEF TodoOf, W

(* What is left is what is left of the calls on the stack, *)
LEMMA TodoOfStack == Todo = TodoOf(stack) /\ Todo' = TodoOf(stack')
BY DEF Todo, TodoOf, ItemsLeft

(* and nothing without one. *)
LEMMA NoCalls == TodoOf(<<>>) = <<>>
<1>1. PICK none : none = <<>>
  OBVIOUS
<1>2. [i \in DOMAIN none |-> ItemsLeft(none, i)] = <<>>
  BY <1>1
<1>3. FlattenSeq(<<>>) = <<>>
  BY NoWords, FlattenShort, Zenon
<1> QED BY <1>1, <1>2, <1>3, Zenon DEF TodoOf

(* What is left before a step of exec_node, *)
LEMMA LeftBefore ==
  ASSUME ParserInv, StackInv, Executing
  PROVE  /\ Todo = ItemsLeft(stack, 1) \o TodoOf(Tail(stack))
         /\ ItemsLeft(stack, 1) \in Seq(ListItem) /\ TodoOf(Tail(stack)) \in Seq(ListItem)
<1>1. FramesOK(stack) /\ stack # <<>> /\ (root = NoNode \/ IsTree(root))
  BY DEF StackInv, Executing, ParserInv, LocalsOK
<1>2. FramesOK(Tail(stack))
  BY <1>1, PopFrame
<1> QED BY <1>1, <1>2, LeftOfCalls, TodoOfStack

(* and after a call: what the call is for, and what its caller has left. *)
LEMMA LeftAfterCall ==
  ASSUME ParserInv, StackInv, StackInv', Executing, UNCHANGED parser_vars, NEW p \in Nat \ {0}, NEW n, CallFrom(p, n)
  PROVE  \E front \in Seq(ListItem), more \in Seq(ListItem) :
           /\ Todo' = front \o (more \o TodoOf(Tail(stack)))
           /\ front = IF IsConditional(node) /\ p = 2 THEN RightItem(node) ELSE Items(n)
           /\ IsSequence(node) => more = LinesItems(SubSeq(node.nodes, p + 1, Len(node.nodes)))
           /\ IsConditional(node) /\ p = 1 => more = RightItem(node)
           /\ IsConditional(node) /\ p = 2 => more = <<>>
<1>1. root = NoNode \/ IsTree(root)
  BY DEF ParserInv, LocalsOK
<1>2. PICK frames, a, b, rest : /\ frames = stack' /\ a = Call(n) /\ b = [node |-> node, pc |-> p] /\ rest = Tail(stack)
  OBVIOUS
<1>3. FramesOK(frames)
  BY <1>2 DEF StackInv, FramesOK, parser_vars
<1>4. stack # <<>> /\ FramesOK(stack) /\ FramesOK(rest)
  BY <1>2, PopFrame DEF StackInv, Executing
<1>5. frames = <<a, b>> \o rest
  BY <1>2 DEF CallFrom
<1>6. PICK callers : callers = Tail(frames)
  OBVIOUS
<1>7. rest \in Seq(Range(rest))
  BY <1>4 DEF FramesOK
<1>8. /\ frames # <<>> /\ frames[1] = a /\ frames[2] = b /\ Len(frames) = Len(rest) + 2 /\ Len(rest) \in Nat
      /\ callers # <<>> /\ callers[1] = b /\ Tail(callers) = rest
  <2>1. PICK S : S = Range(rest) \cup {a, b}
    OBVIOUS
  <2>2. rest \in Seq(S) /\ a \in S /\ b \in S
    BY <1>7, <2>1
  <2>3. callers = <<b>> \o rest
    BY <1>5, <1>6, <2>2
  <2> QED BY <1>5, <2>2, <2>3
<1>9. FramesOK(callers)
  BY <1>3, <1>6, <1>8, PopFrame
<1>10. /\ TodoOf(frames) = ItemsLeft(frames, 1) \o TodoOf(callers)
       /\ TodoOf(callers) = ItemsLeft(callers, 1) \o TodoOf(rest)
       /\ ItemsLeft(frames, 1) \in Seq(ListItem) /\ ItemsLeft(callers, 1) \in Seq(ListItem)
  BY <1>1, <1>3, <1>4, <1>6, <1>8, <1>9, LeftOfCalls
<1>11. ItemsLeft(frames, 1) = IF IsConditional(node) /\ p = 2 THEN RightItem(node) ELSE Items(n)
  <2>1. a.pc = 0 /\ a.node = n /\ b.node = node /\ b.pc = p
    BY <1>2 DEF Call
  <2>2. frames[1].pc = 0 /\ frames[1].node = n /\ frames[1 + 1].node = node /\ frames[1 + 1].pc = p /\ 1 < Len(frames)
    BY <1>8, <2>1
  <2>3. IsRight(frames, 1) <=> IsConditional(node) /\ p = 2
    BY <2>2 DEF IsRight
  <2>4. ItemsLeft(frames, 1) = IF IsRight(frames, 1) THEN RightItem(frames[1 + 1].node) ELSE Items(frames[1].node)
    BY <2>2, LeftWhenStarted, Zenon
  <2> QED BY <2>2, <2>3, <2>4
<1>12. callers[1].node = node /\ callers[1].pc = p
  BY <1>2, <1>8
<1>13. IsSequence(node) => ItemsLeft(callers, 1) = LinesItems(SubSeq(node.nodes, p + 1, Len(node.nodes)))
  <2>1. callers[1].pc \in Nat /\ callers[1].pc # 0
    BY <1>12
  <2> QED BY <1>12, <2>1, LeftOfLine, Zenon
<1>14. /\ IsConditional(node) /\ p = 1 => ItemsLeft(callers, 1) = RightItem(node)
       /\ IsConditional(node) /\ p = 2 => ItemsLeft(callers, 1) = <<>>
  BY <1>12, LeftOfList, Zenon
<1> QED BY <1>2, <1>10, <1>11, <1>13, <1>14, TodoOfStack, Zenon

(* Items can be joined in any order of joining. *)
LEMMA JoinItems ==
  /\ \A s, t, r \in Seq(ListItem) : s \o (t \o r) = (s \o t) \o r
  /\ \A s \in Seq(ListItem) : <<>> \o s = s /\ s \o <<>> = s
OBVIOUS

(* The calls of exec_node for a line, for what && and || join, *)
LEMMA SequenceGoesOn ==
  ASSUME ParserInv, StackInv, StackInv', NextOfSequence
  PROVE  Todo' = Todo
<1>1. /\ Executing /\ IsSequence(node) /\ pc < Len(node.nodes) /\ CallFrom(pc + 1, node.nodes[pc + 1])
      /\ UNCHANGED parser_vars
  BY DEF NextOfSequence, Usable
<1>2. PICK m, k, R : m = node /\ k = pc /\ R = TodoOf(Tail(stack))
  OBVIOUS
<1>3. /\ Len(stack) = 1 /\ m = root /\ IsTree(m) /\ Len(m.nodes) \in Nat /\ k \in 0 .. Len(m.nodes) /\ k < Len(m.nodes)
      /\ \A i \in 1 .. Len(m.nodes) : IsList(m.nodes[i])
      /\ IsSequence(m) /\ ~IsConditional(m)
  BY <1>1, <1>2, LineOfSequence, NodesDiffer
<1>4. k \in Nat /\ k + 1 \in Nat \ {0} /\ k + 1 \in 1 .. Len(m.nodes)
  <2>1. \A c \in Nat : \A j \in 0 .. c : j < c => j \in Nat /\ j + 1 \in Nat \ {0} /\ j + 1 \in 1 .. c
    OBVIOUS
  <2> QED BY <1>3, <2>1, Zenon
<1>5. PICK n : n = m.nodes[k + 1]
  OBVIOUS
<1>6. CallFrom(k + 1, n)
  BY <1>1, <1>2, <1>5
<1>7. PICK front \in Seq(ListItem), more \in Seq(ListItem) :
           /\ Todo' = front \o (more \o R)
           /\ front = IF IsConditional(m) /\ k + 1 = 2 THEN RightItem(m) ELSE Items(n)
           /\ IsSequence(m) => more = LinesItems(SubSeq(m.nodes, (k + 1) + 1, Len(m.nodes)))
  BY <1>1, <1>2, <1>4, <1>6, LeftAfterCall
<1>8. front = ListItems(n)
  <2>1. IsList(n) /\ ~IsSequence(n)
    BY <1>3, <1>4, <1>5, ListNotSequence
  <2>2. Items(n) = ListItems(n)
    BY <2>1, Zenon DEF Items
  <2> QED BY <1>3, <1>7, <2>2
<1>9. PICK w : w = LinesItems(SubSeq(m.nodes, k + 1, Len(m.nodes)))
  OBVIOUS
<1>10. w = front \o more
  <2>1. w = ListItems(m.nodes[k + 1]) \o LinesItems(SubSeq(m.nodes, (k + 1) + 1, Len(m.nodes)))
    BY <1>3, <1>4, <1>9, SomeLines, Zenon
  <2> QED BY <1>3, <1>5, <1>7, <1>8, <2>1, Zenon
<1>11. ItemsLeft(stack, 1) = w
  <2>1. stack[1].node = m /\ stack[1].pc = k
    BY <1>1, <1>2, HeadFrame
  <2>2. CASE k = 0
    <3>1. ~IsRight(stack, 1)
      BY <1>3 DEF IsRight
    <3>2. ItemsLeft(stack, 1) = Items(m)
      BY <2>1, <2>2, <3>1, LeftWhenStarted
    <3>3. Items(m) = LinesItems(m.nodes)
      BY <1>3, TreeItems, NodesDiffer
    <3>4. SubSeq(m.nodes, k + 1, Len(m.nodes)) = m.nodes
      BY <1>3, <1>4, <2>2, SomeLines, Zenon
    <3> QED BY <1>9, <3>2, <3>3, <3>4, Zenon
  <2>3. CASE k # 0
    <3>1. stack[1].pc \in Nat /\ stack[1].pc # 0 /\ IsSequence(stack[1].node)
      BY <1>3, <1>4, <2>1, <2>3
    <3> QED BY <1>9, <2>1, <3>1, LeftOfLine, Zenon
  <2> QED BY <2>2, <2>3
<1>12. Todo = w \o R /\ R \in Seq(ListItem)
  BY <1>1, <1>2, <1>11, LeftBefore
<1> QED BY <1>7, <1>10, <1>12, JoinItems, Zenon

(* At the end of a line nothing is left of it, *)
LEMMA SequenceEnds ==
  ASSUME ParserInv, StackInv, EndOfSequence
  PROVE  Todo' = Todo
<1>1. Executing /\ IsSequence(node) /\ pc = Len(node.nodes) /\ stack' = Tail(stack)
  BY DEF EndOfSequence, Usable, Return
<1>2. PICK m, k, R : m = node /\ k = pc /\ R = TodoOf(Tail(stack))
  OBVIOUS
<1>3. Len(stack) = 1 /\ IsTree(m) /\ Len(m.nodes) \in Nat /\ k = Len(m.nodes) /\ IsSequence(m)
  BY <1>1, <1>2, LineOfSequence
<1>4. stack[1].node = m /\ stack[1].pc = k
  BY <1>1, <1>2, HeadFrame
<1>5. LinesItems(SubSeq(m.nodes, k + 1, Len(m.nodes))) = <<>>
  BY <1>3, SomeLines, Zenon
<1>6. ItemsLeft(stack, 1) = <<>>
  <2>1. CASE k = 0
    <3>1. ~IsRight(stack, 1)
      BY <1>3 DEF IsRight
    <3>2. ItemsLeft(stack, 1) = Items(m)
      BY <1>4, <2>1, <3>1, LeftWhenStarted
    <3>3. Items(m) = LinesItems(m.nodes)
      BY <1>3, TreeItems, NodesDiffer
    <3>4. SubSeq(m.nodes, k + 1, Len(m.nodes)) = m.nodes
      BY <1>3, <2>1, SomeLines, Zenon
    <3> QED BY <1>5, <3>2, <3>3, <3>4, Zenon
  <2>2. CASE k # 0
    <3>1. stack[1].pc \in Nat /\ stack[1].pc # 0 /\ IsSequence(stack[1].node)
      BY <1>3, <1>4, <2>2
    <3> QED BY <1>4, <1>5, <3>1, LeftOfLine, Zenon
  <2> QED BY <2>1, <2>2
<1>7. Todo = <<>> \o R /\ R \in Seq(ListItem) /\ Todo' = R
  BY <1>1, <1>2, <1>6, LeftBefore, TodoOfStack
<1> QED BY <1>7, JoinItems, Zenon

(* and a side of a conditional leaves what was left. *)
LEMMA ConditionalGoesOn ==
  ASSUME ParserInv, StackInv, StackInv', LeftOfConditional \/ RightOfConditional
  PROVE  Todo' = Todo
<1>1. Executing /\ IsConditional(node) /\ UNCHANGED parser_vars
  BY DEF LeftOfConditional, RightOfConditional, Usable
<1>2. PICK m, R, l, r : m = node /\ R = TodoOf(Tail(stack)) /\ l = node.left /\ r = node.right
  OBVIOUS
<1>3. stack[1].node = m /\ stack[1].pc = pc /\ IsList(m) /\ IsConditional(m)
  BY <1>1, <1>2, HeadFrame
<1>4. ListItems(m) = Append(ListItems(l), ItemOf(m)) /\ IsList(l)
  BY <1>2, <1>3, SplitList
<1>5. CASE LeftOfConditional
  <2>1. pc = 0 /\ CallFrom(1, l) /\ 1 \in Nat \ {0}
    BY <1>2, <1>5 DEF LeftOfConditional
  <2>2. PICK front \in Seq(ListItem), more \in Seq(ListItem) :
           /\ Todo' = front \o (more \o R)
           /\ front = IF IsConditional(m) /\ 1 = 2 THEN RightItem(m) ELSE Items(l)
           /\ IsConditional(m) /\ 1 = 1 => more = RightItem(m)
    BY <1>1, <1>2, <2>1, LeftAfterCall
  <2>3. front = ListItems(l) /\ more = <<ItemOf(m)>>
    <3>1. ~IsSequence(l)
      BY <1>4, ListNotSequence
    <3>2. Items(l) = ListItems(l)
      BY <3>1, Zenon DEF Items
    <3>3. RightItem(m) = <<ItemOf(m)>>
      BY Zenon DEF RightItem, ItemOf
    <3> QED BY <1>3, <2>2, <3>2, <3>3
  <2>4. ItemsLeft(stack, 1) = ListItems(m)
    <3>1. ~IsRight(stack, 1)
      <4> SUFFICES ASSUME IsRight(stack, 1) PROVE FALSE
        OBVIOUS
      <4>1. 1 < Len(stack) /\ IsConditional(stack[2].node) /\ stack[2].pc = 2
        BY DEF IsRight
      <4>2. Len(stack) # 1
        BY <4>1
      <4> QED BY <1>1, <4>1, <4>2, RightIsJob
    <3>2. ItemsLeft(stack, 1) = Items(m)
      BY <1>3, <2>1, <3>1, LeftWhenStarted
    <3>3. ~IsSequence(m)
      BY <1>3, ListNotSequence
    <3>4. Items(m) = ListItems(m)
      BY <3>3, Zenon DEF Items
    <3> QED BY <3>2, <3>4
  <2>5. PICK e : e = ItemOf(m)
    OBVIOUS
  <2>6. ListItems(m) = front \o more
    <3>1. more = <<e>> /\ <<e>> \in Seq(ListItem)
      BY <2>2, <2>3, <2>5
    <3>2. e \in ListItem
      BY <3>1
    <3>3. Append(front, e) = front \o <<e>>
      BY <2>2, <3>2
    <3> QED BY <1>4, <2>3, <2>5, <3>1, <3>3, Zenon
  <2>7. Todo = (front \o more) \o R /\ R \in Seq(ListItem)
    BY <1>1, <1>2, <2>4, <2>6, LeftBefore
  <2> QED BY <2>2, <2>7, JoinItems, Zenon
<1>6. CASE RightOfConditional
  <2>1. pc = 1 /\ CallFrom(2, r) /\ 2 \in Nat \ {0}
    BY <1>2, <1>6 DEF RightOfConditional
  <2>2. PICK front \in Seq(ListItem), more \in Seq(ListItem) :
           /\ Todo' = front \o (more \o R)
           /\ front = IF IsConditional(m) /\ 2 = 2 THEN RightItem(m) ELSE Items(r)
           /\ IsConditional(m) /\ 2 = 2 => more = <<>>
    BY <1>1, <1>2, <2>1, LeftAfterCall
  <2>3. front = RightItem(m) /\ more = <<>>
    BY <1>3, <2>2
  <2>4. ItemsLeft(stack, 1) = RightItem(m)
    BY <1>3, <2>1, LeftOfList
  <2>5. Todo = front \o R /\ R \in Seq(ListItem)
    BY <1>1, <1>2, <2>3, <2>4, LeftBefore
  <2>6. more \o R = R
    BY <2>3, <2>5, JoinItems, Zenon
  <2> QED BY <2>2, <2>5, <2>6, Zenon
<1> QED BY <1>5, <1>6

(* What is in front can be dropped. *)
LEMMA DropFront ==
  ASSUME NEW S, NEW w \in Seq(S), NEW R \in Seq(S), NEW T, T = w \o R
  PROVE  /\ T \in Seq(S) /\ Len(w) \in Nat /\ Len(R) \in Nat /\ Len(T) = Len(w) + Len(R) /\ Len(w) <= Len(T)
         /\ \A i \in 1 .. Len(w) : T[i] = w[i]
         /\ \A i \in 1 .. Len(R) : T[Len(w) + i] = R[i]
         /\ SubSeq(T, Len(w) + 1, Len(T)) = R
<1>1. /\ T \in Seq(S) /\ Len(w) \in Nat /\ Len(R) \in Nat /\ Len(T) = Len(w) + Len(R)
      /\ \A i \in 1 .. Len(w) : T[i] = w[i]
      /\ \A i \in 1 .. Len(R) : T[Len(w) + i] = R[i]
  OBVIOUS
<1>2. PICK k, rest : k = Len(w) /\ rest = SubSeq(T, k + 1, Len(T))
  OBVIOUS
<1>3. /\ rest \in Seq(S) /\ Len(rest) = Len(R)
      /\ \A i \in 1 .. Len(R) : rest[i] = T[k + i]
  BY <1>1, <1>2
<1>4. rest = R
  BY <1>1, <1>2, <1>3
<1> QED BY <1>1, <1>2, <1>4

(* One item in front of what is left. *)
LEMMA OneInFront ==
  \A S : \A w, R \in Seq(S) : \A T :
    T = w \o R => (Len(w) = 1 => T # <<>> /\ T[1] = w[1] /\ Tail(T) = R)
<1>1. ASSUME NEW S, NEW w \in Seq(S), NEW R \in Seq(S), NEW T, T = w \o R
      PROVE  Len(w) = 1 => T # <<>> /\ T[1] = w[1] /\ Tail(T) = R
  <2>1. PICK k : k = Len(w)
    OBVIOUS
  <2>2. /\ T \in Seq(S) /\ k \in Nat /\ Len(R) \in Nat /\ Len(T) = k + Len(R)
        /\ \A i \in 1 .. k : T[i] = w[i]
        /\ \A i \in 1 .. Len(R) : T[k + i] = R[i]
    <3>1. T \in Seq(S) /\ Len(w) \in Nat /\ Len(R) \in Nat /\ Len(T) = Len(w) + Len(R)
      BY <1>1, DropFront
    <3>2. \A i \in 1 .. Len(w) : T[i] = w[i]
      BY <1>1, DropFront
    <3>3. \A i \in 1 .. Len(R) : T[Len(w) + i] = R[i]
      BY <1>1, DropFront
    <3> QED BY <2>1, <3>1, <3>2, <3>3
  <2>3. ASSUME k = 1 PROVE T # <<>> /\ T[1] = w[1] /\ Tail(T) = R
    <3>1. T # <<>> /\ Len(Tail(T)) = Len(R) /\ Tail(T) \in Seq(S) /\ \A i \in 1 .. Len(R) : Tail(T)[i] = T[1 + i]
      BY <2>2, <2>3
    <3>2. \A i \in 1 .. Len(R) : Tail(T)[i] = R[i]
      BY <2>2, <2>3, <3>1, Zenon
    <3>3. Tail(T) = R
      BY <3>1, <3>2
    <3>4. 1 \in 1 .. k
      BY <2>3
    <3> QED BY <2>2, <3>1, <3>3, <3>4, Zenon
  <2> QED BY <2>1, <2>3
<1> QED BY <1>1

(* A list has an item. *)
LEMMA ListHasItems ==
  ASSUME NEW n, IsList(n)
  PROVE  Len(ListItems(n)) \in Nat /\ Len(ListItems(n)) # 0
<1>1. CASE IsConditional(n)
  <2>1. PICK s, e : s = ListItems(n.left) /\ e = ItemOf(n)
    OBVIOUS
  <2>2. ListItems(n) = Append(s, e) /\ s \in Seq(ListItem)
    BY <1>1, <2>1, SplitList DEF IsList
  <2> QED BY <2>2
<1>2. CASE ~IsConditional(n)
  <2>1. PICK e : e = FirstItem(n)
    OBVIOUS
  <2>2. ListItems(n) = <<e>>
    BY <1>2, <2>1, ListOfOne, JobIsList
  <2> QED BY <2>2
<1> QED BY <1>1, <1>2

(* What is left of a call that has just begun: a job behind an operator that the status agrees with, or a list. *)
LEMMA LeftOfNewCall ==
  ASSUME ParserInv, StackInv, Executing, pc = 0, Len(stack) # 1
  PROVE  \/ /\ IsRight(stack, 1)
            /\ ItemsLeft(stack, 1) = RightItem(stack[2].node) /\ GoesOn(stack[2].node) /\ stack[2].node.right = node
         \/ /\ ~IsRight(stack, 1)
            /\ ItemsLeft(stack, 1) = ListItems(node)
<1>1. stack[1].node = node /\ stack[1].pc = 0 /\ IsList(node) /\ 1 < Len(stack)
  BY HeadFrame
<1>2. CASE IsRight(stack, 1)
  <2>1. ItemsLeft(stack, 1) = RightItem(stack[2].node)
    BY <1>1, <1>2, LeftWhenStarted
  <2>2. IsConditional(stack[2].node) /\ stack[2].pc = 2 /\ Len(stack) > 1
    BY <1>2 DEF IsRight
  <2>3. GoesOn(stack[2].node) /\ stack[2].node.right = node
    BY <2>2, RightIsJob DEF StackInv
  <2> QED BY <1>2, <2>1, <2>3
<1>3. CASE ~IsRight(stack, 1)
  <2>1. ItemsLeft(stack, 1) = Items(node)
    BY <1>1, <1>3, LeftWhenStarted
  <2>2. ~IsSequence(node)
    BY <1>1, ListNotSequence
  <2>3. Items(node) = ListItems(node)
    BY <2>2, Zenon DEF Items
  <2> QED BY <1>3, <2>1, <2>3
<1> QED BY <1>2, <1>3

(* The operator before a job says whether it runs. *)
LEMMA OperatorAgrees ==
  ASSUME NEW n
  PROVE  LET e == [op |-> n.op, job |-> n.right] IN
         /\ n.op \in {"and", "or"} => (Lists!Agrees(e) <=> GoesOn(n))
         /\ GoesOn(n) => Lists!Agrees(e)
BY DEF Lists!Agrees, GoesOn

(* A job runs in its turn. *)
LEMMA JobRuns ==
  ASSUME ParserInv, StackInv, RunBuiltin \/ RunBackground \/ RunForeground
  PROVE  Lists!Run
<1>1. Executing /\ (IsCommand(node) \/ IsPipeline(node)) /\ ran' = Append(ran, node) /\ stack' = Tail(stack)
  BY DEF RunBuiltin, RunBackground, RunForeground, RunsJob, Usable, Return
<1>2. Len(stack) # 1 /\ pc = 0 /\ IsList(node) /\ ~IsConditional(node)
  <2>1. ~IsConditional(node)
    BY <1>1 DEF IsCommand, IsPipeline, IsConditional
  <2> QED BY <1>1, <2>1, HeadFrame
<1>3. PICK w, R, T : w = ItemsLeft(stack, 1) /\ R = TodoOf(Tail(stack)) /\ T = Todo
  OBVIOUS
<1>4. T = w \o R /\ w \in Seq(ListItem) /\ R \in Seq(ListItem) /\ Todo' = R
  BY <1>1, <1>3, LeftBefore, TodoOfStack
<1>5. PICK e : w = <<e>> /\ e.job = node /\ Lists!Agrees(e)
  <2>1. CASE ItemsLeft(stack, 1) = RightItem(stack[2].node) /\ GoesOn(stack[2].node) /\ stack[2].node.right = node
    <3>1. PICK n : n = stack[2].node
      OBVIOUS
    <3>2. PICK e : e = [op |-> n.op, job |-> n.right]
      OBVIOUS
    <3>3. w = <<e>>
      BY <1>3, <2>1, <3>1, <3>2, Zenon DEF RightItem
    <3>4. e.job = node /\ Lists!Agrees(e)
      BY <2>1, <3>1, <3>2, OperatorAgrees
    <3> QED BY <3>3, <3>4
  <2>2. CASE ItemsLeft(stack, 1) = ListItems(node)
    <3>1. node \in JobNodes \cup {NoNode}
      BY <1>2, ListOfOne
    <3>2. PICK e : e = FirstItem(node)
      OBVIOUS
    <3>3. w = <<e>>
      BY <1>3, <2>2, <3>1, <3>2, JobIsList
    <3>4. e.job = node /\ e.op = "none"
      BY <3>2 DEF FirstItem
    <3> QED BY <3>3, <3>4 DEF Lists!Agrees
  <2> QED BY <1>1, <1>2, <2>1, <2>2, LeftOfNewCall
<1>6. Len(w) = 1 /\ w[1] = e /\ 1 \in 1 .. Len(w)
  BY <1>5
<1>7. T # <<>> /\ T[1] = e /\ Tail(T) = R
  <2>1. T = w \o R /\ w \in Seq(ListItem) /\ R \in Seq(ListItem)
    BY <1>4
  <2>2. Len(w) = 1 => T # <<>> /\ T[1] = w[1] /\ Tail(T) = R
    BY <2>1, OneInFront, Zenon
  <2> QED BY <1>6, <2>2
<1> QED BY <1>1, <1>3, <1>4, <1>5, <1>7 DEF Lists!Run

(* A conditional whose right side is not called skips it. *)
LEMMA ConditionalEnds ==
  ASSUME ParserInv, StackInv, EndOfConditional
  PROVE  Lists!Skip \/ (Todo' = Todo /\ UNCHANGED <<ran, status>>)
<1>1. /\ Executing /\ IsConditional(node) /\ stack' = Tail(stack) /\ status' = status /\ ran' = ran
      /\ (pc = 1 /\ ~GoesOn(node)) \/ pc = 2
  BY DEF EndOfConditional, Usable, Return
<1>2. PICK n, w, R, T : n = node /\ w = ItemsLeft(stack, 1) /\ R = TodoOf(Tail(stack)) /\ T = Todo
  OBVIOUS
<1>3. T = w \o R /\ w \in Seq(ListItem) /\ R \in Seq(ListItem) /\ Todo' = R
  BY <1>1, <1>2, LeftBefore, TodoOfStack
<1>4. stack[1].node = n /\ stack[1].pc = pc /\ IsConditional(n) /\ IsList(n)
  BY <1>1, <1>2, HeadFrame
<1>5. CASE pc = 2
  <2>1. w = <<>>
    BY <1>2, <1>4, <1>5, LeftOfList
  <2>2. T = R
    BY <1>3, <2>1, JoinItems, Zenon
  <2> QED BY <1>1, <1>2, <1>3, <2>2
<1>6. CASE pc = 1 /\ ~GoesOn(n)
  <2>1. w = RightItem(n)
    BY <1>2, <1>4, <1>6, LeftOfList
  <2>2. PICK e : e = [op |-> n.op, job |-> n.right]
    OBVIOUS
  <2>3. w = <<e>>
    BY <2>1, <2>2, Zenon DEF RightItem
  <2>4. ~Lists!Agrees(e)
    BY <1>4, <1>6, <2>2, SplitList, OperatorAgrees
  <2>5. Len(w) = 1 /\ w[1] = e /\ 1 \in 1 .. Len(w)
    BY <2>3
  <2>6. T # <<>> /\ T[1] = e /\ Tail(T) = R
    <3>1. T = w \o R /\ w \in Seq(ListItem) /\ R \in Seq(ListItem)
      BY <1>3
    <3>2. Len(w) = 1 => T # <<>> /\ T[1] = w[1] /\ Tail(T) = R
      BY <3>1, OneInFront, Zenon
    <3> QED BY <2>5, <3>2
  <2> QED BY <1>1, <1>2, <1>3, <2>4, <2>6 DEF Lists!Skip
<1> QED BY <1>1, <1>2, <1>5, <1>6

(* What exec_node cannot use fails: the line, a job, or a list. *)
LEMMA CannotRun ==
  ASSUME ParserInv, StackInv, Unusable
  PROVE  Lists!FailLine \/ \E n \in 1 .. Len(Todo) : Lists!Fail(n)
<1>1. Executing /\ pc = 0 /\ stack' = Tail(stack) /\ status' = -1 /\ ran' = ran
  BY DEF Unusable, Return
<1>2. PICK w, R, T : w = ItemsLeft(stack, 1) /\ R = TodoOf(Tail(stack)) /\ T = Todo
  OBVIOUS
<1>3. T = w \o R /\ w \in Seq(ListItem) /\ R \in Seq(ListItem) /\ Todo' = R
  BY <1>1, <1>2, LeftBefore, TodoOfStack
<1>4. CASE Len(stack) = 1
  <2>1. ran = <<>>
    BY <1>1, <1>4, HeadFrame DEF StackInv
  <2>2. Tail(stack) = <<>>
    <3>1. stack \in Seq(Range(stack))
      BY <1>1, HeadFrame
    <3>2. PICK s : s = Tail(stack)
      OBVIOUS
    <3>3. s \in Seq(Range(stack)) /\ Len(s) = 0
      BY <1>4, <3>1, <3>2
    <3> QED BY <3>2, <3>3
  <2>3. Todo' = <<>>
    BY <1>2, <1>3, <2>2, NoCalls
  <2> QED BY <1>1, <2>1, <2>3 DEF Lists!FailLine
<1>5. CASE Len(stack) # 1
  <2>1. \/ w = RightItem(stack[2].node) /\ GoesOn(stack[2].node)
        \/ w = ListItems(node)
    BY <1>1, <1>2, <1>5, LeftOfNewCall
  <2>2. /\ Len(w) \in Nat /\ Len(w) # 0 /\ Lists!Agrees(w[1])
        /\ \A i \in 2 .. Len(w) : w[i].op # "none"
        /\ Len(w) > 1 => w[1].op = "none"
    <3>1. CASE w = RightItem(stack[2].node) /\ GoesOn(stack[2].node)
      <4>1. PICK n : n = stack[2].node
        OBVIOUS
      <4>2. PICK e : e = [op |-> n.op, job |-> n.right]
        OBVIOUS
      <4>3. w = <<e>> /\ Lists!Agrees(e)
        BY <3>1, <4>1, <4>2, OperatorAgrees, Zenon DEF RightItem
      <4>4. Len(w) = 1 /\ w[1] = e
        BY <4>3
      <4> QED BY <4>3, <4>4
    <3>2. CASE w = ListItems(node)
      <4>1. IsList(node)
        BY <1>1, <1>5, HeadFrame
      <4>2. Len(w) # 0 /\ Len(w) \in Nat
        BY <3>2, <4>1, ListHasItems
      <4>3. \A i \in 1 .. Len(w) : w[i].op = "none" <=> i = 1
        BY <1>3, <3>2, <4>1 DEF IsList
      <4>4. w[1].op = "none" /\ \A i \in 2 .. Len(w) : w[i].op # "none"
        BY <4>2, <4>3
      <4> QED BY <4>2, <4>4 DEF Lists!Agrees
    <3> QED BY <2>1, <3>1, <3>2
  <2>3. PICK n : n = Len(w)
    OBVIOUS
  <2>4. n \in 1 .. Len(T) /\ n \in Nat /\ T[1] = w[1] /\ (\A i \in 2 .. n : T[i] = w[i]) /\ SubSeq(T, n + 1, Len(T)) = R
    BY <1>3, <2>2, <2>3, DropFront
  <2>5. Lists!Fail(n)
    BY <1>1, <1>2, <1>3, <2>2, <2>3, <2>4 DEF Lists!Fail
  <2> QED BY <1>2, <2>4, <2>5
<1> QED BY <1>4, <1>5

(* A line that was read: its first job does not depend on another. *)
LEMMA LineIsRead ==
  ASSUME ParserInv, StackInv, StackInv', ExecuteLine
  PROVE  Lists!Read \/ (Todo' = Todo /\ UNCHANGED <<ran, status>>)
<1>1. stack = <<>> /\ ran = <<>> /\ status = 0 /\ status' = 0 /\ ran' = ran /\ stack' = <<Call(root)>>
  BY DEF ExecuteLine, StackInv
<1>2. Todo = <<>>
  BY <1>1, TodoOfStack, NoCalls
<1>3. root = NoNode \/ IsTree(root)
  BY DEF ParserInv, LocalsOK
<1>4. PICK c, frames : c = Call(root) /\ frames = stack'
  OBVIOUS
<1>5. frames = <<c>> /\ c.node = root /\ c.pc = 0
  BY <1>1, <1>4 DEF Call
<1>6. Todo' = Items(root)
  <2>1. FramesOK(frames) /\ FramesOK(Tail(frames)) /\ frames # <<>>
    <3>1. root' = root
      BY DEF ExecuteLine
    <3>2. FramesOK(frames)
      BY <1>4, <3>1 DEF StackInv, FramesOK
    <3> QED BY <1>5, <3>2, PopFrame
  <2>2. Tail(frames) = <<>> /\ frames[1] = c /\ Len(frames) = 1
    BY <1>5
  <2>3. TodoOf(frames) = ItemsLeft(frames, 1) \o <<>> /\ ItemsLeft(frames, 1) \in Seq(ListItem)
    BY <1>3, <2>1, <2>2, LeftOfCalls, NoCalls
  <2>4. TodoOf(frames) = ItemsLeft(frames, 1)
    BY <2>3, JoinItems, Zenon
  <2>5. ~IsRight(frames, 1)
    BY <2>2 DEF IsRight
  <2>6. ItemsLeft(frames, 1) = Items(root)
    BY <1>5, <2>2, <2>5, LeftWhenStarted
  <2> QED BY <1>4, <2>4, <2>6, TodoOfStack
<1>7. ASSUME Items(root) # <<>> PROVE Items(root)[1].op = "none"
  <2>1. CASE root = NoNode
    <3>1. PICK e : e = FirstItem(NoNode)
      OBVIOUS
    <3>2. Items(root) = <<e>> /\ e.op = "none"
      BY <2>1, <3>1, TreeItems DEF FirstItem
    <3> QED BY <3>2
  <2>2. CASE root # NoNode
    <3>1. IsTree(root) /\ Items(root) = LinesItems(root.nodes)
      BY <1>3, <2>2, TreeItems
    <3>2. PICK tree : tree = root
      OBVIOUS
    <3>3. IsTree(tree) /\ Items(root) = LinesItems(tree.nodes) /\ Len(tree.nodes) \in Nat
      BY <3>1, <3>2, LenProperties DEF IsTree
    <3>4. SubSeq(tree.nodes, 0 + 1, Len(tree.nodes)) = tree.nodes
      <4>1. 0 \in Nat
        OBVIOUS
      <4> QED BY <3>3, <4>1, SomeLines, Zenon
    <3>5. 0 # Len(tree.nodes)
      <4>1. 0 \in Nat
        OBVIOUS
      <4>2. 0 = Len(tree.nodes) => LinesItems(SubSeq(tree.nodes, 0 + 1, Len(tree.nodes))) = <<>>
        BY <3>3, <4>1, SomeLines, Zenon
      <4> QED BY <1>7, <3>3, <3>4, <4>2
    <3>6. 0 < Len(tree.nodes)
      BY <3>3, <3>5
    <3>7. /\ Items(root) = ListItems(tree.nodes[0 + 1]) \o LinesItems(SubSeq(tree.nodes, (0 + 1) + 1, Len(tree.nodes)))
          /\ IsList(tree.nodes[0 + 1])
          /\ LinesItems(SubSeq(tree.nodes, (0 + 1) + 1, Len(tree.nodes))) \in Seq(ListItem)
      <4>1. 0 \in Nat /\ 0 + 1 \in Nat
        OBVIOUS
      <4> QED BY <3>3, <3>4, <3>6, <4>1, SomeLines, Zenon
    <3>8. PICK n, w, R : n = tree.nodes[0 + 1] /\ w = ListItems(n)
                         /\ R = LinesItems(SubSeq(tree.nodes, (0 + 1) + 1, Len(tree.nodes)))
      OBVIOUS
    <3>9. IsList(n) /\ w \in Seq(ListItem) /\ R \in Seq(ListItem) /\ Items(root) = w \o R
      BY <3>7, <3>8 DEF IsList
    <3>10. Len(w) \in Nat /\ Len(w) # 0 /\ 1 \in 1 .. Len(w)
      <4>1. Len(w) \in Nat /\ Len(w) # 0
        BY <3>8, <3>9, ListHasItems
      <4> QED BY <4>1
    <3>11. w[1].op = "none"
      BY <3>8, <3>9, <3>10 DEF IsList
    <3>12. PICK T : T = Items(root)
      OBVIOUS
    <3>13. T[1] = w[1]
      <4>1. T = w \o R /\ w \in Seq(ListItem) /\ R \in Seq(ListItem)
        BY <3>9, <3>12
      <4>2. \A i \in 1 .. Len(w) : T[i] = w[i]
        BY <4>1, DropFront
      <4> QED BY <3>10, <4>2
    <3> QED BY <3>11, <3>12, <3>13
  <2> QED BY <2>1, <2>2
<1> QED BY <1>1, <1>2, <1>6, <1>7 DEF Lists!Read

(* At first there are no lists. *)
LEMMA ListsInit == Init => Lists!Init
<1> SUFFICES ASSUME Init PROVE Lists!Init
  OBVIOUS
<1>1. Todo = <<>>
  BY TodoOfStack, NoCalls DEF Init
<1> QED BY <1>1 DEF Init, Lists!Init

(* Each step of the shell is one of AndOrLists, or changes nothing in it. *)
LEMMA ListsNext ==
  ASSUME ParserInv, StackInv, StackInv', [Next]_vars
  PROVE  [Lists!Next]_<<Todo, ran, status>>
<1>1. CASE UNCHANGED <<stack, ran, status>>
  <2>1. Todo' = Todo
    BY <1>1, TodoOfStack
  <2> QED BY <1>1, <2>1
<1>2. CASE ExecuteLine
  BY <1>2, LineIsRead DEF Lists!Next
<1>3. CASE FinishLine
  <2>1. stack = <<>> /\ stack' = <<>> /\ ran' = <<>> /\ status' = 0
    BY <1>3 DEF FinishLine
  <2>2. Todo = <<>> /\ Todo' = <<>>
    BY <2>1, TodoOfStack, NoCalls
  <2> QED BY <2>1, <2>2 DEF Lists!Finish, Lists!Next
<1>4. CASE Unusable
  BY <1>4, CannotRun DEF Lists!Next
<1>5. CASE NextOfSequence
  <2>1. Todo' = Todo /\ UNCHANGED <<ran, status>>
    BY <1>5, SequenceGoesOn DEF NextOfSequence, CallFrom
  <2> QED BY <2>1
<1>6. CASE EndOfSequence
  <2>1. Todo' = Todo /\ UNCHANGED <<ran, status>>
    BY <1>6, SequenceEnds DEF EndOfSequence, Return
  <2> QED BY <2>1
<1>7. CASE LeftOfConditional \/ RightOfConditional
  <2>1. Todo' = Todo /\ UNCHANGED <<ran, status>>
    BY <1>7, ConditionalGoesOn DEF LeftOfConditional, RightOfConditional, CallFrom
  <2> QED BY <2>1
<1>8. CASE EndOfConditional
  BY <1>8, ConditionalEnds DEF Lists!Next
<1>9. CASE RunBuiltin \/ RunBackground \/ RunForeground
  BY <1>9, JobRuns DEF Lists!Next
<1>10. [Next]_vars =>
         \/ UNCHANGED <<stack, ran, status>>
         \/ ExecuteLine \/ FinishLine \/ Unusable \/ NextOfSequence \/ EndOfSequence
         \/ LeftOfConditional \/ RightOfConditional \/ EndOfConditional
         \/ RunBuiltin \/ RunBackground \/ RunForeground
  BY DEF Next, LineStep, ExecutionStep, TypeLine, NoName, execution_vars, vars
<1> QED BY <1>1, <1>2, <1>3, <1>4, <1>5, <1>6, <1>7, <1>8, <1>9, <1>10

(* README.md:41: exec_node runs the jobs of a line in their turn, as && and *)
(* || say.                                                                  *)
THEOREM ListsAreImplemented == Spec => ImplementsLists
<1>1. Init => ParserInv /\ StackInv /\ Lists!Init
  BY ParserInvInit, StackInit, ListsInit
<1>2. ParserInv /\ StackInv /\ [Next]_vars => (ParserInv /\ StackInv)'
  BY ParserInvNext, StackNext
<1>3. ParserInv /\ StackInv /\ StackInv' /\ [Next]_vars => [Lists!Next]_<<Todo, ran, status>>
  BY ListsNext
<1> QED BY <1>1, <1>2, <1>3, PTL DEF Spec, ImplementsLists, Lists!Spec
=============================================================================
