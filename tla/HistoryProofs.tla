---------------------------- MODULE HistoryProofs ----------------------------
(***************************************************************************)
(* The ring of the history is a bounded log, and so is what the sessions   *)
(* of a user keep in the file, for every size of the ring.                 *)
(***************************************************************************)
EXTENDS History, TLAPS

Remember(l, cmd) == RingLog!Remember(l, cmd)

(* The facts about the constants that most steps need.                     *)
LEMMA HistoryConstants ==
  /\ HIST_SIZE \in Nat
  /\ HIST_SIZE > 0
  /\ ClearCommand \in Commands
BY HistoryRingAssumption, HistoryAssumption

-----------------------------------------------------------------------------
(* Arithmetic of the slots *)

(* One round of the ring at most is undone by the modulus.                 *)
LEMMA ModSize ==
  ASSUME NEW k \in Nat, k < 2 * HIST_SIZE
  PROVE  k % HIST_SIZE = IF k < HIST_SIZE THEN k ELSE k - HIST_SIZE
<1>1. CASE k < HIST_SIZE
  BY <1>1, HistoryConstants
<1>2. CASE k >= HIST_SIZE
  BY <1>2, HistoryConstants
<1> QED BY <1>1, <1>2, HistoryConstants

(* The slot after the last one is slot 0.                                  *)
LEMMA NextSlot ==
  ASSUME NEW s \in Nat, s < HIST_SIZE
  PROVE  (s + 1) % HIST_SIZE = IF s + 1 < HIST_SIZE THEN s + 1 ELSE 0
<1>1. PICK k : k = s + 1
  OBVIOUS
<1>2. k \in Nat /\ k < 2 * HIST_SIZE
  BY <1>1, HistoryConstants
<1>3. k % HIST_SIZE = IF k < HIST_SIZE THEN k ELSE k - HIST_SIZE
  BY <1>2, ModSize
<1>4. k % HIST_SIZE = IF k < HIST_SIZE THEN k ELSE 0
  <2>1. PICK m : m = k % HIST_SIZE
    OBVIOUS
  <2>2. m = IF k < HIST_SIZE THEN k ELSE k - HIST_SIZE
    BY <1>3, <2>1
  <2>3. m = IF k < HIST_SIZE THEN k ELSE 0
    BY <1>1, <2>2, HistoryConstants
  <2> QED BY <2>1, <2>3
<1> QED BY <1>1, <1>4

(* When the start moves by one, the slot it leaves becomes the last one,   *)
(* and every other slot comes one place nearer.                            *)
LEMMA MovedSlot ==
  ASSUME NEW s \in Nat, s < HIST_SIZE,
         NEW i \in Nat, 1 <= i, i <= HIST_SIZE,
         NEW u, u = (s + 1) % HIST_SIZE
  PROVE  /\ i = HIST_SIZE => (u + i - 1) % HIST_SIZE = s
         /\ i < HIST_SIZE => /\ (u + i - 1) % HIST_SIZE = (s + (i + 1) - 1) % HIST_SIZE
                             /\ (s + (i + 1) - 1) % HIST_SIZE # s
<1>1. u = IF s + 1 < HIST_SIZE THEN s + 1 ELSE 0
  BY NextSlot
<1>2. PICK k : k = u + i - 1
  OBVIOUS
<1>3. PICK l : l = s + (i + 1) - 1
  OBVIOUS
<1>4. /\ k \in Nat /\ k < 2 * HIST_SIZE
      /\ l \in Nat /\ l < 2 * HIST_SIZE
  BY <1>1, <1>2, <1>3, HistoryConstants
<1>5. /\ k % HIST_SIZE = IF k < HIST_SIZE THEN k ELSE k - HIST_SIZE
      /\ l % HIST_SIZE = IF l < HIST_SIZE THEN l ELSE l - HIST_SIZE
  BY <1>4, ModSize
<1>6. PICK km : km = k % HIST_SIZE
  OBVIOUS
<1>7. PICK lm : lm = l % HIST_SIZE
  OBVIOUS
<1>8. /\ km = IF k < HIST_SIZE THEN k ELSE k - HIST_SIZE
      /\ lm = IF l < HIST_SIZE THEN l ELSE l - HIST_SIZE
  BY <1>5, <1>6, <1>7
<1>9. /\ i = HIST_SIZE => km = s
      /\ i < HIST_SIZE => km = lm /\ lm # s
  BY <1>1, <1>2, <1>3, <1>4, <1>8, HistoryConstants
<1> QED BY <1>2, <1>3, <1>6, <1>7, <1>9

-----------------------------------------------------------------------------
(* The ring *)

(* What history prints, slot by slot.                                      *)
LEMMA PrintedFacts ==
  ASSUME NEW h \in history_t
  PROVE  /\ h.cmd_count \in Nat
         /\ h.cmd_count <= HIST_SIZE
         /\ Len(Printed(h)) = h.cmd_count
         /\ DOMAIN Printed(h) = 1 .. h.cmd_count
         /\ \A i \in 1 .. h.cmd_count :
              Printed(h)[i] = h.cmd_list[(h.start + i - 1) % HIST_SIZE]
BY HistoryConstants DEF history_t, Printed

LEMMA InitRing == RingOK(history_init) /\ Printed(history_init) = <<>>
<1>1. history_init \in history_t
  BY HistoryConstants DEF history_init, history_t, Slots
<1>2. Printed(history_init) = <<>>
  BY DEF Printed, history_init
<1> QED BY <1>1, <1>2 DEF RingOK, history_init

(* history -c *)
LEMMA ClearRing ==
  ASSUME NEW h, RingOK(h)
  PROVE  RingOK(clear(h)) /\ Printed(clear(h)) = <<>>
<1>1. clear(h) \in history_t
  BY HistoryConstants DEF RingOK, clear, history_t, Slots
<1>2. Printed(clear(h)) = <<>>
  BY DEF Printed, clear
<1> QED BY <1>1, <1>2 DEF RingOK, clear

(* A line of the file, or a command typed, is appended, and the oldest     *)
(* dropped from a full ring.                                               *)
LEMMA StoreRing ==
  ASSUME NEW h, RingOK(h), NEW cmd \in Commands
  PROVE  /\ RingOK(store(h, cmd))
         /\ Printed(store(h, cmd)) = Remember(Printed(h), cmd)
<1> DEFINE g == store(h, cmd)
<1> DEFINE r == Remember(Printed(h), cmd)
<1>0. /\ h \in history_t
      /\ Printed(h) \in Seq(Commands)
      /\ h.cmd_list \in [Slots -> Commands \cup {NoCommand}]
      /\ h.start \in Nat /\ h.start < HIST_SIZE
      /\ h.cmd_count \in Nat /\ h.cmd_count <= HIST_SIZE
      /\ Len(Printed(h)) = h.cmd_count
  BY HistoryConstants, PrintedFacts DEF RingOK, history_t, Slots
<1>1. g \in history_t
  <2>1. CASE h.cmd_count < HIST_SIZE
    BY <1>0, <2>1, HistoryConstants DEF store, Stored, history_t, Slots
  <2>2. CASE ~(h.cmd_count < HIST_SIZE)
    <3>1. (h.start + 1) % HIST_SIZE \in Slots
      BY <1>0, HistoryConstants, ModSize DEF Slots
    <3> QED BY <1>0, <2>2, <3>1, HistoryConstants DEF store, Stored, history_t, Slots
  <2> QED BY <2>1, <2>2
<1>2. g.cmd_count < HIST_SIZE => g.start = 0
  BY <1>0, HistoryConstants DEF store, Stored, RingOK, history_t
<1>3. r \in Seq(Commands)
  BY <1>0, HistoryConstants DEF Remember, RingLog!Remember
<1>4. Len(r) = g.cmd_count
  BY <1>0, HistoryConstants DEF Remember, RingLog!Remember, store, Stored, history_t
<1>5. ASSUME NEW i \in 1 .. g.cmd_count
      PROVE  g.cmd_list[(g.start + i - 1) % HIST_SIZE] = r[i]
  <2>1. CASE h.cmd_count < HIST_SIZE
    <3>1. /\ h.start = 0 /\ g.start = 0
          /\ g.cmd_count = h.cmd_count + 1
          /\ g.cmd_list = [h.cmd_list EXCEPT ![h.cmd_count] = cmd]
      BY <1>0, <2>1 DEF RingOK, store, Stored, history_t
    <3>2. i - 1 \in Nat /\ i - 1 < HIST_SIZE /\ i - 1 \in Slots
      BY <1>0, <2>1, <3>1, HistoryConstants DEF Slots
    <3>3. (g.start + i - 1) % HIST_SIZE = i - 1
      BY <3>1, <3>2, ModSize, HistoryConstants
    <3>4. r = Append(Printed(h), cmd)
      BY <1>0, <2>1 DEF Remember, RingLog!Remember
    <3>5. CASE i = h.cmd_count + 1
      BY <1>0, <3>1, <3>2, <3>3, <3>4, <3>5
    <3>6. CASE i # h.cmd_count + 1
      <4>1. i \in 1 .. h.cmd_count
        BY <1>0, <3>1, <3>6
      <4>2. Printed(h)[i] = h.cmd_list[i - 1]
        BY <1>0, <3>1, <3>3, <4>1, PrintedFacts
      <4> QED BY <1>0, <3>1, <3>2, <3>3, <3>4, <4>1, <4>2
    <3> QED BY <3>5, <3>6
  <2>2. CASE ~(h.cmd_count < HIST_SIZE)
    <3>1. /\ g.cmd_count = HIST_SIZE /\ h.cmd_count = HIST_SIZE
          /\ g.cmd_list = [h.cmd_list EXCEPT ![h.start] = cmd]
          /\ g.start = (h.start + 1) % HIST_SIZE
      BY <1>0, <2>2, HistoryConstants DEF store, Stored, history_t
    <3>2. r = Append(Tail(Printed(h)), cmd)
      BY <1>0, <2>2 DEF Remember, RingLog!Remember
    <3>3. i \in 1 .. HIST_SIZE
      BY <3>1
    <3>4. /\ i = HIST_SIZE => (g.start + i - 1) % HIST_SIZE = h.start
          /\ i < HIST_SIZE =>
               /\ (g.start + i - 1) % HIST_SIZE = (h.start + (i + 1) - 1) % HIST_SIZE
               /\ (h.start + (i + 1) - 1) % HIST_SIZE # h.start
      <4>1. i \in Nat /\ 1 <= i /\ i <= HIST_SIZE
        BY <3>3, HistoryConstants
      <4> HIDE DEF g
      <4> QED BY <1>0, <3>1, <4>1, MovedSlot
    <3>5. CASE i = HIST_SIZE
      <4>1. (g.start + i - 1) % HIST_SIZE = h.start
        BY <3>4, <3>5
      <4>2. r[i] = cmd
        BY <1>0, <3>1, <3>2, <3>5, HistoryConstants
      <4> QED BY <1>0, <3>1, <4>1, <4>2 DEF Slots
    <3>6. CASE i < HIST_SIZE
      <4>1. (g.start + i - 1) % HIST_SIZE = (h.start + (i + 1) - 1) % HIST_SIZE
        BY <3>4, <3>6
      <4>2. (h.start + (i + 1) - 1) % HIST_SIZE # h.start
        BY <3>4, <3>6
      <4>3. r[i] = Printed(h)[i + 1]
        <5> DEFINE l == Printed(h)
        <5>1. l \in Seq(Commands) /\ Len(l) = HIST_SIZE /\ r = Append(Tail(l), cmd)
          BY <1>0, <3>1, <3>2
        <5> HIDE DEF l
        <5>2. /\ Tail(l) \in Seq(Commands)
              /\ Len(Tail(l)) = HIST_SIZE - 1
              /\ Tail(l)[i] = l[i + 1]
          BY <3>3, <3>6, <5>1, HistoryConstants
        <5>3. r[i] = Tail(l)[i]
          BY <3>3, <3>6, <5>1, <5>2, HistoryConstants
        <5> QED BY <5>2, <5>3 DEF l
      <4>4. Printed(h)[i + 1] = h.cmd_list[(h.start + (i + 1) - 1) % HIST_SIZE]
        <5>1. i + 1 \in 1 .. h.cmd_count
          BY <3>1, <3>3, <3>6, HistoryConstants
        <5> QED BY <1>0, <5>1, PrintedFacts
      <4> QED BY <1>0, <3>1, <4>1, <4>2, <4>3, <4>4
    <3> QED BY <3>3, <3>5, <3>6, HistoryConstants
  <2> QED BY <2>1, <2>2
<1>6. Printed(g) = r
  <2>1. /\ Len(r) = Len(Printed(g))
        /\ DOMAIN Printed(g) = 1 .. g.cmd_count
        /\ \A i \in 1 .. g.cmd_count : Printed(g)[i] = r[i]
    BY <1>1, <1>4, <1>5, PrintedFacts
  <2>2. Printed(g) = [i \in 1 .. g.cmd_count |-> Printed(g)[i]]
    BY DEF Printed
  <2>3. r = [i \in 1 .. Len(r) |-> r[i]]
    BY <1>3
  <2> HIDE DEF g, r
  <2> QED BY <1>4, <2>1, <2>2, <2>3
<1> QED BY <1>1, <1>2, <1>3, <1>6 DEF RingOK

-----------------------------------------------------------------------------
(* The file *)

(* The last lines of a file that grows by one.                             *)
LEMMA RecentFacts ==
  ASSUME NEW l \in Seq(Commands)
  PROVE  /\ Recent(l) \in Seq(Commands)
         /\ Len(Recent(l)) = IF Len(l) <= HIST_SIZE THEN Len(l) ELSE HIST_SIZE
         /\ \A i \in 1 .. Len(Recent(l)) : Recent(l)[i] = l[Len(l) - Len(Recent(l)) + i]
<1>1. CASE Len(l) <= HIST_SIZE
  BY <1>1, HistoryConstants DEF Recent
<1>2. CASE ~(Len(l) <= HIST_SIZE)
  <2>1. Recent(l) = SubSeq(l, Len(l) - HIST_SIZE + 1, Len(l))
    BY <1>2 DEF Recent
  <2>2. /\ Len(l) - HIST_SIZE + 1 \in 1 .. Len(l)
        /\ Len(l) \in Nat
    BY <1>2, HistoryConstants
  <2>3. PICK m : m = Len(l) - HIST_SIZE + 1
    OBVIOUS
  <2>4. /\ SubSeq(l, m, Len(l)) \in Seq(Commands)
        /\ Len(SubSeq(l, m, Len(l))) = Len(l) - m + 1
        /\ \A i \in 1 .. Len(l) - m + 1 : SubSeq(l, m, Len(l))[i] = l[m + i - 1]
    BY <2>2, <2>3
  <2>5. Len(l) - m + 1 = HIST_SIZE
    BY <2>2, <2>3, HistoryConstants
  <2>6. Recent(l) = SubSeq(l, m, Len(l))
    BY <2>1, <2>3
  <2>7. ASSUME NEW i \in 1 .. HIST_SIZE
        PROVE  m + i - 1 = Len(l) - HIST_SIZE + i
    BY <2>2, <2>3, HistoryConstants
  <2> QED BY <1>2, <2>4, <2>5, <2>6, <2>7
<1> QED BY <1>1, <1>2

LEMMA RecentAppend ==
  ASSUME NEW l \in Seq(Commands), NEW cmd \in Commands
  PROVE  Recent(Append(l, cmd)) = Remember(Recent(l), cmd)
<1>1. PICK r : r = Recent(l)
  OBVIOUS
<1>2. PICK m : m = Append(l, cmd)
  OBVIOUS
<1>3. /\ m \in Seq(Commands)
      /\ Len(m) = Len(l) + 1
      /\ m[Len(l) + 1] = cmd
      /\ \A i \in 1 .. Len(l) : m[i] = l[i]
  BY <1>2
<1>4. PICK q : q = Recent(m)
  OBVIOUS
<1>5. /\ r \in Seq(Commands)
      /\ Len(r) = IF Len(l) <= HIST_SIZE THEN Len(l) ELSE HIST_SIZE
      /\ \A i \in 1 .. Len(r) : r[i] = l[Len(l) - Len(r) + i]
  BY <1>1, RecentFacts
<1>6. /\ q \in Seq(Commands)
      /\ Len(q) = IF Len(l) + 1 <= HIST_SIZE THEN Len(l) + 1 ELSE HIST_SIZE
      /\ \A i \in 1 .. Len(q) : q[i] = m[Len(m) - Len(q) + i]
  BY <1>3, <1>4, RecentFacts
<1>7. CASE Len(l) < HIST_SIZE
  <2>1. l = r /\ m = q
    BY <1>1, <1>3, <1>4, <1>7, HistoryConstants DEF Recent
  <2> QED BY <1>1, <1>2, <1>4, <1>7, <2>1 DEF Remember, RingLog!Remember
<1>8. CASE ~(Len(l) < HIST_SIZE)
  <2>1. Len(r) = HIST_SIZE /\ Len(q) = HIST_SIZE /\ Len(l) \in Nat
    BY <1>5, <1>6, <1>8, HistoryConstants
  <2>2. PICK t : t = Append(Tail(r), cmd)
    OBVIOUS
  <2>3. /\ t \in Seq(Commands)
        /\ Len(t) = HIST_SIZE
        /\ t[HIST_SIZE] = cmd
        /\ \A i \in 1 .. HIST_SIZE - 1 : t[i] = r[i + 1]
    BY <1>5, <2>1, <2>2, HistoryConstants
  <2>4. ASSUME NEW i \in 1 .. HIST_SIZE
        PROVE  q[i] = t[i]
    <3>1. q[i] = m[Len(l) + 1 - HIST_SIZE + i]
      BY <1>3, <1>6, <2>1
    <3>2. CASE i = HIST_SIZE
      <4>1. Len(l) + 1 - HIST_SIZE + i = Len(l) + 1
        BY <2>1, <3>2, HistoryConstants
      <4> QED BY <1>3, <2>3, <3>1, <3>2, <4>1
    <3>3. CASE i # HIST_SIZE
      <4>1. /\ i \in 1 .. HIST_SIZE - 1
            /\ i + 1 \in 1 .. HIST_SIZE
            /\ Len(l) + 1 - HIST_SIZE + i \in 1 .. Len(l)
            /\ Len(l) + 1 - HIST_SIZE + i = Len(l) - HIST_SIZE + (i + 1)
        BY <1>8, <2>1, <3>3, HistoryConstants
      <4>2. t[i] = r[i + 1] /\ r[i + 1] = l[Len(l) - HIST_SIZE + (i + 1)]
        BY <1>5, <2>1, <2>3, <4>1
      <4> QED BY <1>3, <3>1, <4>1, <4>2
    <3> QED BY <3>2, <3>3
  <2>5. q = t
    BY <1>6, <2>1, <2>3, <2>4
  <2>6. Remember(r, cmd) = t
    BY <2>1, <2>2, HistoryConstants DEF Remember, RingLog!Remember
  <2> QED BY <1>1, <1>2, <1>4, <2>5, <2>6
<1> QED BY <1>7, <1>8

(* IsSuffix, element by element.                                           *)
LEMMA SuffixFacts ==
  ASSUME NEW s \in Seq(Commands), NEW t \in Seq(Commands)
  PROVE  IsSuffix(s, t) <=> /\ Len(s) <= Len(t)
                            /\ \A i \in 1 .. Len(s) : s[i] = t[Len(t) - Len(s) + i]
<1>1. PICK rs : rs = Reverse(s)
  OBVIOUS
<1>2. PICK rt : rt = Reverse(t)
  OBVIOUS
<1>3. /\ Len(s) \in Nat /\ Len(t) \in Nat
      /\ rs \in Seq(Commands) /\ Len(rs) = Len(s)
      /\ rt \in Seq(Commands) /\ Len(rt) = Len(t)
      /\ \A i \in 1 .. Len(s) : rs[i] = s[Len(s) - i + 1]
      /\ \A i \in 1 .. Len(t) : rt[i] = t[Len(t) - i + 1]
  BY <1>1, <1>2 DEF Reverse
<1>4. IsSuffix(s, t) <=>
        Len(s) <= Len(t) /\ SubSeq(rs, 1, Len(s)) = SubSeq(rt, 1, Len(s))
  BY <1>1, <1>2, <1>3 DEF IsSuffix, IsPrefix
<1>5. ASSUME Len(s) <= Len(t)
      PROVE  SubSeq(rs, 1, Len(s)) = SubSeq(rt, 1, Len(s)) <=>
               \A i \in 1 .. Len(s) : rs[i] = rt[i]
  <2>1. PICK a : a = SubSeq(rs, 1, Len(s))
    OBVIOUS
  <2>2. PICK b : b = SubSeq(rt, 1, Len(s))
    OBVIOUS
  <2>3. /\ a \in Seq(Commands) /\ Len(a) = Len(s)
        /\ b \in Seq(Commands) /\ Len(b) = Len(s)
        /\ \A i \in 1 .. Len(s) : a[i] = rs[i] /\ b[i] = rt[i]
    BY <1>3, <1>5, <2>1, <2>2
  <2>4. a = b <=> \A i \in 1 .. Len(s) : a[i] = b[i]
    BY <2>3
  <2> QED BY <2>1, <2>2, <2>3, <2>4
<1>6. ASSUME Len(s) <= Len(t)
      PROVE  (\A i \in 1 .. Len(s) : rs[i] = rt[i]) <=>
               \A i \in 1 .. Len(s) : s[i] = t[Len(t) - Len(s) + i]
  <2>1. ASSUME \A i \in 1 .. Len(s) : rs[i] = rt[i], NEW i \in 1 .. Len(s)
        PROVE  s[i] = t[Len(t) - Len(s) + i]
    <3>1. PICK k : k = Len(s) - i + 1
      OBVIOUS
    <3>2. /\ k \in 1 .. Len(s) /\ k \in 1 .. Len(t)
          /\ Len(s) - k + 1 = i
          /\ Len(t) - k + 1 = Len(t) - Len(s) + i
      BY <1>3, <1>6, <3>1
    <3> QED BY <1>3, <2>1, <3>2
  <2>2. ASSUME \A i \in 1 .. Len(s) : s[i] = t[Len(t) - Len(s) + i], NEW k \in 1 .. Len(s)
        PROVE  rs[k] = rt[k]
    <3>1. PICK i : i = Len(s) - k + 1
      OBVIOUS
    <3>2. /\ i \in 1 .. Len(s) /\ k \in 1 .. Len(t)
          /\ Len(t) - k + 1 = Len(t) - Len(s) + i
      BY <1>3, <1>6, <3>1
    <3> QED BY <1>3, <2>2, <3>1, <3>2
  <2> QED BY <2>1, <2>2
<1> QED BY <1>4, <1>5, <1>6

(* A suffix stays one when both remember the same command.                 *)
LEMMA SuffixRemember ==
  ASSUME NEW s \in Seq(Commands), NEW t \in Seq(Commands), NEW cmd \in Commands,
         IsSuffix(s, t), Len(t) <= HIST_SIZE
  PROVE  IsSuffix(Remember(s, cmd), Remember(t, cmd))
<1>1. /\ Len(s) \in Nat /\ Len(t) \in Nat
      /\ Len(s) <= Len(t)
      /\ \A i \in 1 .. Len(s) : s[i] = t[Len(t) - Len(s) + i]
  BY SuffixFacts
<1>2. ASSUME NEW l \in Seq(Commands), Len(l) <= HIST_SIZE
      PROVE  /\ Remember(l, cmd) \in Seq(Commands)
             /\ Len(Remember(l, cmd)) = IF Len(l) < HIST_SIZE THEN Len(l) + 1 ELSE Len(l)
             /\ Remember(l, cmd)[Len(Remember(l, cmd))] = cmd
             /\ \A i \in 1 .. Len(Remember(l, cmd)) - 1 :
                  Remember(l, cmd)[i] = l[Len(l) - Len(Remember(l, cmd)) + 1 + i]
  <2>1. PICK q : q = Remember(l, cmd)
    OBVIOUS
  <2>2. CASE Len(l) < HIST_SIZE
    <3>1. q = Append(l, cmd)
      BY <2>1, <2>2 DEF Remember, RingLog!Remember
    <3>2. /\ q \in Seq(Commands) /\ Len(q) = Len(l) + 1
          /\ q[Len(q)] = cmd
          /\ \A i \in 1 .. Len(q) - 1 : q[i] = l[i]
      BY <3>1
    <3>3. \A i \in 1 .. Len(q) - 1 : Len(l) - Len(q) + 1 + i = i
      BY <3>2
    <3> QED BY <2>1, <2>2, <3>2, <3>3
  <2>3. CASE ~(Len(l) < HIST_SIZE)
    <3>1. q = Append(Tail(l), cmd)
      BY <2>1, <2>3 DEF Remember, RingLog!Remember
    <3>2. Len(l) = HIST_SIZE /\ l # <<>>
      BY <1>2, <2>3, HistoryConstants
    <3>3. /\ q \in Seq(Commands) /\ Len(q) = Len(l)
          /\ q[Len(q)] = cmd
          /\ \A i \in 1 .. Len(q) - 1 : q[i] = l[i + 1]
      BY <3>1, <3>2, HistoryConstants
    <3>4. \A i \in 1 .. Len(q) - 1 : Len(l) - Len(q) + 1 + i = i + 1
      BY <3>3
    <3> QED BY <2>1, <2>3, <3>3, <3>4
  <2> QED BY <2>2, <2>3
<1>3. PICK p : p = Remember(s, cmd)
  OBVIOUS
<1>4. PICK q : q = Remember(t, cmd)
  OBVIOUS
<1>5. /\ p \in Seq(Commands) /\ Len(p) \in Nat
      /\ Len(p) = IF Len(s) < HIST_SIZE THEN Len(s) + 1 ELSE Len(s)
      /\ p[Len(p)] = cmd
      /\ \A i \in 1 .. Len(p) - 1 : p[i] = s[Len(s) - Len(p) + 1 + i]
  BY <1>1, <1>2, <1>3, HistoryConstants
<1>6. /\ q \in Seq(Commands) /\ Len(q) \in Nat
      /\ Len(q) = IF Len(t) < HIST_SIZE THEN Len(t) + 1 ELSE Len(t)
      /\ q[Len(q)] = cmd
      /\ \A i \in 1 .. Len(q) - 1 : q[i] = t[Len(t) - Len(q) + 1 + i]
  BY <1>1, <1>2, <1>4
<1>7. Len(p) <= Len(q)
  BY <1>1, <1>5, <1>6, HistoryConstants
<1>8. ASSUME NEW i \in 1 .. Len(p)
      PROVE  p[i] = q[Len(q) - Len(p) + i]
  <2>1. CASE i = Len(p)
    <3>1. Len(q) - Len(p) + i = Len(q)
      BY <1>5, <1>6, <2>1
    <3> QED BY <1>5, <1>6, <2>1, <3>1
  <2>2. CASE i # Len(p)
    <3>1. PICK k : k = Len(s) - Len(p) + 1 + i
      OBVIOUS
    <3>2. PICK m : m = Len(q) - Len(p) + i
      OBVIOUS
    <3>3. /\ i \in 1 .. Len(p) - 1
          /\ k \in 1 .. Len(s)
          /\ m \in 1 .. Len(q) - 1
          /\ Len(t) - Len(s) + k = Len(t) - Len(q) + 1 + m
      <4>1. PICK ls, lt, lp, lq \in Nat :
              ls = Len(s) /\ lt = Len(t) /\ lp = Len(p) /\ lq = Len(q)
        BY <1>1, <1>5, <1>6
      <4>2. /\ i \in Nat /\ 1 <= i /\ i < lp
            /\ k = ls - lp + 1 + i /\ m = lq - lp + i
            /\ lp = IF ls < HIST_SIZE THEN ls + 1 ELSE ls
            /\ lp <= lq
        BY <1>5, <1>7, <2>2, <3>1, <3>2, <4>1
      <4> QED BY <4>1, <4>2, HistoryConstants
    <3>4. p[i] = s[k] /\ s[k] = t[Len(t) - Len(s) + k] /\ q[m] = t[Len(t) - Len(q) + 1 + m]
      BY <1>1, <1>5, <1>6, <3>1, <3>3
    <3> QED BY <3>2, <3>3, <3>4
  <2> QED BY <2>1, <2>2
<1>9. IsSuffix(p, q)
  BY <1>5, <1>6, <1>7, <1>8, SuffixFacts
<1> QED BY <1>3, <1>4, <1>9

-----------------------------------------------------------------------------
(* The invariant, and what a step does to either log *)

SavedLog == IF at = "trim" THEN Printed(hist) ELSE Recent(file)

RingStep ==
  \/ Printed(hist)' = Printed(hist)
  \/ Printed(hist)' = <<>>
  \/ \E cmd \in Commands : Printed(hist)' = Remember(Printed(hist), cmd)

FileStep ==
  \/ SavedLog' = SavedLog
  \/ \E cmd \in Commands : SavedLog' = Remember(SavedLog, cmd)

LEMMA HistoryInit ==
  Init => HistoryInv /\ Printed(hist) = <<>> /\ SavedLog = <<>>
<1> SUFFICES ASSUME Init
             PROVE  HistoryInv /\ Printed(hist) = <<>> /\ SavedLog = <<>>
  OBVIOUS
<1>1. RingOK(hist) /\ Printed(hist) = <<>> /\ hist.cmd_count = 0
  BY InitRing DEF Init, history_init
<1>2. Recent(file) = <<>>
  BY HistoryConstants DEF Init, Recent
<1> QED BY <1>1, <1>2 DEF Init, HistoryInv, HistoryTypeOK, PrintedIsSaved, SavedLog, RingOK

(* The empty ring a session starts with.                                   *)
LEMMA SessionEnds ==
  ASSUME HistoryInv, EndSession, file' \in Seq(Commands)
  PROVE  HistoryInv' /\ RingStep
<1>1. RingOK(hist)' /\ Printed(hist)' = <<>> /\ hist'.cmd_count = 0
  BY InitRing DEF EndSession, history_init, RingOK, Printed
<1>2. HistoryInv'
  BY <1>1 DEF EndSession, HistoryInv, HistoryTypeOK, PrintedIsSaved, RingOK
<1> QED BY <1>1, <1>2 DEF RingStep

LEMMA StartSessionKeeps ==
  HistoryInv /\ StartSession => HistoryInv' /\ RingStep /\ FileStep
<1> SUFFICES ASSUME HistoryInv, StartSession
             PROVE  HistoryInv' /\ RingStep /\ FileStep
  OBVIOUS
<1>1. /\ at = "off" /\ at' = "load" /\ file' = file /\ hist' = hist /\ pos' = pos
      /\ pos = 0 /\ hist.cmd_count = 0
  BY DEF StartSession, HistoryInv
<1>2. /\ RingOK(hist)' /\ Printed(hist)' = Printed(hist)
      /\ SavedLog' = SavedLog
  BY <1>1 DEF HistoryInv, RingOK, SavedLog, Printed, Recent
<1>3. Printed(hist)' = Recent(SubSeq(file, 1, pos))'
  <2>1. SubSeq(file, 1, 0) = <<>>
    BY DEF HistoryInv, HistoryTypeOK
  <2>2. Recent(<<>>) = <<>>
    BY HistoryConstants DEF Recent
  <2>3. Printed(hist) = <<>>
    BY <1>1 DEF Printed
  <2>4. Recent(SubSeq(file, 1, pos))' = Recent(SubSeq(file, 1, 0))
    BY <1>1 DEF Recent
  <2> QED BY <1>2, <2>1, <2>2, <2>3, <2>4
<1>4. HistoryInv'
  BY <1>1, <1>2, <1>3 DEF HistoryInv, HistoryTypeOK, PrintedIsSaved
<1> QED BY <1>2, <1>4 DEF RingStep, FileStep

LEMMA LoadLineKeeps ==
  HistoryInv /\ LoadLine => HistoryInv' /\ RingStep /\ FileStep
<1> SUFFICES ASSUME HistoryInv, LoadLine
             PROVE  HistoryInv' /\ RingStep /\ FileStep
  OBVIOUS
<1>1. /\ at = "load" /\ at' = "load" /\ file' = file /\ file \in Seq(Commands)
      /\ pos \in Nat /\ pos < Len(file) /\ pos' = pos + 1
      /\ hist' = store(hist, file[pos + 1])
      /\ RingOK(hist)
      /\ Printed(hist) = Recent(SubSeq(file, 1, pos))
  BY DEF LoadLine, HistoryInv, HistoryTypeOK
<1>2. PICK cmd : cmd = file[pos + 1]
  OBVIOUS
<1>3. cmd \in Commands
  BY <1>1, <1>2
<1>4. RingOK(hist)' /\ Printed(hist)' = Remember(Printed(hist), cmd)
  <2>1. PICK g : g = store(hist, cmd)
    OBVIOUS
  <2>2. RingOK(g) /\ Printed(g) = Remember(Printed(hist), cmd)
    BY <1>1, <1>3, <2>1, StoreRing
  <2>3. hist' = g
    BY <1>1, <1>2, <2>1
  <2>4. RingOK(hist') /\ Printed(hist') = Remember(Printed(hist), cmd)
    BY <2>2, <2>3
  <2> QED BY <2>4 DEF RingOK, Printed
<1>5. SubSeq(file, 1, pos + 1) = Append(SubSeq(file, 1, pos), cmd)
  BY <1>1, <1>2
<1>6. SubSeq(file, 1, pos) \in Seq(Commands)
  BY <1>1
<1>7. Printed(hist)' = Recent(SubSeq(file, 1, pos + 1))
  BY <1>1, <1>3, <1>4, <1>5, <1>6, RecentAppend
<1>8. Printed(hist)' = Recent(SubSeq(file, 1, pos))'
  BY <1>1, <1>7 DEF Recent
<1>9. HistoryInv'
  BY <1>1, <1>4, <1>8 DEF HistoryInv, HistoryTypeOK, PrintedIsSaved, RingOK
<1>10. SavedLog' = SavedLog
  BY <1>1 DEF SavedLog, Recent
<1> QED BY <1>3, <1>4, <1>9, <1>10 DEF RingStep, FileStep

LEMMA LoadDoneKeeps ==
  HistoryInv /\ LoadDone => HistoryInv' /\ RingStep /\ FileStep
<1> SUFFICES ASSUME HistoryInv, LoadDone
             PROVE  HistoryInv' /\ RingStep /\ FileStep
  OBVIOUS
<1>1. /\ at = "load" /\ at' = "prompt" /\ file' = file /\ file \in Seq(Commands)
      /\ hist' = hist /\ pos' = 0 /\ pos = Len(file)
      /\ RingOK(hist)
      /\ Printed(hist) = Recent(SubSeq(file, 1, pos))
  BY DEF LoadDone, HistoryInv, HistoryTypeOK
<1>2. RingOK(hist)' /\ Printed(hist)' = Printed(hist) /\ SavedLog' = SavedLog
  BY <1>1 DEF RingOK, Printed, SavedLog, Recent
<1>3. SubSeq(file, 1, pos) = file
  BY <1>1
<1>4. Printed(hist) = Recent(file)
  BY <1>1, <1>3
<1>5. IsSuffix(Recent(file), Recent(file))
  <2>1. Recent(file) \in Seq(Commands) /\ Len(Recent(file)) \in Nat
    BY <1>1, RecentFacts, HistoryConstants
  <2>2. \A i \in 1 .. Len(Recent(file)) : Len(Recent(file)) - Len(Recent(file)) + i = i
    BY <2>1
  <2> QED BY <2>1, <2>2, SuffixFacts
<1>6. PrintedIsSaved'
  BY <1>1, <1>2, <1>4, <1>5 DEF PrintedIsSaved, Recent
<1>7. HistoryInv'
  BY <1>1, <1>2, <1>6 DEF HistoryInv, HistoryTypeOK
<1> QED BY <1>2, <1>7 DEF RingStep, FileStep

LEMMA TypeKeeps ==
  ASSUME HistoryInv, NEW cmd \in Commands, Type(cmd)
  PROVE  HistoryInv' /\ RingStep /\ FileStep
<1>1. /\ at = "prompt" /\ at' = "prompt" /\ file \in Seq(Commands)
      /\ file' = Append(file, cmd) /\ file' \in Seq(Commands)
      /\ pos' = pos /\ pos = 0
      /\ RingOK(hist)
      /\ IsSuffix(Printed(hist), Recent(file))
  BY DEF Type, history_save_command, HistoryInv, HistoryTypeOK, PrintedIsSaved
<1>2. SavedLog' = Recent(file') /\ SavedLog = Recent(file)
  BY <1>1 DEF SavedLog, Recent
<1>3. Recent(file') = Remember(Recent(file), cmd)
  BY <1>1, RecentAppend
<1>4. /\ Recent(file) \in Seq(Commands) /\ Len(Recent(file)) <= HIST_SIZE
      /\ Recent(file') \in Seq(Commands)
  <2>1. ASSUME NEW l \in Seq(Commands)
        PROVE  Recent(l) \in Seq(Commands) /\ Len(Recent(l)) <= HIST_SIZE
    BY RecentFacts, HistoryConstants
  <2>2. PICK l : l = file'
    OBVIOUS
  <2>3. l \in Seq(Commands)
    BY <1>1, <2>2
  <2>4. Recent(l) \in Seq(Commands)
    BY <2>1, <2>3
  <2>5. Recent(file) \in Seq(Commands) /\ Len(Recent(file)) <= HIST_SIZE
    BY <1>1, <2>1
  <2> QED BY <2>2, <2>4, <2>5
<1>5. PICK g : g = store(hist, cmd)
  OBVIOUS
<1>6. RingOK(g) /\ Printed(g) = Remember(Printed(hist), cmd)
  BY <1>1, <1>5, StoreRing
<1>7. /\ RingOK(hist')
      /\ RingStep
      /\ IsSuffix(Printed(hist'), Recent(file'))
  <2>1. CASE cmd = ClearCommand
    <3>1. hist' = clear(g)
      BY <1>5, <2>1 DEF Type
    <3>2. RingOK(hist') /\ Printed(hist') = <<>>
      BY <1>6, <3>1, ClearRing
    <3>3. IsSuffix(<<>>, Recent(file'))
      <4>1. PICK l : l = Recent(file')
        OBVIOUS
      <4>2. PICK e : e = <<>>
        OBVIOUS
      <4>3. /\ e \in Seq(Commands) /\ Len(e) = 0
            /\ l \in Seq(Commands) /\ Len(e) <= Len(l)
        BY <1>4, <4>1, <4>2
      <4>4. \A i \in 1 .. Len(e) : e[i] = l[Len(l) - Len(e) + i]
        BY <4>3
      <4>5. IsSuffix(e, l)
        BY <4>3, <4>4, SuffixFacts
      <4> QED BY <4>1, <4>2, <4>5
    <3>4. RingStep
      BY <3>2 DEF RingStep, Printed
    <3> QED BY <3>2, <3>3, <3>4
  <2>2. CASE cmd # ClearCommand
    <3>1. hist' = g
      BY <1>5, <2>2 DEF Type
    <3>2. IsSuffix(Printed(g), Recent(file'))
      BY <1>1, <1>3, <1>4, <1>6, SuffixRemember DEF RingOK
    <3>3. Printed(hist)' = Remember(Printed(hist), cmd)
      BY <1>6, <3>1 DEF Printed
    <3>4. RingStep
      BY <3>3 DEF RingStep
    <3> QED BY <1>6, <3>1, <3>2, <3>4
  <2> QED BY <2>1, <2>2
<1>8. PrintedIsSaved'
  BY <1>7 DEF PrintedIsSaved, Printed, Recent
<1>9. RingOK(hist)'
  BY <1>7 DEF RingOK, Printed
<1>10. HistoryInv'
  BY <1>1, <1>8, <1>9 DEF HistoryInv, HistoryTypeOK, RingOK
<1> QED BY <1>2, <1>3, <1>7, <1>10 DEF FileStep

LEMMA LeaveKeeps ==
  HistoryInv /\ Leave => HistoryInv' /\ RingStep /\ FileStep
<1> SUFFICES ASSUME HistoryInv, Leave
             PROVE  HistoryInv' /\ RingStep /\ FileStep
  OBVIOUS
<1>1. /\ at = "prompt" /\ file \in Seq(Commands) /\ pos = 0
      /\ RingOK(hist) /\ hist \in history_t
      /\ IsSuffix(Printed(hist), Recent(file))
  BY DEF Leave, HistoryInv, HistoryTypeOK, PrintedIsSaved, RingOK
<1>2. CASE hist.cmd_count < HIST_SIZE
  <2>1. EndSession /\ file' = file
    BY <1>2 DEF Leave
  <2>2. HistoryInv' /\ RingStep
    BY <1>1, <2>1, SessionEnds
  <2>3. SavedLog' = SavedLog
    BY <1>1, <2>1 DEF EndSession, SavedLog, Recent
  <2> QED BY <2>2, <2>3 DEF FileStep
<1>3. CASE ~(hist.cmd_count < HIST_SIZE)
  <2>1. at' = "trim" /\ file' = <<>> /\ hist' = hist /\ pos' = 0
    BY <1>1, <1>3 DEF Leave
  <2>2. hist.cmd_count = HIST_SIZE /\ Len(Printed(hist)) = HIST_SIZE
    BY <1>1, <1>3, PrintedFacts, HistoryConstants
  <2>3. Printed(hist) \in Seq(Commands)
    BY <1>1 DEF RingOK
  <2>4. Printed(hist) = Recent(file)
    <3>1. PICK s : s = Printed(hist)
      OBVIOUS
    <3>2. PICK t : t = Recent(file)
      OBVIOUS
    <3>3. /\ s \in Seq(Commands) /\ Len(s) = HIST_SIZE
          /\ t \in Seq(Commands) /\ Len(t) <= HIST_SIZE /\ Len(t) \in Nat
      BY <1>1, <2>2, <2>3, <3>1, <3>2, RecentFacts, HistoryConstants
    <3>4. /\ Len(s) <= Len(t)
          /\ \A i \in 1 .. Len(s) : s[i] = t[Len(t) - Len(s) + i]
      BY <1>1, <3>1, <3>2, <3>3, SuffixFacts
    <3>5. Len(s) = Len(t) /\ \A i \in 1 .. Len(s) : Len(t) - Len(s) + i = i
      BY <3>3, <3>4, HistoryConstants
    <3>6. \A i \in 1 .. Len(s) : s[i] = t[i]
      BY <3>4, <3>5
    <3> QED BY <3>1, <3>2, <3>3, <3>5, <3>6
  <2>5. /\ RingOK(hist)' /\ Printed(hist)' = Printed(hist)
        /\ SavedLog' = Printed(hist) /\ SavedLog = Recent(file)
    BY <1>1, <2>1 DEF RingOK, Printed, SavedLog
  <2>6. SubSeq(Printed(hist), 1, 0) = <<>>
    BY <2>3
  <2>7. file' = SubSeq(Printed(hist), 1, pos)'
    BY <2>1, <2>5, <2>6
  <2>8. HistoryInv'
    BY <2>1, <2>2, <2>5, <2>7, HistoryConstants DEF HistoryInv, HistoryTypeOK, PrintedIsSaved, RingOK
  <2> QED BY <2>4, <2>5, <2>8 DEF RingStep, FileStep
<1> QED BY <1>2, <1>3

LEMMA TrimLineKeeps ==
  HistoryInv /\ TrimLine => HistoryInv' /\ RingStep /\ FileStep
<1> SUFFICES ASSUME HistoryInv, TrimLine
             PROVE  HistoryInv' /\ RingStep /\ FileStep
  OBVIOUS
<1>1. /\ at = "trim" /\ at' = "trim" /\ hist' = hist
      /\ pos \in Nat /\ pos < HIST_SIZE /\ pos' = pos + 1
      /\ hist.cmd_count = HIST_SIZE
      /\ hist \in history_t /\ RingOK(hist)
      /\ file = SubSeq(Printed(hist), 1, pos)
      /\ file' = Append(file, trimmed_line(pos))
  BY DEF TrimLine, HistoryInv, HistoryTypeOK, RingOK
<1>2. PICK l : l = Printed(hist)
  OBVIOUS
<1>3. l \in Seq(Commands) /\ Len(l) = HIST_SIZE
  BY <1>1, <1>2, PrintedFacts DEF RingOK
<1>4. pos + 1 \in 1 .. HIST_SIZE
  BY <1>1, HistoryConstants
<1>5. trimmed_line(pos) = l[pos + 1]
  <2>1. hist.start + (pos + 1) - 1 = hist.start + pos
    BY <1>1, HistoryConstants DEF history_t, Slots
  <2>2. l[pos + 1] = hist.cmd_list[(hist.start + (pos + 1) - 1) % HIST_SIZE]
    BY <1>1, <1>2, <1>4, PrintedFacts
  <2> QED BY <2>1, <2>2 DEF trimmed_line
<1>6. file' = SubSeq(l, 1, pos + 1)
  <2>1. SubSeq(l, 1, pos + 1) = Append(SubSeq(l, 1, pos), l[pos + 1])
    BY <1>1, <1>3, <1>4
  <2> QED BY <1>1, <1>2, <1>5, <2>1
<1>7. file' \in Seq(Commands)
  BY <1>3, <1>4, <1>6, HistoryConstants
<1>8. RingOK(hist)' /\ Printed(hist)' = l /\ SavedLog' = SavedLog
  BY <1>1, <1>2 DEF RingOK, Printed, SavedLog
<1>9. file' = SubSeq(Printed(hist), 1, pos)'
  BY <1>1, <1>6, <1>8
<1>10. HistoryInv'
  BY <1>1, <1>4, <1>7, <1>8, <1>9, HistoryConstants
     DEF HistoryInv, HistoryTypeOK, PrintedIsSaved, RingOK
<1> QED BY <1>2, <1>8, <1>10 DEF RingStep, FileStep

LEMMA TrimDoneKeeps ==
  HistoryInv /\ TrimDone => HistoryInv' /\ RingStep /\ FileStep
<1> SUFFICES ASSUME HistoryInv, TrimDone
             PROVE  HistoryInv' /\ RingStep /\ FileStep
  OBVIOUS
<1>1. /\ at = "trim" /\ pos = HIST_SIZE /\ EndSession /\ file' = file
      /\ hist.cmd_count = HIST_SIZE /\ RingOK(hist)
      /\ file = SubSeq(Printed(hist), 1, pos) /\ file \in Seq(Commands)
  BY DEF TrimDone, HistoryInv, HistoryTypeOK
<1>2. HistoryInv' /\ RingStep
  BY <1>1, SessionEnds
<1>3. Printed(hist) \in Seq(Commands) /\ Len(Printed(hist)) = HIST_SIZE
  BY <1>1, PrintedFacts DEF RingOK
<1>4. file = Printed(hist)
  BY <1>1, <1>3
<1>5. Recent(file) = file
  BY <1>3, <1>4, HistoryConstants DEF Recent
<1>6. SavedLog' = SavedLog
  BY <1>1, <1>4, <1>5 DEF SavedLog, EndSession, Recent
<1> QED BY <1>2, <1>6 DEF FileStep

LEMMA CrashKeeps ==
  HistoryInv /\ Crash => /\ HistoryInv' /\ RingStep
                         /\ "trim" \notin CrashPoints => FileStep
<1> SUFFICES ASSUME HistoryInv, Crash
             PROVE  /\ HistoryInv' /\ RingStep
                    /\ "trim" \notin CrashPoints => FileStep
  OBVIOUS
<1>1. /\ at \in CrashPoints /\ EndSession /\ file' = file /\ file \in Seq(Commands)
  BY DEF Crash, HistoryInv, HistoryTypeOK
<1>2. HistoryInv' /\ RingStep
  BY <1>1, SessionEnds
<1>3. "trim" \notin CrashPoints => SavedLog' = SavedLog
  BY <1>1 DEF SavedLog, EndSession, Recent
<1> QED BY <1>2, <1>3 DEF FileStep

LEMMA HistoryStep ==
  HistoryInv /\ [Next]_vars => /\ HistoryInv' /\ RingStep
                               /\ "trim" \notin CrashPoints => FileStep
<1> SUFFICES ASSUME HistoryInv, [Next]_vars
             PROVE  /\ HistoryInv' /\ RingStep
                    /\ "trim" \notin CrashPoints => FileStep
  OBVIOUS
<1>1. CASE StartSession
  BY <1>1, StartSessionKeeps
<1>2. CASE LoadLine
  BY <1>2, LoadLineKeeps
<1>3. CASE LoadDone
  BY <1>3, LoadDoneKeeps
<1>4. CASE \E cmd \in Commands : Type(cmd)
  BY <1>4, TypeKeeps
<1>5. CASE Leave
  BY <1>5, LeaveKeeps
<1>6. CASE TrimLine
  BY <1>6, TrimLineKeeps
<1>7. CASE TrimDone
  BY <1>7, TrimDoneKeeps
<1>8. CASE Crash
  BY <1>8, CrashKeeps
<1>9. CASE UNCHANGED vars
  BY <1>9 DEF vars, HistoryInv, HistoryTypeOK, RingOK, PrintedIsSaved, Printed,
              Recent, RingStep, FileStep, SavedLog
<1> QED BY <1>1, <1>2, <1>3, <1>4, <1>5, <1>6, <1>7, <1>8, <1>9 DEF Next

-----------------------------------------------------------------------------
(* The theorems *)

(* The inductive invariant of the history, wherever sessions are killed.   *)
THEOREM HistoryInvariance == Spec => []HistoryInv
<1>1. Init => HistoryInv
  BY HistoryInit
<1>2. HistoryInv /\ [Next]_vars => HistoryInv'
  BY HistoryStep
<1> QED BY <1>1, <1>2, PTL DEF Spec

(* At the prompt, what history prints is at the end of what is on disk:    *)
(* also when a session was killed while it trimmed.                        *)
THEOREM PrintedIsOnDisk == Spec => []PrintedIsSaved
<1>1. HistoryInv => PrintedIsSaved
  BY DEF HistoryInv
<1> QED BY <1>1, HistoryInvariance, PTL

(* history_load, history_save_command and history -c make of the ring a    *)
(* bounded log, for every HIST_SIZE and every length of the file.          *)
THEOREM RingImplementsLog == Spec => RingIsALog
<1>1. Init => RingLog!Init
  BY HistoryInit DEF RingLog!Init
<1>2. HistoryInv /\ [Next]_vars => [RingLog!Next]_(Printed(hist))
  <2> SUFFICES ASSUME HistoryInv, [Next]_vars
               PROVE  [RingLog!Next]_(Printed(hist))
    OBVIOUS
  <2>1. RingStep
    BY HistoryStep
  <2> QED BY <2>1 DEF RingStep, Remember, RingLog!Next, RingLog!Empty, RingLog!Add
<1> QED BY <1>1, <1>2, HistoryInvariance, PTL DEF Spec, RingIsALog, RingLog!Spec

(* What a later session can load is a log that never shrinks, if no        *)
(* session is killed while history_trim rewrites the file.                 *)
THEOREM FileImplementsLog ==
  ASSUME "trim" \notin CrashPoints
  PROVE  Spec => FileIsALog
<1>1. Init => FileLog!Init
  BY HistoryInit DEF FileLog!Init, SavedLog
<1>2. HistoryInv /\ [Next]_vars => [FileLog!Next]_SavedLog
  <2> SUFFICES ASSUME HistoryInv, [Next]_vars
               PROVE  [FileLog!Next]_SavedLog
    OBVIOUS
  <2>1. FileStep
    BY HistoryStep
  <2> QED BY <2>1 DEF FileStep, SavedLog, Remember, RingLog!Remember, FileLog!Remember,
                     FileLog!Next, FileLog!Add
<1> QED BY <1>1, <1>2, HistoryInvariance, PTL
        DEF Spec, FileIsALog, FileLog!Spec, SavedLog
=============================================================================
