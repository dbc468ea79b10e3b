----------------------------- MODULE StoreProofs -----------------------------
(***************************************************************************)
(* Proofs about HistoryStore: that the ring of sectors implements one      *)
(* durable record, for any number of slots, any width of the sequence      *)
(* number, any payloads, and any number of saves, failed calls and losses  *)
(* of power, for as long as every boot can read its sectors.               *)
(***************************************************************************)
EXTENDS HistoryStore, FiniteSetTheorems, TLAPS

-----------------------------------------------------------------------------
(***************************************************************************)
(* Counting, and the scan, which is a recursive function.                  *)
(***************************************************************************)
(* A set with 0 that goes on from each number to the next one has N: or    *)
(* else adding one would be a one-to-one map of its numbers below N into   *)
(* fewer.                                                                  *)
LEMMA Counting ==
    ASSUME NEW N \in Nat, NEW S, 0 \in S,
           \A k \in 0 .. N - 1 : k \in S => k + 1 \in S
    PROVE  N \in S
<1> DEFINE A == {k \in 0 .. N : k \in S}
           B == A \ {0}
           f == [k \in A |-> k + 1]
<1>1. SUFFICES ASSUME N \notin S
               PROVE  FALSE
  OBVIOUS
<1>2. f \in [A -> B]
  BY <1>1
<1>3. IsFiniteSet(A) /\ IsFiniteSet(B)
  <2>1. IsFiniteSet(0 .. N)
    BY FS_Interval
  <2>2. A \in SUBSET (0 .. N) /\ B \in SUBSET (0 .. N)
    OBVIOUS
  <2> HIDE DEF A, B
  <2> QED
    BY <2>1, <2>2, FS_Subset
<1>4. Cardinality(B) < Cardinality(A)
  <2>1. 0 \in A /\ Cardinality(A) \in Nat
    BY <1>3, FS_CardinalityType
  <2>2. Cardinality(B) = Cardinality(A) - 1
    BY <1>3, <2>1, FS_RemoveElement
  <2> QED
    BY <2>1, <2>2
<1>5. \E x, y \in A : x # y /\ f[x] = f[y]
  <2> HIDE DEF A, B, f
  <2> QED
    BY <1>2, <1>3, <1>4, FS_PigeonHole
<1> QED
  BY <1>5

(* One round of the loop: what is kept after sector i - 1, of what was     *)
(* kept before it.                                                         *)
Round(sectors, qualify, b, i) ==
    IF i = 0 THEN NoSlot
    ELSE IF /\ i - 1 \in qualify
            /\ b = NoSlot \/ Newer(sectors[i - 1].seq, sectors[b].seq)
         THEN i - 1 ELSE b

(* The recursion has a solution, and the scan's answer is its last value.  *)
LEMMA Rounds ==
    ASSUME NEW sectors, NEW qualify
    PROVE  \E g : /\ Newest(sectors, qualify) = g[Slots]
                  /\ \A i \in 0 .. Slots :
                         g[i] = Round(sectors, qualify, g[i - 1], i)
<1> DEFINE R(b, i) == Round(sectors, qualify, b, i)
           T == {n \in 0 .. Slots : \E h : \A i \in 0 .. n :
                                        h[i] = R(h[i - 1], i)}
<1>s. Slots \in Nat
  BY RingAssumption
<1>1. 0 \in T
  <2> DEFINE h == [i \in 0 .. 0 |-> NoSlot]
  <2>1. \A i \in 0 .. 0 : h[i] = R(h[i - 1], i)
    BY DEF Round
  <2> QED
    BY <1>s, <2>1
<1>2. ASSUME NEW n \in 0 .. Slots - 1, n \in T
      PROVE  n + 1 \in T
  <2>1. PICK h : \A i \in 0 .. n : h[i] = R(h[i - 1], i)
    BY <1>2
  <2> DEFINE g == [i \in 0 .. n + 1 |-> IF i <= n THEN h[i]
                                                  ELSE R(h[n], n + 1)]
  <2>2. ASSUME NEW i \in 0 .. n + 1
        PROVE  g[i] = R(g[i - 1], i)
    <3>1. CASE i = 0
      <4>1. g[0] = h[0] /\ h[0] = R(h[0 - 1], 0)
        BY <2>1, <1>s
      <4> QED
        BY <3>1, <4>1 DEF Round
    <3>2. CASE i \in 1 .. n
      <4>1. g[i] = h[i] /\ g[i - 1] = h[i - 1]
        BY <3>2
      <4> QED
        BY <2>1, <3>2, <4>1
    <3>3. CASE i = n + 1
      <4>1. g[i] = R(h[n], n + 1) /\ g[i - 1] = h[n]
        BY <3>3
      <4> QED
        BY <3>3, <4>1
    <3> QED
      BY <3>1, <3>2, <3>3
  <2> HIDE DEF g, R
  <2>3. n + 1 \in 0 .. Slots
    BY <1>s
  <2> QED
    BY <2>2, <2>3
<1>3. Slots \in T
  <2> HIDE DEF T
  <2> QED
    BY <1>s, <1>1, <1>2, Counting
<1>4. PICK h : \A i \in 0 .. Slots : h[i] = R(h[i - 1], i)
  BY <1>3
<1> DEFINE Best(best) ==
        [i \in 0 .. Slots |->
            IF i = 0 THEN NoSlot
            ELSE LET b == best[i - 1] IN
                 IF /\ i - 1 \in qualify
                    /\ b = NoSlot \/ Newer(sectors[i - 1].seq, sectors[b].seq)
                 THEN i - 1 ELSE b]
           k == [i \in 0 .. Slots |-> h[i]]
<1>5. k = Best(k)
  <2>1. ASSUME NEW i \in 0 .. Slots
        PROVE  k[i] = R(k[i - 1], i)
    <3>1. CASE i = 0
      BY <1>4, <3>1 DEF Round
    <3>2. CASE i \in 1 .. Slots
      <4>1. i - 1 \in 0 .. Slots
        BY <1>s, <3>2
      <4> QED
        BY <1>4, <4>1
    <3> QED
      BY <1>s, <3>1, <3>2
  <2> QED
    BY <2>1 DEF Round
<1>6. Newest(sectors, qualify) = (CHOOSE g : g = Best(g))[Slots]
  BY DEF Newest
<1> DEFINE c == CHOOSE g : g = Best(g)
<1>7. c = Best(c)
  <2> HIDE DEF Best, k
  <2> QED
    BY <1>5
<1>8. \A i \in 0 .. Slots : c[i] = R(c[i - 1], i)
  <2> HIDE DEF c
  <2> QED
    BY <1>7 DEF Round
<1> QED
  BY <1>6, <1>8

(* The scan answers with a sector that qualifies, if there is one.         *)
LEMMA NewestIn ==
    ASSUME NEW sectors, NEW q, q \subseteq Ring
    PROVE  IF q = {} THEN Newest(sectors, q) = NoSlot
                     ELSE Newest(sectors, q) \in q
<1>s. Slots \in Nat
  BY RingAssumption
<1>1. PICK g : /\ Newest(sectors, q) = g[Slots]
               /\ \A i \in 0 .. Slots : g[i] = Round(sectors, q, g[i - 1], i)
  BY Rounds
<1> DEFINE Kept(i) == IF \E j \in q : j < i THEN g[i] \in q
                                            ELSE g[i] = NoSlot
           T == {i \in 0 .. Slots : Kept(i)}
<1>2. 0 \in T
  <2>1. g[0] = NoSlot /\ ~ \E j \in q : j < 0
    BY <1>1, <1>s DEF Round, Ring
  <2> QED
    BY <1>s, <2>1
<1>3. ASSUME NEW k \in 0 .. Slots - 1, k \in T
      PROVE  k + 1 \in T
  <2>1. /\ k + 1 \in 0 .. Slots /\ k + 1 # 0 /\ (k + 1) - 1 = k
        /\ \A j \in q : j < k + 1 <=> j < k \/ j = k
    BY <1>s DEF Ring
  <2>2. g[k + 1] = IF k \in q /\ (g[k] = NoSlot
                                  \/ Newer(sectors[k].seq, sectors[g[k]].seq))
                   THEN k ELSE g[k]
    BY <1>1, <2>1 DEF Round
  <2>3. Kept(k)
    BY <1>3
  <2>4. Kept(k + 1)
    <3>1. CASE k \in q
      BY <2>1, <2>2, <2>3, <3>1
    <3>2. CASE k \notin q
      BY <2>1, <2>2, <2>3, <3>2
    <3> QED
      BY <3>1, <3>2
  <2> HIDE DEF Kept
  <2> QED
    BY <2>1, <2>4
<1>4. Slots \in T
  <2> HIDE DEF T
  <2> QED
    BY <1>s, <1>2, <1>3, Counting
<1>5. \A j \in q : j < Slots
  BY <1>s DEF Ring
<1> QED
  BY <1>1, <1>4, <1>5

(* And with the one that is newer than every other, in whatever order they *)
(* lie.                                                                    *)
Beats(sectors, b, q) ==
    b \in q /\ \A j \in q \ {b} : Newer(sectors[b].seq, sectors[j].seq)

(* Of two numbers only one is the newer.                                   *)
LEMMA NewerIsOneWay ==
    ASSUME NEW a \in Seqs, NEW b \in Seqs, Newer(a, b)
    PROVE  ~Newer(b, a)
<1> DEFINE H == SeqWrap \div 2
<1>1. SeqWrap \in Nat \ {0} /\ H \in Nat /\ 2 * H <= SeqWrap
  <2>1. SeqWrap \in Nat
    BY RingAssumption
  <2>2. H \in Int /\ H > Slots /\ Slots > 2 /\ Slots \in Nat
    BY <2>1, RingAssumption
  <2>3. 2 * (SeqWrap \div 2) <= SeqWrap
    BY <2>1
  <2> QED
    BY <2>1, <2>2, <2>3
<1>2. (a - b) % SeqWrap = IF a < b THEN a - b + SeqWrap ELSE a - b
  BY <1>1 DEF Seqs
<1>3. (b - a) % SeqWrap = IF b < a THEN b - a + SeqWrap ELSE b - a
  BY <1>1 DEF Seqs
<1>4. (a - b) % SeqWrap \in 1 .. H - 1
  BY DEF Newer
<1> HIDE DEF H
<1>5. (b - a) % SeqWrap > H - 1
  BY <1>1, <1>2, <1>3, <1>4 DEF Seqs
<1> QED
  BY <1>1, <1>5 DEF Newer, H

(* So whichever comes first, it is kept in the end.                        *)
LEMMA NewestIs ==
    ASSUME NEW sectors, NEW q, q \subseteq Ring,
           \A j \in q : sectors[j].seq \in Seqs,
           NEW b, Beats(sectors, b, q)
    PROVE  Newest(sectors, q) = b
<1>s. Slots \in Nat /\ b \in 0 .. Slots - 1
  BY RingAssumption DEF Beats, Ring
<1>1. PICK g : /\ Newest(sectors, q) = g[Slots]
               /\ \A i \in 0 .. Slots : g[i] = Round(sectors, q, g[i - 1], i)
  BY Rounds
<1> DEFINE Kept(i) == IF i <= b THEN g[i] \in (q \ {b}) \cup {NoSlot}
                                ELSE g[i] = b
           T == {i \in 0 .. Slots : Kept(i)}
<1>2. 0 \in T
  BY <1>1, <1>s DEF Round
<1>3. ASSUME NEW k \in 0 .. Slots - 1, k \in T
      PROVE  k + 1 \in T
  <2>1. k + 1 \in 0 .. Slots /\ k + 1 # 0 /\ (k + 1) - 1 = k
    BY <1>s
  <2>2. g[k + 1] = IF k \in q /\ (g[k] = NoSlot
                                  \/ Newer(sectors[k].seq, sectors[g[k]].seq))
                   THEN k ELSE g[k]
    BY <1>1, <2>1 DEF Round
  <2>3. Kept(k)
    BY <1>3
  <2>4. CASE k < b
    <3>1. k # b /\ k <= b /\ k + 1 <= b
      BY <1>s, <2>4
    <3>2. g[k + 1] \in (q \ {b}) \cup {NoSlot}
      BY <2>2, <2>3, <3>1
    <3> QED
      BY <2>1, <3>1, <3>2
  <2>5. CASE k = b
    <3>1. k \in q /\ g[k] \in (q \ {b}) \cup {NoSlot} /\ ~(k + 1 <= b)
      BY <1>s, <2>3, <2>5 DEF Beats
    <3>2. g[k] = NoSlot \/ Newer(sectors[k].seq, sectors[g[k]].seq)
      BY <2>5, <3>1 DEF Beats
    <3>3. g[k + 1] = b
      BY <2>2, <2>5, <3>1, <3>2
    <3> QED
      BY <2>1, <3>1, <3>3
  <2>6. CASE k > b
    <3>1. g[k] = b /\ k # b /\ ~(k + 1 <= b) /\ b # NoSlot
      BY <1>s, <2>3, <2>6 DEF NoSlot
    <3>2. k \in q => ~Newer(sectors[k].seq, sectors[b].seq)
      BY <3>1, NewerIsOneWay DEF Beats
    <3>3. g[k + 1] = b
      BY <2>2, <3>1, <3>2
    <3> QED
      BY <2>1, <3>1, <3>3
  <2> QED
    BY <1>s, <2>4, <2>5, <2>6
<1>4. Slots \in T
  <2> HIDE DEF T
  <2> QED
    BY <1>s, <1>2, <1>3, Counting
<1>5. ~(Slots <= b)
  BY <1>s
<1> QED
  BY <1>1, <1>4, <1>5

-----------------------------------------------------------------------------
(***************************************************************************)
(* Sectors: what each flash call leaves, as slot_valid() sees it.          *)
(***************************************************************************)
Whole(sector) ==
    /\ sector = [magic |-> sector.magic, seq |-> sector.seq,
                 sum |-> sector.sum, body |-> sector.body]
    /\ sector.seq \in Seqs

(* An erased sector is no record.                                          *)
LEMMA ErasedIs == Whole(Erased) /\ ~Erased.magic
<1>1. SeqWrap \in Nat /\ SeqWrap > 0
  <2>1. SeqWrap \in Nat /\ SeqWrap \div 2 > Slots /\ Slots > 2
        /\ Slots \in Nat
    BY RingAssumption
  <2>2. SeqWrap # 0
    BY <2>1
  <2> QED
    BY <2>1, <2>2
<1>2. Erased.seq \in Seqs
  BY <1>1 DEF Erased, Seqs
<1> QED
  BY <1>2 DEF Erased, Whole

(* A header over a payload that is there, or over none, makes a record; a  *)
(* part of a header makes none.                                            *)
LEMMA HeaderIs ==
    ASSUME NEW sector, Whole(sector), NEW seq \in Seqs, NEW p
    PROVE  LET h == Header(sector, seq, p)
           IN  /\ Whole(h) /\ h.magic /\ h.seq = seq /\ h.sum = p
               /\ slot_valid(h) <=> /\ p # Blank
                                    /\ p = sector.body \/ p = Empty
<1>1. ASSUME NEW h, h = [sector EXCEPT !.magic = TRUE, !.seq = seq, !.sum = p]
      PROVE  h = [magic |-> TRUE, seq |-> seq, sum |-> p,
                  body |-> sector.body]
  BY <1>1 DEF Whole
<1>2. Header(sector, seq, p) = [magic |-> TRUE, seq |-> seq, sum |-> p,
                                body |-> sector.body]
  BY <1>1 DEF Header
<1> QED
  BY <1>2 DEF Whole, slot_valid

(* A payload written or lost: nothing that was no record becomes one when  *)
(* its payload goes, and no payload makes one of a sector without magic.   *)
LEMMA BodyIs ==
    ASSUME NEW sector, Whole(sector), NEW p
    PROVE  LET w == [sector EXCEPT !.body = p]
           IN  /\ Whole(w) /\ w.seq = sector.seq /\ w.sum = sector.sum
               /\ w.body = p
               /\ w.magic <=> sector.magic
               /\ p = Blank /\ slot_valid(w) => slot_valid(sector)
<1>1. [sector EXCEPT !.body = p] =
          [magic |-> sector.magic, seq |-> sector.seq, sum |-> sector.sum,
           body |-> p]
  BY DEF Whole
<1> QED
  BY <1>1 DEF Whole, slot_valid

-----------------------------------------------------------------------------
(***************************************************************************)
(* Ages: each record's number is as far behind the newest one's as its     *)
(* slot is.                                                                *)
(***************************************************************************)
Behind(sectors, b, seq, q) ==
    \A j \in q : (seq - sectors[j].seq) % SeqWrap = (b - j) % Slots

(* The sizes of the ring and of its numbers.                               *)
LEMMA RingSizes ==
    /\ Slots \in Nat /\ Slots > 2
    /\ SeqWrap \in Nat /\ SeqWrap > 2 * Slots
    /\ SeqWrap \div 2 \in Int /\ Slots <= SeqWrap \div 2 - 1
<1>1. /\ Slots \in Nat /\ Slots > 2 /\ SeqWrap \in Nat
      /\ SeqWrap \div 2 > Slots
  BY RingAssumption
<1>2. SeqWrap \div 2 \in Int /\ 2 * (SeqWrap \div 2) <= SeqWrap
  BY <1>1
<1> QED
  BY <1>1, <1>2

(* What differences are in a ring of w, by cases.                          *)
LEMMA Around ==
    ASSUME NEW w \in Nat \ {0}, NEW a \in 0 .. w - 1, NEW b \in 0 .. w - 1
    PROVE  /\ (a - b) % w = IF a < b THEN a - b + w ELSE a - b
           /\ (a + 1) % w = IF a + 1 = w THEN 0 ELSE a + 1
  OBVIOUS

(* So the newest is newer than every other, across the wrap as well.       *)
LEMMA BehindIsBeaten ==
    ASSUME NEW sectors, NEW q, q \subseteq Ring, NEW b \in q,
           Behind(sectors, b, sectors[b].seq, q)
    PROVE  Beats(sectors, b, q)
<1>1. ASSUME NEW j \in q \ {b}
      PROVE  Newer(sectors[b].seq, sectors[j].seq)
  <2>1. /\ Slots \in Nat \ {0} /\ b \in 0 .. Slots - 1
        /\ j \in 0 .. Slots - 1 /\ b # j
    BY RingSizes DEF Ring
  <2>2. (b - j) % Slots \in 1 .. Slots - 1
    <3>1. (b - j) % Slots = IF b < j THEN b - j + Slots ELSE b - j
      BY <2>1, Around
    <3> QED
      BY <2>1, <3>1
  <2>3. (b - j) % Slots \in 1 .. SeqWrap \div 2 - 1
    BY <2>2, RingSizes
  <2> QED
    BY <2>3 DEF Behind, Newer
<1> QED
  BY <1>1 DEF Beats

(* A record in the slot after the newest's, with the number after its, is  *)
(* the newest now: the others age by one.                                  *)
LEMMA BehindNext ==
    ASSUME NEW sectors, NEW q, q \subseteq Ring, NEW b \in Ring,
           NEW seq \in Seqs, Behind(sectors, b, seq, q),
           \A j \in q : sectors[j].seq \in Seqs,
           (b + 1) % Slots \notin q
    PROVE  Behind(sectors, (b + 1) % Slots, (seq + 1) % SeqWrap, q)
<1> DEFINE c == (b + 1) % Slots
           t == (seq + 1) % SeqWrap
<1>1. SUFFICES ASSUME NEW j \in q
               PROVE  (t - sectors[j].seq) % SeqWrap = (c - j) % Slots
  BY DEF Behind
<1>2. /\ Slots \in Nat \ {0} /\ SeqWrap \in Nat \ {0} /\ SeqWrap > Slots
      /\ b \in 0 .. Slots - 1 /\ j \in 0 .. Slots - 1
      /\ seq \in 0 .. SeqWrap - 1 /\ sectors[j].seq \in 0 .. SeqWrap - 1
      /\ c # j
  BY RingSizes DEF Ring, Seqs
<1> DEFINE x == sectors[j].seq
<1>3. c = IF b + 1 = Slots THEN 0 ELSE b + 1
  BY <1>2, Around
<1>4. t = IF seq + 1 = SeqWrap THEN 0 ELSE seq + 1
  BY <1>2, Around
<1> HIDE DEF c, t, x
<1>5. c \in 0 .. Slots - 1 /\ t \in 0 .. SeqWrap - 1
  BY <1>2, <1>3, <1>4
<1>6. /\ (b - j) % Slots = IF b < j THEN b - j + Slots ELSE b - j
      /\ (c - j) % Slots = IF c < j THEN c - j + Slots ELSE c - j
  <2>1. /\ Slots \in Nat \ {0} /\ b \in 0 .. Slots - 1
        /\ c \in 0 .. Slots - 1 /\ j \in 0 .. Slots - 1
    BY <1>2, <1>5
  <2>2. (b - j) % Slots = IF b < j THEN b - j + Slots ELSE b - j
    BY ONLY <2>1, Around
  <2>3. (c - j) % Slots = IF c < j THEN c - j + Slots ELSE c - j
    BY ONLY <2>1, Around
  <2> QED
    BY <2>2, <2>3
<1>7. /\ (seq - x) % SeqWrap = IF seq < x THEN seq - x + SeqWrap ELSE seq - x
      /\ (t - x) % SeqWrap = IF t < x THEN t - x + SeqWrap ELSE t - x
  <2>1. /\ SeqWrap \in Nat \ {0} /\ seq \in 0 .. SeqWrap - 1
        /\ t \in 0 .. SeqWrap - 1 /\ x \in 0 .. SeqWrap - 1
    BY <1>2, <1>5 DEF x
  <2>2. (seq - x) % SeqWrap = IF seq < x THEN seq - x + SeqWrap ELSE seq - x
    BY ONLY <2>1, Around
  <2>3. (t - x) % SeqWrap = IF t < x THEN t - x + SeqWrap ELSE t - x
    BY ONLY <2>1, Around
  <2> QED
    BY <2>2, <2>3
<1>8. (seq - x) % SeqWrap = (b - j) % Slots
  BY DEF Behind, x
<1>9. (c - j) % Slots = ((b - j) % Slots) + 1
  BY <1>2, <1>3, <1>6
<1>10. (b - j) % Slots < Slots - 1 /\ (b - j) % Slots \in Nat
  BY <1>2, <1>3, <1>6
<1>11. (t - x) % SeqWrap = ((seq - x) % SeqWrap) + 1
  BY <1>2, <1>4, <1>7, <1>8, <1>10 DEF x
<1> QED
  BY <1>8, <1>9, <1>11 DEF x

-----------------------------------------------------------------------------
(***************************************************************************)
(* What a load returns.                                                    *)
(***************************************************************************)
(* The newest record, when it is newer than every other.                   *)
LEMMA ContentIs ==
    ASSUME NEW sectors, NEW R, R \subseteq Ring,
           \A j \in Ring : sectors[j].seq \in Seqs,
           NEW b, Beats(sectors, b, Valid(sectors) \cap R)
    PROVE  Content(sectors, R) = sectors[b].sum
<1>1. Newest(sectors, Valid(sectors) \cap R) = b
  BY NewestIs
<1>2. b # NoSlot
  BY RingSizes DEF Beats, NoSlot, Ring
<1> QED
  BY <1>1, <1>2 DEF Content

(* Nothing, when there is none.                                            *)
LEMMA ContentNone ==
    ASSUME NEW sectors, NEW R, Valid(sectors) \cap R = {}
    PROVE  Content(sectors, R) = Empty
<1>1. Newest(sectors, Valid(sectors) \cap R) = NoSlot
  BY NewestIn
<1> QED
  BY <1>1 DEF Content

-----------------------------------------------------------------------------
(***************************************************************************)
(* How the records lie about the newest one known of: all behind it, but   *)
(* the one in the slot after it, which the next save erases.  That is one  *)
(* step ahead, left by a save that failed, or the oldest.                  *)
(***************************************************************************)
After(slot)          == (slot + 1) % Slots
Others(sectors, slot) == Valid(sectors) \ {After(slot)}

Lies(sectors, slot, seq) ==
    /\ Behind(sectors, slot, seq, Others(sectors, slot))
    /\ Others(sectors, slot) # {} => slot \in Valid(sectors)
    /\ After(slot) \in Valid(sectors) =>
           \/ sectors[After(slot)].seq = (seq + 1) % SeqWrap
           \/ (seq - sectors[After(slot)].seq) % SeqWrap = Slots - 1

AllWhole(sectors) ==
    /\ sectors = [i \in Ring |-> sectors[i]]
    /\ \A i \in Ring : Whole(sectors[i])

(* The slot after one.                                                     *)
LEMMA AfterIs ==
    ASSUME NEW slot \in Ring \cup {NoSlot}
    PROVE  /\ After(slot) \in Ring /\ After(slot) # slot
           /\ After(slot) = IF slot + 1 = Slots THEN 0 ELSE slot + 1
           /\ slot \in Ring => (slot - After(slot)) % Slots = Slots - 1
<1>1. Slots \in Nat /\ Slots > 2 /\ slot \in Int /\ slot >= 0 - 1
      /\ slot < Slots
  BY RingSizes DEF Ring, NoSlot
<1>2. After(slot) = IF slot + 1 = Slots THEN 0 ELSE slot + 1
  <2>1. CASE slot \in 0 .. Slots - 1
    BY <1>1, <2>1, Around DEF After
  <2>2. CASE slot + 1 = 0
    <3>1. \A n \in Nat : n > 2 => 0 % n = 0
      OBVIOUS
    <3> QED
      BY <1>1, <2>2, <3>1 DEF After
  <2> QED
    BY <1>1, <2>1, <2>2
<1>3. After(slot) \in 0 .. Slots - 1 /\ After(slot) # slot
  BY <1>1, <1>2
<1>4. ASSUME slot \in Ring
      PROVE  (slot - After(slot)) % Slots = Slots - 1
  <2>1. slot \in 0 .. Slots - 1 /\ Slots \in Nat \ {0}
    BY <1>1, <1>4 DEF Ring
  <2>2. (slot - After(slot)) % Slots =
            IF slot < After(slot) THEN slot - After(slot) + Slots
                                  ELSE slot - After(slot)
    BY <1>3, <2>1, Around
  <2> QED
    BY <1>1, <1>2, <2>1, <2>2
<1> QED
  BY <1>2, <1>3, <1>4 DEF Ring

(* No difference, no age.                                                  *)
LEMMA SameAge ==
    /\ \A i \in Ring : (i - i) % Slots = 0
    /\ \A a \in Seqs : (a - a) % SeqWrap = 0
    /\ \A a, b \in Seqs : (a - b) % SeqWrap = 0 => a = b
<1>1. Slots \in Nat \ {0} /\ SeqWrap \in Nat \ {0}
  BY RingSizes
<1>2. ASSUME NEW i \in Ring
      PROVE  (i - i) % Slots = 0
  BY <1>1, Around DEF Ring
<1>3. ASSUME NEW a \in Seqs, NEW b \in Seqs
      PROVE  /\ (a - a) % SeqWrap = 0
             /\ (a - b) % SeqWrap = 0 => a = b
  <2>1. a \in 0 .. SeqWrap - 1 /\ b \in 0 .. SeqWrap - 1
    BY DEF Seqs
  <2>2. /\ (a - a) % SeqWrap = IF a < a THEN a - a + SeqWrap ELSE a - a
        /\ (a - b) % SeqWrap = IF a < b THEN a - b + SeqWrap ELSE a - b
    BY <1>1, <2>1, Around
  <2> QED
    BY <1>1, <2>1, <2>2
<1> QED
  BY <1>2, <1>3

(* What the other sectors hold.                                            *)
LEMMA LiesKept ==
    ASSUME NEW sectors, AllWhole(sectors),
           NEW slot \in Ring \cup {NoSlot}, NEW seq \in Seqs,
           Lies(sectors, slot, seq)
    PROVE  Content(sectors, Ring \ {After(slot)}) =
               IF Others(sectors, slot) = {} THEN Empty
                                             ELSE sectors[slot].sum
<1> DEFINE q == Others(sectors, slot)
           R == Ring \ {After(slot)}
<1>1. q = Valid(sectors) \cap R /\ q \subseteq Ring
  BY DEF Others, Valid
<1>2. \A j \in Ring : sectors[j].seq \in Seqs
  BY DEF AllWhole, Whole
<1>3. CASE q = {}
  BY <1>1, <1>3, ContentNone
<1>4. CASE q # {}
  <2>1. slot \in q /\ slot \in Ring
    BY <1>4, AfterIs DEF Lies, Others, Valid
  <2>2. sectors[slot].seq = seq
    BY <1>2, <2>1, SameAge DEF Lies, Behind
  <2>3. Behind(sectors, slot, sectors[slot].seq, q)
    BY <2>2 DEF Lies
  <2>4. Beats(sectors, slot, q)
    BY <1>1, <2>1, <2>3, BehindIsBeaten
  <2>5. Content(sectors, R) = sectors[slot].sum
    BY <1>1, <1>2, <2>4, ContentIs
  <2> QED
    BY <1>4, <2>5
<1> QED
  BY <1>3, <1>4

(* One step ahead, the record after the newest known of is the newest.     *)
LEMMA LiesAhead ==
    ASSUME NEW sectors, AllWhole(sectors),
           NEW slot \in Ring \cup {NoSlot}, NEW seq \in Seqs,
           Lies(sectors, slot, seq),
           slot \in Ring \/ Others(sectors, slot) = {}
    PROVE  Behind(sectors, After(slot), (seq + 1) % SeqWrap,
                  Others(sectors, slot))
<1>1. CASE Others(sectors, slot) = {}
  BY <1>1 DEF Behind
<1>2. CASE slot \in Ring
  <2>1. /\ Others(sectors, slot) \subseteq Ring
        /\ \A j \in Others(sectors, slot) : sectors[j].seq \in Seqs
        /\ (slot + 1) % Slots \notin Others(sectors, slot)
    BY DEF Others, Valid, AllWhole, Whole, After
  <2> QED
    BY <1>2, <2>1, BehindNext DEF Lies, After
<1> QED
  BY <1>1, <1>2

(* And once it is known of the records lie about it.                       *)
LEMMA LiesAdvance ==
    ASSUME NEW sectors, AllWhole(sectors),
           NEW slot \in Ring \cup {NoSlot}, NEW seq \in Seqs,
           Lies(sectors, slot, seq),
           slot \in Ring \/ Others(sectors, slot) = {},
           After(slot) \in Valid(sectors),
           sectors[After(slot)].seq = (seq + 1) % SeqWrap
    PROVE  /\ Behind(sectors, After(slot), (seq + 1) % SeqWrap,
                     Valid(sectors))
           /\ Lies(sectors, After(slot), (seq + 1) % SeqWrap)
<1> DEFINE n == After(slot)
           t == (seq + 1) % SeqWrap
<1>1. n \in Ring /\ t = sectors[n].seq /\ t \in Seqs
  BY AfterIs DEF AllWhole, Whole
<1>2. Behind(sectors, n, t, Others(sectors, slot))
  BY LiesAhead
<1>3. Behind(sectors, n, t, Valid(sectors))
  <2>1. ASSUME NEW j \in Valid(sectors)
        PROVE  (t - sectors[j].seq) % SeqWrap = (n - j) % Slots
    <3>1. CASE j = n
      BY <1>1, <3>1, SameAge
    <3>2. CASE j # n
      BY <1>2, <3>2 DEF Behind, Others
    <3> QED
      BY <3>1, <3>2
  <2> QED
    BY <2>1 DEF Behind
<1> HIDE DEF n, t
<1>4. After(n) \in Ring /\ (n - After(n)) % Slots = Slots - 1
  BY <1>1, AfterIs
<1>5. Lies(sectors, n, t)
  BY <1>3, <1>4 DEF Lies, Behind, Others, n
<1> QED
  BY <1>3, <1>5 DEF n, t

(* A boot that has found the newest record.                                *)
LEMMA LiesBooted ==
    ASSUME NEW sectors, NEW b \in Valid(sectors), b \in Ring, NEW seq,
           Behind(sectors, b, seq, Valid(sectors))
    PROVE  Lies(sectors, b, seq)
<1>1. After(b) \in Ring /\ (b - After(b)) % Slots = Slots - 1
  BY AfterIs
<1> QED
  BY <1>1 DEF Lies, Behind, Others

(* What a load would find.                                                 *)
LEMMA LiesStored ==
    ASSUME NEW sectors, AllWhole(sectors),
           NEW slot \in Ring \cup {NoSlot}, NEW seq \in Seqs,
           Lies(sectors, slot, seq),
           slot \in Ring \/ Others(sectors, slot) = {}
    PROVE  /\ Content(sectors, Ring) =
                  IF /\ After(slot) \in Valid(sectors)
                     /\ \/ sectors[After(slot)].seq = (seq + 1) % SeqWrap
                        \/ Others(sectors, slot) = {}
                  THEN sectors[After(slot)].sum
                  ELSE Content(sectors, Ring \ {After(slot)})
           /\ Valid(sectors) # {} =>
                  \E b \in Valid(sectors) :
                      Behind(sectors, b, sectors[b].seq, Valid(sectors))
<1> DEFINE n == After(slot)
           V == Valid(sectors)
           q == Others(sectors, slot)
<1>1. /\ V \subseteq Ring /\ V \cap Ring = V /\ n \in Ring
      /\ q = V \ {n} /\ q = V \cap (Ring \ {n})
      /\ \A j \in Ring : sectors[j].seq \in Seqs
  BY AfterIs DEF Valid, Others, AllWhole, Whole
<1>2. ASSUME NEW b \in V, Behind(sectors, b, sectors[b].seq, V)
      PROVE  Content(sectors, Ring) = sectors[b].sum
  <2>1. Beats(sectors, b, V \cap Ring)
    BY <1>1, <1>2, BehindIsBeaten
  <2> QED
    BY <1>1, <2>1, ContentIs
<1>3. CASE n \in V /\ sectors[n].seq = (seq + 1) % SeqWrap
  <2>1. Behind(sectors, n, sectors[n].seq, V)
    BY <1>3, LiesAdvance
  <2> QED
    BY <1>2, <1>3, <2>1
<1>4. CASE n \in V /\ q = {}
  <2>1. V = {n}
    BY <1>1, <1>4
  <2>2. Behind(sectors, n, sectors[n].seq, V)
    BY <1>1, <2>1, SameAge DEF Behind
  <2> QED
    BY <1>2, <1>4, <2>2
<1>5. CASE n \in V /\ q # {} /\ sectors[n].seq # (seq + 1) % SeqWrap
  <2>1. slot \in Ring /\ slot \in q /\ slot \in V
    BY <1>1, <1>5, AfterIs DEF Lies
  <2>2. sectors[slot].seq = seq
    BY <1>1, <2>1, SameAge DEF Lies, Behind
  <2>3. (seq - sectors[n].seq) % SeqWrap = (slot - n) % Slots
    BY <1>5, <2>1, AfterIs DEF Lies
  <2>4. Behind(sectors, slot, sectors[slot].seq, V)
    BY <1>1, <2>2, <2>3 DEF Lies, Behind
  <2>5. Content(sectors, Ring) = sectors[slot].sum
    BY <1>2, <2>1, <2>4
  <2>6. Content(sectors, Ring \ {n}) = sectors[slot].sum
    BY <1>5, LiesKept
  <2> QED
    BY <1>5, <2>1, <2>4, <2>5, <2>6
<1>6. CASE n \notin V
  <2>1. q = V
    BY <1>1, <1>6
  <2>2. Content(sectors, Ring) = Content(sectors, Ring \ {n})
    BY <1>1, <2>1 DEF Content
  <2>3. ASSUME V # {}
        PROVE  \E b \in V : Behind(sectors, b, sectors[b].seq, V)
    <3>1. slot \in V /\ slot \in Ring
      BY <1>1, <2>1, <2>3 DEF Lies
    <3>2. sectors[slot].seq = seq
      BY <1>1, <2>1, <3>1, SameAge DEF Lies, Behind
    <3> QED
      BY <2>1, <3>1, <3>2 DEF Lies
  <2> QED
    BY <1>6, <2>2, <2>3
<1> QED
  BY <1>3, <1>4, <1>5, <1>6

(* The slot after it may be rewritten, by an erase or by a header: one     *)
(* step ahead, or with the number that was there, or so that it is none.   *)
MayRewrite(sectors, slot, seq, x) ==
    /\ AllWhole(sectors) /\ slot \in Ring \cup {NoSlot} /\ seq \in Seqs
    /\ Lies(sectors, slot, seq)
    /\ Whole(x)
    /\ slot_valid(x) =>
           \/ x.seq = (seq + 1) % SeqWrap
           \/ /\ After(slot) \in Valid(sectors)
              /\ x.seq = sectors[After(slot)].seq

Rewritten(sectors, slot, seq, x, new) ==
    /\ AllWhole(new) /\ new[After(slot)] = x
    /\ Others(new, slot) = Others(sectors, slot)
    /\ Lies(new, slot, seq)
    /\ Content(new, Ring \ {After(slot)}) =
           Content(sectors, Ring \ {After(slot)})
    /\ After(slot) \in Valid(new) <=> slot_valid(x)
    /\ \A i \in Ring \ {After(slot)} : new[i] = sectors[i]

(* The others stay as they lie.                                            *)
LEMMA LiesRewritten ==
    ASSUME NEW sectors, NEW slot, NEW seq, NEW x,
           MayRewrite(sectors, slot, seq, x),
           NEW new, new = [sectors EXCEPT ![After(slot)] = x]
    PROVE  Rewritten(sectors, slot, seq, x, new)
<1>0. /\ AllWhole(sectors) /\ slot \in Ring \cup {NoSlot} /\ seq \in Seqs
      /\ Lies(sectors, slot, seq)
      /\ Whole(x)
      /\ slot_valid(x) =>
             \/ x.seq = (seq + 1) % SeqWrap
             \/ /\ After(slot) \in Valid(sectors)
                /\ x.seq = sectors[After(slot)].seq
  BY DEF MayRewrite
<1> DEFINE n == After(slot)
           q == Others(sectors, slot)
<1>1. n \in Ring /\ n # slot
  BY <1>0, AfterIs
<1>2. new = [i \in Ring |-> IF i = n THEN x ELSE sectors[i]]
  BY <1>0, <1>1 DEF AllWhole
<1>3. new[n] = x /\ \A i \in Ring \ {n} : new[i] = sectors[i]
  BY <1>1, <1>2
<1>4. AllWhole(new)
  BY <1>0, <1>2 DEF AllWhole
<1>5. n \in Valid(new) <=> slot_valid(x)
  BY <1>1, <1>3 DEF Valid
<1>6. Others(new, slot) = q
  BY <1>3 DEF Others, Valid
<1>7. \A j \in q : new[j] = sectors[j]
  BY <1>3 DEF Others, Valid
<1>8. Lies(new, slot, seq)
  <2>1. Behind(new, slot, seq, q)
    BY <1>0, <1>7 DEF Lies, Behind
  <2>2. q # {} => slot \in Valid(new)
    BY <1>0, <1>1, <1>3 DEF Lies, Valid
  <2>3. slot_valid(x) => \/ x.seq = (seq + 1) % SeqWrap
                         \/ (seq - x.seq) % SeqWrap = Slots - 1
    BY <1>0 DEF Lies
  <2> QED
    BY <1>3, <1>5, <1>6, <2>1, <2>2, <2>3 DEF Lies
<1>9. q # {} => new[slot] = sectors[slot]
  BY <1>0, <1>1, <1>3 DEF Lies, Valid
<1>10. Content(new, Ring \ {n}) = Content(sectors, Ring \ {n})
  <2>1. Content(new, Ring \ {n}) = IF q = {} THEN Empty ELSE new[slot].sum
    BY <1>0, <1>4, <1>6, <1>8, LiesKept
  <2>2. Content(sectors, Ring \ {n}) =
            IF q = {} THEN Empty ELSE sectors[slot].sum
    BY <1>0, LiesKept
  <2> QED
    BY <1>9, <2>1, <2>2
<1> QED
  BY <1>3, <1>4, <1>5, <1>6, <1>8, <1>10 DEF Rewritten

-----------------------------------------------------------------------------
(***************************************************************************)
(* The store, while every boot could read its sectors.                     *)
(***************************************************************************)
Clear == faults["blind"] = 0 /\ faults["unreadable"] = 0

Saving == pc \in {"erase", "payload", "header"}

(* What a save has done so far, and what a boot has.                       *)
SaveInv ==
    /\ AllWhole(flash)
    /\ pc \in {"off", "idle", "erase", "payload", "header"}
    /\ s_slot \in Ring \cup {NoSlot} /\ s_seq \in Seqs
    /\ IF Saving THEN buf \in Payloads ELSE buf = Nothing
    /\ pc = "off" => s_slot = NoSlot /\ acked = Nothing /\ loaded = Nothing
    /\ pc \in {"payload", "header"} => ~flash[next].magic
    /\ pc = "header" => buf = Empty \/ flash[next].body = buf

(* Where no record is known of there is none, but for one a first save     *)
(* left in slot 0 when it failed.                                          *)
UnknownInv ==
    pc # "off" /\ s_slot = NoSlot =>
        IF pc = "idle" THEN Valid(flash) = {} \/ Marked(flash) = {0}
                       ELSE Marked(flash) = {}

(* Where one is, the records lie as Lies says.                             *)
KnownInv == Established => Lies(flash, s_slot, s_seq)

(* With the power off one of the records is the newest of all.             *)
OffInv ==
    pc = "off" /\ Valid(flash) # {} =>
        \E b \in Valid(flash) : Behind(flash, b, flash[b].seq, Valid(flash))

RingInv == SaveInv /\ UnknownInv /\ KnownInv /\ OffInv

(* What the rest needs of them.                                            *)
LEMMA RingFacts ==
    ASSUME RingInv
    PROVE  /\ AllWhole(flash) /\ s_slot \in Ring \cup {NoSlot}
           /\ s_seq \in Seqs /\ next = After(s_slot)
           /\ nextSeq = (s_seq + 1) % SeqWrap /\ nextSeq \in Seqs
           /\ next \in Ring /\ Whole(flash[next])
           /\ Valid(flash) \subseteq Marked(flash)
           /\ Saving => Established
           /\ Established =>
                  /\ Lies(flash, s_slot, s_seq)
                  /\ s_slot \in Ring \/ Others(flash, s_slot) = {}
<1>1. AllWhole(flash) /\ s_slot \in Ring \cup {NoSlot} /\ s_seq \in Seqs
  BY DEF RingInv, SaveInv
<1>2. next = After(s_slot)
  <2>1. CASE s_slot = NoSlot
    <3>1. After(NoSlot) = IF NoSlot + 1 = Slots THEN 0 ELSE NoSlot + 1
      BY AfterIs
    <3>2. NoSlot + 1 = 0
      BY DEF NoSlot
    <3> QED
      BY <2>1, <3>1, <3>2, RingSizes DEF next
  <2>2. CASE s_slot # NoSlot
    BY <2>2 DEF next, After
  <2> QED
    BY <2>1, <2>2
<1>3. nextSeq = (s_seq + 1) % SeqWrap /\ nextSeq \in Seqs
  <2>1. SeqWrap \in Nat \ {0} /\ s_seq \in 0 .. SeqWrap - 1
    BY <1>1, RingSizes DEF Seqs
  <2>2. (s_seq + 1) % SeqWrap = IF s_seq + 1 = SeqWrap THEN 0 ELSE s_seq + 1
    BY <2>1, Around
  <2>3. (s_seq + 1) % SeqWrap \in 0 .. SeqWrap - 1
    BY <2>1, <2>2
  <2> QED
    BY <2>3 DEF nextSeq, Seqs
<1>4. Valid(flash) \subseteq Marked(flash)
  BY DEF Valid, Marked, slot_valid
<1>5. Saving => Established
  BY DEF Saving, Established
<1>6. ASSUME Established
      PROVE  /\ Lies(flash, s_slot, s_seq)
             /\ s_slot \in Ring \/ Others(flash, s_slot) = {}
  BY <1>1, <1>4, <1>6
     DEF RingInv, KnownInv, UnknownInv, Established, Others
<1>7. next \in Ring
  BY <1>1, <1>2, AfterIs
<1> QED
  BY <1>1, <1>2, <1>3, <1>4, <1>5, <1>6, <1>7 DEF AllWhole

(***************************************************************************)
(* The record the ring stands for, step by step.                           *)
(***************************************************************************)
StoredNow == Content(flash, Ring)
KeptNow   == Content(flash, IF Established THEN Ring \ {next} ELSE Ring)

(* Nothing of it changes.                                                  *)
LEMMA RecordStays ==
    ASSUME UNCHANGED <<StoredNow, KeptNow, buf, acked, loaded>>
    PROVE  UNCHANGED Record!vars
  BY DEF Record!vars, StoredNow, KeptNow

(* A boot loads it.                                                        *)
LEMMA RecordLoads ==
    ASSUME buf = Nothing,
           acked = Nothing,
           loaded = Nothing,
           loaded' = StoredNow,
           KeptNow' = StoredNow,
           UNCHANGED <<StoredNow, buf, acked>>
    PROVE  Record!Next
<1>1. Record!Load
  BY DEF Record!Load, StoredNow, KeptNow
<1> QED
  BY <1>1 DEF Record!Next

(* A save begins.                                                          *)
LEMMA RecordIsSaved ==
    ASSUME buf = Nothing,
           buf' \in Payloads,
           acked' = Nothing,
           UNCHANGED <<StoredNow, KeptNow, loaded>>
    PROVE  Record!Next
<1>1. Record!Save(buf')
  BY DEF Record!Save, StoredNow, KeptNow
<1> QED
  BY <1>1 DEF Record!Next

(* A record that landed although its save failed is erased.                *)
LEMMA RecordIsTakenBack ==
    ASSUME buf # Nothing,
           StoredNow' = KeptNow,
           UNCHANGED <<KeptNow, buf, acked, loaded>>
    PROVE  Record!Next
<1>1. Record!TakeBack
  BY DEF Record!TakeBack, StoredNow, KeptNow
<1> QED
  BY <1>1 DEF Record!Next

(* A save is through.                                                      *)
LEMMA RecordIsReplaced ==
    ASSUME buf # Nothing,
           StoredNow' = buf,
           KeptNow' = buf,
           acked' = buf,
           buf' = Nothing,
           UNCHANGED loaded
    PROVE  Record!Next
<1>1. Record!Saved
  BY DEF Record!Saved, StoredNow, KeptNow
<1> QED
  BY <1>1 DEF Record!Next

(* A save fails.                                                           *)
LEMMA RecordMayLand ==
    ASSUME buf # Nothing,
           StoredNow' \in {StoredNow, KeptNow, buf},
           KeptNow' \in {KeptNow, StoredNow'},
           buf' = Nothing,
           UNCHANGED <<acked, loaded>>
    PROVE  Record!Next
<1>1. Record!Failed
  BY DEF Record!Failed, StoredNow, KeptNow
<1> QED
  BY <1>1 DEF Record!Next

(* The power goes.                                                         *)
LEMMA RecordSurvives ==
    ASSUME StoredNow' \in IF buf = Nothing THEN {StoredNow}
                         ELSE {StoredNow, KeptNow, buf},
           KeptNow' = StoredNow',
           buf' = Nothing,
           acked' = Nothing,
           loaded' = Nothing
    PROVE  Record!Next
<1>1. Record!PowerLoss
  BY DEF Record!PowerLoss, StoredNow, KeptNow
<1> QED
  BY <1>1 DEF Record!Next

-----------------------------------------------------------------------------
(***************************************************************************)
(* The flash calls.                                                        *)
(***************************************************************************)
(* A part of a number, with the bytes not yet written still ones.          *)
LEMMA TornSeqIs ==
    ASSUME NEW seq \in Seqs, NEW t \in TornSeq(seq)
    PROVE  t \in Seqs
<1>1. SeqWrap \in Nat /\ SeqPieces \subseteq 1 .. SeqWrap - 1
  BY RingAssumption
<1>2. ASSUME NEW p \in SeqPieces
      PROVE  (SeqWrap - p) + (seq % p) \in Seqs
  <2>1. p \in 1 .. SeqWrap - 1 /\ p \in Nat \ {0} /\ seq \in Nat
    BY <1>1 DEF Seqs
  <2>2. seq % p \in 0 .. p - 1
    BY <2>1
  <2>3. \A m \in 0 .. p - 1 : (SeqWrap - p) + m \in 0 .. SeqWrap - 1
    BY <1>1, <2>1
  <2> QED
    BY <2>2, <2>3 DEF Seqs
<1> QED
  BY <1>2 DEF TornSeq

(* A call that fails or is cut off leaves no record that was not there,    *)
(* but the one it was to write.                                            *)
LEMMA TornIs ==
    ASSUME RingInv, Saving, NEW x \in Torn
    PROVE  /\ Whole(x)
           /\ slot_valid(x) =>
                  \/ pc = "header" /\ x.seq = nextSeq /\ x.sum = buf
                  \/ /\ slot_valid(flash[next])
                     /\ x.seq = flash[next].seq /\ x.sum = flash[next].sum
           /\ pc # "header" /\ ~flash[next].magic => ~x.magic
<1> DEFINE sector == flash[next]
<1>1. Whole(sector) /\ nextSeq \in Seqs
  BY RingFacts
<1>2. CASE pc = "erase"
  <2>1. x \in {sector, [sector EXCEPT !.body = Blank], Erased}
    BY <1>2 DEF Torn, TornErase
  <2>2. CASE x = sector
    BY <1>1, <2>2
  <2>3. CASE x = [sector EXCEPT !.body = Blank]
    BY <1>1, <2>3, BodyIs
  <2>4. CASE x = Erased
    BY <2>4, ErasedIs DEF slot_valid
  <2> QED
    BY <2>1, <2>2, <2>3, <2>4
<1>3. CASE pc = "payload"
  <2>1. x \in {sector, [sector EXCEPT !.body = buf]} /\ ~sector.magic
    BY <1>3 DEF Torn, RingInv, SaveInv
  <2>2. Whole(x) /\ ~x.magic
    <3>1. CASE x = sector
      BY <1>1, <2>1, <3>1
    <3>2. CASE x = [sector EXCEPT !.body = buf]
      <4>1. Whole(x) /\ (x.magic <=> sector.magic)
        BY <1>1, <3>2, BodyIs
      <4> QED
        BY <2>1, <4>1
    <3> QED
      BY <2>1, <3>1, <3>2
  <2> QED
    BY <2>2 DEF slot_valid
<1>4. CASE pc = "header"
  <2>1. x \in TornHeader(sector, nextSeq, buf) /\ ~sector.magic
    BY <1>4 DEF Torn, RingInv, SaveInv
  <2>2. CASE x = sector
    BY <1>1, <2>1, <2>2 DEF slot_valid
  <2>3. CASE x = Header(sector, nextSeq, buf)
    BY <1>1, <1>4, <2>3, HeaderIs
  <2>4. ASSUME NEW t \in TornSeq(nextSeq), x = Header(sector, t, Blank)
        PROVE  Whole(x) /\ ~slot_valid(x)
    <3>1. t \in Seqs
      BY <1>1, <2>4, TornSeqIs
    <3> QED
      BY <1>1, <2>4, <3>1, HeaderIs
  <2> QED
    BY <1>4, <2>1, <2>2, <2>3, <2>4 DEF TornHeader
<1> QED
  BY <1>2, <1>3, <1>4 DEF Saving

(* What a call leaves of the ring, and of the record.                      *)
LEMMA Rewrites ==
    ASSUME RingInv, Saving, NEW x, Whole(x),
           slot_valid(x) => \/ x.seq = nextSeq
                            \/ /\ slot_valid(flash[next])
                               /\ x.seq = flash[next].seq,
           flash' = [flash EXCEPT ![next] = x]
    PROVE  /\ AllWhole(flash') /\ flash'[next] = x
           /\ Lies(flash', s_slot, s_seq)
           /\ Others(flash', s_slot) = Others(flash, s_slot)
           /\ Content(flash', Ring \ {next}) = KeptNow
           /\ Content(flash', Ring) =
                  IF slot_valid(x) /\ (\/ x.seq = nextSeq
                                       \/ Others(flash, s_slot) = {})
                  THEN x.sum ELSE KeptNow
           /\ Valid(flash') # {} =>
                  \E b \in Valid(flash') :
                      Behind(flash', b, flash'[b].seq, Valid(flash'))
           /\ next \in Valid(flash') <=> slot_valid(x)
           /\ s_slot = NoSlot =>
                  /\ Marked(flash') = IF x.magic THEN {0} ELSE {}
                  /\ Valid(flash') \subseteq Marked(flash')
<1>1. /\ AllWhole(flash) /\ s_slot \in Ring \cup {NoSlot} /\ s_seq \in Seqs
      /\ Lies(flash, s_slot, s_seq) /\ Established
      /\ s_slot \in Ring \/ Others(flash, s_slot) = {}
      /\ next = After(s_slot) /\ nextSeq = (s_seq + 1) % SeqWrap
      /\ next \in Ring
  BY RingFacts
<1>2. slot_valid(x) => \/ x.seq = (s_seq + 1) % SeqWrap
                       \/ /\ After(s_slot) \in Valid(flash)
                          /\ x.seq = flash[After(s_slot)].seq
  BY <1>1 DEF Valid
<1>3. flash' = [flash EXCEPT ![After(s_slot)] = x]
  BY <1>1
<1>4. /\ AllWhole(flash') /\ flash'[After(s_slot)] = x
      /\ Others(flash', s_slot) = Others(flash, s_slot)
      /\ Lies(flash', s_slot, s_seq)
      /\ Content(flash', Ring \ {After(s_slot)}) =
             Content(flash, Ring \ {After(s_slot)})
      /\ After(s_slot) \in Valid(flash') <=> slot_valid(x)
      /\ \A i \in Ring \ {After(s_slot)} : flash'[i] = flash[i]
  <2>1. MayRewrite(flash, s_slot, s_seq, x)
    BY <1>1, <1>2 DEF MayRewrite
  <2>2. Rewritten(flash, s_slot, s_seq, x, flash')
    BY <1>3, <2>1, LiesRewritten
  <2> QED
    BY <2>2 DEF Rewritten
<1>5. s_slot \in Ring \/ Others(flash', s_slot) = {}
  BY <1>1, <1>4
<1>6. Content(flash', Ring) =
          IF /\ After(s_slot) \in Valid(flash')
             /\ \/ flash'[After(s_slot)].seq = (s_seq + 1) % SeqWrap
                \/ Others(flash', s_slot) = {}
          THEN flash'[After(s_slot)].sum
          ELSE Content(flash', Ring \ {After(s_slot)})
  BY <1>1, <1>4, <1>5, LiesStored
<1>7. Valid(flash') # {} =>
          \E b \in Valid(flash') :
              Behind(flash', b, flash'[b].seq, Valid(flash'))
  BY <1>1, <1>4, <1>5, LiesStored
<1>8. KeptNow = Content(flash, Ring \ {After(s_slot)})
  BY <1>1 DEF KeptNow
<1>9. ASSUME s_slot = NoSlot
      PROVE  /\ Marked(flash') = IF x.magic THEN {0} ELSE {}
             /\ Valid(flash') \subseteq Marked(flash')
  <2>1. next = 0 /\ Marked(flash) = {}
    BY <1>9 DEF next, RingInv, UnknownInv, Saving
  <2>2. \A i \in Ring : flash'[i].magic <=> i = 0 /\ x.magic
    BY <1>1, <1>4, <2>1 DEF Marked
  <2> QED
    BY <1>1, <2>1, <2>2 DEF Marked, Valid, slot_valid
<1> QED
  BY <1>1, <1>4, <1>6, <1>7, <1>8, <1>9

(* And what it held before.                                                *)
LEMMA StoredIs ==
    ASSUME RingInv, Saving
    PROVE  /\ StoredNow =
                  IF slot_valid(flash[next]) /\
                         (\/ flash[next].seq = nextSeq
                          \/ Others(flash, s_slot) = {})
                  THEN flash[next].sum ELSE KeptNow
           /\ buf # Nothing /\ buf \in Payloads
<1>1. /\ AllWhole(flash) /\ s_slot \in Ring \cup {NoSlot} /\ s_seq \in Seqs
      /\ Lies(flash, s_slot, s_seq) /\ Established
      /\ s_slot \in Ring \/ Others(flash, s_slot) = {}
      /\ next = After(s_slot) /\ nextSeq = (s_seq + 1) % SeqWrap
      /\ next \in Ring
  BY RingFacts
<1>2. Content(flash, Ring) =
          IF /\ After(s_slot) \in Valid(flash)
             /\ \/ flash[After(s_slot)].seq = (s_seq + 1) % SeqWrap
                \/ Others(flash, s_slot) = {}
          THEN flash[After(s_slot)].sum
          ELSE Content(flash, Ring \ {After(s_slot)})
  BY <1>1, LiesStored
<1>3. KeptNow = Content(flash, Ring \ {After(s_slot)})
  BY <1>1 DEF KeptNow
<1>4. buf # Nothing /\ buf \in Payloads
  BY PayloadAssumption DEF RingInv, SaveInv
<1> QED
  BY <1>1, <1>2, <1>3, <1>4 DEF StoredNow, Valid

-----------------------------------------------------------------------------
(***************************************************************************)
(* Each step of the store, while its sectors can be read.                  *)
(***************************************************************************)
Refines == RingInv' /\ (Record!Next \/ UNCHANGED Record!vars)

(* A step of a save that leaves no record in the slot it writes.           *)
LEMMA StillSaving ==
    ASSUME RingInv, Saving, NEW x, Whole(x), ~x.magic,
           flash' = [flash EXCEPT ![next] = x],
           pc' \in {"payload", "header"},
           pc' = "header" => buf = Empty \/ x.body = buf,
           UNCHANGED <<s_slot, s_seq, buf, acked, loaded>>
    PROVE  RingInv' /\ StoredNow' = KeptNow /\ KeptNow' = KeptNow
<1>1. ~slot_valid(x)
  BY DEF slot_valid
<1>2. /\ AllWhole(flash') /\ flash'[next] = x
      /\ Lies(flash', s_slot, s_seq)
      /\ Content(flash', Ring \ {next}) = KeptNow
      /\ Content(flash', Ring) = KeptNow
      /\ s_slot = NoSlot => Marked(flash') = {}
  BY <1>1, Rewrites
<1>3. next' = next /\ Established' /\ Saving'
  BY DEF next, Established, Saving
<1>4. SaveInv'
  BY <1>2, <1>3 DEF RingInv, SaveInv, Saving
<1>5. UnknownInv' /\ KnownInv' /\ OffInv'
  BY <1>2 DEF UnknownInv, KnownInv, OffInv
<1> QED
  BY <1>2, <1>3, <1>4, <1>5 DEF RingInv, StoredNow, KeptNow

(* The erase takes back what a failed save may have left there.            *)
LEMMA EraseRefines ==
    ASSUME RingInv, EraseDone
    PROVE  Refines
<1>1. /\ Saving /\ flash' = [flash EXCEPT ![next] = Erased]
      /\ pc' \in {"payload", "header"} /\ (pc' = "header" => buf = Empty)
      /\ UNCHANGED <<s_slot, s_seq, buf, acked, loaded>>
  BY DEF EraseDone, Saving, ram
<1>2. RingInv' /\ StoredNow' = KeptNow /\ KeptNow' = KeptNow
  BY <1>1, ErasedIs, StillSaving
<1>3. buf # Nothing
  BY <1>1, StoredIs
<1>4. Record!Next
  BY <1>1, <1>2, <1>3, RecordIsTakenBack
<1> QED
  BY <1>2, <1>4 DEF Refines

(* The payload goes where no record is.                                    *)
LEMMA PayloadRefines ==
    ASSUME RingInv, PayloadDone
    PROVE  Refines
<1> DEFINE x == [flash[next] EXCEPT !.body = buf]
<1>1. /\ Saving /\ flash' = [flash EXCEPT ![next] = x] /\ pc' = "header"
      /\ UNCHANGED <<s_slot, s_seq, buf, acked, loaded>>
  BY DEF PayloadDone, Saving, ram
<1>2. ~flash[next].magic /\ ~slot_valid(flash[next])
  BY DEF PayloadDone, RingInv, SaveInv, slot_valid
<1>3. Whole(x) /\ ~x.magic /\ x.body = buf
  <2>1. Whole(flash[next])
    BY RingFacts
  <2>2. Whole(x) /\ x.body = buf /\ (x.magic <=> flash[next].magic)
    BY <2>1, BodyIs
  <2> QED
    BY <1>2, <2>2
<1> HIDE DEF x
<1>4. RingInv' /\ StoredNow' = KeptNow /\ KeptNow' = KeptNow
  BY <1>1, <1>3, StillSaving
<1>5. StoredNow = KeptNow
  BY <1>1, <1>2, StoredIs
<1>6. UNCHANGED Record!vars
  BY <1>1, <1>4, <1>5, RecordStays
<1> QED
  BY <1>4, <1>6 DEF Refines

(* The header makes it the record.                                         *)
LEMMA HeaderRefines ==
    ASSUME RingInv, HeaderDone
    PROVE  Refines
<1> DEFINE x == Header(flash[next], nextSeq, buf)
<1>1. /\ Saving /\ flash' = [flash EXCEPT ![next] = x] /\ pc' = "idle"
      /\ s_slot' = next /\ s_seq' = nextSeq
      /\ acked' = buf /\ buf' = Nothing /\ UNCHANGED loaded
  BY DEF HeaderDone, Saving
<1>2. /\ next = After(s_slot) /\ nextSeq = (s_seq + 1) % SeqWrap
      /\ next \in Ring /\ nextSeq \in Seqs /\ Whole(flash[next])
      /\ s_slot \in Ring \cup {NoSlot} /\ s_seq \in Seqs
      /\ s_slot \in Ring \/ Others(flash, s_slot) = {}
  BY <1>1, RingFacts
<1>3. buf = flash[next].body \/ buf = Empty
  BY DEF HeaderDone, RingInv, SaveInv
<1>4. buf # Nothing /\ buf \in Payloads
  BY <1>1, StoredIs
<1>5. Whole(x) /\ x.seq = nextSeq /\ x.sum = buf /\ slot_valid(x)
  <2>1. /\ Whole(x) /\ x.seq = nextSeq /\ x.sum = buf
        /\ slot_valid(x) <=> /\ buf # Blank
                             /\ buf = flash[next].body \/ buf = Empty
    BY <1>2, HeaderIs
  <2> QED
    BY <1>3, <1>4, <2>1, PayloadAssumption
<1> HIDE DEF x
<1>6. /\ AllWhole(flash') /\ flash'[next] = x
      /\ Lies(flash', s_slot, s_seq)
      /\ Others(flash', s_slot) = Others(flash, s_slot)
      /\ Content(flash', Ring) = buf
      /\ next \in Valid(flash')
  BY <1>1, <1>5, Rewrites
<1>7. Lies(flash', next, nextSeq)
  <2>1. /\ s_slot \in Ring \/ Others(flash', s_slot) = {}
        /\ After(s_slot) \in Valid(flash')
        /\ flash'[After(s_slot)].seq = (s_seq + 1) % SeqWrap
    BY <1>2, <1>5, <1>6
  <2> QED
    BY <1>2, <1>6, <2>1, LiesAdvance
<1>8. next # NoSlot /\ After(next) # next /\ After(next) = next'
  <2>1. next \in Ring \cup {NoSlot} /\ next # NoSlot
    BY <1>2, RingSizes DEF Ring, NoSlot
  <2>2. After(next) # next
    BY <2>1, AfterIs
  <2> QED
    BY <1>1, <2>1, <2>2 DEF next, After
<1>9. Content(flash', Ring \ {After(next)}) = buf
  <2>1. Content(flash', Ring \ {After(next)}) =
            IF Others(flash', next) = {} THEN Empty ELSE flash'[next].sum
    BY <1>2, <1>6, <1>7, LiesKept
  <2>2. next \in Others(flash', next)
    BY <1>6, <1>8 DEF Others
  <2> QED
    BY <1>5, <1>6, <2>1, <2>2
<1>10. Established' /\ ~Saving'
  BY <1>1, <1>8 DEF Established, Saving
<1>11. SaveInv'
  BY <1>1, <1>2, <1>6, <1>10 DEF SaveInv, Saving
<1>12. UnknownInv' /\ KnownInv' /\ OffInv'
  BY <1>1, <1>7, <1>8 DEF UnknownInv, KnownInv, OffInv
<1>13. StoredNow' = buf /\ KeptNow' = buf
  BY <1>6, <1>8, <1>9, <1>10 DEF StoredNow, KeptNow
<1>14. Record!Next
  BY <1>1, <1>4, <1>13, RecordIsReplaced
<1> QED
  BY <1>11, <1>12, <1>14 DEF Refines, RingInv

(* What a call that did not get through leaves of the record.              *)
LEMMA TornStored ==
    ASSUME RingInv, Saving, NEW x \in Torn,
           flash' = [flash EXCEPT ![next] = x]
    PROVE  /\ AllWhole(flash')
           /\ Lies(flash', s_slot, s_seq)
           /\ Content(flash', Ring \ {next}) = KeptNow
           /\ Content(flash', Ring) \in {StoredNow, KeptNow, buf}
           /\ Valid(flash') # {} =>
                  \E b \in Valid(flash') :
                      Behind(flash', b, flash'[b].seq, Valid(flash'))
           /\ s_slot = NoSlot => Valid(flash') = {} \/ Marked(flash') = {0}
<1>1. /\ Whole(x)
      /\ slot_valid(x) =>
             \/ x.seq = nextSeq /\ x.sum = buf
             \/ /\ slot_valid(flash[next])
                /\ x.seq = flash[next].seq /\ x.sum = flash[next].sum
  BY TornIs
<1>2. /\ AllWhole(flash')
      /\ Lies(flash', s_slot, s_seq)
      /\ Content(flash', Ring \ {next}) = KeptNow
      /\ Content(flash', Ring) =
             IF slot_valid(x) /\ (\/ x.seq = nextSeq
                                  \/ Others(flash, s_slot) = {})
             THEN x.sum ELSE KeptNow
      /\ Valid(flash') # {} =>
             \E b \in Valid(flash') :
                 Behind(flash', b, flash'[b].seq, Valid(flash'))
      /\ s_slot = NoSlot =>
             /\ Marked(flash') = IF x.magic THEN {0} ELSE {}
             /\ Valid(flash') \subseteq Marked(flash')
  BY <1>1, Rewrites
<1>3. StoredNow = IF slot_valid(flash[next]) /\
                         (\/ flash[next].seq = nextSeq
                          \/ Others(flash, s_slot) = {})
                  THEN flash[next].sum ELSE KeptNow
  BY StoredIs
<1>4. Content(flash', Ring) \in {StoredNow, KeptNow, buf}
  BY <1>1, <1>2, <1>3
<1>5. s_slot = NoSlot => Valid(flash') = {} \/ Marked(flash') = {0}
  BY <1>2
<1> QED
  BY <1>2, <1>4, <1>5

(* A call that fails leaves the ring so that the next save goes on.        *)
LEMMA FailureRefines ==
    ASSUME RingInv, CallFails
    PROVE  Refines
<1>1. PICK x \in Torn : flash' = [flash EXCEPT ![next] = x]
  BY DEF CallFails
<1>2. /\ Saving /\ pc' = "idle" /\ buf' = Nothing
      /\ UNCHANGED <<s_slot, s_seq, acked, loaded>>
  BY DEF CallFails, Saving
<1>3. /\ AllWhole(flash')
      /\ Lies(flash', s_slot, s_seq)
      /\ Content(flash', Ring \ {next}) = KeptNow
      /\ Content(flash', Ring) \in {StoredNow, KeptNow, buf}
      /\ s_slot = NoSlot => Valid(flash') = {} \/ Marked(flash') = {0}
  BY <1>1, <1>2, TornStored
<1>4. /\ ~Saving' /\ (Established' <=> s_slot # NoSlot) /\ next' = next
  BY <1>2 DEF Saving, Established, next
<1>5. SaveInv'
  BY <1>2, <1>3, <1>4 DEF RingInv, SaveInv, Saving
<1>6. UnknownInv' /\ KnownInv' /\ OffInv'
  BY <1>2, <1>3 DEF UnknownInv, KnownInv, OffInv
<1>7. /\ StoredNow' \in {StoredNow, KeptNow, buf}
      /\ KeptNow' \in {KeptNow, StoredNow'}
  <2>1. StoredNow' = Content(flash', Ring)
    BY DEF StoredNow
  <2>2. KeptNow' = IF s_slot # NoSlot THEN Content(flash', Ring \ {next})
                                      ELSE Content(flash', Ring)
    BY <1>4 DEF KeptNow
  <2> QED
    BY <1>3, <2>1, <2>2
<1>8. buf # Nothing
  BY <1>2, StoredIs
<1>9. Record!Next
  BY <1>2, <1>7, <1>8, RecordMayLand
<1> QED
  BY <1>5, <1>6, <1>9 DEF Refines, RingInv

(* Wherever a loss of power falls the record is the old one or the new.    *)
LEMMA LossRefines ==
    ASSUME RingInv, PowerLoss
    PROVE  Refines
<1>1. /\ pc # "off" /\ pc' = "off" /\ s_slot' = NoSlot /\ s_seq' = 0
      /\ buf' = Nothing /\ acked' = Nothing /\ loaded' = Nothing
  BY DEF PowerLoss
<1>2. /\ AllWhole(flash')
      /\ Valid(flash') # {} =>
             \E b \in Valid(flash') :
                 Behind(flash', b, flash'[b].seq, Valid(flash'))
      /\ Content(flash', Ring) \in
             IF buf = Nothing THEN {StoredNow} ELSE {StoredNow, KeptNow, buf}
  <2>1. CASE pc = "idle"
    <3>1. flash' = flash /\ buf = Nothing
      BY <2>1 DEF PowerLoss, RingInv, SaveInv, Saving
    <3>2. AllWhole(flash)
      BY RingFacts
    <3>3. ASSUME Valid(flash) # {}
          PROVE  \E b \in Valid(flash) :
                     Behind(flash, b, flash[b].seq, Valid(flash))
      <4>1. CASE s_slot # NoSlot
        <5>1. /\ AllWhole(flash) /\ s_slot \in Ring \cup {NoSlot}
              /\ s_seq \in Seqs /\ Lies(flash, s_slot, s_seq)
              /\ s_slot \in Ring \/ Others(flash, s_slot) = {}
          BY <2>1, <4>1, RingFacts DEF Established
        <5> QED
          BY <3>3, <5>1, LiesStored
      <4>2. CASE s_slot = NoSlot
        <5>1. Valid(flash) = {0} /\ 0 \in Ring
          BY <2>1, <3>3, <4>2, RingFacts DEF RingInv, UnknownInv, Valid
        <5>2. flash[0].seq \in Seqs
          BY <3>2, <5>1 DEF AllWhole, Whole
        <5>3. Behind(flash, 0, flash[0].seq, Valid(flash))
          BY <5>1, <5>2, SameAge DEF Behind
        <5> QED
          BY <5>1, <5>3
      <4> QED
        BY <4>1, <4>2
    <3> QED
      BY <3>1, <3>2, <3>3 DEF StoredNow
  <2>2. CASE pc # "idle"
    <3>1. Saving
      BY <1>1, <2>2 DEF RingInv, SaveInv, Saving
    <3>2. PICK x \in Torn : flash' = [flash EXCEPT ![next] = x]
      BY <2>2 DEF PowerLoss
    <3>3. buf # Nothing
      BY <3>1, StoredIs
    <3> QED
      BY <3>1, <3>2, <3>3, TornStored
  <2> QED
    BY <2>1, <2>2
<1>3. ~Saving' /\ ~Established'
  BY <1>1 DEF Saving, Established
<1>4. SaveInv'
  <2>1. 0 \in Seqs
    BY RingSizes DEF Seqs
  <2> QED
    BY <1>1, <1>2, <1>3, <2>1 DEF SaveInv, Saving
<1>5. UnknownInv' /\ KnownInv' /\ OffInv'
  BY <1>1, <1>2, <1>3 DEF UnknownInv, KnownInv, OffInv
<1>6. KeptNow' = StoredNow' /\ StoredNow' = Content(flash', Ring)
  BY <1>3 DEF KeptNow, StoredNow
<1>7. Record!Next
  BY <1>1, <1>2, <1>6, RecordSurvives
<1> QED
  BY <1>4, <1>5, <1>7 DEF Refines, RingInv

(* A boot finds it.                                                        *)
LEMMA LoadRefines ==
    ASSUME RingInv, history_store_load({})
    PROVE  Refines
<1> DEFINE best == Newest(flash, Valid(flash) \ {})
<1>1. /\ pc = "off" /\ pc' = "idle" /\ UNCHANGED <<flash, buf, acked>>
      /\ IF best = NoSlot
         THEN loaded' = Empty /\ UNCHANGED <<s_slot, s_seq>>
         ELSE /\ loaded' = flash[best].sum
              /\ s_slot' = best /\ s_seq' = flash[best].seq
  BY DEF history_store_load
<1>2. /\ AllWhole(flash) /\ s_slot = NoSlot /\ s_seq \in Seqs
      /\ buf = Nothing /\ acked = Nothing /\ loaded = Nothing
  BY <1>1 DEF RingInv, SaveInv, Saving
<1>3. ~Saving' /\ UNCHANGED StoredNow /\ OffInv'
  BY <1>1 DEF Saving, StoredNow, OffInv
<1>4. Valid(flash) \subseteq Ring /\ Valid(flash) \cap Ring = Valid(flash)
      /\ Valid(flash) \ {} = Valid(flash)
  BY DEF Valid
<1>5. CASE Valid(flash) = {}
  <2>1. best = NoSlot
    BY <1>4, <1>5, NewestIn
  <2>2. StoredNow = Empty
    BY <1>4, <1>5, ContentNone DEF StoredNow
  <2>3. s_slot' = NoSlot /\ s_seq' = s_seq /\ loaded' = Empty
    BY <1>1, <1>2, <2>1
  <2>4. ~Established'
    BY <1>1, <2>3 DEF Established
  <2>5. KeptNow' = StoredNow
    BY <1>3, <2>4 DEF KeptNow, StoredNow
  <2>6. SaveInv'
    BY <1>1, <1>2, <1>3, <2>3 DEF SaveInv, Saving
  <2>7. UnknownInv' /\ KnownInv'
    BY <1>1, <1>5, <2>4 DEF UnknownInv, KnownInv
  <2>8. Record!Next
    BY <1>1, <1>2, <1>3, <2>2, <2>3, <2>5, RecordLoads
  <2> QED
    BY <1>3, <2>6, <2>7, <2>8 DEF Refines, RingInv
<1>6. CASE Valid(flash) # {}
  <2>1. PICK b \in Valid(flash) :
            Behind(flash, b, flash[b].seq, Valid(flash))
    BY <1>1, <1>6 DEF RingInv, OffInv
  <2>2. \A j \in Ring : flash[j].seq \in Seqs
    BY <1>2 DEF AllWhole, Whole
  <2>3. Beats(flash, b, Valid(flash))
    BY <1>4, <2>1, BehindIsBeaten
  <2>4. best = b
    BY <1>4, <2>2, <2>3, NewestIs
  <2>5. b \in Ring /\ b # NoSlot /\ flash[b].seq \in Seqs
    BY <1>4, <2>2, RingSizes DEF NoSlot, Ring
  <2>6. StoredNow = flash[b].sum
    BY <1>4, <2>2, <2>3, ContentIs DEF StoredNow
  <2>7. s_slot' = b /\ s_seq' = flash[b].seq /\ loaded' = flash[b].sum
    BY <1>1, <2>4, <2>5
  <2>8. Lies(flash, b, flash[b].seq)
    BY <2>1, <2>5, LiesBooted
  <2>9. Established' /\ next' = After(b) /\ After(b) # b
    BY <1>1, <2>5, <2>7, AfterIs DEF Established, next, After
  <2>10. KeptNow' = StoredNow
    <3>1. KeptNow' = Content(flash, Ring \ {After(b)})
      BY <1>1, <2>9 DEF KeptNow
    <3>2. Content(flash, Ring \ {After(b)}) =
              IF Others(flash, b) = {} THEN Empty ELSE flash[b].sum
      BY <1>2, <2>5, <2>8, LiesKept
    <3>3. b \in Others(flash, b)
      BY <2>9 DEF Others
    <3> QED
      BY <2>6, <3>1, <3>2, <3>3
  <2>11. SaveInv'
    BY <1>1, <1>2, <1>3, <2>5, <2>7 DEF SaveInv, Saving
  <2>12. UnknownInv' /\ KnownInv'
    BY <1>1, <2>5, <2>7, <2>8 DEF UnknownInv, KnownInv
  <2>13. Record!Next
    BY <1>1, <1>2, <1>3, <2>6, <2>7, <2>10, RecordLoads
  <2> QED
    BY <1>3, <2>11, <2>12, <2>13 DEF Refines, RingInv
<1> QED
  BY <1>5, <1>6

(* A save begins where the last one left off, or where the scan by headers *)
(* alone says: it erases the slot after the record, never the record.      *)
LEMMA SaveRefines ==
    ASSUME RingInv, NEW p \in Payloads, history_store_save(p, {})
    PROVE  Refines
<1> DEFINE best == Newest(flash, Marked(flash) \ {})
<1>1. /\ pc = "idle" /\ pc' = "erase" /\ buf' = p /\ acked' = Nothing
      /\ UNCHANGED <<flash, loaded>>
      /\ IF s_slot # NoSlot \/ best = NoSlot
         THEN UNCHANGED <<s_slot, s_seq>>
         ELSE s_slot' = best /\ s_seq' = flash[best].seq
  BY DEF history_store_save, ensure_scanned
<1>2. /\ AllWhole(flash) /\ s_slot \in Ring \cup {NoSlot} /\ s_seq \in Seqs
      /\ Valid(flash) \subseteq Marked(flash) /\ buf = Nothing
      /\ \A j \in Ring : flash[j].seq \in Seqs
  BY <1>1, RingFacts DEF RingInv, SaveInv, Saving, AllWhole, Whole
<1>3. Saving' /\ Established' /\ UNCHANGED StoredNow /\ OffInv'
  BY <1>1 DEF Saving, Established, StoredNow, OffInv
<1>4. SUFFICES /\ s_slot' \in Ring \cup {NoSlot} /\ s_seq' \in Seqs
               /\ s_slot' = NoSlot => Marked(flash) = {}
               /\ Lies(flash, s_slot', s_seq')
               /\ KeptNow' = KeptNow
  <2>1. SaveInv' /\ UnknownInv' /\ KnownInv'
    BY <1>1, <1>2, <1>3, <1>4
       DEF SaveInv, UnknownInv, KnownInv, Saving
  <2>2. Record!Next
    BY <1>1, <1>2, <1>3, <1>4, RecordIsSaved
  <2> QED
    BY <1>3, <2>1, <2>2 DEF Refines, RingInv
<1>5. CASE s_slot # NoSlot
  <2>1. s_slot' = s_slot /\ s_seq' = s_seq
    BY <1>1, <1>5
  <2>2. Established
    BY <1>1, <1>5 DEF Established
  <2>3. KeptNow' = KeptNow
    BY <1>1, <1>3, <2>1, <2>2 DEF KeptNow, next
  <2> QED
    BY <1>2, <1>5, <2>1, <2>2, <2>3, RingFacts
<1>6. CASE s_slot = NoSlot
  <2>0. \A i \in Ring : i # NoSlot
    BY RingSizes DEF Ring, NoSlot
  <2>1. KeptNow = Content(flash, Ring)
    BY <1>1, <1>6 DEF KeptNow, Established
  <2>2. KeptNow' = Content(flash, Ring \ {next'})
    BY <1>1, <1>3 DEF KeptNow
  <2>3. Valid(flash) = {} \/ Marked(flash) = {0}
    BY <1>1, <1>6 DEF RingInv, UnknownInv
  <2>4. Marked(flash) \subseteq Ring /\ Marked(flash) \ {} = Marked(flash)
    BY DEF Marked
  <2>5. IF Marked(flash) = {} THEN s_slot' = NoSlot /\ s_seq' = s_seq
        ELSE s_slot' \in Marked(flash) /\ s_seq' = flash[s_slot'].seq
    <3>1. IF Marked(flash) = {} THEN best = NoSlot ELSE best \in Marked(flash)
      BY <2>4, NewestIn
    <3>2. best \in Ring => best # NoSlot
      BY <2>0
    <3> HIDE DEF best
    <3> QED
      BY <1>1, <1>6, <2>4, <3>1, <3>2
  <2>6. CASE Valid(flash) = {}
    <3>1. Lies(flash, s_slot', s_seq')
      <4>1. Others(flash, s_slot') = {}
        BY <2>6 DEF Others
      <4> QED
        BY <2>6, <4>1 DEF Lies, Behind
    <3>2. KeptNow' = KeptNow
      BY <2>1, <2>2, <2>6, ContentNone
    <3> QED
      BY <1>2, <2>0, <2>4, <2>5, <3>1, <3>2
  <2>7. CASE Valid(flash) # {}
    <3>1. Marked(flash) = {0} /\ Valid(flash) = {0} /\ 0 \in Ring
      BY <1>2, <2>3, <2>4, <2>7
    <3>2. s_slot' = 0 /\ s_seq' = flash[0].seq /\ flash[0].seq \in Seqs
      BY <1>2, <2>5, <3>1
    <3>3. Behind(flash, 0, flash[0].seq, Valid(flash))
      BY <3>1, <3>2, SameAge DEF Behind
    <3>4. Lies(flash, 0, flash[0].seq)
      BY <3>1, <3>3, LiesBooted
    <3>5. After(0) # 0 /\ next' = After(0)
      <4>1. 0 # NoSlot
        BY DEF NoSlot
      <4> QED
        BY <3>1, <3>2, <4>1, AfterIs DEF next, After
    <3>6. KeptNow' = flash[0].sum
      <4>1. Content(flash, Ring \ {After(0)}) =
                IF Others(flash, 0) = {} THEN Empty ELSE flash[0].sum
        BY <1>2, <3>1, <3>2, <3>4, LiesKept
      <4>2. 0 \in Others(flash, 0)
        BY <3>1, <3>5 DEF Others
      <4> QED
        BY <2>2, <3>5, <4>1, <4>2
    <3>7. KeptNow = flash[0].sum
      <4>1. Beats(flash, 0, Valid(flash) \cap Ring)
        BY <3>1, <3>3, BehindIsBeaten
      <4> QED
        BY <1>2, <2>1, <4>1, ContentIs
    <3> QED
      BY <2>0, <3>1, <3>2, <3>4, <3>6, <3>7
  <2> QED
    BY <2>6, <2>7
<1> QED
  BY <1>5, <1>6

-----------------------------------------------------------------------------
(***************************************************************************)
(* What can go wrong that the ring does not see: a boot that could not     *)
(* load, or a sector that could not be read.                               *)
(***************************************************************************)
FaultsOK ==
    /\ faults \in [DOMAIN Bound -> Nat]
    /\ faults["blind"] + faults["unreadable"] <= MaxUnseen

(* Faults are only ever counted up.                                        *)
LEMMA FaultsCount ==
    ASSUME FaultsOK, NEW kind \in DOMAIN Bound, NEW n \in Nat,
           Fault(kind, n)
    PROVE  /\ FaultsOK' /\ (Clear' => Clear)
           /\ Clear' /\ kind \in {"blind", "unreadable"} => n = 0
<1>1. DOMAIN Bound = {"error", "loss", "blind", "unreadable"}
  BY DEF Bound
<1>2. /\ faults' = [faults EXCEPT ![kind] = @ + n]
      /\ faults'["blind"] + faults'["unreadable"] <= MaxUnseen
  BY DEF Fault
<1>3. faults' \in [DOMAIN Bound -> Nat]
  BY <1>2 DEF FaultsOK
<1>4. \A k \in DOMAIN Bound :
          faults'[k] = IF k = kind THEN faults[k] + n ELSE faults[k]
  BY <1>2 DEF FaultsOK
<1>5. \A k \in DOMAIN Bound : faults[k] \in Nat
  BY DEF FaultsOK
<1> QED
  BY <1>1, <1>2, <1>3, <1>4, <1>5 DEF FaultsOK, Clear

(* No sector goes unread without being counted.                            *)
LEMMA MissedCounts ==
    ASSUME FaultsOK, NEW bad \in SUBSET Ring, Missed(bad)
    PROVE  FaultsOK' /\ (Clear' => Clear /\ bad = {})
<1>1. IsFiniteSet(bad) /\ Cardinality(bad) \in Nat
  <2>1. 0 \in Int /\ Slots - 1 \in Int
    BY RingSizes
  <2>2. IsFiniteSet(Ring)
    BY <2>1, FS_Interval DEF Ring
  <2>3. IsFiniteSet(bad)
    BY <2>2, FS_Subset
  <2> QED
    BY <2>3, FS_CardinalityType
<1>2. Cardinality(bad) = 0 => bad = {}
  BY <1>1, FS_EmptySet
<1>3. Fault("unreadable", Cardinality(bad)) /\ "unreadable" \in DOMAIN Bound
  BY DEF Missed, Bound
<1>4. /\ FaultsOK' /\ (Clear' => Clear)
      /\ Clear' => Cardinality(bad) = 0
  BY <1>1, <1>3, FaultsCount
<1> QED
  BY <1>2, <1>4

StoreInv == FaultsOK /\ (Clear => RingInv)

(* The store starts as the empty record.                                   *)
LEMMA StoreStarts ==
    ASSUME StoreInit
    PROVE  StoreInv /\ Record!Init
<1>1. /\ flash = [i \in Ring |-> Erased]
      /\ pc = "off" /\ s_slot = NoSlot /\ s_seq = 0
      /\ buf = Nothing /\ acked = Nothing /\ loaded = Nothing
      /\ faults = [kind \in DOMAIN Bound |-> 0]
  BY DEF StoreInit
<1>2. FaultsOK
  <2>1. faults["blind"] = 0 /\ faults["unreadable"] = 0 /\ MaxUnseen \in Nat
    BY <1>1, BoundAssumption DEF Bound
  <2>2. faults \in [DOMAIN Bound -> Nat]
    BY <1>1
  <2> QED
    BY <2>1, <2>2 DEF FaultsOK
<1>3. Valid(flash) = {}
  BY <1>1, ErasedIs DEF Valid, slot_valid
<1>4. AllWhole(flash)
  BY <1>1, ErasedIs DEF AllWhole
<1>5. RingInv
  <2>1. 0 \in Seqs
    BY RingSizes DEF Seqs
  <2>2. SaveInv
    BY <1>1, <1>4, <2>1 DEF SaveInv, Saving
  <2>3. UnknownInv /\ KnownInv /\ OffInv
    BY <1>1, <1>3 DEF UnknownInv, KnownInv, OffInv, Established
  <2> QED
    BY <2>2, <2>3 DEF RingInv
<1>6. Record!Init
  <2>1. \A R : Valid(flash) \cap R = {}
    BY <1>3
  <2>2. /\ Content(flash, Ring) = Empty
        /\ Content(flash, IF Established THEN Ring \ {next} ELSE Ring) = Empty
    <3>1. Ring \subseteq Ring /\ Ring \ {next} \subseteq Ring
      OBVIOUS
    <3> QED
      BY <2>1, <3>1, ContentNone
  <2> QED
    BY <1>1, <2>2 DEF Record!Init
<1> QED
  BY <1>2, <1>5, <1>6 DEF StoreInv

(* Every step leaves it so, and is a step of the record.                   *)
LEMMA StoreSteps ==
    ASSUME StoreInv, [StoreNext]_storevars
    PROVE  StoreInv' /\ (Clear' => Clear /\ [Record!Next]_(Record!vars))
<1>1. SUFFICES FaultsOK' /\ (Clear' => Clear /\ (RingInv => Refines))
  BY <1>1 DEF StoreInv, Refines
<1>f. FaultsOK
  BY DEF StoreInv
<1>k. {"error", "loss", "blind", "unreadable"} \subseteq DOMAIN Bound
      /\ 1 \in Nat
  BY DEF Bound
<1>2. ASSUME NEW bad \in SUBSET Ring, history_store_load(bad)
      PROVE  FaultsOK' /\ (Clear' => Clear /\ (RingInv => Refines))
  <2>1. FaultsOK' /\ (Clear' => Clear /\ bad = {})
    BY <1>f, <1>2, MissedCounts DEF history_store_load
  <2> QED
    BY <1>2, <2>1, LoadRefines
<1>3. ASSUME BlindBoot
      PROVE  FaultsOK' /\ (Clear' => Clear /\ (RingInv => Refines))
  <2>1. FaultsOK' /\ ~Clear'
    BY <1>f, <1>k, <1>3, FaultsCount DEF BlindBoot
  <2> QED
    BY <2>1
<1>4. ASSUME NEW p \in Payloads, NEW bad \in SUBSET Ring,
             history_store_save(p, bad)
      PROVE  FaultsOK' /\ (Clear' => Clear /\ (RingInv => Refines))
  <2>1. FaultsOK' /\ (Clear' => Clear /\ bad = {})
    BY <1>f, <1>4, MissedCounts DEF history_store_save, ensure_scanned
  <2> QED
    BY <1>4, <2>1, SaveRefines
<1>5. ASSUME EraseDone \/ PayloadDone \/ HeaderDone
      PROVE  FaultsOK' /\ (Clear' => Clear /\ (RingInv => Refines))
  <2>1. UNCHANGED faults
    BY <1>5 DEF EraseDone, PayloadDone, HeaderDone
  <2>2. FaultsOK' /\ (Clear' => Clear)
    BY <1>f, <2>1 DEF FaultsOK, Clear
  <2> QED
    BY <1>5, <2>2, EraseRefines, PayloadRefines, HeaderRefines
<1>6. ASSUME CallFails
      PROVE  FaultsOK' /\ (Clear' => Clear /\ (RingInv => Refines))
  <2>1. FaultsOK' /\ (Clear' => Clear)
    BY <1>f, <1>k, <1>6, FaultsCount DEF CallFails
  <2> QED
    BY <1>6, <2>1, FailureRefines
<1>7. ASSUME PowerLoss
      PROVE  FaultsOK' /\ (Clear' => Clear /\ (RingInv => Refines))
  <2>1. FaultsOK' /\ (Clear' => Clear)
    BY <1>f, <1>k, <1>7, FaultsCount DEF PowerLoss
  <2> QED
    BY <1>7, <2>1, LossRefines
<1>8. ASSUME UNCHANGED storevars
      PROVE  FaultsOK' /\ (Clear' => Clear /\ (RingInv => Refines))
  <2>1. /\ UNCHANGED <<flash, pc, s_slot, s_seq, buf, acked, loaded>>
        /\ UNCHANGED faults
    BY <1>8 DEF storevars
  <2>2. FaultsOK' /\ (Clear' => Clear)
    BY <1>f, <2>1 DEF FaultsOK, Clear
  <2>3. next' = next /\ (Established' <=> Established)
    BY <2>1 DEF next, Established
  <2>4. UNCHANGED <<StoredNow, KeptNow>>
    BY <2>1, <2>3 DEF StoredNow, KeptNow
  <2>5. UNCHANGED Record!vars
    BY <2>1, <2>4, RecordStays
  <2>6. ASSUME RingInv
        PROVE  RingInv'
    BY <2>1, <2>3, <2>6
       DEF RingInv, SaveInv, UnknownInv, KnownInv, OffInv, Saving
  <2> QED
    BY <2>2, <2>5, <2>6 DEF Refines
<1> QED
  BY <1>2, <1>3, <1>4, <1>5, <1>6, <1>7, <1>8 DEF StoreNext

(* For as long as every boot can read its sectors, the ring of sectors is  *)
(* the one record that history_store.h promises: a save replaces it whole  *)
(* or not at all, wherever a flash call fails or the power goes, however   *)
(* often, and across the wrap of the sequence number.                      *)
THEOREM RingIsOneRecord ==
    StoreSpec => /\ Record!Init
                 /\ [][storevars' # storevars /\ Clear'
                           => [Record!Next]_(Record!vars)]_storevars
<1>1. StoreInit => StoreInv /\ Record!Init
  BY StoreStarts
<1>2. StoreInv /\ [StoreNext]_storevars => StoreInv'
  BY StoreSteps
<1>3. StoreInv /\ [StoreNext]_storevars =>
          [storevars' # storevars /\ Clear'
               => [Record!Next]_(Record!vars)]_storevars
  BY StoreSteps
<1> QED
  BY <1>1, <1>2, <1>3, PTL DEF StoreSpec

(* So with no reading fault at all the store implements DurableRecord, the *)
(* promise of history_store.h, by the refinement mapping that is checked.  *)
THEOREM StoreImplementsRecord ==
    ASSUME MaxUnseen = 0
    PROVE  StoreSpec => Implements
<1>1. StoreInit => StoreInv /\ Record!Init
  BY StoreStarts
<1>2. StoreInv /\ [StoreNext]_storevars => StoreInv'
  BY StoreSteps
<1>3. StoreInv' => Clear'
  <2>1. ASSUME StoreInv'
        PROVE  Clear'
    <3>1. /\ faults' \in [DOMAIN Bound -> Nat]
          /\ faults'["blind"] + faults'["unreadable"] <= 0
      BY <2>1 DEF StoreInv, FaultsOK
    <3>2. faults'["blind"] \in Nat /\ faults'["unreadable"] \in Nat
      BY <3>1 DEF Bound
    <3> QED
      BY <3>1, <3>2 DEF Clear
  <2> QED
    BY <2>1
<1>4. StoreInv /\ [StoreNext]_storevars =>
          [storevars' # storevars /\ faults'["unreadable"] = 0
               => [Record!Next]_(Record!vars)]_storevars
  BY <1>2, <1>3, StoreSteps
<1> QED
  BY <1>1, <1>2, <1>4, PTL DEF StoreSpec, Implements

-----------------------------------------------------------------------------
(***************************************************************************)
(* What a load finds.                                                      *)
(***************************************************************************)
(* Whatever the device is doing, a record that is there is the newest.     *)
LEMMA OneIsNewest ==
    ASSUME RingInv, Valid(flash) # {}
    PROVE  \E b \in Valid(flash) :
               Behind(flash, b, flash[b].seq, Valid(flash))
<1>1. CASE pc = "off"
  BY <1>1 DEF RingInv, OffInv
<1>2. CASE Established
  <2>1. /\ AllWhole(flash) /\ s_slot \in Ring \cup {NoSlot}
        /\ s_seq \in Seqs /\ Lies(flash, s_slot, s_seq)
        /\ s_slot \in Ring \/ Others(flash, s_slot) = {}
    BY <1>2, RingFacts
  <2> QED
    BY <2>1, LiesStored
<1>3. CASE pc = "idle" /\ s_slot = NoSlot
  <2>1. Valid(flash) = {0} /\ 0 \in Ring /\ AllWhole(flash)
    BY <1>3, RingFacts DEF RingInv, UnknownInv, Valid
  <2>2. flash[0].seq \in Seqs
    BY <2>1 DEF AllWhole, Whole
  <2>3. Behind(flash, 0, flash[0].seq, Valid(flash))
    BY <2>1, <2>2, SameAge DEF Behind
  <2> QED
    BY <2>1, <2>3
<1> QED
  BY <1>1, <1>2, <1>3 DEF Established

(* For as long as every boot can read its sectors, the scan of load() and  *)
(* ensure_scanned() answers with the record that is newer than every other *)
(* one, though "newer" is only the sign of a difference and the numbers    *)
(* wrap.                                                                   *)
THEOREM ScanAlwaysFindsNewest == StoreSpec => [](Clear => ScanFindsNewest)
<1>1. StoreInit => StoreInv
  BY StoreStarts
<1>2. StoreInv /\ [StoreNext]_storevars => StoreInv'
  BY StoreSteps
<1>3. StoreInv => (Clear => ScanFindsNewest)
  <2> DEFINE V == Valid(flash)
  <2> SUFFICES ASSUME RingInv, NEW i \in V \ {Newest(flash, V)}
               PROVE  Newer(flash[Newest(flash, V)].seq, flash[i].seq)
    BY DEF StoreInv, ScanFindsNewest
  <2>1. PICK b \in V : Behind(flash, b, flash[b].seq, V)
    BY OneIsNewest
  <2>2. V \subseteq Ring /\ \A j \in V : flash[j].seq \in Seqs
    BY RingFacts DEF AllWhole, Whole, Valid
  <2>3. Beats(flash, b, V)
    BY <2>1, <2>2, BehindIsBeaten
  <2>4. Newest(flash, V) = b
    BY <2>2, <2>3, NewestIs
  <2> QED
    BY <2>3, <2>4 DEF Beats
<1> QED
  BY <1>1, <1>2, <1>3, PTL DEF StoreSpec

(* What has been saved by this boot is what the record holds, until the    *)
(* next save begins.                                                       *)
AckedInv == acked # Nothing => buf = Nothing /\ StoredNow = acked

LEMMA RecordKeepsAcked ==
    ASSUME AckedInv, [Record!Next]_(Record!vars)
    PROVE  AckedInv'
<1> USE DEF AckedInv, StoredNow
<1>1. CASE Record!Load
  BY <1>1 DEF Record!Load
<1>2. CASE \E p \in Payloads : Record!Save(p)
  BY <1>2 DEF Record!Save
<1>3. CASE Record!TakeBack
  BY <1>3 DEF Record!TakeBack
<1>4. CASE Record!Saved
  BY <1>4 DEF Record!Saved
<1>5. CASE Record!Failed
  BY <1>5 DEF Record!Failed
<1>6. CASE Record!PowerLoss
  BY <1>6 DEF Record!PowerLoss
<1>7. CASE UNCHANGED Record!vars
  BY <1>7 DEF Record!vars
<1> QED
  BY <1>1, <1>2, <1>3, <1>4, <1>5, <1>6, <1>7 DEF Record!Next

(* For as long as every boot can read its sectors, a save that returned OK *)
(* is what the next load finds (history_store.h), whatever failed or was   *)
(* cut off before it.                                                      *)
THEOREM AckedAlwaysWins == StoreSpec => [](Clear => AckedWins)
<1>1. StoreInit => StoreInv /\ AckedInv
  BY StoreStarts DEF StoreInit, AckedInv
<1>2. /\ StoreInv /\ (Clear => AckedInv) /\ [StoreNext]_storevars
      => StoreInv' /\ (Clear' => AckedInv')
  BY StoreSteps, RecordKeepsAcked
<1>3. (Clear => AckedInv) => (Clear => AckedWins)
  BY DEF AckedInv, AckedWins, StoredNow
<1> QED
  BY <1>1, <1>2, <1>3, PTL DEF StoreSpec
=============================================================================
