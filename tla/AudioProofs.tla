---------------------------- MODULE AudioProofs ----------------------------
(***************************************************************************)
(* Proofs about AudioLink and Playback, which share no variable: for rings *)
(* and chunks of any size, and any number of replies, taps and opens that  *)
(* fail.                                                                   *)
(***************************************************************************)
EXTENDS AudioLink, Playback, SequenceTheorems, TLAPS

-----------------------------------------------------------------------------
(***************************************************************************)
(* AudioLink.  The codec lock is held exactly between a task's taking it   *)
(* and its one step under it, so the microphone's flag is true at every    *)
(* moment; the speaker's is true while the playback task is not between a  *)
(* close or an open and its note of it.                                    *)
(***************************************************************************)
LinkInv ==
    /\ LinkTypeOK
    /\ codecLock = "play" <=> player \in {"closing", "opening"}
    /\ codecLock = "cap" <=> capturer \in {"parking", "resuming"}
    /\ micFlag <=> "mic" \in i2s
    /\ micOpen = micFlag
    /\ capturer \in {"resume", "resuming"} => ~micOpen
    /\ wait => badOpens > 0
    /\ player = "closed" => "spk" \notin i2s
    /\ player = "opened" => "spk" \in i2s
    /\ player \in {"close", "closing"} => ~spkClosed
    /\ player \in {"open", "opening"} => spkClosed
    /\ FlagsAreTrue

(* A fresh audio_io has both devices open and the lock free.               *)
LEMMA LinkInitial == LinkInit => LinkInv
<1> SUFFICES ASSUME LinkInit PROVE LinkInv
  OBVIOUS
<1>1. LinkTypeOK
  <2>1. {deepWant, chimeOn, toneAsked, flushAsked, captureOn, spkClosed,
         micFlag, wait, micOpen} \subseteq BOOLEAN
    BY DEF LinkInit
  <2>2. playing \in [chime : BOOLEAN, tone : BOOLEAN]
    BY DEF LinkInit, Silent
  <2>3. chunks \in 0 .. MaxChunks /\ badOpens \in 0 .. MaxBadOpens
    BY AudioLinkAssumption DEF LinkInit
  <2>4. i2s \subseteq {"mic", "spk"}
    BY DEF LinkInit
  <2> QED
    BY <2>1, <2>2, <2>3, <2>4 DEF LinkInit, LinkTypeOK
<1> QED
  BY <1>1 DEF LinkInit, LinkInv, FlagsAreTrue

(* What playback_task() does keeps the flags true.                         *)
LEMMA LinkPlayer == LinkInv /\ playback_task => LinkInv'
<1> SUFFICES ASSUME LinkInv, playback_task PROVE LinkInv'
  OBVIOUS
<1> USE AudioLinkAssumption DEF LinkInv, LinkTypeOK, FlagsAreTrue, linkWanted,
            spk, mic, wires, Silent
<1>1. CASE PlayTop
  BY <1>1 DEF PlayTop, Reopens
<1>2. CASE PlayLocks
  BY <1>2 DEF PlayLocks
<1>3. CASE spk_close_if_idle
  BY <1>3 DEF spk_close_if_idle
<1>4. CASE spk_reopen
  <2>1. PICK ok \in BOOLEAN :
            /\ Opens(ok) /\ OpenCounted(ok)
            /\ i2s' = IF ok THEN i2s \cup {"spk"} ELSE i2s
            /\ wait' = ~ok
            /\ player' = IF ok THEN "opened" ELSE then
    BY <1>4 DEF spk_reopen
  <2>2. CASE ok
    BY <1>4, <2>1, <2>2 DEF spk_reopen, OpenCounted
  <2>3. CASE ~ok
    BY <1>4, <2>1, <2>3 DEF spk_reopen, Opens, OpenCounted
  <2> QED
    BY <2>2, <2>3
<1>5. CASE NoteSpeaker
  <2>1. CASE player = "closed"
    BY <1>5, <2>1 DEF NoteSpeaker
  <2>2. CASE player = "opened"
    BY <1>5, <2>2 DEF NoteSpeaker
  <2> QED
    BY <1>5, <2>1, <2>2 DEF NoteSpeaker
<1>6. CASE Receive
  BY <1>6 DEF Receive, Reopens, Sounds
<1>7. CASE FlushRing
  <2>1. {deepWant, chimeOn, toneAsked, flushAsked, captureOn, spkClosed,
         micFlag, wait, micOpen}' \subseteq BOOLEAN
    BY <1>7 DEF FlushRing
  <2>2. chunks' \in 0 .. MaxChunks
    BY <1>7 DEF FlushRing
  <2>3. LinkTypeOK'
    BY <1>7, <2>1, <2>2 DEF FlushRing
  <2> QED
    BY <1>7, <2>3 DEF FlushRing
<1>8. CASE WriteSound
  <2>1. playing' = playing \/ playing' = [chime |-> FALSE, tone |-> FALSE]
    BY <1>8 DEF WriteSound
  <2>2. playing' \in [chime : BOOLEAN, tone : BOOLEAN]
    <3>1. [chime |-> FALSE, tone |-> FALSE] \in
              [chime : BOOLEAN, tone : BOOLEAN]
      OBVIOUS
    <3> QED
      BY <2>1, <3>1
  <2>3. LinkTypeOK'
    BY <1>8, <2>2 DEF WriteSound
  <2> QED
    BY <1>8, <2>3 DEF WriteSound
<1> QED
  BY <1>1, <1>2, <1>3, <1>4, <1>5, <1>6, <1>7, <1>8 DEF playback_task

(* And so does what capture_task() does.                                   *)
LEMMA LinkCapturer == LinkInv /\ capture_task => LinkInv'
<1> SUFFICES ASSUME LinkInv, capture_task PROVE LinkInv'
  OBVIOUS
<1> USE AudioLinkAssumption DEF LinkInv, LinkTypeOK, FlagsAreTrue, linkWanted,
            spk, mic, wires
<1>1. CASE CaptureTop
  BY <1>1 DEF CaptureTop
<1>2. CASE ParkedWait
  BY <1>2 DEF ParkedWait
<1>3. CASE CaptureLocks
  BY <1>3 DEF CaptureLocks
<1>4. CASE Park
  BY <1>4 DEF Park
<1>5. CASE ResumeMic
  BY <1>5 DEF ResumeMic, Opens, OpenCounted
<1> QED
  BY <1>1, <1>2, <1>3, <1>4, <1>5 DEF capture_task

(* The requests of other tasks touch neither the lock nor the devices.     *)
LEMMA LinkAsked ==
    ASSUME LinkInv,
           \/ audio_io_deep_idle \/ audio_io_chime \/ audio_io_tone
           \/ audio_io_queue \/ audio_io_drop \/ audio_io_capture
           \/ GapEnds \/ UNCHANGED linkvars
    PROVE  LinkInv'
<1> USE AudioLinkAssumption DEF LinkInv, LinkTypeOK, FlagsAreTrue, linkWanted,
            spk, mic, wires
<1>1. CASE audio_io_deep_idle
  BY <1>1 DEF audio_io_deep_idle
<1>2. CASE audio_io_chime
  BY <1>2 DEF audio_io_chime
<1>3. CASE audio_io_tone
  BY <1>3 DEF audio_io_tone
<1>4. CASE audio_io_queue
  BY <1>4 DEF audio_io_queue
<1>5. CASE audio_io_drop
  BY <1>5 DEF audio_io_drop
<1>6. CASE audio_io_capture
  BY <1>6 DEF audio_io_capture
<1>7. CASE GapEnds
  <2>1. LinkTypeOK'
    BY <1>7 DEF GapEnds
  <2> QED
    BY <1>7, <2>1 DEF GapEnds
<1>8. CASE UNCHANGED linkvars
  BY <1>8 DEF linkvars
<1> QED
  BY <1>1, <1>2, <1>3, <1>4, <1>5, <1>6, <1>7, <1>8

(* The three together: LinkInv is inductive.                               *)
LEMMA LinkStep == LinkInv /\ [LinkNext]_linkvars => LinkInv'
BY LinkPlayer, LinkCapturer, LinkAsked DEF LinkNext

(* Every behaviour has the invariant throughout.                           *)
LEMMA LinkAlways == LinkSpec => []LinkInv
BY LinkInitial, LinkStep, PTL DEF LinkSpec

(* Every value stored is of its type.                                      *)
THEOREM LinkTyped == LinkSpec => []LinkTypeOK
<1>1. LinkInv => LinkTypeOK
  BY DEF LinkInv
<1> QED
  BY <1>1, LinkAlways, PTL

(* s_mic_is_open and s_spk_closed can be believed wherever they are read.  *)
THEOREM FlagsAlwaysTrue == LinkSpec => []FlagsAreTrue
<1>1. LinkInv => FlagsAreTrue
  BY DEF LinkInv
<1> QED
  BY <1>1, LinkAlways, PTL

(* The speaker's device is closed only while the microphone's is: the only *)
(* step that closes it is taken under the lock with the flag down.         *)
THEOREM SpeakerAlwaysClosesAlone == LinkSpec => SpeakerClosesAlone
<1>1. ASSUME LinkInv, [LinkNext]_linkvars
      PROVE  [i2s \ i2s' = {"spk"} => "mic" \notin i2s]_linkvars
  <2> SUFFICES ASSUME LinkNext, i2s \ i2s' = {"spk"} PROVE "mic" \notin i2s
    BY <1>1
  <2>1. CASE playback_task
    <3>1. i2s' = i2s \/ spk_close_if_idle \/ spk_reopen
      BY <2>1 DEF playback_task, PlayTop, PlayLocks, NoteSpeaker, Receive,
                  FlushRing, WriteSound, wires
    <3>2. CASE i2s' = i2s
      BY <3>2
    <3>3. CASE spk_close_if_idle
      BY <1>1, <3>3 DEF spk_close_if_idle, LinkInv
    <3>4. CASE spk_reopen
      BY <3>4 DEF spk_reopen
    <3> QED
      BY <3>1, <3>2, <3>3, <3>4
  <2>2. CASE capture_task
    BY <2>2 DEF capture_task, CaptureTop, ParkedWait, CaptureLocks, Park,
                ResumeMic, wires
  <2>3. CASE i2s' = i2s
    BY <2>3
  <2> QED
    BY <2>1, <2>2, <2>3
       DEF LinkNext, GapEnds, audio_io_deep_idle, audio_io_chime, wires,
           audio_io_tone, audio_io_queue, audio_io_drop, audio_io_capture
<1> QED
  BY <1>1, LinkAlways, PTL DEF LinkSpec, SpeakerClosesAlone

-----------------------------------------------------------------------------
(***************************************************************************)
(* Playback.  Sequences of bytes, cut and joined.                          *)
(***************************************************************************)
NoneOld(s) == \A i \in 1 .. Len(s) : ~s[i].old

(* Two bytes that may follow each other on an odd and an even place.       *)
Pair(low, high) ==
    \/ low.torn \/ high.torn
    \/ low.turn = high.turn /\ low.n % 2 = 0 /\ high.n = low.n + 1

Paired(s) ==
    /\ Len(s) % 2 = 0
    /\ \A i \in 1 .. Len(s) : i % 2 = 1 => Pair(s[i], s[i + 1])

(* Even() rounds down to a whole number of samples.                        *)
LEMMA Evens ==
    ASSUME NEW n \in Nat
    PROVE  /\ Even(n) \in 0 .. n /\ Even(n) % 2 = 0
           /\ n = Even(n) \/ n = Even(n) + 1
           /\ n - Even(n) <= 1
           /\ n % 2 = 0 => Even(n) = n
BY DEF Even

(* Sums and differences of whole samples are whole samples.                *)
LEMMA Parities ==
    ASSUME NEW a \in Nat, NEW b \in Nat, a % 2 = 0
    PROVE  /\ b % 2 = 0 => (a + b) % 2 = 0
           /\ b % 2 = 1 => (a + b) % 2 = 1
           /\ b % 2 = 0 /\ b <= a => (a - b) % 2 = 0
OBVIOUS

(* A sequence cut in two is the sequence.                                  *)
LEMMA Cut ==
    ASSUME NEW S, NEW s \in Seq(S), NEW k \in 0 .. Len(s)
    PROVE  /\ First(s, k) \in Seq(S) /\ Len(First(s, k)) = k
           /\ \A i \in 1 .. k : First(s, k)[i] = s[i]
           /\ Rest(s, k) \in Seq(S) /\ Len(Rest(s, k)) = Len(s) - k
           /\ \A i \in 1 .. (Len(s) - k) : Rest(s, k)[i] = s[k + i]
<1>1. \A i \in 1 .. Len(s) : s[i] \in S
  BY ElementOfSeq
<1>2. Len(s) \in Nat
  BY LenProperties
<1>3. /\ SubSeq(s, 1, k) \in Seq(S)
      /\ Len(SubSeq(s, 1, k)) = IF 1 <= k THEN k - 1 + 1 ELSE 0
      /\ \A i \in 1 .. k - 1 + 1 : SubSeq(s, 1, k)[i] = s[1 + i - 1]
  <2>1. \A i \in 1 .. k : s[i] \in S
    BY <1>1, <1>2
  <2>2. 1 \in Int /\ k \in Int
    OBVIOUS
  <2> HIDE DEF First, Rest
  <2> QED
    BY <2>1, <2>2, SubSeqProperties
<1>4. /\ SubSeq(s, k + 1, Len(s)) \in Seq(S)
      /\ Len(SubSeq(s, k + 1, Len(s))) =
             IF k + 1 <= Len(s) THEN Len(s) - (k + 1) + 1 ELSE 0
      /\ \A i \in 1 .. Len(s) - (k + 1) + 1 :
             SubSeq(s, k + 1, Len(s))[i] = s[k + 1 + i - 1]
  <2>1. \A i \in k + 1 .. Len(s) : s[i] \in S
    BY <1>1, <1>2
  <2>2. k + 1 \in Int /\ Len(s) \in Int
    BY <1>2
  <2> QED
    BY <2>1, <2>2, SubSeqProperties
<1> QED
  BY <1>2, <1>3, <1>4 DEF First, Rest

(* Pairs joined to pairs are pairs.                                        *)
LEMMA PairsJoined ==
    ASSUME NEW s, NEW t, NEW c, Len(s) \in Nat, Len(t) \in Nat,
           Len(c) = Len(s) + Len(t),
           \A i \in 1 .. Len(s) + Len(t) :
               c[i] = IF i <= Len(s) THEN s[i] ELSE t[i - Len(s)],
           Paired(s), Paired(t)
    PROVE  Paired(c)
<1>1. Len(c) % 2 = 0 /\ Len(s) % 2 = 0
  BY DEF Paired
<1>2. ASSUME NEW i \in 1 .. Len(c), i % 2 = 1 PROVE Pair(c[i], c[i + 1])
  <2>1. i + 1 <= Len(c)
    BY <1>1, <1>2
  <2>2. CASE i <= Len(s)
    <3>1. i + 1 <= Len(s)
      BY <1>1, <1>2, <2>2
    <3>2. c[i] = s[i] /\ c[i + 1] = s[i + 1]
      BY <2>1, <2>2, <3>1
    <3> QED
      BY <1>2, <2>2, <3>2 DEF Paired
  <2>3. CASE i > Len(s)
    <3>1. i - Len(s) \in 1 .. Len(t) /\ (i - Len(s)) % 2 = 1
      BY <1>1, <1>2, <2>3
    <3>2. Pair(t[i - Len(s)], t[i - Len(s) + 1])
      BY <3>1 DEF Paired
    <3>3. c[i] = t[i - Len(s)] /\ c[i + 1] = t[i - Len(s) + 1]
      <4>1. c[i + 1] = t[i + 1 - Len(s)]
        BY <2>1, <2>3
      <4>2. i + 1 - Len(s) = i - Len(s) + 1
        OBVIOUS
      <4> QED
        BY <2>3, <4>1, <4>2
    <3> QED
      BY <3>2, <3>3
  <2> QED
    BY <2>2, <2>3
<1> QED
  BY <1>1, <1>2 DEF Paired

(* An even piece of pairs, from an even place on, is pairs.                *)
LEMMA PairsPart ==
    ASSUME NEW c, NEW d, NEW k \in Nat, Len(c) \in Nat, Len(d) \in Nat,
           k % 2 = 0, Len(d) % 2 = 0, k + Len(d) <= Len(c),
           \A i \in 1 .. Len(d) : d[i] = c[k + i],
           Paired(c)
    PROVE  Paired(d)
<1> SUFFICES ASSUME NEW i \in 1 .. Len(d), i % 2 = 1
             PROVE  Pair(d[i], d[i + 1])
  BY DEF Paired
<1>1. i + 1 \in 1 .. Len(d)
  OBVIOUS
<1>2. k + i \in 1 .. Len(c) /\ (k + i) % 2 = 1
  <2>1. k + i \in 1 .. Len(c) /\ i \in Nat
    OBVIOUS
  <2> QED
    BY <2>1, Parities
<1>3. Pair(c[k + i], c[k + i + 1])
  BY <1>2 DEF Paired
<1>4. d[i] = c[k + i] /\ d[i + 1] = c[k + i + 1]
  <2>1. d[i + 1] = c[k + (i + 1)]
    BY <1>1
  <2>2. k + (i + 1) = k + i + 1
    OBVIOUS
  <2> QED
    BY <2>1, <2>2
<1> QED
  BY <1>3, <1>4

(* What is joined to the ring, in whole samples, keeps it whole.           *)
LEMMA PairedConcat ==
    ASSUME NEW s \in Seq(Bytes), NEW t \in Seq(Bytes), Paired(s), Paired(t)
    PROVE  Paired(s \o t)
<1>1. Len(s) \in Nat /\ Len(t) \in Nat
  BY LenProperties
<1> DEFINE c == s \o t
<1>2. /\ Len(c) = Len(s) + Len(t)
      /\ \A i \in 1 .. Len(s) + Len(t) :
             c[i] = IF i <= Len(s) THEN s[i] ELSE t[i - Len(s)]
  BY ConcatProperties
<1> HIDE DEF c
<1>3. Paired(c)
  BY <1>1, <1>2, PairsJoined
<1> QED
  BY <1>3 DEF c

(* Cut between two samples of what is in hand, both parts are pairs: the   *)
(* one that is written, and the other with what is still in the ring.      *)
LEMMA PairedCut ==
    ASSUME NEW h \in Seq(Bytes), NEW p \in Seq(Bytes), Paired(h \o p),
           NEW k \in 0 .. Len(h), k % 2 = 0
    PROVE  Paired(First(h, k)) /\ Paired(Rest(h, k) \o p)
<1> DEFINE c == h \o p
           f == First(h, k)
           r == Rest(h, k)
           d == r \o p
<1>1. Len(h) \in Nat /\ Len(p) \in Nat
  BY LenProperties
<1>2. /\ Len(c) = Len(h) + Len(p)
      /\ \A i \in 1 .. Len(h) + Len(p) :
             c[i] = IF i <= Len(h) THEN h[i] ELSE p[i - Len(h)]
  BY ConcatProperties
<1>3. /\ Len(f) = k /\ \A i \in 1 .. k : f[i] = h[i]
      /\ r \in Seq(Bytes) /\ Len(r) = Len(h) - k
      /\ \A i \in 1 .. (Len(h) - k) : r[i] = h[k + i]
  BY Cut
<1>4. /\ Len(d) = Len(r) + Len(p)
      /\ \A i \in 1 .. Len(r) + Len(p) :
             d[i] = IF i <= Len(r) THEN r[i] ELSE p[i - Len(r)]
  BY <1>3, ConcatProperties
<1> Paired(c)
  OBVIOUS
<1> HIDE DEF c, f, r, d
<1>5. Paired(f)
  <2>1. \A i \in 1 .. Len(f) : f[i] = c[0 + i]
    BY <1>1, <1>2, <1>3
  <2>2. Len(f) = k /\ k \in Nat
    BY <1>1, <1>3
  <2>3. Len(c) \in Nat /\ 0 + k <= Len(c)
    BY <1>1, <1>2
  <2>4. 0 \in Nat /\ 0 % 2 = 0
    OBVIOUS
  <2> QED
    BY <2>1, <2>2, <2>3, <2>4, PairsPart
<1>6. Paired(d)
  <2>1. \A i \in 1 .. Len(d) : d[i] = c[k + i]
    BY <1>1, <1>2, <1>3, <1>4
  <2>2. Len(c) \in Nat /\ Len(c) % 2 = 0
    BY <1>1, <1>2 DEF Paired
  <2>3. Len(d) = Len(c) - k
    BY <1>1, <1>2, <1>3, <1>4
  <2>4. Len(d) \in Nat /\ k + Len(d) <= Len(c) /\ k \in Nat /\ k <= Len(c)
    BY <1>1, <1>2, <2>2, <2>3
  <2>5. Len(d) % 2 = 0
    BY <2>2, <2>3, <2>4, Parities
  <2> QED
    BY <2>1, <2>2, <2>4, <2>5, PairsPart
<1> QED
  BY <1>5, <1>6 DEF f, d, r

(* A flush marks bytes, and moves none.                                    *)
LEMMA Marks ==
    ASSUME NEW h \in Seq(Bytes), NEW s \in Seq(Bytes)
    PROVE  /\ FlushMarked(s) \in Seq(Bytes)
           /\ Len(FlushMarked(s)) = Len(s)
           /\ Paired(h \o s) => Paired(h \o FlushMarked(s))
<1> DEFINE m == FlushMarked(s)
           c == h \o s
           d == h \o m
<1>1. Len(h) \in Nat /\ Len(s) \in Nat /\ DOMAIN s = 1 .. Len(s)
  BY LenProperties
<1>2. \A i \in 1 .. Len(s) : s[i] \in Bytes
  BY ElementOfSeq
<1>3. m = [i \in 1 .. Len(s) |-> [s[i] EXCEPT !.old = TRUE]]
  BY <1>1 DEF FlushMarked
<1>4. \A i \in 1 .. Len(s) : [s[i] EXCEPT !.old = TRUE] \in Bytes
  BY <1>2 DEF Bytes
<1>5. m \in Seq(Bytes) /\ Len(m) = Len(s)
  BY <1>1, <1>3, <1>4, IsASeq
<1>6. ASSUME NEW i \in 1 .. Len(s)
      PROVE  m[i].turn = s[i].turn /\ m[i].n = s[i].n /\ m[i].torn = s[i].torn
  <2>1. m[i] = [s[i] EXCEPT !.old = TRUE]
    BY <1>3
  <2> QED
    BY <1>2, <2>1 DEF Bytes
<1>7. /\ Len(c) = Len(h) + Len(s)
      /\ \A i \in 1 .. Len(h) + Len(s) :
             c[i] = IF i <= Len(h) THEN h[i] ELSE s[i - Len(h)]
  BY ConcatProperties
<1>8. /\ Len(d) = Len(h) + Len(m)
      /\ \A i \in 1 .. Len(h) + Len(m) :
             d[i] = IF i <= Len(h) THEN h[i] ELSE m[i - Len(h)]
  BY <1>5, ConcatProperties
<1> HIDE DEF m, c, d
<1>9. ASSUME NEW i \in 1 .. Len(c)
      PROVE  d[i].turn = c[i].turn /\ d[i].n = c[i].n /\ d[i].torn = c[i].torn
  <2>1. CASE i <= Len(h)
    BY <1>1, <1>5, <1>7, <1>8, <2>1
  <2>2. CASE i > Len(h)
    <3>1. i - Len(h) \in 1 .. Len(s)
      BY <1>1, <1>7, <2>2
    <3> QED
      BY <1>1, <1>5, <1>6, <1>7, <1>8, <2>2, <3>1
  <2> QED
    BY <1>1, <1>7, <2>1, <2>2
<1>10. ASSUME Paired(c) PROVE Paired(d)
  <2>1. Len(d) = Len(c) /\ Len(c) \in Nat /\ Len(c) % 2 = 0
    BY <1>1, <1>5, <1>7, <1>8, <1>10 DEF Paired
  <2>2. ASSUME NEW i \in 1 .. Len(d), i % 2 = 1 PROVE Pair(d[i], d[i + 1])
    <3>1. i \in 1 .. Len(c) /\ i + 1 \in 1 .. Len(c)
      BY <2>1, <2>2
    <3>2. Pair(c[i], c[i + 1])
      BY <1>10, <2>2, <3>1 DEF Paired
    <3> QED
      BY <1>9, <3>1, <3>2 DEF Pair
  <2> QED
    BY <2>1, <2>2 DEF Paired
<1> QED
  BY <1>5, <1>10 DEF m, c, d

-----------------------------------------------------------------------------
(***************************************************************************)
(* Playback's steps.                                                       *)
(***************************************************************************)
(* The types, and what a flush is for: a byte it marks is in the ring or   *)
(* in the task's hand, and there only while the flag that will have both   *)
(* thrown away is still up and has not been acted upon.                    *)
SilentInv ==
    /\ NoneOld(carry) /\ NoneOld(play) /\ NoneOld(held) /\ NoneOld(written)
    /\ ~flush \/ drain = "discarded" => NoneOld(pcm) /\ NoneOld(hand)

(* What is cut from unmarked bytes is unmarked.                            *)
LEMMA NoneOldCut ==
    ASSUME NEW s \in Seq(Bytes), NEW k \in 0 .. Len(s), NoneOld(s)
    PROVE  NoneOld(First(s, k)) /\ NoneOld(Rest(s, k))
<1> DEFINE f == First(s, k)
           r == Rest(s, k)
<1>1. Len(s) \in Nat
  BY LenProperties
<1>2. /\ Len(f) = k /\ \A i \in 1 .. k : f[i] = s[i]
      /\ Len(r) = Len(s) - k /\ \A i \in 1 .. (Len(s) - k) : r[i] = s[k + i]
  BY Cut
<1> HIDE DEF f, r
<1>3. NoneOld(f) /\ NoneOld(r)
  BY <1>1, <1>2 DEF NoneOld
<1> QED
  BY <1>3 DEF f, r

(* And joined from it.                                                     *)
LEMMA NoneOldConcat ==
    ASSUME NEW s \in Seq(Bytes), NEW t \in Seq(Bytes), NoneOld(s), NoneOld(t)
    PROVE  NoneOld(s \o t)
<1> DEFINE c == s \o t
<1>1. Len(s) \in Nat /\ Len(t) \in Nat
  BY LenProperties
<1>2. /\ Len(c) = Len(s) + Len(t)
      /\ \A i \in 1 .. Len(s) + Len(t) :
             c[i] = IF i <= Len(s) THEN s[i] ELSE t[i - Len(s)]
  BY ConcatProperties
<1> HIDE DEF c
<1>3. NoneOld(c)
  BY <1>1, <1>2 DEF NoneOld
<1> QED
  BY <1>3 DEF c

(* Where the producer cuts: between whole samples, within what it has and  *)
(* what fits.                                                              *)
LEMMA Accepts ==
    ASSUME PlayTypeOK, Len(pcm) <= RING
    PROVE  /\ Stitched \in Seq(Bytes) /\ Len(Stitched) \in Nat
           /\ Accepted \in 0 .. Len(Stitched) /\ Accepted % 2 = 0
           /\ Even(Len(Stitched)) \in 0 .. Len(Stitched)
           /\ Len(pcm) + Accepted <= RING
<1>1. Stitched \in Seq(Bytes)
  BY ConcatProperties DEF Stitched, PlayTypeOK
<1>2. Len(Stitched) \in Nat /\ Len(pcm) \in Nat
  BY <1>1, LenProperties DEF PlayTypeOK
<1>3. RING \in Nat
  BY PlaybackAssumption
<1> DEFINE n == Len(Stitched)
           m == RING - Len(pcm)
<1>4. Even(n) \in 0 .. n /\ Even(n) % 2 = 0
  BY <1>2, Evens
<1>5. m \in Nat /\ Even(m) \in 0 .. m /\ Even(m) % 2 = 0
  <2>1. m \in Nat
    BY <1>2, <1>3
  <2> QED
    BY <2>1, Evens
<1>6. Accepted = IF n < m THEN Even(n) ELSE Even(m)
  BY DEF Accepted
<1>7. n \in Nat
  BY <1>2
<1>8. Len(pcm) + m = RING
  BY <1>2, <1>3
<1> HIDE DEF n, m
<1>9. /\ Accepted \in 0 .. n /\ Accepted % 2 = 0 /\ Accepted <= m
  BY <1>4, <1>5, <1>6, <1>7
<1>10. Len(pcm) + Accepted <= RING
  BY <1>2, <1>5, <1>8, <1>9
<1> QED
  BY <1>1, <1>2, <1>4, <1>9, <1>10 DEF n

(* The ring never holds more than it can, nor a task more than a byte of   *)
(* what is between two samples.                                            *)
RoomInv ==
    /\ PlayTypeOK /\ Len(pcm) <= RING
    /\ Len(held) <= 1 /\ Len(carry) <= 1
    /\ drain # "received" => hand = << >>
    /\ drain = "discarded" => held = << >>

(* At the start there is nothing anywhere.                                 *)
LEMMA RoomInitial == PlayInit => RoomInv
<1> SUFFICES ASSUME PlayInit PROVE RoomInv
  OBVIOUS
<1>1. << >> \in Seq(Bytes) /\ Len(<< >>) = 0
  OBVIOUS
<1>2. {gap, muted, flush, inbound, torn} \subseteq BOOLEAN
  BY DEF PlayInit
<1> QED
  BY <1>1, <1>2, PlaybackAssumption DEF PlayInit, RoomInv, PlayTypeOK

(* The bytes of a record are bytes.                                        *)
LEMMA RecordBytes ==
    ASSUME RoomInv, NEW k \in 1 .. TurnBytes, on_audio(k)
    PROVE  /\ torn' \in BOOLEAN
           /\ [i \in 1 .. k |-> Byte(sent + i - 1)] \in Seq(Bytes)
           /\ Len([i \in 1 .. k |-> Byte(sent + i - 1)]) = k
<1>1. torn' \in BOOLEAN
  <2>1. torn' = MidTurn \/ torn' = torn
    BY DEF on_audio
  <2>2. MidTurn \in BOOLEAN /\ torn \in BOOLEAN
    BY DEF MidTurn, RoomInv, PlayTypeOK
  <2> QED
    BY <2>1, <2>2
<1>2. k \in Nat /\ sent \in Nat /\ turn \in Nat
  BY PlaybackAssumption DEF RoomInv, PlayTypeOK
<1>3. ASSUME NEW i \in 1 .. k PROVE Byte(sent + i - 1) \in Bytes
  <2>1. sent + i - 1 \in Nat
    BY <1>2
  <2> QED
    BY <1>1, <1>2, <2>1 DEF Byte, Bytes
<1> HIDE DEF Byte
<1> QED
  BY <1>1, <1>2, <1>3, IsASeq

(* audio_io_flush() marks what is in the ring, and moves nothing.          *)
LEMMA RoomFlushed ==
    ASSUME RoomInv, pcm' = pcm \/ pcm' = FlushMarked(pcm)
    PROVE  pcm' \in Seq(Bytes) /\ Len(pcm') = Len(pcm)
<1> pcm \in Seq(Bytes)
  BY DEF RoomInv, PlayTypeOK
<1> QED
  BY Marks

(* Every step of the producer keeps the ring within its size.              *)
LEMMA RoomProducer ==
    ASSUME RoomInv,
           (\E k \in 1 .. TurnBytes : on_audio(k)) \/ audio_io_play
    PROVE  RoomInv'
<1> USE PlaybackAssumption DEF RoomInv, PlayTypeOK, consumer, server, user
<1>1. ASSUME NEW k \in 1 .. TurnBytes, on_audio(k) PROVE RoomInv'
  <2> DEFINE record == [i \in 1 .. k |-> Byte(sent + i - 1)]
  <2>1. torn' \in BOOLEAN /\ record \in Seq(Bytes)
    BY <1>1, RecordBytes
  <2>2. << >> \in Seq(Bytes) /\ Len(<< >>) = 0
    OBVIOUS
  <2>3. play' \in Seq(Bytes)
    BY <1>1, <2>1, <2>2 DEF on_audio
  <2> HIDE DEF record
  <2>4. {gap, muted, flush, inbound, torn}' \subseteq BOOLEAN
    BY <1>1, <2>1 DEF on_audio
  <2>5. carry' \in Seq(Bytes) /\ Len(carry') <= 1
    BY <1>1, <2>2 DEF on_audio
  <2>6. sent' \in 0 .. TurnBytes
    BY <1>1 DEF on_audio
  <2> QED
    BY <1>1, <2>3, <2>4, <2>5, <2>6 DEF on_audio
<1>2. CASE audio_io_play
  <2> DEFINE cut  == First(Stitched, Accepted)
             left == Rest(Stitched, Even(Len(Stitched)))
  <2>1. /\ Stitched \in Seq(Bytes) /\ Len(Stitched) \in Nat
        /\ Accepted \in 0 .. Len(Stitched)
        /\ Even(Len(Stitched)) \in 0 .. Len(Stitched)
        /\ Len(pcm) + Accepted <= RING
    BY Accepts
  <2>2. cut \in Seq(Bytes) /\ Len(cut) = Accepted
    BY <2>1, Cut
  <2>3. left \in Seq(Bytes) /\ Len(left) <= 1
    <3>1. Len(left) = Len(Stitched) - Even(Len(Stitched))
          /\ left \in Seq(Bytes)
      BY <2>1, Cut
    <3> QED
      BY <2>1, <3>1, Evens
  <2> HIDE DEF cut, left
  <2>4. pcm' = pcm \o cut /\ carry' = left
    BY <1>2 DEF audio_io_play, cut, left
  <2>5. pcm' \in Seq(Bytes) /\ Len(pcm') <= RING
    BY <2>1, <2>2, <2>4, ConcatProperties
  <2>6. play' = << >> /\ << >> \in Seq(Bytes)
    BY <1>2 DEF audio_io_play
  <2> QED
    BY <1>2, <2>3, <2>4, <2>5, <2>6 DEF audio_io_play
<1> QED
  BY <1>1, <1>2

(* And every step of playback_task().                                      *)
LEMMA RoomConsumer ==
    ASSUME RoomInv, PlaybackTask
    PROVE  RoomInv'
<1> USE PlaybackAssumption
    DEF RoomInv, PlayTypeOK, producer, server, user, DrainAt
<1>0. << >> \in Seq(Bytes) /\ Len(<< >>) = 0
  OBVIOUS
<1>1. ASSUME NEW k \in 0 .. CHUNK, Receives(k) PROVE RoomInv'
  <2> DEFINE got  == First(pcm, k)
             left == Rest(pcm, k)
  <2>1. Len(pcm) \in Nat /\ k \in 0 .. Len(pcm)
    BY <1>1, LenProperties DEF Receives
  <2>2. /\ got \in Seq(Bytes) /\ left \in Seq(Bytes)
        /\ Len(left) = Len(pcm) - k
    BY <2>1, Cut
  <2> HIDE DEF got, left
  <2>3. hand' = held \o got /\ pcm' = left /\ drain' = "received"
    BY <1>1 DEF Receives, got, left
  <2>4. hand' \in Seq(Bytes)
    BY <2>2, <2>3, ConcatProperties
  <2>5. pcm' \in Seq(Bytes) /\ Len(pcm') <= RING
    BY <2>1, <2>2, <2>3
  <2> QED
    BY <1>1, <2>3, <2>4, <2>5 DEF Receives
<1>2. CASE DrainWrites
  <2> DEFINE cut  == First(hand, Even(Len(hand)))
             left == Rest(hand, Even(Len(hand)))
  <2>1. /\ hand \in Seq(Bytes) /\ Len(hand) \in Nat
        /\ Even(Len(hand)) \in 0 .. Len(hand)
        /\ Len(hand) - Even(Len(hand)) <= 1
    <3>1. hand \in Seq(Bytes) /\ Len(hand) \in Nat
      BY LenProperties
    <3> QED
      BY <3>1, Evens
  <2>2. /\ cut \in Seq(Bytes) /\ left \in Seq(Bytes)
        /\ Len(left) = Len(hand) - Even(Len(hand))
    <3> DEFINE k == Even(Len(hand))
    <3>1. k \in 0 .. Len(hand)
      BY <2>1
    <3> HIDE DEF k
    <3>2. /\ First(hand, k) \in Seq(Bytes) /\ Rest(hand, k) \in Seq(Bytes)
          /\ Len(Rest(hand, k)) = Len(hand) - k
      BY <2>1, <3>1, Cut
    <3> QED
      BY <3>2 DEF k
  <2> HIDE DEF cut, left
  <2>3. written' = cut /\ held' = left
    BY <1>2 DEF DrainWrites, cut, left
  <2> QED
    BY <1>0, <1>2, <2>1, <2>2, <2>3 DEF DrainWrites
<1>3. CASE Discards
  BY <1>0, <1>3 DEF Discards
<1>4. CASE FlushDone
  <2>1. {gap, muted, flush, inbound, torn}' \subseteq BOOLEAN
    BY <1>4 DEF FlushDone
  <2> QED
    BY <1>4, <2>1 DEF FlushDone
<1> QED
  BY <1>1, <1>2, <1>3, <1>4 DEF PlaybackTask

(* What the server says ends nothing but a reply and a mute.               *)
LEMMA RoomServer ==
    ASSUME RoomInv,
           \/ AgentAudioDone \/ on_user_started_speaking \/ StreamGone
           \/ audio_io_reset
    PROVE  RoomInv'
<1> USE PlaybackAssumption DEF RoomInv, PlayTypeOK, consumer, producer, user
<1>0. << >> \in Seq(Bytes) /\ Len(<< >>) = 0
  OBVIOUS
<1>1. CASE AgentAudioDone
  <2>1. {gap, muted, flush, inbound, torn}' \subseteq BOOLEAN
    BY <1>1 DEF AgentAudioDone, NewTurn
  <2> QED
    BY <1>1, <2>1 DEF AgentAudioDone, NewTurn
<1>2. CASE on_user_started_speaking
  <2>1. {gap, muted, flush, inbound, torn}' \subseteq BOOLEAN
    BY <1>2 DEF on_user_started_speaking, NewTurn, audio_io_flush
  <2>2. pcm' = pcm \/ pcm' = FlushMarked(pcm)
    BY <1>2 DEF on_user_started_speaking, audio_io_flush
  <2>3. pcm' \in Seq(Bytes) /\ Len(pcm') = Len(pcm)
    BY <2>2, RoomFlushed
  <2> QED
    BY <1>2, <2>1, <2>3 DEF on_user_started_speaking, NewTurn
<1>3. CASE StreamGone
  <2>1. {gap, muted, flush, inbound, torn}' \subseteq BOOLEAN
    BY <1>3 DEF StreamGone, NewTurn
  <2> QED
    BY <1>3, <2>1 DEF StreamGone, NewTurn
<1>4. CASE audio_io_reset
  <2>1. {gap, muted, flush, inbound, torn}' \subseteq BOOLEAN
    BY <1>4 DEF audio_io_reset, NewTurn
  <2>2. pcm' = pcm \/ pcm' = FlushMarked(pcm)
    BY <1>4 DEF audio_io_reset
  <2>3. pcm' \in Seq(Bytes) /\ Len(pcm') = Len(pcm)
    BY <2>2, RoomFlushed
  <2> QED
    BY <1>0, <1>4, <2>1, <2>3 DEF audio_io_reset, NewTurn
<1> QED
  BY <1>1, <1>2, <1>3, <1>4

(* Nor do a tap and the mute's deadline move a byte.                       *)
LEMMA RoomUser ==
    ASSUME RoomInv,
           \/ do_interrupt \/ InterruptMutes \/ MuteDeadline
           \/ UNCHANGED playvars
    PROVE  RoomInv'
<1> USE PlaybackAssumption
    DEF RoomInv, PlayTypeOK, consumer, producer, server, user
<1>1. CASE do_interrupt
  <2>1. {gap, muted, flush, inbound, torn}' \subseteq BOOLEAN
    BY <1>1 DEF do_interrupt, audio_io_flush
  <2>2. pcm' = pcm \/ pcm' = FlushMarked(pcm)
    BY <1>1 DEF do_interrupt, audio_io_flush
  <2>3. pcm' \in Seq(Bytes) /\ Len(pcm') = Len(pcm)
    BY <2>2, RoomFlushed
  <2> QED
    BY <1>1, <2>1, <2>3 DEF do_interrupt
<1>2. CASE InterruptMutes
  <2>1. {gap, muted, flush, inbound, torn}' \subseteq BOOLEAN
    BY <1>2 DEF InterruptMutes
  <2> QED
    BY <1>2, <2>1 DEF InterruptMutes
<1>3. CASE MuteDeadline
  <2>1. torn' \in BOOLEAN
    BY <1>3 DEF MuteDeadline
  <2>2. {gap, muted, flush, inbound, torn}' \subseteq BOOLEAN
    BY <1>3, <2>1 DEF MuteDeadline
  <2> QED
    BY <1>3, <2>2 DEF MuteDeadline
<1>4. CASE UNCHANGED playvars
  BY <1>4 DEF playvars
<1> QED
  BY <1>1, <1>2, <1>3, <1>4

(* So the types and the room are kept.                                     *)
LEMMA RoomStep == RoomInv /\ [PlayNext]_playvars => RoomInv'
BY RoomProducer, RoomConsumer, RoomServer, RoomUser DEF PlayNext

(* In every state of every behaviour.                                     *)
LEMMA RoomAlways == PlaySpec => []RoomInv
BY RoomInitial, RoomStep, PTL DEF PlaySpec

(***************************************************************************)
(* FlushedIsSilent.                                                        *)
(***************************************************************************)
(* The producer's bytes are new, and what it carries over is its own.      *)
LEMMA SilentProducer ==
    ASSUME RoomInv, SilentInv,
           (\E k \in 1 .. TurnBytes : on_audio(k)) \/ audio_io_play
    PROVE  SilentInv'
<1> USE DEF SilentInv, consumer, server, user
<1>1. ASSUME NEW k \in 1 .. TurnBytes, on_audio(k) PROVE SilentInv'
  <2> DEFINE record == [i \in 1 .. k |-> Byte(sent + i - 1)]
  <2>1. Len(record) = k /\ \A i \in 1 .. k : ~record[i].old
    BY <1>1, RecordBytes DEF Byte
  <2>2. NoneOld(record)
    BY <2>1 DEF NoneOld
  <2>3. NoneOld(<< >>)
    BY DEF NoneOld
  <2> HIDE DEF record
  <2>4. NoneOld(play') /\ NoneOld(carry')
    <3>1. play' = << >> \/ play' = record
      BY <1>1 DEF on_audio, record
    <3>2. carry' = << >> \/ carry' = carry
      BY <1>1 DEF on_audio
    <3> QED
      BY <2>2, <2>3, <3>1, <3>2
  <2>5. UNCHANGED <<pcm, flush, consumer>>
    BY <1>1 DEF on_audio
  <2> QED
    BY <2>4, <2>5
<1>2. CASE audio_io_play
  <2> DEFINE cut  == First(Stitched, Accepted)
             left == Rest(Stitched, Even(Len(Stitched)))
  <2>1. /\ Stitched \in Seq(Bytes)
        /\ Accepted \in 0 .. Len(Stitched)
        /\ Even(Len(Stitched)) \in 0 .. Len(Stitched)
    BY Accepts DEF RoomInv
  <2>2. NoneOld(Stitched)
    BY NoneOldConcat DEF Stitched, RoomInv, PlayTypeOK
  <2>3. cut \in Seq(Bytes) /\ NoneOld(cut) /\ NoneOld(left)
    BY <2>1, <2>2, Cut, NoneOldCut
  <2> HIDE DEF cut, left
  <2>4. /\ pcm' = pcm \o cut /\ carry' = left /\ play' = << >>
        /\ UNCHANGED <<flush, consumer>>
    BY <1>2 DEF audio_io_play, cut, left
  <2>5. NoneOld(pcm) => NoneOld(pcm')
    BY <2>3, <2>4, NoneOldConcat DEF RoomInv, PlayTypeOK
  <2>6. NoneOld(<< >>)
    BY DEF NoneOld
  <2> QED
    BY <2>3, <2>4, <2>5, <2>6
<1> QED
  BY <1>1, <1>2

(* The task writes only what it has found no flush over.                   *)
LEMMA SilentConsumer ==
    ASSUME RoomInv, SilentInv, PlaybackTask
    PROVE  SilentInv'
<1> USE DEF SilentInv, producer, server, user, DrainAt
<1>0. NoneOld(<< >>)
  BY DEF NoneOld
<1>t. /\ pcm \in Seq(Bytes) /\ hand \in Seq(Bytes) /\ held \in Seq(Bytes)
      /\ drain # "received" => hand = << >>
  BY DEF RoomInv, PlayTypeOK
<1>1. ASSUME NEW k \in 0 .. CHUNK, Receives(k) PROVE SilentInv'
  <2> DEFINE got  == First(pcm, k)
             left == Rest(pcm, k)
  <2>1. Len(pcm) \in Nat /\ k \in 0 .. Len(pcm)
    BY <1>1, <1>t, PlaybackAssumption, LenProperties DEF Receives
  <2>2. got \in Seq(Bytes) /\ (NoneOld(pcm) => NoneOld(got) /\ NoneOld(left))
    BY <1>t, <2>1, Cut, NoneOldCut
  <2> HIDE DEF got, left
  <2>3. /\ hand' = held \o got /\ pcm' = left /\ drain' = "received"
        /\ drain = "receive"
        /\ UNCHANGED <<flush, producer, held, written>>
    BY <1>1 DEF Receives, got, left
  <2>4. NoneOld(got) => NoneOld(hand')
    BY <1>t, <2>2, <2>3, NoneOldConcat
  <2> QED
    BY <2>2, <2>3, <2>4
<1>2. CASE DrainWrites
  <2> DEFINE n    == Even(Len(hand))
             cut  == First(hand, n)
             left == Rest(hand, n)
  <2>1. n \in 0 .. Len(hand)
    <3>1. Len(hand) \in Nat
      BY <1>t, LenProperties
    <3> QED
      BY <3>1, Evens
  <2>2. NoneOld(hand)
    BY <1>2 DEF DrainWrites
  <2> HIDE DEF n
  <2>3. NoneOld(cut) /\ NoneOld(left)
    BY <1>t, <2>1, <2>2, NoneOldCut
  <2> HIDE DEF cut, left
  <2>4. /\ written' = cut /\ held' = left /\ hand' = << >>
        /\ UNCHANGED <<pcm, flush, producer>> /\ ~flush
    BY <1>2 DEF DrainWrites, cut, left, n
  <2> QED
    BY <1>0, <2>3, <2>4
<1>3. CASE Discards
  BY <1>0, <1>3 DEF Discards
<1>4. CASE FlushDone
  BY <1>4 DEF FlushDone
<1> QED
  BY <1>1, <1>2, <1>3, <1>4 DEF PlaybackTask

(* Everyone else marks only what the raised flag will have thrown away.    *)
LEMMA SilentOthers ==
    ASSUME RoomInv, SilentInv,
           \/ AgentAudioDone \/ on_user_started_speaking \/ StreamGone
           \/ audio_io_reset
           \/ do_interrupt \/ InterruptMutes \/ MuteDeadline
           \/ UNCHANGED playvars
    PROVE  SilentInv'
<1> USE DEF SilentInv, producer, consumer, server, user, DrainAt
<1>0. NoneOld(<< >>)
  BY DEF NoneOld
<1>1. CASE AgentAudioDone
  BY <1>1 DEF AgentAudioDone
<1>2. CASE on_user_started_speaking
  BY <1>2 DEF on_user_started_speaking, audio_io_flush
<1>3. CASE StreamGone
  BY <1>3 DEF StreamGone
<1>4. CASE audio_io_reset
  BY <1>0, <1>4 DEF audio_io_reset
<1>5. CASE do_interrupt
  BY <1>5 DEF do_interrupt, audio_io_flush
<1>6. CASE InterruptMutes
  BY <1>6 DEF InterruptMutes
<1>7. CASE MuteDeadline
  BY <1>7 DEF MuteDeadline
<1>8. CASE UNCHANGED playvars
  BY <1>8 DEF playvars
<1> QED
  BY <1>1, <1>2, <1>3, <1>4, <1>5, <1>6, <1>7, <1>8

(* What was queued when a flush was raised is never written to the codec.  *)
THEOREM FlushedAlwaysSilent == PlaySpec => []FlushedIsSilent
<1>1. PlayInit => SilentInv
  BY DEF PlayInit, SilentInv, NoneOld
<1>2. RoomInv /\ SilentInv /\ [PlayNext]_playvars => SilentInv'
  BY SilentProducer, SilentConsumer, SilentOthers DEF PlayNext
<1>3. RoomInv /\ SilentInv => FlushedIsSilent
  <2> SUFFICES ASSUME RoomInv, SilentInv PROVE FlushedIsSilent
    OBVIOUS
  <2>1. DOMAIN written = 1 .. Len(written)
    BY LenProperties DEF RoomInv, PlayTypeOK
  <2> QED
    BY <2>1 DEF SilentInv, NoneOld, FlushedIsSilent
<1> QED
  BY <1>1, <1>2, <1>3, RoomAlways, PTL DEF PlaySpec

(***************************************************************************)
(* Aligned.  What the task has and what is in the ring are whole samples,  *)
(* end to end; so is what the producer has together with the byte it       *)
(* carries, except that the last byte of it may wait for the next record.  *)
(* What a record must start with to go on from there is what a gap, a mute *)
(* or a tear suspends.                                                     *)
(***************************************************************************)
TaskHas == IF drain = "received" THEN hand ELSE held

CarryInv ==
    carry # << >> => \/ carry[1].torn /\ torn
                     \/ ~carry[1].torn /\ carry[1].n % 2 = 0

FlightInv ==
    play # << >> =>
        /\ \A i \in 1 .. Len(play) :
               /\ play[i].turn = turn
               /\ play[i].n + Len(play) + 1 = sent + i
               /\ play[i].torn = play[1].torn
        /\ play[1].torn => torn
        /\ \/ play[1].torn
           \/ carry = << >> /\ play[1].n % 2 = 0
           \/ /\ carry # << >> /\ ~carry[1].torn /\ carry[1].turn = turn
              /\ play[1].n = carry[1].n + 1

SyncInv ==
    play = << >> /\ ~torn /\ ~gap /\ ~muted =>
        IF carry = << >> THEN sent % 2 = 0
        ELSE carry[1].turn = turn /\ sent = carry[1].n + 1

MuteInv == muted => gap \/ (carry = << >> /\ play = << >>)

SourceInv == CarryInv /\ FlightInv /\ SyncInv /\ MuteInv

AlignedInv == SourceInv /\ Paired(TaskHas \o pcm) /\ Paired(written)

(* A record follows on from the byte carried over, or from an even place.  *)
LEMMA SourceRecord ==
    ASSUME RoomInv, SourceInv, NEW k \in 1 .. TurnBytes, on_audio(k)
    PROVE  SourceInv'
<1> DEFINE record == [i \in 1 .. k |-> Byte(sent + i - 1)]
<1>1. /\ torn' \in BOOLEAN /\ record \in Seq(Bytes) /\ Len(record) = k
  BY RecordBytes
<1>2. \A i \in 1 .. k : record[i] = [turn |-> turn, n |-> sent + i - 1,
                                     torn |-> torn', old |-> FALSE]
  BY DEF Byte
<1>3. k \in Nat /\ k >= 1 /\ sent \in Nat /\ sent + k <= TurnBytes
      /\ TurnBytes \in Nat
  BY PlaybackAssumption DEF RoomInv, PlayTypeOK, on_audio
<1> HIDE DEF record
<1>4. /\ play = << >> /\ gap' = FALSE /\ muted' = muted /\ turn' = turn
      /\ sent' = sent + k
      /\ carry' = IF gap THEN << >> ELSE carry
      /\ torn' = IF gap THEN MidTurn ELSE torn
      /\ play' = IF muted THEN << >> ELSE record
  BY DEF on_audio, record, user
<1>5. CarryInv'
  BY <1>4 DEF SourceInv, CarryInv
<1>6. FlightInv'
  <2> SUFFICES ASSUME play' = record, ~muted PROVE FlightInv'
    BY <1>4 DEF FlightInv
  <2>1. \A i \in 1 .. Len(record) :
            /\ record[i].turn = turn
            /\ record[i].n + Len(record) + 1 = sent + k + i
            /\ record[i].torn = torn'
    BY <1>1, <1>2, <1>3
  <2>2. record[1].torn = torn' /\ record[1].n = sent
    BY <1>1, <1>2, <1>3
  <2>3. CASE torn'
    BY <1>4, <2>1, <2>2, <2>3 DEF FlightInv
  <2>4. CASE ~torn' /\ gap
    <3>1. sent = 0
      <4>1. ~MidTurn
        BY <1>4, <2>4
      <4> QED
        BY <1>3, <4>1 DEF MidTurn
    <3>2. carry' = << >> /\ record[1].n % 2 = 0
      BY <1>4, <2>2, <2>4, <3>1
    <3> QED
      BY <1>4, <2>1, <2>2, <3>2 DEF FlightInv
  <2>5. CASE ~torn' /\ ~gap
    <3>1. ~torn /\ carry' = carry
      BY <1>4, <2>5
    <3>2. IF carry = << >> THEN sent % 2 = 0
          ELSE carry[1].turn = turn /\ sent = carry[1].n + 1
      BY <1>4, <2>5, <3>1 DEF SourceInv, SyncInv
    <3>3. carry # << >> => ~carry[1].torn
      BY <3>1 DEF SourceInv, CarryInv
    <3> QED
      BY <1>4, <2>1, <2>2, <3>1, <3>2, <3>3 DEF FlightInv
  <2> QED
    BY <1>1, <2>3, <2>4, <2>5
<1>7. SyncInv' /\ MuteInv'
  <2>1. record # << >>
    BY <1>1, <1>3
  <2>2. CASE muted
    BY <1>4, <2>2 DEF SourceInv, MuteInv, SyncInv
  <2>3. CASE ~muted
    BY <1>4, <2>1, <2>3 DEF MuteInv, SyncInv
  <2> QED
    BY <2>2, <2>3
<1> QED
  BY <1>5, <1>6, <1>7 DEF SourceInv

(* What the producer has, stitched: all of it torn but perhaps the byte    *)
(* carried over, or one run of a reply's bytes from an even place.         *)
Torn(s) == \A i \in 2 .. Len(s) : s[i].torn

Run(s) ==
    /\ s[1].n % 2 = 0
    /\ \A i \in 1 .. Len(s) :
           ~s[i].torn /\ s[i].turn = turn /\ s[i].n = s[1].n + i - 1
    /\ sent = s[1].n + Len(s)

(* The arithmetic of places in a run.                                      *)
LEMMA Places ==
    ASSUME NEW x \in Nat, NEW y \in Nat, NEW l \in Nat, NEW t \in Nat,
           NEW i \in Nat
    PROVE  /\ y + l + 1 = t + 1 => t = y + l
           /\ x + l + 1 = t + i /\ t = y + l => x = y + i - 1
  OBVIOUS

(* The same, behind the byte carried over.                                 *)
LEMMA PlacesBehind ==
    ASSUME NEW x \in Nat, NEW y \in Nat, NEW l \in Nat, NEW t \in Nat,
           NEW i \in Nat
    PROVE  /\ x + l + 1 = t + 1 /\ x = y + 1 => t = y + 1 + l
           /\ x + l + 1 = t + i /\ t = y + 1 + l => x = y + i
           /\ t = y + 1 + l => t = y + (l + 1)
  OBVIOUS

(* It is one or the other whenever a record is on its way to the ring.     *)
LEMMA StitchedRun ==
    ASSUME RoomInv, SourceInv, play # << >>
    PROVE  /\ Stitched \in Seq(Bytes) /\ Len(Stitched) \in Nat \ {0}
           /\ \/ Run(Stitched)
              \/ /\ torn /\ Torn(Stitched)
                 /\ Len(Stitched) = 1 => Stitched[1].torn
<1>1. /\ carry \in Seq(Bytes) /\ Len(carry) \in Nat /\ Len(carry) <= 1
      /\ play \in Seq(Bytes) /\ Len(play) \in Nat
      /\ sent \in Nat
  BY LenProperties, PlaybackAssumption DEF RoomInv, PlayTypeOK
<1>2. Len(play) # 0 /\ (Len(carry) = 0 <=> carry = << >>)
  BY <1>1, EmptySeq
<1>3. \A i \in 1 .. Len(play) : play[i].n \in Nat
  <2>1. \A i \in 1 .. Len(play) : play[i] \in Bytes
    BY <1>1, ElementOfSeq
  <2> QED
    BY <2>1 DEF Bytes
<1>4. carry # << >> => carry[1].n \in Nat
  <2>1. carry # << >> => carry[1] \in Bytes
    BY <1>1, <1>2, ElementOfSeq
  <2> QED
    BY <2>1 DEF Bytes
<1> DEFINE s == Stitched
<1>5. /\ s \in Seq(Bytes) /\ Len(s) = Len(carry) + Len(play)
      /\ \A i \in 1 .. Len(carry) + Len(play) :
             s[i] = IF i <= Len(carry) THEN carry[i] ELSE play[i - Len(carry)]
  BY <1>1, ConcatProperties DEF Stitched
<1> HIDE DEF s
<1>6. Len(s) \in Nat \ {0}
  BY <1>1, <1>2, <1>5
<1>11. /\ Len(play) \in Nat /\ sent \in Nat /\ 1 \in 1 .. Len(play)
       /\ Len(carry) \in Nat /\ Len(carry) <= 1
  BY <1>1, <1>2
<1>7. /\ \A i \in 1 .. Len(play) :
             /\ play[i].turn = turn
             /\ play[i].n + Len(play) + 1 = sent + i
             /\ play[i].torn = play[1].torn
      /\ play[1].torn => torn
      /\ \/ play[1].torn
         \/ carry = << >> /\ play[1].n % 2 = 0
         \/ /\ carry # << >> /\ ~carry[1].torn /\ carry[1].turn = turn
            /\ play[1].n = carry[1].n + 1
  BY DEF SourceInv, FlightInv
<1>8. CASE play[1].torn
  <2>1. ASSUME NEW i \in 2 .. Len(s) PROVE s[i].torn
    <3>1. i - Len(carry) \in 1 .. Len(play) /\ s[i] = play[i - Len(carry)]
      BY <1>1, <1>5
    <3> QED
      BY <1>7, <1>8, <3>1
  <2>2. Len(s) = 1 => s[1] = play[1]
    BY <1>1, <1>2, <1>5
  <2> QED
    BY <1>5, <1>6, <1>7, <1>8, <2>1, <2>2 DEF s, Torn
<1>9. CASE ~play[1].torn /\ carry = << >>
  <2>1. Len(s) = Len(play) /\ \A i \in 1 .. Len(play) : s[i] = play[i]
    BY <1>1, <1>2, <1>5, <1>9
  <2>2. play[1].n + Len(play) + 1 = sent + 1 /\ play[1].n \in Nat
    BY <1>3, <1>7, <1>11
  <2>3. sent = play[1].n + Len(play)
    <3> DEFINE y == play[1].n
               l == Len(play)
    <3>1. y \in Nat /\ l \in Nat /\ y + l + 1 = sent + 1
      BY <1>11, <2>2
    <3> HIDE DEF y, l
    <3>2. sent = y + l
      BY <1>11, <3>1, Places
    <3> QED
      BY <3>2 DEF y, l
  <2>5. ASSUME NEW i \in 1 .. Len(play) PROVE play[i].n = play[1].n + i - 1
    <3>1. play[i].n + Len(play) + 1 = sent + i
      BY <1>7
    <3>2. play[i].n \in Nat /\ i \in Nat
      BY <1>3
    <3> DEFINE x == play[i].n
               y == play[1].n
               l == Len(play)
    <3>3. /\ x \in Nat /\ y \in Nat /\ l \in Nat
          /\ x + l + 1 = sent + i /\ sent = y + l
      BY <1>11, <2>2, <2>3, <3>1, <3>2
    <3> HIDE DEF x, y, l
    <3>4. x = y + i - 1
      BY <1>11, <3>2, <3>3, Places
    <3> QED
      BY <3>4 DEF x, y
  <2>4. Run(s)
    <3>1. s[1] = play[1] /\ s[1].n % 2 = 0
      BY <1>7, <1>9, <1>11, <2>1
    <3>2. ASSUME NEW i \in 1 .. Len(s)
          PROVE  ~s[i].torn /\ s[i].turn = turn /\ s[i].n = s[1].n + i - 1
      BY <1>7, <1>9, <2>1, <2>5, <3>1
    <3>3. sent = s[1].n + Len(s)
      BY <2>1, <2>3, <3>1
    <3> QED
      BY <3>1, <3>2, <3>3 DEF Run
  <2> QED
    BY <1>5, <1>6, <2>4 DEF s
<1>10. CASE ~play[1].torn /\ carry # << >>
  <2>1. /\ Len(carry) = 1 /\ Len(s) = Len(play) + 1 /\ s[1] = carry[1]
        /\ \A i \in 2 .. Len(s) : s[i] = play[i - 1]
    <3>1. Len(carry) = 1
      <4> DEFINE n == Len(carry)
      <4>1. n \in Nat /\ n <= 1 /\ n # 0
        BY <1>2, <1>10, <1>11
      <4> HIDE DEF n
      <4>2. n = 1
        BY <4>1
      <4> QED
        BY <4>2 DEF n
    <3>2. Len(s) = 1 + Len(play) /\ s[1] = carry[1]
      BY <1>1, <1>5, <3>1
    <3>3. ASSUME NEW i \in 2 .. Len(s) PROVE s[i] = play[i - 1]
      BY <1>1, <1>5, <3>1, <3>2
    <3> QED
      BY <1>1, <3>1, <3>2, <3>3
  <2>2. /\ ~carry[1].torn /\ carry[1].turn = turn
        /\ play[1].n = carry[1].n + 1 /\ carry[1].n % 2 = 0
    BY <1>7, <1>10 DEF SourceInv, CarryInv
  <2>3. /\ play[1].n + Len(play) + 1 = sent + 1
        /\ play[1].n \in Nat /\ carry[1].n \in Nat
    BY <1>3, <1>4, <1>7, <1>10, <1>11
  <2>4. sent = carry[1].n + 1 + Len(play)
    <3> DEFINE x == play[1].n
               y == carry[1].n
               l == Len(play)
    <3>1. /\ x \in Nat /\ y \in Nat /\ l \in Nat
          /\ x + l + 1 = sent + 1 /\ x = y + 1
      BY <1>11, <2>2, <2>3
    <3> HIDE DEF x, y, l
    <3>2. sent = y + 1 + l
      BY <1>11, <3>1, PlacesBehind
    <3> QED
      BY <3>2 DEF y, l
  <2>8. ASSUME NEW i \in 1 .. Len(play) PROVE play[i].n = carry[1].n + i
    <3>1. play[i].n + Len(play) + 1 = sent + i
      BY <1>7
    <3>2. play[i].n \in Nat /\ i \in Nat
      BY <1>3
    <3> DEFINE x == play[i].n
               y == carry[1].n
               l == Len(play)
    <3>3. /\ x \in Nat /\ y \in Nat /\ l \in Nat
          /\ x + l + 1 = sent + i /\ sent = y + 1 + l
      BY <1>11, <2>3, <2>4, <3>1, <3>2
    <3> HIDE DEF x, y, l
    <3>4. x = y + i
      BY <1>11, <3>2, <3>3, PlacesBehind
    <3> QED
      BY <3>4 DEF x, y
  <2>5. ASSUME NEW i \in 1 .. Len(s)
        PROVE  ~s[i].torn /\ s[i].turn = turn /\ s[i].n = s[1].n + i - 1
    <3>1. CASE i = 1
      BY <2>1, <2>2, <2>3, <3>1
    <3>2. CASE i # 1
      <4>1. i - 1 \in 1 .. Len(play) /\ s[i] = play[i - 1]
        BY <1>11, <2>1, <3>2
      <4>2. s[i].n = carry[1].n + (i - 1)
        BY <2>8, <4>1
      <4>3. carry[1].n + (i - 1) = carry[1].n + i - 1
        BY <2>3
      <4> QED
        BY <1>7, <1>10, <2>1, <4>1, <4>2, <4>3
    <3> QED
      BY <3>1, <3>2
  <2>6. sent = s[1].n + Len(s)
    <3> DEFINE y == s[1].n
               l == Len(play)
    <3>1. y \in Nat /\ l \in Nat /\ sent = y + 1 + l /\ Len(s) = l + 1
      BY <1>11, <2>1, <2>3, <2>4
    <3> HIDE DEF y, l
    <3>2. sent = y + (l + 1)
      BY <1>11, <3>1, PlacesBehind
    <3> QED
      BY <3>1, <3>2 DEF y
  <2>7. Run(s)
    BY <2>1, <2>2, <2>5, <2>6 DEF Run
  <2> QED
    BY <1>5, <1>6, <2>7 DEF s
<1> QED
  BY <1>8, <1>9, <1>10

(* What a cut between samples leaves over is the last byte, or nothing.    *)
LEMMA LeftOver ==
    ASSUME NEW s \in Seq(Bytes), Len(s) \in Nat \ {0}
    PROVE  LET left == Rest(s, Even(Len(s)))
           IN  \/ Len(s) % 2 = 0 /\ left = << >>
               \/ Len(s) % 2 = 1 /\ left # << >> /\ left[1] = s[Len(s)]
<1> DEFINE l == Len(s)
           k == Even(l)
           left == Rest(s, k)
<1>1. l \in Nat /\ k \in 0 .. l
  BY Evens
<1>2. (l % 2 = 0 /\ k = l) \/ (l % 2 = 1 /\ k = l - 1)
  BY <1>1 DEF Even
<1> HIDE DEF k
<1>3. /\ left \in Seq(Bytes) /\ Len(left) = l - k
      /\ \A i \in 1 .. (l - k) : left[i] = s[k + i]
  BY <1>1, Cut
<1> HIDE DEF left, l
<1>4. CASE l % 2 = 0 /\ k = l
  <2>1. Len(left) = 0
    BY <1>1, <1>3, <1>4
  <2>2. left = << >>
    BY <1>3, <2>1, EmptySeq
  <2> QED
    BY <1>4, <2>2 DEF left, l, k
<1>5. CASE l % 2 = 1 /\ k = l - 1
  <2>1. l - k = 1 /\ k + 1 = l
    BY <1>1, <1>5
  <2>2. Len(left) = 1 /\ left[1] = s[l]
    BY <1>3, <2>1
  <2>3. left # << >>
    <3>1. left \in Seq(Bytes)
      BY <1>3
    <3>2. left = << >> <=> Len(left) = 0
      BY <3>1, EmptySeq
    <3> DEFINE n == Len(left)
    <3>3. n = 1
      BY <2>2
    <3> HIDE DEF n
    <3>4. n # 0
      BY <3>3
    <3> QED
      BY <3>2, <3>4 DEF n
  <2> QED
    BY <1>5, <2>2, <2>3 DEF left, l, k
<1> QED
  BY <1>2, <1>4, <1>5

(* The whole samples the producer sends are pairs.                         *)
LEMMA SentPairs ==
    ASSUME NEW s \in Seq(Bytes), Len(s) \in Nat, Run(s) \/ Torn(s),
           \A i \in 1 .. Len(s) : s[i].n \in Nat,
           NEW k \in 0 .. Len(s), k % 2 = 0
    PROVE  Paired(First(s, k))
<1> DEFINE f == First(s, k)
<1>1. Len(f) = k /\ \A i \in 1 .. k : f[i] = s[i]
  BY Cut
<1> HIDE DEF f
<1>2. ASSUME NEW i \in 1 .. k, i % 2 = 1 PROVE Pair(s[i], s[i + 1])
  <2>1. i \in 1 .. Len(s) /\ i + 1 \in 2 .. Len(s) /\ i + 1 \in 1 .. Len(s)
    BY <1>2
  <2>2. CASE Torn(s)
    BY <2>1, <2>2 DEF Torn, Pair
  <2>3. CASE Run(s)
    <3> DEFINE a == s[1].n
               b == s[i].n
               c == s[i + 1].n
    <3>1. a % 2 = 0 /\ b = a + i - 1 /\ c = a + (i + 1) - 1
      BY <2>1, <2>3 DEF Run
    <3>2. a \in Nat /\ b \in Nat
      BY <2>1
    <3>3. s[i].turn = s[i + 1].turn
      BY <2>1, <2>3 DEF Run
    <3> HIDE DEF a, b, c
    <3>4. b % 2 = 0 /\ c = b + 1
      BY <1>2, <3>1, <3>2
    <3> QED
      BY <3>3, <3>4 DEF Pair, b, c
  <2> QED
    BY <2>2, <2>3
<1>3. ASSUME NEW i \in 1 .. k, i % 2 = 1 PROVE Pair(f[i], f[i + 1])
  <2>1. i + 1 \in 1 .. k
    BY <1>3
  <2> QED
    BY <1>1, <1>2, <1>3, <2>1
<1>4. Paired(f)
  BY <1>1, <1>3 DEF Paired
<1> QED
  BY <1>4 DEF f

(* What is left of a record is carried so that the next can follow it.     *)
LEMMA SourcePlay ==
    ASSUME RoomInv, SourceInv, audio_io_play
    PROVE  SourceInv'
<1> DEFINE s == Stitched
           l == Len(s)
           left == Rest(s, Even(Len(s)))
<1>1. /\ play # << >> /\ play' = << >> /\ carry' = left
      /\ gap' = gap /\ muted' = muted /\ turn' = turn /\ sent' = sent
      /\ torn' = torn
  BY DEF audio_io_play, server
<1>2. /\ s \in Seq(Bytes) /\ l \in Nat \ {0}
      /\ Run(s) \/ (torn /\ Torn(s) /\ (l = 1 => s[1].torn))
  BY <1>1, StitchedRun
<1>3. \/ l % 2 = 0 /\ left = << >>
      \/ l % 2 = 1 /\ left # << >> /\ left[1] = s[l]
  BY <1>2, LeftOver
<1>4. s[1].n \in Nat
  <2>1. s[1] \in Bytes
    BY <1>2, ElementOfSeq
  <2> QED
    BY <2>1 DEF Bytes
<1> HIDE DEF s, left
<1>5. Run(s) => /\ ~s[l].torn /\ s[l].turn = turn
                /\ s[l].n = s[1].n + l - 1 /\ sent = s[1].n + l
                /\ s[1].n % 2 = 0
  BY <1>2 DEF Run
<1>6. torn /\ Torn(s) /\ (l = 1 => s[1].torn) => s[l].torn
  <2> DEFINE m == l
  <2>2. m \in Nat \ {0}
    BY <1>2
  <2> HIDE DEF m
  <2>3. m = 1 \/ m \in 2 .. m
    BY <2>2
  <2>1. l = 1 \/ l \in 2 .. l
    BY <2>3 DEF m
  <2> QED
    BY <2>1 DEF Torn
<1> HIDE DEF l
<1>7. CASE torn /\ Torn(s) /\ (l = 1 => s[1].torn)
  <2>1. CarryInv'
    BY <1>1, <1>3, <1>6, <1>7 DEF CarryInv
  <2>2. SyncInv'
    BY <1>1, <1>7 DEF SyncInv
  <2>3. FlightInv'
    BY <1>1 DEF FlightInv
  <2>4. MuteInv'
    BY <1>1 DEF MuteInv, SourceInv
  <2> QED
    BY <2>1, <2>2, <2>3, <2>4 DEF SourceInv
<1>8. CASE Run(s)
  <2> DEFINE a == s[1].n
             b == s[l].n
  <2>1. a \in Nat /\ l \in Nat /\ a % 2 = 0 /\ b = a + l - 1 /\ sent = a + l
    BY <1>2, <1>4, <1>5, <1>8
  <2> HIDE DEF a, b
  <2>2. /\ l % 2 = 0 => sent % 2 = 0
        /\ l % 2 = 1 => b % 2 = 0
        /\ sent = b + 1
    BY <2>1
  <2>3. left # << >> => /\ ~left[1].torn /\ left[1].n % 2 = 0
                        /\ left[1].turn = turn /\ sent = left[1].n + 1
    BY <1>3, <1>5, <1>8, <2>2 DEF b
  <2>4. left = << >> => sent % 2 = 0
    BY <1>3, <2>2
  <2>5. CarryInv'
    BY <1>1, <2>3 DEF CarryInv
  <2>6. SyncInv'
    BY <1>1, <2>3, <2>4 DEF SyncInv
  <2>7. FlightInv'
    BY <1>1 DEF FlightInv
  <2>8. MuteInv'
    BY <1>1 DEF MuteInv, SourceInv
  <2> QED
    BY <2>5, <2>6, <2>7, <2>8 DEF SourceInv
<1> QED
  BY <1>2, <1>7, <1>8

(* Nothing but a record and its way to the ring puts the source out of     *)
(* step: a reply ends between samples, and whoever skips or forgets bytes  *)
(* leaves a gap behind or nothing at all.                                  *)
LEMMA SourceOthers ==
    ASSUME RoomInv, SourceInv,
           \/ PlaybackTask
           \/ AgentAudioDone \/ on_user_started_speaking \/ StreamGone
           \/ audio_io_reset
           \/ do_interrupt \/ InterruptMutes \/ MuteDeadline
           \/ UNCHANGED playvars
    PROVE  SourceInv'
<1> USE DEF SourceInv, CarryInv, FlightInv, SyncInv, MuteInv
<1>0. TurnBytes \in Nat /\ TurnBytes % 2 = 0
  BY PlaybackAssumption
<1>1. CASE PlaybackTask
  BY <1>1 DEF PlaybackTask, Receives, DrainWrites, Discards, FlushDone,
              producer, server
<1>2. CASE AgentAudioDone
  <2>1. /\ play = << >> /\ sent = TurnBytes /\ sent' = 0
        /\ UNCHANGED <<carry, gap, muted, play, torn>>
    BY <1>2 DEF AgentAudioDone, NewTurn, producer
  <2>2. ~torn /\ ~gap /\ ~muted => carry = << >>
    <3> SUFFICES ASSUME ~torn, ~gap, ~muted, carry # << >> PROVE FALSE
      OBVIOUS
    <3>1. sent = carry[1].n + 1 /\ carry[1].n % 2 = 0
      BY <2>1
    <3>2. carry[1].n \in Nat
      <4>1. carry \in Seq(Bytes) /\ Len(carry) \in Nat
        BY LenProperties DEF RoomInv, PlayTypeOK
      <4>2. carry[1] \in Bytes
        BY <4>1, EmptySeq, ElementOfSeq
      <4> QED
        BY <4>2 DEF Bytes
    <3> DEFINE n == carry[1].n
    <3> HIDE DEF n
    <3>3. n \in Nat /\ n % 2 = 0 /\ TurnBytes = n + 1
      BY <2>1, <3>1, <3>2 DEF n
    <3>4. (n + 1) % 2 = 1
      BY <3>3, Parities
    <3> QED
      BY <1>0, <3>3, <3>4
  <2> QED
    BY <2>1, <2>2
<1>3. CASE on_user_started_speaking
  <2>1. /\ play = << >> /\ play' = << >> /\ gap' = TRUE /\ ~muted'
        /\ carry' = carry /\ torn' = torn
    BY <1>3 DEF on_user_started_speaking, audio_io_flush
  <2> QED
    BY <2>1
<1>4. CASE StreamGone
  <2>1. /\ play = << >> /\ play' = << >> /\ gap' = TRUE /\ ~muted'
        /\ carry' = carry /\ torn' = torn
    BY <1>4 DEF StreamGone
  <2> QED
    BY <2>1
<1>5. CASE audio_io_reset
  <2>1. play = << >> /\ play' = << >> /\ carry' = << >> /\ ~muted' /\ sent' = 0
    BY <1>5 DEF audio_io_reset, NewTurn
  <2> QED
    BY <2>1
<1>6. CASE do_interrupt
  <2>1. /\ gap' = TRUE
        /\ UNCHANGED <<carry, muted, play, turn, sent, torn>>
    BY <1>6 DEF do_interrupt, audio_io_flush, server
  <2> QED
    BY <2>1
<1>7. CASE InterruptMutes
  <2>1. UNCHANGED <<carry, play, turn, sent, torn>>
    BY <1>7 DEF InterruptMutes, server
  <2>2. gap' = TRUE \/ UNCHANGED <<muted, gap>>
    BY <1>7 DEF InterruptMutes
  <2> QED
    BY <2>1, <2>2
<1>8. CASE MuteDeadline
  <2>1. /\ muted /\ ~muted' /\ torn' = (torn \/ MidTurn)
        /\ UNCHANGED <<carry, gap, play, turn, sent>>
    BY <1>8 DEF MuteDeadline
  <2>2. ~torn' /\ ~gap' => carry = << >> /\ play = << >> /\ ~MidTurn
    BY <2>1
  <2>3. sent \in 0 .. TurnBytes
    BY DEF RoomInv, PlayTypeOK
  <2>4. ~MidTurn => sent % 2 = 0
    <3>1. ~MidTurn => sent = 0 \/ sent = TurnBytes
      BY <1>0, <2>3 DEF MidTurn
    <3> QED
      BY <1>0, <3>1
  <2> QED
    BY <2>1, <2>2, <2>4
<1>9. CASE UNCHANGED playvars
  BY <1>9 DEF playvars, producer, server
<1> QED
  BY <1>1, <1>2, <1>3, <1>4, <1>5, <1>6, <1>7, <1>8, <1>9

(* Cut in two, and the first part joined to what was there, it is the same *)
(* bytes in the same order.                                                *)
LEMMA CutJoined ==
    ASSUME NEW h \in Seq(Bytes), NEW p \in Seq(Bytes), NEW k \in 0 .. Len(p)
    PROVE  (h \o First(p, k)) \o Rest(p, k) = h \o p
<1>1. Len(p) \in Nat
  BY LenProperties
<1>2. First(p, k) \in Seq(Bytes) /\ Rest(p, k) \in Seq(Bytes)
  BY Cut
<1>3. (h \o First(p, k)) \o Rest(p, k) = h \o (First(p, k) \o Rest(p, k))
  BY <1>2, ConcatAssociative
<1>4. First(p, k) \o Rest(p, k) = p
  <2>1. SubSeq(p, 1, k) \o SubSeq(p, k + 1, Len(p)) = SubSeq(p, 1, Len(p))
    <3>1. /\ 1 \in 1 .. Len(p) + 1 /\ k \in 1 - 1 .. Len(p)
          /\ Len(p) \in k .. Len(p)
      BY <1>1
    <3> QED
      BY <3>1, ConcatAdjacentSubSeq
  <2>2. SubSeq(p, 1, Len(p)) = p
    BY SubSeqFull
  <2> QED
    BY <2>1, <2>2 DEF First, Rest
<1> QED
  BY <1>3, <1>4

(* The producer sends whole samples after whole samples.                   *)
LEMMA AlignedProducer ==
    ASSUME RoomInv, AlignedInv,
           (\E k \in 1 .. TurnBytes : on_audio(k)) \/ audio_io_play
    PROVE  AlignedInv'
<1>1. ASSUME NEW k \in 1 .. TurnBytes, on_audio(k) PROVE AlignedInv'
  <2>1. SourceInv'
    BY <1>1, SourceRecord DEF AlignedInv
  <2>2. UNCHANGED <<TaskHas, pcm, written>>
    BY <1>1 DEF on_audio, consumer, TaskHas
  <2> QED
    BY <2>1, <2>2 DEF AlignedInv
<1>2. CASE audio_io_play
  <2> DEFINE cut == First(Stitched, Accepted)
             have == TaskHas
  <2>1. /\ Stitched \in Seq(Bytes) /\ Len(Stitched) \in Nat
        /\ Accepted \in 0 .. Len(Stitched) /\ Accepted % 2 = 0
    BY Accepts DEF RoomInv
  <2>2. Run(Stitched) \/ Torn(Stitched)
    BY <1>2, StitchedRun DEF AlignedInv, audio_io_play
  <2>3. \A i \in 1 .. Len(Stitched) : Stitched[i].n \in Nat
    <3>1. \A i \in 1 .. Len(Stitched) : Stitched[i] \in Bytes
      BY <2>1, ElementOfSeq
    <3> QED
      BY <3>1 DEF Bytes
  <2>4. Paired(cut) /\ cut \in Seq(Bytes)
    BY <2>1, <2>2, <2>3, SentPairs, Cut
  <2>5. have \in Seq(Bytes) /\ pcm \in Seq(Bytes)
    BY DEF TaskHas, RoomInv, PlayTypeOK
  <2> HIDE DEF cut
  <2>6. pcm' = pcm \o cut /\ have' = have /\ written' = written
    BY <1>2 DEF audio_io_play, cut, TaskHas, consumer
  <2> HIDE DEF have
  <2>7. Paired((have \o pcm) \o cut)
    <3>1. have \o pcm \in Seq(Bytes) /\ Paired(have \o pcm)
      BY <2>5, ConcatProperties DEF AlignedInv, have
    <3> QED
      BY <2>4, <3>1, PairedConcat
  <2>8. Paired(have \o (pcm \o cut))
    <3>1. (have \o pcm) \o cut = have \o (pcm \o cut)
      BY <2>4, <2>5, ConcatAssociative
    <3> QED
      BY <2>7, <3>1
  <2>9. SourceInv'
    BY <1>2, SourcePlay DEF AlignedInv
  <2> QED
    BY <2>6, <2>8, <2>9 DEF AlignedInv, have
<1> QED
  BY <1>1, <1>2

(* The task takes them over in order and writes whole samples.             *)
LEMMA AlignedConsumer ==
    ASSUME RoomInv, AlignedInv, PlaybackTask
    PROVE  AlignedInv'
<1>0. SourceInv'
  BY SourceOthers DEF AlignedInv
<1>t. /\ pcm \in Seq(Bytes) /\ hand \in Seq(Bytes) /\ held \in Seq(Bytes)
      /\ drain # "received" => hand = << >>
      /\ drain = "discarded" => held = << >>
  BY DEF RoomInv, PlayTypeOK
<1>1. ASSUME NEW k \in 0 .. CHUNK, Receives(k) PROVE AlignedInv'
  <2>1. Len(pcm) \in Nat /\ k \in 0 .. Len(pcm)
    BY <1>1, <1>t, PlaybackAssumption, LenProperties DEF Receives
  <2>2. /\ TaskHas = held /\ TaskHas' = hand'
        /\ hand' = held \o First(pcm, k) /\ pcm' = Rest(pcm, k)
        /\ written' = written
    BY <1>1 DEF Receives, DrainAt, TaskHas
  <2>3. (held \o First(pcm, k)) \o Rest(pcm, k) = held \o pcm
    BY <1>t, <2>1, CutJoined
  <2> QED
    BY <1>0, <2>2, <2>3 DEF AlignedInv
<1>2. CASE DrainWrites
  <2> DEFINE n    == Even(Len(hand))
             cut  == First(hand, n)
             left == Rest(hand, n)
  <2>1. n \in 0 .. Len(hand) /\ n % 2 = 0
    <3>1. Len(hand) \in Nat
      BY <1>t, LenProperties
    <3> QED
      BY <3>1, Evens
  <2>2. Paired(hand \o pcm)
    BY <1>2 DEF DrainWrites, DrainAt, AlignedInv, TaskHas
  <2> HIDE DEF n
  <2>3. Paired(cut) /\ Paired(left \o pcm)
    BY <1>t, <2>1, <2>2, PairedCut
  <2>4. TaskHas' = left /\ written' = cut /\ pcm' = pcm
    BY <1>2 DEF DrainWrites, TaskHas, n
  <2> HIDE DEF cut, left
  <2> QED
    BY <1>0, <2>3, <2>4 DEF AlignedInv
<1>3. CASE Discards
  <2>1. TaskHas' = << >> /\ pcm' = << >> /\ written' = written
    BY <1>3 DEF Discards, TaskHas
  <2>2. << >> \o << >> = << >> /\ Paired(<< >>)
    BY DEF Paired
  <2> QED
    BY <1>0, <2>1, <2>2 DEF AlignedInv
<1>4. CASE FlushDone
  <2>1. TaskHas' = TaskHas /\ pcm' = pcm /\ written' = written
    BY <1>4, <1>t DEF FlushDone, DrainAt, TaskHas
  <2> QED
    BY <1>0, <2>1 DEF AlignedInv
<1> QED
  BY <1>1, <1>2, <1>3, <1>4 DEF PlaybackTask

(* A flush marks bytes where they lie; nobody else touches them.           *)
LEMMA AlignedOthers ==
    ASSUME RoomInv, AlignedInv,
           \/ AgentAudioDone \/ on_user_started_speaking \/ StreamGone
           \/ audio_io_reset
           \/ do_interrupt \/ InterruptMutes \/ MuteDeadline
           \/ UNCHANGED playvars
    PROVE  AlignedInv'
<1>1. SourceInv'
  BY SourceOthers DEF AlignedInv
<1>2. UNCHANGED <<TaskHas, written>>
  BY DEF AgentAudioDone, on_user_started_speaking, StreamGone, audio_io_reset,
         do_interrupt, InterruptMutes, MuteDeadline, playvars, consumer,
             TaskHas
<1>3. pcm' = pcm \/ pcm' = FlushMarked(pcm)
  BY DEF AgentAudioDone, on_user_started_speaking, StreamGone, audio_io_reset,
         do_interrupt, InterruptMutes, MuteDeadline, playvars, audio_io_flush
<1>4. TaskHas \in Seq(Bytes) /\ pcm \in Seq(Bytes)
  BY DEF TaskHas, RoomInv, PlayTypeOK
<1> DEFINE have == TaskHas
<1> HIDE DEF have
<1>5. Paired(have \o pcm) /\ have \in Seq(Bytes)
  BY <1>4 DEF have, AlignedInv
<1>6. Paired(have \o FlushMarked(pcm))
  BY <1>4, <1>5, Marks
<1>7. Paired(TaskHas' \o pcm')
  BY <1>2, <1>3, <1>5, <1>6 DEF have
<1> QED
  BY <1>1, <1>2, <1>7 DEF AlignedInv

(* Every pair of bytes written to the codec is one sample of one reply.    *)
THEOREM AlwaysAligned == PlaySpec => []Aligned
<1>1. PlayInit => AlignedInv
  <2>1. << >> \o << >> = << >> /\ Paired(<< >>)
    BY DEF Paired
  <2> QED
    BY <2>1 DEF PlayInit, AlignedInv, SourceInv, CarryInv, FlightInv, SyncInv,
                MuteInv, TaskHas
<1>2. RoomInv /\ AlignedInv /\ [PlayNext]_playvars => AlignedInv'
  BY AlignedProducer, AlignedConsumer, AlignedOthers DEF PlayNext
<1>3. RoomInv /\ AlignedInv => Aligned
  <2> SUFFICES ASSUME RoomInv, AlignedInv PROVE Aligned
    OBVIOUS
  <2>1. DOMAIN written = 1 .. Len(written)
    BY LenProperties DEF RoomInv, PlayTypeOK
  <2> QED
    BY <2>1 DEF AlignedInv, Paired, Pair, Aligned, Samples
<1> QED
  BY <1>1, <1>2, <1>3, RoomAlways, PTL DEF PlaySpec
=============================================================================
