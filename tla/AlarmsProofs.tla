---------------------------- MODULE AlarmsProofs ----------------------------
(***************************************************************************)
(* Proofs about Alarms, with the ring cycle it drives, and Echo, which     *)
(* share no variable: for any alarms, slots, calendars, zones and lengths, *)
(* and any number of presses, losses of power, callouts, other texts and   *)
(* dropped sockets.                                                        *)
(***************************************************************************)
EXTENDS Alarms, Echo, SequenceTheorems, TLAPS

-----------------------------------------------------------------------------
(***************************************************************************)
(* Alarms.  The phases of a ring: one that is asked to stop before it has  *)
(* been announced goes through the announcement and nowhere else.          *)
(***************************************************************************)
Rings == [phase : Phases, announced : BOOLEAN, stopping : BOOLEAN,
          heard : BOOLEAN]

RingOK(r) ==
    /\ r \in Rings
    /\ r.phase = "speak" => r.announced
    /\ r.stopping => r.phase \in {"drain", "speak", "idle"}
    /\ r.stopping /\ r.phase = "drain" => ~r.announced

(* What perform() has still to do is what the phase entered asked for.     *)
SoundInv ==
    /\ RingOK(ring)
    /\ {ringing, chime, hold, capped, stop_req, snooze_req} \subseteq BOOLEAN
    /\ {loop.stop, loop.snooze} \subseteq BOOLEAN
    /\ loop = [at |-> loop.at, fired |-> loop.fired, stop |-> loop.stop,
               snooze |-> loop.snooze, snap |-> loop.snap]
    /\ acts \subseteq Acts(ring.phase)
    /\ acts # {} => loop.at \in {"ringActs", "stepActs"}
    /\ ~ringing => ring.phase = "idle" /\ acts = {}
    /\ ringing /\ ring.phase = "idle" => "ended" \in acts
    /\ chime => hold
    /\ chime /\ ring.phase # "chime" => "chime_off" \in acts
    /\ ring.phase = "chime" =>
           IF "hold_on" \in acts THEN ~chime ELSE hold
    /\ capped /\ loop.at \in {"stepActs", "persist", "write"} =>
           ring.phase # "chime"

(* A ring's announcement has been made, or perform() is about to make it.  *)
SaidInv ==
    /\ spoken \in 0 .. 2
    /\ ring.announced <=> spoken > 0 \/ "announce" \in acts
    /\ ring.phase = "idle" /\ rang # None => ring.announced \/ left
    /\ ~chimed /\ ring.phase # "idle" => ring.announced
    /\ ring.stopping => IF "announce" \in acts THEN spoken = 0 ELSE spoken < 2

(* The blob in flash, or on its way there, is that of the table, or the    *)
(* table is marked.  An entry has its three fields.                        *)
IsEntry(e) == e = Entry(e.kind, e.fire, e.mono)
Entries(t) ==
    t = [i \in DOMAIN t |-> t[i]] /\ \A i \in DOMAIN t : IsEntry(t[i])

StoreInv ==
    /\ Entries(table) /\ Entries(nvs) /\ Blob(nvs) = nvs
    /\ loop.at = "write" =>
           /\ dirty \/ loop.snap = Blob(table)
           /\ Entries(loop.snap) /\ Blob(loop.snap) = loop.snap
    /\ SavedOrMarked

(* What a step of the ring may lead to: to stay, or to enter a phase that  *)
(* may follow the one it is in.                                            *)
Follows(r, n, cap) ==
    /\ RingOK(n.ring)
    /\ \/ /\ n.acts = {} /\ n.ring.phase = r.phase
          /\ n.ring.announced <=> r.announced
       \/ /\ n.acts = Acts(n.ring.phase)
          /\ n.ring.announced <=> r.announced \/ n.ring.phase = "speak"
          /\ n.ring.phase = "chime" => r.phase = "speak"
          /\ n.ring.phase = "speak" => r.phase = "drain"
    /\ n.ring.phase = "idle" => r.announced
    /\ n.ring.stopping => r.stopping \/ ~r.announced
    /\ n.ring.stopping /\ n.ring.phase = "speak" /\ n.acts # {} => ~r.announced
    /\ cap => n.ring.phase # "chime"

(* Entering a phase.                                                       *)
LEMMA Entered ==
    ASSUME NEW r \in Rings, NEW p \in Phases
    PROVE  /\ enter(r, p).ring \in Rings /\ enter(r, p).acts = Acts(p)
           /\ enter(r, p).ring.phase = p
           /\ enter(r, p).ring.announced <=> r.announced \/ p = "speak"
           /\ enter(r, p).ring.stopping <=> r.stopping
<1> DEFINE n == [r EXCEPT !.phase = p, !.heard = @ /\ p # "speak",
                          !.announced = @ \/ p = "speak"]
<1>1. enter(r, p).ring = n /\ enter(r, p).acts = Acts(p)
  BY DEF enter
<1>2. n \in Rings
  BY DEF Rings
<1>3. n.phase = p
  BY DEF Rings
<1>4. n.announced <=> r.announced \/ p = "speak"
  BY DEF Rings
<1>5. n.stopping <=> r.stopping
  BY DEF Rings
<1> QED
  BY <1>1, <1>2, <1>3, <1>4, <1>5

(* The phases, left alone.                                                 *)
LEMMA PhaseFollows ==
    ASSUME NEW r, RingOK(r), NEW t \in Times, NEW playback \in BOOLEAN,
           NEW cap \in BOOLEAN, cap => r.stopping \/ r.phase = "silent",
           r.phase # "idle"
    PROVE  Follows(r, PhaseStep(r, t, playback), cap)
<1> DEFINE n == PhaseStep(r, t, playback)
<1>r. r \in Rings
  BY DEF RingOK
<1>s. Follows(r, Stays(r), cap)
  BY DEF Stays, Follows, RingOK, Rings, Phases
<1>1. CASE r.phase = "chime"
  <2>1. Follows(r, enter(r, "drain"), cap)
    BY <1>r, <1>1, Entered DEF Follows, RingOK, Phases
  <2>2. n = IF t.up THEN enter(r, "drain") ELSE Stays(r)
    BY <1>1 DEF PhaseStep
  <2> QED
    BY <1>s, <2>1, <2>2
<1>2. CASE r.phase = "drain"
  <2>1. Follows(r, enter(r, "speak"), cap)
    BY <1>r, <1>2, Entered DEF Follows, RingOK, Phases
  <2>2. n = IF t.up \/ ~playback THEN enter(r, "speak") ELSE Stays(r)
    BY <1>2 DEF PhaseStep
  <2> QED
    BY <1>s, <2>1, <2>2
<1>3. CASE r.phase = "speak"
  <2> DEFINE h == [r EXCEPT !.heard = @ \/ playback]
  <2>1. /\ h \in Rings /\ h.phase = "speak"
        /\ h.announced <=> r.announced
        /\ h.stopping <=> r.stopping
    BY <1>r, <1>3 DEF Rings
  <2>2. RingOK(h) /\ r.announced
    BY <2>1, <1>3 DEF RingOK
  <2>3. n = IF t.up \/ (h.heard /\ ~playback /\ t.quiet)
            THEN enter(h, IF r.stopping THEN "idle" ELSE "chime")
            ELSE Stays(h)
    BY <1>3 DEF PhaseStep
  <2> HIDE DEF h
  <2>4. Follows(r, Stays(h), cap)
    BY <1>r, <1>3, <2>1, <2>2 DEF Stays, Follows, RingOK
  <2>5. r.stopping => Follows(r, enter(h, "idle"), cap)
    BY <1>r, <1>3, <2>1, <2>2, Entered DEF Follows, RingOK, Phases
  <2>6. ~r.stopping => Follows(r, enter(h, "chime"), cap)
    BY <1>r, <1>3, <2>1, <2>2, Entered DEF Follows, RingOK, Phases
  <2> QED
    BY <2>3, <2>4, <2>5, <2>6
<1>4. CASE r.phase = "silent"
  BY <1>s, <1>4 DEF PhaseStep
<1> QED
  BY <1>r, <1>1, <1>2, <1>3, <1>4 DEF Rings, Phases

(* With the cap.                                                           *)
LEMMA CyclesFollow ==
    ASSUME NEW r, RingOK(r), NEW t \in Times, NEW playback \in BOOLEAN,
           r.phase # "idle"
    PROVE  Follows(r, CyclesOn(r, t, playback), t.capped)
<1>t. t.capped \in BOOLEAN /\ r \in Rings
  BY DEF Times, RingOK
<1>1. CASE Capped(r, t)
  <2>1. ~r.stopping /\ CyclesOn(r, t, playback) = enter(r, "silent")
    BY <1>1 DEF Capped, CyclesOn
  <2> QED
    BY <1>t, <2>1, Entered DEF Follows, RingOK, Phases
<1>2. CASE ~Capped(r, t)
  <2>1. t.capped => r.stopping \/ r.phase = "silent"
    BY <1>2 DEF Capped
  <2>2. CyclesOn(r, t, playback) = PhaseStep(r, t, playback)
    BY <1>2 DEF CyclesOn
  <2> QED
    BY <1>t, <2>1, <2>2, PhaseFollows
<1> QED
  BY <1>1, <1>2

(* And with a stop: announced, the ring ends; not yet, it goes on to the   *)
(* announcement.                                                           *)
LEMMA StopFollows ==
    ASSUME NEW r, RingOK(r), NEW t \in Times, NEW playback \in BOOLEAN,
           r.phase # "idle"
    PROVE  Follows(r, StopStep(r, t, playback), t.capped)
<1> DEFINE s == [r EXCEPT !.stopping = TRUE]
<1>r. r \in Rings
  BY DEF RingOK
<1>s. /\ s \in Rings /\ s.phase = r.phase
      /\ s.announced <=> r.announced
      /\ s.stopping
  BY <1>r DEF Rings
<1>n. StopStep(r, t, playback) =
          IF r.announced THEN enter(r, "idle")
          ELSE IF r.phase \in {"chime", "silent"} THEN enter(s, "drain")
          ELSE CyclesOn(s, t, playback)
  BY DEF StopStep
<1> HIDE DEF s
<1>1. CASE r.announced
  <2>1. Follows(r, enter(r, "idle"), t.capped)
    BY <1>r, <1>1, Entered DEF Follows, RingOK, Phases
  <2> QED
    BY <1>n, <1>1, <2>1
<1>2. CASE ~r.announced /\ r.phase \in {"chime", "silent"}
  <2>1. Follows(r, enter(s, "drain"), t.capped)
    BY <1>s, <1>2, Entered DEF Follows, RingOK, Phases
  <2> QED
    BY <1>n, <1>2, <2>1
<1>3. CASE ~r.announced /\ r.phase \notin {"chime", "silent"}
  <2>1. r.phase = "drain"
    BY <1>r, <1>3 DEF RingOK, Rings, Phases
  <2>2. RingOK(s)
    BY <1>s, <1>3, <2>1 DEF RingOK
  <2>3. Follows(s, CyclesOn(s, t, playback), t.capped)
    BY <1>s, <2>1, <2>2, CyclesFollow
  <2>4. Follows(r, CyclesOn(s, t, playback), t.capped)
    BY <1>s, <1>3, <2>3 DEF Follows
  <2> QED
    BY <1>n, <1>3, <2>4
<1> QED
  BY <1>1, <1>2, <1>3

(* So for every step of a ring that goes on.                               *)
LEMMA RingSteps ==
    ASSUME NEW r, RingOK(r), NEW t \in Times, NEW playback \in BOOLEAN,
           NEW stop \in BOOLEAN, NEW snooze \in BOOLEAN
    PROVE  LET n == alarm_ring_step(r, t, playback, stop, snooze)
           IN  /\ r.phase = "idle" => n = Stays(r)
               /\ r.phase # "idle" /\ snooze => n = enter(r, "idle")
               /\ r.phase # "idle" /\ ~snooze => Follows(r, n, t.capped)
  BY CyclesFollow, StopFollows DEF alarm_ring_step


(* What the first two parts of the invariant read.                         *)
VoiceInv == SoundInv /\ SaidInv

voicevars == <<loop, rang, ringing, ring, capped, acts, stop_req, snooze_req,
               chime, hold, spoken, left, chimed>>

(* A step that changes none of what they read.                             *)
LEMMA VoiceSame ==
    ASSUME VoiceInv, UNCHANGED voicevars
    PROVE  VoiceInv'
  BY DEF VoiceInv, voicevars, SoundInv, SaidInv, RingOK

(* The loop goes on to another place, with nothing left to perform if it   *)
(* leaves perform(); and to the writing only from the step.                *)
LEMMA VoiceGoes ==
    ASSUME VoiceInv, acts = {}, NEW pc,
           UNCHANGED <<rang, ringing, ring, capped, acts, chime, hold, spoken,
                       left, chimed>>,
           loop' = [at |-> loop'.at, fired |-> loop'.fired,
                    stop |-> loop'.stop, snooze |-> loop'.snooze,
                    snap |-> loop'.snap],
           {stop_req, snooze_req}' \subseteq BOOLEAN,
           {loop.stop, loop.snooze}' \subseteq BOOLEAN,
           capped /\ loop'.at \in {"stepActs", "persist", "write"} =>
               ring.phase # "chime"
    PROVE  VoiceInv'
<1>1. {ringing, chime, hold, capped, stop_req, snooze_req}' \subseteq BOOLEAN
  BY DEF VoiceInv, SoundInv
<1>2. SaidInv'
  BY DEF VoiceInv, SaidInv
<1>3. RingOK(ring)'
  BY DEF VoiceInv, SoundInv, RingOK
<1>4. SoundInv'
  BY <1>1, <1>3 DEF VoiceInv, SoundInv
<1> QED
  BY <1>2, <1>4 DEF VoiceInv

(* alarms_tick() finds something due, or nothing.                          *)
LEMMA VoiceTick ==
    ASSUME VoiceInv, alarms_tick
    PROVE  VoiceInv'
<1>0. acts = {}
  BY DEF alarms_tick, At, VoiceInv, SoundInv
<1>1. PICK pc \in {"stop", "ring"} :
          \E f : loop' = [loop EXCEPT !.at = pc, !.fired = f]
  <2>1. CASE Goes("stop")
    <3>1. loop' = [loop EXCEPT !.at = "stop", !.fired = loop.fired]
      BY <2>1 DEF Goes, VoiceInv, SoundInv
    <3> QED
      BY <3>1
  <2>2. CASE \E id \in DOMAIN Current :
                loop' = [loop EXCEPT !.at = "ring", !.fired = Current[id]]
    BY <2>2
  <2> QED
    BY <2>1, <2>2 DEF alarms_tick
<1>f. PICK f : loop' = [loop EXCEPT !.at = pc, !.fired = f]
  BY <1>1
<1>2. loop' = [at |-> pc, fired |-> f, stop |-> loop.stop,
               snooze |-> loop.snooze, snap |-> loop.snap]
  BY <1>f DEF VoiceInv, SoundInv
<1>3. /\ loop' = [at |-> loop'.at, fired |-> loop'.fired, stop |-> loop'.stop,
                  snooze |-> loop'.snooze, snap |-> loop'.snap]
      /\ loop'.at = pc
      /\ {loop.stop, loop.snooze}' \subseteq BOOLEAN
  BY <1>2 DEF VoiceInv, SoundInv
<1>4. /\ {stop_req, snooze_req}' \subseteq BOOLEAN
      /\ UNCHANGED <<rang, ringing, ring, capped, acts, chime, hold, spoken,
                     left, chimed>>
  BY DEF alarms_tick, cycle, requests, sound, VoiceInv, SoundInv
<1> QED
  BY <1>0, <1>3, <1>4, VoiceGoes

(* ring() begins with the tone off, whatever it takes over from.           *)
LEMMA VoiceBegins ==
    ASSUME VoiceInv, NEW live \in BOOLEAN, RingBegins(live)
    PROVE  VoiceInv'
<1> DEFINE p == IF live THEN "speak" ELSE "chime"
<1>1. Idle \in Rings /\ p \in Phases
  BY DEF Idle, Rings, Phases
<1>2. ring' = enter(Idle, p).ring /\ acts' = enter(Idle, p).acts
  BY DEF RingBegins, alarm_ring_begin
<1>3. /\ ring' \in Rings /\ acts' = Acts(p) /\ ring'.phase = p
      /\ ring'.announced <=> p = "speak"
      /\ ~ring'.stopping
  BY <1>1, <1>2, Entered DEF Idle
<1>4. chime' = FALSE
  BY DEF RingBegins, VoiceInv, SoundInv
<1>5. loop' = [at |-> "ringActs", fired |-> None, stop |-> loop.stop,
               snooze |-> loop.snooze, snap |-> loop.snap]
  BY DEF RingBegins, VoiceInv, SoundInv
<1>6. /\ loop' = [at |-> loop'.at, fired |-> loop'.fired, stop |-> loop'.stop,
                  snooze |-> loop'.snooze, snap |-> loop'.snap]
      /\ loop'.at = "ringActs"
      /\ {loop.stop, loop.snooze}' \subseteq BOOLEAN
  BY <1>5 DEF VoiceInv, SoundInv
<1>7. /\ ringing' = TRUE /\ capped' = FALSE /\ hold' = hold
      /\ stop_req' = FALSE /\ snooze_req' = FALSE
      /\ spoken' = 0 /\ left' = FALSE /\ chimed' = ~live
  BY DEF RingBegins
<1>8. {ringing, chime, hold, capped, stop_req, snooze_req}' \subseteq BOOLEAN
  BY <1>4, <1>7 DEF VoiceInv, SoundInv
<1>9. RingOK(ring)'
  BY <1>3 DEF RingOK
<1>a. acts' \subseteq Acts(p) /\ ("announce" \in acts' <=> p = "speak")
  BY <1>3 DEF Acts
<1>b. p = "chime" => "hold_on" \in acts'
  BY <1>3 DEF Acts
<1>c. SoundInv'
  BY <1>3, <1>4, <1>6, <1>7, <1>8, <1>9, <1>a, <1>b DEF SoundInv
<1>d. ~chimed' => p = "speak"
  BY <1>7
<1>e. SaidInv'
  BY <1>3, <1>7, <1>a, <1>d DEF SaidInv
<1> QED
  BY <1>c, <1>e DEF VoiceInv


(* perform(): each action alone, in the order of Order.                    *)
LEMMA VoicePerform ==
    ASSUME VoiceInv, perform
    PROVE  VoiceInv'
<1>1. PICK n \in DOMAIN Order :
          /\ acts # {} /\ Nth(n)
          /\ acts' = acts \ {Order[n]}
          /\ chime' = ((chime \/ Order[n] = "chime_on")
                          /\ Order[n] # "chime_off")
          /\ hold'  = ((hold \/ Order[n] = "hold_on")
                          /\ Order[n] # "hold_off")
          /\ spoken' = IF Order[n] = "announce" /\ spoken < 2
                       THEN spoken + 1 ELSE spoken
          /\ ringing' = (ringing /\ Order[n] # "ended")
          /\ capped' = (capped /\ Order[n] # "ended")
          /\ chimed' = (chimed /\ Order[n] \notin {"announce", "ended"})
  BY DEF perform
<1> DEFINE o == Order[n]
<1>2. DOMAIN Order = 1 .. 6
  BY DEF Order
<1>3. /\ Order[1] = "chime_off" /\ Order[2] = "hold_off"
      /\ Order[3] = "hold_on" /\ Order[4] = "chime_on"
      /\ Order[5] = "announce" /\ Order[6] = "ended"
  BY DEF Order
<1>4. o \in acts /\ acts # {}
      /\ \A m \in 1 .. n - 1 : Order[m] \notin acts
  BY <1>1 DEF Nth
<1>5. o \in {"hold_off", "hold_on", "chime_on", "announce", "ended"} =>
          "chime_off" \notin acts
  BY <1>1, <1>2, <1>3, <1>4
<1>6. o = "chime_on" => "hold_on" \notin acts
  BY <1>1, <1>2, <1>3, <1>4
<1>7. o = "ended" => acts \subseteq {"ended"}
  <2>1. SUFFICES ASSUME o = "ended" PROVE acts \subseteq {"ended"}
    OBVIOUS
  <2>2. n = 6
    BY <1>2, <1>3, <2>1
  <2>3. \A m \in 1 .. 5 : Order[m] \notin acts
    BY <1>4, <2>2
  <2>4. /\ "chime_off" \notin acts /\ "hold_off" \notin acts
        /\ "hold_on" \notin acts /\ "chime_on" \notin acts
        /\ "announce" \notin acts
    BY <1>3, <2>3
  <2>5. acts \subseteq Acts(ring.phase) /\ ring.phase \in Phases
    BY DEF VoiceInv, SoundInv, RingOK, Rings
  <2> QED
    BY <2>4, <2>5 DEF Acts, Phases
<1>8. /\ acts \subseteq Acts(ring.phase) /\ ring.phase \in Phases
      /\ ringing
  BY <1>4 DEF VoiceInv, SoundInv, RingOK, Rings
<1>9. o \in {"chime_off", "hold_off", "hold_on", "chime_on", "announce",
             "ended"}
  BY <1>1, <1>2, <1>3
<1>a. UNCHANGED <<loop, rang, ring, left, stop_req, snooze_req>>
  BY DEF perform, requests
<1> HIDE DEF o
<1>b. /\ acts' = acts \ {o}
      /\ chime' = ((chime \/ o = "chime_on") /\ o # "chime_off")
      /\ hold'  = ((hold \/ o = "hold_on") /\ o # "hold_off")
      /\ spoken' = IF o = "announce" /\ spoken < 2 THEN spoken + 1 ELSE spoken
      /\ ringing' = (ringing /\ o # "ended")
      /\ capped' = (capped /\ o # "ended")
      /\ chimed' = (chimed /\ o \notin {"announce", "ended"})
  BY <1>1 DEF o
<1>c. {ringing, chime, hold, capped, stop_req, snooze_req}' \subseteq BOOLEAN
  BY <1>a, <1>b DEF VoiceInv, SoundInv
<1>d. /\ ringing' <=> o # "ended"
      /\ capped' => capped
      /\ chime' <=> (chime \/ o = "chime_on") /\ o # "chime_off"
      /\ hold' <=> (hold \/ o = "hold_on") /\ o # "hold_off"
  BY <1>8, <1>b
<1>e. RingOK(ring)'
  BY <1>a DEF VoiceInv, SoundInv, RingOK
<1>f. /\ o = "ended" => ring.phase = "idle" /\ acts' = {}
      /\ ring.phase = "idle" /\ o # "ended" => "ended" \in acts'
  BY <1>4, <1>7, <1>8, <1>9, <1>b DEF Acts, Phases, VoiceInv, SoundInv
<1>g. /\ chime' => hold'
      /\ chime' /\ ring.phase # "chime" => "chime_off" \in acts'
      /\ ring.phase = "chime" =>
             IF "hold_on" \in acts' THEN ~chime' ELSE hold'
  <2>1. o \in Acts(ring.phase)
    BY <1>4, <1>8
  <2>2. CASE ring.phase = "chime"
    <3>1. o \in {"hold_on", "chime_on"}
      BY <2>1, <2>2 DEF Acts
    <3>2. acts \subseteq {"hold_on", "chime_on"}
      BY <1>8, <2>2 DEF Acts
    <3>3. /\ chime => hold
          /\ IF "hold_on" \in acts THEN ~chime ELSE hold
      BY <2>2 DEF VoiceInv, SoundInv
    <3>4. CASE o = "hold_on"
      BY <2>2, <3>3, <3>4, <1>b, <1>d
    <3>5. CASE o = "chime_on"
      BY <2>2, <3>3, <3>5, <1>6, <1>b, <1>d
    <3> QED
      BY <3>1, <3>4, <3>5
  <2>3. CASE ring.phase # "chime"
    <3>1. o \notin {"hold_on", "chime_on"}
      BY <2>1, <2>3, <1>8 DEF Acts, Phases
    <3>2. chime => hold /\ "chime_off" \in acts
      BY <2>3 DEF VoiceInv, SoundInv
    <3>3. chime' => o = "chime_off"
      BY <3>1, <3>2, <1>5, <1>9, <1>d
    <3> QED
      BY <2>3, <3>1, <3>3, <1>d
  <2> QED
    BY <2>2, <2>3
<1>h. SoundInv'
  <2>1. /\ loop' = loop /\ ring' = ring /\ acts' \subseteq acts
    BY <1>a, <1>b
  <2>2. /\ {loop.stop, loop.snooze} \subseteq BOOLEAN
        /\ loop = [at |-> loop.at, fired |-> loop.fired, stop |-> loop.stop,
                   snooze |-> loop.snooze, snap |-> loop.snap]
        /\ loop.at \in {"ringActs", "stepActs"}
        /\ capped /\ loop.at \in {"stepActs", "persist", "write"} =>
               ring.phase # "chime"
    BY <1>4 DEF VoiceInv, SoundInv
  <2> QED
    BY <2>1, <2>2, <1>8, <1>c, <1>d, <1>e, <1>f, <1>g DEF SoundInv
<1>i. SaidInv'
  <2>1. /\ spoken \in 0 .. 2
        /\ ring.announced <=> spoken > 0 \/ "announce" \in acts
        /\ ring.phase = "idle" /\ rang # None => ring.announced \/ left
        /\ ~chimed /\ ring.phase # "idle" => ring.announced
        /\ ring.stopping => IF "announce" \in acts THEN spoken = 0
                                                    ELSE spoken < 2
    BY DEF VoiceInv, SaidInv
  <2>2. CASE o = "announce"
    <3>1. /\ spoken' = IF spoken < 2 THEN spoken + 1 ELSE spoken
          /\ "announce" \notin acts' /\ "announce" \in acts
      BY <2>2, <1>4, <1>b
    <3>2. ring.announced
      BY <2>1, <3>1
    <3> QED
      BY <2>1, <3>1, <3>2, <1>a DEF SaidInv
  <2>3. CASE o # "announce"
    <3>1. spoken' = spoken /\ ("announce" \in acts' <=> "announce" \in acts)
      BY <2>3, <1>b
    <3>2. ~chimed' /\ ring.phase # "idle" => ~chimed
      BY <2>3, <1>b, <1>f
    <3> QED
      BY <2>1, <3>1, <3>2, <1>a DEF SaidInv
  <2> QED
    BY <2>2, <2>3
<1> QED
  BY <1>h, <1>i DEF VoiceInv

(* ring_tick() steps the ring, and with nothing left to perform.           *)
LEMMA VoiceStep ==
    ASSUME VoiceInv, NEW t \in Times, NEW playback \in BOOLEAN,
           ring_tick(t, playback)
    PROVE  VoiceInv'
<1> DEFINE snoozed == loop.snooze /\ CanSnooze
           next == alarm_ring_step(ring, t, playback, loop.stop, snoozed)
<1>1. /\ At("step") /\ t.capped = capped
      /\ ring' = next.ring /\ acts' = next.acts
      /\ snoozed => left' = TRUE
      /\ ~snoozed => left' = left
      /\ snooze_req' = FALSE
      /\ loop' = [loop EXCEPT !.at = "stepActs", !.stop = FALSE,
                              !.snooze = FALSE]
      /\ UNCHANGED <<rang, ringing, capped, stop_req, chime, hold, spoken,
                     chimed>>
  BY DEF ring_tick
<1>2. snoozed \in BOOLEAN /\ loop.stop \in BOOLEAN /\ RingOK(ring)
  BY DEF VoiceInv, SoundInv
<1>3. acts = {}
  BY <1>1 DEF At, VoiceInv, SoundInv
<1> HIDE DEF snoozed
<1>4. /\ ring.phase = "idle" => next = Stays(ring)
      /\ ring.phase # "idle" /\ snoozed => next = enter(ring, "idle")
      /\ ring.phase # "idle" /\ ~snoozed => Follows(ring, next, t.capped)
  BY <1>2, RingSteps
<1> HIDE DEF next
<1>5. loop' = [at |-> "stepActs", fired |-> loop.fired, stop |-> FALSE,
               snooze |-> FALSE, snap |-> loop.snap]
  BY <1>1 DEF VoiceInv, SoundInv
<1>6. /\ loop' = [at |-> loop'.at, fired |-> loop'.fired, stop |-> loop'.stop,
                  snooze |-> loop'.snooze, snap |-> loop'.snap]
      /\ loop'.at = "stepActs"
      /\ {loop.stop, loop.snooze}' \subseteq BOOLEAN
  BY <1>5
<1>7. /\ {ringing, chime, hold, capped, stop_req, snooze_req}'
             \subseteq BOOLEAN
      /\ {ringing, chime, hold, capped} \subseteq BOOLEAN
  BY <1>1 DEF VoiceInv, SoundInv
<1>8. /\ ringing <=> ring.phase # "idle"
      /\ chime => hold /\ ring.phase = "chime"
      /\ ring.phase = "chime" => hold
  BY <1>3 DEF VoiceInv, SoundInv
<1>9. /\ spoken \in 0 .. 2
      /\ ring.announced <=> spoken > 0
      /\ ring.phase = "idle" /\ rang # None => ring.announced \/ left
      /\ ~chimed /\ ring.phase # "idle" => ring.announced
      /\ ring.stopping => spoken < 2
  BY <1>3 DEF VoiceInv, SaidInv
<1>a. CASE ring.phase = "idle"
  <2>1. ring' = ring /\ acts' = {}
    BY <1>1, <1>4, <1>a DEF Stays
  <2>2. SoundInv'
    BY <1>1, <1>2, <1>6, <1>7, <1>8, <1>a, <2>1 DEF SoundInv, RingOK
  <2>3. SaidInv'
    BY <1>1, <1>9, <1>a, <2>1 DEF SaidInv
  <2> QED
    BY <2>2, <2>3 DEF VoiceInv
<1>b. CASE ring.phase # "idle" /\ snoozed
  <2>1. /\ ring' \in Rings /\ acts' = {"chime_off", "hold_off", "ended"}
        /\ ring'.phase = "idle"
        /\ ring'.announced <=> ring.announced
        /\ ring'.stopping <=> ring.stopping
    BY <1>1, <1>2, <1>4, <1>b, Entered DEF Phases, Acts, RingOK
  <2>2. SoundInv'
    BY <1>1, <1>6, <1>7, <1>8, <1>b, <2>1 DEF SoundInv, RingOK, Acts
  <2>3. SaidInv'
    BY <1>1, <1>9, <1>b, <2>1 DEF SaidInv
  <2> QED
    BY <2>2, <2>3 DEF VoiceInv
<1>c. CASE ring.phase # "idle" /\ ~snoozed
  <2>1. Follows(ring, next, capped) /\ ring' = next.ring /\ acts' = next.acts
    BY <1>1, <1>4, <1>c
  <2>2. /\ RingOK(ring')
        /\ \/ /\ acts' = {} /\ ring'.phase = ring.phase
              /\ ring'.announced <=> ring.announced
           \/ /\ acts' = Acts(ring'.phase)
              /\ ring'.announced <=> ring.announced \/ ring'.phase = "speak"
              /\ ring'.phase = "chime" => ring.phase = "speak"
              /\ ring'.phase = "speak" => ring.phase = "drain"
        /\ ring'.phase = "idle" => ring.announced
        /\ ring'.stopping => ring.stopping \/ ~ring.announced
        /\ ring'.stopping /\ ring'.phase = "speak" /\ acts' # {} =>
               ~ring.announced
        /\ capped => ring'.phase # "chime"
    BY <2>1 DEF Follows
  <2>3. ring'.phase \in Phases
    BY <2>2 DEF RingOK, Rings
  <2>4. CASE acts' = {} /\ ring'.phase = ring.phase
    <3>1. SoundInv'
      BY <1>1, <1>6, <1>7, <1>8, <1>c, <2>2, <2>4 DEF SoundInv
    <3>2. "announce" \notin acts'
          /\ (ring'.announced <=> ring.announced)
      BY <2>2, <2>3, <2>4, <1>c DEF Acts, Phases
    <3>3. SaidInv'
      BY <1>1, <1>9, <1>c, <2>2, <2>4, <3>2 DEF SaidInv
    <3> QED
      BY <3>1, <3>3 DEF VoiceInv
  <2>5. CASE /\ acts' = Acts(ring'.phase)
             /\ ring'.announced <=> ring.announced \/ ring'.phase = "speak"
             /\ ring'.phase = "chime" => ring.phase = "speak"
             /\ ring'.phase = "speak" => ring.phase = "drain"
    <3>1. /\ "chime_off" \in acts' <=>
                 ring'.phase \in {"drain", "silent", "idle"}
          /\ "hold_on" \in acts' <=> ring'.phase = "chime"
          /\ "announce" \in acts' <=> ring'.phase = "speak"
          /\ "ended" \in acts' <=> ring'.phase = "idle"
          /\ acts' # {}
      BY <2>3, <2>5 DEF Acts, Phases
    <3>2. /\ chime' /\ ring'.phase # "chime" => "chime_off" \in acts'
          /\ ring'.phase = "chime" => ~chime'
      BY <1>1, <1>8, <2>3, <2>5, <3>1 DEF Phases
    <3>3. SoundInv'
      BY <1>1, <1>6, <1>7, <1>8, <1>c, <2>2, <2>5, <3>1, <3>2 DEF SoundInv
    <3>4. SaidInv'
      BY <1>1, <1>9, <1>c, <2>2, <2>5, <3>1 DEF SaidInv
    <3> QED
      BY <3>3, <3>4 DEF VoiceInv
  <2> QED
    BY <2>2, <2>4, <2>5
<1> QED
  BY <1>a, <1>b, <1>c


(* The loop's other steps leave the ring and the sound as they are.        *)
LEMMA VoiceLoop ==
    ASSUME VoiceInv,
           Performed \/ NotRinging \/ ReadStop \/ ClearStopReadSnooze
               \/ Clean \/ Snapshot \/ persist
    PROVE  VoiceInv'
<1>0. /\ {loop.stop, loop.snooze, stop_req, snooze_req} \subseteq BOOLEAN
      /\ loop = [at |-> loop.at, fired |-> loop.fired, stop |-> loop.stop,
                 snooze |-> loop.snooze, snap |-> loop.snap]
      /\ capped /\ loop.at \in {"stepActs", "persist", "write"} =>
             ring.phase # "chime"
      /\ ~ringing => ring.phase = "idle"
  BY DEF VoiceInv, SoundInv
<1>1. acts = {}
  BY DEF Performed, NotRinging, ReadStop, ClearStopReadSnooze, Clean,
         Snapshot, persist, At, VoiceInv, SoundInv
<1>2. /\ UNCHANGED <<rang, ringing, ring, capped, acts, chime, hold, spoken,
                     left, chimed>>
      /\ {stop_req, snooze_req}' \subseteq BOOLEAN
  BY <1>0 DEF Performed, NotRinging, ReadStop, ClearStopReadSnooze, Clean,
         Snapshot, persist, cycle, requests, sound
<1>3. /\ loop' = [at |-> loop'.at, fired |-> loop'.fired, stop |-> loop'.stop,
                  snooze |-> loop'.snooze, snap |-> loop'.snap]
      /\ {loop.stop, loop.snooze}' \subseteq BOOLEAN
      /\ capped /\ loop'.at \in {"stepActs", "persist", "write"} =>
             ring.phase # "chime"
  <2>1. CASE Performed
    <3>1. PICK pc \in {"stop", "persist"} :
              /\ loop' = [loop EXCEPT !.at = pc]
              /\ pc = "persist" => loop.at = "stepActs"
      BY <2>1 DEF Performed, Goes, At
    <3>2. loop' = [at |-> pc, fired |-> loop.fired, stop |-> loop.stop,
                   snooze |-> loop.snooze, snap |-> loop.snap]
      BY <3>1, <1>0
    <3>3. capped /\ pc \in {"stepActs", "persist", "write"} =>
              ring.phase # "chime"
      BY <3>1, <1>0
    <3> QED
      BY <3>2, <3>3, <1>0
  <2>2. CASE NotRinging
    <3>1. loop' = [loop EXCEPT !.at = "persist"] /\ ring.phase # "chime"
      BY <2>2, <1>0 DEF NotRinging, Goes
    <3>2. loop' = [at |-> "persist", fired |-> loop.fired,
                   stop |-> loop.stop, snooze |-> loop.snooze,
                   snap |-> loop.snap]
      BY <3>1, <1>0
    <3> QED
      BY <3>1, <3>2, <1>0
  <2>3. CASE ReadStop
    <3>1. loop' = [loop EXCEPT !.at = "clearStop", !.stop = stop_req]
      BY <2>3 DEF ReadStop
    <3>2. loop' = [at |-> "clearStop", fired |-> loop.fired,
                   stop |-> stop_req, snooze |-> loop.snooze,
                   snap |-> loop.snap]
      BY <3>1, <1>0
    <3> QED
      BY <3>2, <1>0
  <2>4. CASE ClearStopReadSnooze
    <3>1. loop' = [loop EXCEPT !.at = "step", !.snooze = snooze_req]
      BY <2>4 DEF ClearStopReadSnooze
    <3>2. loop' = [at |-> "step", fired |-> loop.fired,
                   stop |-> loop.stop, snooze |-> snooze_req,
                   snap |-> loop.snap]
      BY <3>1, <1>0
    <3> QED
      BY <3>2, <1>0
  <2>5. CASE Clean
    <3>1. loop' = [loop EXCEPT !.at = "idle"]
      BY <2>5 DEF Clean, Goes
    <3>2. loop' = [at |-> "idle", fired |-> loop.fired,
                   stop |-> loop.stop, snooze |-> loop.snooze,
                   snap |-> loop.snap]
      BY <3>1, <1>0
    <3> QED
      BY <3>2, <1>0
  <2>6. CASE Snapshot
    <3>1. loop' = [loop EXCEPT !.at = "write", !.snap = Blob(table)]
          /\ loop.at = "persist"
      BY <2>6 DEF Snapshot, At
    <3>2. loop' = [at |-> "write", fired |-> loop.fired,
                   stop |-> loop.stop, snooze |-> loop.snooze,
                   snap |-> Blob(table)]
      BY <3>1, <1>0
    <3>3. capped => ring.phase # "chime"
      BY <3>1, <1>0
    <3> QED
      BY <3>2, <3>3, <1>0
  <2>7. CASE persist
    <3>1. loop' = [loop EXCEPT !.at = "idle", !.snap = << >>]
      BY <2>7 DEF persist
    <3>2. loop' = [at |-> "idle", fired |-> loop.fired,
                   stop |-> loop.stop, snooze |-> loop.snooze,
                   snap |-> << >>]
      BY <3>1, <1>0
    <3> QED
      BY <3>2, <1>0
  <2> QED
    BY <2>1, <2>2, <2>3, <2>4, <2>5, <2>6, <2>7
<1> QED
  BY <1>1, <1>2, <1>3, VoiceGoes

(* Nor do the other tasks, but that a press silences the tone; the cap     *)
(* passes between the loop's passes; and a boot begins in silence.         *)
LEMMA VoiceOthers ==
    ASSUME VoiceInv, Tools \/ Tick \/ ClockArrives \/ ZoneChanges
                         \/ CapPasses \/ Reboot
    PROVE  VoiceInv'
<1>1. CASE \/ \E id \in Ids, length \in Lengths : set_timer(id, length)
           \/ \E id \in Ids, kind \in {"once", "weekly"} : set_alarm(id, kind)
           \/ \E ids \in SUBSET Ids : cancel(ids)
  <2>1. UNCHANGED voicevars
    BY <1>1 DEF set_timer, set_alarm, Set, cancel, voicevars, cycle,
                requests, sound
  <2> QED
    BY <2>1, VoiceSame
<1>2. CASE Press("stop") \/ Press("snooze")
  <2>1. /\ chime' = FALSE
        /\ UNCHANGED <<loop, rang, ringing, ring, capped, acts, stop_req,
                       snooze_req, hold, spoken, left, chimed>>
    BY <1>2 DEF Press, cycle
  <2>2. {ringing, chime, hold, capped, stop_req, snooze_req}'
            \subseteq BOOLEAN
    BY <2>1 DEF VoiceInv, SoundInv
  <2>3. SoundInv'
    BY <2>1, <2>2 DEF VoiceInv, SoundInv, RingOK
  <2>4. SaidInv'
    BY <2>1 DEF VoiceInv, SaidInv
  <2> QED
    BY <2>3, <2>4 DEF VoiceInv
<1>3. CASE Requests
  <2>1. /\ stop_req'   = (stop_req \/ press = "stop")
        /\ snooze_req' = (snooze_req \/ press = "snooze")
        /\ UNCHANGED <<loop, rang, ringing, ring, capped, acts, chime, hold,
                       spoken, left, chimed>>
    BY <1>3 DEF Requests, cycle, sound
  <2>2. {ringing, chime, hold, capped, stop_req, snooze_req}'
            \subseteq BOOLEAN
    BY <2>1 DEF VoiceInv, SoundInv
  <2>3. SoundInv'
    BY <2>1, <2>2 DEF VoiceInv, SoundInv, RingOK
  <2>4. SaidInv'
    BY <2>1 DEF VoiceInv, SaidInv
  <2> QED
    BY <2>3, <2>4 DEF VoiceInv
<1>4. CASE Tick \/ ClockArrives \/ ZoneChanges
  <2>1. UNCHANGED voicevars
    BY <1>4 DEF Tick, ClockArrives, ZoneChanges, voicevars, cycle, requests,
                sound
  <2> QED
    BY <2>1, VoiceSame
<1>5. CASE CapPasses
  <2>1. /\ capped' = TRUE /\ loop.at = "idle"
        /\ UNCHANGED <<loop, rang, ringing, ring, acts, stop_req, snooze_req,
                       chime, hold, spoken, left, chimed>>
    BY <1>5 DEF CapPasses, Between, At, requests, sound
  <2>2. {ringing, chime, hold, capped, stop_req, snooze_req}'
            \subseteq BOOLEAN
    BY <2>1 DEF VoiceInv, SoundInv
  <2>3. SoundInv'
    BY <2>1, <2>2 DEF VoiceInv, SoundInv, RingOK
  <2>4. SaidInv'
    BY <2>1 DEF VoiceInv, SaidInv
  <2> QED
    BY <2>3, <2>4 DEF VoiceInv
<1>6. CASE Reboot
  <2>1. /\ loop' = AtRest /\ ring' = Idle /\ acts' = {} /\ spoken' = 0
        /\ rang' = None /\ ringing' = FALSE /\ capped' = FALSE
        /\ stop_req' = FALSE /\ snooze_req' = FALSE
        /\ chime' = FALSE /\ hold' = FALSE
    BY <1>6 DEF Reboot
  <2>2. /\ loop'.at = "idle" /\ {loop.stop, loop.snooze}' \subseteq BOOLEAN
        /\ loop' = [at |-> loop'.at, fired |-> loop'.fired,
                    stop |-> loop'.stop, snooze |-> loop'.snooze,
                    snap |-> loop'.snap]
    BY <2>1 DEF AtRest
  <2>3. {ringing, chime, hold, capped, stop_req, snooze_req}'
            \subseteq BOOLEAN
    BY <2>1
  <2>4. RingOK(ring)' /\ ring'.phase = "idle" /\ ~ring'.announced
        /\ ~ring'.stopping
    BY <2>1 DEF Idle, RingOK, Rings, Phases
  <2>5. SoundInv'
    BY <2>1, <2>2, <2>3, <2>4 DEF SoundInv
  <2>6. SaidInv'
    BY <2>1, <2>4 DEF SaidInv
  <2> QED
    BY <2>5, <2>6 DEF VoiceInv
<1> QED
  BY <1>1, <1>2, <1>3, <1>4, <1>5, <1>6 DEF Tools

(* At first nothing rings and nothing sounds.                              *)
LEMMA VoiceInitial == Init => VoiceInv
<1> SUFFICES ASSUME Init PROVE VoiceInv
  OBVIOUS
<1>1. /\ loop = AtRest /\ ring = Idle /\ acts = {} /\ spoken = 0
      /\ rang = None /\ ringing = FALSE /\ capped = FALSE
      /\ stop_req = FALSE /\ snooze_req = FALSE
      /\ chime = FALSE /\ hold = FALSE
  BY DEF Init
<1>2. /\ loop.at = "idle" /\ {loop.stop, loop.snooze} \subseteq BOOLEAN
      /\ loop = [at |-> loop.at, fired |-> loop.fired, stop |-> loop.stop,
                 snooze |-> loop.snooze, snap |-> loop.snap]
  BY <1>1 DEF AtRest
<1>3. {ringing, chime, hold, capped, stop_req, snooze_req} \subseteq BOOLEAN
  BY <1>1
<1>4. RingOK(ring) /\ ring.phase = "idle" /\ ~ring.announced
      /\ ~ring.stopping
  BY <1>1 DEF Idle, RingOK, Rings, Phases
<1>5. SoundInv
  BY <1>1, <1>2, <1>3, <1>4 DEF SoundInv
<1>6. SaidInv
  BY <1>1, <1>4 DEF SaidInv
<1> QED
  BY <1>5, <1>6 DEF VoiceInv

(* Every step keeps what the ring, the sound and the loop say of another.  *)
LEMMA VoiceNext == VoiceInv /\ [Next]_vars => VoiceInv'
<1> SUFFICES ASSUME VoiceInv, [Next]_vars PROVE VoiceInv'
  OBVIOUS
<1>1. CASE Loop
  BY <1>1, VoiceTick, VoiceBegins, VoicePerform, VoiceStep, VoiceLoop DEF Loop
<1>2. CASE Tools \/ Tick \/ ClockArrives \/ ZoneChanges \/ CapPasses
               \/ Reboot
  BY <1>2, VoiceOthers
<1>3. CASE UNCHANGED vars
  <2>1. UNCHANGED voicevars
    BY <1>3 DEF vars, voicevars, cycle, requests, sound
  <2> QED
    BY <2>1, VoiceSame
<1> QED
  BY <1>1, <1>2, <1>3 DEF Next

(* Every behaviour has both throughout.                                    *)
LEMMA VoiceAlways == Spec => []VoiceInv
BY VoiceInitial, VoiceNext, PTL DEF Spec

(* The tone never sounds with the microphone's uplink open.                *)
THEOREM ToneIsAlwaysHeld == Spec => []ToneIsHeld
<1>1. VoiceInv => ToneIsHeld
  BY DEF VoiceInv, SoundInv, ToneIsHeld
<1> QED
  BY <1>1, VoiceAlways, PTL

(* A ring that is over was announced, unless it was snoozed, or was taken  *)
(* over in the chime it began with.                                        *)
THEOREM EndedAlwaysMeansSaid == Spec => []EndedMeansSaid
<1>1. VoiceInv => EndedMeansSaid
  <2> SUFFICES ASSUME VoiceInv PROVE EndedMeansSaid
    OBVIOUS
  <2>1. /\ ~ringing => ring.phase = "idle" /\ acts = {}
        /\ At("ring") => acts = {}
        /\ ringing /\ ring.phase = "idle" => "ended" \in acts
        /\ ring.phase \in Phases /\ (ring.phase = "speak" => ring.announced)
    BY DEF VoiceInv, SoundInv, At, RingOK, Rings
  <2>2. /\ spoken \in 0 .. 2
        /\ ring.announced <=> spoken > 0 \/ "announce" \in acts
        /\ ring.phase = "idle" /\ rang # None => ring.announced \/ left
        /\ ~chimed /\ ring.phase # "idle" => ring.announced
        /\ ring.stopping => IF "announce" \in acts THEN spoken = 0
                                                   ELSE spoken < 2
    BY DEF VoiceInv, SaidInv
  <2>3. rang # None /\ ~ringing => spoken > 0 \/ left
    BY <2>1, <2>2
  <2>4. At("ring") /\ ringing =>
            \/ spoken > 0
            \/ chimed /\ ring.phase \in {"chime", "drain", "silent"}
    BY <2>1, <2>2 DEF Phases
  <2> QED
    BY <2>2, <2>3, <2>4 DEF EndedMeansSaid
<1> QED
  BY <1>1, VoiceAlways, PTL

(* The pass that finds the cap has passed leaves no tone behind it: only   *)
(* the writing, or the decision not to write, ends a pass.                 *)
THEOREM AlwaysFallsSilent == Spec => FallsSilent
<1> DEFINE A == loop.at # "idle" /\ At("idle")' => ~(capped /\ chime')
<1>1. VoiceInv /\ VoiceInv' /\ [Next]_vars => A
  <2> SUFFICES ASSUME VoiceInv, [Next]_vars, loop.at # "idle",
                      loop'.at = "idle", capped, chime'
               PROVE  FALSE
    BY DEF At
  <2>0. /\ loop = [at |-> loop.at, fired |-> loop.fired, stop |-> loop.stop,
                   snooze |-> loop.snooze, snap |-> loop.snap]
        /\ loop.at \in {"persist", "write"} => ring.phase # "chime"
        /\ acts # {} => loop.at \in {"ringActs", "stepActs"}
        /\ chime /\ ring.phase # "chime" => "chime_off" \in acts
    BY DEF VoiceInv, SoundInv
  <2>1. CASE Clean \/ persist
    <3>1. loop.at \in {"persist", "write"} /\ chime' = chime
      BY <2>1 DEF Clean, persist, At, sound
    <3> QED
      BY <3>1, <2>0
  <2>2. CASE Reboot
    BY <2>2 DEF Reboot
  <2>3. CASE Tools \/ Tick \/ ClockArrives \/ ZoneChanges \/ CapPasses
                 \/ UNCHANGED vars
    <3>1. loop' = loop
      BY <2>3 DEF Tools, set_timer, set_alarm, Set, cancel, Press, Requests,
                  Tick, ClockArrives, ZoneChanges, CapPasses, vars
    <3> QED
      BY <3>1
  <2>4. CASE alarms_tick
    <3>1. \/ loop' = [loop EXCEPT !.at = "stop"]
          \/ \E f : loop' = [loop EXCEPT !.at = "ring", !.fired = f]
      BY <2>4 DEF alarms_tick, Goes
    <3>2. loop'.at # "idle"
      BY <3>1, <2>0
    <3> QED
      BY <3>2
  <2>5. CASE \E live \in BOOLEAN : RingBegins(live)
    <3>1. loop' = [loop EXCEPT !.at = "ringActs", !.fired = None]
      BY <2>5 DEF RingBegins
    <3>2. loop'.at # "idle"
      BY <3>1, <2>0
    <3> QED
      BY <3>2
  <2>6. CASE perform
    BY <2>6 DEF perform
  <2>7. CASE Performed \/ NotRinging
    <3>1. \/ loop' = [loop EXCEPT !.at = "stop"]
          \/ loop' = [loop EXCEPT !.at = "persist"]
      BY <2>7 DEF Performed, NotRinging, Goes
    <3>2. loop'.at # "idle"
      BY <3>1, <2>0
    <3> QED
      BY <3>2
  <2>8. CASE ReadStop \/ ClearStopReadSnooze
    <3>1. \/ loop' = [loop EXCEPT !.at = "clearStop", !.stop = stop_req]
          \/ loop' = [loop EXCEPT !.at = "step", !.snooze = snooze_req]
      BY <2>8 DEF ReadStop, ClearStopReadSnooze
    <3>2. loop'.at # "idle"
      BY <3>1, <2>0
    <3> QED
      BY <3>2
  <2>9. CASE \E t \in Times, playback \in BOOLEAN : ring_tick(t, playback)
    <3>1. loop' = [loop EXCEPT !.at = "stepActs", !.stop = FALSE,
                               !.snooze = FALSE]
      BY <2>9 DEF ring_tick
    <3>2. loop'.at # "idle"
      BY <3>1, <2>0
    <3> QED
      BY <3>2
  <2>a. CASE Snapshot
    <3>1. loop' = [loop EXCEPT !.at = "write", !.snap = Blob(table)]
      BY <2>a DEF Snapshot
    <3>2. loop'.at # "idle"
      BY <3>1, <2>0
    <3> QED
      BY <3>2
  <2> QED
    BY <2>1, <2>2, <2>3, <2>4, <2>5, <2>6, <2>7, <2>8, <2>9, <2>a
       DEF Next, Loop
<1>2. VoiceInv /\ [Next]_vars => [A]_vars
  BY <1>1, VoiceNext
<1> QED
  BY <1>2, VoiceAlways, PTL DEF Spec, FallsSilent


(* The uplink is held past a phase that lets it go only while perform()    *)
(* has still to let it go.                                                 *)
HeldInv ==
    hold /\ ring.phase \notin {"chime", "drain"} => "hold_off" \in acts

(* A phase is entered with what it asks for, or stayed in: each ring,      *)
(* step and action keeps to that, and no other task holds the uplink.      *)
LEMMA HeldNext ==
    ASSUME VoiceInv, HeldInv, [Next]_vars
    PROVE  HeldInv'
<1>0. /\ acts \subseteq Acts(ring.phase) /\ RingOK(ring)
      /\ ring.phase \in Phases /\ hold \in BOOLEAN
      /\ {loop.stop, loop.snooze} \subseteq BOOLEAN
      /\ acts # {} => loop.at \in {"ringActs", "stepActs"}
  BY DEF VoiceInv, SoundInv, RingOK, Rings
<1>1. CASE UNCHANGED <<ring, acts, hold>>
  BY <1>1 DEF HeldInv
<1>2. ASSUME NEW live \in BOOLEAN, RingBegins(live)
      PROVE  HeldInv'
  <2> DEFINE p == IF live THEN "speak" ELSE "chime"
  <2>1. Idle \in Rings /\ p \in Phases
    BY DEF Idle, Rings, Phases
  <2>2. ring' = enter(Idle, p).ring /\ acts' = enter(Idle, p).acts
    BY <1>2 DEF RingBegins, alarm_ring_begin
  <2>3. acts' = Acts(p) /\ ring'.phase = p
    BY <2>1, <2>2, Entered
  <2> QED
    BY <2>3 DEF HeldInv, Acts
<1>3. CASE perform
  <2>1. PICK n \in DOMAIN Order :
            /\ acts # {} /\ Nth(n)
            /\ acts' = acts \ {Order[n]}
            /\ hold'  = ((hold \/ Order[n] = "hold_on")
                            /\ Order[n] # "hold_off")
            /\ ring' = ring
    BY <1>3 DEF perform
  <2>2. Order[n] \in Acts(ring.phase)
    BY <1>0, <2>1 DEF Nth
  <2>3. Order[n] = "hold_on" => ring.phase = "chime"
    BY <1>0, <2>2 DEF Acts, Phases
  <2> QED
    BY <2>1, <2>3 DEF HeldInv
<1>4. ASSUME NEW t \in Times, NEW playback \in BOOLEAN,
             ring_tick(t, playback)
      PROVE  HeldInv'
  <2> DEFINE snoozed == loop.snooze /\ CanSnooze
             next == alarm_ring_step(ring, t, playback, loop.stop, snoozed)
  <2>1. /\ At("step") /\ ring' = next.ring /\ acts' = next.acts
        /\ hold' = hold
    BY <1>4 DEF ring_tick
  <2>2. acts = {} /\ snoozed \in BOOLEAN
    BY <1>0, <2>1 DEF At
  <2> HIDE DEF snoozed
  <2>3. /\ ring.phase = "idle" => next = Stays(ring)
        /\ ring.phase # "idle" /\ snoozed => next = enter(ring, "idle")
        /\ ring.phase # "idle" /\ ~snoozed => Follows(ring, next, t.capped)
    BY <1>0, <2>2, RingSteps
  <2> HIDE DEF next
  <2>4. \/ acts' = {} /\ ring'.phase = ring.phase
        \/ acts' = Acts(ring'.phase) /\ ring'.phase \in Phases
    <3>1. CASE ring.phase = "idle"
      BY <2>1, <2>3, <3>1 DEF Stays
    <3>2. CASE ring.phase # "idle" /\ snoozed
      <4>1. ring \in Rings /\ "idle" \in Phases
        BY <1>0 DEF RingOK, Phases
      <4> QED
        BY <2>1, <2>3, <3>2, <4>1, Entered
    <3>3. CASE ring.phase # "idle" /\ ~snoozed
      BY <2>1, <2>3, <3>3 DEF Follows, RingOK, Rings
    <3> QED
      BY <2>2, <3>1, <3>2, <3>3
  <2>5. CASE acts' = {} /\ ring'.phase = ring.phase
    BY <2>1, <2>2, <2>5 DEF HeldInv
  <2>6. CASE acts' = Acts(ring'.phase) /\ ring'.phase \in Phases
    BY <2>6 DEF HeldInv, Acts, Phases
  <2> QED
    BY <2>4, <2>5, <2>6
<1>5. CASE Reboot
  BY <1>5 DEF Reboot, HeldInv
<1>6. CASE Loop
  BY <1>1, <1>2, <1>3, <1>4, <1>6
     DEF Loop, alarms_tick, Performed, NotRinging, ReadStop,
         ClearStopReadSnooze, Clean, Snapshot, persist, cycle, sound
<1>7. CASE Tools \/ Tick \/ ClockArrives \/ ZoneChanges \/ CapPasses
  BY <1>1, <1>7
     DEF Tools, set_timer, set_alarm, Set, cancel, Press, Requests, Tick,
         ClockArrives, ZoneChanges, CapPasses, cycle, sound
<1> QED
  BY <1>1, <1>5, <1>6, <1>7 DEF Next, vars, cycle, sound

(* Between the loop's passes nothing sounds and nothing is held but what   *)
(* the ring's phase asks for: a ring that was stopped, snoozed, taken over *)
(* or cut off by its cap leaves no tone and no closed uplink behind        *)
(* (alarm_sched.c's enter(), alarms.c's perform()).                        *)
THEOREM SoundAlwaysFollowsRing == Spec => []SoundFollowsRing
<1>1. Init => HeldInv
  BY DEF Init, HeldInv
<1>2. VoiceInv /\ HeldInv /\ [Next]_vars => HeldInv'
  BY HeldNext
<1>3. VoiceInv /\ HeldInv => SoundFollowsRing
  <2> SUFFICES ASSUME VoiceInv, HeldInv,
                      loop.at \in {"idle", "persist", "write"}
               PROVE  /\ chime => ringing /\ ring.phase = "chime"
                      /\ hold  => ringing /\ ring.phase \in {"chime", "drain"}
                      /\ ring.phase = "chime" => hold
                      /\ ringing <=> ring.phase # "idle"
    BY DEF SoundFollowsRing
  <2>1. acts = {}
    BY DEF VoiceInv, SoundInv
  <2> QED
    BY <2>1 DEF VoiceInv, SoundInv, HeldInv
<1> QED
  BY <1>1, <1>2, <1>3, VoiceAlways, PTL DEF Spec

-----------------------------------------------------------------------------
(***************************************************************************)
(* The table and its copy.  What the operators on tables keep.             *)
(***************************************************************************)
(* An entry whose moment is set, or whose deadline is struck out.          *)
LEMMA EntriesChange ==
    ASSUME NEW e, IsEntry(e), NEW x
    PROVE  /\ [e EXCEPT !.fire = x] = Entry(e.kind, x, e.mono)
           /\ [e EXCEPT !.mono = x] = Entry(e.kind, e.fire, x)
  BY DEF IsEntry, Entry

(* An entry's fields are those it is made of.                              *)
LEMMA EntriesAre ==
    ASSUME NEW k, NEW f, NEW m
    PROVE  /\ IsEntry(Entry(k, f, m)) /\ Entry(k, f, m).kind = k
           /\ Entry(k, f, m).fire = f /\ Entry(k, f, m).mono = m
  BY DEF IsEntry, Entry

(* Either way it is an entry.                                              *)
LEMMA Moved ==
    ASSUME NEW e, IsEntry(e), NEW x
    PROVE  IsEntry([e EXCEPT !.fire = x])
<1>1. [e EXCEPT !.fire = x] = Entry(e.kind, x, e.mono)
  BY EntriesChange
<1> QED
  BY <1>1, EntriesAre

(* Taking entries out.                                                     *)
LEMMA Withdrawn ==
    ASSUME NEW t, Entries(t), NEW S
    PROVE  Entries(Without(t, S))
  BY DEF Entries, Without, Restrict

(* And putting one in.                                                     *)
LEMMA Adding ==
    ASSUME Entries(table), NEW id, NEW k, NEW f, NEW m
    PROVE  Entries(Added(id, Entry(k, f, m)))
<1>1. \A i \in DOMAIN table \union {id} :
          IsEntry(IF i = id THEN Entry(k, f, m) ELSE table[i])
  BY EntriesAre DEF Entries
<1> QED
  BY <1>1 DEF Added, Entries

(* The blob of a table: what is left is left once and for all.             *)
LEMMA Blobs ==
    ASSUME NEW t, Entries(t)
    PROVE  /\ Entries(Blob(t)) /\ Blob(Blob(t)) = Blob(t)
           /\ DOMAIN Blob(t) = DOMAIN t
<1> DEFINE B(e) == IF e.kind = "weekly" THEN Entry("weekly", 0, 0)
                   ELSE [e EXCEPT !.mono = 0]
<1>1. ASSUME NEW e, IsEntry(e)
      PROVE  IsEntry(B(e)) /\ B(B(e)) = B(e)
  <2>1. CASE e.kind = "weekly"
    BY <2>1, EntriesAre
  <2>2. CASE e.kind # "weekly"
    <3>1. B(e) = Entry(e.kind, e.fire, 0)
      BY <1>1, <2>2, EntriesChange
    <3>2. IsEntry(B(e)) /\ B(e).kind = e.kind /\ B(e).fire = e.fire
      BY <3>1, EntriesAre
    <3>3. [B(e) EXCEPT !.mono = 0] = Entry(B(e).kind, B(e).fire, 0)
      BY <3>2, EntriesChange
    <3> QED
      BY <2>2, <3>1, <3>2, <3>3
  <2> QED
    BY <2>1, <2>2
<1>2. Blob(t) = [i \in DOMAIN t |-> B(t[i])]
  BY DEF Blob
<1> DEFINE u == Blob(t)
<1>3. Blob(u) = [i \in DOMAIN u |-> B(u[i])]
  BY DEF Blob
<1> HIDE DEF B, u
<1>4. DOMAIN u = DOMAIN t /\ \A i \in DOMAIN t : u[i] = B(t[i])
  BY <1>2 DEF u
<1>5. \A i \in DOMAIN t : IsEntry(u[i]) /\ B(u[i]) = u[i]
  BY <1>1, <1>4 DEF Entries
<1>6. u = [i \in DOMAIN t |-> u[i]]
  BY <1>2, <1>4 DEF u
<1>7. Entries(u)
  BY <1>4, <1>5, <1>6 DEF Entries
<1>8. Blob(u) = u
  BY <1>3, <1>4, <1>5, <1>6
<1> QED
  BY <1>4, <1>7, <1>8 DEF u

(* What a boot loads is a table, its own blob, and all it would load again.*)
LEMMA Loaded ==
    ASSUME NEW b, Entries(b), Blob(b) = b
    PROVE  LET t == alarms_init(b)
           IN  Entries(t) /\ alarms_init(Blob(t)) = alarms_init(b)
<1> DEFINE S == {i \in DOMAIN b : Sane(b[i])}
           t == [i \in S |-> b[i]]
           B(e) == IF e.kind = "weekly" THEN Entry("weekly", 0, 0)
                   ELSE [e EXCEPT !.mono = 0]
<1>1. alarms_init(b) = t
  BY DEF alarms_init, Restrict
<1>2. Entries(t)
  BY DEF Entries
<1>3. \A i \in DOMAIN b : b[i] = B(b[i])
  BY DEF Blob
<1>4. Blob(t) = [i \in DOMAIN t |-> B(t[i])]
  BY DEF Blob
<1> HIDE DEF B
<1>5. Blob(t) = t
  BY <1>3, <1>4
<1>6. alarms_init(t) = [i \in {j \in DOMAIN t : Sane(t[j])} |-> t[i]]
  BY DEF alarms_init, Restrict
<1>7. {j \in DOMAIN t : Sane(t[j])} = S
  OBVIOUS
<1>8. alarms_init(t) = t
  BY <1>6, <1>7
<1> QED
  BY <1>1, <1>2, <1>5, <1>8

(* The table as the tick finds it, and as it leaves it.                    *)
LEMMA CurrentIs ==
    ASSUME Entries(table)
    PROVE  /\ Entries(Current)
           /\ \A id \in DOMAIN Current : Entries(AfterFiring(id))
<1>1. ASSUME NEW t, Entries(t) PROVE Entries(Converted(t))
  <2>1. \A i \in DOMAIN t : IsEntry(IF t[i].mono > 0
                        THEN Entry("timer", t[i].mono, 0) ELSE t[i])
    BY <1>1, EntriesAre DEF Entries
  <2> QED
    BY <2>1 DEF Converted, Entries
<1>2. Entries(reconcile_locked(table))
  <2> DEFINE u == alarm_next_local(now, zone.shift)
             M(e) == IF e.kind = "weekly" \/ (e.kind = "once" /\ reconciled)
                     THEN [e EXCEPT !.fire = u] ELSE e
             moved == [i \in DOMAIN table |-> M(table[i])]
  <2>1. \A i \in DOMAIN table : IsEntry(M(table[i]))
    <3> HIDE DEF u
    <3> QED
      BY Moved DEF Entries
  <2>2. Entries(moved)
    BY <2>1 DEF Entries
  <2>3. reconcile_locked(table) =
            Without(moved, {i \in DOMAIN moved :
                               alarm_is_stale(moved[i], now)})
    BY DEF reconcile_locked
  <2> HIDE DEF moved
  <2> QED
    BY <2>2, <2>3, Withdrawn
<1>3. Entries(Current)
  BY <1>1, <1>2 DEF Current
<1>4. ASSUME NEW id \in DOMAIN Current PROVE Entries(AfterFiring(id))
  <2> DEFINE c == Current
  <2>1. Entries(Without(c, {id}))
    BY <1>3, Withdrawn
  <2>2. Entries(Rolled(c, id))
    <3> DEFINE u == alarm_next_local(now, zone.shift)
    <3>1. Rolled(c, id) = [c EXCEPT ![id] = [c[id] EXCEPT !.fire = u]]
      BY DEF Rolled
    <3> HIDE DEF c, u
    <3>2. Entries(c)
      BY <1>3 DEF c
    <3>3. IsEntry([c[id] EXCEPT !.fire = u])
      BY <3>2, Moved, <1>4 DEF Entries, c
    <3> QED
      BY <3>1, <3>2, <3>3 DEF Entries
  <2> QED
    BY <2>1, <2>2 DEF AfterFiring
<1> QED
  BY <1>3, <1>4


(* At a pass's end the blob in flash is the table's, or the table is       *)
(* marked.                                                                 *)
LEMMA StoreInitial == Init => StoreInv
<1> SUFFICES ASSUME Init PROVE StoreInv
  OBVIOUS
<1>1. table = << >> /\ nvs = << >> /\ loop = AtRest
  BY DEF Init
<1> DEFINE E == << >>
<1>2. E = [i \in DOMAIN E |-> E[i]] /\ DOMAIN E = {}
  OBVIOUS
<1> HIDE DEF E
<1>3. Entries(E)
  BY <1>2 DEF Entries
<1>4. Blob(E) = E
  BY <1>2 DEF Blob
<1>5. table = E /\ nvs = E
  BY <1>1 DEF E
<1>6. loop.at # "write"
  BY <1>1 DEF AtRest
<1> QED
  BY <1>3, <1>4, <1>5, <1>6 DEF StoreInv, SavedOrMarked

(* A change of the table that marks it, or that flash cannot show.         *)
LEMMA Marking ==
    ASSUME StoreInv, Entries(table'), UNCHANGED <<nvs, failed>>,
           loop'.at = "write" => loop.at = "write" /\ loop'.snap = loop.snap,
           loop.at = "write" => loop'.at = "write",
           \/ dirty'
           \/ Blob(table') = Blob(table) /\ (dirty => dirty')
    PROVE  StoreInv'
<1>1. SavedOrMarked'
  BY DEF StoreInv, SavedOrMarked, At
<1>2. loop'.at = "write" =>
          /\ dirty' \/ loop'.snap = Blob(table')
          /\ Entries(loop'.snap) /\ Blob(loop'.snap) = loop'.snap
  BY DEF StoreInv
<1> QED
  BY <1>1, <1>2 DEF StoreInv

(* The tools mark what they change.                                        *)
LEMMA StoreTools ==
    ASSUME StoreInv, Tools \/ Tick \/ ClockArrives \/ ZoneChanges \/ CapPasses
    PROVE  StoreInv'
<1>0. Entries(table)
  BY DEF StoreInv
<1>1. ASSUME NEW id, NEW k, NEW f, NEW m, Set(id, Entry(k, f, m))
      PROVE  StoreInv'
  <2>1. Entries(table') /\ (dirty' \/ (table' = table /\ dirty' = dirty))
    BY <1>0, <1>1, Adding DEF Set
  <2>2. UNCHANGED <<nvs, failed, loop>>
    BY <1>1 DEF Set
  <2> QED
    BY <2>1, <2>2, Marking
<1>2. CASE \E id \in Ids, length \in Lengths : set_timer(id, length)
  <2>1. PICK id, length : set_timer(id, length)
    BY <1>2
  <2>2. CASE valid
    BY <1>1, <2>1, <2>2 DEF set_timer
  <2>3. CASE ~valid
    BY <1>1, <2>1, <2>3 DEF set_timer
  <2> QED
    BY <2>2, <2>3
<1>3. CASE \E id \in Ids, kind \in {"once", "weekly"} : set_alarm(id, kind)
  <2>1. PICK id, kind : set_alarm(id, kind)
    BY <1>3
  <2> QED
    BY <1>1, <2>1 DEF set_alarm
<1>4. CASE \E ids \in SUBSET Ids : cancel(ids)
  <2>1. /\ Entries(table') /\ dirty' = TRUE
        /\ UNCHANGED <<nvs, failed, loop>>
    BY <1>0, <1>4, Withdrawn DEF cancel
  <2> QED
    BY <2>1, Marking
<1>5. CASE \/ Press("stop") \/ Press("snooze") \/ Requests
           \/ Tick \/ ClockArrives \/ ZoneChanges \/ CapPasses
  <2>1. UNCHANGED <<table, dirty, nvs, failed, loop>>
    BY <1>5 DEF Press, Requests, Tick, ClockArrives, ZoneChanges, CapPasses,
                store
  <2> QED
    BY <1>0, <2>1, Marking
<1> QED
  BY <1>2, <1>3, <1>4, <1>5 DEF Tools

(* The tick marks what flash would show of what it rang, rolled on or      *)
(* dropped; the rest of the loop leaves the table, but to snooze.          *)
LEMMA StoreTick ==
    ASSUME VoiceInv, StoreInv, alarms_tick
    PROVE  StoreInv'
<1>0. /\ loop = [at |-> loop.at, fired |-> loop.fired, stop |-> loop.stop,
                 snooze |-> loop.snooze, snap |-> loop.snap]
      /\ loop.at = "idle"
  BY DEF VoiceInv, SoundInv, alarms_tick, At
<1>1. Entries(Current) /\ \A id \in DOMAIN Current : Entries(AfterFiring(id))
  BY CurrentIs DEF StoreInv
<1>2. /\ Entries(table') /\ Dirties(table')
      /\ \/ loop' = [loop EXCEPT !.at = "stop"]
         \/ \E f : loop' = [loop EXCEPT !.at = "ring", !.fired = f]
      /\ UNCHANGED <<nvs, failed>>
  BY <1>1 DEF alarms_tick, Goes
<1>3. loop'.at # "write"
  BY <1>0, <1>2
<1>4. dirty' \/ (Blob(table') = Blob(table) /\ (dirty => dirty'))
  BY <1>2 DEF Dirties
<1> QED
  BY <1>0, <1>2, <1>3, <1>4, Marking

(* The steps of the loop that touch neither the table nor its copy.        *)
LEMMA StoreLoop ==
    ASSUME VoiceInv, StoreInv,
           \/ \E live \in BOOLEAN : RingBegins(live)
           \/ perform \/ Performed \/ NotRinging \/ ReadStop
           \/ ClearStopReadSnooze \/ Clean
           \/ \E t \in Times, playback \in BOOLEAN : ring_tick(t, playback)
    PROVE  StoreInv'
<1>0. /\ loop = [at |-> loop.at, fired |-> loop.fired, stop |-> loop.stop,
                 snooze |-> loop.snooze, snap |-> loop.snap]
      /\ Entries(table)
  BY DEF VoiceInv, SoundInv, StoreInv
<1>1. loop.at # "write"
  BY DEF RingBegins, perform, Performed, NotRinging, ReadStop,
         ClearStopReadSnooze, Clean, ring_tick, At
<1>2. CASE \E live \in BOOLEAN : RingBegins(live)
  <2>1. /\ loop' = [loop EXCEPT !.at = "ringActs", !.fired = None]
        /\ UNCHANGED <<table, dirty, nvs, failed>>
    BY <1>2 DEF RingBegins, store
  <2>2. loop'.at # "write"
    BY <1>0, <2>1
  <2> QED
    BY <1>0, <1>1, <2>1, <2>2, Marking
<1>3. CASE perform
  <2>1. UNCHANGED <<table, dirty, nvs, failed, loop>>
    BY <1>3 DEF perform, store
  <2> QED
    BY <1>0, <1>1, <2>1, Marking
<1>4. CASE Performed \/ NotRinging \/ Clean
  <2>1. /\ \/ loop' = [loop EXCEPT !.at = "stop"]
           \/ loop' = [loop EXCEPT !.at = "persist"]
           \/ loop' = [loop EXCEPT !.at = "idle"]
        /\ UNCHANGED <<table, dirty, nvs, failed>>
    BY <1>4 DEF Performed, NotRinging, Clean, Goes, store
  <2>2. loop'.at # "write"
    BY <1>0, <2>1
  <2> QED
    BY <1>0, <1>1, <2>1, <2>2, Marking
<1>5. CASE ReadStop \/ ClearStopReadSnooze
  <2>1. /\ \/ loop' = [loop EXCEPT !.at = "clearStop", !.stop = stop_req]
           \/ loop' = [loop EXCEPT !.at = "step", !.snooze = snooze_req]
        /\ UNCHANGED <<table, dirty, nvs, failed>>
    BY <1>5 DEF ReadStop, ClearStopReadSnooze, store
  <2>2. loop'.at # "write"
    BY <1>0, <2>1
  <2> QED
    BY <1>0, <1>1, <2>1, <2>2, Marking
<1>6. CASE \E t \in Times, playback \in BOOLEAN : ring_tick(t, playback)
  <2>1. /\ loop' = [loop EXCEPT !.at = "stepActs", !.stop = FALSE,
                                !.snooze = FALSE]
        /\ UNCHANGED <<nvs, failed>>
        /\ \/ UNCHANGED <<table, dirty>>
           \/ /\ dirty' = TRUE
              /\ \E id, x : table' = Added(id, Entry("once", x, 0))
    BY <1>6 DEF ring_tick
  <2>2. loop'.at # "write"
    BY <1>0, <2>1
  <2>3. Entries(table') /\ (dirty' \/ (table' = table /\ dirty' = dirty))
    BY <1>0, <2>1, Adding
  <2> QED
    BY <1>1, <2>1, <2>2, <2>3, Marking
<1> QED
  BY <1>2, <1>3, <1>4, <1>5, <1>6

(* persist(): the mark is lifted with the snapshot, and a change made      *)
(* while it is written marks the table again.                              *)
LEMMA StorePersist ==
    ASSUME VoiceInv, StoreInv, Snapshot \/ persist
    PROVE  StoreInv'
<1>0. /\ loop = [at |-> loop.at, fired |-> loop.fired, stop |-> loop.stop,
                 snooze |-> loop.snooze, snap |-> loop.snap]
      /\ Entries(table) /\ Entries(nvs) /\ Blob(nvs) = nvs
  BY DEF VoiceInv, SoundInv, StoreInv
<1>1. CASE Snapshot
  <2>1. /\ loop' = [loop EXCEPT !.at = "write", !.snap = Blob(table)]
        /\ UNCHANGED <<table, nvs, failed>>
    BY <1>1 DEF Snapshot
  <2>2. loop'.at = "write" /\ loop'.snap = Blob(table')
    BY <1>0, <2>1
  <2>3. Entries(Blob(table)) /\ Blob(Blob(table)) = Blob(table)
    BY <1>0, Blobs
  <2>4. SavedOrMarked'
    BY <2>2 DEF SavedOrMarked, At
  <2> QED
    BY <1>0, <2>1, <2>2, <2>3, <2>4 DEF StoreInv
<1>2. CASE persist
  <2>1. PICK ok \in BOOLEAN :
            failed' = ~ok /\ nvs' = IF ok THEN loop.snap ELSE nvs
    BY <1>2 DEF persist
  <2>2. /\ loop.at = "write"
        /\ loop' = [loop EXCEPT !.at = "idle", !.snap = << >>]
        /\ UNCHANGED <<table, dirty>>
    BY <1>2 DEF persist, At
  <2>3. loop'.at # "write"
    BY <1>0, <2>2
  <2>4. /\ dirty \/ loop.snap = Blob(table)
        /\ Entries(loop.snap) /\ Blob(loop.snap) = loop.snap
    BY <2>2 DEF StoreInv
  <2>5. Entries(nvs') /\ Blob(nvs') = nvs'
    BY <1>0, <2>1, <2>4
  <2>6. SavedOrMarked'
    BY <2>1, <2>2, <2>4 DEF SavedOrMarked
  <2> QED
    BY <1>0, <2>2, <2>3, <2>5, <2>6 DEF StoreInv
<1> QED
  BY <1>1, <1>2

(* A boot loads what it can use of the blob, and would load it again.      *)
LEMMA StoreReboot ==
    ASSUME StoreInv, Reboot
    PROVE  StoreInv'
<1>1. /\ table' = alarms_init(nvs) /\ loop' = AtRest /\ nvs' = nvs
      /\ Entries(nvs) /\ Blob(nvs) = nvs
  BY DEF Reboot, StoreInv
<1>2. Entries(table') /\ alarms_init(Blob(table')) = alarms_init(nvs')
  BY <1>1, Loaded
<1>3. loop'.at # "write"
  BY <1>1 DEF AtRest
<1> QED
  BY <1>1, <1>2, <1>3 DEF StoreInv, SavedOrMarked

(* So every step keeps the table and its copy in step.                     *)
LEMMA StoreNext == VoiceInv /\ StoreInv /\ [Next]_vars => StoreInv'
<1> SUFFICES ASSUME VoiceInv, StoreInv, [Next]_vars PROVE StoreInv'
  OBVIOUS
<1>1. CASE Loop
  BY <1>1, StoreTick, StoreLoop, StorePersist DEF Loop
<1>2. CASE Tools \/ Tick \/ ClockArrives \/ ZoneChanges \/ CapPasses
  BY <1>2, StoreTools
<1>3. CASE Reboot
  BY <1>3, StoreReboot
<1>4. CASE UNCHANGED vars
  <2>1. UNCHANGED <<table, dirty, nvs, failed, loop>> /\ Entries(table)
    BY <1>4 DEF vars, store, StoreInv
  <2> QED
    BY <2>1, Marking
<1> QED
  BY <1>1, <1>2, <1>3, <1>4 DEF Next

(* At rest a loss of power costs nothing that was set.                     *)
THEOREM AlwaysSavedOrMarked == Spec => []SavedOrMarked
<1>1. StoreInv => SavedOrMarked
  BY DEF StoreInv
<1> QED
  BY <1>1, StoreInitial, StoreNext, VoiceAlways, PTL DEF Spec

-----------------------------------------------------------------------------
(***************************************************************************)
(* Echo.  Of a sequence being shown, as many steps have begun as the last  *)
(* frame's moment says, and each was sounded; unless a frame came late.    *)
(***************************************************************************)
Begun(t) ==
    IF t < ECHO_LEAD_MS THEN 0 ELSE ((t - ECHO_LEAD_MS) \div 2) + 1

States == {"ready", "show", "input", "speak", "over"}

Rounds == [state : States, len : 0 .. ECHO_MAX, pos : Nat, spoke : BOOLEAN,
           since : Nat, heard : SUBSET Nat, late : BOOLEAN]

Shown(r, unseen) ==
    r.state = "show" /\ ~r.late =>
        /\ r.pos = Begun(r.since - unseen)
        /\ r.pos <= r.len /\ r.heard = 0 .. (r.pos - 1)
        /\ r.since - unseen < ECHO_LEAD_MS + 2 * r.len

Earned(r) == r.state = "input" /\ ~r.late => r.heard = 0 .. (r.len - 1)

TurnInv ==
    /\ round \in Rounds /\ Earned(round)
    /\ screen \in [open : BOOLEAN, covered : BOOLEAN, up : BOOLEAN,
                   left : BOOLEAN, unseen : 0 .. 2]
    /\ screen.open /\ screen.unseen <= 1 => Shown(round, screen.unseen)

(* A callout is in one place only: to be sent, sent, or on its way back as *)
(* its words and then the reply to them, or as a refusal.                  *)
Messages == [role : {"user", "assistant", "refused"}, nudge : Nat]

Nudges(t) == {t[i].nudge : i \in DOMAIN t}

Single(t) ==
    \A i, j \in DOMAIN t :
        i < j /\ t[i].nudge = t[j].nudge /\ t[i].nudge # NoNudge =>
            t[i].role = "user"

PlacesInv ==
    /\ texts \in Seq(Messages) /\ Single(texts)
    /\ happened \in [{"nudges", "others", "speech", "drops"} -> Nat]
    /\ slot \in 0 .. happened["nudges"]
    /\ ka.nudge \in 0 .. happened["nudges"]
    /\ ka.marked => ka.nudge # NoNudge
    /\ unanswered \subseteq 1 .. happened["nudges"]
    /\ Nudges(texts) \subseteq 0 .. happened["nudges"]
    /\ slot # NoNudge =>
           slot # ka.nudge /\ slot \notin unanswered \union Nudges(texts)
    /\ ka.nudge # NoNudge => ka.nudge \notin unanswered \union Nudges(texts)
    /\ unanswered \intersect Nudges(texts) = {}

(* And its tail is up, or was ended early, while it can still be kept.     *)
TailInv ==
    /\ flight \in [on : BOOLEAN, fresh : BOOLEAN]
    /\ ~ready => unanswered = {} /\ texts = << >>
    /\ ready /\ ~nudge_tail => Outstanding \ {NoNudge} \subseteq spoiled
    /\ CalloutsAreNotConversation

CalloutInv == PlacesInv /\ TailInv

(* A frame at most a step late finds the last step begun, or the next one  *)
(* at its first moment.                                                    *)
LEMMA StepsBegin ==
    ASSUME NEW s \in Nat, NEW u \in {0, 1}, NEW len \in Nat,
           s - u < ECHO_LEAD_MS + 2 * len
    PROVE  LET b == Begun(s - u)
               i == (s - ECHO_LEAD_MS) \div 2
           IN  /\ s < ECHO_LEAD_MS => b = 0 /\ Begun(s) = 0
               /\ s >= ECHO_LEAD_MS /\ i >= len => b = len
               /\ s >= ECHO_LEAD_MS /\ i < len =>
                      i \in Nat /\ Begun(s) = i + 1
                      /\ s < ECHO_LEAD_MS + 2 * len
               /\ s >= ECHO_LEAD_MS /\ i < len /\ b <= i =>
                      b = i /\ (s - ECHO_LEAD_MS) % 2 = 0
               /\ s >= ECHO_LEAD_MS /\ i < len /\ b > i => b = i + 1
  BY DEF Begun, ECHO_LEAD_MS

(* A game that begins, a state that is entered, a sequence shown again.    *)
LEMMA GameFields ==
    ASSUME NEW st \in States, NEW len \in 0 .. ECHO_MAX
    PROVE  LET n == Game(st, len)
           IN  /\ n \in Rounds /\ n.state = st /\ n.len = len /\ n.pos = 0
               /\ n.since = 0 /\ n.heard = {} /\ ~n.late
  BY DEF Game, Rounds

(* A state entered keeps the length, and whether a frame came late.        *)
LEMMA EnterFields ==
    ASSUME NEW r \in Rounds, NEW st \in States
    PROVE  LET n == game_enter(r, st)
           IN  /\ n \in Rounds /\ n.state = st /\ n.len = r.len /\ n.pos = 0
               /\ n.since = 0 /\ n.heard = {}
               /\ n.late <=> r.late
<1> DEFINE g == Game(st, r.len)
           n == game_enter(r, st)
<1>1. r.len \in 0 .. ECHO_MAX /\ r.late \in BOOLEAN
  BY DEF Rounds
<1>2. /\ g \in Rounds /\ g.state = st /\ g.len = r.len /\ g.pos = 0
      /\ g.since = 0 /\ g.heard = {}
  BY <1>1, GameFields
<1>3. n = [g EXCEPT !.late = r.late]
  BY DEF game_enter
<1> HIDE DEF g, n
<1>4. n \in Rounds
  BY <1>1, <1>2, <1>3 DEF Rounds
<1>5. /\ n.state = st /\ n.len = r.len /\ n.pos = 0
      /\ n.since = 0 /\ n.heard = {}
  BY <1>2, <1>3 DEF Rounds
<1>6. n.late <=> r.late
  BY <1>2, <1>3 DEF Rounds
<1> QED
  BY <1>4, <1>5, <1>6 DEF n

(* A sequence begun again keeps its state and its length.                  *)
LEMMA AgainFields ==
    ASSUME NEW r \in Rounds
    PROVE  LET n == Again(r)
           IN  /\ n \in Rounds /\ n.state = r.state /\ n.len = r.len
               /\ n.pos = 0 /\ n.since = 0 /\ n.heard = {} /\ ~n.late
<1> DEFINE n == Again(r)
<1>1. n = [r EXCEPT !.since = 0, !.pos = 0, !.heard = {}, !.late = FALSE]
  BY DEF Again
<1> HIDE DEF n
<1>2. n \in Rounds
  BY <1>1 DEF Rounds
<1>3. /\ n.state = r.state /\ n.len = r.len
      /\ n.pos = 0 /\ n.since = 0 /\ n.heard = {}
  BY <1>1 DEF Rounds
<1>4. ~n.late
  BY <1>1 DEF Rounds
<1> QED
  BY <1>2, <1>3, <1>4 DEF n

(* A sequence at its lead is as it should be.                              *)
LEMMA Leads ==
    ASSUME NEW r \in Rounds, r.pos = 0, r.since = 0, r.heard = {},
           r.state # "input", NEW u \in 0 .. 1, r.len > 0 \/ u = 0
    PROVE  Shown(r, u) /\ Earned(r)
  BY DEF Shown, Earned, Begun, Rounds, ECHO_LEAD_MS

(* echo_tick() at a frame at most a step after the one before it.          *)
LEMMA Ticks ==
    ASSUME NEW r \in Rounds, Earned(r), NEW u \in {0, 1}, Shown(r, u)
    PROVE  LET n == echo_tick(r)
           IN  n \in Rounds /\ Shown(n, 0) /\ Earned(n)
<1> DEFINE n == echo_tick(r)
<1>0. /\ r.state \in States /\ r.len \in 0 .. ECHO_MAX /\ r.pos \in Nat
      /\ r.since \in Nat /\ r.late \in BOOLEAN /\ r.heard \in SUBSET Nat
      /\ ECHO_MAX \in Nat
  BY EchoAssumption DEF Rounds
<1>1. CASE r.state = "speak"
  <2>1. CASE speaking
    <3>1. n = [r EXCEPT !.spoke = TRUE]
      BY <1>1, <2>1 DEF echo_tick
    <3> HIDE DEF n
    <3>2. n \in Rounds
      BY <3>1 DEF Rounds
    <3>3. n.state = "speak"
      BY <3>1, <1>1 DEF Rounds
    <3> QED
      BY <3>2, <3>3 DEF Shown, Earned, n
  <2>2. CASE ~speaking
    <3> DEFINE g == game_enter(r, "show")
    <3>1. g \in Rounds
      BY EnterFields DEF States
    <3>2. n = IF r.spoke \/ r.since >= ECHO_SPEAK_WAIT_MS
              THEN Again(g) ELSE r
      BY <1>1, <2>2 DEF echo_tick
    <3>3. /\ g.state = "show" /\ Again(g) \in Rounds
          /\ Again(g).state = "show" /\ Again(g).pos = 0
          /\ Again(g).since = 0 /\ Again(g).heard = {}
      BY <3>1, AgainFields, EnterFields DEF States
    <3> HIDE DEF g, n
    <3>4. Shown(Again(g), 0) /\ Earned(Again(g))
      BY <3>3, Leads
    <3>5. Shown(r, 0)
      BY <1>1 DEF Shown
    <3> QED
      BY <3>2, <3>3, <3>4, <3>5 DEF n
  <2> QED
    BY <2>1, <2>2
<1>2. CASE r.state = "show" /\ speaking
  <2>1. n = Again(r)
    BY <1>2 DEF echo_tick
  <2>2. /\ Again(r) \in Rounds /\ Again(r).state = "show"
        /\ Again(r).pos = 0 /\ Again(r).since = 0 /\ Again(r).heard = {}
    BY <1>2, AgainFields
  <2>3. Shown(Again(r), 0) /\ Earned(Again(r))
    BY <2>2, Leads
  <2> QED
    BY <2>1, <2>2, <2>3
<1>3. CASE r.state = "show" /\ ~speaking
  <2> DEFINE i == (r.since - ECHO_LEAD_MS) \div 2
             b == Begun(r.since - u)
  <2>1. n = ShowTick(r)
    BY <1>3 DEF echo_tick
  <2>2. ~r.late => /\ r.pos = b /\ r.pos <= r.len
                   /\ r.heard = 0 .. (r.pos - 1)
                   /\ r.since - u < ECHO_LEAD_MS + 2 * r.len
    BY <1>3 DEF Shown
  <2>3. r.since \in Nat /\ r.len \in Nat
    BY <1>0
  <2>4. r.since - u < ECHO_LEAD_MS + 2 * r.len =>
            /\ r.since < ECHO_LEAD_MS => b = 0 /\ Begun(r.since) = 0
            /\ r.since >= ECHO_LEAD_MS /\ i >= r.len => b = r.len
            /\ r.since >= ECHO_LEAD_MS /\ i < r.len =>
                   i \in Nat /\ Begun(r.since) = i + 1
                   /\ r.since < ECHO_LEAD_MS + 2 * r.len
            /\ r.since >= ECHO_LEAD_MS /\ i < r.len /\ b <= i =>
                   b = i /\ (r.since - ECHO_LEAD_MS) % 2 = 0
            /\ r.since >= ECHO_LEAD_MS /\ i < r.len /\ b > i => b = i + 1
    BY <2>3, StepsBegin
  <2>5. r.since >= ECHO_LEAD_MS => i \in Nat
    BY <1>0 DEF ECHO_LEAD_MS
  <2>6. CASE r.since < ECHO_LEAD_MS
    <3>1. n = r
      BY <1>0, <2>1, <2>6 DEF ShowTick, ECHO_LEAD_MS
    <3>0. r.since < ECHO_LEAD_MS + 2 * r.len
      BY <1>0, <2>6 DEF ECHO_LEAD_MS
    <3>2. Shown(r, 0)
      <4>1. ~r.late => r.pos = Begun(r.since)
        BY <2>2, <2>4, <2>6
      <4>2. r.since - 0 = r.since
        BY <1>0
      <4> HIDE DEF n, i, b
      <4> QED
        BY <2>2, <3>0, <4>1, <4>2 DEF Shown
    <3> QED
      BY <3>1, <3>2
  <2>7. CASE r.since >= ECHO_LEAD_MS /\ i >= r.len
    <3> DEFINE g == game_enter(r, "input")
    <3>1. /\ g \in Rounds /\ g.state = "input" /\ g.len = r.len
          /\ g.late <=> r.late
      BY EnterFields DEF States
    <3>2. n = [g EXCEPT !.heard = r.heard]
      BY <2>1, <2>7, <1>0 DEF ShowTick, ECHO_LEAD_MS
    <3> HIDE DEF n, g, i, b
    <3>3. n \in Rounds
      BY <1>0, <3>1, <3>2 DEF Rounds
    <3>4. n.state = "input" /\ n.heard = r.heard /\ n.len = r.len
      BY <3>1, <3>2 DEF Rounds
    <3>5. n.late <=> r.late
      BY <3>1, <3>2 DEF Rounds
    <3>6. ~r.late => r.heard = 0 .. (r.len - 1)
      BY <2>2, <2>4, <2>7
    <3>7. Shown(n, 0) /\ Earned(n)
      BY <3>4, <3>5, <3>6 DEF Shown, Earned
    <3> QED
      BY <3>3, <3>7 DEF n
  <2>8. CASE r.since >= ECHO_LEAD_MS /\ i < r.len /\ r.pos <= i
    <3> DEFINE on == (r.since - ECHO_LEAD_MS) % 2 = 0
    <3>1. n = [r EXCEPT !.pos = i + 1,
                        !.heard = IF on THEN r.heard \union {i} ELSE r.heard]
      BY <1>0, <2>1, <2>8 DEF ShowTick, ECHO_LEAD_MS
    <3>2. i \in Nat
      BY <2>5, <2>8
    <3>3. ~r.late => /\ on /\ r.pos = i /\ Begun(r.since) = i + 1
                     /\ r.since < ECHO_LEAD_MS + 2 * r.len
      BY <2>2, <2>4, <2>8
    <3>4. i < r.len
      BY <2>8
    <3> HIDE DEF n, i, b, on
    <3>5. n \in Rounds
      <4> DEFINE h == IF on THEN r.heard \union {i} ELSE r.heard
                 p == i + 1
      <4>1. n = [r EXCEPT !.pos = p, !.heard = h]
        BY <3>1
      <4>2. h \in SUBSET Nat /\ p \in Nat
        BY <1>0, <3>2
      <4> HIDE DEF h, p
      <4> QED
        BY <4>1, <4>2 DEF Rounds
    <3>6. /\ n.state = "show" /\ n.len = r.len /\ n.since = r.since
          /\ n.pos = i + 1
          /\ on => n.heard = r.heard \union {i}
      BY <3>1, <1>3 DEF Rounds
    <3>7. n.late <=> r.late
      BY <3>1 DEF Rounds
    <3>8. ~r.late => /\ r.heard \union {i} = 0 .. i /\ i + 1 <= r.len
                     /\ (i + 1) - 1 = i
      BY <2>2, <3>2, <3>3, <3>4, <1>0
    <3>9. r.since - 0 = r.since
      BY <1>0
    <3>a. Shown(n, 0)
      BY <3>3, <3>6, <3>7, <3>8, <3>9 DEF Shown
    <3>b. Earned(n)
      BY <3>6 DEF Earned
    <3> QED
      BY <3>5, <3>a, <3>b DEF n
  <2>9. CASE r.since >= ECHO_LEAD_MS /\ i < r.len /\ r.pos > i
    <3>1. n = r
      BY <1>0, <2>1, <2>9, <2>5 DEF ShowTick, ECHO_LEAD_MS
    <3>2. ~r.late => /\ r.pos = Begun(r.since)
                     /\ r.since < ECHO_LEAD_MS + 2 * r.len
      BY <2>2, <2>4, <2>9
    <3>3. r.since - 0 = r.since
      BY <1>0
    <3> HIDE DEF n, i, b
    <3>4. Shown(r, 0)
      BY <2>2, <3>2, <3>3 DEF Shown
    <3> QED
      BY <3>1, <3>4 DEF n
  <2>a. r.since < ECHO_LEAD_MS \/ r.since >= ECHO_LEAD_MS
    BY <1>0 DEF ECHO_LEAD_MS
  <2>b. r.since >= ECHO_LEAD_MS =>
            (i >= r.len \/ i < r.len) /\ (r.pos <= i \/ r.pos > i)
    BY <1>0, <2>5
  <2> QED
    BY <2>6, <2>7, <2>8, <2>9, <2>a, <2>b
<1>4. CASE r.state \notin {"speak", "show"}
  <2>1. n = r
    BY <1>4 DEF echo_tick
  <2>2. Shown(r, 0)
    BY <1>4 DEF Shown
  <2> QED
    BY <2>1, <2>2
<1> QED
  BY <1>1, <1>2, <1>3, <1>4

(* A sequence begun again when the screen is back.                         *)
LEMMA Resumes ==
    ASSUME NEW r \in Rounds, Earned(r)
    PROVE  LET n == echo_resume(r)
           IN  n \in Rounds /\ Shown(n, 0) /\ Earned(n)
<1>1. CASE r.state = "show"
  <2> DEFINE g == game_enter(r, "show")
  <2>1. g \in Rounds /\ g.state = "show"
    BY EnterFields DEF States
  <2>2. echo_resume(r) = Again(g)
    BY <1>1 DEF echo_resume
  <2> HIDE DEF g
  <2>3. /\ Again(g) \in Rounds /\ Again(g).state = "show"
        /\ Again(g).pos = 0 /\ Again(g).since = 0 /\ Again(g).heard = {}
    BY <2>1, AgainFields
  <2>4. Shown(Again(g), 0) /\ Earned(Again(g))
    BY <2>3, Leads
  <2> QED
    BY <2>2, <2>3, <2>4
<1>2. CASE r.state = "speak"
  <2> DEFINE n == echo_resume(r)
  <2>1. n = [r EXCEPT !.since = 0]
    BY <1>2 DEF echo_resume
  <2> HIDE DEF n
  <2>2. n \in Rounds
    BY <2>1 DEF Rounds
  <2>3. n.state = "speak"
    BY <1>2, <2>1 DEF Rounds
  <2> QED
    BY <2>2, <2>3 DEF Shown, Earned, n
<1>3. CASE r.state \notin {"show", "speak"}
  BY <1>3 DEF echo_resume, Shown
<1> QED
  BY <1>1, <1>2, <1>3

(* A frame that comes late says so; a round is left as it was otherwise.   *)
LEMMA Lateness ==
    ASSUME NEW r \in Rounds, Earned(r), NEW late \in BOOLEAN
    PROVE  LET n == [r EXCEPT !.late = @ \/ late]
           IN  /\ n \in Rounds /\ Earned(n)
               /\ \A u \in {0, 1} : late \/ Shown(r, u) => Shown(n, u)
<1> DEFINE n == [r EXCEPT !.late = @ \/ late]
<1>1. n \in Rounds
  BY DEF Rounds
<1>2. /\ n.state = r.state /\ n.len = r.len /\ n.pos = r.pos
      /\ n.since = r.since /\ n.heard = r.heard
  BY DEF Rounds
<1>3. n.late <=> r.late \/ late
  BY DEF Rounds
<1> HIDE DEF n
<1>4. Earned(n)
  BY <1>2, <1>3 DEF Earned
<1>5. \A u \in {0, 1} : late \/ Shown(r, u) => Shown(n, u)
  BY <1>2, <1>3 DEF Shown
<1> QED
  BY <1>1, <1>4, <1>5 DEF n

(* A frame of the game.                                                    *)
LEMMA TurnFrame ==
    ASSUME TurnInv, Frame
    PROVE  TurnInv'
<1> DEFINE Scr == [open : BOOLEAN, covered : BOOLEAN, up : BOOLEAN,
                   left : BOOLEAN, unseen : 0 .. 2]
<1>0. round \in Rounds /\ Earned(round) /\ screen \in Scr
      /\ (screen.open /\ screen.unseen <= 1 => Shown(round, screen.unseen))
  BY DEF TurnInv
<1>1. CASE screen.covered
  <2>1. /\ screen' = [screen EXCEPT !.up = FALSE, !.left = @ \/ screen.up]
        /\ round' = round
    BY <1>1 DEF Frame
  <2>2. screen' \in Scr
    BY <1>0, <2>1
  <2>3. screen'.unseen = screen.unseen
    BY <1>0, <2>1
  <2>4. screen'.open = screen.open
    BY <1>0, <2>1
  <2> QED
    BY <1>0, <2>1, <2>2, <2>3, <2>4 DEF TurnInv
<1>2. CASE ~screen.covered
  <2> DEFINE r    == IF screen.left THEN echo_resume(round) ELSE round
             late == screen.unseen > 1 /\ ~screen.left
             m    == [r EXCEPT !.late = @ \/ late]
             u    == IF screen.left \/ late THEN 0 ELSE screen.unseen
  <2>1. /\ screen' = [screen EXCEPT !.up = TRUE, !.left = FALSE,
                                    !.unseen = 0]
        /\ round' = echo_tick(m) /\ screen.open
    BY <1>2 DEF Frame
  <2>2. screen' \in Scr /\ screen'.unseen = 0
    <3>1. screen' \in Scr
      <4>1. screen' = [open |-> screen.open, covered |-> screen.covered,
                       up |-> TRUE, left |-> FALSE, unseen |-> 0]
        BY <1>0, <2>1
      <4>2. screen.open \in BOOLEAN /\ screen.covered \in BOOLEAN
        BY <1>0
      <4> QED
        BY <4>1, <4>2
    <3>2. screen'.unseen = 0
      BY <1>0, <2>1
    <3> QED
      BY <3>1, <3>2
  <2>3. u \in {0, 1} /\ late \in BOOLEAN /\ screen.unseen \in 0 .. 2
    BY <1>0
  <2>4. r \in Rounds /\ Earned(r)
    BY <1>0, Resumes
  <2>5. late \/ Shown(r, u)
    <3>1. CASE screen.left
      BY <1>0, <3>1, Resumes
    <3>2. CASE ~screen.left /\ ~late
      <4>1. screen.unseen <= 1
        BY <2>3, <3>2
      <4> QED
        BY <1>0, <2>1, <3>2, <4>1
    <3> QED
      BY <3>1, <3>2
  <2> HIDE DEF r, late, u
  <2>6. m \in Rounds /\ Earned(m) /\ Shown(m, u)
    BY <2>3, <2>4, <2>5, Lateness
  <2> HIDE DEF m
  <2>7. round' \in Rounds /\ Shown(round', 0) /\ Earned(round')
    BY <2>1, <2>3, <2>6, Ticks
  <2> QED
    BY <2>2, <2>7 DEF TurnInv
<1> QED
  BY <1>1, <1>2

(* A press: GO, play again, or a quarter.                                  *)
LEMMA TurnPressed ==
    ASSUME TurnInv, Pressed
    PROVE  TurnInv'
<1>0. /\ round \in Rounds /\ Earned(round) /\ screen' = screen
      /\ screen.unseen \in 0 .. 2
      /\ round.len \in 0 .. ECHO_MAX /\ ECHO_MAX \in Nat \ {0}
      /\ round.pos \in Nat
  BY EchoAssumption DEF TurnInv, Rounds, Pressed
<1>1. SUFFICES /\ round' \in Rounds /\ Earned(round')
               /\ screen.unseen <= 1 => Shown(round', screen.unseen)
  BY <1>0 DEF TurnInv
<1>2. CASE echo_start
  <2>1. round' = Game("show", 1) /\ 1 \in 0 .. ECHO_MAX
    BY <1>0, <1>2 DEF echo_start
  <2>2. /\ round' \in Rounds /\ round'.state = "show" /\ round'.len = 1
        /\ round'.pos = 0 /\ round'.since = 0 /\ round'.heard = {}
    BY <2>1, GameFields DEF States
  <2>3. Earned(round')
    BY <2>2 DEF Earned
  <2>4. screen.unseen <= 1 => screen.unseen \in 0 .. 1
    BY <1>0
  <2>5. screen.unseen <= 1 => Shown(round', screen.unseen)
    BY <2>2, <2>4, Leads
  <2> QED
    BY <2>2, <2>3, <2>5
<1>3. CASE round.state = "input" /\ echo_press
  <2>1. CASE round' = game_enter(round, "over")
    <3>1. round' \in Rounds /\ round'.state = "over"
      BY <1>0, <2>1, EnterFields DEF States
    <3> QED
      BY <3>1 DEF Shown, Earned
  <2>2. CASE round' = [round EXCEPT !.pos = @ + 1]
    <3>1. round' \in Rounds
      BY <1>0, <2>2 DEF Rounds
    <3>2. /\ round'.state = "input" /\ round'.len = round.len
          /\ round'.heard = round.heard
      BY <1>0, <1>3, <2>2 DEF Rounds
    <3>3. round'.late <=> round.late
      BY <1>0, <2>2 DEF Rounds
    <3> QED
      BY <1>0, <1>3, <3>1, <3>2, <3>3 DEF Shown, Earned
  <2>3. CASE /\ round.len < ECHO_MAX
             /\ round' = [game_enter(round, "speak")
                             EXCEPT !.len = round.len + 1]
    <3> DEFINE g == game_enter(round, "speak")
    <3>1. g \in Rounds /\ g.state = "speak"
      BY <1>0, EnterFields DEF States
    <3>2. round.len + 1 \in 0 .. ECHO_MAX
      BY <1>0, <2>3
    <3> HIDE DEF g
    <3>3. round' = [g EXCEPT !.len = round.len + 1]
      BY <2>3 DEF g
    <3>4. round' \in Rounds /\ round'.state = "speak"
      BY <3>1, <3>2, <3>3 DEF Rounds
    <3> QED
      BY <3>4 DEF Shown, Earned
  <2>4. round.len >= ECHO_MAX \/ round.len < ECHO_MAX
    BY <1>0
  <2> QED
    BY <1>3, <2>1, <2>2, <2>3, <2>4 DEF echo_press
<1> QED
  BY <1>2, <1>3 DEF Pressed

(* The clock: a second tick without a frame is a late one.                 *)
LEMMA TurnTick ==
    ASSUME TurnInv, ClockTick
    PROVE  TurnInv'
<1> DEFINE Scr == [open : BOOLEAN, covered : BOOLEAN, up : BOOLEAN,
                   left : BOOLEAN, unseen : 0 .. 2]
           x == IF round.since < MaxSince THEN round.since + 1
                ELSE round.since
           y == IF screen.unseen < 2 THEN screen.unseen + 1
                ELSE screen.unseen
<1>0. round \in Rounds /\ Earned(round) /\ screen \in Scr
      /\ (screen.open /\ screen.unseen <= 1 => Shown(round, screen.unseen))
  BY DEF TurnInv
<1>1. /\ round' = [round EXCEPT !.since = x]
      /\ screen' = [screen EXCEPT !.unseen = y]
      /\ round.state \in {"speak", "show"}
  BY DEF ClockTick
<1>2. /\ round.since \in Nat /\ screen.unseen \in 0 .. 2
      /\ round.len \in 0 .. ECHO_MAX /\ ECHO_MAX \in Nat
      /\ ECHO_SPEAK_WAIT_MS \in Nat \ {0}
  BY <1>0, EchoAssumption DEF Rounds
<1>3. x \in Nat /\ y \in 0 .. 2
  BY <1>2 DEF MaxSince, ECHO_LEAD_MS
<1>4. y <= 1 => y = 1 /\ screen.unseen = 0
  BY <1>2
<1>5. round.since - screen.unseen < ECHO_LEAD_MS + 2 * round.len
        /\ screen.unseen = 0 => x - 1 = round.since - screen.unseen
  BY <1>2 DEF MaxSince, ECHO_LEAD_MS
<1> HIDE DEF x, y
<1>6. /\ round' \in Rounds /\ round'.state = round.state
      /\ round'.len = round.len /\ round'.pos = round.pos
      /\ round'.heard = round.heard /\ round'.since = x
  BY <1>0, <1>1, <1>3 DEF Rounds
<1>7. round'.late <=> round.late
  BY <1>0, <1>1 DEF Rounds
<1>8. screen' \in Scr /\ screen'.unseen = y
  BY <1>0, <1>1, <1>3
<1>9. screen'.open <=> screen.open
  BY <1>0, <1>1
<1>a. Earned(round')
  BY <1>1, <1>6 DEF Earned
<1>b. screen.open /\ y <= 1 => Shown(round', y)
  <2> SUFFICES ASSUME screen.open, y <= 1, round'.state = "show",
                      ~round'.late
               PROVE  Shown(round', y)
    BY DEF Shown
  <2>1. screen.unseen = 0 /\ y = 1
    BY <1>4
  <2>2. /\ round.pos = Begun(round.since - screen.unseen)
        /\ round.pos <= round.len /\ round.heard = 0 .. (round.pos - 1)
        /\ round.since - screen.unseen < ECHO_LEAD_MS + 2 * round.len
    BY <1>0, <1>6, <1>7, <2>1 DEF Shown
  <2>3. x - y = round.since - screen.unseen
    BY <1>5, <2>1, <2>2
  <2> QED
    BY <1>6, <2>2, <2>3 DEF Shown
<1> QED
  BY <1>6, <1>8, <1>9, <1>a, <1>b DEF TurnInv

(* Every step keeps what a sequence shown has sounded.                     *)
LEMMA TurnNext == TurnInv /\ [EchoNext]_echovars => TurnInv'
<1> SUFFICES ASSUME TurnInv, [EchoNext]_echovars PROVE TurnInv'
  OBVIOUS
<1> DEFINE Scr == [open : BOOLEAN, covered : BOOLEAN, up : BOOLEAN,
                   left : BOOLEAN, unseen : 0 .. 2]
<1>0. round \in Rounds /\ Earned(round) /\ screen \in Scr
      /\ (screen.open /\ screen.unseen <= 1 => Shown(round, screen.unseen))
  BY DEF TurnInv
<1>1. CASE Opens
  <2>1. screen' = [screen EXCEPT !.open = TRUE] /\ round' = Game("ready", 0)
    BY <1>1 DEF Opens, NewGame
  <2>2. screen' \in Scr
    BY <1>0, <2>1
  <2>3. round' \in Rounds /\ round'.state = "ready"
    BY <2>1, EchoAssumption, GameFields DEF States
  <2> QED
    BY <2>2, <2>3 DEF TurnInv, Shown, Earned
<1>2. CASE Closes
  <2>1. /\ screen' = [screen EXCEPT !.open = FALSE, !.up = FALSE,
                                    !.left = @ \/ screen.up, !.unseen = 0]
        /\ round' = round
    BY <1>2 DEF Closes
  <2>2. screen' \in Scr
    <3> DEFINE b == screen.left \/ screen.up
    <3>1. screen' = [screen EXCEPT !.open = FALSE, !.up = FALSE,
                                   !.left = b, !.unseen = 0]
      BY <2>1
    <3>2. b \in BOOLEAN
      BY <1>0
    <3> HIDE DEF b
    <3>3. screen' = [open |-> FALSE, covered |-> screen.covered,
                     up |-> FALSE, left |-> b, unseen |-> 0]
      BY <1>0, <3>1
    <3>4. screen.covered \in BOOLEAN
      BY <1>0
    <3> QED
      BY <3>2, <3>3, <3>4
  <2>3. ~screen'.open
    BY <1>0, <2>1
  <2> QED
    BY <1>0, <2>1, <2>2, <2>3 DEF TurnInv
<1>3. CASE Covered
  <2>1. screen' = [screen EXCEPT !.covered = ~@] /\ round' = round
    BY <1>3 DEF Covered
  <2>2. screen' \in Scr
    BY <1>0, <2>1
  <2>3. screen'.unseen = screen.unseen
    BY <1>0, <2>1
  <2>4. screen'.open <=> screen.open
    BY <1>0, <2>1
  <2> QED
    BY <1>0, <2>1, <2>2, <2>3, <2>4 DEF TurnInv
<1>4. CASE \/ LetsGo \/ Speaks \/ SpeechEnds \/ KaTakes \/ KaMarks \/ KaSends
           \/ Answers \/ Delivered \/ TailLapses \/ Drops \/ Reconnects
           \/ UNCHANGED echovars
  <2>1. UNCHANGED <<round, screen>>
    BY <1>4 DEF LetsGo, Speaks, SpeechEnds, KaTakes, KaMarks, KaSends,
                Answers, Delivered, TailLapses, Drops, Reconnects, gamevars,
                echovars
  <2> QED
    BY <1>0, <2>1 DEF TurnInv
<1> QED
  BY <1>1, <1>2, <1>3, <1>4, TurnFrame, TurnPressed, TurnTick DEF EchoNext

(* The player's turn comes only after every step was sounded with the      *)
(* agent silent.                                                           *)
THEOREM TurnIsAlwaysEarned == EchoSpec => []TurnIsEarned
<1>1. EchoInit => TurnInv
  <2> SUFFICES ASSUME EchoInit PROVE TurnInv
    OBVIOUS
  <2>1. round = Game("ready", 0) /\ 0 \in 0 .. ECHO_MAX
    BY EchoAssumption DEF EchoInit, NewGame
  <2>2. round \in Rounds /\ round.state = "ready"
    BY <2>1, GameFields DEF States
  <2>3. screen \in [open : BOOLEAN, covered : BOOLEAN, up : BOOLEAN,
                    left : BOOLEAN, unseen : 0 .. 2]
    BY DEF EchoInit
  <2> QED
    BY <2>2, <2>3 DEF TurnInv, Shown, Earned
<1>2. TurnInv => TurnIsEarned
  BY DEF TurnInv, Earned, TurnIsEarned
<1> QED
  BY <1>1, <1>2, TurnNext, PTL DEF EchoSpec

(* Another text, of a callout none of those before it ends.                *)
LEMMA Appended ==
    ASSUME NEW t \in Seq(Messages), Single(t), NEW m \in Messages,
           \A i \in DOMAIN t : t[i].nudge = m.nudge /\ m.nudge # NoNudge =>
                                   t[i].role = "user"
    PROVE  LET a == Append(t, m)
           IN  /\ a \in Seq(Messages) /\ Single(a)
               /\ Nudges(a) = Nudges(t) \union {m.nudge}
<1> DEFINE a == Append(t, m)
<1>1. /\ a \in Seq(Messages) /\ Len(a) = Len(t) + 1 /\ Len(t) \in Nat
      /\ DOMAIN t = 1 .. Len(t) /\ DOMAIN a = 1 .. Len(a)
      /\ \A i \in 1 .. Len(t) : a[i] = t[i]
      /\ a[Len(t) + 1] = m
  OBVIOUS
<1> HIDE DEF a
<1>2. DOMAIN a = DOMAIN t \union {Len(t) + 1}
      /\ \A i, j \in DOMAIN a : i < j => i \in DOMAIN t
  BY <1>1
<1>3. Single(a)
  BY <1>1, <1>2 DEF Single
<1>4. Nudges(a) = Nudges(t) \union {m.nudge}
  BY <1>1, <1>2 DEF Nudges
<1> QED
  BY <1>1, <1>3, <1>4 DEF a

(* The first text taken: if it ends its callout, nothing is left of it.    *)
LEMMA Taken ==
    ASSUME NEW t \in Seq(Messages), Single(t), t # << >>
    PROVE  LET m == Head(t)
           IN  /\ m \in Messages /\ m.nudge \in Nudges(t)
               /\ Tail(t) \in Seq(Messages) /\ Single(Tail(t))
               /\ Nudges(Tail(t)) \subseteq Nudges(t)
               /\ m.role # "user" /\ m.nudge # NoNudge =>
                      m.nudge \notin Nudges(Tail(t))
<1> DEFINE a == Tail(t)
           m == Head(t)
<1>1. /\ a \in Seq(Messages) /\ Len(a) = Len(t) - 1 /\ Len(t) \in Nat \ {0}
      /\ DOMAIN t = 1 .. Len(t) /\ DOMAIN a = 1 .. Len(a)
      /\ \A i \in 1 .. Len(a) : a[i] = t[i + 1]
      /\ m = t[1] /\ m \in Messages
  BY EmptySeq, HeadTailProperties, LenProperties
<1> HIDE DEF a, m
<1>2. /\ 1 \in DOMAIN t
      /\ \A i \in DOMAIN a : i + 1 \in DOMAIN t /\ 1 < i + 1
      /\ \A i, j \in DOMAIN a : i < j => i + 1 < j + 1
  BY <1>1
<1>3. Single(a)
  BY <1>1, <1>2 DEF Single
<1>4. Nudges(a) \subseteq Nudges(t) /\ m.nudge \in Nudges(t)
  BY <1>1, <1>2 DEF Nudges
<1>5. m.role # "user" /\ m.nudge # NoNudge => m.nudge \notin Nudges(a)
  BY <1>1, <1>2 DEF Nudges, Single
<1> QED
  BY <1>1, <1>3, <1>4, <1>5 DEF a, m

(* What may still be kept, while its nudge is unanswered or being sent.    *)
LEMMA OutstandingIs ==
    Outstanding = unanswered \union Nudges(texts)
                      \union (IF ka.marked THEN {ka.nudge} ELSE {})
  BY DEF Outstanding, Nudges

calloutvars == <<slot, ka, flight, ready, unanswered, texts, kept, spoiled,
                 happened>>

(* A step that puts nothing new on its way and ends no tail.               *)
LEMMA TailStands ==
    ASSUME TailInv, Outstanding' \ {NoNudge} \subseteq Outstanding,
           UNCHANGED <<flight, ready, kept, spoiled>>,
           ~ready => unanswered' = {} /\ texts' = << >>
    PROVE  TailInv'
<1>1. nudge_tail' <=> nudge_tail
  BY DEF nudge_tail
<1> QED
  BY <1>1 DEF TailInv, CalloutsAreNotConversation

(* A callout of the game: a number not used before.                        *)
LEMMA CalloutPressed ==
    ASSUME CalloutInv, Pressed
    PROVE  CalloutInv'
<1>0. /\ UNCHANGED <<ka, flight, ready, unanswered, texts, kept, spoiled>>
      /\ \/ UNCHANGED <<slot, happened>>
         \/ slot' = happened.nudges + 1
            /\ happened' = [happened EXCEPT !["nudges"] = @ + 1]
  BY DEF Pressed, echo_start, echo_press, dg_agent_nudge, Counts
<1>1. happened["nudges"] \in Nat
  BY DEF CalloutInv, PlacesInv
<1>2. CASE UNCHANGED <<slot, happened>>
  BY <1>0, <1>2 DEF CalloutInv, PlacesInv, TailInv, nudge_tail, Outstanding,
                    CalloutsAreNotConversation
<1>3. CASE slot' = happened.nudges + 1
           /\ happened' = [happened EXCEPT !["nudges"] = @ + 1]
  <2>1. /\ happened' \in [{"nudges", "others", "speech", "drops"} -> Nat]
        /\ happened'["nudges"] = happened["nudges"] + 1
        /\ slot' = happened["nudges"] + 1
    BY <1>3 DEF CalloutInv, PlacesInv
  <2>2. PlacesInv'
    BY <1>0, <1>1, <2>1 DEF CalloutInv, PlacesInv
  <2>3. TailInv'
    BY <1>0 DEF CalloutInv, TailInv, nudge_tail, Outstanding,
                CalloutsAreNotConversation
  <2> QED
    BY <2>2, <2>3 DEF CalloutInv
<1> QED
  BY <1>0, <1>2, <1>3

(* keepalive_task() takes the nudge, marks it and sends it.                *)
LEMMA CalloutSent ==
    ASSUME CalloutInv, KaTakes \/ KaMarks \/ KaSends
    PROVE  CalloutInv'
<1>0. happened["nudges"] \in Nat
  BY DEF CalloutInv, PlacesInv
<1>1. CASE KaTakes
  <2>1. /\ ka' = [nudge |-> slot, marked |-> FALSE] /\ slot' = NoNudge
        /\ slot # NoNudge /\ ka.nudge = NoNudge
        /\ UNCHANGED <<flight, ready, unanswered, texts, kept, spoiled,
                       happened>>
    BY <1>1 DEF KaTakes
  <2>2. ka'.nudge = slot /\ ~ka'.marked
    BY <2>1
  <2>3. PlacesInv'
    BY <1>0, <2>1, <2>2 DEF CalloutInv, PlacesInv, NoNudge
  <2>4. Outstanding' \subseteq Outstanding
    BY <2>1, <2>2 DEF Outstanding
  <2>5. TailInv'
    BY <2>1, <2>4, TailStands DEF CalloutInv, TailInv
  <2> QED
    BY <2>3, <2>5 DEF CalloutInv
<1>2. CASE KaMarks
  <2>1. /\ ka' = [ka EXCEPT !.marked = TRUE] /\ ka.nudge # NoNudge
        /\ flight' = [on |-> TRUE, fresh |-> TRUE]
        /\ UNCHANGED <<slot, ready, unanswered, texts, kept, spoiled,
                       happened>>
    BY <1>2 DEF KaMarks
  <2>2. ka'.nudge = ka.nudge
    BY <2>1
  <2>3. PlacesInv'
    BY <2>1, <2>2 DEF CalloutInv, PlacesInv
  <2>4. nudge_tail'
    BY <2>1 DEF nudge_tail
  <2>5. flight' \in [on : BOOLEAN, fresh : BOOLEAN]
    BY <2>1
  <2>6. TailInv'
    BY <2>1, <2>4, <2>5 DEF CalloutInv, TailInv, CalloutsAreNotConversation
  <2> QED
    BY <2>3, <2>6 DEF CalloutInv
<1>3. CASE KaSends
  <2>1. /\ ka.marked /\ ka' = [nudge |-> NoNudge, marked |-> FALSE]
        /\ unanswered' = IF ready THEN unanswered \union {ka.nudge}
                         ELSE unanswered
        /\ UNCHANGED <<slot, flight, ready, texts, kept, spoiled, happened>>
    BY <1>3 DEF KaSends
  <2>2. ka'.nudge = NoNudge /\ ~ka'.marked
    BY <2>1
  <2>3. ka.nudge \in 1 .. happened["nudges"]
    BY <1>0, <2>1 DEF CalloutInv, PlacesInv, NoNudge
  <2>4. PlacesInv'
    <3> DEFINE k == ka.nudge
    <3>1. /\ k # NoNudge /\ k \notin unanswered \union Nudges(texts)
          /\ slot # NoNudge => slot # k
      BY <2>3 DEF CalloutInv, PlacesInv, NoNudge
    <3>2. unanswered' \subseteq unanswered \union {k}
      BY <2>1
    <3>3. k \in 1 .. happened["nudges"]
      BY <2>3
    <3>4. /\ unanswered' \subseteq 1 .. happened["nudges"]
          /\ unanswered' \intersect Nudges(texts) = {}
          /\ slot # NoNudge => slot \notin unanswered' \union Nudges(texts)
      BY <3>1, <3>2, <3>3 DEF CalloutInv, PlacesInv
    <3>5. ka'.nudge \in 0 .. happened["nudges"]
      BY <1>0, <2>2 DEF NoNudge
    <3>6. UNCHANGED <<slot, texts, happened>>
      BY <2>1
    <3> HIDE DEF k
    <3> QED
      BY <2>2, <3>4, <3>5, <3>6 DEF CalloutInv, PlacesInv
  <2>5. Outstanding' \subseteq Outstanding
    BY <2>1, <2>2 DEF Outstanding
  <2>6. TailInv'
    BY <2>1, <2>5, TailStands DEF CalloutInv, TailInv
  <2> QED
    BY <2>4, <2>6 DEF CalloutInv
<1> QED
  BY <1>1, <1>2, <1>3

(* The server answers a nudge, refuses it, or says something else.         *)
LEMMA CalloutAnswered ==
    ASSUME CalloutInv, Answers
    PROVE  CalloutInv'
<1>0. /\ happened["nudges"] \in Nat /\ texts \in Seq(Messages)
      /\ Single(texts)
      /\ UNCHANGED <<slot, ka, flight, ready, kept, spoiled>>
  BY DEF CalloutInv, PlacesInv, Answers
<1>1. ASSUME NEW n \in unanswered, unanswered' = unanswered \ {n},
             UNCHANGED happened, texts' \in Seq(Messages), Single(texts'),
             Nudges(texts') = Nudges(texts) \union {n}
      PROVE  CalloutInv'
  <2>1. n \in 1 .. happened["nudges"]
    BY <1>1 DEF CalloutInv, PlacesInv
  <2>2. PlacesInv'
    BY <1>0, <1>1, <2>1 DEF CalloutInv, PlacesInv
  <2>3. Outstanding' \subseteq Outstanding
    BY <1>0, <1>1, OutstandingIs DEF Outstanding, Nudges
  <2>4. ready
    BY <1>1 DEF CalloutInv, TailInv
  <2>5. TailInv'
    BY <1>0, <2>3, <2>4, TailStands DEF CalloutInv
  <2> QED
    BY <2>2, <2>5 DEF CalloutInv
<1>2. CASE \E n \in unanswered :
              /\ unanswered' = unanswered \ {n}
              /\ \/ texts' = texts \o <<Message("user", n),
                                        Message("assistant", n)>>
                 \/ texts' = Append(texts, Message("refused", n))
              /\ UNCHANGED happened
  <2>1. PICK n \in unanswered :
              /\ unanswered' = unanswered \ {n}
              /\ \/ texts' = texts \o <<Message("user", n),
                                        Message("assistant", n)>>
                 \/ texts' = Append(texts, Message("refused", n))
              /\ UNCHANGED happened
    BY <1>2
  <2>2. n \notin Nudges(texts) /\ n \in Nat
    BY <1>0 DEF CalloutInv, PlacesInv
  <2>3. \A i \in DOMAIN texts : texts[i].nudge # n
    BY <2>2 DEF Nudges
  <2> DEFINE u == Message("user", n)
             v == Message("assistant", n)
             w == Message("refused", n)
             a == Append(texts, u)
             b == Append(a, v)
             c == Append(texts, w)
  <2>4. /\ u \in Messages /\ v \in Messages /\ w \in Messages
        /\ u.nudge = n /\ v.nudge = n /\ w.nudge = n /\ u.role = "user"
    BY <2>2 DEF Message, Messages
  <2>5. texts \o <<u, v>> = b
    BY <1>0, <2>4
  <2>6. a[Len(texts) + 1] = u /\ (\A i \in 1 .. Len(texts) : a[i] = texts[i])
        /\ DOMAIN a = 1 .. Len(texts) + 1 /\ DOMAIN texts = 1 .. Len(texts)
    BY <1>0, <2>4
  <2>7. Len(texts) \in Nat
    BY <1>0
  <2> HIDE DEF u, v, w
  <2>8. /\ a \in Seq(Messages) /\ Single(a)
        /\ Nudges(a) = Nudges(texts) \union {n}
    BY <1>0, <2>3, <2>4, Appended
  <2>9. c \in Seq(Messages) /\ Single(c)
        /\ Nudges(c) = Nudges(texts) \union {n}
    BY <1>0, <2>3, <2>4, Appended
  <2> HIDE DEF a, c
  <2>a. \A i \in DOMAIN a : a[i].nudge = n => a[i].role = "user"
    BY <2>3, <2>4, <2>6, <2>7
  <2>b. b \in Seq(Messages) /\ Single(b)
        /\ Nudges(b) = Nudges(a) \union {n}
    BY <2>4, <2>8, <2>a, Appended
  <2>c. texts' \in {b, c}
    BY <2>1, <2>5 DEF u, v, w, c
  <2> HIDE DEF b
  <2>d. /\ texts' \in Seq(Messages) /\ Single(texts')
        /\ Nudges(texts') = Nudges(texts) \union {n}
    BY <2>8, <2>9, <2>b, <2>c
  <2> QED
    BY <1>1, <2>1, <2>d
<1>3. CASE /\ ready /\ Counts("others") /\ unanswered' = unanswered
           /\ texts' = Append(texts, Message("assistant", NoNudge))
  <2> DEFINE m == Message("assistant", NoNudge)
  <2>1. m \in Messages /\ m.nudge = NoNudge /\ NoNudge = 0
    BY DEF Message, Messages, NoNudge
  <2> HIDE DEF m
  <2>2. /\ Append(texts, m) \in Seq(Messages) /\ Single(Append(texts, m))
        /\ Nudges(Append(texts, m)) = Nudges(texts) \union {0}
    BY <1>0, <2>1, Appended
  <2>3. /\ texts' \in Seq(Messages) /\ Single(texts')
        /\ Nudges(texts') = Nudges(texts) \union {0}
    BY <1>3, <2>2 DEF m
  <2>4. /\ happened' \in [{"nudges", "others", "speech", "drops"} -> Nat]
        /\ happened'["nudges"] = happened["nudges"]
    BY <1>3 DEF Counts, CalloutInv, PlacesInv
  <2>5. 0 \notin unanswered
    BY DEF CalloutInv, PlacesInv
  <2>6. PlacesInv'
    BY <1>0, <1>3, <2>1, <2>3, <2>4, <2>5 DEF CalloutInv, PlacesInv
  <2>7. Outstanding' \ {NoNudge} \subseteq Outstanding
    BY <1>0, <1>3, <2>1, <2>3, OutstandingIs DEF Outstanding, Nudges
  <2>8. TailInv'
    BY <1>0, <1>3, <2>7, TailStands DEF CalloutInv
  <2> QED
    BY <2>6, <2>8 DEF CalloutInv
<1> QED
  BY <1>2, <1>3 DEF Answers

(* A text arrives: kept with the tail down only of a callout whose tail    *)
(* was ended early; a reply or a refusal ends the tail of its own, and     *)
(* spoils every other's.                                                   *)
LEMMA CalloutDelivered ==
    ASSUME CalloutInv, Delivered
    PROVE  CalloutInv'
<1> DEFINE m    == Head(texts)
           ends == flight.on /\ m.role # "user"
           adds == m.role # "refused" /\ ~holding /\ ~nudge_tail
<1>1. /\ texts # << >> /\ texts' = Tail(texts)
      /\ kept' = IF adds THEN kept \union {m.nudge} ELSE kept
      /\ flight' = [flight EXCEPT !.on = @ /\ ~ends]
      /\ spoiled' = IF ends THEN spoiled \union (Outstanding \ {m.nudge})
                    ELSE spoiled
      /\ UNCHANGED <<slot, ka, ready, unanswered, happened>>
  BY DEF Delivered
<1>2. texts \in Seq(Messages) /\ Single(texts)
  BY DEF CalloutInv, PlacesInv
<1>3. /\ m \in Messages /\ m.nudge \in Nudges(texts)
      /\ texts' \in Seq(Messages) /\ Single(texts')
      /\ Nudges(texts') \subseteq Nudges(texts)
      /\ m.role # "user" /\ m.nudge # NoNudge =>
             m.nudge \notin Nudges(texts')
  BY <1>1, <1>2, Taken
<1> HIDE DEF m
<1>4. ready
  BY <1>1 DEF CalloutInv, TailInv
<1>5. PlacesInv'
  BY <1>1, <1>3 DEF CalloutInv, PlacesInv
<1>6. /\ Outstanding' \subseteq Outstanding
      /\ m.nudge \in Outstanding
  BY <1>1, <1>3, OutstandingIs DEF Outstanding, Nudges
<1>7. m.role # "user" /\ m.nudge # NoNudge => m.nudge \notin Outstanding'
  <2> SUFFICES ASSUME m.role # "user", m.nudge # NoNudge
               PROVE  m.nudge \notin Outstanding'
    OBVIOUS
  <2>1. m.nudge \notin Nudges(texts') /\ m.nudge \notin unanswered
    BY <1>3 DEF CalloutInv, PlacesInv
  <2>2. m.nudge # ka.nudge
    BY <1>3 DEF CalloutInv, PlacesInv
  <2>3. Outstanding' = unanswered' \union Nudges(texts')
                          \union (IF ka'.marked THEN {ka'.nudge} ELSE {})
    BY DEF Outstanding, Nudges
  <2> QED
    BY <1>1, <2>1, <2>2, <2>3
<1>8. flight' \in [on : BOOLEAN, fresh : BOOLEAN]
  <2> DEFINE x == flight.on /\ ~ends
  <2>1. x \in BOOLEAN /\ flight \in [on : BOOLEAN, fresh : BOOLEAN]
    BY DEF CalloutInv, TailInv
  <2>2. flight' = [flight EXCEPT !.on = x]
    BY <1>1
  <2> HIDE DEF x
  <2> QED
    BY <2>1, <2>2
<1>9. nudge_tail' <=> nudge_tail /\ ~ends
  <2>1. flight \in [on : BOOLEAN, fresh : BOOLEAN]
    BY DEF CalloutInv, TailInv
  <2> HIDE DEF ends
  <2>2. flight'.fresh <=> flight.fresh
    BY <1>1, <2>1
  <2>3. flight'.on <=> flight.on /\ ~ends
    BY <1>1, <2>1
  <2> QED
    BY <2>2, <2>3 DEF nudge_tail
<1>a. ready' /\ ~nudge_tail' => Outstanding' \ {NoNudge} \subseteq spoiled'
  <2>1. CASE ends
    <3>1. Outstanding' \ {NoNudge} \subseteq Outstanding \ {m.nudge}
      BY <1>6, <1>7, <2>1
    <3> QED
      BY <1>1, <2>1, <3>1
  <2>2. CASE ~ends
    <3>1. ~nudge_tail => Outstanding \ {NoNudge} \subseteq spoiled
      BY <1>4 DEF CalloutInv, TailInv
    <3> HIDE DEF ends
    <3> QED
      BY <1>1, <1>6, <1>9, <2>2, <3>1
  <2> QED
    BY <2>1, <2>2
<1>b. CalloutsAreNotConversation'
  <2>1. kept \ {NoNudge} \subseteq spoiled /\ spoiled \subseteq spoiled'
    BY <1>1 DEF CalloutInv, TailInv, CalloutsAreNotConversation
  <2>2. adds => {m.nudge} \ {NoNudge} \subseteq spoiled
    BY <1>4, <1>6 DEF CalloutInv, TailInv
  <2> HIDE DEF adds, ends
  <2> QED
    BY <1>1, <2>1, <2>2 DEF CalloutsAreNotConversation
<1>c. TailInv'
  BY <1>1, <1>4, <1>8, <1>a, <1>b DEF TailInv
<1> QED
  BY <1>5, <1>c DEF CalloutInv

(* The tail lapses, and the socket goes and comes back.                    *)
LEMMA CalloutLost ==
    ASSUME CalloutInv, TailLapses \/ Drops \/ Reconnects
    PROVE  CalloutInv'
<1>0. /\ flight \in [on : BOOLEAN, fresh : BOOLEAN]
      /\ happened["nudges"] \in Nat
      /\ ~ready => unanswered = {} /\ texts = << >>
  BY DEF CalloutInv, PlacesInv, TailInv
<1>1. CASE TailLapses
  <2>1. /\ flight' = [flight EXCEPT !.fresh = FALSE]
        /\ spoiled' = spoiled \union Outstanding
        /\ UNCHANGED <<slot, ka, ready, unanswered, texts, kept, happened>>
    BY <1>1 DEF TailLapses
  <2>2. PlacesInv'
    BY <2>1 DEF CalloutInv, PlacesInv
  <2>3. Outstanding' = Outstanding
    BY <2>1 DEF Outstanding
  <2>4. flight' \in [on : BOOLEAN, fresh : BOOLEAN]
    BY <1>0, <2>1
  <2>5. TailInv'
    BY <2>1, <2>3, <2>4 DEF CalloutInv, TailInv, CalloutsAreNotConversation
  <2> QED
    BY <2>2, <2>5 DEF CalloutInv
<1>2. CASE Drops
  <2>1. /\ ready' = FALSE /\ slot' = NoNudge /\ unanswered' = {}
        /\ texts' = << >> /\ flight' = [flight EXCEPT !.on = FALSE]
        /\ Counts("drops")
        /\ UNCHANGED <<ka, kept, spoiled>>
    BY <1>2 DEF Drops
  <2>2. /\ happened' \in [{"nudges", "others", "speech", "drops"} -> Nat]
        /\ happened'["nudges"] = happened["nudges"]
    BY <2>1 DEF Counts, CalloutInv, PlacesInv
  <2> DEFINE e == << >>
  <2>3. e \in Seq(Messages) /\ DOMAIN e = {}
    OBVIOUS
  <2>4. texts' = e
    BY <2>1
  <2> HIDE DEF e
  <2>5. Single(e) /\ Nudges(e) = {}
    BY <2>3 DEF Single, Nudges
  <2>6. PlacesInv'
    BY <1>0, <2>1, <2>2, <2>3, <2>4, <2>5 DEF CalloutInv, PlacesInv, NoNudge
  <2>7. flight' \in [on : BOOLEAN, fresh : BOOLEAN]
    BY <1>0, <2>1
  <2>8. TailInv'
    BY <2>1, <2>7 DEF CalloutInv, TailInv, CalloutsAreNotConversation
  <2> QED
    BY <2>6, <2>8 DEF CalloutInv
<1>3. CASE Reconnects
  <2>1. /\ ~ready /\ ka.nudge = NoNudge /\ ready' = TRUE
        /\ UNCHANGED <<slot, ka, flight, unanswered, texts, kept, spoiled,
                       happened>>
    BY <1>3 DEF Reconnects
  <2>2. PlacesInv'
    BY <2>1 DEF CalloutInv, PlacesInv
  <2>3. ~ka.marked
    BY <2>1 DEF CalloutInv, PlacesInv
  <2> DEFINE e == << >>
  <2>4. DOMAIN e = {} /\ texts' = e
    BY <1>0, <2>1
  <2> HIDE DEF e
  <2>5. Outstanding' = {}
    BY <1>0, <2>1, <2>3, <2>4 DEF Outstanding
  <2>6. TailInv'
    BY <2>1, <2>5 DEF CalloutInv, TailInv, CalloutsAreNotConversation
  <2> QED
    BY <2>2, <2>6 DEF CalloutInv
<1> QED
  BY <1>1, <1>2, <1>3

(* Every step keeps a callout in one place, under its tail.                *)
LEMMA CalloutNext == CalloutInv /\ [EchoNext]_echovars => CalloutInv'
<1> SUFFICES ASSUME CalloutInv, [EchoNext]_echovars PROVE CalloutInv'
  OBVIOUS
<1>1. CASE Closes
  <2>1. /\ slot' = NoNudge
        /\ UNCHANGED <<ka, flight, ready, unanswered, texts, kept, spoiled,
                       happened>>
    BY <1>1 DEF Closes
  <2>2. happened["nudges"] \in Nat
    BY DEF CalloutInv, PlacesInv
  <2>3. PlacesInv'
    BY <2>1, <2>2 DEF CalloutInv, PlacesInv, NoNudge
  <2>4. TailInv'
    BY <2>1 DEF CalloutInv, TailInv, nudge_tail, Outstanding,
                CalloutsAreNotConversation
  <2> QED
    BY <2>3, <2>4 DEF CalloutInv
<1>2. CASE Speaks
  <2>1. /\ Counts("speech")
        /\ UNCHANGED <<slot, ka, flight, ready, unanswered, texts, kept,
                       spoiled>>
    BY <1>2 DEF Speaks, callvars
  <2>2. /\ happened' \in [{"nudges", "others", "speech", "drops"} -> Nat]
        /\ happened'["nudges"] = happened["nudges"]
    BY <2>1 DEF Counts, CalloutInv, PlacesInv
  <2>3. PlacesInv'
    BY <2>1, <2>2 DEF CalloutInv, PlacesInv
  <2>4. TailInv'
    BY <2>1 DEF CalloutInv, TailInv, nudge_tail, Outstanding,
                CalloutsAreNotConversation
  <2> QED
    BY <2>3, <2>4 DEF CalloutInv
<1>3. CASE \/ Opens \/ LetsGo \/ Covered \/ Frame \/ ClockTick
           \/ SpeechEnds \/ UNCHANGED echovars
  <2>1. UNCHANGED calloutvars
    BY <1>3 DEF Opens, LetsGo, Covered, Frame, ClockTick, SpeechEnds,
                callvars, echovars, calloutvars
  <2>2. PlacesInv'
    BY <2>1 DEF calloutvars, CalloutInv, PlacesInv
  <2>3. TailInv'
    BY <2>1 DEF calloutvars, CalloutInv, TailInv, nudge_tail, Outstanding,
                CalloutsAreNotConversation
  <2> QED
    BY <2>2, <2>3 DEF CalloutInv
<1> QED
  BY <1>1, <1>2, <1>3, CalloutPressed, CalloutSent, CalloutAnswered,
     CalloutDelivered, CalloutLost DEF EchoNext

(* What the game had said to it is not conversation.                       *)
THEOREM CalloutsAreNeverConversation ==
    EchoSpec => []CalloutsAreNotConversation
<1>1. EchoInit => CalloutInv
  <2> SUFFICES ASSUME EchoInit PROVE CalloutInv
    OBVIOUS
  <2>1. /\ slot = NoNudge /\ unanswered = {} /\ texts = << >> /\ kept = {}
        /\ ka = [nudge |-> NoNudge, marked |-> FALSE] /\ spoiled = {}
        /\ ready = TRUE
    BY DEF EchoInit
  <2>2. happened = [i \in {"nudges", "others", "speech", "drops"} |-> 0]
    BY DEF EchoInit
  <2> DEFINE e == << >>
  <2>3. e \in Seq(Messages) /\ DOMAIN e = {}
    OBVIOUS
  <2>4. texts = e
    BY <2>1
  <2> HIDE DEF e
  <2>5. Single(e) /\ Nudges(e) = {}
    BY <2>3 DEF Single, Nudges
  <2>6. /\ happened \in [{"nudges", "others", "speech", "drops"} -> Nat]
        /\ happened["nudges"] = 0
    BY <2>2
  <2>7. PlacesInv
    BY <2>1, <2>3, <2>4, <2>5, <2>6 DEF PlacesInv, NoNudge
  <2>8. Outstanding = {}
    BY <2>1, <2>3, <2>4 DEF Outstanding
  <2>9. flight \in [on : BOOLEAN, fresh : BOOLEAN]
    BY DEF EchoInit
  <2>a. TailInv
    BY <2>1, <2>8, <2>9 DEF TailInv, CalloutsAreNotConversation
  <2> QED
    BY <2>7, <2>a DEF CalloutInv
<1>2. CalloutInv => CalloutsAreNotConversation
  BY DEF CalloutInv, TailInv
<1> QED
  BY <1>1, <1>2, CalloutNext, PTL DEF EchoSpec
=============================================================================
