----------------------------- MODULE AlarmRing -----------------------------
(***************************************************************************)
(* main/alarm_sched.c: the ring cycle as a function from a ring to a ring  *)
(* and a set of actions.  The milliseconds it is given are reduced to what *)
(* it asks of them: whether the phase's time is up, whether the cap has    *)
(* passed, and whether the voice has been gone long enough.                *)
(***************************************************************************)

Phases == {"idle", "chime", "drain", "speak", "silent"}

Idle == [phase |-> "idle", announced |-> FALSE, stopping |-> FALSE,
         heard |-> FALSE]

(* Mutant: a ring that falls silent keeps the uplink held.                 *)
ActsHolding(phase) ==
    CASE phase = "chime"  -> {"chime_on", "hold_on"}
      [] phase = "speak"  -> {"hold_off", "announce"}
      [] phase = "drain"  -> {"chime_off"}
      [] phase = "silent" -> {"chime_off"}
      [] phase = "idle"   -> {"chime_off", "ended"}

(* What entering a phase asks of alarms.c.                                 *)
Acts(phase) ==
    CASE phase = "chime"  -> {"chime_on", "hold_on"}
      [] phase = "speak"  -> {"hold_off", "announce"}
      [] phase = "drain"  -> {"chime_off"}
      [] phase = "silent" -> {"chime_off", "hold_off"}
      [] phase = "idle"   -> {"chime_off", "hold_off", "ended"}

enter(r, phase) ==
    [ring |-> [r EXCEPT !.phase = phase,
                        !.heard = @ /\ phase # "speak",
                        !.announced = @ \/ phase = "speak"],
     acts |-> Acts(phase)]

Stays(r) == [ring |-> r, acts |-> {}]

alarm_ring_begin(session_live) ==
    enter(Idle, IF session_live THEN "speak" ELSE "chime")

(***************************************************************************)
(* The phases, left alone: t.up says that the phase's time is up, t.quiet  *)
(* that the voice last heard is SPEAK_QUIET_MS away.                       *)
(***************************************************************************)
PhaseStep(r, t, playback) ==
    CASE r.phase = "chime" -> IF t.up THEN enter(r, "drain") ELSE Stays(r)
      [] r.phase = "drain" ->
            IF t.up \/ ~playback THEN enter(r, "speak") ELSE Stays(r)
      [] r.phase = "speak" ->
            LET h == [r EXCEPT !.heard = @ \/ playback]
            IN  IF t.up \/ (h.heard /\ ~playback /\ t.quiet)
                THEN enter(h, IF r.stopping THEN "idle" ELSE "chime")
                ELSE Stays(h)
      [] OTHER -> Stays(r)

Capped(r, t) == t.capped /\ ~r.stopping /\ r.phase # "silent"

(* Mutant: the cap is not looked at.                                       *)
CyclesUncapped(r, t, playback) == PhaseStep(r, t, playback)

CyclesOn(r, t, playback) ==
    IF Capped(r, t) THEN enter(r, "silent") ELSE PhaseStep(r, t, playback)

(* Mutant: a stop ends the ring whether or not it has been announced.      *)
StopAtOnce(r, t, playback) == enter(r, "idle")

(* A stop before the first announcement leaves that one to be made.        *)
StopStep(r, t, playback) ==
    LET s == [r EXCEPT !.stopping = TRUE]
    IN  IF r.announced                          THEN enter(r, "idle")
        ELSE IF r.phase \in {"chime", "silent"} THEN enter(s, "drain")
        ELSE CyclesOn(s, t, playback)

alarm_ring_step(r, t, playback, stop, snooze) ==
    IF r.phase = "idle" THEN Stays(r)
    ELSE IF snooze      THEN enter(r, "idle")
    ELSE IF stop        THEN StopStep(r, t, playback)
    ELSE CyclesOn(r, t, playback)
=============================================================================
