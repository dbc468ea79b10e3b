------------------------------- MODULE Alarms -------------------------------
(***************************************************************************)
(* main/alarms.c: the table, the loop's tick with the ring cycle it drives *)
(* (AlarmRing), Stop and Snooze from other tasks, the tools the agent      *)
(* calls, and the copy in flash across a loss of power.                    *)
(***************************************************************************)
EXTENDS Integers, FiniteSets, Functions, AlarmRing

CONSTANTS
    None,          \* no value
    Ids,           \* alarms ever set; each is set once
    ALARM_MAX,     \* slots
    MISS_WINDOW,   \* ALARM_MISS_WINDOW_S
    Day,           \* seconds between an alarm's times
    Lengths,       \* of the timers set, in seconds
    Zones,         \* seconds a zone adds; a change goes up
    MaxNow,        \* bound: the clock
    MaxReboots,    \* bound: losses of power
    MaxPresses     \* bound: presses of Stop and Snooze

ASSUME AlarmsAssumption ==
    /\ ALARM_MAX \in Nat \ {0} /\ MISS_WINDOW \in Nat /\ Day \in Nat \ {0}
    /\ Lengths \subseteq Nat \ {0} /\ Zones \subseteq Nat /\ MaxNow \in Nat
    /\ MaxReboots \in Nat
    /\ MaxPresses \in Nat

Kinds == {"timer", "once", "weekly"}

VARIABLES
    now,         \* wall seconds, whether or not the device knows them
    valid,       \* clock_now() answers
    zone,        \* seconds the zone adds, and whether it has changed
    table,       \* s_b: entries by id; fire 0 while it runs on s_mono_ms
    dirty,       \* s_dirty
    reconciled,  \* s_reconciled, of the present zone
    nvs,         \* the blob in NVS
    failed,      \* history: the last write of the blob did not succeed
    loop,        \* alarms_tick(): where it is, and what it carries
    due,         \* the loop has a pass to make before the next second
    rang,        \* s_rang's kind
    ringing,     \* s_ringing
    ring,        \* s_ring
    capped,      \* CONFIG_ALARM_RING_MAX_S have passed since the ring began
    acts,        \* what perform() has still to carry out
    stop_req,    \* s_stop_req
    snooze_req,  \* s_snooze_req
    press,       \* alarms_dismiss() or _snooze(), about to set its request
    chime, hold, \* the tone sounds; AUDIO_HOLD_ALARM is held
    spoken,      \* history: announcements of this ring, counted up to two
    left,        \* history: the ring was snoozed
    chimed,      \* history: the ring began with a chime, no session being up,
                 \* and has not been announced
    used,        \* bounds the run: ids set so far
    reboots,     \* bounds the run
    presses      \* bounds the run

clock    == <<now, valid, zone>>
store    == <<table, dirty, reconciled, nvs, failed>>
requests == <<stop_req, snooze_req, press>>
cycle    == <<rang, ringing, ring, capped, acts>>
sound    == <<chime, hold, spoken, left, chimed>>
bounds   == <<used, reboots, presses>>
vars     == <<clock, store, loop, due, cycle, requests, sound, bounds>>

-----------------------------------------------------------------------------
(***************************************************************************)
(* alarm_sched.c's calendar.  Every day of the toy calendar has the alarm. *)
(***************************************************************************)
alarm_next_local(t, shift) ==
    CHOOSE u \in t + 1 .. t + Day : (u + shift) % Day = 0

(* Mutant: a timer missed by any time at all is still rung.                *)
NeverStale(e, t) == FALSE

(* Missed by more than ALARM_MISS_WINDOW_S; a weekly alarm rolls on.        *)
alarm_is_stale(e, t) ==
    e.kind # "weekly" /\ e.fire > 0 /\ e.fire + MISS_WINDOW < t

Entry(kind, fire, mono) == [kind |-> kind, fire |-> fire, mono |-> mono]

Added(id, e) == [i \in DOMAIN table \union {id} |-> IF i = id THEN e
                                                    ELSE table[i]]
Without(t, ids) == Restrict(t, DOMAIN t \ ids)
Full == Cardinality(DOMAIN table) >= ALARM_MAX

-----------------------------------------------------------------------------
(***************************************************************************)
(* The agent's tools and the panel's list, each under s_lock.              *)
(***************************************************************************)
Set(id, e) ==
    /\ id \notin used /\ used' = used \union {id}
    /\ IF Full THEN UNCHANGED <<table, dirty>>
               ELSE table' = Added(id, e) /\ dirty' = TRUE
    /\ UNCHANGED <<clock, reconciled, nvs, failed, loop, due, cycle,
                   requests, sound, reboots, presses>>

set_timer(id, length) ==
    Set(id, IF valid THEN Entry("timer", now + length, 0)
                     ELSE Entry("timer", 0, now + length))

set_alarm(id, kind) ==
    valid /\ Set(id, Entry(kind, alarm_next_local(now, zone.shift), 0))

cancel(ids) ==
    /\ ids # {} /\ ids \subseteq DOMAIN table
    /\ table' = Without(table, ids) /\ dirty' = TRUE
    /\ UNCHANGED <<clock, reconciled, nvs, failed, loop, due, cycle,
                   requests, sound, bounds>>

(***************************************************************************)
(* alarms_dismiss() and alarms_snooze(), from the screen or BOOT: the tone *)
(* first, then the request.                                                *)
(***************************************************************************)
Press(request) ==
    /\ press = None /\ ringing
    /\ presses < MaxPresses /\ presses' = presses + 1
    /\ request = "snooze" => rang # "timer"
    /\ chime' = FALSE /\ press' = request
    /\ UNCHANGED <<clock, store, loop, due, cycle, stop_req, snooze_req, hold,
                   spoken, left, chimed, used, reboots>>

Requests ==
    /\ press # None /\ press' = None
    /\ stop_req'   = (stop_req \/ press = "stop")
    /\ snooze_req' = (snooze_req \/ press = "snooze")
    /\ UNCHANGED <<clock, store, loop, due, cycle, sound, bounds>>

-----------------------------------------------------------------------------
(***************************************************************************)
(* alarms_tick(), on the main loop, once a second.                         *)
(***************************************************************************)
At(pc) == loop.at = pc
Goes(pc) == loop' = [loop EXCEPT !.at = pc]

reconcile_locked(t) ==
    LET moved == [i \in DOMAIN t |->
            IF t[i].kind = "weekly" \/ (t[i].kind = "once" /\ reconciled)
            THEN [t[i] EXCEPT !.fire = alarm_next_local(now, zone.shift)]
            ELSE t[i]]
    IN  Without(moved, {i \in DOMAIN moved : alarm_is_stale(moved[i], now)})

(* A timer set before the clock was known gets its wall-clock moment.      *)
Converted(t) ==
    [i \in DOMAIN t |-> IF t[i].mono > 0
                        THEN Entry("timer", t[i].mono, 0) ELSE t[i]]

Current == IF ~valid THEN table
           ELSE Converted(IF reconciled /\ ~zone.changed THEN table
                          ELSE reconcile_locked(table))

IsDue(e) ==
    \/ e.mono > 0 /\ now >= e.mono
    \/ valid /\ e.fire > 0 /\ e.fire <= now

Rolled(t, id) == [t EXCEPT ![id].fire = alarm_next_local(now, zone.shift)]

AfterFiring(id) == IF Current[id].kind = "weekly" THEN Rolled(Current, id)
                                                  ELSE Without(Current, {id})

(* What flash can be expected to hold: neither a weekly alarm's next moment *)
(* nor a deadline on esp_timer.                                            *)
Blob(t) == [i \in DOMAIN t |-> IF t[i].kind = "weekly"
                                  THEN Entry("weekly", 0, 0)
                                  ELSE [t[i] EXCEPT !.mono = 0]]
Dirties(t) == dirty' = (dirty \/ Blob(t) # Blob(table))

alarms_tick ==
    /\ At("idle") /\ due
    /\ reconciled' = (reconciled \/ valid)
    /\ zone' = [zone EXCEPT !.changed = @ /\ ~valid]
    /\ \/ /\ \A i \in DOMAIN Current : ~IsDue(Current[i])
          /\ table' = Current /\ Dirties(Current)
          /\ Goes("stop")
       \/ \E id \in DOMAIN Current :
          /\ IsDue(Current[id])
          /\ table' = AfterFiring(id) /\ Dirties(AfterFiring(id))
          /\ loop' = [loop EXCEPT !.at = "ring", !.fired = Current[id]]
    /\ UNCHANGED <<now, valid, nvs, failed, due, cycle, requests, sound,
                   bounds>>

(***************************************************************************)
(* ring(): a second alarm takes the screen over, and what was asked of the *)
(* first is dropped.  session_live is session_ctl's answer.                *)
(***************************************************************************)
RingBegins(session_live) ==
    /\ At("ring") /\ loop' = [loop EXCEPT !.at = "ringActs", !.fired = None]
    /\ chime' = (chime /\ ~ringing)
    /\ rang' = loop.fired.kind /\ ringing' = TRUE /\ capped' = FALSE
    /\ stop_req' = FALSE /\ snooze_req' = FALSE
    /\ LET begun == alarm_ring_begin(session_live)
       IN ring' = begun.ring /\ acts' = begun.acts
    /\ spoken' = 0 /\ left' = FALSE /\ chimed' = ~session_live
    /\ UNCHANGED <<clock, store, due, press, hold, bounds>>

(* Mutant: the uplink is let go before the tone is stopped.                *)
OrderLettingGo ==
    <<"hold_off", "chime_off", "hold_on", "chime_on", "announce", "ended">>

(* perform()'s order.                                                      *)
Order ==
    <<"chime_off", "hold_off", "hold_on", "chime_on", "announce", "ended">>

Nth(n) == acts = {} \/ (Order[n] \in acts /\ \A m \in 1 .. n - 1 : Order[m] \notin acts)

(* perform(), one action at a time: other tasks hear and see each.         *)
perform ==
    /\ At("ringActs") \/ At("stepActs")
    /\ \E n \in DOMAIN Order :
       /\ acts # {} /\ Nth(n)
       /\ acts' = acts \ {Order[n]}
       /\ chime' = ((chime \/ Order[n] = "chime_on") /\ Order[n] # "chime_off")
       /\ hold'  = ((hold \/ Order[n] = "hold_on") /\ Order[n] # "hold_off")
       /\ spoken' = IF Order[n] = "announce" /\ spoken < 2 THEN spoken + 1
                    ELSE spoken
       /\ ringing' = (ringing /\ Order[n] # "ended")
       /\ capped' = (capped /\ Order[n] # "ended")
       /\ chimed' = (chimed /\ Order[n] \notin {"announce", "ended"})
    /\ UNCHANGED <<clock, store, loop, due, rang, ring, left, requests,
                   bounds>>

Performed ==
    /\ acts = {}
    /\ \/ At("ringActs") /\ Goes("stop")
       \/ At("stepActs") /\ Goes("persist")
    /\ UNCHANGED <<clock, store, due, cycle, requests, sound, bounds>>

(***************************************************************************)
(* ring_tick(): each request is read, then cleared.                        *)
(***************************************************************************)
NotRinging ==
    /\ At("stop") /\ ~ringing /\ Goes("persist")
    /\ UNCHANGED <<clock, store, due, cycle, requests, sound, bounds>>

ReadStop ==
    /\ At("stop") /\ ringing
    /\ loop' = [loop EXCEPT !.at = "clearStop", !.stop = stop_req]
    /\ UNCHANGED <<clock, store, due, cycle, requests, sound, bounds>>

ClearStopReadSnooze ==
    /\ At("clearStop")
    /\ stop_req' = FALSE
    /\ loop' = [loop EXCEPT !.at = "step", !.snooze = snooze_req]
    /\ UNCHANGED <<clock, store, due, cycle, snooze_req, press, sound, bounds>>

(* The entry first: a snooze that cannot be kept must not silence it.      *)
CanSnooze == valid /\ rang # "timer" /\ ~Full /\ Ids \ used # {}

ring_tick(t, playback) ==
    /\ At("step")
    /\ t.capped = capped
    /\ LET snoozed == loop.snooze /\ CanSnooze
           next    == alarm_ring_step(ring, t, playback, loop.stop, snoozed)
       IN /\ ring' = next.ring /\ acts' = next.acts
          /\ IF snoozed
             THEN \E id \in Ids \ used, length \in Lengths :
                  /\ table' = Added(id, Entry("once", now + length, 0))
                  /\ dirty' = TRUE /\ used' = used \union {id}
                  /\ left' = TRUE
             ELSE UNCHANGED <<table, dirty, used, left>>
    /\ snooze_req' = FALSE
    /\ loop' = [loop EXCEPT !.at = "stepActs", !.stop = FALSE,
                            !.snooze = FALSE]
    /\ UNCHANGED <<clock, reconciled, nvs, failed, due, rang, ringing,
                   capped, stop_req, press, chime, hold, spoken, chimed,
                   reboots, presses>>

(* persist(): a snapshot under the lock, if there is memory for one, then  *)
(* the write, which may fail.                                              *)
Clean ==
    /\ At("persist")
    /\ Goes("idle") /\ due' = FALSE
    /\ UNCHANGED <<clock, store, cycle, requests, sound, bounds>>

Snapshot ==
    /\ At("persist") /\ dirty
    /\ loop' = [loop EXCEPT !.at = "write", !.snap = Blob(table)]
    /\ dirty' = FALSE
    /\ UNCHANGED <<clock, table, reconciled, nvs, failed, due, cycle,
                   requests, sound, bounds>>

(* Mutant: the table is called clean when the write has ended.             *)
persist_clearing ==
    /\ At("write")
    /\ loop' = [loop EXCEPT !.at = "idle", !.snap = << >>]
    /\ due' = FALSE /\ dirty' = FALSE
    /\ \E ok \in BOOLEAN :
        failed' = ~ok /\ nvs' = IF ok THEN loop.snap ELSE nvs
    /\ UNCHANGED <<clock, table, reconciled, cycle, requests, sound, bounds>>

persist ==
    /\ At("write")
    /\ loop' = [loop EXCEPT !.at = "idle", !.snap = << >>]
    /\ due' = FALSE
    /\ \E ok \in BOOLEAN :
        failed' = ~ok /\ nvs' = IF ok THEN loop.snap ELSE nvs
    /\ UNCHANGED <<clock, table, dirty, reconciled, cycle, requests, sound,
                   bounds>>

-----------------------------------------------------------------------------
(***************************************************************************)
(* The clock, the zone (applied on this loop), the ring's cap, and a loss  *)
(* of power.  A pass of the loop takes less than a second and reads the    *)
(* time once.                                                              *)
(***************************************************************************)
Between == At("idle") /\ ~due

Tick ==
    /\ Between /\ due' = TRUE
    /\ now' = IF now < MaxNow THEN now + 1 ELSE now
    /\ UNCHANGED <<valid, zone, store, loop, cycle, requests, sound, bounds>>

ClockArrives ==
    /\ Between /\ ~valid /\ valid' = TRUE
    /\ UNCHANGED <<now, zone, store, loop, due, cycle, requests, sound, bounds>>

ZoneChanges ==
    /\ Between
    /\ \E z \in Zones : z > zone.shift /\ zone' = [shift |-> z, changed |-> TRUE]
    /\ UNCHANGED <<now, valid, store, loop, due, cycle, requests, sound, bounds>>

CapPasses ==
    /\ Between /\ ringing /\ ~capped /\ capped' = TRUE
    /\ UNCHANGED <<clock, store, loop, due, rang, ringing, ring, acts, requests,
                   sound, bounds>>

AtRest == [at |-> "idle", fired |-> None, stop |-> FALSE, snooze |-> FALSE,
           snap |-> << >>]

(* alarms_init(): a timer saved without its moment is dropped.             *)
Sane(e) == e.kind # "timer" \/ e.fire > 0
alarms_init(blob) == Restrict(blob, {i \in DOMAIN blob : Sane(blob[i])})

Reboot ==
    /\ reboots < MaxReboots /\ reboots' = reboots + 1
    /\ now' \in now .. MaxNow /\ valid' \in BOOLEAN
    /\ zone' = [zone EXCEPT !.changed = FALSE]
    /\ table' = alarms_init(nvs) /\ dirty' = FALSE /\ reconciled' = FALSE
    /\ failed' = FALSE
    /\ loop' = AtRest /\ due' = FALSE
    /\ rang' = None /\ ringing' = FALSE /\ ring' = Idle /\ capped' = FALSE
    /\ acts' = {} /\ stop_req' = FALSE /\ snooze_req' = FALSE /\ press' = None
    /\ chime' = FALSE /\ hold' = FALSE /\ spoken' = 0 /\ left' = FALSE
    /\ chimed' = FALSE
    /\ UNCHANGED <<nvs, used, presses>>

-----------------------------------------------------------------------------
Init ==
    /\ now = 0 /\ valid = FALSE /\ zone = [shift |-> 0, changed |-> FALSE]
    /\ table = << >> /\ dirty = FALSE /\ reconciled = FALSE
    /\ nvs = << >> /\ failed = FALSE
    /\ loop = AtRest /\ due = FALSE
    /\ rang = None /\ ringing = FALSE /\ ring = Idle /\ capped = FALSE
    /\ acts = {} /\ stop_req = FALSE /\ snooze_req = FALSE /\ press = None
    /\ chime = FALSE /\ hold = FALSE /\ spoken = 0 /\ left = FALSE
    /\ chimed = FALSE
    /\ used = {} /\ reboots = 0 /\ presses = 0

Times == [up : BOOLEAN, capped : BOOLEAN, quiet : BOOLEAN]

Loop ==
    \/ alarms_tick \/ (\E live \in BOOLEAN : RingBegins(live))
    \/ perform \/ Performed
    \/ NotRinging \/ ReadStop \/ ClearStopReadSnooze
    \/ \E t \in Times, playback \in BOOLEAN : ring_tick(t, playback)
    \/ Clean \/ Snapshot \/ persist

Tools ==
    \/ \E id \in Ids, length \in Lengths : set_timer(id, length)
    \/ \E id \in Ids, kind \in {"once", "weekly"} : set_alarm(id, kind)
    \/ \E ids \in SUBSET Ids : cancel(ids)
    \/ Press("stop") \/ Press("snooze") \/ Requests

Next == Loop \/ Tools \/ Tick \/ ClockArrives \/ ZoneChanges \/ CapPasses
        \/ Reboot

Spec == Init /\ [][Next]_vars

-----------------------------------------------------------------------------
(* The tone never sounds with the microphone's uplink open, at any moment  *)
(* between the actions of perform() or a press on another task:            *)
(* alarm_sched.h:145-146.                                                  *)
ToneIsHeld == chime => hold

(* Between passes the sound and the hold are those of the phase the ring   *)
(* is in: nothing sounds, and nothing is held, outside a ring, in its      *)
(* silence or while the agent speaks, however the ring got there.          *)
SoundFollowsRing ==
    loop.at \in {"idle", "persist", "write"} =>
        /\ chime => ringing /\ ring.phase = "chime"
        /\ hold  => ringing /\ ring.phase \in {"chime", "drain"}
        /\ ring.phase = "chime" => hold
        /\ ringing <=> ring.phase # "idle"

(* A ring that is over, because it has ended or because the loop is about  *)
(* to give the screen to another alarm, was announced, unless it was       *)
(* snoozed; stopped before the announcement it was announced exactly once. *)
(* The exception: a ring that began with a chime, no session being up, and *)
(* is taken over before it came to its announcement.  ring() overwrites    *)
(* s_rang and begins the cycle anew (alarms.c:361-378).                    *)
EndedMeansSaid ==
    /\ rang # None /\ ~ringing => spoken > 0 \/ left
    /\ At("ring") /\ ringing =>
           \/ spoken > 0
           \/ chimed /\ ring.phase \in {"chime", "drain", "silent"}
    /\ ring.stopping => spoken < 2

(* Without that exception, as alarms.c:551-553 and dg_agent.c:1230-1233    *)
(* have it: two alarms due before a session opens are both said.  The code *)
(* does not keep it.                                                       *)
BothAreSaid == At("ring") /\ ringing => spoken > 0

(* What a boot would load is the table, or the table is marked or being    *)
(* written, or a write failed: at rest a loss of power costs nothing.      *)
SavedOrMarked ==
    \/ alarms_init(nvs) = alarms_init(Blob(table))
    \/ dirty \/ failed \/ At("write")

(* Nothing rings early, and nothing rings later than the miss window and a *)
(* pass for each alarm due with it, whatever the reboots and the zone.     *)
RungInTime ==
    [][At("ring") /\ ~At("ring")' /\ loop'.at = "ringActs" =>
         LET moment == IF loop.fired.fire > 0 THEN loop.fired.fire
                       ELSE loop.fired.mono
         IN  moment <= now /\ now < moment + MISS_WINDOW + ALARM_MAX]_vars

(* A press of Stop is acted on: the tick clears only a request it read.    *)
StopIsTaken == [][ClearStopReadSnooze => (stop_req => loop.stop)]_vars

(* A ring nobody answers falls silent: the pass that finds the cap has     *)
(* passed leaves no tone behind it, whatever the pass was interrupted by.  *)
FallsSilent == [][loop.at # "idle" /\ At("idle")' => ~(capped /\ chime')]_vars
=============================================================================
