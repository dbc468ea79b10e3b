--------------------------- MODULE ControlsProofs ---------------------------
(***************************************************************************)
(* Proofs about BootButton, Clock and Settings, which share no variable:   *)
(* for windows of any length on a counter of any width, any zones and      *)
(* formats, levels and steps, and any number of presses, choices, losses   *)
(* of power and writes that fail.                                          *)
(***************************************************************************)
EXTENDS BootButton, Clock, Settings, TLAPS

-----------------------------------------------------------------------------
(***************************************************************************)
(* BootButton.  A gesture in which an alarm was stopped is marked as the   *)
(* alarm's while it lasts, unless a press of it comes late; to know that   *)
(* the code takes the late ones back and no others, the time since the     *)
(* dismissal has to be the time really elapsed while that is below         *)
(* SWALLOW, however long the first press is held.                          *)
(***************************************************************************)
Effects == [did : {"nothing", "toggle", "denoise", "forget"},
            spent : BOOLEAN, late : BOOLEAN]

BtnTypeOK ==
    /\ clockMs \in 0 .. BtnWrap - 1 /\ s_dismissed \in 0 .. BtnWrap - 1
    /\ {bell, s_swallow, s_forgetting, denoise, spent, late} \subseteq BOOLEAN
    /\ button \in {"up", "down", "gap", "stuck"}
    /\ since \in 0 .. HOLD /\ count \in Nat /\ sinceTaken \in 0 .. SWALLOW
    /\ effect \in Effects

BtnInv ==
    /\ BtnTypeOK
    /\ IF button = "up" THEN count = 0 /\ ~spent ELSE count > 0
    /\ late => spent /\ count > 1
    /\ spent /\ ~late => s_swallow
    /\ spent /\ sinceTaken < SWALLOW => SinceDismiss = sinceTaken
    /\ TakenPressIsSpent


(* What a millisecond adds to a difference on the wrapping counter.        *)
LEMMA Wraps ==
    ASSUME NEW w \in Nat \ {0}, NEW c \in 0 .. w - 1, NEW d \in 0 .. w - 1
    PROVE  /\ (c + w - d) % w = IF c >= d THEN c - d ELSE c + w - d
           /\ (c + 1) % w = IF c = w - 1 THEN 0 ELSE c + 1
<1>1. CASE c >= d
  <2>1. c + w - d \in Nat /\ c + w - d >= w /\ c + w - d < 2 * w
    BY <1>1
  <2> DEFINE a == c + w - d
  <2>2. a \in Nat /\ a >= w /\ a < 2 * w
    BY <2>1
  <2> HIDE DEF a
  <2>3. a % w = a - w
    BY <2>2
  <2> QED
    BY <1>1, <2>3 DEF a
<1>2. CASE c < d
  <2>1. c + w - d \in Nat /\ c + w - d < w
    BY <1>2
  <2> QED
    BY <1>2, <2>1
<1>3. (c + 1) % w = IF c = w - 1 THEN 0 ELSE c + 1
  OBVIOUS
<1> QED
  BY <1>1, <1>2, <1>3

(* So a tick takes the time since the dismissal one further, or to zero.   *)
LEMMA Later ==
    ASSUME BtnTypeOK
    PROVE  /\ SinceDismiss \in 0 .. BtnWrap - 1
           /\ s_dismissed' = clockMs /\ clockMs' = clockMs =>
                  SinceDismiss' = 0
           /\ s_dismissed' = s_dismissed
              /\ clockMs' = (clockMs + 1) % BtnWrap =>
                  SinceDismiss' = IF SinceDismiss = BtnWrap - 1 THEN 0
                                  ELSE SinceDismiss + 1
<1> DEFINE w == BtnWrap
           c == clockMs
           d == s_dismissed
<1>1. w \in Nat \ {0} /\ c \in 0 .. w - 1 /\ d \in 0 .. w - 1
  BY BootButtonAssumption DEF BtnTypeOK
<1>2. SinceDismiss = IF c >= d THEN c - d ELSE c + w - d
  BY <1>1, Wraps DEF SinceDismiss
<1>3. (c + 1) % w = IF c = w - 1 THEN 0 ELSE c + 1
  BY <1>1, Wraps
<1>4. (c + w - c) % w = 0
  <2>1. (c + w - c) % w = IF c >= c THEN c - c ELSE c + w - c
    BY <1>1, Wraps
  <2> QED
    BY <1>1, <2>1
<1> DEFINE e == IF c = w - 1 THEN 0 ELSE c + 1
<1>5. (e + w - d) % w = IF e >= d THEN e - d ELSE e + w - d
  <2>1. e \in 0 .. w - 1
    BY <1>1
  <2> HIDE DEF e
  <2> QED
    BY <1>1, <2>1, Wraps
<1>6. ASSUME s_dismissed' = clockMs, clockMs' = clockMs
      PROVE  SinceDismiss' = 0
  BY <1>4, <1>6 DEF SinceDismiss
<1>7. ASSUME s_dismissed' = s_dismissed, clockMs' = (clockMs + 1) % BtnWrap
      PROVE  SinceDismiss' = (e + w - d) % w
  BY <1>3, <1>7 DEF SinceDismiss
<1> QED
  BY <1>1, <1>2, <1>5, <1>6, <1>7

(* A press keeps it: one less than SWALLOW after the dismissal leaves the  *)
(* mark, one later is late.                                                *)
LEMMA BtnPress == BtnInv /\ PressDown => BtnInv'
<1> SUFFICES ASSUME BtnInv, PressDown PROVE BtnInv'
  OBVIOUS
<1> USE DEF BtnInv, BtnTypeOK
<1>1. /\ clockMs' = clockMs /\ bell' = bell /\ s_forgetting' = s_forgetting
      /\ denoise' = denoise /\ effect' = NoEffect
      /\ button \in {"up", "gap"} /\ button' = "down" /\ since' = 0
      /\ count' = count + 1 /\ spent' = (spent \/ bell)
      /\ sinceTaken' = IF bell THEN 0 ELSE sinceTaken
      /\ late' = (~bell /\ (late \/ (spent /\ sinceTaken = SWALLOW)))
      /\ s_swallow' = (bell \/ (s_swallow /\ SinceDismiss < SWALLOW))
      /\ s_dismissed' = IF bell THEN clockMs ELSE s_dismissed
  BY DEF PressDown, on_press_down
<1>2. {bell, s_swallow, s_forgetting, denoise, spent, late}' \subseteq BOOLEAN
  BY <1>1
<1>3. NoEffect \in Effects /\ NoEffect.did = "nothing"
  BY DEF NoEffect, Effects
<1>4. BtnTypeOK'
  BY <1>1, <1>2, <1>3, BootButtonAssumption
<1>5. spent' /\ ~late' => s_swallow'
  <2>1. spent /\ ~late /\ sinceTaken # SWALLOW =>
            s_swallow /\ SinceDismiss = sinceTaken /\ sinceTaken < SWALLOW
    BY BootButtonAssumption
  <2> QED
    BY <1>1, <2>1
<1>6. spent' /\ sinceTaken' < SWALLOW => SinceDismiss' = sinceTaken'
  <2>1. CASE bell
    BY <1>1, <2>1, Later
  <2>2. CASE ~bell
    <3>1. SinceDismiss' = SinceDismiss
      BY <1>1, <2>2 DEF SinceDismiss
    <3> QED
      BY <1>1, <2>2, <3>1
  <2> QED
    BY <2>1, <2>2
<1>7. late' => spent' /\ count' > 1
  <2>1. spent => count \in Nat /\ button = "gap"
    BY <1>1
  <2>2. button = "gap" /\ spent => count > 0
    OBVIOUS
  <2> QED
    BY <1>1, <2>1, <2>2
<1>8. TakenPressIsSpent'
  BY <1>1, <1>3 DEF TakenPressIsSpent
<1> QED
  BY <1>1, <1>4, <1>5, <1>6, <1>7, <1>8

(* Where a gesture ends, what it did is all that is left of it.            *)
LEMMA BtnEnds ==
    ASSUME BtnInv, GestureEnds,
           {bell, s_swallow, s_forgetting, denoise}' \subseteq BOOLEAN,
           clockMs' \in 0 .. BtnWrap - 1, s_dismissed' \in 0 .. BtnWrap - 1,
           effect' \in Effects, TakenPressIsSpent'
    PROVE  BtnInv'
<1>1. /\ button' = "up" /\ since' = 0 /\ count' = 0
      /\ spent' = FALSE /\ sinceTaken' = 0 /\ late' = FALSE
  BY DEF GestureEnds
<1>2. {bell, s_swallow, s_forgetting, denoise, spent, late}' \subseteq BOOLEAN
  BY <1>1
<1>3. BtnTypeOK'
  BY <1>1, <1>2, BootButtonAssumption DEF BtnTypeOK
<1> QED
  BY <1>1, <1>3 DEF BtnInv

(* So does what iot_button makes of it.                                    *)
LEMMA BtnGesture ==
    BtnInv /\ (\/ Release \/ on_click \/ Ignored \/ on_forget_wifi \/ LetGo
               \/ restart_cb \/ \E available \in BOOLEAN :
                                     on_toggle_ns(available))
    => BtnInv'
<1> SUFFICES ASSUME BtnInv PROVE
        (\/ Release \/ on_click \/ Ignored \/ on_forget_wifi \/ LetGo
         \/ restart_cb \/ \E available \in BOOLEAN : on_toggle_ns(available))
        => BtnInv'
  OBVIOUS
<1> USE DEF shared
<1>0. /\ {bell, s_swallow, s_forgetting, denoise, spent, late}
             \subseteq BOOLEAN
      /\ clockMs \in 0 .. BtnWrap - 1 /\ s_dismissed \in 0 .. BtnWrap - 1
      /\ effect \in Effects /\ TakenPressIsSpent
      /\ late => spent /\ count > 1
      /\ spent /\ ~late => s_swallow
  BY DEF BtnInv, BtnTypeOK
<1>d. ASSUME NEW what \in {"nothing", "toggle", "denoise", "forget"},
             Did(what)
      PROVE  /\ effect' \in Effects /\ effect'.did = what
             /\ effect'.spent = spent /\ effect'.late = late
  BY <1>0, <1>d DEF Did, Effects
<1>1. ASSUME Release PROVE BtnInv'
  <2>1. CASE GestureEnds
    <3>1. TakenPressIsSpent'
      BY <1>0, <1>1 DEF Release, TakenPressIsSpent
    <3> QED
      BY <1>0, <1>1, <2>1, <3>1, BtnEnds DEF Release
  <2>2. CASE /\ button' = "gap" /\ since' = 0
             /\ UNCHANGED <<count, spent, sinceTaken, late>>
    <3>1. SinceDismiss' = SinceDismiss /\ TakenPressIsSpent'
      BY <1>0, <1>1 DEF Release, SinceDismiss, TakenPressIsSpent
    <3>2. BtnTypeOK'
      BY <1>1, <2>2, BootButtonAssumption DEF Release, BtnInv, BtnTypeOK
    <3> QED
      BY <1>1, <2>2, <3>1, <3>2 DEF Release, BtnInv
  <2> QED
    BY <1>1, <2>1, <2>2 DEF Release
<1>2. ASSUME on_click PROVE BtnInv'
  <2>1. s_swallow => Did("nothing")
    BY <1>2 DEF on_click
  <2>2. ~s_swallow => Did("toggle") /\ ~spent
    BY <1>0, <1>2 DEF on_click
  <2>3. effect' \in Effects /\ TakenPressIsSpent'
    BY <1>d, <2>1, <2>2 DEF TakenPressIsSpent
  <2> QED
    BY <1>0, <1>2, <2>3, BtnEnds DEF on_click
<1>3. ASSUME Ignored PROVE BtnInv'
  <2>1. effect' \in Effects /\ TakenPressIsSpent'
    BY <1>d, <1>3 DEF Ignored, TakenPressIsSpent
  <2> QED
    BY <1>0, <1>3, <2>1, BtnEnds DEF Ignored
<1>4. ASSUME on_forget_wifi PROVE BtnInv'
  <2>1. s_forgetting \/ s_swallow => Did("nothing") /\ UNCHANGED s_forgetting
    BY <1>4 DEF on_forget_wifi
  <2>2. ~(s_forgetting \/ s_swallow) =>
            Did("forget") /\ s_forgetting' = TRUE /\ ~spent
    BY <1>0, <1>4 DEF on_forget_wifi
  <2>3. effect' \in Effects /\ TakenPressIsSpent'
    BY <1>d, <2>1, <2>2 DEF TakenPressIsSpent
  <2>4. s_forgetting' \in BOOLEAN
    BY <1>0, <2>1, <2>2
  <2>5. /\ count = 1 /\ button' = "stuck"
        /\ UNCHANGED <<clockMs, bell, s_swallow, s_dismissed, denoise, since,
                       count, spent, sinceTaken, late>>
    BY <1>4 DEF on_forget_wifi
  <2>6. SinceDismiss' = SinceDismiss
    BY <2>5 DEF SinceDismiss
  <2>7. BtnTypeOK'
    BY <2>3, <2>4, <2>5 DEF BtnInv, BtnTypeOK
  <2> QED
    BY <2>3, <2>5, <2>6, <2>7 DEF BtnInv
<1>5. ASSUME LetGo PROVE BtnInv'
  <2>1. TakenPressIsSpent'
    BY <1>0, <1>5 DEF LetGo, TakenPressIsSpent
  <2> QED
    BY <1>0, <1>5, <2>1, BtnEnds DEF LetGo
<1>6. ASSUME restart_cb PROVE BtnInv'
  <2>1. effect' \in Effects /\ TakenPressIsSpent'
    BY <1>6 DEF restart_cb, NoEffect, Effects, TakenPressIsSpent
  <2>2. 0 \in 0 .. BtnWrap - 1
    BY BootButtonAssumption
  <2> QED
    BY <1>0, <1>6, <2>1, <2>2, BtnEnds DEF restart_cb
<1>7. ASSUME NEW available \in BOOLEAN, on_toggle_ns(available) PROVE BtnInv'
  <2>1. s_swallow \/ ~available => Did("nothing") /\ UNCHANGED denoise
    BY <1>7 DEF on_toggle_ns
  <2>2. ~(s_swallow \/ ~available) =>
            /\ Did("denoise") /\ denoise' = ~denoise
            /\ spent => late
    BY <1>0, <1>7 DEF on_toggle_ns
  <2>3. effect' \in Effects /\ TakenPressIsSpent'
    BY <1>d, <2>1, <2>2 DEF TakenPressIsSpent
  <2>4. denoise' \in BOOLEAN
    BY <1>0, <2>1, <2>2
  <2> QED
    BY <1>0, <1>7, <2>3, <2>4, BtnEnds DEF on_toggle_ns
<1> QED
  BY <1>1, <1>2, <1>3, <1>4, <1>5, <1>6, <1>7

(* And time: it takes the dismissal one further away on both clocks, as    *)
(* long as that is below SWALLOW.                                          *)
LEMMA BtnTime ==
    BtnInv /\ (AlarmTurns \/ BtnTick \/ UNCHANGED btnvars) => BtnInv'
<1> USE BootButtonAssumption DEF BtnInv, BtnTypeOK, TakenPressIsSpent, shared,
                                 gesture
<1>1. ASSUME BtnInv, AlarmTurns PROVE BtnInv'
  <2>1. {bell, s_swallow, s_forgetting, denoise, spent, late}'
            \subseteq BOOLEAN
    BY <1>1 DEF AlarmTurns
  <2>2. SinceDismiss' = SinceDismiss
    BY <1>1 DEF AlarmTurns, SinceDismiss
  <2> QED
    BY <1>1, <2>1, <2>2 DEF AlarmTurns
<1>2. ASSUME BtnInv, BtnTick PROVE BtnInv'
  <2>1. {bell, s_swallow, s_forgetting, denoise, spent, late}'
            \subseteq BOOLEAN
    BY <1>2 DEF BtnTick
  <2>2. /\ clockMs' = (clockMs + 1) % BtnWrap /\ s_dismissed' = s_dismissed
        /\ since' = IF since < HOLD THEN since + 1 ELSE since
        /\ sinceTaken' = IF spent /\ sinceTaken < SWALLOW
                         THEN sinceTaken + 1 ELSE sinceTaken
        /\ UNCHANGED <<button, count, spent, late, s_swallow, effect>>
    BY <1>2 DEF BtnTick
  <2>3. /\ SinceDismiss \in 0 .. BtnWrap - 1
        /\ SinceDismiss' = IF SinceDismiss = BtnWrap - 1 THEN 0
                           ELSE SinceDismiss + 1
    BY <1>2, <2>2, Later
  <2>4. clockMs' \in 0 .. BtnWrap - 1
    BY <1>2, <2>2, Wraps
  <2>5. BtnTypeOK'
    BY <1>2, <2>1, <2>2, <2>4
  <2>6. spent' /\ sinceTaken' < SWALLOW => SinceDismiss' = sinceTaken'
    <3> DEFINE x == SinceDismiss
               y == SinceDismiss'
    <3> HIDE DEF x, y
    <3>1. /\ x \in 0 .. BtnWrap - 1
          /\ y = IF x = BtnWrap - 1 THEN 0 ELSE x + 1
      BY <2>3 DEF x, y
    <3>2. spent /\ sinceTaken < SWALLOW => x = sinceTaken
      BY <1>2 DEF x
    <3>3. spent' /\ sinceTaken' < SWALLOW => y = sinceTaken'
      BY <1>2, <2>2, <3>1, <3>2
    <3> QED
      BY <3>3 DEF y
  <2> QED
    BY <1>2, <2>2, <2>5, <2>6
<1>3. ASSUME BtnInv, UNCHANGED btnvars PROVE BtnInv'
  <2>1. SinceDismiss' = SinceDismiss
    BY <1>3 DEF btnvars, SinceDismiss
  <2> QED
    BY <1>3, <2>1 DEF btnvars
<1> QED
  BY <1>1, <1>2, <1>3

(* A press that stopped an alarm does nothing else, whatever it turns into *)
(* and however long it is held; only a second press that came SWALLOW or   *)
(* more after the dismissal may complete a double click.                   *)
THEOREM TakenPressIsAlwaysSpent == BtnSpec => []TakenPressIsSpent
<1>1. BtnInit => BtnInv
  <2> SUFFICES ASSUME BtnInit PROVE BtnInv
    OBVIOUS
  <2>1. {bell, s_swallow, s_forgetting, denoise, spent, late} \subseteq BOOLEAN
    BY DEF BtnInit
  <2>2. effect \in Effects /\ effect.did = "nothing"
    BY DEF BtnInit, NoEffect, Effects
  <2> QED
    BY <2>1, <2>2, BootButtonAssumption
       DEF BtnInit, BtnInv, BtnTypeOK, TakenPressIsSpent
<1>2. BtnInv /\ [BtnNext]_btnvars => BtnInv'
  BY BtnPress, BtnGesture, BtnTime DEF BtnNext
<1>3. BtnInv => TakenPressIsSpent
  BY DEF BtnInv
<1> QED
  BY <1>1, <1>2, <1>3, PTL DEF BtnSpec

-----------------------------------------------------------------------------
(***************************************************************************)
(* Clock.  Until the tick has been through with it, the zone asked for     *)
(* last is pending or in the tick's hand; so is the format, unless it was  *)
(* asked for while another was being taken.                                *)
(***************************************************************************)
ClkTypeOK ==
    /\ tz \in [pending : TimeZones \union {NoChoice}, dirty : BOOLEAN,
               env : TimeZones, name : TimeZones]
    /\ fmt \in [pending : Formats \union {NoChoice},
                mode : Formats \union {NoChoice}]
    /\ tick \in [at : {"idle", "apply", "name", "save", "fmt", "fmtTaken",
                       "fmtSave"},
                 v : TimeZones \union Formats \union {NoChoice}]
    /\ stored \in [zone : TimeZones \union {NoChoice},
                   format : Formats \union {NoChoice}]
    /\ wanted \in [zone : TimeZones, format : Formats \union {NoChoice}]
    /\ slipped \in BOOLEAN

Handed == {"apply", "name", "save"}

ZoneInv ==
    /\ tick.at \in Handed => tick.v \in TimeZones
    /\ tz.dirty => tz.pending = wanted.zone
    /\ ~tz.dirty =>
        /\ tick.at \in Handed => tick.v = wanted.zone
        /\ tick.at # "apply" => tz.env = wanted.zone
        /\ tick.at \notin {"apply", "name"} => tz.name = wanted.zone
        /\ tick.at \notin Handed => slipped \/ SavedZone = wanted.zone

FormatInv ==
    /\ tick.at \in {"fmtTaken", "fmtSave"} =>
           tick.v \in Formats \union {NoChoice}
    /\ fmt.pending # NoChoice => fmt.pending = wanted.format
    /\ tick.at = "fmtTaken" /\ ~slipped =>
           fmt.pending = tick.v /\ tick.v # NoChoice
    /\ fmt.pending = NoChoice /\ ~slipped =>
           /\ fmt.mode = wanted.format
           /\ IF tick.at = "fmtSave" THEN tick.v = wanted.format
                                     ELSE stored.format = wanted.format

ClkInv == ClkTypeOK /\ ZoneInv /\ FormatInv


(* Where the tick and its cargo are.                                       *)
LEMMA ClkAsked ==
    ASSUME ClkInv,
           \/ \E z \in TimeZones : SetZone(z)
           \/ \E f \in Formats : clock_set_12h(f)
           \/ StartSntp \/ TakeSync \/ on_got_ip \/ on_sntp_sync
           \/ UNCHANGED clkvars
    PROVE  ClkInv'
<1> USE DEF ClkInv, ClkTypeOK, ZoneInv, FormatInv, SavedZone, Handed
<1>1. ASSUME NEW z \in TimeZones, SetZone(z) PROVE ClkInv'
  <2>1. /\ tz' = [tz EXCEPT !.pending = z, !.dirty = TRUE]
        /\ wanted' = [wanted EXCEPT !.zone = z]
        /\ UNCHANGED <<fmt, tick, stored, slipped>>
    BY <1>1 DEF SetZone
  <2>2. /\ tz'.dirty = TRUE /\ tz'.pending = z /\ wanted'.zone = z
        /\ wanted'.format = wanted.format
    BY <2>1
  <2>3. tz' \in [pending : TimeZones \union {NoChoice}, dirty : BOOLEAN,
                 env : TimeZones, name : TimeZones]
    BY <2>1
  <2>4. wanted' \in [zone : TimeZones, format : Formats \union {NoChoice}]
    BY <2>1
  <2> QED
    BY <2>1, <2>2, <2>3, <2>4
<1>2. ASSUME NEW f \in Formats, clock_set_12h(f) PROVE ClkInv'
  <2>1. /\ fmt' = [fmt EXCEPT !.pending = f]
        /\ wanted' = [wanted EXCEPT !.format = f]
        /\ slipped' = (slipped \/ TickAt("fmtTaken"))
        /\ UNCHANGED <<tz, tick, stored>>
    BY <1>2 DEF clock_set_12h
  <2>2. /\ fmt'.pending = f /\ fmt'.mode = fmt.mode /\ f # NoChoice
        /\ wanted'.format = f /\ wanted'.zone = wanted.zone
    BY <2>1, ClockAssumption
  <2>3. slipped' \in BOOLEAN
    BY <2>1 DEF TickAt
  <2>4. wanted' \in [zone : TimeZones, format : Formats \union {NoChoice}]
    BY <2>1
  <2>5. fmt' \in [pending : Formats \union {NoChoice},
                  mode : Formats \union {NoChoice}]
    BY <2>1
  <2> QED
    BY <2>1, <2>2, <2>3, <2>4, <2>5 DEF TickAt
<1>3. ASSUME \/ StartSntp \/ TakeSync \/ on_got_ip \/ on_sntp_sync
             \/ UNCHANGED clkvars
      PROVE  ClkInv'
  <2>1. UNCHANGED <<tz, fmt, tick, stored, wanted, slipped>>
    BY <1>3 DEF StartSntp, TakeSync, on_got_ip, on_sntp_sync, clkvars
  <2> QED
    BY <2>1
<1> QED
  BY <1>1, <1>2, <1>3

(* The zone goes through the tick: what it has taken is what was asked for *)
(* last, or the flag is up again.                                          *)
LEMMA ClkZone ==
    ASSUME ClkInv, TakeZone \/ tz_apply \/ tz_save
    PROVE  ClkInv'
<1> USE DEF ClkInv, ClkTypeOK, ZoneInv, FormatInv, SavedZone, Handed, TickAt,
            TickGoes
<1>1. CASE TakeZone
  <2>1. /\ tick.at = "idle"
        /\ tz.dirty
        /\ tick' = [at |-> "apply", v |-> tz.pending]
        /\ tz' = [tz EXCEPT !.dirty = FALSE]
        /\ UNCHANGED <<fmt, stored, wanted, slipped>>
    BY <1>1 DEF TakeZone
  <2>2. tz.pending = wanted.zone /\ wanted.zone \in TimeZones
    BY <2>1
  <2>3. tick'.at = "apply" /\ tick'.v = wanted.zone
    BY <2>1, <2>2
  <2>4. tz' \in [pending : TimeZones \union {NoChoice}, dirty : BOOLEAN,
                 env : TimeZones, name : TimeZones]
    BY <2>1
  <2> QED
    BY <2>1, <2>2, <2>3, <2>4
<1>2. CASE tz_apply
  <2>1. CASE tick.at = "apply"
    <3>1. /\ tick' = [at |-> "name", v |-> tick.v]
          /\ tz' = [tz EXCEPT !.env = tick.v] /\ tick.v \in TimeZones
          /\ UNCHANGED <<fmt, stored, wanted, slipped>>
      BY <1>2, <2>1 DEF tz_apply
    <3>2. tz'.env = tick.v /\ tz'.dirty = tz.dirty /\ tz'.pending = tz.pending
      BY <3>1
    <3>3. tick'.at = "name" /\ tick'.v = tick.v
      BY <3>1
    <3>4. tz' \in [pending : TimeZones \union {NoChoice}, dirty : BOOLEAN,
                   env : TimeZones, name : TimeZones]
      BY <3>1
    <3> QED
      BY <2>1, <3>1, <3>2, <3>3, <3>4
  <2>2. CASE tick.at = "name"
    <3>1. /\ tick' = [at |-> "save", v |-> tick.v]
          /\ tz' = [tz EXCEPT !.name = tick.v] /\ tick.v \in TimeZones
          /\ UNCHANGED <<fmt, stored, wanted, slipped>>
      BY <1>2, <2>2 DEF tz_apply
    <3>2. /\ tz'.env = tz.env /\ tz'.name = tick.v
          /\ tz'.dirty = tz.dirty /\ tz'.pending = tz.pending
      BY <3>1
    <3>3. tick'.at = "save" /\ tick'.v = tick.v
      BY <3>1
    <3>4. tz' \in [pending : TimeZones \union {NoChoice}, dirty : BOOLEAN,
                   env : TimeZones, name : TimeZones]
      BY <3>1
    <3> QED
      BY <2>2, <3>1, <3>2, <3>3, <3>4
  <2> QED
    BY <1>2, <2>1, <2>2 DEF tz_apply
<1>3. CASE tz_save
  <2>1. /\ tick.at = "save" /\ tick' = [at |-> "fmt", v |-> NoChoice]
        /\ tick.v \in TimeZones
        /\ UNCHANGED <<tz, fmt, wanted>>
    BY <1>3 DEF tz_save
  <2>2. tick'.at = "fmt" /\ tick'.v = NoChoice
    BY <2>1
  <2>3. CASE stored' = [stored EXCEPT !.zone = tick.v] /\ slipped' = slipped
    <3>1. stored'.zone = tick.v /\ stored'.format = stored.format
      BY <2>3
    <3>2. stored' \in [zone : TimeZones \union {NoChoice},
                       format : Formats \union {NoChoice}]
      BY <2>1, <2>3
    <3>3. tick.v # NoChoice
      BY <2>1, ClockAssumption
    <3> QED
      BY <2>1, <2>2, <2>3, <3>1, <3>2, <3>3
  <2>4. CASE slipped' = TRUE /\ stored' = stored
    BY <2>1, <2>2, <2>4
  <2> QED
    BY <1>3, <2>3, <2>4 DEF tz_save
<1> QED
  BY <1>1, <1>2, <1>3

(* So does the format, unless one was asked for between its reading and    *)
(* its clearing; and a boot starts from what is in flash.                  *)
LEMMA ClkFormat ==
    ASSUME ClkInv, ReadFormat \/ ClearFormat \/ fmt_save \/ PowerCut
    PROVE  ClkInv'
<1> USE DEF ClkInv, ClkTypeOK, ZoneInv, FormatInv, SavedZone, Handed, TickAt,
            TickGoes
<1>1. CASE ReadFormat
  <2>1. /\ tick.at \in {"fmt", "idle"}
        /\ UNCHANGED <<tz, fmt, stored, wanted, slipped>>
    BY <1>1 DEF ReadFormat
  <2>2. CASE /\ fmt.pending # NoChoice
             /\ tick' = [at |-> "fmtTaken", v |-> fmt.pending]
    <3>1. tick'.at = "fmtTaken" /\ tick'.v = fmt.pending
      BY <2>2
    <3> QED
      BY <2>1, <2>2, <3>1
  <2>3. CASE fmt.pending = NoChoice /\ tick' = AtRestTick
    <3>1. tick'.at = "idle" /\ tick'.v = NoChoice
      BY <2>3 DEF AtRestTick
    <3>2. tick' \in [at : {"idle"}, v : {NoChoice}]
      BY <2>3 DEF AtRestTick
    <3> QED
      BY <2>1, <2>3, <3>1, <3>2
  <2> QED
    BY <1>1, <2>2, <2>3 DEF ReadFormat
<1>2. CASE ClearFormat
  <2>1. /\ tick.at = "fmtTaken" /\ tick' = [at |-> "fmtSave", v |-> tick.v]
        /\ fmt' = [pending |-> NoChoice, mode |-> tick.v]
        /\ UNCHANGED <<tz, stored, wanted, slipped>>
    BY <1>2 DEF ClearFormat
  <2>2. /\ tick'.at = "fmtSave" /\ tick'.v = tick.v
        /\ fmt'.pending = NoChoice /\ fmt'.mode = tick.v
    BY <2>1
  <2>3. ~slipped => tick.v = wanted.format
    BY <2>1
  <2> QED
    BY <2>1, <2>2, <2>3
<1>3. CASE fmt_save
  <2>1. /\ tick.at = "fmtSave" /\ tick' = AtRestTick
        /\ UNCHANGED <<tz, fmt, wanted>>
    BY <1>3 DEF fmt_save
  <2>2. /\ tick'.at = "idle" /\ tick'.v = NoChoice
        /\ tick' \in [at : {"idle"}, v : {NoChoice}]
    BY <2>1 DEF AtRestTick
  <2>3. CASE stored' = [stored EXCEPT !.format = tick.v] /\ slipped' = slipped
    <3>1. stored'.format = tick.v /\ stored'.zone = stored.zone
      BY <2>3
    <3>2. stored' \in [zone : TimeZones \union {NoChoice},
                       format : Formats \union {NoChoice}]
      BY <2>1, <2>3
    <3> QED
      BY <2>1, <2>2, <2>3, <3>1, <3>2
  <2>4. CASE slipped' = TRUE /\ stored' = stored
    BY <2>1, <2>2, <2>4
  <2> QED
    BY <1>3, <2>3, <2>4 DEF fmt_save
<1>4. CASE PowerCut
  <2>1. SavedZone \in TimeZones
    BY ClockAssumption
  <2>2. /\ tz' = ZoneIn(SavedZone)
        /\ fmt' = [pending |-> NoChoice, mode |-> stored.format]
        /\ wanted' = [zone |-> SavedZone, format |-> stored.format]
        /\ tick' = AtRestTick /\ slipped' = FALSE /\ stored' = stored
    BY <1>4 DEF PowerCut
  <2> HIDE DEF SavedZone
  <2>3. /\ tz'.dirty = FALSE /\ tz'.env = SavedZone /\ tz'.name = SavedZone
        /\ tz' \in [pending : {NoChoice}, dirty : BOOLEAN,
                     env : TimeZones, name : TimeZones]
    BY <2>1, <2>2 DEF ZoneIn
  <2>4. /\ fmt'.pending = NoChoice /\ fmt'.mode = stored.format
        /\ wanted'.zone = SavedZone /\ wanted'.format = stored.format
    BY <2>2
  <2>5. tick'.at = "idle" /\ tick' \in [at : {"idle"}, v : {NoChoice}]
    BY <2>2 DEF AtRestTick
  <2>6. SavedZone' = SavedZone
    BY <2>2 DEF SavedZone
  <2>7. slipped' \in BOOLEAN
    BY <2>2
  <2>8. wanted' \in [zone : TimeZones, format : Formats \union {NoChoice}]
    BY <2>1, <2>2
  <2> QED
    BY <2>1, <2>2, <2>3, <2>4, <2>5, <2>6, <2>7, <2>8
<1> QED
  BY <1>1, <1>2, <1>3, <1>4

(* Whatever was asked for last is in force and in flash once the loop has  *)
(* nothing more to take, but for the slip between clock.c:440 and 443.     *)
THEOREM ChoiceAlwaysLands == ClkSpec => []ChoiceLands
<1>1. ClkInit => ClkInv
  <2> SUFFICES ASSUME ClkInit PROVE ClkInv
    OBVIOUS
  <2>1. tz \in [pending : {NoChoice}, dirty : BOOLEAN,
                env : TimeZones, name : TimeZones]
    BY ClockAssumption DEF ClkInit, ZoneIn
  <2>2. tz.env = DefaultZone /\ tz.name = DefaultZone /\ ~tz.dirty
    BY DEF ClkInit, ZoneIn
  <2>3. tick.at = "idle" /\ tick \in [at : {"idle"}, v : {NoChoice}]
    BY DEF ClkInit, AtRestTick
  <2>4. slipped \in BOOLEAN
    BY DEF ClkInit
  <2> QED
    BY <2>1, <2>2, <2>3, <2>4, ClockAssumption
       DEF ClkInit, ClkInv, ClkTypeOK, ZoneInv, FormatInv, SavedZone, Handed
<1>2. ClkInv /\ [ClkNext]_clkvars => ClkInv'
  BY ClkAsked, ClkZone, ClkFormat DEF ClkNext
<1>3. ClkInv => ChoiceLands
  BY DEF ClkInv, ClkTypeOK, ZoneInv, FormatInv, ChoiceLands, Handed, TickAt
<1> QED
  BY <1>1, <1>2, <1>3, PTL DEF ClkSpec

-----------------------------------------------------------------------------
(***************************************************************************)
(* Settings.  A level that is not in flash is owed to it by somebody: the  *)
(* panel that has raised or is about to raise a flag and ask, or the       *)
(* worker that has yet to read the level, or has read it as it is.         *)
(***************************************************************************)
Working == {"clear", "read", "write", "gain", "clearGain", "writeGain"}

SetTypeOK ==
    /\ level \in [Names -> Levels] /\ flashed \in [Names -> 0 .. Top + 1]
    /\ unsaved \in [Names -> BOOLEAN] /\ crossed \subseteq Names
    /\ {pressed, asked} \subseteq BOOLEAN
    /\ \/ panel = NoSetting
       \/ panel \in [at : {"flag", "changed"}, name : Names, v : Levels]
    /\ \/ voice = NoSetting
       \/ voice \in [at : {"flag", "clear", "write"}, name : Names, v : Levels]
    /\ \/ saver = NoSetting
       \/ saver \in [at : Working, name : Names, v : Levels, gain : BOOLEAN]
    /\ saver.at \in {"clear", "read", "write"} => saver.name = "volume"
    /\ saver.at \in {"clearGain", "writeGain"} => saver.name = "gain"

Asks == pressed \/ asked \/ panel.at = "changed"

Owed(n) ==
    \/ n \in crossed
    \/ panel.name = n /\ panel.at = "flag"
    \/ unsaved[n] /\ Asks

VolumeComing ==
    \/ saver.at \in {"clear", "read"}
    \/ saver.at = "write" /\ saver.v = level["volume"]

GainComing ==
    \/ saver.at \in {"clear", "read", "write", "gain"} /\ saver.gain
    \/ saver.at \in {"clearGain", "writeGain"} /\ saver.v = level["gain"]

Kept(n) ==
    \/ Owed(n) \/ flashed[n] > Top \/ flashed[n] = level[n] \/ voice.name = n
    \/ n = "volume" /\ VolumeComing
    \/ n = "gain" /\ GainComing

SaverInv ==
    /\ saver.at = "write" => Owed("volume") \/ saver.v = level["volume"]
    /\ saver.at = "clearGain" => "gain" \in crossed \/ saver.v = level["gain"]
    /\ saver.at = "writeGain" => Owed("gain") \/ saver.v = level["gain"]

SetInv ==
    /\ SetTypeOK
    /\ \A n \in Names : Kept(n) /\ (Crossing(n) => n \in crossed)
    /\ voice # NoSetting => voice.name \in crossed
                            \/ voice.v = level[voice.name]
    /\ SaverInv

(* Who is in a setting names it, and a level that two have named at once   *)
(* promises nothing more.                                                  *)
LEMMA SetIdle ==
    ASSUME SetTypeOK
    PROVE  /\ NoSetting.at = "idle" /\ NoSetting.name = "none"
           /\ panel.at = "idle" <=> panel = NoSetting
           /\ voice.at = "idle" <=> voice = NoSetting
           /\ saver.at = "idle" <=> saver = NoSetting
           /\ panel.name \in Names <=> panel # NoSetting
           /\ voice.name \in Names <=> voice # NoSetting
           /\ "none" \notin Names
BY DEF SetTypeOK, NoSetting, Names, Working

(* A step of a level stays on the dial.                                    *)
LEMMA SteppedLevel ==
    ASSUME NEW l \in Levels, NEW d
    PROVE  Stepped(l, d) \in Levels
<1> USE SettingsAssumption DEF Levels
<1>1. l \in Nat /\ l <= Top
  OBVIOUS
<1> DEFINE up    == ((l \div Grid) + 1) * Grid
           marks == (l + Grid - 1) \div Grid
           down  == (marks - 1) * Grid
<1>2. up \in Nat
  <2>1. l \div Grid \in Nat
    BY <1>1
  <2> QED
    BY <2>1
<1>3. marks \in Nat /\ marks * Grid <= l + Grid - 1
  <2> DEFINE a == l + Grid - 1
  <2>1. a \in Nat
    BY <1>1
  <2> HIDE DEF a
  <2>2. a \div Grid \in Nat /\ (a \div Grid) * Grid <= a
    BY <2>1
  <2> QED
    BY <2>2 DEF a
<1>4. marks # 0 => down \in Nat /\ down <= l
  <2>1. down = marks * Grid - Grid
    BY <1>3
  <2>2. down <= l
    BY <1>1, <1>3, <2>1
  <2>3. marks # 0 => marks - 1 \in Nat
    BY <1>3
  <2> QED
    BY <2>2, <2>3
<1> HIDE DEF up, marks, down
<1>5. Stepped(l, d) = IF d = "up" THEN (IF up > Top THEN Top ELSE up)
                      ELSE IF marks = 0 THEN 0 ELSE down
  BY DEF Stepped, up, marks, down
<1> QED
  BY <1>1, <1>2, <1>3, <1>4, <1>5

(* The panel's step of a level, its flag and its mark.                     *)
LEMMA SetPanel ==
    ASSUME SetInv, SetNext,
           \/ \E n \in Names, d \in {"up", "down"} : PanelStep(n, d)
           \/ PanelFlags \/ PanelChanged \/ controls_commit
    PROVE  SetInv'
<1> USE DEF SetInv
<1>0. /\ crossed' = crossed \union {n \in Names : Crossing(n)'}
      /\ crossed' \subseteq Names /\ crossed \subseteq crossed'
      /\ \A n \in Names : Crossing(n)' => n \in crossed'
  BY DEF SetNext, SetTypeOK
<1>i. SetTypeOK /\ NoSetting.at = "idle" /\ NoSetting.name = "none"
  BY SetIdle
<1>1. ASSUME NEW m \in Names, NEW d \in {"up", "down"}, PanelStep(m, d)
      PROVE  SetInv'
  <2> DEFINE v == Stepped(level[m], d)
  <2>1. /\ panel.at = "idle" /\ level' = [level EXCEPT ![m] = v]
        /\ panel' = In("flag", m, v)
        /\ UNCHANGED <<unsaved, flashed, pressed, asked, voice, saver>>
    BY <1>1 DEF PanelStep
  <2>2. v \in Levels
    BY <1>i, SteppedLevel DEF SetTypeOK
  <2> HIDE DEF v
  <2>3. panel'.at = "flag" /\ panel'.name = m
    BY <2>1 DEF In
  <2>4. \A n \in Names : n # m => level'[n] = level[n]
    BY <1>i, <2>1 DEF SetTypeOK
  <2>5. SetTypeOK'
    <3>1. panel' \in [at : {"flag", "changed"}, name : Names, v : Levels]
      BY <2>1, <2>2 DEF In
    <3>2. level' \in [Names -> Levels]
      BY <1>i, <2>1, <2>2 DEF SetTypeOK
    <3>3. {pressed, asked}' \subseteq BOOLEAN
      BY <1>i, <2>1 DEF SetTypeOK
    <3> QED
      BY <1>0, <1>i, <2>1, <3>1, <3>2, <3>3 DEF SetTypeOK
  <2>6. ASSUME NEW n \in Names PROVE Kept(n)'
    <3>1. CASE n = m
      BY <2>3, <3>1 DEF Kept, Owed
    <3>2. CASE n # m
      <4>1. Kept(n) /\ level'[n] = level[n] /\ panel.name # n
        BY <1>i, <2>1, <2>4, <3>2, SetIdle
      <4> QED
        BY <1>0, <2>1, <2>3, <4>1
           DEF Kept, Owed, Asks, VolumeComing, GainComing
    <3> QED
      BY <3>1, <3>2
  <2>7. voice' # NoSetting => \/ voice'.name \in crossed'
                             \/ voice'.v = level'[voice'.name]
    <3>1. voice # NoSetting => voice.name \in Names
      BY <1>i, SetIdle
    <3>2. voice # NoSetting /\ voice.name = m => m \in crossed'
      BY <1>0, <2>1, <2>3 DEF Crossing
    <3> QED
      BY <1>0, <2>1, <2>4, <3>1, <3>2
  <2>8. SaverInv'
    <3>1. m = "gain" /\ saver.at = "clearGain" => m \in crossed'
      BY <1>0, <2>1, <2>3 DEF Crossing
    <3>2. Owed(m)'
      BY <2>3 DEF Owed
    <3>3. \A n \in Names : Owed(n) /\ n # m => Owed(n)'
      <4> SUFFICES ASSUME NEW n \in Names, Owed(n), n # m PROVE Owed(n)'
        OBVIOUS
      <4>1. panel.name # n
        BY <1>i, <2>1, SetIdle
      <4> QED
        BY <1>0, <2>1, <2>3, <4>1 DEF Owed, Asks
    <3>4. "volume" \in Names /\ "gain" \in Names
      BY DEF Names
    <3>5. saver.at = "write" =>
              Owed("volume")' \/ saver.v = level'["volume"]
      BY <2>4, <3>2, <3>3, <3>4 DEF SaverInv
    <3>6. saver.at = "clearGain" =>
              "gain" \in crossed' \/ saver.v = level'["gain"]
      BY <1>0, <2>4, <3>1, <3>4 DEF SaverInv
    <3>7. saver.at = "writeGain" => Owed("gain")' \/ saver.v = level'["gain"]
      BY <2>4, <3>2, <3>3, <3>4 DEF SaverInv
    <3> QED
      BY <2>1, <3>5, <3>6, <3>7 DEF SaverInv
  <2> QED
    BY <1>0, <2>5, <2>6, <2>7, <2>8
<1>2. CASE PanelFlags
  <2>1. /\ panel.at = "flag" /\ panel' = In("changed", panel.name, panel.v)
        /\ unsaved' = [unsaved EXCEPT ![panel.name] = TRUE]
        /\ UNCHANGED <<level, flashed, pressed, asked, voice, saver>>
    BY <1>2 DEF PanelFlags
  <2>2. panel.name \in Names /\ panel.v \in Levels
    BY <1>i, <2>1 DEF SetTypeOK
  <2>3. panel'.at = "changed" /\ panel'.name = panel.name
    BY <2>1 DEF In
  <2>4. \A n \in Names : unsaved'[n] = (unsaved[n] \/ n = panel.name)
    BY <1>i, <2>1, <2>2 DEF SetTypeOK
  <2>5. SetTypeOK'
    <3>1. panel' \in [at : {"flag", "changed"}, name : Names, v : Levels]
      BY <2>1, <2>2 DEF In
    <3>2. unsaved' \in [Names -> BOOLEAN]
      BY <1>i, <2>1, <2>2 DEF SetTypeOK
    <3>3. {pressed, asked}' \subseteq BOOLEAN
      BY <1>i, <2>1 DEF SetTypeOK
    <3> QED
      BY <1>0, <1>i, <2>1, <3>1, <3>2, <3>3 DEF SetTypeOK
  <2>6. \A n \in Names : Owed(n) => Owed(n)'
    BY <1>0, <2>1, <2>3, <2>4 DEF Owed, Asks
  <2>7. \A n \in Names : Kept(n)'
    BY <2>1, <2>6 DEF Kept, VolumeComing, GainComing
  <2>8. SaverInv'
    BY <1>0, <2>1, <2>6 DEF SaverInv, Names
  <2> QED
    BY <1>0, <2>1, <2>5, <2>7, <2>8
<1>3. CASE PanelChanged \/ controls_commit
  <2>1. /\ UNCHANGED <<level, unsaved, flashed, voice, saver>>
        /\ Asks => Asks'
        /\ panel.at # "flag" /\ (panel' = panel \/ panel' = NoSetting)
    BY <1>3, <1>i DEF PanelChanged, controls_commit, Asks
  <2>2. {pressed, asked}' \subseteq BOOLEAN
    BY <1>3, <1>i DEF PanelChanged, controls_commit, SetTypeOK
  <2>3. SetTypeOK'
    BY <1>0, <1>i, <2>1, <2>2 DEF SetTypeOK
  <2>4. \A n \in Names : Owed(n) => Owed(n)'
    BY <1>0, <2>1 DEF Owed
  <2>5. \A n \in Names : Kept(n)'
    BY <2>1, <2>4 DEF Kept, VolumeComing, GainComing
  <2>6. SaverInv'
    BY <1>0, <2>1, <2>4 DEF SaverInv, Names
  <2> QED
    BY <1>0, <2>1, <2>3, <2>5, <2>6
<1> QED
  BY <1>1, <1>2, <1>3

(* What the voice sets, flags and writes on the spot.                      *)
LEMMA SetVoice ==
    ASSUME SetInv, SetNext,
           \/ \E n \in Names, v \in Levels : VoiceSets(n, v)
           \/ VoiceFlags \/ VoiceSaves
    PROVE  SetInv'
<1> USE DEF SetInv
<1>0. /\ crossed' = crossed \union {n \in Names : Crossing(n)'}
      /\ crossed' \subseteq Names /\ crossed \subseteq crossed'
      /\ \A n \in Names : Crossing(n)' => n \in crossed'
  BY DEF SetNext, SetTypeOK
<1>i. SetTypeOK /\ NoSetting.at = "idle" /\ NoSetting.name = "none"
  BY SetIdle
<1>1. ASSUME NEW m \in Names, NEW v \in Levels, VoiceSets(m, v)
      PROVE  SetInv'
  <2>1. /\ voice.at = "idle" /\ level' = [level EXCEPT ![m] = v]
        /\ voice' = In(IF v = level[m] THEN "clear" ELSE "flag", m, v)
        /\ UNCHANGED <<unsaved, flashed, panel, pressed, asked, saver>>
    BY <1>1 DEF VoiceSets
  <2>2. voice'.name = m /\ voice'.v = v
    BY <2>1 DEF In
  <2>3. level'[m] = v /\ \A n \in Names : n # m => level'[n] = level[n]
    BY <1>i, <2>1 DEF SetTypeOK
  <2>4. SetTypeOK'
    <3>1. voice' \in
                [at : {"flag", "clear", "write"}, name : Names, v : Levels]
      BY <2>1 DEF In
    <3>2. level' \in [Names -> Levels]
      BY <1>i, <2>1 DEF SetTypeOK
    <3>3. {pressed, asked}' \subseteq BOOLEAN
      BY <1>i, <2>1 DEF SetTypeOK
    <3> QED
      BY <1>0, <1>i, <2>1, <3>1, <3>2, <3>3 DEF SetTypeOK
  <2>5. \A n \in Names : Owed(n) => Owed(n)'
    BY <1>0, <2>1 DEF Owed, Asks
  <2>6. ASSUME NEW n \in Names PROVE Kept(n)'
    <3>1. CASE n = m
      BY <2>2, <3>1 DEF Kept
    <3>2. CASE n # m
      <4>1. Kept(n) /\ level'[n] = level[n] /\ voice.name # n
        BY <1>i, <2>1, <2>3, <3>2, SetIdle
      <4> QED
        BY <2>1, <2>5, <4>1 DEF Kept, VolumeComing, GainComing
    <3> QED
      BY <3>1, <3>2
  <2>7. SaverInv'
    <3>1. saver.at # "idle" => Owed(m)' /\ m \in crossed'
      BY <1>0, <2>1, <2>2 DEF Crossing, Owed
    <3>2. "volume" \in Names /\ "gain" \in Names
      BY DEF Names
    <3>3. saver.at = "write" =>
              Owed("volume")' \/ saver.v = level'["volume"]
      BY <2>3, <2>5, <3>1, <3>2 DEF SaverInv
    <3>4. saver.at = "clearGain" =>
              "gain" \in crossed' \/ saver.v = level'["gain"]
      BY <1>0, <2>3, <3>1, <3>2 DEF SaverInv
    <3>5. saver.at = "writeGain" => Owed("gain")' \/ saver.v = level'["gain"]
      BY <2>3, <2>5, <3>1, <3>2 DEF SaverInv
    <3> QED
      BY <2>1, <3>3, <3>4, <3>5 DEF SaverInv
  <2> QED
    BY <1>0, <2>2, <2>3, <2>4, <2>6, <2>7
<1>2. CASE VoiceFlags
  <2>1. /\ voice.at \in {"flag", "clear"}
        /\ voice' = In(IF voice.at = "flag" THEN "clear" ELSE "write",
                       voice.name, voice.v)
        /\ unsaved' = [unsaved EXCEPT ![voice.name] = (voice.at = "flag")]
        /\ UNCHANGED <<level, flashed, panel, pressed, asked, saver>>
    BY <1>2 DEF VoiceFlags
  <2>2. voice # NoSetting /\ voice.name \in Names /\ voice.v \in Levels
    BY <1>i, <2>1 DEF SetTypeOK
  <2>3. voice'.name = voice.name /\ voice'.v = voice.v
    BY <2>1 DEF In
  <2>4. \A n \in Names : n # voice.name => unsaved'[n] = unsaved[n]
    BY <1>i, <2>1 DEF SetTypeOK
  <2>5. SetTypeOK'
    <3>1. voice' \in
                [at : {"flag", "clear", "write"}, name : Names, v : Levels]
      BY <2>1, <2>2 DEF In
    <3>2. unsaved' \in [Names -> BOOLEAN]
      BY <1>i, <2>1, <2>2 DEF SetTypeOK
    <3>3. {pressed, asked}' \subseteq BOOLEAN
      BY <1>i, <2>1 DEF SetTypeOK
    <3> QED
      BY <1>0, <1>i, <2>1, <3>1, <3>2, <3>3 DEF SetTypeOK
  <2>6. \A n \in Names : n # voice.name /\ Owed(n) => Owed(n)'
    BY <1>0, <2>1, <2>4 DEF Owed, Asks
  <2>7. ASSUME NEW n \in Names PROVE Kept(n)'
    <3>1. CASE n = voice.name
      BY <2>3, <3>1 DEF Kept
    <3>2. CASE n # voice.name
      BY <2>1, <2>6, <3>2 DEF Kept, VolumeComing, GainComing
    <3> QED
      BY <3>1, <3>2
  <2>8. SaverInv'
    <3>1. saver.at # "idle" => voice.name \in crossed
      BY <2>2 DEF Crossing
    <3>2. \A n \in Names : saver.at # "idle" /\ Owed(n) => Owed(n)'
      BY <1>0, <2>6, <3>1 DEF Owed
    <3> QED
      BY <1>0, <2>1, <3>2 DEF SaverInv, Names
  <2> QED
    BY <1>0, <2>1, <2>2, <2>3, <2>5, <2>7, <2>8
<1>3. CASE VoiceSaves
  <2>1. /\ voice.at = "write" /\ voice' = NoSetting
        /\ UNCHANGED <<level, unsaved, panel, pressed, asked, saver>>
    BY <1>3 DEF VoiceSaves
  <2>2. voice # NoSetting /\ voice.name \in Names /\ voice.v \in Levels
    BY <1>i, <2>1 DEF SetTypeOK
  <2>3. /\ flashed' \in [Names -> 0 .. Top + 1]
        /\ \A n \in Names : n # voice.name => flashed'[n] = flashed[n]
        /\ flashed'[voice.name] = voice.v \/ flashed'[voice.name] > Top
    <3>1. \/ flashed' = [flashed EXCEPT ![voice.name] = voice.v]
          \/ flashed' = [flashed EXCEPT ![voice.name] = Top + 1]
      BY <1>3 DEF VoiceSaves, Writes
    <3> QED
      BY <1>i, <2>2, <3>1, SettingsAssumption DEF SetTypeOK, Levels
  <2>4. SetTypeOK'
    <3>1. {pressed, asked}' \subseteq BOOLEAN
      BY <1>i, <2>1 DEF SetTypeOK
    <3> QED
      BY <1>0, <1>i, <2>1, <2>3, <3>1 DEF SetTypeOK
  <2>5. \A n \in Names : Owed(n) => Owed(n)'
    BY <1>0, <2>1 DEF Owed, Asks
  <2>6. ASSUME NEW n \in Names PROVE Kept(n)'
    <3>1. CASE n = voice.name
      <4>1. n \in crossed' \/ voice.v = level'[n]
        BY <1>0, <2>1, <2>2, <3>1
      <4> QED
        BY <2>3, <3>1, <4>1 DEF Kept, Owed
    <3>2. CASE n # voice.name
      BY <2>1, <2>3, <2>5, <3>2 DEF Kept, VolumeComing, GainComing
    <3> QED
      BY <3>1, <3>2
  <2>7. SaverInv'
    BY <1>0, <2>1, <2>5 DEF SaverInv, Names
  <2> QED
    BY <1>0, <2>1, <2>4, <2>6, <2>7
<1> QED
  BY <1>1, <1>2, <1>3

(* The worker looks, and takes the asking over.                            *)
LEMMA SetLooks ==
    ASSUME SetInv, SetNext, SaverLooks
    PROVE  SetInv'
<1> USE DEF SetInv
<1>0. /\ crossed' = crossed \union {n \in Names : Crossing(n)'}
      /\ crossed' \subseteq Names /\ crossed \subseteq crossed'
      /\ \A n \in Names : Crossing(n)' => n \in crossed'
  BY DEF SetNext, SetTypeOK
<1>i. SetTypeOK /\ NoSetting.at = "idle" /\ NoSetting.name = "none"
  BY SetIdle
<1>1. /\ saver.at = "idle"
      /\ saver' = [at |-> IF unsaved.volume THEN "clear" ELSE "gain",
                   name |-> "volume", v |-> 0, gain |-> unsaved.gain]
      /\ UNCHANGED <<level, unsaved, flashed, panel, pressed, voice>>
  BY DEF SaverLooks
<1>2. /\ saver'.at = IF unsaved["volume"] THEN "clear" ELSE "gain"
      /\ saver'.gain = unsaved["gain"]
  BY <1>1
<1>3. SetTypeOK'
  <2>1. unsaved["gain"] \in BOOLEAN /\ 0 \in Levels
    BY <1>i, SettingsAssumption DEF SetTypeOK, Names, Levels
  <2>2. /\ saver' \in [at : Working, name : Names, v : Levels, gain : BOOLEAN]
        /\ saver'.name = "volume" /\ saver'.at \in {"clear", "gain"}
    BY <1>1, <2>1 DEF Working, Names
  <2>3. asked' \in BOOLEAN /\ pressed' \in BOOLEAN
    BY <1>i, <1>1 DEF SaverLooks, SetTypeOK
  <2> QED
    BY <1>0, <1>i, <1>1, <2>2, <2>3 DEF SetTypeOK
<1>4. ASSUME NEW n \in Names PROVE Kept(n)'
  <2>1. n = "volume" \/ n = "gain"
    BY DEF Names
  <2>2. unsaved[n] => Kept(n)'
    BY <1>2, <2>1 DEF Kept, VolumeComing, GainComing
  <2>3. ~unsaved[n] => Kept(n)'
    <3>1. Owed(n) /\ ~unsaved[n] => Owed(n)'
      BY <1>0, <1>1 DEF Owed
    <3>2. ~VolumeComing /\ ~GainComing
      BY <1>1 DEF VolumeComing, GainComing
    <3> QED
      BY <1>1, <3>1, <3>2 DEF Kept
  <2> QED
    BY <2>2, <2>3
<1>5. SaverInv'
  BY <1>2 DEF SaverInv
<1> QED
  BY <1>0, <1>1, <1>3, <1>4, <1>5

(* What it clears, reads and writes of the volume.                         *)
LEMMA SetSavesVolume ==
    ASSUME SetInv, SetNext, PersistVolume \/ SavesVolume
    PROVE  SetInv'
<1> USE DEF SetInv
<1>0. /\ crossed' = crossed \union {n \in Names : Crossing(n)'}
      /\ crossed' \subseteq Names /\ crossed \subseteq crossed'
      /\ \A n \in Names : Crossing(n)' => n \in crossed'
  BY DEF SetNext, SetTypeOK
<1>i. SetTypeOK /\ NoSetting.at = "idle" /\ NoSetting.name = "none"
  BY SetIdle
<1>n. "volume" \in Names /\ "gain" \in Names /\ "gain" # "volume"
      /\ \A n \in Names : n = "volume" \/ n = "gain"
  BY DEF Names
<1>1. ASSUME saver.at = "clear", saver' = [saver EXCEPT !.at = "read"],
             unsaved' = [unsaved EXCEPT !["volume"] = FALSE],
             UNCHANGED <<level, flashed, panel, pressed, asked, voice>>
      PROVE  SetInv'
  <2>1. saver \in [at : Working, name : Names, v : Levels, gain : BOOLEAN]
    BY <1>i, <1>1 DEF SetTypeOK
  <2>2. /\ saver'.at = "read"
        /\ saver'.gain = saver.gain
        /\ saver'.name = saver.name
    BY <1>1, <2>1
  <2>3. saver' \in [at : Working, name : Names, v : Levels, gain : BOOLEAN]
    BY <1>1, <2>1 DEF Working
  <2>4. unsaved'["gain"] = unsaved["gain"] /\ unsaved' \in [Names -> BOOLEAN]
    BY <1>1, <1>i, <1>n DEF SetTypeOK
  <2>5. SetTypeOK'
    <3>1. {pressed, asked}' \subseteq BOOLEAN
      BY <1>i, <1>1 DEF SetTypeOK
    <3> QED
      BY <1>0, <1>i, <1>1, <2>2, <2>3, <2>4, <3>1 DEF SetTypeOK
  <2>6. Kept("volume")'
    BY <2>2 DEF Kept, VolumeComing
  <2>7. Kept("gain")'
    <3>1. Owed("gain") => Owed("gain")'
      BY <1>0, <1>1, <2>4 DEF Owed, Asks
    <3> QED
      BY <1>1, <1>n, <2>2, <3>1 DEF Kept, GainComing
  <2>8. SaverInv'
    BY <2>2 DEF SaverInv
  <2> QED
    BY <1>0, <1>1, <1>n, <2>5, <2>6, <2>7, <2>8
<1>2. ASSUME saver.at = "read",
             saver' = [saver EXCEPT !.at = "write", !.v = level["volume"]],
             UNCHANGED <<level, unsaved, flashed, panel, pressed, asked,
                 voice>>
      PROVE  SetInv'
  <2>1. saver \in [at : Working, name : Names, v : Levels, gain : BOOLEAN]
        /\ level["volume"] \in Levels
    BY <1>i, <1>2, <1>n DEF SetTypeOK
  <2>2. /\ saver'.at = "write" /\ saver'.gain = saver.gain
        /\ saver'.name = saver.name /\ saver'.v = level["volume"]
    BY <1>2, <2>1
  <2>3. saver' \in [at : Working, name : Names, v : Levels, gain : BOOLEAN]
    BY <1>2, <2>1 DEF Working
  <2>5. SetTypeOK'
    <3>1. {pressed, asked}' \subseteq BOOLEAN
      BY <1>i, <1>2 DEF SetTypeOK
    <3> QED
      BY <1>0, <1>i, <1>2, <2>2, <2>3, <3>1 DEF SetTypeOK
  <2>6. Kept("volume")'
    BY <1>2, <2>2 DEF Kept, VolumeComing
  <2>7. Kept("gain")'
    <3>1. Owed("gain") => Owed("gain")'
      BY <1>0, <1>2 DEF Owed, Asks
    <3> QED
      BY <1>2, <1>n, <2>2, <3>1 DEF Kept, GainComing
  <2>8. SaverInv'
    BY <1>2, <2>2 DEF SaverInv
  <2> QED
    BY <1>0, <1>2, <1>n, <2>5, <2>6, <2>7, <2>8
<1>3. CASE SavesVolume
  <2>0. /\ saver.at = "write" /\ saver' = [saver EXCEPT !.at = "gain"]
        /\ UNCHANGED <<level, unsaved, panel, pressed, asked, voice>>
    BY <1>3 DEF SavesVolume, SaverGoes
  <2>1. /\ saver \in [at : Working, name : Names, v : Levels, gain : BOOLEAN]
        /\ saver.name = "volume"
    BY <1>i, <2>0 DEF SetTypeOK
  <2>2. saver'.at = "gain" /\ saver'.gain = saver.gain
    BY <2>0, <2>1
  <2>3. saver' \in [at : Working, name : Names, v : Levels, gain : BOOLEAN]
    BY <2>0, <2>1 DEF Working
  <2>4. /\ flashed' \in [Names -> 0 .. Top + 1]
        /\ flashed'["gain"] = flashed["gain"]
        /\ flashed'["volume"] = saver.v \/ flashed'["volume"] > Top
    <3>1. \/ flashed' = [flashed EXCEPT !["volume"] = saver.v]
          \/ flashed' = [flashed EXCEPT !["volume"] = Top + 1]
      BY <1>3, <2>1 DEF SavesVolume, Writes
    <3> QED
      BY <1>i, <1>n, <2>1, <3>1, SettingsAssumption DEF SetTypeOK, Levels
  <2>5. SetTypeOK'
    <3>1. {pressed, asked}' \subseteq BOOLEAN
      BY <1>i, <2>0 DEF SetTypeOK
    <3> QED
      BY <1>0, <1>i, <2>0, <2>2, <2>3, <2>4, <3>1 DEF SetTypeOK
  <2>6. \A n \in Names : Owed(n) => Owed(n)'
    BY <1>0, <2>0 DEF Owed, Asks
  <2>7. Kept("volume")'
    BY <1>n, <2>0, <2>4, <2>6 DEF SaverInv, Kept
  <2>8. Kept("gain")'
    BY <1>n, <2>0, <2>2, <2>4, <2>6 DEF Kept, GainComing
  <2>9. SaverInv'
    BY <2>2 DEF SaverInv
  <2> QED
    BY <1>0, <1>n, <2>0, <2>5, <2>7, <2>8, <2>9
<1> QED
  BY <1>1, <1>2, <1>3, <1>i DEF PersistVolume, SaverGoes

(* And of the gain, which it reads first.                                  *)
LEMMA SetSavesGain ==
    ASSUME SetInv, SetNext, ReadsGain \/ ClearsGain \/ SavesGain
    PROVE  SetInv'
<1> USE DEF SetInv
<1>0. /\ crossed' = crossed \union {n \in Names : Crossing(n)'}
      /\ crossed' \subseteq Names /\ crossed \subseteq crossed'
      /\ \A n \in Names : Crossing(n)' => n \in crossed'
  BY DEF SetNext, SetTypeOK
<1>i. SetTypeOK /\ NoSetting.at = "idle" /\ NoSetting.name = "none"
  BY SetIdle
<1>n. "volume" \in Names /\ "gain" \in Names /\ "gain" # "volume"
      /\ \A n \in Names : n = "volume" \/ n = "gain"
  BY DEF Names
<1>1. CASE ReadsGain
  <2>0. /\ saver.at = "gain"
        /\ saver' = IF saver.gain
                    THEN [saver EXCEPT !.at = "clearGain", !.name = "gain",
                                       !.v = level["gain"]]
                    ELSE [NoSetting EXCEPT !.at = "idle"]
        /\ UNCHANGED <<level, unsaved, flashed, panel, pressed, asked, voice>>
    BY <1>1 DEF ReadsGain
  <2>1. saver \in [at : Working, name : Names, v : Levels, gain : BOOLEAN]
        /\ level["gain"] \in Levels
    BY <1>i, <1>n, <2>0 DEF SetTypeOK
  <2>2. [NoSetting EXCEPT !.at = "idle"] = NoSetting
    BY DEF NoSetting
  <2>3. \/ ~saver.gain /\ saver' = NoSetting
        \/ /\ saver.gain /\ saver'.at = "clearGain" /\ saver'.name = "gain"
           /\ saver'.v = level["gain"]
           /\ saver' \in
                 [at : Working, name : Names, v : Levels, gain : BOOLEAN]
    BY <1>n, <2>0, <2>1, <2>2 DEF Working
  <2>4. SetTypeOK'
    <3>1. {pressed, asked}' \subseteq BOOLEAN
      BY <1>i, <2>0 DEF SetTypeOK
    <3> QED
      BY <1>0, <1>i, <2>0, <2>3, <3>1 DEF SetTypeOK
  <2>5. \A n \in Names : Owed(n) => Owed(n)'
    BY <1>0, <2>0 DEF Owed, Asks
  <2>6. Kept("volume")'
    BY <1>n, <2>0, <2>5 DEF Kept, VolumeComing
  <2>7. Kept("gain")'
    BY <1>n, <2>0, <2>3, <2>5 DEF Kept, GainComing
  <2>8. SaverInv'
    BY <1>i, <2>0, <2>3 DEF SaverInv
  <2> QED
    BY <1>0, <1>n, <2>0, <2>4, <2>6, <2>7, <2>8
<1>2. CASE ClearsGain
  <2>0. /\ saver.at = "clearGain" /\ saver' = [saver EXCEPT !.at = "writeGain"]
        /\ unsaved' = [unsaved EXCEPT !["gain"] = FALSE]
        /\ UNCHANGED <<level, flashed, panel, pressed, asked, voice>>
    BY <1>2 DEF ClearsGain, SaverGoes
  <2>1. saver \in [at : Working, name : Names, v : Levels, gain : BOOLEAN]
        /\ saver.name = "gain"
    BY <1>i, <2>0 DEF SetTypeOK
  <2>2. saver'.at = "writeGain" /\ saver'.v = saver.v /\ saver'.name = "gain"
    BY <2>0, <2>1
  <2>3. saver' \in [at : Working, name : Names, v : Levels, gain : BOOLEAN]
    BY <2>0, <2>1 DEF Working
  <2>4. /\ unsaved'["volume"] = unsaved["volume"]
        /\ unsaved' \in [Names -> BOOLEAN]
    BY <1>i, <1>n, <2>0 DEF SetTypeOK
  <2>5. SetTypeOK'
    <3>1. {pressed, asked}' \subseteq BOOLEAN
      BY <1>i, <2>0 DEF SetTypeOK
    <3> QED
      BY <1>0, <1>i, <2>0, <2>2, <2>3, <2>4, <3>1 DEF SetTypeOK
  <2>6. Owed("volume") => Owed("volume")'
    BY <1>0, <2>0, <2>4 DEF Owed, Asks
  <2>7. Kept("volume")'
    BY <1>n, <2>0, <2>6 DEF Kept, VolumeComing
  <2>8. Owed("gain")' \/ saver'.v = level'["gain"]
    BY <1>0, <2>0, <2>2 DEF SaverInv, Owed
  <2>9. Kept("gain")'
    BY <2>2, <2>8 DEF Kept, GainComing
  <2>10. SaverInv'
    BY <2>2, <2>8 DEF SaverInv
  <2> QED
    BY <1>0, <1>n, <2>0, <2>5, <2>7, <2>9, <2>10
<1>3. CASE SavesGain
  <2>0. /\ saver.at = "writeGain" /\ saver' = NoSetting
        /\ UNCHANGED <<level, unsaved, panel, pressed, asked, voice>>
    BY <1>3 DEF SavesGain
  <2>1. /\ saver \in [at : Working, name : Names, v : Levels, gain : BOOLEAN]
        /\ saver.name = "gain"
    BY <1>i, <2>0 DEF SetTypeOK
  <2>4. /\ flashed' \in [Names -> 0 .. Top + 1]
        /\ flashed'["volume"] = flashed["volume"]
        /\ flashed'["gain"] = saver.v \/ flashed'["gain"] > Top
    <3>1. \/ flashed' = [flashed EXCEPT !["gain"] = saver.v]
          \/ flashed' = [flashed EXCEPT !["gain"] = Top + 1]
      BY <1>3, <2>1 DEF SavesGain, Writes
    <3> QED
      BY <1>i, <1>n, <2>1, <3>1, SettingsAssumption DEF SetTypeOK, Levels
  <2>5. SetTypeOK'
    <3>1. {pressed, asked}' \subseteq BOOLEAN
      BY <1>i, <2>0 DEF SetTypeOK
    <3> QED
      BY <1>0, <1>i, <2>0, <2>4, <3>1 DEF SetTypeOK
  <2>6. \A n \in Names : Owed(n) => Owed(n)'
    BY <1>0, <2>0 DEF Owed, Asks
  <2>7. Kept("volume")'
    BY <1>n, <2>0, <2>4, <2>6 DEF Kept, VolumeComing
  <2>8. Kept("gain")'
    BY <1>n, <2>0, <2>4, <2>6 DEF SaverInv, Kept
  <2>9. SaverInv'
    BY <1>i, <2>0 DEF SaverInv
  <2> QED
    BY <1>0, <1>n, <2>0, <2>5, <2>7, <2>8, <2>9
<1> QED
  BY <1>1, <1>2, <1>3

(* A level that has come to rest is in flash or on its way there.          *)
THEOREM LevelIsAlwaysSaved == SetSpec => []LevelIsSaved
<1>1. SetInit => SetInv
  <2> SUFFICES ASSUME SetInit PROVE SetInv
    OBVIOUS
  <2>1. Top \in Nat /\ Top \in Levels /\ Top \in 0 .. Top + 1
    BY SettingsAssumption DEF Levels
  <2>2. SetTypeOK
    <3>1. {pressed, asked} \subseteq BOOLEAN
      BY DEF SetInit
    <3> QED
      BY <2>1, <3>1 DEF SetInit, SetTypeOK, NoSetting
  <2>3. \A n \in Names : Kept(n) /\ ~Crossing(n)
    BY DEF SetInit, Kept, Crossing, NoSetting, Names
  <2>4. SaverInv
    BY DEF SetInit, SaverInv, NoSetting
  <2> QED
    BY <2>2, <2>3, <2>4 DEF SetInv, SetInit
<1>2. SetInv /\ [SetNext]_setvars => SetInv'
  <2>1. SetInv /\ UNCHANGED setvars => SetInv'
    BY DEF setvars, SetInv, SetTypeOK, Kept, Owed, Asks, VolumeComing,
           GainComing, Crossing, SaverInv
  <2> QED
    BY <2>1, SetPanel, SetVoice, SetLooks, SetSavesVolume, SetSavesGain
       DEF SetNext, SetStep
<1>3. SetInv => LevelIsSaved
  <2> SUFFICES ASSUME SetInv, NEW n \in Names
               PROVE  \/ n \in crossed \/ flashed[n] > Top
                      \/ flashed[n] = level[n]
                      \/ panel.name = n \/ voice.name = n
                      \/ /\ unsaved[n]
                         /\ (pressed \/ asked \/ panel.at = "changed")
                      \/ saver.at # "idle"
    BY DEF LevelIsSaved
  <2> QED
    BY DEF SetInv, Kept, Owed, Asks, VolumeComing, GainComing
<1> QED
  BY <1>1, <1>2, <1>3, PTL DEF SetSpec

=============================================================================
