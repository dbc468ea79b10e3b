----------------------------- MODULE PanelProofs -----------------------------
(***************************************************************************)
(* Proofs about Gestures and about DeepIdle, the panel that sleeps under   *)
(* them, which share no variable: for any number of touches and changes of *)
(* the battery, and for any clock that wraps and any windows shorter than  *)
(* half its range.                                                         *)
(***************************************************************************)
EXTENDS Gestures, DeepIdle, TLAPS

-----------------------------------------------------------------------------
(***************************************************************************)
(* DeepIdle.  The panel's task on its way in, the waker on its way out:    *)
(* what each has done so far, wherever the other is.                       *)
(***************************************************************************)
WakeInv ==
    /\ lvgl \in {"idle", "enter", "arm", "pause", "flag", "look"}
    /\ waker \in {"wait", "disarm", "pend", "want", "leave", "resume"}
    /\ waker \in {"disarm", "pend", "want", "leave"} => s_deep_idle
    /\ waker = "resume" => ~s_deep_idle
    /\ waker # "wait" => paused
    /\ paused => s_deep_idle \/ lvgl = "flag" \/ waker = "resume"
    /\ s_deep_idle => paused /\ lvgl \in {"idle", "look"}
    /\ lvgl \in {"enter", "arm", "pause"} => ~paused
    /\ lvgl = "flag" => paused /\ waker = "wait"

(* And what that says of the line, the controller and the link.            *)
LineInv ==
    /\ waker \in {"pend", "want", "leave", "resume"} =>
           touchPin = "edge" /\ ~s_touch_armed
    /\ ~s_deep_idle /\ lvgl \in {"idle", "enter", "arm", "look"} =>
           touchPin = "edge" /\ ~s_touch_armed
    /\ waker \in {"leave", "resume"} => ~slpin /\ ~linkIdle
    /\ ~s_deep_idle /\ lvgl \in {"idle", "enter", "look"} =>
           ~slpin /\ ~linkIdle

DeepInv == WakeInv /\ LineInv

deepreads == <<lvgl, waker, s_deep_idle, paused, touchPin, s_touch_armed,
               slpin, linkIdle>>

(* A step that touches none of it.                                        *)
LEMMA DeepSame ==
    ASSUME DeepInv, UNCHANGED deepreads
    PROVE  DeepInv'
  BY DEF DeepInv, WakeInv, LineInv, deepreads

(* The panel's task goes in, one call at a time.                           *)
LEMMA DeepPanel ==
    ASSUME DeepInv, \/ frame_timer_cb \/ gesture_event_cb \/ deep_idle_enter
                    \/ ArmTouch \/ PauseThenFlag \/ LastLook
    PROVE  DeepInv'
<1>1. CASE frame_timer_cb
  <2>1. /\ lvgl = "idle" /\ ~paused /\ lvgl' \in {"idle", "enter"}
        /\ UNCHANGED <<waker, s_deep_idle, paused, touchPin, s_touch_armed,
                       slpin, linkIdle>>
    BY <1>1 DEF frame_timer_cb, LvglRuns, linevars
  <2>2. waker = "wait" /\ ~s_deep_idle
    BY <2>1 DEF DeepInv, WakeInv
  <2> QED
    BY <2>1, <2>2 DEF DeepInv, WakeInv, LineInv
<1>2. CASE gesture_event_cb
  <2>1. UNCHANGED deepreads
    BY <1>2 DEF gesture_event_cb, deepreads, linevars, idlevars
  <2> QED
    BY <2>1, DeepSame
<1>3. CASE deep_idle_enter
  <2>1. /\ lvgl = "enter"
        /\ \/ lvgl' = "arm"
           \/ lvgl' = "idle" /\ UNCHANGED <<slpin, linkIdle>>
        /\ UNCHANGED <<waker, s_deep_idle, paused, touchPin, s_touch_armed>>
    BY <1>3 DEF deep_idle_enter, linevars
  <2>2. waker = "wait" /\ ~s_deep_idle /\ ~paused
    BY <2>1 DEF DeepInv, WakeInv
  <2> QED
    BY <2>1, <2>2 DEF DeepInv, WakeInv, LineInv
<1>4. CASE ArmTouch
  <2>1. /\ lvgl = "arm" /\ lvgl' = "pause"
        /\ UNCHANGED <<waker, s_deep_idle, paused, slpin, linkIdle>>
    BY <1>4 DEF ArmTouch, idlevars
  <2>2. waker = "wait" /\ ~s_deep_idle /\ ~paused
    BY <2>1 DEF DeepInv, WakeInv
  <2> QED
    BY <2>1, <2>2 DEF DeepInv, WakeInv, LineInv
<1>5. CASE PauseThenFlag
  <2>1. /\ \/ lvgl = "pause" /\ lvgl' = "flag" /\ paused' = TRUE
              /\ UNCHANGED s_deep_idle
           \/ lvgl = "flag" /\ lvgl' = "look" /\ s_deep_idle' = TRUE
              /\ UNCHANGED paused
        /\ UNCHANGED <<waker, touchPin, s_touch_armed, slpin, linkIdle>>
    BY <1>5 DEF PauseThenFlag, linevars
  <2>2. CASE lvgl = "pause" /\ lvgl' = "flag" /\ paused' = TRUE
             /\ UNCHANGED s_deep_idle
    <3>1. waker = "wait" /\ ~s_deep_idle
      BY <2>2 DEF DeepInv, WakeInv
    <3> QED
      BY <2>1, <2>2, <3>1 DEF DeepInv, WakeInv, LineInv
  <2>3. CASE lvgl = "flag" /\ lvgl' = "look" /\ s_deep_idle' = TRUE
             /\ UNCHANGED paused
    <3>1. waker = "wait" /\ paused
      BY <2>3 DEF DeepInv, WakeInv
    <3> QED
      BY <2>1, <2>3, <3>1 DEF DeepInv, WakeInv, LineInv
  <2> QED
    BY <2>1, <2>2, <2>3
<1>6. CASE LastLook
  <2>1. /\ lvgl = "look" /\ lvgl' = "idle"
        /\ UNCHANGED <<waker, s_deep_idle, paused, touchPin, s_touch_armed,
                       slpin, linkIdle>>
    BY <1>6 DEF LastLook, linevars, idlevars
  <2> QED
    BY <2>1 DEF DeepInv, WakeInv, LineInv
<1> QED
  BY <1>1, <1>2, <1>3, <1>4, <1>5, <1>6

(* The hook and the waker, whoever comes first.                            *)
LEMMA DeepWaker ==
    ASSUME DeepInv, touch_irq_hook \/ deep_idle_waker
    PROVE  DeepInv'
<1>1. CASE touch_irq_hook
  <2>1. /\ \/ s_touch_armed
           \/ ~s_touch_armed /\ UNCHANGED <<s_touch_armed, touchPin>>
        /\ UNCHANGED <<lvgl, waker, s_deep_idle, paused, slpin, linkIdle>>
    BY <1>1 DEF touch_irq_hook, idlevars
  <2> QED
    BY <2>1 DEF DeepInv, WakeInv, LineInv
<1>2. CASE WakerTakes
  <2>1. /\ waker = "wait"
        /\ waker' = IF s_deep_idle THEN "disarm" ELSE "wait"
        /\ UNCHANGED <<lvgl, s_deep_idle, paused, touchPin, s_touch_armed,
                       slpin, linkIdle>>
    BY <1>2 DEF WakerTakes, linevars, idlevars
  <2> QED
    BY <2>1 DEF DeepInv, WakeInv, LineInv
<1>3. CASE DisarmLine
  <2>1. /\ waker = "disarm" /\ waker' = "pend"
        /\ touchPin' = "edge" /\ s_touch_armed' = FALSE
        /\ UNCHANGED <<lvgl, s_deep_idle, paused, slpin, linkIdle>>
    BY <1>3 DEF DisarmLine, idlevars
  <2> QED
    BY <2>1 DEF DeepInv, WakeInv, LineInv
<1>4. CASE HoldWake
  <2>1. /\ waker = "pend" /\ waker' = "want"
        /\ UNCHANGED <<lvgl, s_deep_idle, paused, touchPin, s_touch_armed,
                       slpin, linkIdle>>
    BY <1>4 DEF HoldWake, linevars
  <2> QED
    BY <2>1 DEF DeepInv, WakeInv, LineInv
<1>5. CASE WantWake
  <2>1. /\ waker = "want" /\ waker' = "leave"
        /\ linkIdle' = FALSE /\ slpin' = FALSE
        /\ UNCHANGED <<lvgl, s_deep_idle, paused, touchPin, s_touch_armed>>
    BY <1>5 DEF WantWake, linevars
  <2> QED
    BY <2>1 DEF DeepInv, WakeInv, LineInv
<1>6. CASE LeaveDeepIdle
  <2>1. /\ waker = "leave" /\ waker' = "resume" /\ s_deep_idle' = FALSE
        /\ UNCHANGED <<lvgl, paused, touchPin, s_touch_armed, slpin,
                       linkIdle>>
    BY <1>6 DEF LeaveDeepIdle, linevars
  <2> QED
    BY <2>1 DEF DeepInv, WakeInv, LineInv
<1>7. CASE Resume
  <2>1. /\ waker = "resume" /\ waker' = "wait" /\ paused' = FALSE
        /\ UNCHANGED <<lvgl, s_deep_idle, touchPin, s_touch_armed, slpin,
                       linkIdle>>
    BY <1>7 DEF Resume, linevars
  <2> QED
    BY <2>1 DEF DeepInv, WakeInv, LineInv
<1> QED
  BY <1>1, <1>2, <1>3, <1>4, <1>5, <1>6, <1>7 DEF deep_idle_waker

(* Every step keeps what each task has done so far.                        *)
LEMMA DeepNextStep == DeepInv /\ [DeepNext]_deepvars => DeepInv'
<1> SUFFICES ASSUME DeepInv, [DeepNext]_deepvars PROVE DeepInv'
  OBVIOUS
<1>1. CASE MainLoop \/ TimePasses \/ UseTurns \/ BatteryTurns \/ PanelIsUsed
           \/ UNCHANGED deepvars
  <2>1. UNCHANGED deepreads
    BY <1>1 DEF MainLoop, LoopPass, ui_set_sleep, StoreSleep, PokeWaker,
                TimePasses, UseTurns, BatteryTurns, PanelIsUsed, deepvars,
                deepreads, linevars, idlevars
  <2> QED
    BY <2>1, DeepSame
<1> QED
  BY <1>1, DeepPanel, DeepWaker DEF DeepNext

(* Out of deep idle the touch line, the panel's controller and the audio   *)
(* link are whole, whoever came first, the hook or the waker.              *)
THEOREM AwakeIsAlwaysWhole == DeepSpec => []AwakeIsWhole
<1>1. DeepInit => DeepInv
  BY DEF DeepInit, DeepInv, WakeInv, LineInv
<1>2. DeepInv => AwakeIsWhole
  BY DEF DeepInv, WakeInv, LineInv, AwakeIsWhole
<1> QED
  BY <1>1, <1>2, DeepNextStep, PTL DEF DeepSpec

-----------------------------------------------------------------------------
(***************************************************************************)
(* Gestures.  What a call on the panel's task has still to do.             *)
(***************************************************************************)
LvglLists ==
    {<< >>, <<"mute", "deadline">>, <<"deadline">>,
     <<"clear", "note forgotten">>, <<"note forgotten">>,
     <<"arm", "note offer", "say offer">>, <<"note offer", "say offer">>,
     <<"say offer">>}

LoopLists ==
    {<< >>, <<"end">>, <<"zero", "unmute">>, <<"unmute">>, <<"compare">>,
     <<"disarm", "lapse">>, <<"lapse">>, <<"settle", "repaint">>,
     <<"repaint">>}

TodoOK == todo = [t \in Tasks |-> todo[t]]

(* The clock is never at zero where its steps are longer than one.         *)
Odd(t) == \E a \in Int : t = a * Step + 1

(* A deadline set, and the time since: the stamp says the same as the      *)
(* history while the history is counted.                                   *)
GraceInv ==
    /\ now \in Stamps /\ Odd(now)
    /\ sinceInterrupt \in 0 .. MUTE_MAX
    /\ sinceInterrupt < MUTE_MAX =>
           /\ grace = (now - sinceInterrupt + INTERRUPT_GRACE) % Wrap
           /\ grace # 0

OfferInv ==
    /\ TodoOK /\ todo["lvgl"] \in LvglLists
    /\ sinceOffer \in 0 .. Forgotten /\ armed \in Stamps
    /\ armed # 0 => IF sinceOffer < Forgotten THEN Since(armed) = sinceOffer
                    ELSE Since(armed) >= FORGET_CONFIRM
    /\ Does("lvgl", "clear") => armed = 0 /\ sinceOffer < FORGET_CONFIRM

(* "forgotten" on a stopped device has a notice, or is about to be retired.*)
NoticeInv ==
    /\ todo["loop"] \in LoopLists
    /\ label = "forgotten" /\ ~running /\ notice = 0 =>
           Does("lvgl", "note forgotten") \/ Does("loop", "repaint")

ForgetInv == now \in Stamps /\ OfferInv

(* Short lists.                                                            *)
LEMMA Lists ==
    /\ \A a : Head(<<a>>) = a /\ Tail(<<a>>) = << >>
    /\ \A a, b : Head(<<a, b>>) = a /\ Tail(<<a, b>>) = <<b>>
    /\ \A a, b, c : Head(<<a, b, c>>) = a /\ Tail(<<a, b, c>>) = <<b, c>>
  OBVIOUS

(* The lists, step by step.                                                *)
LEMMA LvglTails ==
    ASSUME NEW l \in LvglLists, l # << >>
    PROVE  /\ Tail(l) \in LvglLists
           /\ Tail(l) # << >> => Head(Tail(l)) # "clear"
           /\ Head(l) = "clear" => Tail(l) = <<"note forgotten">>
<1>1. CASE l = <<"mute", "deadline">>
  <2>1. Tail(l) = <<"deadline">> /\ Head(l) = "mute"
    BY <1>1, Lists
  <2>2. Head(Tail(l)) = "deadline"
    BY <2>1, Lists
  <2> QED
    BY <2>1, <2>2 DEF LvglLists
<1>2. CASE l = <<"deadline">>
  <2>1. Tail(l) = << >> /\ Head(l) = "deadline"
    BY <1>2, Lists
  <2> QED
    BY <2>1 DEF LvglLists
<1>3. CASE l = <<"clear", "note forgotten">>
  <2>1. Tail(l) = <<"note forgotten">> /\ Head(l) = "clear"
    BY <1>3, Lists
  <2>2. Head(Tail(l)) = "note forgotten"
    BY <2>1, Lists
  <2> QED
    BY <2>1, <2>2 DEF LvglLists
<1>4. CASE l = <<"note forgotten">>
  <2>1. Tail(l) = << >> /\ Head(l) = "note forgotten"
    BY <1>4, Lists
  <2> QED
    BY <2>1 DEF LvglLists
<1>5. CASE l = <<"arm", "note offer", "say offer">>
  <2>1. Tail(l) = <<"note offer", "say offer">> /\ Head(l) = "arm"
    BY <1>5, Lists
  <2>2. Head(Tail(l)) = "note offer"
    BY <2>1, Lists
  <2> QED
    BY <2>1, <2>2 DEF LvglLists
<1>6. CASE l = <<"note offer", "say offer">>
  <2>1. Tail(l) = <<"say offer">> /\ Head(l) = "note offer"
    BY <1>6, Lists
  <2>2. Head(Tail(l)) = "say offer"
    BY <2>1, Lists
  <2> QED
    BY <2>1, <2>2 DEF LvglLists
<1>7. CASE l = <<"say offer">>
  <2>1. Tail(l) = << >> /\ Head(l) = "say offer"
    BY <1>7, Lists
  <2> QED
    BY <2>1 DEF LvglLists
<1> QED
  BY <1>1, <1>2, <1>3, <1>4, <1>5, <1>6, <1>7 DEF LvglLists

(* The loop's.                                                             *)
LEMMA LoopTails ==
    ASSUME NEW l \in LoopLists, l # << >>
    PROVE  /\ Tail(l) \in LoopLists
           /\ Head(l) = "settle" => Tail(l) = <<"repaint">>
<1>1. CASE l = <<"end">>
  BY <1>1 DEF LoopLists
<1>2. CASE l = <<"zero", "unmute">>
  BY <1>2 DEF LoopLists
<1>3. CASE l = <<"unmute">>
  BY <1>3 DEF LoopLists
<1>4. CASE l = <<"compare">>
  BY <1>4 DEF LoopLists
<1>5. CASE l = <<"disarm", "lapse">>
  BY <1>5 DEF LoopLists
<1>6. CASE l = <<"lapse">>
  BY <1>6 DEF LoopLists
<1>7. CASE l = <<"settle", "repaint">>
  BY <1>7 DEF LoopLists
<1>8. CASE l = <<"repaint">>
  BY <1>8 DEF LoopLists
<1> QED
  BY <1>1, <1>2, <1>3, <1>4, <1>5, <1>6, <1>7, <1>8 DEF LoopLists

(* A call's list replaced, or gone on with, leaves the others.             *)
LEMMA ThenIs ==
    ASSUME TodoOK, NEW t \in Tasks, NEW l, Then(t, l)
    PROVE  /\ TodoOK' /\ todo'[t] = l
           /\ \A u \in Tasks : u # t => todo'[u] = todo[u]
  BY DEF TodoOK, Then

(* The arithmetic of stamps.                                               *)
LEMMA Multiples ==
    ASSUME NEW d \in Nat, NEW n \in Nat \ {0}, d % n = 0
    PROVE  \E k \in Int : d = k * n
<1>1. d = n * (d \div n)
  BY SMTT(30)
<1>2. d \div n \in Int
  OBVIOUS
<1>3. \A q \in Int : n * q = q * n
  OBVIOUS
<1> QED
  BY <1>1, <1>2, <1>3

(* A sum in the ring of stamps.                                            *)
LEMMA Carried ==
    ASSUME NEW W \in Nat \ {0}, NEW x \in 0 .. W - 1, NEW d \in 0 .. W - 1
    PROVE  /\ (x + d) % W = IF x + d < W THEN x + d ELSE x + d - W
           /\ (x - d) % W = IF x < d THEN x - d + W ELSE x - d
  OBVIOUS

(* Every window is a multiple of the clock's step, and less than half.     *)
Windows == {MUTE_MAX, INTERRUPT_GRACE, FORGET_CONFIRM + STATUS_NOTICE,
            FORGET_CONFIRM, STATUS_NOTICE, COOLDOWN}

(* What the assumptions on the clock say of them.                          *)
LEMMA Sizes ==
    /\ Wrap \in Nat \ {0} /\ Step \in 1 .. Wrap /\ Step \in 1 .. Half
    /\ Half \in Nat /\ 2 * Half < Wrap
    /\ \A d \in Windows : d \in 1 .. Half
    /\ INTERRUPT_GRACE <= MUTE_MAX
<1>1. /\ Wrap \in Nat /\ Step \in 1 .. Wrap
      /\ \A d \in Windows : d \in 1 .. Half /\ d % Step = 0
      /\ INTERRUPT_GRACE <= MUTE_MAX
  BY ClockAssumption DEF Windows, Half
<1>2. MUTE_MAX \in 1 .. Half /\ MUTE_MAX % Step = 0
  BY <1>1 DEF Windows
<1>3. Half \in Nat /\ 2 * Half < Wrap
  BY <1>1, <1>2 DEF Half
<1>4. Step <= MUTE_MAX
  BY <1>1, <1>2, <1>3
<1> QED
  BY <1>1, <1>2, <1>3, <1>4

(* What is odd is never the zero that would mean none.                     *)
LEMMA NeverZero ==
    ASSUME Step > 1, NEW x \in Stamps, Odd(x)
    PROVE  x # 0
<1>1. PICK a \in Int : x = a * Step + 1
  BY DEF Odd
<1>2. Step \in Nat /\ Step > 1
  BY Sizes
<1>3. a * Step # 0 - 1
  <2>1. CASE a >= 0
    <3>1. a * Step >= 0
      BY <2>1, <1>2
    <3> QED
      BY <3>1, <1>2
  <2>2. CASE a < 0
    <3>1. (0 - a) * Step >= Step
      BY <2>2, <1>2
    <3>2. a * Step = 0 - ((0 - a) * Step)
      BY <1>2
    <3>3. a * Step \in Int
      BY <1>2
    <3> QED
      BY <3>1, <3>2, <3>3, <1>2
  <2> QED
    BY <2>1, <2>2
<1> QED
  BY <1>1, <1>2, <1>3

(* A deadline is a stamp, and odd where the clock is.                      *)
LEMMA Deadlines ==
    ASSUME now \in Stamps, Odd(now), NEW d \in Windows \union {Step}
    PROVE  After(d) \in Stamps /\ Odd(After(d))
<1>1. /\ d \in Nat /\ d < Wrap /\ d % Step = 0
      /\ Step \in Nat \ {0} /\ Wrap \in Nat \ {0} /\ Wrap % Step = 0
  <2>1. d \in 1 .. Half
    BY Sizes
  <2>2. d % Step = 0
    BY Sizes, ClockAssumption DEF Windows
  <2> QED
    BY <2>1, <2>2, Sizes, ClockAssumption
<1>2. PICK k \in Int : d = k * Step
  BY <1>1, Multiples
<1>3. PICK m \in Int : Wrap = m * Step
  BY <1>1, Multiples
<1>4. PICK a \in Int : now = a * Step + 1
  BY DEF Odd
<1>5. After(d) = IF now + d < Wrap THEN now + d ELSE now + d - Wrap
  BY <1>1, Carried DEF After, Stamps
<1>6. now + d = (a + k) * Step + 1
  BY <1>1, <1>2, <1>4
<1>7. now + d - Wrap = (a + k - m) * Step + 1
  BY <1>1, <1>2, <1>3, <1>4
<1>8. Odd(now + d) /\ Odd(now + d - Wrap)
  <2>1. a + k \in Int /\ a + k - m \in Int
    OBVIOUS
  <2> QED
    BY <1>6, <1>7, <2>1 DEF Odd
<1>9. After(d) \in Stamps
  BY <1>1, <1>5 DEF Stamps
<1> QED
  BY <1>5, <1>8, <1>9

(* The smaller of two.                                                     *)
LEMMA CappedIs ==
    ASSUME NEW a \in Int, NEW c \in Int
    PROVE  Capped(a, c) = IF a <= c THEN a ELSE c
<1> DEFINE m == IF a <= c THEN a ELSE c
<1>1. m \in {a, c} /\ \A y \in {a, c} : m <= y
  OBVIOUS
<1>2. \A x \in {a, c} : (\A y \in {a, c} : x <= y) => x = m
  OBVIOUS
<1> QED
  BY <1>1, <1>2 DEF Capped, Min

-----------------------------------------------------------------------------
(***************************************************************************)
(* The offer to forget.                                                    *)
(***************************************************************************)
(* What a step leaves of the offer, when it goes on with no list of the    *)
(* panel's.                                                                *)
LEMMA OfferKept ==
    ASSUME ForgetInv, TodoOK', todo'["lvgl"] = todo["lvgl"],
           UNCHANGED <<now, armed, sinceOffer>>
    PROVE  ForgetInv'
  BY DEF ForgetInv, OfferInv, Since, Does, Idle, Stamps

(* A call that goes on with its list, and does not clear next.             *)
LEMMA OfferGoesOn ==
    ASSUME ForgetInv, ~Idle("lvgl"), Done("lvgl"),
           UNCHANGED <<now, armed, sinceOffer>>
    PROVE  ForgetInv'
<1> DEFINE l == todo["lvgl"]
<1>1. l \in LvglLists /\ l # << >>
  BY DEF ForgetInv, OfferInv, Idle
<1>2. Tail(l) \in LvglLists /\ (Tail(l) # << >> => Head(Tail(l)) # "clear")
  BY <1>1, LvglTails
<1>3. TodoOK' /\ todo'["lvgl"] = Tail(l)
  BY ThenIs DEF Done, Tasks, ForgetInv, OfferInv
<1> QED
  BY <1>2, <1>3 DEF ForgetInv, OfferInv, Since, Does, Idle, Stamps

(* A call that begins, with no offer left.                                 *)
LEMMA OfferTaken ==
    ASSUME ForgetInv, TodoOK', armed' = 0, UNCHANGED now,
           todo'["lvgl"] \in LvglLists, sinceOffer' \in 0 .. Forgotten,
           Does("lvgl", "clear")' => sinceOffer' < FORGET_CONFIRM
    PROVE  ForgetInv'
<1>1. 0 \in Stamps
  BY Sizes DEF Stamps
<1> QED
  BY <1>1 DEF ForgetInv, OfferInv, Stamps

(* A tick: an offer still young ages with the clock.                       *)
LEMMA OfferTicks ==
    ASSUME ForgetInv, Tick
    PROVE  ForgetInv'
<1> DEFINE W == Wrap
           F == FORGET_CONFIRM
           so == sinceOffer
<1>1. /\ W \in Nat \ {0} /\ Step \in 1 .. Half /\ Half \in Nat
      /\ 2 * Half < W /\ F \in 1 .. Half
  BY Sizes DEF Windows
<1>2. /\ now \in 0 .. W - 1 /\ armed \in 0 .. W - 1 /\ so \in 0 .. F
      /\ TodoOK
  BY DEF ForgetInv, OfferInv, Stamps, Forgotten
<1>3. /\ UNCHANGED <<todo, armed>> /\ Idle("lvgl")
      /\ now' = After(Step) /\ sinceOffer' = Capped(so + Step, F)
      /\ ~OfferIsOld
  BY DEF Tick, offer, Tasks, LoopIsDue, Forgotten
<1>4. now' = IF now + Step < W THEN now + Step ELSE now + Step - W
  BY <1>1, <1>2, <1>3, Carried DEF After
<1>5. now' \in Stamps
  BY <1>1, <1>2, <1>4 DEF Stamps
<1>6. sinceOffer' = IF so + Step <= F THEN so + Step ELSE F
  BY <1>1, <1>2, <1>3, CappedIs
<1>7. sinceOffer' \in 0 .. F
  BY <1>1, <1>2, <1>6
<1>8. ASSUME armed # 0
      PROVE  IF sinceOffer' < F THEN Since(armed)' = sinceOffer'
                                ELSE Since(armed)' >= F
  <2>i. Since(armed) \in Int
    BY <1>1, <1>2 DEF Since
  <2>1. Since(armed) < F
    BY <1>1, <1>3, <1>8, <2>i DEF OfferIsOld
  <2>2. so < F /\ Since(armed) = so
    <3>1. IF so < F THEN Since(armed) = so ELSE Since(armed) >= F
      BY <1>8 DEF ForgetInv, OfferInv, Forgotten
    <3> QED
      BY <1>1, <1>2, <2>i, <2>1, <3>1
  <2>3. so = IF now < armed THEN now - armed + W ELSE now - armed
    BY <1>1, <1>2, <2>2, Carried DEF Since
  <2>4. Since(armed)' =
            IF now' < armed THEN now' - armed + W ELSE now' - armed
    BY <1>1, <1>2, <1>3, <1>5, Carried DEF Since, Stamps
  <2>5. Since(armed)' = so + Step
    BY <1>1, <1>2, <1>4, <2>2, <2>3, <2>4
  <2> QED
    BY <1>1, <1>2, <1>6, <2>2, <2>5
<1>9. ~Does("lvgl", "clear")'
  BY <1>3 DEF Does, Idle
<1> QED
  BY <1>2, <1>3, <1>5, <1>7, <1>8, <1>9
     DEF ForgetInv, OfferInv, Forgotten, TodoOK, Stamps

(* on_gesture(): a second hold finds an offer still young.                 *)
LEMMA OfferGestures ==
    ASSUME ForgetInv, Gestured
    PROVE  ForgetInv'
<1>1. /\ FORGET_CONFIRM \in Nat \ {0} /\ Forgotten = FORGET_CONFIRM
      /\ TodoOK /\ sinceOffer \in 0 .. Forgotten
  BY Sizes DEF Windows, ForgetInv, OfferInv, Forgotten
<1>2. CASE AlarmTakesGesture
  <2>1. /\ armed' = 0 /\ UNCHANGED <<now, todo>> /\ Idle("lvgl")
        /\ sinceOffer' = Forgotten
    BY <1>2 DEF AlarmTakesGesture, Gesture, Withdraws
  <2>2. TodoOK' /\ todo'["lvgl"] = << >> /\ ~Does("lvgl", "clear")'
    BY <1>1, <2>1 DEF TodoOK, Idle, Does
  <2> QED
    BY <1>1, <2>1, <2>2, OfferTaken DEF LvglLists
<1>3. CASE Tap
  <2>1. /\ armed' = 0 /\ UNCHANGED now /\ Idle("lvgl")
        /\ sinceOffer' = Forgotten
        /\ UNCHANGED todo \/ Then("lvgl", <<"mute", "deadline">>)
    BY <1>3 DEF Tap, Gesture, Withdraws, Interrupt, Toggle
  <2>2. /\ TodoOK'
        /\ todo'["lvgl"] \in {<< >>, <<"mute", "deadline">>}
    BY <1>1, <2>1, ThenIs DEF TodoOK, Idle, Tasks
  <2>3. Head(<<"mute", "deadline">>) = "mute"
    BY Lists
  <2>4. ~Does("lvgl", "clear")'
    BY <2>2, <2>3 DEF Does, Idle
  <2>5. todo'["lvgl"] \in LvglLists
    BY <2>2 DEF LvglLists
  <2>6. sinceOffer' \in 0 .. Forgotten
    BY <1>1, <2>1
  <2> QED
    BY <2>1, <2>2, <2>4, <2>5, <2>6, OfferTaken
<1>4. CASE Hold
  <2>1. /\ armed' = 0 /\ UNCHANGED now /\ Idle("lvgl")
    BY <1>4 DEF Hold, Gesture
  <2>2. CASE running \/ busy \/ ~saved
    <3>1. UNCHANGED todo /\ sinceOffer' = Forgotten
      BY <1>4, <2>2 DEF Hold, Withdraws
    <3>2. TodoOK' /\ todo'["lvgl"] = << >> /\ ~Does("lvgl", "clear")'
      BY <1>1, <2>1, <3>1 DEF TodoOK, Idle, Does
    <3> QED
      BY <1>1, <2>1, <3>1, <3>2, OfferTaken DEF LvglLists
  <2>3. CASE ~(running \/ busy \/ ~saved) /\ in_forget_window
    <3>1. Then("lvgl", <<"clear", "note forgotten">>) /\ UNCHANGED sinceOffer
      BY <1>4, <2>3 DEF Hold, ConfirmSteps
    <3>2. sinceOffer < FORGET_CONFIRM
      <4>1. armed # 0 /\ Since(armed) < FORGET_CONFIRM
        BY <2>3 DEF in_forget_window
      <4>2. sinceOffer \in Int /\ Since(armed) \in Int
        BY <1>1, Sizes DEF Since, ForgetInv, OfferInv, Stamps
      <4> QED
        BY <1>1, <4>1, <4>2 DEF ForgetInv, OfferInv
    <3>3. TodoOK' /\ todo'["lvgl"] = <<"clear", "note forgotten">>
      BY <1>1, <3>1, ThenIs DEF Tasks
    <3> QED
      BY <1>1, <2>1, <3>1, <3>2, <3>3, OfferTaken DEF LvglLists
  <2>4. CASE ~(running \/ busy \/ ~saved) /\ ~in_forget_window
    <3>1. /\ Then("lvgl", <<"arm", "note offer", "say offer">>)
          /\ UNCHANGED sinceOffer
      BY <1>4, <2>4 DEF Hold
    <3>2. /\ TodoOK'
          /\ todo'["lvgl"] = <<"arm", "note offer", "say offer">>
      BY <1>1, <3>1, ThenIs DEF Tasks
    <3>h. Head(<<"arm", "note offer", "say offer">>) = "arm"
      BY Lists
    <3>3. ~Does("lvgl", "clear")'
      BY <3>2, <3>h DEF Does
    <3> QED
      BY <1>1, <2>1, <3>1, <3>2, <3>3, OfferTaken DEF LvglLists
  <2> QED
    BY <2>2, <2>3, <2>4
<1>5. CASE BootClick
  <2>1. UNCHANGED <<now, armed, sinceOffer, todo>>
    BY <1>5 DEF BootClick, offer, ages
  <2> QED
    BY <1>1, <2>1, OfferKept DEF TodoOK
<1> QED
  BY <1>2, <1>3, <1>4, <1>5 DEF Gestured

(* The rest of a gesture's call.                                           *)
LEMMA OfferSteps ==
    ASSUME ForgetInv, GestureStep
    PROVE  ForgetInv'
<1>1. /\ FORGET_CONFIRM \in Nat \ {0} /\ Forgotten = FORGET_CONFIRM
      /\ TodoOK /\ sinceOffer \in 0 .. Forgotten /\ now \in Stamps
      /\ todo["lvgl"] \in LvglLists
  BY Sizes DEF Windows, ForgetInv, OfferInv, Forgotten
<1>2. CASE Mute \/ ArmDeadline \/ NoteForgotten \/ NoteOffer \/ SayOffer
  <2>1. /\ ~Idle("lvgl") /\ Done("lvgl")
        /\ UNCHANGED <<now, armed, sinceOffer>>
    BY <1>2 DEF Mute, ArmDeadline, NoteForgotten, NoteOffer, SayOffer, Does,
                offer, ages
  <2> QED
    BY <2>1, OfferGoesOn
<1>3. CASE ClearHistory
  <2>1. /\ Does("lvgl", "clear") /\ Done("lvgl") /\ sinceOffer' = Forgotten
        /\ UNCHANGED <<now, armed>>
    BY <1>3 DEF ClearHistory, Withdraws, offer
  <2>2. armed = 0
    BY <2>1 DEF ForgetInv, OfferInv
  <2>3. Tail(todo["lvgl"]) = <<"note forgotten">>
    BY <1>1, <2>1, LvglTails DEF Does, Idle
  <2>4. TodoOK' /\ todo'["lvgl"] = <<"note forgotten">>
    BY <1>1, <2>1, <2>3, ThenIs DEF Done, Tasks
  <2>h. Head(<<"note forgotten">>) = "note forgotten"
    BY Lists
  <2>5. ~Does("lvgl", "clear")'
    BY <2>4, <2>h DEF Does
  <2>6. todo'["lvgl"] \in LvglLists
    BY <2>4 DEF LvglLists
  <2>7. armed' = 0 /\ UNCHANGED now /\ sinceOffer' \in 0 .. Forgotten
    BY <1>1, <2>1, <2>2
  <2> QED
    BY <2>4, <2>5, <2>6, <2>7, OfferTaken
<1>4. CASE Arm
  <2>1. /\ Does("lvgl", "arm") /\ Done("lvgl") /\ armed' = now
        /\ sinceOffer' = 0 /\ UNCHANGED now
    BY <1>4 DEF Arm
  <2>2. /\ Tail(todo["lvgl"]) \in LvglLists
        /\ Tail(todo["lvgl"]) # << >> => Head(Tail(todo["lvgl"])) # "clear"
    BY <1>1, <2>1, LvglTails DEF Does, Idle
  <2>3. TodoOK' /\ todo'["lvgl"] = Tail(todo["lvgl"])
    BY <1>1, <2>1, ThenIs DEF Done, Tasks
  <2>4. ~Does("lvgl", "clear")'
    BY <2>2, <2>3 DEF Does, Idle
  <2>5. Since(armed)' = 0
    <3>1. armed' = now' /\ now' \in 0 .. Wrap - 1 /\ Wrap \in Nat \ {0}
      BY <1>1, <2>1, Sizes DEF Stamps
    <3>2. \A w \in Nat \ {0} : \A x \in 0 .. w - 1 : (x - x) % w = 0
      OBVIOUS
    <3> QED
      BY <3>1, <3>2 DEF Since
  <2> QED
    BY <1>1, <2>1, <2>2, <2>3, <2>4, <2>5 DEF ForgetInv, OfferInv, Stamps
<1> QED
  BY <1>2, <1>3, <1>4 DEF GestureStep

(* The other tasks take an offer down, and put none up.                    *)
LEMMA OfferOthers ==
    ASSUME ForgetInv,
           \/ Callback \/ Drained \/ LoopStep \/ WorkerStep
           \/ \E t \in {"ws", "loop"} : EndStep(t)
    PROVE  ForgetInv'
<1> DEFINE Leaves == UNCHANGED <<now, armed, sinceOffer>>
           Moves(t) == \E l : Then(t, l)
<1>1. ASSUME Leaves, NEW t \in {"ws", "loop"}, UNCHANGED todo \/ Moves(t)
      PROVE  ForgetInv'
  <2>1. TodoOK' /\ todo'["lvgl"] = todo["lvgl"]
    <3>1. TodoOK
      BY DEF ForgetInv, OfferInv
    <3>2. CASE UNCHANGED todo
      BY <3>1, <3>2 DEF TodoOK
    <3>3. CASE Moves(t)
      BY <3>1, <3>3, ThenIs DEF Tasks
    <3> QED
      BY <1>1, <3>2, <3>3
  <2> QED
    BY <1>1, <2>1, OfferKept
<1>2. CASE Callback
  <2>1. Leaves /\ (UNCHANGED todo \/ Moves("ws"))
    BY <1>2 DEF Callback, Connected, Gone, Audio, AudioDone, UserSpeaks,
                ConversationText, offer, ages
  <2> QED
    BY <1>1, <2>1
<1>3. CASE Drained
  BY <1>1, <1>3 DEF Drained, offer, ages
<1>4. CASE WorkerStep
  <2>1. Leaves /\ UNCHANGED todo
    BY <1>4 DEF WorkerStep, TakeRequest, StopEnds, StartEnds, ActionEnds,
                offer, ages
  <2> QED
    BY <1>1, <2>1
<1>5. ASSUME NEW t \in {"ws", "loop"}, EndStep(t)
      PROVE  ForgetInv'
  <2>1. Leaves /\ Moves(t)
    BY <1>5 DEF EndStep, EndTest, EndDeadline, Unmute, Done, offer, ages
  <2> QED
    BY <1>1, <2>1
<1>6. CASE Disarm
  <2>1. Done("loop") /\ armed' = 0 /\ UNCHANGED <<now, sinceOffer>>
    BY <1>6 DEF Disarm, ages
  <2>2. TodoOK' /\ todo'["lvgl"] = todo["lvgl"]
    BY <2>1, ThenIs DEF Done, Tasks, ForgetInv, OfferInv
  <2> QED
    BY <2>1, <2>2, OfferTaken DEF ForgetInv, OfferInv, Does, Idle
<1>7. CASE LoopStep /\ ~Disarm
  <2>1. Leaves /\ Moves("loop")
    BY <1>7 DEF LoopStep, Backstop, RetireOffer, CompareOffer, LapseOffer,
                RetireNotice, SettleNotice, Repaint, Done, offer, ages
  <2> QED
    BY <1>1, <2>1
<1> QED
  BY <1>2, <1>3, <1>4, <1>5, <1>6, <1>7

(* Every step keeps what the stamps say of the offer.                      *)
LEMMA ForgetNext == ForgetInv /\ [Next]_vars => ForgetInv'
<1> SUFFICES ASSUME ForgetInv, [Next]_vars
             PROVE  ForgetInv'
  OBVIOUS
<1>1. CASE Next
  BY <1>1, OfferTicks, OfferGestures, OfferSteps, OfferOthers DEF Next
<1>2. CASE UNCHANGED vars
  <2>1. UNCHANGED <<now, armed, sinceOffer, todo>>
    BY <1>2 DEF vars, offer, ages
  <2> QED
    BY <2>1, OfferKept DEF ForgetInv, OfferInv, TodoOK
<1> QED
  BY <1>1, <1>2

(* It holds where the device boots.                                        *)
LEMMA ForgetInit == Init => ForgetInv
<1> SUFFICES ASSUME Init
             PROVE  ForgetInv
  OBVIOUS
<1>1. /\ now = 1 /\ armed = 0 /\ todo = [t \in Tasks |-> << >>]
      /\ sinceOffer = Forgotten
  BY DEF Init
<1>2. 1 \in Stamps /\ 0 \in Stamps /\ Forgotten \in 0 .. Forgotten
  BY Sizes DEF Stamps, Windows, Forgotten
<1>3. TodoOK /\ todo["lvgl"] = << >>
  BY <1>1 DEF TodoOK, Tasks
<1> QED
  BY <1>1, <1>2, <1>3 DEF ForgetInv, OfferInv, LvglLists, Does, Idle

(* main.c's on_gesture() with the loop and the clock: whatever other       *)
(* touches, deadlines and wraps of the clock come between, a conversation  *)
(* is cleared only within FORGET_CONFIRM of the hold that offered it.      *)
THEOREM ForgetIsAlwaysConfirmed == Spec => ForgetIsConfirmed
<1>1. ForgetInv /\ [Next]_vars =>
          [Does("lvgl", "clear") /\ todo' /= todo /\ saved' /= saved
               => sinceOffer < FORGET_CONFIRM]_vars
  BY DEF ForgetInv, OfferInv
<1> QED
  BY <1>1, ForgetInit, ForgetNext, PTL DEF Spec, ForgetIsConfirmed

-----------------------------------------------------------------------------
(***************************************************************************)
(* The grace after an interrupt, where no deadline is zero.                *)
(***************************************************************************)
(* A tick: the clock and the time since go on together.                    *)
LEMMA GraceTicks ==
    ASSUME Step > 1, GraceInv, Tick
    PROVE  GraceInv'
<1> DEFINE W == Wrap
           G == INTERRUPT_GRACE
           M == MUTE_MAX
           si == sinceInterrupt
<1>1. /\ W \in Nat \ {0} /\ Step \in 1 .. Half /\ Half \in Nat
      /\ 2 * Half < W /\ M \in 1 .. Half /\ G \in 1 .. Half
  BY Sizes DEF Windows
<1>2. now \in 0 .. W - 1 /\ si \in 0 .. M
  BY DEF GraceInv, Stamps
<1>3. /\ now' = After(Step) /\ si' = Capped(si + Step, M)
      /\ UNCHANGED grace
  BY DEF Tick
<1>4. now' = IF now + Step < W THEN now + Step ELSE now + Step - W
  BY <1>1, <1>2, <1>3, Carried DEF After
<1>5. now' \in Stamps /\ Odd(now)'
  BY <1>3, Deadlines DEF GraceInv, Odd
<1>6. si' = IF si + Step <= M THEN si + Step ELSE M
  BY <1>1, <1>2, <1>3, CappedIs
<1>7. si' \in 0 .. M
  BY <1>1, <1>2, <1>6
<1>8. ASSUME si' < M
      PROVE  grace' = (now' - si' + G) % W /\ grace' # 0
  <2>1. si < M /\ si' = si + Step
    BY <1>1, <1>2, <1>6, <1>8
  <2>2. grace = (now - si + G) % W /\ grace # 0
    BY <2>1 DEF GraceInv
  <2>3. (now' - si' + G) % W = (now - si + G) % W
    <3>1. CASE now' = now + Step
      <4>1. now' - si' + G = now - si + G
        BY <1>1, <1>2, <2>1, <3>1
      <4> QED
        BY <4>1
    <3>2. CASE now' = now + Step - W
      <4> DEFINE z == now - si + G
      <4>1. now' - si' + G = z - W /\ z \in Int
        BY <1>1, <1>2, <2>1, <3>2
      <4>2. (z - W) % W = z % W
        <5>1. z >= 0 - W /\ z < 2 * W
          BY <1>1, <1>2, <2>1
        <5> HIDE DEF z
        <5>2. \A n \in Nat \ {0}, y \in Int :
                  y >= 0 - n /\ y < 2 * n => (y - n) % n = y % n
          OBVIOUS
        <5> QED
          BY <1>1, <4>1, <5>1, <5>2
      <4> QED
        BY <4>1, <4>2
    <3> QED
      BY <1>4, <3>1, <3>2
  <2> QED
    BY <1>3, <2>2, <2>3
<1> QED
  BY <1>5, <1>7, <1>8 DEF GraceInv

(* Every step keeps what the stamp says of the interrupt.                  *)
LEMMA GraceNext == Step > 1 /\ GraceInv /\ [Next]_vars => GraceInv'
<1> SUFFICES ASSUME Step > 1, GraceInv, [Next]_vars
             PROVE  GraceInv'
  OBVIOUS
<1> DEFINE Same == UNCHANGED <<now, grace, sinceInterrupt>>
<1>1. ASSUME Same
      PROVE  GraceInv'
  BY <1>1 DEF GraceInv, Odd
<1>2. CASE Tick
  BY <1>2, GraceTicks
<1>3. CASE Tap
  <2>1. CASE Interrupt
    <3>1. /\ UNCHANGED now /\ grace' = After(INTERRUPT_GRACE)
          /\ sinceInterrupt' = 0
      BY <1>3, <2>1 DEF Tap, Interrupt
    <3>2. now \in Stamps /\ Odd(now) /\ INTERRUPT_GRACE \in Windows
      BY DEF GraceInv, Windows
    <3>3. /\ After(INTERRUPT_GRACE) \in Stamps /\ After(INTERRUPT_GRACE) # 0
      BY <3>2, Deadlines, NeverZero
    <3>4. now' - sinceInterrupt' + INTERRUPT_GRACE = now + INTERRUPT_GRACE
      <4>1. now \in Int /\ INTERRUPT_GRACE \in Int
        BY <3>2, Sizes DEF Stamps
      <4> QED
        BY <3>1, <4>1
    <3>5. 0 \in 0 .. MUTE_MAX
      BY Sizes DEF Windows
    <3>6. grace' = (now' - sinceInterrupt' + INTERRUPT_GRACE) % Wrap
      BY <3>1, <3>4 DEF After
    <3> QED
      BY <3>1, <3>2, <3>3, <3>5, <3>6 DEF GraceInv, Odd
  <2>2. CASE Toggle
    BY <1>1, <1>3, <2>2 DEF Tap, Toggle
  <2> QED
    BY <1>3, <2>1, <2>2 DEF Tap
<1>4. CASE AlarmTakesGesture \/ Hold \/ BootClick
  BY <1>1, <1>4 DEF AlarmTakesGesture, Hold, BootClick, ages
<1>5. CASE GestureStep
  BY <1>1, <1>5 DEF GestureStep, Mute, ArmDeadline, ClearHistory,
                    NoteForgotten, Arm, NoteOffer, SayOffer, ages
<1>6. CASE Callback
  BY <1>1, <1>6 DEF Callback, Connected, Gone, Audio, AudioDone, UserSpeaks,
                    ConversationText, ages
<1>7. ASSUME NEW t \in {"ws", "loop"}, EndStep(t)
      PROVE  GraceInv'
  BY <1>1, <1>7 DEF EndStep, EndTest, EndDeadline, Unmute, ages
<1>8. CASE Drained
  BY <1>1, <1>8 DEF Drained, ages
<1>9. CASE LoopStep
  BY <1>1, <1>9 DEF LoopStep, Backstop, RetireOffer, CompareOffer, Disarm,
                    LapseOffer, RetireNotice, SettleNotice, Repaint, ages
<1>10. CASE WorkerStep
  BY <1>1, <1>10 DEF WorkerStep, TakeRequest, StopEnds, StartEnds,
                     ActionEnds, ages
<1>11. CASE UNCHANGED vars
  BY <1>1, <1>11 DEF vars, ages
<1> QED
  BY <1>2, <1>3, <1>4, <1>5, <1>6, <1>7, <1>8, <1>9, <1>10, <1>11
     DEF Next, Gestured

(* It holds where the device boots.                                        *)
LEMMA GraceInit == Init => GraceInv
<1> SUFFICES ASSUME Init
             PROVE  GraceInv
  OBVIOUS
<1>1. now = 1 /\ sinceInterrupt = MUTE_MAX /\ MUTE_MAX \in Nat
  BY Sizes DEF Init, Windows
<1>2. 1 \in Stamps
  BY Sizes DEF Stamps, Windows
<1>3. Odd(1)
  <2>1. 1 = 0 * Step + 1
    BY Sizes
  <2> QED
    BY <2>1 DEF Odd
<1> QED
  BY <1>1, <1>2, <1>3 DEF GraceInv

(* The grace is under way for as long as it was asked for.                 *)
LEMMA GraceHolds ==
    ASSUME GraceInv, sinceInterrupt < INTERRUPT_GRACE
    PROVE  in_interrupt_grace
<1> DEFINE W == Wrap
           G == INTERRUPT_GRACE
           si == sinceInterrupt
<1>1. /\ W \in Nat \ {0} /\ Half \in Nat /\ 2 * Half < W
      /\ MUTE_MAX \in Nat /\ G \in 1 .. Half /\ G <= MUTE_MAX
  BY Sizes DEF Windows
<1>2. now \in 0 .. W - 1 /\ si \in 0 .. MUTE_MAX
  BY DEF GraceInv, Stamps
<1>3. si < MUTE_MAX
  BY <1>1, <1>2
<1>4. grace = (now + (G - si)) % W /\ grace # 0
  <2>1. now - si + G = now + (G - si)
    BY <1>1, <1>2
  <2> QED
    BY <1>3, <2>1 DEF GraceInv
<1>5. G - si \in 1 .. Half
  BY <1>1, <1>2
<1>6. grace = IF now + (G - si) < W THEN now + (G - si)
                                    ELSE now + (G - si) - W
  BY <1>1, <1>2, <1>4, <1>5, Carried
<1>7. grace \in 0 .. W - 1
  BY <1>1, <1>2, <1>5, <1>6
<1>8. Since(grace) = IF now < grace THEN now - grace + W ELSE now - grace
  BY <1>1, <1>2, <1>7, Carried DEF Since
<1>9. Since(grace) >= Half
  BY <1>1, <1>2, <1>5, <1>6, <1>8
<1> QED
  BY <1>4, <1>9 DEF in_interrupt_grace

(* main.c's do_interrupt() and on_gesture(): within INTERRUPT_GRACE of a   *)
(* tap that interrupted, another neither ends the session nor asks for     *)
(* one, wherever the clock wraps.  The clock's steps are longer than one,  *)
(* and so pass over zero: a grace that ends in the one millisecond in 2^32 *)
(* that is stamped 0 is taken for none.                                    *)
THEOREM InterruptAlwaysKeepsSession ==
    ASSUME Step > 1
    PROVE  Spec => InterruptNeverHangsUp
<1>1. GraceInv /\ [Next]_vars =>
          [Tap /\ sinceInterrupt < INTERRUPT_GRACE => slot' = slot]_vars
  BY GraceHolds DEF Tap, Interrupt, Toggle
<1>2. Init => GraceInv
  BY GraceInit
<1>3. GraceInv /\ [Next]_vars => GraceInv'
  BY GraceNext
<1> QED
  BY <1>1, <1>2, <1>3, PTL DEF Spec, InterruptNeverHangsUp

-----------------------------------------------------------------------------
(***************************************************************************)
(* The word left on the panel.                                             *)
(***************************************************************************)
LabelInv == ForgetInv /\ GraceInv /\ NoticeInv

(* A step that neither writes the word nor retires it.                     *)
LEMMA WordKept ==
    ASSUME NoticeInv, todo'["loop"] \in LoopLists,
           UNCHANGED <<label, running, notice>>,
           Does("lvgl", "note forgotten") =>
               Does("lvgl", "note forgotten")',
           Does("loop", "repaint") => Does("loop", "repaint")'
    PROVE  NoticeInv'
  BY DEF NoticeInv

(* A notice, another word or a session retires it.                         *)
LEMMA WordRetired ==
    ASSUME NoticeInv, todo'["loop"] \in LoopLists,
           label' # "forgotten" \/ running' \/ notice' # 0
    PROVE  NoticeInv'
  BY DEF NoticeInv

(* A call of the panel's leaves the loop's.                                *)
LEMMA WordGestures ==
    ASSUME Step > 1, LabelInv, Gestured \/ GestureStep
    PROVE  NoticeInv'
<1>1. /\ TodoOK /\ todo["loop"] \in LoopLists /\ NoticeInv
      /\ now \in Stamps /\ Odd(now)
  BY DEF LabelInv, ForgetInv, OfferInv, GraceInv, NoticeInv
<1>2. ASSUME NEW l, Then("lvgl", l)
      PROVE  /\ todo'["loop"] = todo["loop"]
             /\ Does("loop", "repaint") => Does("loop", "repaint")'
  BY <1>1, <1>2, ThenIs DEF Tasks, Does, Idle
<1>3. ASSUME NEW l, UNCHANGED todo \/ Then("lvgl", l),
             UNCHANGED <<label, running, notice>>,
             ~Does("lvgl", "note forgotten") \/ UNCHANGED todo
      PROVE  NoticeInv'
  <2>1. /\ todo'["loop"] = todo["loop"]
        /\ Does("loop", "repaint") => Does("loop", "repaint")'
        /\ Does("lvgl", "note forgotten") =>
               Does("lvgl", "note forgotten")'
    BY <1>2, <1>3 DEF Does, Idle
  <2> QED
    BY <1>1, <1>3, <2>1, WordKept
<1>4. ASSUME NEW l, UNCHANGED todo \/ Then("lvgl", l),
             label' # "forgotten" \/ notice' # 0
      PROVE  NoticeInv'
  BY <1>1, <1>2, <1>4, WordRetired
<1>5. ASSUME NEW d \in Windows
      PROVE  After(d) # 0
  BY <1>1, <1>5, Deadlines, NeverZero
<1>6. CASE AlarmTakesGesture \/ BootClick
  BY <1>3, <1>6 DEF AlarmTakesGesture, BootClick, offer, worker
<1>7. CASE Tap
  <2>1. /\ UNCHANGED <<label, running, notice>>
        /\ ~Does("lvgl", "note forgotten")
        /\ UNCHANGED todo \/ Then("lvgl", <<"mute", "deadline">>)
    BY <1>7 DEF Tap, Gesture, Interrupt, Toggle, Does, worker
  <2> QED
    BY <1>3, <2>1
<1>8. CASE Hold
  <2>1. /\ UNCHANGED <<label, running, notice>>
        /\ ~Does("lvgl", "note forgotten")
        /\ UNCHANGED todo \/ \E l : Then("lvgl", l)
    BY <1>8 DEF Hold, Gesture, Does, worker
  <2> QED
    BY <1>3, <2>1
<1>9. CASE Mute \/ ArmDeadline \/ Arm
  <2>1. /\ UNCHANGED <<label, running, notice>>
        /\ Does("lvgl", "mute") \/ Does("lvgl", "deadline")
                                \/ Does("lvgl", "arm")
        /\ Then("lvgl", Tail(todo["lvgl"]))
    BY <1>9 DEF Mute, ArmDeadline, Arm, Done, worker, offer
  <2>2. ~Does("lvgl", "note forgotten")
    BY <2>1 DEF Does
  <2> QED
    BY <1>3, <2>1, <2>2
<1>10. CASE NoteForgotten \/ NoteOffer
  <2>1. /\ Then("lvgl", Tail(todo["lvgl"]))
        /\ \E d \in Windows : notice' = After(d)
    BY <1>10 DEF NoteForgotten, NoteOffer, Done, Windows
  <2> QED
    BY <1>4, <1>5, <2>1
<1>11. CASE SayOffer
  <2>1. Then("lvgl", Tail(todo["lvgl"])) /\ label' = "offer"
    BY <1>11 DEF SayOffer, Done
  <2>2. label' # "forgotten"
    BY <2>1
  <2> QED
    BY <1>4, <2>1, <2>2
<1>12. CASE ClearHistory
  <2>1. /\ Does("lvgl", "clear") /\ Then("lvgl", Tail(todo["lvgl"]))
        /\ UNCHANGED <<running, notice>>
    BY <1>12 DEF ClearHistory, Done, offer, worker
  <2>2. Tail(todo["lvgl"]) = <<"note forgotten">>
    BY <2>1, LvglTails DEF Does, Idle, LabelInv, ForgetInv, OfferInv
  <2>3. todo'["lvgl"] = <<"note forgotten">>
    BY <1>1, <2>1, <2>2, ThenIs DEF Tasks
  <2>h. /\ Head(<<"note forgotten">>) = "note forgotten"
        /\ <<"note forgotten">> # << >>
    BY Lists
  <2>4. Does("lvgl", "note forgotten")'
    BY <2>3, <2>h DEF Does, Idle
  <2>5. todo'["loop"] \in LoopLists
    BY <1>1, <1>2, <2>1
  <2> QED
    BY <2>4, <2>5 DEF NoticeInv
<1> QED
  BY <1>6, <1>7, <1>8, <1>9, <1>10, <1>11, <1>12
     DEF Gestured, GestureStep

(* What a call of the loop's leaves: its own list goes on.                 *)
LEMMA WordLoop ==
    ASSUME Step > 1, LabelInv, LoopStep \/ EndStep("loop")
    PROVE  NoticeInv'
<1> DEFINE l == todo["loop"]
<1>1. TodoOK /\ l \in LoopLists /\ NoticeInv /\ now \in Stamps /\ Odd(now)
  BY DEF LabelInv, ForgetInv, OfferInv, GraceInv, NoticeInv
<1>2. ASSUME NEW n, Then("loop", n)
      PROVE  /\ todo'["loop"] = n
             /\ Does("lvgl", "note forgotten") =>
                    Does("lvgl", "note forgotten")'
  BY <1>1, <1>2, ThenIs DEF Tasks, Does, Idle
<1>3. ASSUME NEW n \in LoopLists, Then("loop", n),
             UNCHANGED <<label, running, notice>>,
             ~Does("loop", "repaint")
      PROVE  NoticeInv'
  <2>1. /\ todo'["loop"] \in LoopLists
        /\ Does("lvgl", "note forgotten") => Does("lvgl", "note forgotten")'
    BY <1>2, <1>3
  <2> QED
    BY <1>1, <1>3, <2>1, WordKept
<1>4. ASSUME l # << >>
      PROVE  Tail(l) \in LoopLists
  BY <1>1, <1>4, LoopTails
<1>5. CASE EndStep("loop")
  <2>1. /\ Does("loop", "end") \/ Does("loop", "zero")
                               \/ Does("loop", "unmute")
        /\ UNCHANGED <<label, running, notice>>
        /\ \/ Then("loop", Tail(l))
           \/ Then("loop", <<"zero", "unmute">>)
    BY <1>5 DEF EndStep, EndTest, EndDeadline, Unmute, Done, offer, worker
  <2>2. ~Does("loop", "repaint") /\ l # << >>
    BY <2>1 DEF Does, Idle
  <2>3. <<"zero", "unmute">> \in LoopLists
    BY DEF LoopLists
  <2> QED
    BY <1>3, <1>4, <2>1, <2>2, <2>3
<1>6. CASE Backstop \/ RetireOffer \/ RetireNotice
  <2>1. /\ ~Does("loop", "repaint") /\ UNCHANGED <<label, running, notice>>
        /\ \/ Then("loop", <<"end">>) \/ Then("loop", <<"compare">>)
           \/ Then("loop", <<"settle", "repaint">>)
    BY <1>6 DEF Backstop, RetireOffer, RetireNotice, Does, offer, worker
  <2>2. {<<"end">>, <<"compare">>, <<"settle", "repaint">>}
            \subseteq LoopLists
    BY DEF LoopLists
  <2> QED
    BY <1>3, <2>1, <2>2
<1>7. CASE CompareOffer \/ Disarm
  <2>1. /\ Does("loop", "compare") \/ Does("loop", "disarm")
        /\ UNCHANGED <<label, running, notice>>
        /\ \/ Then("loop", Tail(l))
           \/ Then("loop", <<"disarm", "lapse">>)
    BY <1>7 DEF CompareOffer, Disarm, Done, offer, worker
  <2>2. ~Does("loop", "repaint") /\ l # << >>
    BY <2>1 DEF Does, Idle
  <2>3. <<"disarm", "lapse">> \in LoopLists
    BY DEF LoopLists
  <2> QED
    BY <1>3, <1>4, <2>1, <2>2, <2>3
<1>8. CASE LapseOffer
  <2>1. l # << >> /\ Then("loop", Tail(l)) /\ notice' = now
    BY <1>8 DEF LapseOffer, Done, Does, Idle
  <2>2. notice' # 0
    BY <1>1, <2>1, NeverZero
  <2>3. todo'["loop"] \in LoopLists
    <3>1. todo'["loop"] = Tail(l)
      BY <1>2, <2>1
    <3>2. Tail(l) \in LoopLists
      BY <1>4, <2>1
    <3> QED
      BY <3>1, <3>2
  <2> QED
    BY <1>1, <2>2, <2>3, WordRetired
<1>9. CASE SettleNotice
  <2>1. /\ Does("loop", "settle") /\ Then("loop", Tail(l))
        /\ UNCHANGED <<label, running>>
    BY <1>9 DEF SettleNotice, Done, worker
  <2>2. Tail(l) = <<"repaint">> /\ Tail(l) \in LoopLists
    BY <1>1, <2>1, LoopTails DEF Does, Idle
  <2>3. todo'["loop"] = <<"repaint">>
    BY <1>2, <2>1, <2>2
  <2>h. Head(<<"repaint">>) = "repaint" /\ <<"repaint">> # << >>
    BY Lists
  <2>4. Does("loop", "repaint")'
    BY <2>3, <2>h DEF Does, Idle
  <2> QED
    BY <2>2, <2>3, <2>4 DEF NoticeInv
<1>10. CASE Repaint
  <2>1. /\ l # << >> /\ Then("loop", Tail(l)) /\ UNCHANGED running
        /\ label' = IF running THEN label ELSE "idle"
    BY <1>10 DEF Repaint, Done, Does, Idle, worker
  <2>2. label' # "forgotten" \/ running'
    BY <2>1
  <2>3. todo'["loop"] \in LoopLists
    <3>1. todo'["loop"] = Tail(l)
      BY <1>2, <2>1
    <3>2. Tail(l) \in LoopLists
      BY <1>4, <2>1
    <3> QED
      BY <3>1, <3>2
  <2> QED
    BY <1>1, <2>2, <2>3, WordRetired
<1> QED
  BY <1>5, <1>6, <1>7, <1>8, <1>9, <1>10 DEF LoopStep

(* The clock, the callbacks and the worker.                                *)
LEMMA WordOthers ==
    ASSUME LabelInv, \/ Tick \/ Callback \/ EndStep("ws") \/ Drained
                     \/ WorkerStep \/ UNCHANGED vars
    PROVE  NoticeInv'
<1> DEFINE Word == <<label, running, notice>>
           Moves == UNCHANGED todo \/ \E n : Then("ws", n)
<1>1. TodoOK /\ todo["loop"] \in LoopLists /\ NoticeInv
  BY DEF LabelInv, ForgetInv, OfferInv, NoticeInv
<1>2. ASSUME Moves
      PROVE  /\ todo'["loop"] = todo["loop"]
             /\ todo'["lvgl"] = todo["lvgl"]
  BY <1>1, <1>2, ThenIs DEF Tasks
<1>3. ASSUME Moves, UNCHANGED Word
      PROVE  NoticeInv'
  BY <1>1, <1>2, <1>3, WordKept DEF Does, Idle
<1>4. ASSUME Moves, label' # "forgotten" \/ running'
      PROVE  NoticeInv'
  BY <1>1, <1>2, <1>4, WordRetired
<1>5. CASE Tick \/ Drained \/ UNCHANGED vars
  BY <1>3, <1>5 DEF Tick, Drained, vars, offer, worker
<1>6. CASE Connected \/ Gone
  <2>1. Moves /\ label' = "other"
    BY <1>6 DEF Connected, Gone
  <2>2. label' # "forgotten"
    BY <2>1
  <2> QED
    BY <1>4, <2>1, <2>2
<1>7. CASE Audio \/ AudioDone \/ UserSpeaks \/ ConversationText
  <2>1. Moves /\ UNCHANGED Word
    BY <1>7 DEF Audio, AudioDone, UserSpeaks, ConversationText, offer, worker
  <2> QED
    BY <1>3, <2>1
<1>8. CASE EndStep("ws")
  <2>1. Moves /\ UNCHANGED Word
    BY <1>8 DEF EndStep, EndTest, EndDeadline, Unmute, Done, offer, worker
  <2> QED
    BY <1>3, <2>1
<1>9. CASE TakeRequest \/ StopEnds
  <2>1. UNCHANGED todo /\ label' \in {"other", "idle"}
    BY <1>9 DEF TakeRequest, StopEnds
  <2>2. label' # "forgotten"
    BY <2>1
  <2> QED
    BY <1>4, <2>1, <2>2
<1>10. CASE StartEnds
  <2>1. UNCHANGED todo /\ (label' = "idle" \/ running')
    BY <1>10 DEF StartEnds
  <2> QED
    BY <1>4, <2>1
<1>11. CASE ActionEnds
  BY <1>3, <1>11 DEF ActionEnds, offer
<1> QED
  BY <1>5, <1>6, <1>7, <1>8, <1>9, <1>10, <1>11 DEF Callback, WorkerStep

(* Every step keeps the word's notice.                                     *)
LEMMA LabelNext == Step > 1 /\ LabelInv /\ [Next]_vars => LabelInv'
<1> SUFFICES ASSUME Step > 1, LabelInv, [Next]_vars
             PROVE  LabelInv'
  OBVIOUS
<1>1. ForgetInv'
  BY ForgetNext DEF LabelInv
<1>2. GraceInv'
  BY GraceNext DEF LabelInv
<1>3. NoticeInv'
  BY WordGestures, WordLoop, WordOthers DEF Next
<1> QED
  BY <1>1, <1>2, <1>3 DEF LabelInv

(* Every behaviour keeps it from the start.                                *)
LEMMA LabelAlways ==
    ASSUME Step > 1
    PROVE  Spec => []LabelInv
<1>1. Init => LabelInv
  <2>1. Init => NoticeInv
    BY DEF Init, NoticeInv, LoopLists, Tasks
  <2> QED
    BY <2>1, ForgetInit, GraceInit DEF LabelInv
<1>2. LabelInv /\ [Next]_vars => LabelInv'
  BY LabelNext
<1> QED
  BY <1>1, <1>2, PTL DEF Spec

(* main.c's show_status(), the notice and the loop's repaint: on a stopped *)
(* device where no call is under way, a "forgotten" left on the panel has  *)
(* a notice that will retire it, though the loop was retiring an older one *)
(* while it was being set.  The clock passes over zero, as above.          *)
THEOREM ForgottenIsAlwaysRetired ==
    ASSUME Step > 1
    PROVE  Spec => []ForgottenIsRetired
<1>1. LabelInv => ForgottenIsRetired
  BY DEF LabelInv, NoticeInv, ForgottenIsRetired, AtRest, Does, Tasks
<1> QED
  BY <1>1, LabelAlways, PTL

-----------------------------------------------------------------------------
(***************************************************************************)
(* The mute, and what will lift it.                                        *)
(***************************************************************************)
EndLists == {<< >>, <<"end">>, <<"zero", "unmute">>, <<"unmute">>}

(* A mute has something that will lift it; where nobody has interrupted    *)
(* this session none is being set, and a deadline left from before is      *)
(* about to be ended by the task that met the new session, or by the loop. *)
MuteInv ==
    /\ todo["ws"] \in EndLists
    /\ MuteHasDeadline
    /\ client = "up" /\ ~interrupted =>
           /\ ~Does("lvgl", "mute") /\ ~Does("lvgl", "deadline")
           /\ deadline # 0 =>
                  \E t \in {"ws", "loop"} : Does(t, "end") \/ Does(t, "zero")

(* The lists of end_interrupt()'s steps, and the panel's.                  *)
LEMMA EndTails ==
    ASSUME NEW l \in EndLists \union LoopLists, l # << >>
    PROVE  /\ l \in EndLists => Tail(l) \in EndLists
           /\ Head(l) = "zero" => Tail(l) = <<"unmute">>
<1>1. CASE l \in EndLists
  <2>1. CASE l = <<"end">>
    BY <2>1 DEF EndLists
  <2>2. CASE l = <<"zero", "unmute">>
    BY <2>2 DEF EndLists
  <2>3. CASE l = <<"unmute">>
    BY <2>3 DEF EndLists
  <2> QED
    BY <1>1, <2>1, <2>2, <2>3 DEF EndLists
<1>2. CASE l \in LoopLists \ EndLists
  <2>1. l \in {<<"compare">>, <<"disarm", "lapse">>, <<"lapse">>,
               <<"settle", "repaint">>, <<"repaint">>}
    BY <1>2 DEF LoopLists, EndLists
  <2>2. Head(l) # "zero"
    BY <2>1
  <2> QED
    BY <1>2, <2>2
<1> QED
  BY <1>1, <1>2

(* The deadline is armed after the mute, and after nothing else.           *)
LEMMA MuteTails ==
    ASSUME NEW l \in LvglLists, l # << >>
    PROVE  IF Head(l) = "mute" THEN Tail(l) = <<"deadline">>
           ELSE Tail(l) # << >> => Head(Tail(l)) \notin {"mute", "deadline"}
<1>1. CASE l = <<"mute", "deadline">>
  BY <1>1, Lists
<1>2. CASE l \in {<<"deadline">>, <<"note forgotten">>, <<"say offer">>}
  <2>1. Tail(l) = << >> /\ Head(l) # "mute"
    BY <1>2, Lists
  <2> QED
    BY <2>1
<1>3. CASE l = <<"clear", "note forgotten">>
  <2>1. Tail(l) = <<"note forgotten">> /\ Head(l) = "clear"
    BY <1>3, Lists
  <2>2. Head(Tail(l)) = "note forgotten"
    BY <2>1, Lists
  <2> QED
    BY <2>1, <2>2
<1>4. CASE l = <<"arm", "note offer", "say offer">>
  <2>1. Tail(l) = <<"note offer", "say offer">> /\ Head(l) = "arm"
    BY <1>4, Lists
  <2>2. Head(Tail(l)) = "note offer"
    BY <2>1, Lists
  <2> QED
    BY <2>1, <2>2
<1>5. CASE l = <<"note offer", "say offer">>
  <2>1. Tail(l) = <<"say offer">> /\ Head(l) = "note offer"
    BY <1>5, Lists
  <2>2. Head(Tail(l)) = "say offer"
    BY <2>1, Lists
  <2> QED
    BY <2>1, <2>2
<1> QED
  BY <1>1, <1>2, <1>3, <1>4, <1>5 DEF LvglLists

(* What keeps it: mute and deadline as they are, and nobody's part in      *)
(* lifting it undone.                                                      *)
LEMMA MuteKept ==
    ASSUME MuteInv, todo'["ws"] \in EndLists, UNCHANGED <<muted, deadline>>,
           \A t \in {"ws", "loop"}, s \in {"end", "zero", "unmute"} :
               Does(t, s) => Does(t, s)',
           Does("lvgl", "deadline") => Does("lvgl", "deadline")',
           client' = "up" /\ ~interrupted' =>
               /\ client = "up" /\ ~interrupted
               /\ ~Does("lvgl", "mute")' /\ ~Does("lvgl", "deadline")'
    PROVE  MuteInv'
  BY DEF MuteInv, MuteHasDeadline

(* The panel's calls.                                                      *)
LEMMA MuteGestures ==
    ASSUME LabelInv, MuteInv, Gestured
    PROVE  MuteInv'
<1>1. TodoOK /\ todo["ws"] \in EndLists
  BY DEF LabelInv, ForgetInv, OfferInv, MuteInv
<1>2. UNCHANGED <<muted, deadline, client>>
  BY DEF Gestured, AlarmTakesGesture, Tap, Hold, BootClick, mute
<1>3. CASE UNCHANGED <<todo, interrupted>>
  BY <1>1, <1>2, <1>3, MuteKept DEF Does, Idle, MuteInv
<1>4. ASSUME NEW l, l # << >>, Then("lvgl", l), Idle("lvgl"),
             client = "up" /\ ~interrupted' =>
                 ~interrupted /\ Head(l) \notin {"mute", "deadline"}
      PROVE  MuteInv'
  <2>1. /\ todo'["lvgl"] = l /\ todo'["ws"] = todo["ws"]
        /\ todo'["loop"] = todo["loop"]
    BY <1>1, <1>4, ThenIs DEF Tasks
  <2> QED
    BY <1>1, <1>2, <1>4, <2>1, MuteKept DEF Does, Idle
<1>5. CASE Tap
  <2>1. CASE Interrupt /\ inbound
    <3>1. Then("lvgl", <<"mute", "deadline">>) /\ interrupted' = TRUE
          /\ Idle("lvgl") /\ <<"mute", "deadline">> # << >>
      BY <1>5, <2>1 DEF Tap, Interrupt, Gesture
    <3> QED
      BY <1>4, <3>1
  <2>2. CASE Interrupt /\ ~inbound
    <3>1. UNCHANGED todo /\ (interrupted' <=> interrupted)
      BY <2>2 DEF Interrupt
    <3> QED
      BY <1>1, <1>2, <3>1, MuteKept DEF Does, Idle, MuteInv
  <2>3. CASE Toggle
    BY <1>3, <2>3 DEF Toggle
  <2> QED
    BY <1>5, <2>1, <2>2, <2>3 DEF Tap
<1>6. CASE Hold
  <2>1. CASE running \/ busy \/ ~saved
    BY <1>3, <1>6, <2>1 DEF Hold
  <2>2. CASE ~(running \/ busy \/ ~saved)
    <3> DEFINE l == IF in_forget_window THEN ConfirmSteps
                    ELSE <<"arm", "note offer", "say offer">>
    <3>1. Then("lvgl", l) /\ Idle("lvgl") /\ UNCHANGED interrupted
      BY <1>6, <2>2 DEF Hold, Gesture
    <3>2. l # << >> /\ Head(l) \in {"arm", "clear"}
      BY DEF ConfirmSteps
    <3> HIDE DEF l
    <3> QED
      BY <1>4, <3>1, <3>2
  <2> QED
    BY <2>1, <2>2
<1>7. CASE AlarmTakesGesture \/ BootClick
  BY <1>3, <1>7 DEF AlarmTakesGesture, BootClick
<1> QED
  BY <1>5, <1>6, <1>7 DEF Gestured

(* Their steps: after the mute the deadline, which is never zero.          *)
LEMMA MuteSteps ==
    ASSUME Step > 1, LabelInv, MuteInv, GestureStep
    PROVE  MuteInv'
<1> DEFINE l == todo["lvgl"]
<1>1. /\ TodoOK /\ l \in LvglLists /\ now \in Stamps /\ Odd(now)
      /\ todo["ws"] \in EndLists
  BY DEF LabelInv, ForgetInv, OfferInv, GraceInv, MuteInv
<1>2. l # << >> /\ Then("lvgl", Tail(l)) /\ UNCHANGED <<client, interrupted>>
  BY DEF GestureStep, Mute, ArmDeadline, ClearHistory, NoteForgotten, Arm,
         NoteOffer, SayOffer, Does, Idle, Done
<1>3. /\ todo'["lvgl"] = Tail(l) /\ todo'["ws"] = todo["ws"]
      /\ todo'["loop"] = todo["loop"]
  BY <1>1, <1>2, ThenIs DEF Tasks
<1>4. IF Head(l) = "mute" THEN Tail(l) = <<"deadline">>
      ELSE Tail(l) # << >> => Head(Tail(l)) \notin {"mute", "deadline"}
  BY <1>1, <1>2, MuteTails
<1>5. CASE Mute
  <2>1. /\ Does("lvgl", "mute") /\ muted' = TRUE /\ UNCHANGED deadline
    BY <1>5 DEF Mute
  <2>2. Head(<<"deadline">>) = "deadline" /\ <<"deadline">> # << >>
    BY Lists
  <2>3. Does("lvgl", "deadline")'
    BY <1>3, <1>4, <2>1, <2>2 DEF Does, Idle
  <2>4. ~(client = "up" /\ ~interrupted)
    BY <2>1 DEF MuteInv
  <2> QED
    BY <1>1, <1>2, <1>3, <2>3, <2>4 DEF MuteInv, MuteHasDeadline
<1>6. CASE ArmDeadline
  <2>1. Does("lvgl", "deadline") /\ deadline' = After(MUTE_MAX)
        /\ MUTE_MAX \in Windows
    BY <1>6 DEF ArmDeadline, Windows
  <2>2. deadline' # 0
    BY <1>1, <2>1, Deadlines, NeverZero
  <2>3. ~(client = "up" /\ ~interrupted)
    BY <2>1 DEF MuteInv
  <2> QED
    BY <1>1, <1>2, <1>3, <2>2, <2>3 DEF MuteInv, MuteHasDeadline
<1>7. CASE ~Mute /\ ~ArmDeadline
  <2>1. /\ UNCHANGED <<muted, deadline>>
        /\ Head(l) \notin {"mute", "deadline"}
    BY <1>7 DEF GestureStep, ClearHistory, NoteForgotten, Arm, NoteOffer,
                SayOffer, Does, mute
  <2>2. ~Does("lvgl", "mute")' /\ ~Does("lvgl", "deadline")'
        /\ ~Does("lvgl", "deadline")
    BY <1>3, <1>4, <2>1 DEF Does, Idle
  <2>3. \A t \in {"ws", "loop"}, s \in {"end", "zero", "unmute"} :
            Does(t, s) => Does(t, s)'
    BY <1>3 DEF Does, Idle
  <2> QED
    BY <1>1, <1>2, <1>3, <2>1, <2>2, <2>3, MuteKept
<1> QED
  BY <1>5, <1>6, <1>7

(* end_interrupt(), on either task, while the other or the panel is in its *)
(* own call: who zeroes the deadline lifts the mute next.                  *)
LEMMA MuteEndSteps ==
    ASSUME LabelInv, MuteInv, NEW t \in {"ws", "loop"}, EndStep(t)
    PROVE  MuteInv'
<1> DEFINE l == todo[t]
<1>1. /\ TodoOK /\ l \in EndLists \union LoopLists
      /\ todo["ws"] \in EndLists
  BY DEF LabelInv, ForgetInv, OfferInv, NoticeInv, MuteInv
<1>2. /\ UNCHANGED <<client, interrupted>>
  BY DEF EndStep, EndTest, EndDeadline, Unmute
<1>3. ASSUME NEW n, Then(t, n)
      PROVE  /\ todo'[t] = n
             /\ todo'["lvgl"] = todo["lvgl"]
             /\ \A u \in {"ws", "loop"} \ {t} : todo'[u] = todo[u]
  BY <1>1, <1>3, ThenIs DEF Tasks
<1>4. ASSUME NEW n, Then(t, n), t = "ws" => n \in EndLists
      PROVE  todo'["ws"] \in EndLists
  BY <1>1, <1>3, <1>4
<1>t. ASSUME l # << >>
      PROVE  /\ t = "ws" => Tail(l) \in EndLists
             /\ Head(l) = "zero" => Tail(l) = <<"unmute">>
  BY <1>1, <1>t, EndTails
<1>h. /\ Head(<<"unmute">>) = "unmute" /\ <<"unmute">> # << >>
      /\ Head(<<"zero", "unmute">>) = "zero" /\ <<"zero", "unmute">> # << >>
  BY Lists
<1>5. CASE EndTest(t) /\ deadline = 0
  <2>1. /\ Does(t, "end") /\ Then(t, Tail(l)) /\ l # << >>
        /\ UNCHANGED <<muted, deadline>>
    BY <1>5 DEF EndTest, Done, Does, Idle, mute
  <2>2. todo'["ws"] \in EndLists
    BY <1>4, <1>t, <2>1
  <2>3. ~Does(t, "unmute")
    BY <2>1 DEF Does
  <2>4. \A u \in {"ws", "loop"} :
            Does(u, "unmute") => Does(u, "unmute")'
    BY <1>3, <2>1, <2>3 DEF Does, Idle
  <2>5. MuteHasDeadline'
    BY <1>3, <2>1, <2>4 DEF MuteInv, MuteHasDeadline, Does, Idle
  <2> QED
    BY <1>2, <1>3, <1>5, <2>1, <2>2, <2>5 DEF MuteInv, Does, Idle
<1>6. CASE EndTest(t) /\ deadline # 0
  <2>1. /\ Does(t, "end") /\ Then(t, <<"zero", "unmute">>)
        /\ UNCHANGED <<muted, deadline>>
    BY <1>6 DEF EndTest, mute
  <2>2. todo'["ws"] \in EndLists
    BY <1>4, <2>1 DEF EndLists
  <2>3. Does(t, "zero")'
    BY <1>3, <1>h, <2>1 DEF Does, Idle
  <2>4. MuteHasDeadline'
    BY <1>6, <2>1 DEF MuteHasDeadline
  <2> QED
    BY <1>2, <1>3, <2>1, <2>2, <2>3, <2>4 DEF MuteInv, Does, Idle
<1>7. CASE EndDeadline(t)
  <2>1. /\ Does(t, "zero") /\ Then(t, Tail(l)) /\ l # << >>
        /\ Head(l) = "zero" /\ deadline' = 0
    BY <1>7 DEF EndDeadline, Done, Does, Idle
  <2>2. todo'["ws"] \in EndLists
    BY <1>4, <1>t, <2>1
  <2>3. Does(t, "unmute")'
    BY <1>3, <1>t, <1>h, <2>1 DEF Does, Idle
  <2>4. MuteHasDeadline'
    BY <2>3 DEF MuteHasDeadline
  <2> QED
    BY <1>2, <1>3, <2>1, <2>2, <2>4 DEF MuteInv, Does, Idle
<1>8. CASE Unmute(t)
  <2>1. /\ Does(t, "unmute") /\ Then(t, Tail(l)) /\ l # << >>
        /\ muted' = FALSE /\ UNCHANGED deadline
    BY <1>8 DEF Unmute, Done, Does, Idle
  <2>2. todo'["ws"] \in EndLists
    BY <1>4, <1>t, <2>1
  <2>3. \A u \in {"ws", "loop"}, s \in {"end", "zero"} :
            Does(u, s) => Does(u, s)'
    BY <1>3, <2>1 DEF Does, Idle
  <2>4. MuteHasDeadline'
    BY <2>1 DEF MuteHasDeadline
  <2> QED
    BY <1>2, <1>3, <2>1, <2>2, <2>3, <2>4 DEF MuteInv, Does, Idle
<1> QED
  BY <1>5, <1>6, <1>7, <1>8 DEF EndStep

(* A session that opens, and the other callbacks.                          *)
LEMMA MuteCallbacks ==
    ASSUME LabelInv, MuteInv, Callback
    PROVE  MuteInv'
<1>1. TodoOK /\ todo["ws"] \in EndLists
  BY DEF LabelInv, ForgetInv, OfferInv, MuteInv
<1>2. UNCHANGED <<muted, deadline>>
  BY DEF Callback, Connected, Gone, Audio, AudioDone, UserSpeaks,
         ConversationText, mute
<1>h. <<"end">> \in EndLists /\ Head(<<"end">>) = "end" /\ <<"end">> # << >>
  BY Lists DEF EndLists
<1>3. CASE Audio \/ ConversationText
  <2>1. UNCHANGED <<todo, client, interrupted>>
    BY <1>3 DEF Audio, ConversationText
  <2> QED
    BY <1>1, <1>2, <2>1, MuteKept DEF Does, Idle, MuteInv
<1>4. ASSUME Then("ws", <<"end">>), Idle("ws")
      PROVE  /\ todo'["ws"] = <<"end">> /\ todo'["lvgl"] = todo["lvgl"]
             /\ todo'["loop"] = todo["loop"] /\ todo'["ws"] \in EndLists
             /\ Does("ws", "end")'
             /\ \A u \in {"ws", "loop"}, s \in {"end", "zero", "unmute"} :
                    Does(u, s) => Does(u, s)'
             /\ \A s : Does("lvgl", s) <=> Does("lvgl", s)'
  <2>1. /\ todo'["ws"] = <<"end">> /\ todo'["lvgl"] = todo["lvgl"]
        /\ todo'["loop"] = todo["loop"]
    BY <1>1, <1>4, ThenIs DEF Tasks
  <2> QED
    BY <1>4, <1>h, <2>1 DEF Does, Idle
<1>5. CASE Connected
  <2>1. Then("ws", <<"end">>) /\ Idle("ws") /\ Idle("lvgl")
    BY <1>5 DEF Connected
  <2>2. MuteHasDeadline'
    BY <1>2, <1>4, <2>1 DEF MuteInv, MuteHasDeadline
  <2>3. ~Does("lvgl", "mute")' /\ ~Does("lvgl", "deadline")'
    BY <1>4, <2>1 DEF Does
  <2> QED
    BY <1>4, <2>1, <2>2, <2>3 DEF MuteInv
<1>6. CASE Gone
  <2>1. Then("ws", <<"end">>) /\ Idle("ws") /\ client' = "opening"
    BY <1>6 DEF Gone, Reports
  <2> QED
    BY <1>2, <1>4, <2>1, MuteKept
<1>7. CASE AudioDone \/ UserSpeaks
  <2>1. /\ Then("ws", <<"end">>) /\ Idle("ws")
        /\ UNCHANGED <<client, interrupted>>
    BY <1>7 DEF AudioDone, UserSpeaks, Reports
  <2>2. client' = "up" /\ ~interrupted' =>
            ~Does("lvgl", "mute") /\ ~Does("lvgl", "deadline")
    BY <2>1 DEF MuteInv
  <2>3. client' = "up" /\ ~interrupted' =>
            ~Does("lvgl", "mute")' /\ ~Does("lvgl", "deadline")'
    BY <1>4, <2>1, <2>2
  <2>4. Does("lvgl", "deadline") => Does("lvgl", "deadline")'
    BY <1>4, <2>1
  <2> QED
    BY <1>2, <1>4, <2>1, <2>3, <2>4, MuteKept
<1> QED
  BY <1>3, <1>5, <1>6, <1>7 DEF Callback

(* The clock, the loop's other work, the worker.                           *)
LEMMA MuteOthers ==
    ASSUME LabelInv, MuteInv,
           Tick \/ Drained \/ LoopStep \/ WorkerStep \/ UNCHANGED vars
    PROVE  MuteInv'
<1>1. /\ TodoOK /\ todo["ws"] \in EndLists
  BY DEF LabelInv, ForgetInv, OfferInv, MuteInv
<1>2. CASE Tick \/ Drained \/ TakeRequest \/ StartEnds \/ ActionEnds
           \/ UNCHANGED vars
  <2>1. /\ UNCHANGED <<todo, muted, deadline, interrupted>>
        /\ client' = client \/ client' = "opening"
    BY <1>2 DEF Tick, Drained, TakeRequest, StartEnds, ActionEnds, vars, mute
  <2> QED
    BY <1>1, <2>1, MuteKept DEF Does, Idle, MuteInv
<1>3. CASE StopEnds
  <2>1. UNCHANGED todo /\ muted' = FALSE /\ client' = "down"
    BY <1>3 DEF StopEnds
  <2> QED
    BY <1>1, <2>1 DEF MuteInv, MuteHasDeadline
<1>4. CASE LoopStep
  <2>1. /\ UNCHANGED <<muted, deadline, client, interrupted>>
        /\ \E n : Then("loop", n)
        /\ \A s \in {"end", "zero", "unmute"} : ~Does("loop", s)
    BY <1>4 DEF LoopStep, Backstop, RetireOffer, CompareOffer, Disarm,
                LapseOffer, RetireNotice, SettleNotice, Repaint, Done, Does,
                mute
  <2>2. todo'["ws"] = todo["ws"] /\ todo'["lvgl"] = todo["lvgl"]
    BY <1>1, <2>1, ThenIs DEF Tasks
  <2>3. /\ \A s \in {"end", "zero", "unmute"} : Does("ws", s) => Does("ws", s)'
        /\ \A s : Does("lvgl", s) <=> Does("lvgl", s)'
    BY <2>2 DEF Does, Idle
  <2>4. client' = "up" /\ ~interrupted' =>
            ~Does("lvgl", "mute")' /\ ~Does("lvgl", "deadline")'
    BY <2>1, <2>3 DEF MuteInv
  <2> QED
    BY <1>1, <2>1, <2>2, <2>3, <2>4, MuteKept
<1> QED
  BY <1>2, <1>3, <1>4 DEF WorkerStep

(* main.c's INTERRUPT STATE: however taps, replies, lost sockets, stops    *)
(* and the loop's backstop fall between the steps of one another, a mute   *)
(* has a deadline, or a task about to set it or to lift the mute; and a    *)
(* session nobody interrupted is neither muted nor chased by the deadline  *)
(* of the one before.  The clock passes over zero, as above.               *)
THEOREM MuteAlwaysHasAnEnd ==
    ASSUME Step > 1
    PROVE  Spec => []MuteHasAnEnd
<1>1. Init => MuteInv
  BY DEF Init, MuteInv, MuteHasDeadline, EndLists, Tasks
<1>2. LabelInv /\ MuteInv /\ [Next]_vars => MuteInv'
  BY MuteGestures, MuteSteps, MuteEndSteps, MuteCallbacks, MuteOthers
     DEF Next
<1>3. MuteInv => MuteHasAnEnd
  BY DEF MuteInv, MuteHasDeadline, MuteHasAnEnd, NewSessionIsHeard, Does
<1> QED
  BY <1>1, <1>2, <1>3, LabelAlways, PTL DEF Spec
=============================================================================
