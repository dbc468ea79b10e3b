-------------------------- MODULE UnattendedProofs --------------------------
(***************************************************************************)
(* What Network, Screens and History promise of a device left to itself,   *)
(* proved for all constants: a network the page called saved is there for  *)
(* the restart to find; a press that began on a screen stays on it; a turn *)
(* the user had forgotten is not remembered again.                         *)
(***************************************************************************)
EXTENDS Network, Screens, History, WellFoundedInduction, TLAPS

-----------------------------------------------------------------------------
(***************************************************************************)
(* The setup portal (Network).  While save_handler() is at work on a form  *)
(* nothing is called saved, and what it has written is still there unless  *)
(* the button has forgotten the network, which arms the restart.           *)
(***************************************************************************)
Kept == [ssid : Networks \union {None}, pass : Networks \union {None},
         key : BOOLEAN]

Forms == [at : {"idle", "ssid", "pass", "key", "answer"},
          net : Networks \union {None}, key : BOOLEAN]

Networked ==
    /\ nvs \in Kept /\ form \in Forms
    /\ saved \in Networks \union {None} /\ restart \in BOOLEAN

FormInv ==
    /\ form.at # "idle" => /\ saved = None
                           /\ Acceptable(form.net, form.key)
    /\ form.at \in {"pass", "key", "answer"} /\ ~restart =>
           nvs.ssid = form.net
    /\ form.at \in {"key", "answer"} /\ ~restart => nvs.pass = form.net
    /\ form.at = "answer" => nvs.key

PortalInv == Networked /\ FormInv /\ SavedIsWhole

(* The records the portal's steps build are of their types.               *)
LEMMA PortalRecords ==
    /\ NoForm \in Forms
    /\ \A f \in Forms :
           \A at \in {"pass", "key", "answer"} :
               /\ [f EXCEPT !.at = at] \in Forms
               /\ [f EXCEPT !.at = at].at = at
               /\ [f EXCEPT !.at = at].net = f.net
               /\ [f EXCEPT !.at = at].key = f.key
    /\ \A n \in Networks, key \in BOOLEAN :
           [at |-> "ssid", net |-> n, key |-> key] \in Forms
    /\ \A r \in Kept :
           /\ \A n \in Networks \union {None} :
                  /\ [r EXCEPT !.ssid = n] \in Kept
                  /\ [r EXCEPT !.pass = n] \in Kept
           /\ \A key \in BOOLEAN : [r EXCEPT !.key = key] \in Kept
<1>1. NoForm \in Forms
  <2>1. FALSE \in BOOLEAN
    OBVIOUS
  <2> QED BY <2>1 DEF NoForm, Forms
<1>2. ASSUME NEW f \in Forms, NEW at \in {"pass", "key", "answer"}
      PROVE  /\ [f EXCEPT !.at = at] \in Forms
             /\ [f EXCEPT !.at = at].at = at
             /\ [f EXCEPT !.at = at].net = f.net
             /\ [f EXCEPT !.at = at].key = f.key
  BY DEF Forms
<1>3. ASSUME NEW n \in Networks, NEW key \in BOOLEAN
      PROVE  [at |-> "ssid", net |-> n, key |-> key] \in Forms
  BY DEF Forms
<1>4. ASSUME NEW r \in Kept, NEW n \in Networks \union {None}
      PROVE  /\ [r EXCEPT !.ssid = n] \in Kept
             /\ [r EXCEPT !.pass = n] \in Kept
  BY DEF Kept
<1>5. ASSUME NEW r \in Kept, NEW key \in BOOLEAN
      PROVE  [r EXCEPT !.key = key] \in Kept
  BY DEF Kept
<1> QED BY <1>1, <1>2, <1>3, <1>4, <1>5

(* The first state is of the types.                                        *)
LEMMA NetworkedFirst == NetInit => Networked
<1> SUFFICES ASSUME NetInit PROVE Networked
  OBVIOUS
<1>1. nvs \in Kept
  <2>1. FALSE \in BOOLEAN
    OBVIOUS
  <2> QED BY <2>1 DEF NetInit, Kept
<1>2. form \in Forms
  BY PortalRecords DEF NetInit
<1>3. restart \in BOOLEAN
  BY DEF NetInit
<1> QED BY <1>1, <1>2, <1>3 DEF NetInit, Networked

(* Each step of main, the event task, the driver, the portal and the       *)
(* button writes what its variable may hold.                               *)
LEMMA NetworkedStep ==
    ASSUME Networked, [NetNext]_netvars PROVE Networked'
<1> USE DEF Networked
<1>1. CASE Main
  <2>1. CASE Abort
    <3>1. restart' \in BOOLEAN
      BY <2>1 DEF Abort, Restarted
    <3> QED BY <2>1, <3>1, PortalRecords DEF Abort, Restarted
  <2>2. CASE UNCHANGED <<nvs, form, saved, restart>>
    BY <2>2
  <2> QED BY <1>1, <2>1, <2>2 DEF Main, WithoutCredentials, wifi_sta_start,
             wifi_sta_wait_connected, session_ctl_start, wifi_sta_stop,
             esp_wifi_stop, wifi_prov_start, portal
<1>2. CASE EventTask \/ Driver
  BY <1>2 DEF EventTask, Driver, STA_START, STA_DISCONNECTED, STA_GOT_IP,
     Joins, JoinFails, portal
<1>3. CASE Refused
  BY <1>3, PortalRecords DEF Refused
<1>4. CASE SaveSsid /\ ~Refused
  <2>1. nvs' = [nvs EXCEPT !.ssid = form.net] /\ BootGoes("pass")
        /\ UNCHANGED <<saved, restart>>
    BY <1>4 DEF SaveSsid
  <2>2. form.net \in Networks \union {None}
    BY DEF Forms
  <2> QED BY <2>1, <2>2, PortalRecords DEF BootGoes
<1>5. CASE SavePass /\ ~Refused
  <2>1. nvs' = [nvs EXCEPT !.pass = form.net] /\ BootGoes("key")
        /\ UNCHANGED <<saved, restart>>
    BY <1>5 DEF SavePass
  <2>2. form.net \in Networks \union {None}
    BY DEF Forms
  <2> QED BY <2>1, <2>2, PortalRecords DEF BootGoes
<1>6. CASE api_key_save /\ ~Refused
  <2>1. nvs' = [nvs EXCEPT !.key = @ \/ form.key] /\ BootGoes("answer")
        /\ UNCHANGED <<saved, restart>>
    BY <1>6 DEF api_key_save
  <2>2. (nvs.key \/ form.key) \in BOOLEAN
    OBVIOUS
  <2>3. nvs' = [nvs EXCEPT !.key = nvs.key \/ form.key]
    BY <2>1
  <2>4. nvs' \in Kept
    BY <2>2, <2>3, PortalRecords, Zenon
  <2>5. form' \in Forms
    BY <2>1, PortalRecords DEF BootGoes
  <2> QED BY <2>1, <2>4, <2>5
<1>7. CASE Answers
  <2>1. form' \in Forms /\ nvs' \in Kept
    BY <1>7, PortalRecords DEF Answers
  <2>2. restart' \in BOOLEAN
    BY <1>7 DEF Answers
  <2>3. saved' \in Networks \union {None}
    BY <1>7 DEF Answers, Forms
  <2> QED BY <2>1, <2>2, <2>3
<1>8. CASE Restarts \/ wifi_prov_run \/ PowerGoes
  <2>1. Restarted
    BY <1>8 DEF Restarts, wifi_prov_run, PowerGoes
  <2>2. restart' \in BOOLEAN
    BY <2>1 DEF Restarted
  <2> QED BY <2>1, <2>2, PortalRecords DEF Restarted
<1>9. ASSUME NEW n \in Networks, NEW key \in BOOLEAN, save_handler(n, key)
      PROVE  Networked'
  BY <1>9, PortalRecords DEF save_handler
<1>10. CASE ButtonForgets
  <2>1. nvs' = [[nvs EXCEPT !.ssid = None] EXCEPT !.pass = None]
    BY <1>10 DEF ButtonForgets, Kept
  <2>2. nvs' \in Kept
    BY <2>1, PortalRecords
  <2>3. restart' \in BOOLEAN
    BY <1>10 DEF ButtonForgets
  <2> QED BY <1>10, <2>2, <2>3 DEF ButtonForgets
<1>11. ASSUME NEW n \in Networks, NetworkGoes(n) \/ NetworkComes(n)
       PROVE  Networked'
  BY <1>11 DEF NetworkGoes, NetworkComes, portal
<1>12. CASE UNCHANGED netvars
  BY <1>12 DEF netvars, portal
<1> QED BY <1>1, <1>2, <1>3, <1>4, <1>5, <1>6, <1>7, <1>8, <1>9, <1>10,
           <1>11, <1>12 DEF NetNext, Handler

(* Every step keeps what the handler has written for the form, and what    *)
(* the page has called saved; a key is never erased.                       *)
LEMMA PortalStep ==
    ASSUME PortalInv, [NetNext]_netvars PROVE FormInv' /\ SavedIsWhole'
<1> USE DEF PortalInv, FormInv, SavedIsWhole, Acceptable
<1>1. CASE Main
  BY <1>1 DEF Main, WithoutCredentials, wifi_sta_start,
     wifi_sta_wait_connected, session_ctl_start, wifi_sta_stop,
     StopConnecting, esp_wifi_stop, wifi_prov_start, Abort, Restarted, portal,
     NoForm
<1>2. CASE EventTask \/ Driver
  BY <1>2 DEF EventTask, Driver, STA_START, STA_DISCONNECTED, STA_GOT_IP,
     Joins, JoinFails, portal
<1>3. CASE SaveSsid
  BY <1>3 DEF SaveSsid, BootAt, BootGoes, Refused, NoForm, Networked,
     Forms, Kept
<1>4. CASE SavePass
  BY <1>4 DEF SavePass, BootAt, BootGoes, Refused, NoForm, Networked,
     Forms, Kept
<1>5. CASE api_key_save
  BY <1>5 DEF api_key_save, BootAt, BootGoes, Refused, NoForm, Networked,
     Forms, Kept
<1>6. CASE Answers
  BY <1>6 DEF Answers, BootAt, NoForm
<1>7. CASE Restarts \/ wifi_prov_run \/ PowerGoes
  BY <1>7 DEF Restarts, wifi_prov_run, PowerGoes, Restarted, NoForm
<1>8. ASSUME NEW n \in Networks, NEW key \in BOOLEAN, save_handler(n, key)
      PROVE  FormInv' /\ SavedIsWhole'
  BY <1>8 DEF save_handler, NoForm
<1>9. CASE ButtonForgets
  BY <1>9 DEF ButtonForgets, Networked, Kept
<1>10. ASSUME NEW n \in Networks, NetworkGoes(n) \/ NetworkComes(n)
       PROVE  FormInv' /\ SavedIsWhole'
  BY <1>10 DEF NetworkGoes, NetworkComes, portal
<1>11. CASE UNCHANGED netvars
  BY <1>11 DEF netvars, portal
<1> QED BY <1>1, <1>2, <1>3, <1>4, <1>5, <1>6, <1>7, <1>8, <1>9, <1>10,
           <1>11 DEF NetNext, Handler

(* When the page has said "saved", name, passphrase and key are there,     *)
(* whatever failed and whenever the power went (save_handler()).           *)
THEOREM SavedStaysWhole == NetSpec => []SavedIsWhole
<1>1. NetInit => PortalInv
  BY NetworkedFirst
     DEF NetInit, PortalInv, FormInv, SavedIsWhole, NoForm
<1>2. PortalInv /\ [NetNext]_netvars => PortalInv'
  BY NetworkedStep, PortalStep DEF PortalInv
<1> QED BY <1>1, <1>2, PTL DEF NetSpec, PortalInv

(* From wifi_sta_stop() on nothing makes the station connect, and once     *)
(* esp_wifi_stop() is through it is not connected either; nor is it before *)
(* app_main() starts it.                                                   *)
RadioInv ==
    /\ boot \in {"start", "stopped", "portalStart", "portal"} => ~connecting
    /\ boot \in {"start", "portalStart"} => link = "idle"
    /\ PortalIsLeftAlone

(* Whatever events are still queued are handled with connecting lowered.   *)
LEMMA RadioNext ==
    ASSUME RadioInv, [NetNext]_netvars PROVE RadioInv'
<1> USE DEF RadioInv, PortalIsLeftAlone
<1>1. CASE Main
  BY <1>1 DEF Main, WithoutCredentials, wifi_sta_start,
     wifi_sta_wait_connected, session_ctl_start, wifi_sta_stop,
     StopConnecting, esp_wifi_stop, wifi_prov_start, Abort, Restarted, station
<1>2. CASE EventTask
  BY <1>2 DEF EventTask, STA_START, STA_DISCONNECTED, STA_GOT_IP,
     esp_wifi_connect
<1>3. CASE Driver
  BY <1>3 DEF Driver, Joins, JoinFails
<1>4. CASE Restarts \/ wifi_prov_run \/ PowerGoes
  BY <1>4 DEF Restarts, wifi_prov_run, PowerGoes, Restarted
<1>5. CASE UNCHANGED <<boot, connecting, link>>
  BY <1>5
<1> QED
  BY <1>1, <1>2, <1>3, <1>4, <1>5
     DEF NetNext, Handler, SaveSsid, SavePass, api_key_save, Answers,
         save_handler, ButtonForgets, NetworkGoes, NetworkComes, station,
         netvars

(* While the portal has the radio, neither a retry nor a STA_START that    *)
(* was queued before it connects the station underneath it                 *)
(* (wifi_sta_stop(), on_wifi_event()).                                     *)
THEOREM PortalIsAlwaysLeftAlone == NetSpec => []PortalIsLeftAlone
<1>1. NetInit => RadioInv
  BY DEF NetInit, RadioInv, PortalIsLeftAlone
<1>2. RadioInv /\ [NetNext]_netvars => RadioInv'
  BY RadioNext
<1>3. RadioInv => PortalIsLeftAlone
  BY DEF RadioInv
<1> QED
  BY <1>1, <1>2, <1>3, PTL DEF NetSpec

-----------------------------------------------------------------------------
(***************************************************************************)
(* The screens.  From one release to the next frame what is painted may be *)
(* gone; from that frame on a painted panel is open and a painted screen   *)
(* is wanted, so only a press on the face gets the button.                 *)
(***************************************************************************)
PaintedInv ==
    /\ painted \in {"face", "panel", "clock", "stopwatch", "echo", "ring"}
    /\ ~finger.hasty => /\ painted = "panel" => sheet.open
                        /\ painted = "stopwatch" => wanted.stopwatch
                        /\ painted = "echo" => wanted.echo

ButtonInv == finger.button => finger.began = "face" \/ finger.early

(* The records have their fields.                                          *)
Shaped ==
    /\ DOMAIN finger = {"down", "at", "button", "screen", "swipe", "long",
                        "began", "early", "hasty", "took"}
    /\ DOMAIN wanted = {"clock", "stopwatch", "echo"}
    /\ DOMAIN sheet = {"open", "opening", "gesture", "owned", "idle"}

TouchInv == Shaped /\ PaintedInv /\ ButtonInv

Beyond == {"session", "test"}

(* A frame's choice: whose the frame is, of what is wanted and open.       *)
LEMMA OwnerIsWanted ==
    ASSUME NEW w, NEW asleep
    PROVE  /\ Owner(w, asleep) \in {"face", "panel", "clock", "stopwatch",
                                    "echo", "ring"}
           /\ Owner(w, asleep) = "panel" => sheet'.open
           /\ Owner(w, asleep) = "stopwatch" => w.stopwatch
           /\ Owner(w, asleep) = "echo" => w.echo
BY DEF Owner

(* The finger's record, as each of its steps leaves it.                    *)
LEMMA LiftedFinger ==
    \A h :
        /\ [Lifted EXCEPT !.hasty = h].hasty = h
        /\ [Lifted EXCEPT !.hasty = h].took = {}
        /\ [Lifted EXCEPT !.hasty = h].button = FALSE
BY DEF Lifted

(* What a press or a release took that is not a screen's own.              *)
Reaches == finger'.took \cap Beyond \subseteq finger.took

(* Frames: the first half only lets go of a finger that is up; the second  *)
(* paints what is wanted and open from then on.                            *)
LEMMA FramesKeep ==
    ASSUME TouchInv, FrameBegins \/ FrameChooses
    PROVE  TouchInv' /\ Reaches
<1>1. CASE FrameBegins
  <2>1. CASE finger.down
    BY <1>1, <2>1
       DEF FrameBegins, TouchInv, Shaped, PaintedInv, ButtonInv, Reaches
  <2>2. CASE ~finger.down
    <3>1. finger' = [Lifted EXCEPT !.hasty = finger.hasty]
      BY <1>1, <2>2 DEF FrameBegins
    <3>2. DOMAIN finger' = DOMAIN Lifted
      BY <3>1
    <3>3. finger'.hasty = finger.hasty /\ finger'.took = {}
          /\ finger'.button = FALSE
      BY <3>1, LiftedFinger
    <3> QED
      BY <1>1, <3>2, <3>3
         DEF FrameBegins, TouchInv, Shaped, PaintedInv, ButtonInv, Reaches,
             Lifted
  <2> QED BY <2>1, <2>2
<1>2. CASE FrameChooses
  <2>1. finger' = [finger EXCEPT !.hasty = FALSE]
    BY <1>2 DEF FrameChooses
  <2>2. /\ finger'.button = finger.button /\ finger'.began = finger.began
        /\ finger'.early = finger.early /\ finger'.took = finger.took
        /\ DOMAIN finger' = DOMAIN finger
    BY <2>1 DEF TouchInv, Shaped
  <2>3. \E w, asleep : painted' = Owner(wanted', asleep)
    BY <1>2 DEF FrameChooses
  <2>4. PaintedInv'
    BY <2>3, OwnerIsWanted DEF PaintedInv
  <2>5. DOMAIN wanted' = DOMAIN wanted
    BY <1>2 DEF FrameChooses, StillWanted, TouchInv, Shaped
  <2>6. DOMAIN sheet' = DOMAIN sheet
    BY <1>2 DEF FrameChooses, PanelAfter
  <2> QED BY <2>2, <2>4, <2>5, <2>6
          DEF TouchInv, Shaped, ButtonInv, Reaches
<1> QED BY <1>1, <1>2

(* A press: only the face's gives the button, and it takes nothing itself. *)
LEMMA PressKeeps ==
    ASSUME TouchInv, Pressed PROVE TouchInv' /\ Reaches
<1>1. PICK at \in Places :
          PressOnScreen(at) \/ PressOnRing(at) \/ PressOnFace(at)
  BY DEF Pressed
<1>2. painted' = painted
  BY DEF Pressed
<1> DEFINE Takes(button, took) ==
        \E screen, swipe : Began(at, screen, swipe, button, took)
<1>3. ASSUME NEW button, NEW took, Takes(button, took)
      PROVE  /\ finger'.button = button /\ finger'.took = took
             /\ finger'.began = painted /\ finger'.early = finger.hasty
             /\ finger'.hasty = finger.hasty
             /\ DOMAIN finger' = DOMAIN finger
  BY <1>3 DEF Began, TouchInv, Shaped
<1>4. /\ DOMAIN sheet' = DOMAIN sheet /\ sheet'.open = sheet.open
      /\ DOMAIN wanted' = DOMAIN wanted
      /\ wanted'.stopwatch = wanted.stopwatch /\ wanted'.echo = wanted.echo
  <2>1. CASE PressOnScreen(at)
    BY <1>1, <2>1
       DEF PressOnScreen, ui_panel_pressed, TouchInv, Shaped
  <2>2. CASE PressOnRing(at)
    BY <2>2 DEF PressOnRing
  <2>3. CASE PressOnFace(at)
    BY <2>3 DEF PressOnFace, ui_panel_pressed, TouchInv, Shaped
  <2> QED BY <1>1, <2>1, <2>2, <2>3
<1>5. /\ finger'.took \cap Beyond = {}
      /\ finger'.button => /\ painted \notin {"clock", "ring"} /\ ~sheet.open
                           /\ ~(wanted.stopwatch \/ wanted.echo)
      /\ finger'.began = painted /\ finger'.early = finger.hasty
      /\ finger'.hasty = finger.hasty
      /\ DOMAIN finger' = DOMAIN finger
  <2> HIDE DEF Takes
  <2>1. CASE PressOnScreen(at)
    <3>1. \/ Takes(FALSE, PanelTakes)
          \/ Takes(FALSE, PanelTakes \union {"stopwatch"})
          \/ Takes(FALSE, PanelTakes \union {"echo"})
      BY <2>1, Zenon DEF PressOnScreen, Takes
    <3>2. \E took \in SUBSET {"panel", "stopwatch", "echo"} :
             Takes(FALSE, took)
      BY <3>1 DEF PanelTakes
    <3> QED BY <1>3, <3>2 DEF Beyond
  <2>2. CASE PressOnRing(at)
    <3>1. Takes(FALSE, {}) \/ Takes(FALSE, {"ring"})
      BY <2>2, Zenon DEF PressOnRing, Takes
    <3>2. \E took \in SUBSET {"ring"} : Takes(FALSE, took)
      BY <3>1
    <3> QED BY <1>3, <3>2 DEF Beyond
  <2>3. CASE PressOnFace(at)
    <3>1. Takes(~sheet.open /\ at = "centre", PanelTakes)
      BY <2>3, Zenon DEF PressOnFace, Takes
    <3>2. finger'.button = (~sheet.open /\ at = "centre")
          /\ finger'.took = PanelTakes
      BY <1>3, <3>1
    <3>3. /\ finger'.began = painted /\ finger'.early = finger.hasty
          /\ finger'.hasty = finger.hasty
          /\ DOMAIN finger' = DOMAIN finger
      BY <1>3, <3>1
    <3> QED BY <2>3, <3>2, <3>3 DEF PressOnFace, PanelTakes, Beyond
  <2> QED BY <1>1, <2>1, <2>2, <2>3
<1> QED BY <1>2, <1>4, <1>5
        DEF TouchInv, Shaped, PaintedInv, ButtonInv, Reaches

OnOwn == Reaches \/ finger.began = "face" \/ finger.early

(* Drags, releases and long presses: the session and the test are reached  *)
(* by a finger that has the button.                                        *)
LEMMA FingerKeeps ==
    ASSUME TouchInv, Dragged \/ Released \/ LongPressed
    PROVE  TouchInv' /\ OnOwn
<1>1. CASE Dragged
  <2>1. CASE sheet.opening /\ sheet' = [Shut EXCEPT !.open = TRUE,
                                                  !.gesture = TRUE]
             /\ UNCHANGED <<finger, wanted>>
    <3>1. DOMAIN sheet' = DOMAIN Shut /\ sheet'.open
      BY <2>1 DEF Shut
    <3> QED BY <1>1, <2>1, <3>1
            DEF Dragged, TouchInv, Shaped, PaintedInv, ButtonInv, OnOwn,
                Reaches, Shut
  <2>2. CASE finger.swipe
             /\ finger' = [finger EXCEPT !.swipe = FALSE, !.button = FALSE]
             /\ wanted' = [wanted EXCEPT !.clock = TRUE]
             /\ UNCHANGED sheet
    <3>1. /\ finger'.button = FALSE /\ finger'.took = finger.took
          /\ finger'.hasty = finger.hasty
          /\ DOMAIN finger' = DOMAIN finger
      BY <2>2 DEF TouchInv, Shaped
    <3>2. /\ wanted'.stopwatch = wanted.stopwatch
          /\ wanted'.echo = wanted.echo /\ DOMAIN wanted' = DOMAIN wanted
      BY <2>2 DEF TouchInv, Shaped
    <3> QED BY <1>1, <2>2, <3>1, <3>2
            DEF Dragged, TouchInv, Shaped, PaintedInv, ButtonInv, OnOwn,
                Reaches
  <2> QED BY <1>1, <2>1, <2>2 DEF Dragged
<1>2. CASE Released
  <2>1. DOMAIN sheet' = DOMAIN sheet
    BY <1>2 DEF Released, PanelReleased
  <2>2. DOMAIN wanted' = DOMAIN wanted
    BY <1>2 DEF Released, AfterRelease, TouchInv, Shaped
  <2>3. PICK took \in {{}, {"test"}, {"session"}} :
            /\ ShortClicked(took)
            /\ finger' = [Lifted EXCEPT !.hasty = TRUE,
                                        !.took = finger.took \union took]
    BY <1>2 DEF Released
  <2>4. /\ finger'.button = FALSE /\ finger'.hasty = TRUE
        /\ finger'.took = finger.took \union took
        /\ DOMAIN finger' = DOMAIN Lifted
    BY <2>3 DEF Lifted
  <2>5. painted' = painted
    BY <1>2 DEF Released
  <2>6. took # {} => finger.button
    BY <2>3 DEF ShortClicked
  <2>7. OnOwn
    BY <2>4, <2>6 DEF OnOwn, Reaches, TouchInv, ButtonInv
  <2> QED BY <2>1, <2>2, <2>4, <2>5, <2>7
          DEF TouchInv, Shaped, PaintedInv, ButtonInv, Lifted
<1>3. CASE LongPressed
  <2>1. /\ finger'.button = finger.button /\ finger'.began = finger.began
        /\ finger'.early = finger.early /\ finger'.hasty = finger.hasty
        /\ DOMAIN finger' = DOMAIN finger
        /\ ~finger.button => finger'.took = finger.took
    BY <1>3 DEF LongPressed, TouchInv, Shaped
  <2> QED BY <1>3, <2>1
          DEF LongPressed, TouchInv, Shaped, PaintedInv, ButtonInv, OnOwn,
              Reaches
<1> QED BY <1>1, <1>2, <1>3

(* What the other tasks and the clocks do leaves finger and frame alone.   *)
LEMMA OthersKeep ==
    ASSUME TouchInv,
           \/ Asked \/ Rings \/ RingEnds \/ Happens
           \/ SessionWorks \/ BecomesReady \/ TimePasses \/ LoopStep
           \/ UNCHANGED screenvars
    PROVE  TouchInv' /\ Reaches
<1>1. UNCHANGED <<finger, wanted, painted>>
  BY DEF Asked, Rings, RingEnds, Happens, SessionWorks, BecomesReady,
     TimePasses, LoopStep, LoopReads, LoopAsks, LoopIdles, screenvars,
     lvglvars
<1>2. \/ UNCHANGED sheet
      \/ sheet' = [sheet EXCEPT !.idle = TRUE]
  BY DEF Asked, Rings, RingEnds, Happens, SessionWorks, BecomesReady,
     TimePasses, StoppedForLong, GameForgotten, SessionQuiet, SheetIdle,
     LoopStep, LoopReads, LoopAsks, LoopIdles, screenvars, lvglvars
<1>3. DOMAIN sheet' = DOMAIN sheet /\ sheet'.open = sheet.open
  BY <1>2 DEF TouchInv, Shaped
<1> QED BY <1>1, <1>3
        DEF TouchInv, Shaped, PaintedInv, ButtonInv, Reaches

(* A press that began on a screen, the panel or the ring reaches neither   *)
(* the session nor the test (gesture_event_cb()), whatever takes the frame *)
(* before it is lifted, if a frame has passed since the last release.      *)
THEOREM TouchNeverReachesBeyond == ScreensSpec => TouchStaysOnItsScreen
<1>1. ScreensInit => TouchInv
  BY DEF ScreensInit, TouchInv, Shaped, PaintedInv, ButtonInv, Lifted, Shut
<1>2. TouchInv /\ [ScreensNext]_screenvars => TouchInv' /\ OnOwn
  BY FramesKeep, PressKeeps, FingerKeeps, OthersKeep DEF ScreensNext, OnOwn
<1>3. OnOwn => \/ finger'.took \cap {"session", "test"} \subseteq finger.took
               \/ finger.began = "face" \/ finger.early
  BY DEF OnOwn, Reaches, Beyond
<1> QED BY <1>1, <1>2, <1>3, PTL DEF ScreensSpec, TouchStaysOnItsScreen

-----------------------------------------------------------------------------
(***************************************************************************)
(* The conversation (History).  Each place a turn may be in is held        *)
(* against the turn up to which the user had forgotten when the place was  *)
(* last written: the arena and the model now, the record under way when    *)
(* it was copied, the flash when the last save returned OK.                *)
(***************************************************************************)
After(turns, n) == \A turn \in Turns(turns) : turn > n

Recorded ==
    /\ {said, opened, clearedIn, forgotten, copied, gone} \subseteq Nat
    /\ {arena, context, stored, kept} \subseteq Seq(Nat)
    /\ saving # Nothing => saving \in Seq(Nat)

StoreHolds ==
    /\ gone <= forgotten /\ forgotten <= said
    /\ ~on => forgotten = gone /\ arena = << >>
    /\ After(stored, gone) /\ After(kept, gone)
    /\ saving # Nothing => /\ gone <= copied /\ copied <= forgotten
                           /\ After(saving, copied)

(* A session that was told of its context before a clear records nothing.  *)
ModelHolds ==
    /\ After(arena, forgotten) /\ (~on => session = "down")
    /\ session = "told" => After(context, forgotten)
    /\ session = "live" /\ ~frozen => After(context, forgotten)
    /\ clearedIn <= opened
    /\ session \in {"opening", "told"} => clearedIn < opened
    /\ session = "live" /\ clearedIn = opened => frozen /\ arena = << >>

RememberInv == Recorded /\ StoreHolds /\ ModelHolds

(* A set of naturals that is not empty has a least element, Min's choice.  *)
LEMMA LeastNatural ==
    ASSUME NEW S \in SUBSET Nat, S # {}
    PROVE  Min(S) \in S
<1>1. \E n \in S : \A m \in S : ~(<<m, n>> \in OpToRel(<, Nat))
  BY NatLessThanWellFounded, WFMin
<1>2. \E n \in S : \A m \in S : n <= m
  <2>1. PICK n \in S : \A m \in S : ~(<<m, n>> \in OpToRel(<, Nat))
    BY <1>1
  <2>2. ASSUME NEW m \in S PROVE n <= m
    <3>1. <<m, n>> \notin OpToRel(<, Nat)
      BY <2>1
    <3>2. ~(m < n)
      BY <3>1 DEF OpToRel
    <3> QED BY <3>2
  <2> QED BY <2>2
<1> QED BY <1>2 DEF Min

(* No turns take no bytes: the sum's recursion ends at the empty set.      *)
LEMMA NoTurnsNoBytes == Bytes(<< >>) = 0
<1> DEFINE F(f) == [s \in SUBSET {} |->
                IF s = {} THEN 0
                ELSE Size(<< >>[CHOOSE x \in s : TRUE])
                       + f[s \ {CHOOSE x \in s : TRUE}]]
           g == [s \in SUBSET {} |-> 0]
           c == CHOOSE f : f = F(f)
<1>1. DOMAIN << >> = {}
  OBVIOUS
<1>2. g = F(g)
  OBVIOUS
<1>3. c = F(c)
  <2> HIDE DEF F, g
  <2> QED BY <1>2
<1>4. c[{}] = 0
  <2> HIDE DEF c
  <2> QED BY <1>3
<1>5. Bytes(<< >>) = c[{}]
  BY <1>1 DEF Bytes, MapThenSumSet, MapThenFoldSet
<1> QED BY <1>4, <1>5

(* Dropping the oldest leaves some of the same turns.                      *)
LEMMA DropKeeps ==
    ASSUME NEW turns \in Seq(Nat), NEW n \in 0 .. Len(turns)
    PROVE  /\ Drop(turns, n) \in Seq(Nat)
           /\ Turns(Drop(turns, n)) \subseteq Turns(turns)
<1>1. /\ Drop(turns, n) \in Seq(Nat)
      /\ Len(Drop(turns, n)) = Len(turns) - n
      /\ \A i \in 1 .. Len(turns) - n : Drop(turns, n)[i] = turns[i + n]
  BY DEF Drop
<1>2. ASSUME NEW turn \in Turns(Drop(turns, n)) PROVE turn \in Turns(turns)
  <2>1. PICK i \in DOMAIN Drop(turns, n) : turn = Drop(turns, n)[i]
    BY DEF Turns
  <2>2. DOMAIN Drop(turns, n) = 1 .. Len(turns) - n
    BY <1>1
  <2>3. i \in 1 .. Len(turns) - n /\ turn = turns[i + n]
    BY <1>1, <2>1, <2>2
  <2>4. i + n \in DOMAIN turns
    BY <2>3
  <2> QED BY <2>3, <2>4 DEF Turns
<1> QED BY <1>1, <1>2

(* So does making room for a turn (history_evict_oldest()).                *)
LEMMA EvictedKeeps ==
    ASSUME NEW turns \in Seq(Nat), NEW turn
    PROVE  /\ Evicted(turns, turn) \in Seq(Nat)
           /\ Turns(Evicted(turns, turn)) \subseteq Turns(turns)
<1> DEFINE fits == {n \in 0 .. Len(turns) :
                       /\ Len(turns) - n < HISTORY_MAX_TURNS
                       /\ Bytes(Drop(turns, n)) + Size(turn) <= HISTORY_BYTES}
<1>1. Drop(turns, Len(turns)) = << >>
  BY DEF Drop
<1>2. Len(turns) \in fits
  BY <1>1, NoTurnsNoBytes, HistoryAssumption DEF Size
<1>3. Min(fits) \in fits
  <2>1. fits \in SUBSET Nat /\ fits # {}
    BY <1>2
  <2> HIDE DEF fits
  <2> QED BY <2>1, LeastNatural
<1> QED BY <1>3, DropKeeps DEF Evicted

(* So does choosing what is replayed to the model (history_to_json()).     *)
LEMMA ReplayedKeeps ==
    ASSUME NEW turns \in Seq(Nat)
    PROVE  /\ Replayed(turns) \in Seq(Nat)
           /\ Turns(Replayed(turns)) \subseteq Turns(turns)
<1> DEFINE fits == {n \in 0 .. Len(turns) :
                       /\ Len(turns) - n <= HISTORY_REPLAY_MAX_TURNS
                       /\ Bytes(Drop(turns, n)) <= HISTORY_REPLAY_BYTES}
           first == Min(fits)
<1>1. Drop(turns, Len(turns)) = << >>
  BY DEF Drop
<1>2. Len(turns) \in fits
  BY <1>1, NoTurnsNoBytes, HistoryAssumption
<1>3. first \in fits
  <2>1. fits \in SUBSET Nat /\ fits # {}
    BY <1>2
  <2> HIDE DEF fits
  <2> QED BY <2>1, LeastNatural
<1>4. \/ Replayed(turns) = Drop(turns, first)
      \/ first > 0 /\ Replayed(turns) = Drop(turns, first - 1)
  BY DEF Replayed
<1> QED BY <1>3, <1>4, DropKeeps

(* What is said last is after everything before it.                        *)
LEMMA AppendAfter ==
    ASSUME NEW turns \in Seq(Nat), NEW turn \in Nat, NEW n \in Nat,
           After(turns, n), turn > n
    PROVE  Append(turns, turn) \in Seq(Nat) /\ After(Append(turns, turn), n)
BY DEF After, Turns

(* What the invariant is about.                                            *)
places == <<on, arena, frozen, session, context, opened, stored, kept, saving,
            said, forgotten, clearedIn, copied, gone>>

(* The steps of the calls, the timer and the flags move no turn; a session *)
(* that ends, or has to wait, is not one the model is told anything in.    *)
LEMMA FlagsKeep ==
    ASSUME RememberInv,
           \/ \E t \in Tasks : CallStep(t)
           \/ ConfirmLapses \/ Tick \/ FlushTimer \/ FlushAsked \/ GiveUp
           \/ StopSession \/ Stopped \/ UNCHANGED vars
    PROVE  RememberInv'
<1>1. CASE StopSession \/ Stopped
  <2>1. /\ session' \in {"stopping", "down"} /\ on
        /\ UNCHANGED <<on, arena, frozen, context, opened, stored, kept,
                       saving, said, forgotten, clearedIn, copied, gone>>
    BY <1>1 DEF StopSession, Stopped, Receives, store, ghosts, bounds
  <2> QED BY <2>1 DEF RememberInv, Recorded, StoreHolds, ModelHolds, After
<1>2. CASE ~(StopSession \/ Stopped)
  <2>1. UNCHANGED places
    BY <1>2 DEF CallStep, MarkDirty, ArmTimer, LiftLatch, AskForFlush,
       ConfirmLapses, Tick, FlushTimer, FlushAsked, GiveUp, places, vars,
       store, call, ghosts, bounds
  <2> QED BY <2>1
          DEF RememberInv, Recorded, StoreHolds, ModelHolds, After, places
<1> QED BY <1>1, <1>2

(* Clearing: the arena is empty, and the session records no more.          *)
LEMMA ClearKeeps ==
    ASSUME RememberInv, NEW t, on, session \in {"live", "down"}, Clear(t),
           UNCHANGED <<on, session, context, opened, stored, kept, saving,
                       said, copied, gone>>
    PROVE  RememberInv'
<1>1. /\ arena' = << >> /\ frozen' = TRUE
      /\ forgotten' = said /\ clearedIn' = opened
  BY DEF Clear
<1>2. Recorded'
  BY <1>1 DEF RememberInv, Recorded
<1>3. StoreHolds'
  BY <1>1 DEF RememberInv, Recorded, StoreHolds, After
<1>4. ModelHolds'
  BY <1>1 DEF RememberInv, Recorded, StoreHolds, ModelHolds, After, Turns
<1> QED BY <1>2, <1>3, <1>4 DEF RememberInv

(* A turn said: recorded after every other one, or forgotten at once.      *)
LEMMA TurnKeeps ==
    ASSUME RememberInv, ConversationText PROVE RememberInv'
<1>1. /\ session = "live" /\ session' = session /\ on /\ on'
      /\ said' = said + 1 /\ said' \in Nat
      /\ forgotten' = IF clearedIn = opened THEN said' ELSE forgotten
      /\ UNCHANGED <<frozen, context, opened, stored, kept, saving, clearedIn,
                     copied, gone>>
  BY DEF ConversationText, Receives, store, RememberInv, Recorded
<1>2. forgotten' \in Nat /\ forgotten <= forgotten' /\ forgotten' <= said'
  BY <1>1 DEF RememberInv, Recorded, StoreHolds
<1>3. StoreHolds'
  <2>1. gone \in Nat /\ copied \in Nat /\ forgotten \in Nat
    BY DEF RememberInv, Recorded
  <2> QED BY <1>1, <1>2, <2>1 DEF RememberInv, StoreHolds, After
<1>4. CASE frozen
  <2>1. arena' = arena
    BY <1>4 DEF ConversationText
  <2>2. Recorded'
    BY <1>1, <1>2, <2>1 DEF RememberInv, Recorded
  <2>3. ModelHolds'
    BY <1>1, <1>4, <2>1 DEF RememberInv, ModelHolds, After, Turns
  <2> QED BY <1>3, <2>2, <2>3 DEF RememberInv
<1>5. CASE ~frozen
  <2>1. clearedIn # opened /\ forgotten' = forgotten
    BY <1>1, <1>5 DEF RememberInv, ModelHolds
  <2>2. arena' = Append(Evicted(arena, said'), said')
    BY <1>5 DEF ConversationText
  <2>3. /\ Evicted(arena, said') \in Seq(Nat)
        /\ Turns(Evicted(arena, said')) \subseteq Turns(arena)
    BY EvictedKeeps DEF RememberInv, Recorded
  <2>4. After(Evicted(arena, said'), forgotten)
    BY <2>3 DEF RememberInv, ModelHolds, After
  <2>5. forgotten \in Nat /\ said' > forgotten
    BY <1>1 DEF RememberInv, Recorded, StoreHolds
  <2>6. arena' \in Seq(Nat) /\ After(arena', forgotten)
    BY <1>1, <2>2, <2>3, <2>4, <2>5, AppendAfter
  <2>7. Recorded'
    BY <1>1, <1>2, <2>6 DEF RememberInv, Recorded
  <2>8. ModelHolds'
    BY <1>1, <1>5, <2>1, <2>6 DEF RememberInv, ModelHolds, After
  <2> QED BY <1>3, <2>7, <2>8 DEF RememberInv
<1> QED BY <1>4, <1>5

(* A session that opens: its number is past any clear, what it is told of  *)
(* is some of the arena.                                                   *)
LEMMA SessionKeeps ==
    ASSUME RememberInv,
           StartSession \/ Disconnected \/ SendSettings \/ SettingsApplied
    PROVE  RememberInv'
<1>1. /\ on /\ UNCHANGED <<on, arena, stored, kept, saving, said, forgotten,
                           clearedIn, copied, gone>>
  BY DEF StartSession, Disconnected, SendSettings, SettingsApplied, Receives,
         store, ghosts, bounds
<1>2. StoreHolds'
  BY <1>1 DEF RememberInv, StoreHolds, After
<1>3. CASE StartSession \/ Disconnected
  <2>1. /\ session' = "opening" /\ opened' = opened + 1
        /\ UNCHANGED <<frozen, context>>
    BY <1>3 DEF StartSession, Disconnected
  <2>2. Recorded'
    BY <1>1, <2>1 DEF RememberInv, Recorded
  <2>3. ModelHolds'
    BY <1>1, <2>1 DEF RememberInv, Recorded, ModelHolds, After
  <2> QED BY <1>2, <2>2, <2>3 DEF RememberInv
<1>4. CASE SendSettings
  <2>1. /\ session = "opening" /\ session' = "told"
        /\ context' = Replayed(arena) /\ UNCHANGED <<frozen, opened>>
    BY <1>4 DEF SendSettings, Receives
  <2>2. /\ Replayed(arena) \in Seq(Nat)
        /\ Turns(Replayed(arena)) \subseteq Turns(arena)
    BY ReplayedKeeps DEF RememberInv, Recorded
  <2>3. Recorded'
    BY <1>1, <2>1, <2>2 DEF RememberInv, Recorded
  <2>4. ModelHolds'
    BY <1>1, <2>1, <2>2 DEF RememberInv, ModelHolds, After
  <2> QED BY <1>2, <2>3, <2>4 DEF RememberInv
<1>5. CASE SettingsApplied
  <2>1. /\ session = "told" /\ session' = "live"
        /\ UNCHANGED <<context, opened>>
    BY <1>5 DEF SettingsApplied, Receives
  <2>2. Recorded'
    BY <1>1, <2>1 DEF RememberInv, Recorded
  <2>3. ModelHolds'
    BY <1>1, <2>1 DEF RememberInv, Recorded, ModelHolds, After
  <2> QED BY <1>2, <2>2, <2>3 DEF RememberInv
<1> QED BY <1>3, <1>4, <1>5

(* The record under way holds nothing the flash has lost already.          *)
LEMMA UnderWay ==
    ASSUME RememberInv, saving # Nothing PROVE After(saving, gone)
<1>1. /\ gone \in Nat /\ copied \in Nat /\ gone <= copied
      /\ saving \in Seq(Nat) /\ After(saving, copied)
  BY DEF RememberInv, Recorded, StoreHolds
<1>2. \A turn \in Turns(saving) : turn \in Nat
  BY <1>1 DEF Turns
<1> QED BY <1>1, <1>2 DEF After

(* A save: the record under way is what the arena was, and what an error   *)
(* leaves on the flash is one of the three the store held before it.       *)
LEMMA SaveKeeps ==
    ASSUME RememberInv,
           CopyArena \/ SaveSucceeds \/ SaveTakesBack \/ SaveFails
    PROVE  RememberInv'
<1>1. /\ on /\ UNCHANGED <<on, arena, frozen, session, context, opened, said,
                           forgotten, clearedIn>>
  BY DEF CopyArena, SaveSucceeds, SaveTakesBack, SaveFails, Does, call,
         ghosts, bounds
<1>2. ModelHolds'
  BY <1>1 DEF RememberInv, ModelHolds, After
<1>n. {gone, copied, forgotten} \subseteq Nat
  BY DEF RememberInv, Recorded
<1>3. CASE CopyArena
  <2>1. /\ saving' = arena /\ copied' = forgotten
        /\ UNCHANGED <<stored, kept, gone>>
    BY <1>3 DEF CopyArena, Store!Save
  <2>2. Recorded'
    BY <1>1, <2>1 DEF RememberInv, Recorded
  <2>3. StoreHolds'
    BY <1>1, <1>n, <2>1 DEF RememberInv, StoreHolds, ModelHolds, After
  <2> QED BY <1>2, <2>2, <2>3 DEF RememberInv
<1>4. CASE SaveSucceeds
  <2>1. /\ saving # Nothing /\ stored' = saving /\ kept' = saving
        /\ saving' = Nothing /\ gone' = copied /\ copied' = copied
    BY <1>4 DEF SaveSucceeds, Store!Saved
  <2>2. Recorded'
    BY <1>1, <2>1 DEF RememberInv, Recorded
  <2>3. StoreHolds'
    BY <1>1, <1>n, <2>1 DEF RememberInv, StoreHolds, After
  <2> QED BY <1>2, <2>2, <2>3 DEF RememberInv
<1>5. CASE SaveTakesBack
  <2>1. stored' = kept /\ UNCHANGED <<kept, saving, copied, gone>>
    BY <1>5 DEF SaveTakesBack, Store!TakeBack, ghosts
  <2>2. Recorded'
    BY <1>1, <2>1 DEF RememberInv, Recorded
  <2>3. StoreHolds'
    BY <1>1, <1>n, <2>1 DEF RememberInv, StoreHolds, After
  <2> QED BY <1>2, <2>2, <2>3 DEF RememberInv
<1>6. CASE SaveFails
  <2>1. /\ UNCHANGED <<copied, gone>>
        /\ \/ UNCHANGED <<stored, kept, saving>>
           \/ /\ saving # Nothing /\ stored' \in {stored, kept, saving}
              /\ kept' \in {kept, stored'} /\ saving' = Nothing
    BY <1>6 DEF SaveFails, Store!Failed, store
  <2>2. Recorded'
    BY <1>1, <2>1 DEF RememberInv, Recorded
  <2>3. saving # Nothing => After(saving, gone)
    BY UnderWay
  <2>4. After(stored', gone) /\ After(kept', gone)
    BY <2>1, <2>3 DEF RememberInv, StoreHolds
  <2>5. StoreHolds'
    BY <1>1, <1>n, <2>1, <2>4 DEF RememberInv, StoreHolds, After
  <2> QED BY <1>2, <2>2, <2>5 DEF RememberInv
<1> QED BY <1>3, <1>4, <1>5, <1>6

(* The power goes and comes back: what is read then holds no turn that was *)
(* gone, and no more than that is forgotten.                               *)
LEMMA PowerKeeps ==
    ASSUME RememberInv, Boot \/ PowerLoss PROVE RememberInv'
<1>n. {gone, copied, forgotten, said, opened} \subseteq Nat
  BY DEF RememberInv, Recorded
<1>1. CASE Boot
  <2>1. /\ ~on /\ on'
        /\ UNCHANGED <<frozen, session, context, opened, stored, saving, said,
                       forgotten, clearedIn, copied, gone>>
        /\ \/ arena' = stored /\ kept' = stored
           \/ UNCHANGED <<arena, kept>>
    BY <1>1 DEF Boot, Store!Load, store, call, ghosts, bounds
  <2>2. forgotten = gone /\ arena = << >>
    BY <2>1 DEF RememberInv, StoreHolds
  <2>3. Recorded'
    BY <2>1 DEF RememberInv, Recorded
  <2>4. StoreHolds'
    BY <2>1, <2>2 DEF RememberInv, StoreHolds, After
  <2>5. session = "down"
    BY <2>1 DEF RememberInv, ModelHolds
  <2>6. ModelHolds'
    BY <2>1, <2>2, <2>5 DEF RememberInv, StoreHolds, ModelHolds, After
  <2> QED BY <2>3, <2>4, <2>6 DEF RememberInv
<1>2. CASE PowerLoss
  <2>1. /\ ~on' /\ arena' = << >> /\ session' = "down" /\ context' = << >>
        /\ forgotten' = gone /\ clearedIn' = 0 /\ copied' = 0
        /\ UNCHANGED <<said, opened, gone>>
        /\ stored' \in IF saving = Nothing THEN {stored}
                       ELSE {stored, kept, saving}
        /\ kept' = stored' /\ saving' = Nothing
    BY <1>2 DEF PowerLoss, Store!PowerLoss
  <2>2. Recorded'
    BY <1>n, <2>1 DEF RememberInv, Recorded
  <2>3. saving # Nothing => After(saving, gone)
    BY UnderWay
  <2>4. After(stored', gone)
    BY <2>1, <2>3 DEF RememberInv, StoreHolds
  <2>5. StoreHolds'
    BY <1>n, <2>1, <2>4 DEF RememberInv, StoreHolds, After
  <2>6. ModelHolds'
    BY <1>n, <2>1 DEF ModelHolds, After, Turns
  <2> QED BY <2>2, <2>5, <2>6 DEF RememberInv
<1> QED BY <1>1, <1>2

(* Every step keeps the invariant.                                         *)
LEMMA RememberStep ==
    ASSUME RememberInv, [Next]_vars PROVE RememberInv'
<1>1. CASE new_conversation
  <2>1. on /\ session = "live"
        /\ UNCHANGED <<on, session, context, opened, stored, kept, saving,
                       said, copied, gone>>
    BY <1>1 DEF new_conversation, Receives, store, bounds
  <2>2. CASE armed /\ answers = 1
    BY <1>1, <2>1, <2>2, ClearKeeps DEF new_conversation
  <2>3. CASE ~(armed /\ answers = 1)
    BY <1>1, <2>1, <2>3
       DEF new_conversation, RememberInv, Recorded, StoreHolds, ModelHolds,
           After
  <2> QED BY <2>2, <2>3
<1>2. CASE ForgetConfirmed
  <2>1. /\ on /\ session = "down" /\ Clear("lvgl")
        /\ UNCHANGED <<on, session, context, opened, stored, kept, saving,
                       said, copied, gone>>
    BY <1>2 DEF ForgetConfirmed, store, bounds
  <2> QED BY <2>1, ClearKeeps
<1> QED BY <1>1, <1>2, FlagsKeep, TurnKeeps, SessionKeeps, SaveKeeps,
           PowerKeeps DEF Next, SaveStep

(* Every behaviour keeps it from the start.                                *)
LEMMA RememberAlways == Spec => []RememberInv
<1>1. Init => RememberInv
  BY DEF Init, Store!Init, RememberInv, Recorded, StoreHolds, ModelHolds,
         After, Turns
<1>2. RememberInv /\ [Next]_vars => RememberInv'
  BY RememberStep
<1> QED BY <1>1, <1>2, PTL DEF Spec

(* What the user asked to be forgotten stays forgotten: in the arena, by   *)
(* the model, on the flash, after a failed save, a torn one or a reboot    *)
(* (dg_agent_clear_history(), history_load(), history_note_save_failure()).*)
THEOREM ForgottenForGood == Spec => []ForgottenStaysForgotten
<1>1. RememberInv => ForgottenStaysForgotten
  <2> SUFFICES ASSUME RememberInv PROVE ForgottenStaysForgotten
    OBVIOUS
  <2>1. ForgettingTakes
    BY DEF RememberInv, ModelHolds, After, ForgettingTakes
  <2>2. \A turn \in Turns(arena) : turn > gone
    <3>1. ASSUME NEW turn \in Turns(arena) PROVE turn > gone
      <4>1. turn > forgotten /\ turn \in Nat
        BY <3>1 DEF RememberInv, Recorded, ModelHolds, After, Turns
      <4>2. gone <= forgotten /\ gone \in Nat /\ forgotten \in Nat
        BY DEF RememberInv, Recorded, StoreHolds
      <4> QED BY <4>1, <4>2
    <3> QED BY <3>1
  <2>3. NothingComesBack
    BY <2>2 DEF RememberInv, StoreHolds, After, NothingComesBack
  <2> QED BY <2>1, <2>3 DEF ForgottenStaysForgotten
<1> QED BY <1>1, RememberAlways, PTL

(* A question is pending only in the live session that asked it.           *)
AskInv ==
    /\ opened \in Nat /\ (session # "down" => opened # 0)
    /\ armed => session = "live" /\ askedIn = opened

(* Nobody's conversation is cleared by voice unless they were asked in     *)
(* this very session; no question outlives its session (dg_agent.c's       *)
(* s_clear_armed_ms).                                                      *)
THEOREM ForgetWasAskedFor == Spec => ForgetIsAskedFor
<1>1. Init => AskInv
  BY DEF Init, AskInv
<1>2. ASSUME AskInv, [Next]_vars
      PROVE  AskInv' /\ (session = "live" /\ clearedIn # opened
                                      /\ clearedIn' = opened
                            => askedIn = opened)
  <2>1. CASE new_conversation
    BY <1>2, <2>1 DEF new_conversation, Receives, Clear, AskInv
  <2>2. CASE \/ ForgetConfirmed \/ ConfirmLapses \/ SendSettings
             \/ SettingsApplied \/ Disconnected \/ StartSession
             \/ StopSession \/ Stopped \/ ConversationText
    BY <1>2, <2>2
       DEF ForgetConfirmed, ConfirmLapses, SendSettings, SettingsApplied,
           Disconnected, StartSession, StopSession, Stopped, Receives, Clear,
           ConversationText, AskInv, ghosts
  <2>3. CASE \/ \E t \in Tasks : CallStep(t)
             \/ Tick \/ FlushTimer \/ FlushAsked \/ SaveStep \/ Boot
             \/ UNCHANGED vars
    <3>1. UNCHANGED <<session, opened, askedIn, armed, clearedIn>>
      BY <2>3 DEF CallStep, MarkDirty, ArmTimer, LiftLatch, AskForFlush, Tick,
         FlushTimer, FlushAsked, SaveStep, CopyArena, SaveSucceeds,
         SaveTakesBack, SaveFails, GiveUp, Boot, vars, call, ghosts
    <3> QED BY <1>2, <3>1 DEF AskInv
  <2>4. CASE PowerLoss
    BY <1>2, <2>4 DEF PowerLoss, AskInv
  <2> QED BY <1>2, <2>1, <2>2, <2>3, <2>4 DEF Next
<1>3. AskInv /\ [Next]_vars
      => AskInv' /\ (session = "live" /\ clearedIn # opened
                                   /\ clearedIn' = opened
                         => askedIn = opened)
  BY <1>2
<1> QED BY <1>1, <1>3, PTL DEF Spec, ForgetIsAskedFor

-----------------------------------------------------------------------------
(***************************************************************************)
(* What is not on the flash yet, and what will put it there.               *)
(***************************************************************************)
CallLists ==
    {<< >>, <<"lift", "mark", "arm", "ask">>, <<"mark", "arm", "ask">>,
     <<"arm", "ask">>, <<"ask">>, <<"mark", "arm">>, <<"arm">>,
     <<"copy">>, <<"save">>, <<"give up">>}

(* Those that mark the arena dirty, those that ask for a flush.            *)
MarkLists == {<<"lift", "mark", "arm", "ask">>, <<"mark", "arm", "ask">>,
              <<"mark", "arm">>}
AskLists  == {<<"lift", "mark", "arm", "ask">>, <<"mark", "arm", "ask">>,
              <<"arm", "ask">>, <<"ask">>}

Owed    == \E t \in Tasks : todo[t] \in MarkLists
WillAsk == \E t \in Tasks : todo[t] \in AskLists
WillArm == \E t \in Tasks : todo[t] # << >> /\ Head(todo[t]) = "arm"
InTime  == due # Never /\ age + due <= MaxDefer

(* The arena is what the device knows to be on the flash, or is being      *)
(* written as it is, unless it is marked or a task is about to mark it, to *)
(* copy it, or to give up.                                                 *)
HeldInv ==
    \/ dirty \/ disabled \/ Owed
    \/ todo["worker"] \in {<<"copy">>, <<"give up">>}
    \/ IF todo["worker"] = <<"save">> THEN arena = saving ELSE arena = Known

(* Marked, it is waited for, unless it was marked in this very instant.    *)
DueInv ==
    dirty => disabled \/ asked \/ WillAsk \/ InTime \/ (age = 0 /\ WillArm)

CallsOK ==
    /\ todo = [t \in Tasks |-> todo[t]]
    /\ \A t \in Tasks : todo[t] \in CallLists

ScheduleInv ==
    /\ CallsOK /\ age \in 0 .. MaxDefer /\ due \in 0 .. Never
    /\ IF on THEN HeldInv
       ELSE /\ ~dirty /\ arena = << >>
            /\ acked = Nothing /\ loaded = Nothing
            /\ todo = [t \in Tasks |-> << >>]
    /\ DueInv

(* Lists of up to four.                                                    *)
LEMMA FirstOf ==
    /\ \A a : Head(<<a>>) = a /\ Tail(<<a>>) = << >> /\ <<a>> # << >>
    /\ \A a, b : /\ Head(<<a, b>>) = a /\ Tail(<<a, b>>) = <<b>>
                 /\ <<a, b>> # << >>
    /\ \A a, b, c : /\ Head(<<a, b, c>>) = a /\ Tail(<<a, b, c>>) = <<b, c>>
                    /\ <<a, b, c>> # << >>
    /\ \A a, b, c, d : /\ Head(<<a, b, c, d>>) = a
                       /\ Tail(<<a, b, c, d>>) = <<b, c, d>>
                       /\ <<a, b, c, d>> # << >>
  OBVIOUS

(* Of different lengths they differ; of one, by what they hold.            *)
LEMMA Apart ==
    /\ << >> \notin MarkLists \union AskLists
    /\ {<<"ask">>, << >>} \cap {<<"save">>, <<"copy">>, <<"give up">>} = {}
    /\ <<"mark", "arm">> # <<"save">> /\ <<"save">> # <<"copy">>
    /\ <<"save">> # <<"give up">>
  BY DEF MarkLists, AskLists

(* What a call has left after its first step.                              *)
LEMMA CallTails ==
    ASSUME NEW l \in CallLists, l # << >>
    PROVE  /\ Head(l) = "lift" =>
                  Tail(l) \in CallLists \cap MarkLists \cap AskLists
           /\ Head(l) = "mark" =>
                  /\ Tail(l) \in CallLists /\ Tail(Tail(l)) \in CallLists
                  /\ Tail(l) # << >> /\ Head(Tail(l)) = "arm"
                  /\ l \in AskLists => /\ Tail(l) \in AskLists
                                       /\ Tail(Tail(l)) \in AskLists
           /\ Head(l) = "arm" =>
                  /\ Tail(l) \in {<< >>, <<"ask">>}
                  /\ l \in AskLists => Tail(l) \in AskLists
           /\ Head(l) \in {"ask", "copy", "save", "give up"} =>
                  Tail(l) = << >> /\ l = <<Head(l)>>
           /\ l \in MarkLists => Head(l) \in {"lift", "mark"}
           /\ l \in AskLists => Head(l) \in {"lift", "mark", "arm", "ask"}
<1>1. CASE l = <<"lift", "mark", "arm", "ask">>
  <2>1. Head(l) = "lift" /\ Tail(l) = <<"mark", "arm", "ask">>
    BY <1>1, FirstOf
  <2> QED
    BY <2>1 DEF CallLists, MarkLists, AskLists
<1>2. CASE l = <<"mark", "arm", "ask">>
  <2>1. /\ Head(l) = "mark" /\ Tail(l) = <<"arm", "ask">>
    BY <1>2, FirstOf
  <2>2. Head(Tail(l)) = "arm" /\ Tail(Tail(l)) = <<"ask">> /\ Tail(l) # << >>
    BY <2>1, FirstOf
  <2> QED
    BY <2>1, <2>2 DEF CallLists, MarkLists, AskLists
<1>3. CASE l = <<"arm", "ask">>
  <2>1. /\ Head(l) = "arm" /\ Tail(l) = <<"ask">>
    BY <1>3, FirstOf
  <2>2. l \notin MarkLists
    BY <1>3 DEF MarkLists
  <2> QED
    BY <2>1, <2>2 DEF AskLists
<1>4. CASE l = <<"ask">>
  <2>1. /\ Head(l) = "ask" /\ Tail(l) = << >>
    BY <1>4, FirstOf
  <2>2. l \notin MarkLists
    BY <1>4 DEF MarkLists
  <2> QED
    BY <1>4, <2>1, <2>2
<1>5. CASE l = <<"mark", "arm">>
  <2>1. /\ Head(l) = "mark" /\ Tail(l) = <<"arm">>
    BY <1>5, FirstOf
  <2>2. Head(Tail(l)) = "arm" /\ Tail(Tail(l)) = << >> /\ Tail(l) # << >>
    BY <2>1, FirstOf
  <2>3. l \notin AskLists
    BY <1>5 DEF AskLists
  <2> QED
    BY <2>1, <2>2, <2>3 DEF CallLists
<1>6. CASE l = <<"arm">>
  <2>1. /\ Head(l) = "arm" /\ Tail(l) = << >>
    BY <1>6, FirstOf
  <2>2. l \notin MarkLists /\ l \notin AskLists
    BY <1>6 DEF MarkLists, AskLists
  <2> QED
    BY <2>1, <2>2
<1>7. CASE l \in {<<"copy">>, <<"save">>, <<"give up">>}
  <2>1. /\ Head(l) \in {"copy", "save", "give up"} /\ Tail(l) = << >>
        /\ l = <<Head(l)>>
    BY <1>7, FirstOf
  <2>2. \A k \in MarkLists \union AskLists :
            Head(k) \in {"lift", "mark", "arm", "ask"}
    BY FirstOf DEF MarkLists, AskLists
  <2>3. l \notin MarkLists /\ l \notin AskLists
    BY <2>1, <2>2
  <2> QED
    BY <2>1, <2>3
<1> QED
  BY <1>1, <1>2, <1>3, <1>4, <1>5, <1>6, <1>7 DEF CallLists

(* A call that begins or goes on leaves the other tasks'.                  *)
LEMMA CallGoes ==
    ASSUME CallsOK, NEW t \in Tasks, NEW l, Then(t, l)
    PROVE  /\ todo'[t] = l /\ \A u \in Tasks \ {t} : todo'[u] = todo[u]
           /\ l \in CallLists => CallsOK'
  BY DEF CallsOK, Then

(* The smaller of two.                                                     *)
LEMMA SmallerOf ==
    ASSUME NEW a \in Int, NEW b \in Int
    PROVE  Min({a, b}) = IF a <= b THEN a ELSE b
<1> DEFINE m == IF a <= b THEN a ELSE b
<1>1. m \in {a, b} /\ \A y \in {a, b} : m <= y
  OBVIOUS
<1>2. \A x \in {a, b} : (\A y \in {a, b} : x <= y) => x = m
  OBVIOUS
<1> QED
  BY <1>1, <1>2 DEF Min

(* The windows are times.                                                  *)
LEMMA Deferral ==
    /\ MaxDefer \in Nat \ {0} /\ Debounce \in Nat \ {0}
    /\ Never = MaxDefer + 1
  BY HistoryAssumption DEF Never

(* A step that leaves the arena, the flash and the worker's part in it.    *)
LEMMA HeldKept ==
    ASSUME HeldInv, UNCHANGED <<arena, saving, acked, loaded>>,
           dirty => dirty', disabled => disabled',
           Owed => Owed' \/ dirty',
           \/ todo'["worker"] = todo["worker"]
           \/ /\ todo["worker"] \notin {<<"copy">>, <<"give up">>, <<"save">>}
              /\ todo'["worker"] # <<"save">>
    PROVE  HeldInv'
  BY DEF HeldInv, Known

(* A step that leaves the timer and every promise of a flush.              *)
LEMMA DueKept ==
    ASSUME DueInv, UNCHANGED <<age, due>>, dirty' => dirty,
           asked => asked', disabled => disabled',
           WillAsk => WillAsk', WillArm => WillArm'
    PROVE  DueInv'
  BY DEF DueInv, InTime

(* The steps of the calls.                                                 *)
LEMMA CallsSchedule ==
    ASSUME ScheduleInv, NEW t \in Tasks, CallStep(t)
    PROVE  ScheduleInv'
<1> DEFINE l == todo[t]
<1>0. /\ on /\ CallsOK /\ HeldInv /\ DueInv /\ l \in CallLists /\ l # << >>
      /\ age \in 0 .. MaxDefer /\ due \in 0 .. Never
      /\ "worker" \in Tasks
  BY DEF ScheduleInv, CallsOK, CallStep, MarkDirty, ArmTimer, LiftLatch,
         AskForFlush, Does, Idle, Tasks
<1>1. UNCHANGED <<on, arena, saving, acked, loaded>>
  BY DEF CallStep, MarkDirty, ArmTimer, LiftLatch, AskForFlush, store
<1>s. ASSUME CallsOK', age' \in 0 .. MaxDefer, due' \in 0 .. Never,
             HeldInv', DueInv'
      PROVE  ScheduleInv'
  BY <1>0, <1>1, <1>s DEF ScheduleInv
<1>2. CASE MarkDirty(t) /\ disabled
  <2>1. /\ Then(t, Tail(Tail(l))) /\ Head(l) = "mark"
        /\ UNCHANGED <<dirty, age, due, disabled>>
    BY <1>2 DEF MarkDirty, Does, latch
  <2>2. CallsOK'
    BY <1>0, <2>1, CallTails, CallGoes
  <2> QED
    BY <1>0, <1>2, <1>s, <2>1, <2>2 DEF HeldInv, DueInv
<1>3. CASE MarkDirty(t) /\ ~disabled
  <2>1. /\ Then(t, Tail(l)) /\ Head(l) = "mark" /\ dirty' = TRUE
        /\ age' = (IF dirty THEN age ELSE 0)
        /\ UNCHANGED <<due, disabled, asked>>
    BY <1>3 DEF MarkDirty, Does, Done, latch
  <2>2. /\ Tail(l) \in CallLists /\ Tail(l) # << >> /\ Head(Tail(l)) = "arm"
        /\ l \in AskLists => Tail(l) \in AskLists
    BY <1>0, <2>1, CallTails
  <2>3. /\ CallsOK' /\ todo'[t] = Tail(l)
        /\ \A u \in Tasks \ {t} : todo'[u] = todo[u]
    BY <1>0, <2>1, <2>2, CallGoes
  <2>4. WillArm'
    BY <2>2, <2>3 DEF WillArm
  <2>5. WillAsk => WillAsk'
    BY <2>2, <2>3 DEF WillAsk
  <2>6. DueInv'
    <3>1. CASE dirty
      BY <1>0, <2>1, <2>4, <2>5, <3>1 DEF DueInv, InTime
    <3>2. CASE ~dirty
      BY <2>1, <2>4, <3>2 DEF DueInv
    <3> QED
      BY <3>1, <3>2
  <2>7. HeldInv'
    BY <2>1 DEF HeldInv
  <2>8. age' \in 0 .. MaxDefer /\ due' \in 0 .. Never
    BY <1>0, <2>1, Deferral
  <2> QED
    BY <1>s, <2>3, <2>6, <2>7, <2>8
<1>4. CASE ArmTimer(t)
  <2>1. /\ Then(t, Tail(l)) /\ Head(l) = "arm"
        /\ due' = IF age >= MaxDefer THEN due
                  ELSE Min({Debounce, MaxDefer - age})
        /\ UNCHANGED <<dirty, age, asked, disabled>>
    BY <1>4 DEF ArmTimer, Does, Done, latch
  <2>2. /\ Tail(l) \in {<< >>, <<"ask">>} /\ l \notin MarkLists
        /\ l \in AskLists => Tail(l) \in AskLists
    BY <1>0, <2>1, CallTails
  <2>3. Tail(l) \in CallLists
    BY <2>2 DEF CallLists
  <2>4. /\ CallsOK' /\ todo'[t] = Tail(l)
        /\ \A u \in Tasks \ {t} : todo'[u] = todo[u]
    BY <1>0, <2>1, <2>3, CallGoes
  <2>5. /\ Owed => Owed'
        /\ WillAsk => WillAsk'
    BY <2>2, <2>4 DEF Owed, WillAsk
  <2>6. \/ todo'["worker"] = todo["worker"]
        \/ /\ todo["worker"] \notin {<<"copy">>, <<"give up">>, <<"save">>}
           /\ todo'["worker"] # <<"save">>
    <3>1. CASE t = "worker"
      <4>1. Head(<<"copy">>) = "copy" /\ Head(<<"save">>) = "save"
            /\ Head(<<"give up">>) = "give up"
        BY FirstOf
      <4>2. l \notin {<<"copy">>, <<"give up">>, <<"save">>}
        BY <2>1, <4>1
      <4>3. Tail(l) # <<"save">>
        BY <2>2, Apart
      <4> QED
        BY <2>4, <3>1, <4>2, <4>3
    <3>2. CASE t # "worker"
      BY <1>0, <2>4, <3>2
    <3> QED
      BY <3>1, <3>2
  <2>7. HeldInv'
    BY <1>0, <1>1, <2>1, <2>5, <2>6, HeldKept
  <2>8. age < MaxDefer => InTime' /\ due' \in 0 .. Never
    <3>1. SUFFICES ASSUME age < MaxDefer
                   PROVE  InTime' /\ due' \in 0 .. Never
      OBVIOUS
    <3>2. MaxDefer - age \in Int /\ Debounce \in Int
      BY <1>0, Deferral
    <3>3. due' = IF Debounce <= MaxDefer - age THEN Debounce
                                               ELSE MaxDefer - age
      BY <1>0, <2>1, <3>1, <3>2, Deferral, SmallerOf
    <3> QED
      BY <1>0, <2>1, <3>1, <3>3, Deferral DEF InTime, Never
  <2>9. age >= MaxDefer => due' = due
    BY <2>1
  <2>10. age < MaxDefer \/ (age >= MaxDefer /\ age # 0)
    BY <1>0, Deferral
  <2>11. DueInv' /\ due' \in 0 .. Never
    BY <1>0, <2>1, <2>5, <2>8, <2>9, <2>10 DEF DueInv, InTime, Never
  <2> QED
    BY <1>0, <1>s, <2>1, <2>4, <2>7, <2>11
<1>5. CASE LiftLatch(t)
  <2>1. /\ Then(t, Tail(l)) /\ Head(l) = "lift"
        /\ UNCHANGED <<age, due>>
    BY <1>5 DEF LiftLatch, Does, Done, timer
  <2>2. Tail(l) \in CallLists \cap MarkLists \cap AskLists
    BY <1>0, <2>1, CallTails
  <2>3. CallsOK' /\ todo'[t] = Tail(l)
    BY <1>0, <2>1, <2>2, CallGoes
  <2>4. Owed' /\ WillAsk'
    BY <2>2, <2>3 DEF Owed, WillAsk
  <2> QED
    BY <1>0, <1>s, <2>1, <2>3, <2>4 DEF HeldInv, DueInv
<1>6. CASE AskForFlush(t)
  <2>1. /\ Then(t, Tail(l)) /\ Head(l) = "ask" /\ asked' = TRUE
        /\ UNCHANGED <<dirty, age, due, disabled>>
    BY <1>6 DEF AskForFlush, Does, Done, latch, timer
  <2>2. Tail(l) = << >> /\ l = <<"ask">> /\ l \notin MarkLists
    BY <1>0, <2>1, CallTails
  <2>3. << >> \in CallLists
    BY DEF CallLists
  <2>4. /\ CallsOK' /\ todo'[t] = << >>
        /\ \A u \in Tasks \ {t} : todo'[u] = todo[u]
    BY <1>0, <2>1, <2>2, <2>3, CallGoes
  <2>5. Owed => Owed'
    BY <2>2, <2>4 DEF Owed
  <2>6. \/ todo'["worker"] = todo["worker"]
        \/ /\ todo["worker"] \notin {<<"copy">>, <<"give up">>, <<"save">>}
           /\ todo'["worker"] # <<"save">>
    BY <1>0, <2>2, <2>4, Apart
  <2>7. HeldInv'
    BY <1>0, <1>1, <2>1, <2>5, <2>6, HeldKept
  <2> QED
    BY <1>0, <1>s, <2>1, <2>4, <2>7 DEF DueInv
<1> QED
  BY <1>2, <1>3, <1>4, <1>5, <1>6 DEF CallStep

(* A turn recorded is about to be marked; a conversation cleared too, and  *)
(* its flush asked for.                                                    *)
LEMMA TurnsSchedule ==
    ASSUME ScheduleInv,
           ConversationText \/ new_conversation \/ ForgetConfirmed
    PROVE  ScheduleInv'
<1>0. /\ on /\ CallsOK /\ HeldInv /\ DueInv
      /\ age \in 0 .. MaxDefer /\ due \in 0 .. Never
  BY DEF ScheduleInv, ConversationText, new_conversation, ForgetConfirmed,
         Receives
<1>1. UNCHANGED <<on, dirty, disabled, asked, age, due>>
  BY DEF ConversationText, new_conversation, ForgetConfirmed, latch, timer
<1>s. ASSUME CallsOK', HeldInv', DueInv'
      PROVE  ScheduleInv'
  BY <1>0, <1>1, <1>s DEF ScheduleInv
<1>2. CASE UNCHANGED <<todo, arena, saving, acked, loaded>>
  <2>1. HeldInv'
    BY <1>0, <1>1, <1>2, HeldKept DEF Owed
  <2>2. DueInv'
    BY <1>0, <1>1, <1>2, DueKept DEF WillAsk, WillArm
  <2>3. CallsOK'
    BY <1>0, <1>2 DEF CallsOK
  <2> QED
    BY <1>s, <2>1, <2>2, <2>3
<1>3. ASSUME NEW t \in Tasks, Idle(t), Then(t, <<"mark", "arm">>)
      PROVE  ScheduleInv'
  <2>1. <<"mark", "arm">> \in CallLists \cap MarkLists
    BY DEF CallLists, MarkLists
  <2>2. /\ CallsOK' /\ todo'[t] = <<"mark", "arm">>
        /\ \A u \in Tasks \ {t} : todo'[u] = todo[u]
    BY <1>0, <1>3, <2>1, CallGoes
  <2>3. Owed'
    BY <2>1, <2>2 DEF Owed
  <2>4. WillAsk => WillAsk'
    BY <1>3, <2>2, Apart DEF WillAsk, Idle
  <2>5. WillArm => WillArm'
    BY <1>3, <2>2 DEF WillArm, Idle
  <2>6. DueInv'
    BY <1>0, <1>1, <2>4, <2>5, DueKept
  <2> QED
    BY <1>s, <2>2, <2>3, <2>6 DEF HeldInv
<1>4. ASSUME NEW t \in Tasks, Clear(t)
      PROVE  ScheduleInv'
  <2>1. <<"lift", "mark", "arm", "ask">>
            \in CallLists \cap MarkLists \cap AskLists
    BY DEF CallLists, MarkLists, AskLists
  <2>2. CallsOK' /\ todo'[t] = <<"lift", "mark", "arm", "ask">>
    BY <1>0, <1>4, <2>1, CallGoes DEF Clear
  <2>3. Owed' /\ WillAsk'
    BY <2>1, <2>2 DEF Owed, WillAsk
  <2> QED
    BY <1>s, <2>2, <2>3 DEF HeldInv, DueInv
<1>5. "ws" \in Tasks /\ "lvgl" \in Tasks
  BY DEF Tasks
<1> QED
  BY <1>2, <1>3, <1>4, <1>5
     DEF ConversationText, new_conversation, ForgetConfirmed, Receives, store

(* A save.                                                                 *)
LEMMA SavesSchedule ==
    ASSUME ScheduleInv, SaveStep
    PROVE  ScheduleInv'
<1> DEFINE w == todo["worker"]
<1>0. /\ on /\ CallsOK /\ HeldInv /\ DueInv /\ "worker" \in Tasks
      /\ w \in CallLists /\ w # << >>
      /\ age \in 0 .. MaxDefer /\ due \in 0 .. Never
  BY DEF ScheduleInv, CallsOK, SaveStep, CopyArena, SaveSucceeds,
         SaveTakesBack, SaveFails, GiveUp, Does, Idle, Tasks
<1>1. /\ UNCHANGED <<on, dirty, asked, age, due, arena>>
      /\ disabled' = disabled \/ disabled' = TRUE
  <2>1. CASE CopyArena
    BY <2>1 DEF CopyArena, latch, timer
  <2>2. CASE SaveSucceeds
    BY <2>2 DEF SaveSucceeds, timer
  <2>3. CASE SaveTakesBack
    BY <2>3 DEF SaveTakesBack, latch, timer
  <2>4. CASE SaveFails
    BY <2>4 DEF SaveFails, timer
  <2>5. CASE GiveUp
    BY <2>5 DEF GiveUp, timer
  <2> QED
    BY <2>1, <2>2, <2>3, <2>4, <2>5 DEF SaveStep
<1>h. Head(w) \in {"copy", "save", "give up"}
  BY DEF SaveStep, CopyArena, SaveSucceeds, SaveTakesBack, SaveFails, GiveUp,
         Does
<1>2. /\ Tail(w) = << >> /\ w = <<Head(w)>>
      /\ w \notin MarkLists /\ w \notin AskLists
  BY <1>0, <1>h, CallTails
<1>s. ASSUME CallsOK', HeldInv', DueInv'
      PROVE  ScheduleInv'
  BY <1>0, <1>1, <1>s DEF ScheduleInv
<1>3. ASSUME NEW l \in CallLists, Then("worker", l)
      PROVE  /\ CallsOK' /\ todo'["worker"] = l /\ DueInv'
             /\ Owed => Owed'
  <2>1. /\ CallsOK' /\ todo'["worker"] = l
        /\ \A u \in Tasks \ {"worker"} : todo'[u] = todo[u]
    BY <1>0, <1>3, CallGoes
  <2>2. /\ Owed => Owed'
        /\ WillAsk => WillAsk'
        /\ WillArm => WillArm'
    BY <1>2, <1>h, <2>1 DEF Owed, WillAsk, WillArm
  <2>3. DueInv'
    BY <1>0, <1>1, <2>2, DueKept
  <2> QED
    BY <2>1, <2>2, <2>3
<1>l. {<< >>, <<"save">>, <<"mark", "arm">>, <<"give up">>} \subseteq CallLists
      /\ <<"mark", "arm">> \in MarkLists
  BY DEF CallLists, MarkLists
<1>4. CASE CopyArena
  <2>1. Then("worker", <<"save">>) /\ saving' = arena
    BY <1>4 DEF CopyArena, Store!Save
  <2>2. /\ CallsOK' /\ todo'["worker"] = <<"save">> /\ DueInv'
    BY <1>3, <1>l, <2>1
  <2>3. HeldInv'
    BY <1>1, <2>1, <2>2 DEF HeldInv
  <2> QED
    BY <1>s, <2>2, <2>3
<1>5. CASE SaveSucceeds
  <2>1. /\ Then("worker", << >>) /\ Head(w) = "save"
        /\ saving # Nothing /\ acked' = saving
    BY <1>2, <1>5 DEF SaveSucceeds, Store!Saved, Done, Does
  <2>2. /\ CallsOK' /\ todo'["worker"] = << >> /\ DueInv'
        /\ Owed => Owed'
    BY <1>3, <1>l, <2>1
  <2>3. w = <<"save">> /\ Known' = saving
    BY <1>2, <2>1 DEF Known
  <2>4. dirty \/ disabled \/ Owed \/ arena = saving
    BY <1>0, <2>3, Apart DEF HeldInv
  <2>5. todo'["worker"] # <<"save">>
    BY <2>2, Apart
  <2>6. dirty' \/ disabled' \/ Owed' \/ arena' = Known'
    BY <1>1, <2>2, <2>3, <2>4
  <2>7. HeldInv'
    BY <2>5, <2>6 DEF HeldInv
  <2> QED
    BY <1>s, <2>2, <2>7
<1>6. CASE SaveTakesBack
  <2>1. UNCHANGED <<todo, saving, acked, loaded>>
    BY <1>6 DEF SaveTakesBack, Store!TakeBack
  <2>2. HeldInv'
    BY <1>0, <1>1, <2>1, HeldKept DEF Owed
  <2>3. DueInv'
    BY <1>0, <1>1, <2>1, DueKept DEF WillAsk, WillArm
  <2>4. CallsOK'
    BY <1>0, <2>1 DEF CallsOK
  <2> QED
    BY <1>s, <2>2, <2>3, <2>4
<1>7. CASE SaveFails
  <2>1. Then("worker", <<"mark", "arm">>) \/ Then("worker", <<"give up">>)
    BY <1>7 DEF SaveFails
  <2>2. CASE Then("worker", <<"mark", "arm">>)
    <3>1. CallsOK' /\ todo'["worker"] = <<"mark", "arm">> /\ DueInv'
      BY <1>3, <1>l, <2>2
    <3>2. Owed'
      BY <1>0, <1>l, <3>1 DEF Owed
    <3> QED
      BY <1>s, <3>1, <3>2 DEF HeldInv
  <2>3. CASE Then("worker", <<"give up">>)
    <3>1. CallsOK' /\ todo'["worker"] = <<"give up">> /\ DueInv'
      BY <1>3, <1>l, <2>3
    <3> QED
      BY <1>s, <3>1 DEF HeldInv
  <2> QED
    BY <2>1, <2>2, <2>3
<1>8. CASE GiveUp
  <2>1. Then("worker", << >>) /\ disabled' = TRUE
    BY <1>2, <1>8 DEF GiveUp, Done
  <2>2. CallsOK' /\ DueInv'
    BY <1>3, <1>l, <2>1
  <2> QED
    BY <1>s, <2>1, <2>2 DEF HeldInv
<1> QED
  BY <1>4, <1>5, <1>6, <1>7, <1>8 DEF SaveStep

(* The flush, by the worker's flag or by a stop: not while it is latched.  *)
LEMMA FlushSchedules ==
    ASSUME ScheduleInv, FlushAsked \/ StopSession
    PROVE  ScheduleInv'
<1>0. /\ on /\ CallsOK /\ HeldInv /\ DueInv /\ Idle("worker")
      /\ "worker" \in Tasks
      /\ age \in 0 .. MaxDefer /\ due \in 0 .. Never
  BY DEF ScheduleInv, FlushAsked, StopSession, Receives, Tasks
<1>1. /\ UNCHANGED <<on, disabled, age, due, arena, saving, acked, loaded>>
      /\ FlushHistory
      /\ asked' = FALSE \/ asked' = asked
  BY DEF FlushAsked, StopSession, latch, timer, store
<1>2. CASE dirty /\ ~disabled
  <2>1. dirty' = FALSE /\ Then("worker", <<"copy">>)
    BY <1>1, <1>2 DEF FlushHistory
  <2>2. <<"copy">> \in CallLists
    BY DEF CallLists
  <2>3. CallsOK' /\ todo'["worker"] = <<"copy">>
    BY <1>0, <2>1, <2>2, CallGoes
  <2> QED
    BY <1>0, <1>1, <2>1, <2>3 DEF ScheduleInv, HeldInv, DueInv
<1>3. CASE ~(dirty /\ ~disabled)
  <2>1. UNCHANGED <<dirty, todo>>
    BY <1>1, <1>3 DEF FlushHistory
  <2>2. HeldInv'
    BY <1>0, <1>1, <2>1, HeldKept DEF Owed
  <2>3. CallsOK'
    BY <1>0, <2>1 DEF CallsOK
  <2>4. DueInv'
    BY <1>1, <1>3, <2>1 DEF DueInv
  <2> QED
    BY <1>0, <1>1, <2>2, <2>3, <2>4 DEF ScheduleInv
<1> QED
  BY <1>2, <1>3

(* Time: what is due comes nearer, and is asked for when it is there.      *)
LEMMA TimeSchedules ==
    ASSUME ScheduleInv, Tick \/ FlushTimer
    PROVE  ScheduleInv'
<1>0. /\ on /\ CallsOK /\ HeldInv /\ DueInv
      /\ age \in 0 .. MaxDefer /\ due \in 0 .. Never
  BY DEF ScheduleInv, Tick, FlushTimer
<1>1. UNCHANGED <<on, dirty, disabled, arena, saving, acked, loaded, todo>>
  BY DEF Tick, FlushTimer, latch, store
<1>2. CallsOK' /\ HeldInv'
  <2>1. CallsOK'
    BY <1>0, <1>1 DEF CallsOK
  <2>2. HeldInv'
    BY <1>0, <1>1, HeldKept DEF Owed
  <2> QED
    BY <2>1, <2>2
<1>3. CASE FlushTimer
  <2>1. asked' = TRUE /\ due' = Never /\ age' = age
    BY <1>3 DEF FlushTimer
  <2> QED
    BY <1>0, <1>1, <1>2, <2>1, Deferral DEF ScheduleInv, DueInv
<1>4. CASE Tick
  <2>1. /\ due # 0 /\ asked' = asked
        /\ age' = Min({age + 1, MaxDefer})
        /\ due' = IF due = Never THEN Never ELSE due - 1
    BY <1>4 DEF Tick
  <2>2. ~WillArm
    BY <1>0, <1>4 DEF Tick, Does, Idle, WillArm
  <2>3. age' = IF age + 1 <= MaxDefer THEN age + 1 ELSE MaxDefer
    BY <1>0, <2>1, Deferral, SmallerOf
  <2>4. age' \in 0 .. MaxDefer /\ due' \in 0 .. Never
    BY <1>0, <2>1, <2>3, Deferral
  <2>5. InTime => InTime'
    BY <1>0, <2>1, <2>3, Deferral DEF InTime, Never
  <2>6. WillAsk => WillAsk'
    BY <1>1 DEF WillAsk
  <2>7. DueInv'
    BY <1>0, <1>1, <2>1, <2>2, <2>5, <2>6 DEF DueInv
  <2> QED
    BY <1>0, <1>1, <1>2, <2>4, <2>7 DEF ScheduleInv
<1> QED
  BY <1>3, <1>4

(* Every step keeps it.                                                    *)
LEMMA ScheduleStep ==
    ASSUME RememberInv, ScheduleInv, [Next]_vars
    PROVE  ScheduleInv'
<1>1. CASE \/ ConfirmLapses \/ SendSettings \/ SettingsApplied
           \/ Disconnected \/ StartSession \/ Stopped \/ UNCHANGED vars
  <2>1. /\ UNCHANGED <<on, dirty, disabled, age, due, arena, saving, acked,
                       loaded, todo>>
        /\ asked' = asked \/ asked' = TRUE
    BY <1>1 DEF ConfirmLapses, SendSettings, SettingsApplied, Disconnected,
       StartSession, Stopped, Receives, vars, latch, timer, store
  <2>2. HeldInv => HeldInv'
    BY <2>1, HeldKept DEF Owed
  <2>3. DueInv'
    BY <2>1, DueKept DEF WillAsk, WillArm, ScheduleInv
  <2>4. CallsOK'
    BY <2>1 DEF CallsOK, ScheduleInv
  <2> QED
    BY <2>1, <2>2, <2>3, <2>4 DEF ScheduleInv
<1>2. CASE Boot
  <2>1. /\ ~on /\ on' = TRUE /\ UNCHANGED <<dirty, age, due, todo, acked>>
        /\ \/ loaded' = stored /\ arena' = stored
           \/ UNCHANGED <<loaded, arena>>
    BY <1>2 DEF Boot, Store!Load, store, timer
  <2>2. /\ ~dirty /\ arena = << >> /\ acked = Nothing /\ loaded = Nothing
        /\ todo["worker"] = << >> /\ CallsOK
        /\ age \in 0 .. MaxDefer /\ due \in 0 .. Never
    BY <2>1 DEF ScheduleInv, Tasks
  <2>3. stored # Nothing
    BY HistoryAssumption DEF RememberInv, Recorded
  <2>4. arena' = Known'
    BY <2>1, <2>2, <2>3 DEF Known
  <2>5. HeldInv'
    BY <2>1, <2>2, <2>4, Apart DEF HeldInv
  <2>6. CallsOK'
    BY <2>1, <2>2 DEF CallsOK
  <2> QED
    BY <2>1, <2>2, <2>5, <2>6 DEF ScheduleInv, DueInv
<1>3. CASE PowerLoss
  <2>1. /\ on' = FALSE /\ arena' = << >> /\ dirty' = FALSE /\ age' = 0
        /\ due' = Never /\ todo' = [t \in Tasks |-> << >>]
        /\ acked' = Nothing /\ loaded' = Nothing
    BY <1>3 DEF PowerLoss, Store!PowerLoss
  <2>2. CallsOK'
    BY <2>1 DEF CallsOK, CallLists
  <2> QED
    BY <2>1, <2>2, Deferral DEF ScheduleInv, DueInv
<1> QED
  BY <1>1, <1>2, <1>3, CallsSchedule, TurnsSchedule, SavesSchedule,
     FlushSchedules, TimeSchedules DEF Next

(* dg_agent.c's history_mark_dirty(), dg_agent_flush_history() and         *)
(* history_note_save_failure(): with no call under way, an arena that is   *)
(* not what was last saved or loaded is marked, and the flush is asked for *)
(* or comes within HISTORY_FLUSH_MAX_DEFER_MS of the first change, however *)
(* turns, clears, failures and flushes of three tasks fall between the     *)
(* steps of one another.                                                   *)
THEOREM UnsavedIsAlwaysScheduled == Spec => []UnsavedIsScheduled
<1>1. Init => ScheduleInv
  <2>1. << >> \in CallLists
    BY DEF CallLists
  <2> QED
    BY <2>1, Deferral
       DEF Init, Store!Init, ScheduleInv, CallsOK, DueInv
<1>2. RememberInv /\ ScheduleInv /\ [Next]_vars => ScheduleInv'
  BY ScheduleStep
<1>3. ScheduleInv => UnsavedIsScheduled
  <2> SUFFICES ASSUME ScheduleInv, on, Quiet, ~disabled
               PROVE  /\ arena = Known \/ dirty
                      /\ dirty => asked \/ InTime
    BY DEF UnsavedIsScheduled, InTime
  <2>1. \A t \in Tasks : todo[t] = << >>
    BY DEF Quiet, Idle
  <2>2. ~Owed /\ ~WillAsk /\ ~WillArm
    BY <2>1, Apart DEF Owed, WillAsk, WillArm
  <2>3. todo["worker"] = << >>
    BY <2>1 DEF Tasks
  <2> QED
    BY <2>2, <2>3, Apart DEF ScheduleInv, HeldInv, DueInv
<1> QED
  BY <1>1, <1>2, <1>3, RememberAlways, PTL DEF Spec
=============================================================================
