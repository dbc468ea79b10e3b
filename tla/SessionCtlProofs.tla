-------------------------- MODULE SessionCtlProofs --------------------------
(***************************************************************************)
(* Proofs about SessionCtl, for every set of gestures, flags and saves,    *)
(* and any number of tasks posting at the same time.                       *)
(***************************************************************************)
EXTENDS SessionCtl, TLAPS

-----------------------------------------------------------------------------
(* The values the handlers store are of their types.  Stated once, so that   *)
(* no proof below has to split on the whole of a type.                       *)
LEMMA StoredValues ==
    /\ "none" \in AllPcs /\ "wait" \in AllPcs /\ "promoteReload" \in AllPcs
    /\ "promoteStart" \in AllPcs /\ "stamp" \in AllPcs /\ "raise" \in AllPcs
    /\ "dispatch" \in AllPcs /\ "cool" \in AllPcs /\ "lower" \in AllPcs
    /\ "clear" \in AllPcs /\ "history" \in AllPcs /\ "denoiser" \in AllPcs
    /\ "settings" \in AllPcs /\ "stop" \in AllPcs /\ "stopCapture" \in AllPcs
    /\ "stopAgent" \in AllPcs /\ "stopClient" \in AllPcs
    /\ "stopFlush" \in AllPcs /\ "stopDown" \in AllPcs
    /\ "stopSave" \in AllPcs /\ "start" \in AllPcs
    /\ "startClient" \in AllPcs /\ "startUp" \in AllPcs
    /\ "idle" \in Labels /\ "error" \in Labels /\ "stopping" \in Labels
    /\ "opening" \in Labels /\ "agent" \in Labels
    /\ "zero" \in Stamps /\ "recent" \in Stamps /\ "longAgo" \in Stamps
    /\ "down" \in Clients /\ "up" \in Clients /\ "closing" \in Clients
    /\ "idle" \in WsPcs /\ "audio" \in WsPcs /\ "state" \in WsPcs
    /\ "create" \in MainPcs /\ "firstCheck" \in MainPcs
    /\ "firstNotify" \in MainPcs /\ "radio" \in MainPcs
    /\ "setAwake" \in MainPcs /\ "setAsleep" \in MainPcs
    /\ "watchdog" \in MainPcs /\ "stamp" \in MainPcs /\ "notice" \in MainPcs
    /\ "repaint" \in MainPcs /\ "paint" \in MainPcs
    /\ None \in Slots /\ "START" \in Slots /\ "RELOAD" \in Slots
    /\ Slots \subseteq Requests \cup {None}
    /\ Gestures \subseteq Slots
    /\ Deferred \subseteq Requests
    /\ "RELOAD_SOON" \in Requests /\ "START_SOON" \in Requests
BY ConstantsAssumption
   DEF AllPcs, ChorePcs, StopPcs, StartPcs, AllChores, Labels, Stamps, Clients,
       WsPcs, MainPcs, Slots, Requests, AllGestures, AllDeferred

(* No handler stores anything but a Boolean in a switch, nor a place outside *)
(* the worker's, the client task's or the main loop's program.               *)
LEMMA SwitchesStep == SwitchesOK /\ [Next]_vars => SwitchesOK'
<1> SUFFICES ASSUME SwitchesOK, [Next]_vars PROVE SwitchesOK'
  OBVIOUS
<1> USE DEF SwitchesOK, worker, mailbox, asks, gate, session, agent, audio, power,
            panel
<1>1. CASE PostStep
  <2>1. ASSUME NEW g \in Gestures, RequestCheck(g) PROVE SwitchesOK'
    BY <2>1 DEF RequestCheck
  <2>2. ASSUME NEW g \in Gestures, RequestNotify(g) PROVE SwitchesOK'
    <3>1. CASE pc = "none"
      BY <2>2, <3>1 DEF RequestNotify, NotifyValue
    <3>2. CASE pc # "none"
      BY <2>2, <3>2 DEF RequestNotify, NotifyValue
    <3> QED
      BY <3>1, <3>2
  <2>3. ASSUME NEW f \in Flags, RaiseFlag(f) PROVE SwitchesOK'
    BY <2>3 DEF RaiseFlag
  <2>4. ASSUME NEW f \in Flags, PokeFlag(f) PROVE SwitchesOK'
    BY <2>4 DEF PokeFlag, NotifyPoke
  <2> QED
    BY <1>1, <2>1, <2>2, <2>3, <2>4 DEF PostStep
<1>2. CASE WakeStep
  <2>1. CASE Take
    BY <2>1 DEF Take
  <2>2. CASE PromoteReload
    <3>1. UNCHANGED <<saving, gate, session, agent, audio, power, panel>>
      BY <2>2 DEF PromoteReload
    <3>2. notified' \in BOOLEAN
      BY <2>2 DEF PromoteReload, Promote, NotifyPoke
    <3> QED
      BY <3>1, <3>2
  <2>3. CASE PromoteStart
    <3>1. UNCHANGED <<saving, gate, session, agent, audio, power, panel>>
      BY <2>3 DEF PromoteStart
    <3>2. notified' \in BOOLEAN
      BY <2>3 DEF PromoteStart, Promote, NotifyPoke
    <3> QED
      BY <3>1, <3>2
  <2>4. CASE Stamp
    BY <2>4 DEF Stamp
  <2>5. CASE RaiseBusy
    BY <2>5 DEF RaiseBusy
  <2> QED
    BY <1>2, <2>1, <2>2, <2>3, <2>4, <2>5 DEF WakeStep
<1>3. CASE ChoreStep
  <2>1. PICK c \in AllChores : DoChore(c)
    BY <1>3 DEF ChoreStep
  <2>2. UNCHANGED <<notified, gate, session, agent, audio, power, panel>>
    BY <2>1 DEF DoChore
  <2>3. saving' \in BOOLEAN
    BY <2>1 DEF DoChore
  <2> QED
    BY <2>2, <2>3
<1>4. CASE Dispatch
  BY <1>4 DEF Dispatch, AfterDispatch
<1>5. CASE StopStep
  <2>1. CASE StopSuppress
    BY <2>1 DEF StopSuppress
  <2>2. CASE StopCapture
    BY <2>2 DEF StopCapture
  <2>3. CASE StopAgent
    BY <2>3 DEF StopAgent
  <2>4. CASE StopFlush
    BY <2>4 DEF StopFlush
  <2>5. CASE StopDown
    <3>1. UNCHANGED <<saving, notified, gate, startFailed, agent, audio>>
      BY <2>5 DEF StopDown
    <3>2. endedOnPurpose' \in BOOLEAN
      <4>1. endedOnPurpose' = (req \in {"TOGGLE", "STOP"})
        BY <2>5 DEF StopDown
      <4>2. CASE req \in {"TOGGLE", "STOP"}
        BY <4>1, <4>2
      <4>3. CASE req \notin {"TOGGLE", "STOP"}
        BY <4>1, <4>3
      <4> QED
        BY <4>2, <4>3
    <3>3. running' \in BOOLEAN /\ fullSpeed' \in BOOLEAN /\ stopped' \in BOOLEAN
      BY <2>5 DEF StopDown
    <3> QED
      BY <3>1, <3>2, <3>3
  <2>6. CASE StopSave
    BY <2>6 DEF StopSave
  <2> QED
    BY <1>5, <2>1, <2>2, <2>3, <2>4, <2>5, <2>6 DEF StopStep
<1>6. CASE StartStep
  <2>1. CASE StartPrepare
    BY <2>1 DEF StartPrepare
  <2>2. CASE StartClient
    <3>1. UNCHANGED <<saving, notified, gate, running, endedOnPurpose, suppress,
                      audio>>
      BY <2>2 DEF StartClient
    <3>2. /\ startFailed' \in BOOLEAN /\ stopped' \in BOOLEAN
          /\ fullSpeed' \in BOOLEAN
      BY <2>2 DEF StartClient
    <3> QED
      BY <3>1, <3>2
  <2>3. CASE StartUp
    BY <2>3 DEF StartUp
  <2> QED
    BY <1>6, <2>1, <2>2, <2>3 DEF StartStep
<1>7. CASE DoneStep
  <2>1. CASE Cool
    BY <2>1 DEF Cool
  <2>2. CASE LowerBusy
    BY <2>2 DEF LowerBusy
  <2>3. CASE ClearStamp
    BY <2>3 DEF ClearStamp
  <2> QED
    BY <1>7, <2>1, <2>2, <2>3 DEF DoneStep
<1>8. CASE StopClient
  BY <1>8 DEF StopClient
<1>9. CASE WsStep
  <2>1. CASE WsAudio
    BY <2>1 DEF WsAudio
  <2>2. CASE WsAudioDone
    BY <2>2 DEF WsAudioDone
  <2>3. CASE WsState
    BY <2>3 DEF WsState
  <2>4. CASE WsPaint
    BY <2>4 DEF WsPaint
  <2>5. CASE WsReload
    <3>1. UNCHANGED <<saving, gate, session, suppress, audio, fullSpeed,
                      stopped>>
      BY <2>5 DEF WsReload
    <3>2. notified' \in BOOLEAN
      BY <2>5 DEF WsReload, NotifyValue
    <3> QED
      BY <3>1, <3>2
  <2> QED
    BY <1>9, <2>1, <2>2, <2>3, <2>4, <2>5 DEF WsStep
<1>10. CASE MainStep
  <2>1. CASE CreateWorker
    BY <2>1 DEF CreateWorker
  <2>2. CASE FirstCheck
    BY <2>2 DEF FirstCheck, NextDuty, AfterNotice
  <2>3. CASE FirstNotify
    <3>1. UNCHANGED <<saving, gate, session, suppress, audio, fullSpeed,
                      stopped>>
      BY <2>3 DEF FirstNotify
    <3>2. notified' \in BOOLEAN
      BY <2>3 DEF FirstNotify, NotifyValue
    <3> QED
      BY <3>1, <3>2
  <2>4. CASE PlanRadio
    BY <2>4 DEF PlanRadio, RadioPlan, NextDuty, AfterRadio
  <2>5. CASE SetRadio
    BY <2>5 DEF SetRadio, NextDuty, AfterRadio
  <2>6. CASE ReadBusy
    BY <2>6 DEF ReadBusy, NextDuty, AfterWatchdog
  <2>7. CASE ReadStamp
    BY <2>7 DEF ReadStamp, NextDuty, AfterWatchdog
  <2>8. CASE Reboot
    BY <2>8 DEF Reboot
  <2>9. CASE NoticeLapsed
    BY <2>9 DEF NoticeLapsed, NextDuty, AfterNotice
  <2>10. CASE RepaintTest
    BY <2>10 DEF RepaintTest, NextDuty, AfterNotice
  <2>11. CASE RepaintPaint
    BY <2>11 DEF RepaintPaint, IdleLabel, NextDuty, AfterNotice
  <2> QED
    BY <1>10, <2>1, <2>2, <2>3, <2>4, <2>5, <2>6, <2>7, <2>8, <2>9, <2>10,
       <2>11 DEF MainStep
<1>11. CASE ActionDrags \/ CooldownElapses
  <2>1. CASE ActionDrags
    BY <2>1 DEF ActionDrags
  <2>2. CASE CooldownElapses
    <3>1. UNCHANGED <<saving, notified, busy, session, suppress, audio, fullSpeed,
                      stopped>>
      BY <2>2 DEF CooldownElapses
    <3>2. cooling' \in BOOLEAN
      BY <2>2 DEF CooldownElapses
    <3> QED
      BY <3>1, <3>2
  <2> QED
    BY <1>11, <2>1, <2>2
<1>12. CASE UNCHANGED vars
  BY <1>12 DEF vars
<1> QED
  BY <1>1, <1>2, <1>3, <1>4, <1>5, <1>6, <1>7, <1>8, <1>9, <1>10, <1>11,
     <1>12 DEF Next, WorkerStep

(* The same of the program counters, the mailbox, the flags and the labels. *)
LEMMA PlacesStep == PlacesOK /\ [Next]_vars => PlacesOK'
<1> SUFFICES ASSUME PlacesOK, [Next]_vars PROVE PlacesOK'
  OBVIOUS
<1> USE StoredValues DEF PlacesOK, worker, mailbox, asks, gate, session, agent,
                           audio, power, panel
<1>1. CASE PostStep
  <2>1. ASSUME NEW g \in Gestures, RequestCheck(g) PROVE PlacesOK'
    BY <2>1 DEF RequestCheck
  <2>2. ASSUME NEW g \in Gestures, RequestNotify(g) PROVE PlacesOK'
    BY <2>2 DEF RequestNotify, NotifyValue
  <2>3. ASSUME NEW f \in Flags, RaiseFlag(f) PROVE PlacesOK'
    BY <2>3 DEF RaiseFlag
  <2>4. ASSUME NEW f \in Flags, PokeFlag(f) PROVE PlacesOK'
    BY <2>4 DEF PokeFlag, NotifyPoke
  <2> QED
    BY <1>1, <2>1, <2>2, <2>3, <2>4 DEF PostStep
<1>2. CASE WakeStep
  <2>1. CASE Take
    BY <2>1 DEF Take
  <2>2. CASE PromoteReload
    BY <2>2 DEF PromoteReload, Promote, NotifyPoke
  <2>3. CASE PromoteStart
    BY <2>3 DEF PromoteStart, Promote, NotifyPoke
  <2>4. CASE Stamp
    BY <2>4 DEF Stamp
  <2>5. CASE RaiseBusy
    BY <2>5 DEF RaiseBusy
  <2> QED
    BY <1>2, <2>1, <2>2, <2>3, <2>4, <2>5 DEF WakeStep
<1>3. CASE ChoreStep
  <2>1. PICK c \in AllChores : DoChore(c)
    BY <1>3 DEF ChoreStep
  <2>2. AfterChore[c] \in AllPcs
    BY DEF AllChores, AfterChore
  <2>3. UNCHANGED <<req, slot, posting, gate, session, agent, power, panel, main>>
    BY <2>1 DEF DoChore
  <2>4. pc' \in AllPcs /\ wanted' \subseteq Flags /\ unsaved' \subseteq Chores
    BY <2>1, <2>2 DEF DoChore
  <2> QED
    BY <2>3, <2>4
<1>4. CASE Dispatch
  BY <1>4 DEF Dispatch, AfterDispatch
<1>5. CASE StopStep
  <2>1. CASE StopSuppress
    BY <2>1 DEF StopSuppress
  <2>2. CASE StopCapture
    BY <2>2 DEF StopCapture
  <2>3. CASE StopAgent
    BY <2>3 DEF StopAgent
  <2>4. CASE StopFlush
    BY <2>4 DEF StopFlush
  <2>5. CASE StopDown
    BY <2>5 DEF StopDown, IdleLabel
  <2>6. CASE StopSave
    BY <2>6 DEF StopSave
  <2> QED
    BY <1>5, <2>1, <2>2, <2>3, <2>4, <2>5, <2>6 DEF StopStep
<1>6. CASE StartStep
  <2>1. CASE StartPrepare
    BY <2>1 DEF StartPrepare
  <2>2. CASE StartClient
    BY <2>2 DEF StartClient
  <2>3. CASE StartUp
    BY <2>3 DEF StartUp
  <2> QED
    BY <1>6, <2>1, <2>2, <2>3 DEF StartStep
<1>7. CASE DoneStep
  <2>1. CASE Cool
    BY <2>1 DEF Cool
  <2>2. CASE LowerBusy
    BY <2>2 DEF LowerBusy
  <2>3. CASE ClearStamp
    BY <2>3 DEF ClearStamp
  <2> QED
    BY <1>7, <2>1, <2>2, <2>3 DEF DoneStep
<1>8. CASE StopClient
  BY <1>8 DEF StopClient
<1>9. CASE WsStep
  <2>1. CASE WsAudio
    BY <2>1 DEF WsAudio
  <2>2. CASE WsAudioDone
    BY <2>2 DEF WsAudioDone
  <2>3. CASE WsState
    BY <2>3 DEF WsState
  <2>4. CASE WsPaint
    BY <2>4 DEF WsPaint
  <2>5. CASE WsReload
    BY <2>5 DEF WsReload, NotifyValue
  <2> QED
    BY <1>9, <2>1, <2>2, <2>3, <2>4, <2>5 DEF WsStep
<1>10. CASE MainStep
  <2>1. CASE CreateWorker
    BY <2>1 DEF CreateWorker
  <2>2. CASE FirstCheck
    BY <2>2 DEF FirstCheck, NextDuty, AfterNotice
  <2>3. CASE FirstNotify
    BY <2>3 DEF FirstNotify, NotifyValue, NextDuty, AfterNotice
  <2>4. CASE PlanRadio
    BY <2>4 DEF PlanRadio, RadioPlan, NextDuty, AfterRadio
  <2>5. CASE SetRadio
    BY <2>5 DEF SetRadio, NextDuty, AfterRadio
  <2>6. CASE ReadBusy
    BY <2>6 DEF ReadBusy, NextDuty, AfterWatchdog
  <2>7. CASE ReadStamp
    BY <2>7 DEF ReadStamp, NextDuty, AfterWatchdog
  <2>8. CASE Reboot
    BY <2>8 DEF Reboot
  <2>9. CASE NoticeLapsed
    BY <2>9 DEF NoticeLapsed, NextDuty, AfterNotice
  <2>10. CASE RepaintTest
    BY <2>10 DEF RepaintTest, NextDuty, AfterNotice
  <2>11. CASE RepaintPaint
    BY <2>11 DEF RepaintPaint, IdleLabel, NextDuty, AfterNotice
  <2> QED
    BY <1>10, <2>1, <2>2, <2>3, <2>4, <2>5, <2>6, <2>7, <2>8, <2>9, <2>10,
       <2>11 DEF MainStep
<1>11. CASE ActionDrags \/ CooldownElapses
  BY <1>11 DEF ActionDrags, CooldownElapses
<1>12. CASE UNCHANGED vars
  BY <1>12 DEF vars
<1> QED
  BY <1>1, <1>2, <1>3, <1>4, <1>5, <1>6, <1>7, <1>8, <1>9, <1>10, <1>11,
     <1>12 DEF Next, WorkerStep

(* Every variable keeps its type, through all of the handlers of             *)
(* main/session_ctl.c and the tasks that call them.                          *)
THEOREM TypeCorrect == Spec => []TypeOK
<1>1. Init => TypeOK
  BY StoredValues DEF Init, TypeOK, SwitchesOK, PlacesOK
<1>2. TypeOK /\ [Next]_vars => TypeOK'
  BY SwitchesStep, PlacesStep DEF TypeOK
<1> QED
  BY <1>1, <1>2, PTL DEF Spec

-----------------------------------------------------------------------------
(* The gate: s_busy and its stamp against the request in hand. *)

(* What a task other than the worker can do to the worker's own state. *)
LEMMA OthersLeaveTheWorker ==
    PostStep \/ StopClient \/ WsStep \/ MainStep \/ ActionDrags
    \/ CooldownElapses \/ UNCHANGED vars
      => \/ UNCHANGED <<req, busy, busySince, pc>>
         \/ StopClient /\ UNCHANGED <<req, busy, busySince>>
         \/ CreateWorker /\ UNCHANGED <<req, busy, busySince>>
         \/ ActionDrags /\ UNCHANGED <<req, busy, pc>>
         \/ Reboot
<1> USE DEF worker, gate
<1>1. CASE PostStep
  BY <1>1 DEF PostStep, RequestCheck, RequestNotify, RaiseFlag, PokeFlag
<1>2. CASE WsStep
  BY <1>2 DEF WsStep, WsAudio, WsAudioDone, WsState, WsPaint, WsReload
<1>3. CASE MainStep
  BY <1>3 DEF MainStep, CreateWorker, FirstCheck, FirstNotify, PlanRadio,
              SetRadio, ReadBusy, ReadStamp, NoticeLapsed, RepaintTest,
              RepaintPaint
<1>4. CASE StopClient \/ ActionDrags \/ CooldownElapses \/ UNCHANGED vars
  BY <1>4 DEF StopClient, ActionDrags, CooldownElapses, vars
<1> QED
  BY <1>1, <1>2, <1>3, <1>4

(* What the gate shows follows the request in hand through every step: the   *)
(* stamp is set before s_busy is raised and cleared after it is lowered.     *)
LEMMA GateStep == TypeOK /\ GateInv /\ [Next]_vars => GateInv'
<1> SUFFICES ASSUME TypeOK, GateInv, [Next]_vars PROVE GateInv'
  OBVIOUS
<1> USE DEF GateInv, Working, Armed, Resting, ChorePcs, AllChores, StopPcs,
            StartPcs, None
<1>1. CASE WakeStep
  <2>1. CASE Take
    BY <1>1, <2>1 DEF Take, gate
  <2>2. CASE PromoteReload
    BY <2>2 DEF PromoteReload, Promote, NotifyPoke, gate
  <2>3. CASE PromoteStart
    BY <2>3 DEF PromoteStart, Promote, NotifyPoke, gate
  <2>4. CASE Stamp
    BY <2>4 DEF Stamp
  <2>5. CASE RaiseBusy
    BY <2>5 DEF RaiseBusy
  <2> QED
    BY <1>1, <2>1, <2>2, <2>3, <2>4, <2>5 DEF WakeStep
<1>2. CASE ChoreStep
  <2>1. PICK c \in AllChores : DoChore(c)
    BY <1>2 DEF ChoreStep
  <2>2. pc \in ChorePcs /\ pc' \in ChorePcs \cup {"dispatch"}
    BY <2>1 DEF DoChore, AfterChore
  <2>3. UNCHANGED <<req, busy, busySince>>
    BY <2>1 DEF DoChore, gate
  <2> QED
    BY <2>2, <2>3
<1>3. CASE Dispatch
  BY <1>3 DEF Dispatch, AfterDispatch, gate
<1>4. CASE StopStep
  <2>1. pc \in StopPcs /\ pc' \in StopPcs \cup {"start", "cool"}
    BY <1>4 DEF StopStep, StopSuppress, StopCapture, StopAgent, StopFlush,
                StopDown, StopSave
  <2>2. UNCHANGED <<req, busy, busySince>>
    BY <1>4 DEF StopStep, StopSuppress, StopCapture, StopAgent, StopFlush,
                StopDown, StopSave, gate
  <2> QED
    BY <2>1, <2>2
<1>5. CASE StartStep
  <2>1. pc \in StartPcs /\ pc' \in StartPcs \cup {"cool"}
    BY <1>5 DEF StartStep, StartPrepare, StartClient, StartUp
  <2>2. UNCHANGED <<req, busy, busySince>>
    BY <1>5 DEF StartStep, StartPrepare, StartClient, StartUp, gate
  <2> QED
    BY <2>1, <2>2
<1>6. CASE DoneStep
  BY <1>6 DEF DoneStep, Cool, LowerBusy, ClearStamp
<1>7. CASE PostStep \/ StopClient \/ WsStep \/ MainStep \/ ActionDrags
           \/ CooldownElapses \/ UNCHANGED vars
  <2>1. CASE UNCHANGED <<req, busy, busySince, pc>>
    BY <2>1
  <2>2. CASE StopClient /\ UNCHANGED <<req, busy, busySince>>
    BY <2>2 DEF StopClient
  <2>3. CASE CreateWorker /\ UNCHANGED <<req, busy, busySince>>
    BY <2>3 DEF CreateWorker
  <2>4. CASE ActionDrags /\ UNCHANGED <<req, busy, pc>>
    BY <2>4 DEF ActionDrags
  <2>5. CASE Reboot
    BY <2>5 DEF Reboot
  <2> QED
    BY <1>7, <2>1, <2>2, <2>3, <2>4, <2>5, OthersLeaveTheWorker
<1> QED
  BY <1>1, <1>2, <1>3, <1>4, <1>5, <1>6, <1>7 DEF Next, WorkerStep

(* Where the worker stands says whether s_busy is up and the stamp is set.   *)
THEOREM GateHolds == Spec => [](TypeOK /\ GateInv)
<1>1. Init => GateInv
  BY DEF Init, GateInv, Working, Armed, Resting, ChorePcs, AllChores, StopPcs,
         StartPcs
<1> QED
  BY <1>1, GateStep, TypeCorrect, PTL DEF Spec

(* No start or stop ever runs while the gates and the watchdog see an idle   *)
(* worker, whichever way its request came in: main/session_ctl.c raises      *)
(* s_busy over a fresh stamp before it looks at what it was asked.           *)
THEOREM TransitionsAreVisible == Spec => []TransitionIsVisible
<1>1. GateInv => TransitionIsVisible
  BY DEF GateInv, TransitionIsVisible, Working, Armed
<1> QED
  BY <1>1, GateHolds, PTL

(* The watchdog of main.c reboots the device only while the worker has a     *)
(* request in hand that is older than 30 s, although it reads the flag and   *)
(* the stamp at two different moments.                                       *)
THEOREM RebootsAreJustified == Spec => NoFalseReboot
<1>1. TypeOK /\ GateInv /\ [Next]_vars
        => [~Rebooting /\ Rebooting' => req # None /\ busySince = "longAgo"]_vars
  <2> SUFFICES ASSUME TypeOK, GateInv, [Next]_vars, ~Rebooting, Rebooting'
               PROVE  req # None /\ busySince = "longAgo"
    OBVIOUS
  <2>1. CASE main' = main
    BY <2>1 DEF Rebooting
  <2>2. CASE MainStep
    <3>1. Reboot
      BY <2>2 DEF Rebooting, MainStep, CreateWorker, FirstCheck, FirstNotify,
                  PlanRadio, SetRadio, ReadBusy, ReadStamp, NoticeLapsed,
                  RepaintTest, RepaintPaint, NextDuty, AfterRadio,
                  AfterWatchdog, AfterNotice
    <3> QED
      BY <3>1 DEF Reboot, BusyTooLong, GateInv
  <2>3. main' = main \/ MainStep
    BY DEF Next, vars, PostStep, RequestCheck, RequestNotify, RaiseFlag,
           PokeFlag, WorkerStep, WakeStep, Take, PromoteReload, PromoteStart,
           Stamp, RaiseBusy, ChoreStep, DoChore, Dispatch, StopStep,
           StopSuppress, StopCapture, StopAgent, StopFlush, StopDown, StopSave,
           StartStep, StartPrepare, StartClient, StartUp, DoneStep, Cool,
           LowerBusy, ClearStamp, StopClient, WsStep, WsAudio, WsAudioDone,
           WsState, WsPaint, WsReload, ActionDrags, CooldownElapses
  <2> QED
    BY <2>1, <2>2, <2>3
<1> QED
  BY <1>1, GateHolds, PTL DEF Spec, NoFalseReboot

-----------------------------------------------------------------------------
(* The mailbox. *)

(* Gestures, deferred requests and saves have different names. *)
LEMMA NamesAreDistinct ==
    /\ Flags \subseteq AllDeferred \cup AllChores
    /\ \A g \in Gestures : g \notin Flags
    /\ \A c \in Chores : c \notin AllDeferred
BY ConstantsAssumption DEF Flags, AllGestures, AllDeferred, AllChores

(* Every flag is looked at by a worker that has just woken up; a deferred    *)
(* request only while its promotion is still ahead, a save while its own     *)
(* place in the program is.                                                  *)
LEMMA AheadOfTheWorker ==
    /\ \A f \in AllDeferred \cup AllChores : "promoteReload" \in Ahead[f]
    /\ \A f \in AllDeferred \cup AllChores :
          f # "RELOAD_SOON" => "promoteStart" \in Ahead[f]
    /\ \A c \in AllChores : "stamp" \in Ahead[c] /\ "raise" \in Ahead[c]
                              /\ "history" \in Ahead[c]
    /\ \A c \in AllChores : c # "history" => "denoiser" \in Ahead[c]
    /\ "settings" \in Ahead["settings"]
    /\ \A f \in AllDeferred \cup AllChores :
          \A p \in {"none", "wait", "dispatch", "cool", "lower", "clear"}
                   \cup StopPcs \cup StartPcs : p \notin Ahead[f]
    /\ \A f \in AllDeferred : \A p \in {"stamp", "raise"} \cup AllChores :
          p \notin Ahead[f]
    /\ "promoteStart" \notin Ahead["RELOAD_SOON"]
    /\ "denoiser" \notin Ahead["history"]
    /\ \A f \in {"history", "denoiser"} : "settings" \notin Ahead[f]
BY DEF Ahead, AllDeferred, AllChores, StopPcs, StartPcs

(* Each step of the worker leaves every raised flag covered: it clears the   *)
(* flag, is still ahead of it, or has poked itself again.                    *)
LEMMA WakeWorkerStep ==
    TypeOK /\ GateInv /\ WakeInv /\ WorkerStep => WakeInv'
<1> SUFFICES ASSUME TypeOK, GateInv, WakeInv, WorkerStep PROVE WakeInv'
  OBVIOUS
<1> USE NamesAreDistinct, AheadOfTheWorker
    DEF TypeOK, PlacesOK, WakeInv, FlagsCovered, ChangesFlagged, BootWillPoke,
         ChorePcs, StopPcs, StartPcs,
        AllChores, AllDeferred, gate
<1>1. CASE WakeStep
  <2>1. CASE Take
    BY <2>1 DEF Take, asks
  <2>2. CASE PromoteReload
    <3>1. wanted' \subseteq wanted /\ UNCHANGED <<unsaved, posting, saving, main, cooling>>
      BY <2>2 DEF PromoteReload, Promote
    <3>2. "RELOAD_SOON" \in wanted' => notified'
      BY <2>2 DEF PromoteReload, Promote, NotifyPoke
    <3>3. notified => notified'
      BY <2>2 DEF PromoteReload, Promote, NotifyPoke, mailbox
    <3>4. FlagsCovered'
      BY <2>2, <3>1, <3>2, <3>3 DEF PromoteReload
    <3>5. ChangesFlagged'
      BY <2>2, <3>1 DEF PromoteReload, Promote
    <3> QED
      BY <2>2, <3>1, <3>4, <3>5 DEF PromoteReload
  <2>3. CASE PromoteStart
    <3>1. wanted' \subseteq wanted /\ UNCHANGED <<unsaved, posting, saving, main, cooling>>
      BY <2>3 DEF PromoteStart, Promote
    <3>2. "START_SOON" \in wanted' => notified'
      BY <2>3 DEF PromoteStart, Promote, NotifyPoke
    <3>3. notified => notified'
      BY <2>3 DEF PromoteStart, Promote, NotifyPoke, mailbox
    <3>4. FlagsCovered'
      BY <2>3, <3>1, <3>2, <3>3 DEF PromoteStart
    <3>5. ChangesFlagged'
      BY <2>3, <3>1 DEF PromoteStart, Promote
    <3> QED
      BY <2>3, <3>1, <3>4, <3>5 DEF PromoteStart
  <2>4. CASE Stamp
    BY <2>4 DEF Stamp, mailbox, asks
  <2>5. CASE RaiseBusy
    BY <2>5 DEF RaiseBusy, mailbox, asks
  <2> QED
    BY <1>1, <2>1, <2>2, <2>3, <2>4, <2>5 DEF WakeStep
<1>2. CASE ChoreStep
  <2>1. PICK c \in AllChores : DoChore(c)
    BY <1>2 DEF ChoreStep
  <2>2. pc = c /\ UNCHANGED <<posting, mailbox, main, cooling>>
        /\ pc' \in AllChores \cup {"dispatch"}
    BY <2>1 DEF DoChore, AfterChore
  <2>3. FlagsCovered'
    <3>1. wanted' \subseteq wanted /\ (pc' = c => wanted' = wanted \ {c})
      BY <2>1, <2>2 DEF DoChore, AfterChore
    <3>2. ASSUME NEW f \in wanted, pc \in Ahead[f], f # c PROVE pc' \in Ahead[f]
      BY <2>1, <2>2, <3>2 DEF DoChore, AfterChore, Ahead
    <3>3. pc' # c => notified' \/ c \notin wanted' \/ c \in posting' \/ BootWillPoke'
      BY <2>1, <2>2, <3>1 DEF DoChore, mailbox
    <3>4. saving' => pc' = c
      BY <2>1, <2>2 DEF DoChore
    <3>5. main = "firstNotify" => BootWillPoke'
      BY <2>2
    <3>6. ASSUME NEW f \in wanted' \ posting', f # c
          PROVE  notified' \/ (pc' \in Ahead[f] /\ ~(saving' /\ pc' = f)) \/ BootWillPoke'
      <4>1. notified \/ pc \in Ahead[f] \/ main = "firstNotify"
        BY <2>2, <3>1, <3>6
      <4> QED
        BY <2>2, <3>1, <3>2, <3>4, <3>5, <3>6, <4>1 DEF mailbox
    <3> QED
      BY <3>1, <3>3, <3>6, <3>4
  <2>4. ChangesFlagged'
    BY <2>1, <2>2 DEF DoChore
  <2> QED
    BY <2>1, <2>2, <2>3, <2>4 DEF DoChore
<1>3. CASE Dispatch
  BY <1>3 DEF Dispatch, AfterDispatch, mailbox, asks
<1>4. CASE StopStep
  <2>1. pc \in StopPcs /\ pc' \in StopPcs \cup {"start", "cool"}
    BY <1>4 DEF StopStep, StopSuppress, StopCapture, StopAgent, StopFlush,
                StopDown, StopSave
  <2>2. UNCHANGED <<notified, wanted, posting, main, cooling, saving>>
        /\ unsaved' \subseteq unsaved
    BY <1>4 DEF StopStep, StopSuppress, StopCapture, StopAgent, StopFlush,
                StopDown, StopSave, mailbox, asks
  <2> QED
    BY <2>1, <2>2
<1>5. CASE StartStep
  <2>1. pc \in StartPcs /\ pc' \in StartPcs \cup {"cool"}
    BY <1>5 DEF StartStep, StartPrepare, StartClient, StartUp
  <2>2. UNCHANGED <<mailbox, asks, main, cooling, saving>>
    BY <1>5 DEF StartStep, StartPrepare, StartClient, StartUp
  <2> QED
    BY <2>1, <2>2 DEF mailbox, asks
<1>6. CASE DoneStep
  <2>1. pc \in {"cool", "lower", "clear"} /\ pc' \in {"lower", "clear", "wait"}
    BY <1>6 DEF DoneStep, Cool, LowerBusy, ClearStamp
  <2>2. UNCHANGED <<mailbox, asks, main, saving>>
    BY <1>6 DEF DoneStep, Cool, LowerBusy, ClearStamp
  <2> QED
    BY <2>1, <2>2 DEF mailbox, asks
<1> QED
  BY <1>1, <1>2, <1>3, <1>4, <1>5, <1>6 DEF WorkerStep

(* The same under every other task: posters, client, main loop, time. *)
LEMMA WakeOtherStep ==
    ASSUME TypeOK, GateInv, WakeInv,
           PostStep \/ StopClient \/ WsStep \/ MainStep \/ ActionDrags
           \/ CooldownElapses \/ UNCHANGED vars
    PROVE  WakeInv'
<1> USE NamesAreDistinct, AheadOfTheWorker
    DEF TypeOK, PlacesOK, WakeInv, FlagsCovered, ChangesFlagged, BootWillPoke,
        worker
<1>1. CASE PostStep
  <2>1. ASSUME NEW g \in Gestures, RequestCheck(g) PROVE WakeInv'
    BY <2>1 DEF RequestCheck, mailbox, gate
  <2>2. ASSUME NEW g \in Gestures, RequestNotify(g) PROVE WakeInv'
    BY <2>2 DEF RequestNotify, NotifyValue, mailbox, gate
  <2>3. ASSUME NEW f \in Flags, RaiseFlag(f) PROVE WakeInv'
    BY <2>3 DEF RaiseFlag, mailbox, gate
  <2>4. ASSUME NEW f \in Flags, PokeFlag(f) PROVE WakeInv'
    <3>1. UNCHANGED <<worker, wanted, unsaved, gate, main>>
      BY <2>4 DEF PokeFlag
    <3>2. notified' \/ pc = "none"
      BY <2>4 DEF PokeFlag, NotifyPoke
    <3>3. FlagsCovered'
      BY <3>1, <3>2
    <3>4. ChangesFlagged'
      BY <3>1
    <3>5. UNCHANGED <<pc, saving, main, cooling>>
      BY <3>1 DEF gate
    <3> QED
      BY <3>3, <3>4, <3>5 DEF ChorePcs
  <2> QED
    BY <1>1, <2>1, <2>2, <2>3, <2>4 DEF PostStep
<1>2. CASE StopClient
  <2>1. pc = "stopClient" /\ pc' = "stopFlush"
        /\ UNCHANGED <<saving, mailbox, asks, gate, main>>
    BY <1>2 DEF StopClient
  <2>2. ~saving
    BY <2>1 DEF ChorePcs, AllChores
  <2>3. FlagsCovered'
    BY <2>1 DEF mailbox, asks, StopPcs
  <2>4. ChangesFlagged'
    BY <2>1, <2>2 DEF asks
  <2>5. main' # "create" /\ UNCHANGED <<saving, cooling>>
    BY <2>1 DEF gate
  <2> QED
    BY <2>1, <2>2, <2>3, <2>4, <2>5 DEF ChorePcs
<1>3. CASE WsStep
  <2>1. UNCHANGED <<worker, asks, gate, main>> /\ (notified => notified')
    BY <1>3 DEF WsStep, WsAudio, WsAudioDone, WsState, WsPaint, WsReload,
                NotifyValue, mailbox
  <2> QED
    BY <2>1 DEF asks, gate
<1>4. CASE MainStep
  <2>1. CASE CreateWorker
    <3>1. BootWillPoke' /\ UNCHANGED <<saving, asks, gate>>
          /\ pc = "none" /\ pc' = "wait" /\ main' = "firstCheck"
      BY <2>1 DEF CreateWorker, gate
    <3>2. ~saving
      BY <3>1 DEF ChorePcs, AllChores
    <3> QED
      BY <3>1, <3>2 DEF asks, gate
  <2>2. CASE FirstCheck
    <3>1. pc = "wait" => ~busy
      BY DEF GateInv, Resting
    <3> QED
      BY <2>2, <3>1 DEF FirstCheck, mailbox, asks, gate, NextDuty, AfterNotice
  <2>3. CASE FirstNotify
    <3>1. main' # "create" /\ UNCHANGED <<worker, asks, gate>>
      BY <2>3 DEF FirstNotify, NextDuty, AfterNotice
    <3>2. pc # "none" /\ notified'
      BY <2>3 DEF FirstNotify, NotifyValue
    <3>3. FlagsCovered' /\ ChangesFlagged'
      BY <3>1, <3>2 DEF asks
    <3>4. UNCHANGED <<pc, saving, cooling>>
      BY <3>1 DEF gate
    <3> QED
      BY <3>1, <3>2, <3>3, <3>4 DEF ChorePcs
  <2>4. CASE Reboot
    BY <2>4 DEF Reboot
  <2>5. CASE PlanRadio \/ SetRadio \/ ReadBusy \/ ReadStamp \/ NoticeLapsed
             \/ RepaintTest \/ RepaintPaint
    <3>1. /\ UNCHANGED <<worker, mailbox, asks, gate>>
          /\ main \notin {"create", "firstCheck", "firstNotify"}
          /\ main' # "create"
      BY <2>5 DEF PlanRadio, SetRadio, ReadBusy, ReadStamp, NoticeLapsed,
                  RepaintTest, RepaintPaint, NextDuty, AfterRadio,
                  AfterWatchdog, AfterNotice
    <3> QED
      BY <3>1 DEF mailbox, asks, gate
  <2> QED
    BY <1>4, <2>1, <2>2, <2>3, <2>4, <2>5 DEF MainStep
<1>5. CASE ActionDrags
  BY <1>5 DEF ActionDrags, mailbox, asks
<1>6. CASE CooldownElapses
  BY <1>6 DEF CooldownElapses, mailbox, asks
<1>7. CASE UNCHANGED vars
  BY <1>7 DEF vars, mailbox, asks, gate
<1> QED
  BY <1>1, <1>2, <1>3, <1>4, <1>5, <1>6, <1>7

(* The worker never sleeps on a flag or on unsaved data: whatever the order  *)
(* in which posters raise a flag, change data again during a save, or poke   *)
(* before the task exists, a wake-up that will see it is still to come.      *)
THEOREM NothingIsForgotten == Spec => []NothingForgotten
<1>1. Init => WakeInv
  BY DEF Init, WakeInv, FlagsCovered, ChangesFlagged
<1>2. TypeOK /\ GateInv /\ WakeInv /\ [Next]_vars => WakeInv'
  BY WakeWorkerStep, WakeOtherStep DEF Next
<1>3. TypeOK /\ WakeInv => NothingForgotten
  BY AheadOfTheWorker, NamesAreDistinct
     DEF TypeOK, PlacesOK, WakeInv, FlagsCovered, ChangesFlagged, BootWillPoke,
         NothingForgotten, ChorePcs, AllChores
<1> QED
  BY <1>1, <1>2, <1>3, GateHolds, PTL DEF Spec

(* A gesture leaves the mailbox only for the worker's hand or for a later    *)
(* value, and the one in hand is carried to its end: flags and their         *)
(* promotions never displace a press.                                        *)
THEOREM GesturesAreKept == Spec => GestureIsKept
<1> DEFINE Kept == \/ /\ slot # None /\ slot' # slot
                            => \/ req' = slot /\ slot' = None
                               \/ slot' \in AllGestures \cup {"RELOAD"}
                      /\ req # None /\ req' # req => pc = "clear"
                   \/ Rebooting'
<1>1. TypeOK /\ GateInv /\ [Next]_vars => [Kept]_vars
  <2> SUFFICES ASSUME TypeOK, GateInv, [Next]_vars PROVE Kept
    OBVIOUS
  <2>1. CASE PostStep
    BY <2>1, ConstantsAssumption
       DEF PostStep, RequestCheck, RequestNotify, NotifyValue, RaiseFlag,
           PokeFlag, NotifyPoke, worker, mailbox
  <2>2. CASE WakeStep
    BY <2>2 DEF WakeStep, Take, PromoteReload, PromoteStart, Promote, NotifyPoke,
                Stamp, RaiseBusy, mailbox, GateInv, Resting
  <2>3. CASE ChoreStep \/ Dispatch \/ StopStep \/ StartStep \/ StopClient
    BY <2>3 DEF ChoreStep, DoChore, Dispatch, StopStep, StopSuppress,
                StopCapture, StopAgent, StopFlush, StopDown, StopSave,
                StartStep, StartPrepare, StartClient, StartUp, StopClient,
                mailbox
  <2>4. CASE DoneStep
    BY <2>4 DEF DoneStep, Cool, LowerBusy, ClearStamp, mailbox
  <2>5. CASE WsStep
    BY <2>5 DEF WsStep, WsAudio, WsAudioDone, WsState, WsPaint, WsReload,
                NotifyValue, worker, mailbox
  <2>6. CASE MainStep
    BY <2>6 DEF MainStep, CreateWorker, FirstCheck, FirstNotify, NotifyValue,
                PlanRadio, SetRadio, ReadBusy, ReadStamp, Reboot, NoticeLapsed,
                RepaintTest, RepaintPaint, Rebooting, AllGestures, worker,
                mailbox
  <2>7. CASE ActionDrags \/ CooldownElapses \/ UNCHANGED vars
    BY <2>7 DEF ActionDrags, CooldownElapses, vars, worker, mailbox
  <2> QED
    BY <2>1, <2>2, <2>3, <2>4, <2>5, <2>6, <2>7 DEF Next, WorkerStep
<1> QED
  BY <1>1, GateHolds, PTL DEF Spec, GestureIsKept

-----------------------------------------------------------------------------
(* The session and its client. *)

(* The places where the worker is not inside do_stop() or do_start(). *)
Elsewhere == AllPcs \ (StopPcs \cup StartPcs)

(* What the worker's own bookkeeping leaves alone. *)
LEMMA BookkeepingStep ==
    TypeOK /\ (WakeStep \/ ChoreStep \/ DoneStep)
      => /\ pc \in Elsewhere /\ pc' \in Elsewhere
         /\ UNCHANGED <<session, agent, audio, power, panel, main>>
<1> SUFFICES ASSUME TypeOK, WakeStep \/ ChoreStep \/ DoneStep
             PROVE  /\ pc \in Elsewhere /\ pc' \in Elsewhere
                    /\ UNCHANGED <<session, agent, audio, power, panel, main>>
  OBVIOUS
<1> USE DEF Elsewhere, AllPcs, ChorePcs, AllChores, StopPcs, StartPcs
<1>1. CASE WakeStep
  BY <1>1 DEF WakeStep, Take, PromoteReload, PromoteStart, Stamp, RaiseBusy
<1>2. CASE ChoreStep
  <2>1. PICK c \in AllChores : DoChore(c)
    BY <1>2 DEF ChoreStep
  <2>2. pc' \in AllChores \cup {"dispatch"}
    BY <2>1 DEF DoChore, AfterChore
  <2> QED
    BY <2>1, <2>2 DEF DoChore
<1>3. CASE DoneStep
  BY <1>3 DEF DoneStep, Cool, LowerBusy, ClearStamp
<1> QED
  BY <1>1, <1>2, <1>3

(* The client is up exactly where do_start() and do_stop() say so, and its   *)
(* task dispatches only while it is.                                         *)
LEMMA ClientStep == TypeOK /\ ClientInv /\ [Next]_vars => ClientInv'
<1> SUFFICES ASSUME TypeOK, ClientInv, [Next]_vars PROVE ClientInv'
  OBVIOUS
<1> USE DEF ClientInv, StopPcs, StartPcs, session, agent
<1>1. CASE WakeStep \/ ChoreStep \/ DoneStep
  BY <1>1, BookkeepingStep DEF Elsewhere
<1>2. CASE Dispatch
  BY <1>2 DEF Dispatch, AfterDispatch, NothingToDo, StopsSession, StartsSession
<1>3. CASE StopStep
  <2>1. CASE StopSuppress
    BY <2>1 DEF StopSuppress
  <2>2. CASE StopCapture
    BY <2>2 DEF StopCapture
  <2>3. CASE StopAgent
    BY <2>3 DEF StopAgent
  <2>4. CASE StopFlush
    BY <2>4 DEF StopFlush
  <2>5. CASE StopDown
    BY <2>5 DEF StopDown
  <2>6. CASE StopSave
    BY <2>6 DEF StopSave
  <2> QED
    BY <1>3, <2>1, <2>2, <2>3, <2>4, <2>5, <2>6 DEF StopStep
<1>4. CASE StopClient
  BY <1>4 DEF StopClient
<1>5. CASE StartStep
  <2>1. CASE StartPrepare
    BY <2>1 DEF StartPrepare
  <2>2. CASE StartClient
    BY <2>2 DEF StartClient
  <2>3. CASE StartUp
    BY <2>3 DEF StartUp
  <2> QED
    BY <1>5, <2>1, <2>2, <2>3 DEF StartStep
<1>6. CASE WsStep
  <2>1. UNCHANGED <<pc, running, client>>
    BY <1>6 DEF WsStep, WsAudio, WsAudioDone, WsState, WsPaint, WsReload, worker
  <2>2. client = "down" => ws' = "idle"
    BY <1>6 DEF WsStep, WsAudio, WsAudioDone, WsState, WsPaint, WsReload,
                WsDispatching
  <2> QED
    BY <2>1, <2>2
<1>7. CASE MainStep
  <2>1. CASE Reboot
    BY <2>1 DEF Reboot
  <2>2. CASE CreateWorker
    BY <2>2 DEF CreateWorker
  <2>3. CASE ~Reboot /\ ~CreateWorker
    <3>1. UNCHANGED <<worker, session, agent>>
      BY <1>7, <2>3 DEF MainStep, FirstCheck, FirstNotify, PlanRadio, SetRadio,
                        ReadBusy, ReadStamp, NoticeLapsed, RepaintTest,
                        RepaintPaint
    <3> QED
      BY <3>1 DEF worker
  <2> QED
    BY <2>1, <2>2, <2>3
<1>8. CASE PostStep \/ ActionDrags \/ CooldownElapses \/ UNCHANGED vars
  <2>1. UNCHANGED <<worker, session, agent>>
    BY <1>8 DEF PostStep, RequestCheck, RequestNotify, RaiseFlag, PokeFlag,
                ActionDrags, CooldownElapses, vars
  <2> QED
    BY <2>1 DEF worker
<1> QED
  BY <1>1, <1>2, <1>3, <1>4, <1>5, <1>6, <1>7, <1>8 DEF Next, WorkerStep

(* Where the worker stands says whether there is a client to be heard.       *)
THEOREM ClientHolds == Spec => [](TypeOK /\ ClientInv)
<1>1. Init => ClientInv
  BY DEF Init, ClientInv, StopPcs, StartPcs
<1> QED
  BY <1>1, ClientStep, TypeCorrect, PTL DEF Spec

(* Audio is queued only while there is a client, and every stop flushes and  *)
(* resets after the client is gone; the microphone, the CPU and the panel    *)
(* follow s_running.                                                         *)
LEMMA SoundStep ==
    TypeOK /\ ClientInv /\ ClientInv' /\ SoundInv /\ [Next]_vars => SoundInv'
<1> SUFFICES ASSUME TypeOK, ClientInv, ClientInv', SoundInv, [Next]_vars
             PROVE  SoundInv'
  OBVIOUS
<1> USE DEF SoundInv, StopPcs, StartPcs, session, agent, audio, power, panel
<1>1. CASE WakeStep \/ ChoreStep \/ DoneStep
  BY <1>1, BookkeepingStep DEF Elsewhere
<1>2. CASE Dispatch
  BY <1>2 DEF Dispatch, AfterDispatch, NothingToDo, StopsSession, StartsSession
<1>3. CASE StopStep
  <2> USE DEF ClientInv
  <2>1. CASE StopSuppress
    BY <2>1 DEF StopSuppress
  <2>2. CASE StopCapture
    BY <2>2 DEF StopCapture
  <2>3. CASE StopAgent
    BY <2>3 DEF StopAgent
  <2>4. CASE StopFlush
    BY <2>4 DEF StopFlush
  <2>5. CASE StopDown
    BY <2>5 DEF StopDown, IdleLabel
  <2>6. CASE StopSave
    BY <2>6 DEF StopSave
  <2> QED
    BY <1>3, <2>1, <2>2, <2>3, <2>4, <2>5, <2>6 DEF StopStep
<1>4. CASE StopClient
  BY <1>4 DEF StopClient, ClientInv
<1>5. CASE StartStep
  <2> USE DEF ClientInv
  <2>1. CASE StartPrepare
    BY <2>1 DEF StartPrepare
  <2>2. CASE StartClient
    <3>1. pc = "startClient" /\ UNCHANGED <<running, audio>>
      BY <2>2 DEF StartClient
    <3>2. CASE client' = "up" /\ pc' = "startUp" /\ UNCHANGED <<panel, fullSpeed>>
      BY <3>1, <3>2
    <3>3. CASE stopped' /\ label' = "error" /\ ~fullSpeed' /\ pc' = "cool"
               /\ UNCHANGED client
      BY <3>1, <3>3
    <3> QED
      BY <2>2, <3>2, <3>3 DEF StartClient
  <2>3. CASE StartUp
    BY <2>3 DEF StartUp
  <2> QED
    BY <1>5, <2>1, <2>2, <2>3 DEF StartStep
<1>6. CASE WsStep
  <2> USE DEF ClientInv, worker
  <2>1. CASE WsAudio \/ WsState \/ WsReload
    BY <2>1 DEF WsAudio, WsState, WsReload
  <2>2. CASE WsAudioDone
    BY <2>2 DEF WsAudioDone
  <2>3. CASE WsPaint
    BY <2>3 DEF WsPaint
  <2> QED
    BY <1>6, <2>1, <2>2, <2>3 DEF WsStep
<1>7. CASE MainStep
  <2>1. CASE Reboot
    BY <2>1 DEF Reboot
  <2>2. CASE CreateWorker
    BY <2>2 DEF CreateWorker
  <2>3. CASE RepaintPaint
    BY <2>3 DEF RepaintPaint, IdleLabel, worker
  <2>4. CASE FirstCheck \/ FirstNotify \/ PlanRadio \/ SetRadio \/ ReadBusy
             \/ ReadStamp \/ NoticeLapsed \/ RepaintTest
    BY <2>4 DEF FirstCheck, FirstNotify, PlanRadio, SetRadio, ReadBusy,
                ReadStamp, NoticeLapsed, RepaintTest, worker
  <2> QED
    BY <1>7, <2>1, <2>2, <2>3, <2>4 DEF MainStep
<1>8. CASE PostStep \/ ActionDrags \/ CooldownElapses \/ UNCHANGED vars
  <2>1. UNCHANGED <<worker, session, agent, audio, power, panel>>
    BY <1>8 DEF PostStep, RequestCheck, RequestNotify, RaiseFlag, PokeFlag,
                ActionDrags, CooldownElapses, vars
  <2> QED
    BY <2>1 DEF worker
<1> QED
  BY <1>1, <1>2, <1>3, <1>4, <1>5, <1>6, <1>7, <1>8 DEF Next, WorkerStep

(* do_stop() leaves nothing behind and do_start() brings everything up: what *)
(* is heard, what the panel says and what keeps the device awake agree with  *)
(* s_running whenever the worker rests, although the client's task goes on   *)
(* queueing audio and painting states until the stop has halted it.          *)
THEOREM RestIsConsistent == Spec => []RestIsWhole
<1>1. Init => SoundInv
  BY DEF Init, SoundInv
<1>2. SoundInv /\ ClientInv
        => RestIsWhole
  BY DEF SoundInv, ClientInv, RestIsWhole, StoppedIsQuiet, RunningIsWhole,
         StoppedLabelIsTruthful, Resting
<1> QED
  BY <1>1, <1>2, SoundStep, ClientHolds, PTL DEF Spec

(* audio_io_reset() never clears the WebSocket task's half sample under it:  *)
(* dg_agent_stop() has halted that task by then.                             *)
THEOREM CarryIsOwned == Spec => CarryHasOneOwner
<1> DEFINE Owned == carry' # carry => \/ ws = "audio"
                                      \/ ws = "idle" /\ client = "down"
                                      \/ Rebooting'
<1>1. ClientInv /\ [Next]_vars => [Owned]_vars
  <2> SUFFICES ASSUME ClientInv, Next, carry' # carry PROVE Owned
    BY DEF vars, audio
  <2>1. StopFlush \/ WsAudioDone \/ Reboot
    BY DEF Next, PostStep, RequestCheck, RequestNotify, RaiseFlag, PokeFlag,
           WorkerStep, WakeStep, Take, PromoteReload, PromoteStart, Stamp,
           RaiseBusy, ChoreStep, DoChore, Dispatch, StopStep, StopSuppress,
           StopCapture, StopAgent, StopDown, StopSave, StartStep, StartPrepare,
           StartClient, StartUp, DoneStep, Cool, LowerBusy, ClearStamp,
           StopClient, WsStep, WsAudio, WsState, WsPaint, WsReload, MainStep,
           CreateWorker, FirstCheck, FirstNotify, PlanRadio, SetRadio, ReadBusy,
           ReadStamp, NoticeLapsed, RepaintTest, RepaintPaint, ActionDrags,
           CooldownElapses, audio
  <2>2. CASE StopFlush
    BY <2>2 DEF StopFlush, ClientInv
  <2>3. CASE WsAudioDone
    BY <2>3 DEF WsAudioDone
  <2>4. CASE Reboot
    <3>1. main' = "create"
      BY <2>4 DEF Reboot
    <3> QED
      BY <3>1 DEF Rebooting
  <2> QED
    BY <2>1, <2>2, <2>3, <2>4
<1> QED
  BY <1>1, ClientHolds, PTL DEF Spec, CarryHasOneOwner

-----------------------------------------------------------------------------
(* Whatever opens a session was asked to: a stop is dispatched to no start,  *)
(* and a deferred reload starts only what its own stop has just ended.       *)
AimInv ==
    /\ pc \in StartPcs => req # "STOP"
    /\ pc \in StartPcs \cup {"stopSave"}
         => ~(req = "RELOAD_SOON" /\ endedOnPurpose)

(* Every step keeps it: the request in hand is exchanged only where no start *)
(* is under way.                                                             *)
LEMMA AimStep == AimInv /\ [Next]_vars => AimInv'
<1> SUFFICES ASSUME AimInv, [Next]_vars PROVE AimInv'
  OBVIOUS
<1> USE DEF AimInv, StartPcs, worker, session
<1>1. CASE PostStep
  BY <1>1 DEF PostStep, RequestCheck, RequestNotify, RaiseFlag, PokeFlag
<1>2. CASE WakeStep
  BY <1>2 DEF WakeStep, Take, PromoteReload, PromoteStart, Stamp, RaiseBusy
<1>3. CASE ChoreStep
  <2>1. PICK c \in AllChores : DoChore(c)
    BY <1>3 DEF ChoreStep
  <2>2. AfterChore[c] \in {"denoiser", "settings", "dispatch"}
    BY DEF AllChores, AfterChore
  <2>3. pc' \in {pc, "denoiser", "settings", "dispatch"}
    BY <2>1, <2>2 DEF DoChore
  <2> QED BY <2>1, <2>3 DEF DoChore
<1>4. CASE Dispatch
  BY <1>4 DEF Dispatch, AfterDispatch, NothingToDo, StopsSession,
     StartsSession, Reloads, None
<1>5. CASE StopStep
  <2>1. CASE StopDown
    <3>1. pc' = "stopSave" /\ req' = req
      BY <2>1 DEF StopDown
    <3>2. endedOnPurpose' = (req \in {"TOGGLE", "STOP"})
      BY <2>1 DEF StopDown
    <3>3. req = "RELOAD_SOON" => ~endedOnPurpose'
      BY <3>2
    <3> QED BY <3>1, <3>3
  <2>2. CASE StopSave
    BY <2>2 DEF StopSave, Reloads
  <2>3. CASE StopSuppress \/ StopCapture \/ StopAgent \/ StopFlush
    BY <2>3 DEF StopSuppress, StopCapture, StopAgent, StopFlush
  <2> QED BY <1>5, <2>1, <2>2, <2>3 DEF StopStep
<1>6. CASE StartStep
  BY <1>6 DEF StartStep, StartPrepare, StartClient, StartUp
<1>7. CASE DoneStep \/ StopClient
  BY <1>7 DEF DoneStep, Cool, LowerBusy, ClearStamp, StopClient
<1>8. CASE WsStep
  BY <1>8 DEF WsStep, WsAudio, WsAudioDone, WsState, WsPaint, WsReload
<1>9. CASE MainStep
  BY <1>9 DEF MainStep, CreateWorker, FirstCheck, FirstNotify, PlanRadio,
     SetRadio, ReadBusy, ReadStamp, Reboot, NoticeLapsed, RepaintTest,
     RepaintPaint
<1>10. CASE ActionDrags \/ CooldownElapses \/ UNCHANGED vars
  BY <1>10 DEF ActionDrags, CooldownElapses, vars
<1> QED
  BY <1>1, <1>2, <1>3, <1>4, <1>5, <1>6, <1>7, <1>8, <1>9, <1>10
     DEF Next, WorkerStep

(* The idle timeout's stop never opens a session, and a deferred reload      *)
(* never reopens one that the user or the idle timeout ended (worker_task(), *)
(* its test of s_running before a deferred request).                         *)
THEOREM NoStartUnasked == Spec => []NeverOpensUnasked
<1>1. Init => AimInv
  BY DEF Init, AimInv, StartPcs
<1>2. AimInv => NeverOpensUnasked
  BY DEF AimInv, NeverOpensUnasked
<1> QED
  BY <1>1, <1>2, AimStep, PTL DEF Spec
=============================================================================
