---------------------------- MODULE AgentProofs ----------------------------
(***************************************************************************)
(* What Agent's deferred requests may and may not survive, for every set   *)
(* of languages and senders and every bound, and that it ends up listening *)
(* for the voice in force; and, of Announce, that every announcement is    *)
(* said once, for any number of them.                                      *)
(***************************************************************************)
EXTENDS Agent, Announce, FiniteSetTheorems, TLAPS

Reloads == [flag : BOOLEAN, timer : BOOLEAN, old : BOOLEAN,
            by : {"none", "message", "timer"}]
Tests   == [flag : BOOLEAN, timer : BOOLEAN, wanted : BOOLEAN]

(* Outside a live session only the handler of DISCONNECTED is ever left    *)
(* half done.                                                              *)
AfterGone == {<< >>, <<"disconnected">>, <<"drop_reload", "disconnected">>}

HandlerOfSession ==
    /\ link # "live" => ws \in AfterGone
    /\ link = "down" => ws = << >>

(* A message's reload, once its socket is gone, waits only for DISCONNECTED *)
(* or for the stop to clear it.                                            *)
ByMessage == reload.flag /\ reload.by = "message"

ReloadDies ==
    /\ ByMessage /\ link = "opening" => ws = <<"drop_reload", "disconnected">>
    /\ ByMessage /\ link = "down" => worker = "clear"
    /\ ByMessage /\ Connection => ~reload.old

IInv ==
    /\ reload \in Reloads
    /\ link \in {"down", "opening", "open", "live"}
    /\ HandlerOfSession
    /\ ReloadDies

(* What is left of DISCONNECTED's handler, step by step.                   *)
LEMMA Heads ==
    /\ Tail(<<"drop_reload", "disconnected">>) = <<"disconnected">>
    /\ Tail(<<"disconnected">>) = << >>
    /\ Head(<<"drop_reload", "disconnected">>) = "drop_reload"
    /\ Head(<<"disconnected">>) = "disconnected"
    /\ <<"disconnected">> # << >>
    /\ <<"drop_reload", "disconnected">> # << >>
    /\ <<"drop_reload", "disconnected">> # <<"disconnected">>
  OBVIOUS

(* A client that was never started has no handler and no reload.           *)
LEMMA IInit == Init => IInv
  BY DEF Init, NoReload, IInv, HandlerOfSession, ReloadDies, ByMessage,
         Connection, AfterGone, Reloads

(* A reload is scheduled by a message of a connection that is up, or by a   *)
(* timer.                                                                  *)
LEMMA Scheduling ==
    ASSUME IInv, NEW by \in {"message", "timer"}, schedule_reload(by),
           by = "message" => Connection,
           link' = link, ws' = ws \/ link = "live"
    PROVE  IInv'
  BY DEF schedule_reload, IInv, HandlerOfSession, ReloadDies, ByMessage,
         Connection, AfterGone, Reloads

(* What leaves the reload, the socket and the worker alone keeps IInv, if   *)
(* only a live session's handlers get on.                                  *)
LEMMA NotScheduling ==
    ASSUME IInv, UNCHANGED reload, UNCHANGED link, UNCHANGED worker,
           ws' = ws \/ link = "live"
    PROVE  IInv'
  BY DEF IInv, HandlerOfSession, ReloadDies, ByMessage, Connection, AfterGone,
         Reloads

(* No step lets a message's reload past the end of its socket.             *)
LEMMA IStep == IInv /\ [Next]_vars => IInv'
<1> SUFFICES ASSUME IInv, [Next]_vars PROVE IInv'
  OBVIOUS
<1> USE Heads DEF IInv, HandlerOfSession, ReloadDies, ByMessage, Connection,
                  AfterGone, Reloads
<1>1. CASE WorkerStep
  <2>1. CASE Start
    BY <2>1 DEF Start, deferred, stopping
  <2>2. CASE StopBegins
    BY <2>2 DEF StopBegins, deferred, stopping
  <2>3. CASE Quiesced
    BY <2>3 DEF Quiesced, deferred, stopping
  <2>4. CASE Halted
    BY <2>4 DEF Halted, WsIdle, deferred, stopping
  <2>5. CASE ClearDeferred
    BY <2>5 DEF ClearDeferred, NoReload, deferred, stopping
  <2> QED
    BY <1>1, <2>1, <2>2, <2>3, <2>4, <2>5 DEF WorkerStep
<1>2. CASE SocketStep
  <2>1. CASE Connected
    BY <2>1 DEF Connected, Hears, WsIdle, Listens, deferred, stopping
  <2>2. CASE SettingsApplied
    BY <2>2 DEF SettingsApplied, Hears, WsIdle, Listens, deferred, stopping
  <2>3. CASE Gone
    BY <2>3 DEF Gone, WsIdle, GoneSteps, deferred, stopping
  <2>4. CASE DropReload
    BY <2>4 DEF DropReload, WsDoes, Handled, NoReload, deferred, stopping
  <2>5. CASE Disconnected
    BY <2>5 DEF Disconnected, WsDoes, Handled, deferred, stopping
  <2> QED
    BY <1>2, <2>1, <2>2, <2>3, <2>4, <2>5 DEF SocketStep
<1>3. CASE SpeechStep
  <2>1. CASE AgentSpeaks
    BY <2>1 DEF AgentSpeaks, deferred, stopping
  <2>2. CASE AudioDone
    BY <2>2 DEF AudioDone, Hears, WsIdle, deferred, stopping
  <2>3. CASE listen_due_send
    <3>1. link = "live" /\ link' = link /\ worker' = worker
      BY <2>3 DEF listen_due_send, WsDoes, stopping
    <3>2. CASE schedule_reload("message")
      BY <3>1, <3>2, Scheduling DEF Connection
    <3>3. CASE UNCHANGED reload
      BY <3>1, <3>3, NotScheduling
    <3> QED
      BY <2>3, <3>2, <3>3 DEF listen_due_send
  <2>4. CASE TakeReloadNow
    BY <2>4 DEF TakeReloadNow, WsDoes, Handled, TakeReload, NoReload,
                deferred, stopping
  <2>5. CASE TakeTestNow
    BY <2>5 DEF TakeTestNow, WsDoes, Handled, deferred, stopping
  <2> QED
    BY <1>3, <2>1, <2>2, <2>3, <2>4, <2>5 DEF SpeechStep
<1>4. CASE TimerStep
  <2>1. CASE WindowCloses
    BY <2>1 DEF WindowCloses, deferred, stopping
  <2>2. CASE ReloadFires
    BY <2>2 DEF ReloadFires, deferred, stopping
  <2>3. CASE reload_backstop_cb
    BY <2>3 DEF reload_backstop_cb, TakeReload, NoReload, deferred, stopping
  <2>4. CASE test_backstop_cb
    BY <2>4 DEF test_backstop_cb, deferred, stopping
  <2>5. CASE UpdateFires
    BY <2>5 DEF UpdateFires, deferred, stopping
  <2>6. CASE update_backstop_cb
    <3>1. link' = link /\ worker' = worker /\ ws' = ws
      BY <2>6 DEF update_backstop_cb, stopping
    <3>2. CASE schedule_reload("timer")
      BY <3>1, <3>2, Scheduling
    <3>3. CASE UNCHANGED reload
      BY <3>1, <3>3, NotScheduling
    <3> QED
      BY <2>6, <3>2, <3>3 DEF update_backstop_cb
  <2> QED
    BY <1>4, <2>1, <2>2, <2>3, <2>4, <2>5, <2>6 DEF TimerStep
<1>5. CASE SenderStep
  BY <1>5 DEF SenderStep, Claim, Decide, Send, Sent, Move, deferred, stopping
<1>6. CASE CallStep
  <2>1. ASSUME NEW l \in Languages, SetVoice(l) PROVE IInv'
    <3>1. link = "live" /\ link' = link /\ worker' = worker
      BY <2>1 DEF SetVoice, Hears, stopping
    <3>2. CASE schedule_reload("message")
      BY <3>1, <3>2, Scheduling DEF Connection
    <3>3. CASE UNCHANGED reload
      BY <3>1, <3>3, NotScheduling
    <3> QED
      BY <2>1, <3>2, <3>3 DEF SetVoice
  <2>2. CASE SendSpeakAndPrompt
    <3>1. link = "live" /\ link' = link /\ worker' = worker
      BY <2>2 DEF SendSpeakAndPrompt, WsDoes, stopping
    <3>2. CASE schedule_reload("message")
      BY <3>1, <3>2, Scheduling DEF Connection
    <3>3. CASE UNCHANGED reload
      BY <3>1, <3>3, NotScheduling
    <3> QED
      BY <2>2, <3>2, <3>3 DEF SendSpeakAndPrompt
  <2>3. CASE Adopt
    BY <2>3 DEF Adopt, WsDoes, Handled, deferred, stopping
  <2>4. CASE ArmListen
    BY <2>4 DEF ArmListen, WsDoes, Handled, deferred, stopping
  <2>5. CASE Forget
    BY <2>5 DEF Forget, Hears, schedule_reload
  <2>6. CASE StartDisplayTest
    BY <2>6, NotScheduling DEF StartDisplayTest, stopping
  <2> QED
    BY <1>6, <2>1, <2>2, <2>3, <2>4, <2>5, <2>6 DEF CallStep
<1>7. CASE AnswerStep
  <2>1. CASE Updated
    BY <2>1 DEF Updated, deferred, stopping
  <2>2. CASE Ignored
    BY <2>2 DEF Ignored, deferred, stopping
  <2>3. CASE ListenFails
    <3>1. Connection /\ link' = link /\ worker' = worker /\ ws' = ws
      BY <2>3 DEF ListenFails, Hears, stopping
    <3>2. CASE schedule_reload("message")
      BY <3>1, <3>2, Scheduling
    <3>3. CASE UNCHANGED reload
      BY <3>1, <3>3, NotScheduling
    <3> QED
      BY <2>3, <3>2, <3>3 DEF ListenFails, Complain
  <2>4. ASSUME NEW error \in BOOLEAN, Complaint(error) PROVE IInv'
    <3>1. Connection /\ link' = link /\ worker' = worker /\ ws' = ws
      BY <2>4 DEF Complaint, Hears, stopping
    <3>2. CASE schedule_reload("message")
      BY <3>1, <3>2, Scheduling
    <3>3. CASE UNCHANGED reload
      BY <3>1, <3>3, NotScheduling
    <3> QED
      BY <2>4, <3>2, <3>3 DEF Complaint, Complain
  <2> QED
    BY <1>7, <2>1, <2>2, <2>3, <2>4 DEF AnswerStep
<1>8. CASE UNCHANGED vars
  BY <1>8 DEF vars, deferred, stopping
<1> QED
  BY <1>1, <1>2, <1>3, <1>4, <1>5, <1>6, <1>7, <1>8 DEF Next

(* A reload one session's messages called for never closes a later one:    *)
(* on_ws_event() and dg_agent_stop() between them leave none behind.       *)
THEOREM NothingOutlivesItsSession == Spec => []NoOldReload
<1>1. IInv => NoOldReload
  BY DEF IInv, ReloadDies, ByMessage, NoOldReload
<1> QED
  BY IInit, IStep, <1>1, PTL DEF Spec

-----------------------------------------------------------------------------
(* A sender that was seen idle finds the session not ready, and goes idle  *)
(* again, as long as nothing makes the session ready under the stop.       *)
Stopping == worker \in {"quiesce", "halt"}

SInv ==
    /\ ready \in BOOLEAN /\ revived \in BOOLEAN /\ expired \in BOOLEAN
    /\ sender \in [Senders -> {"idle", "claimed", "decided", "sending"}]
    /\ Stopping /\ ~revived => ~ready
    /\ StopFindsSendersIdle

(* At first no one sends and nothing is ready.                             *)
LEMMA SInit == Init => SInv
  BY DEF Init, SInv, Stopping, StopFindsSendersIdle

(* What neither the worker nor the senders do leaves the senders quiet,    *)
(* unless it makes the session ready.                                      *)
LEMMA Bystander ==
    ASSUME SInv, UNCHANGED worker, UNCHANGED expired, UNCHANGED revived,
           UNCHANGED sender, ready' \in BOOLEAN, ready' => ready
    PROVE  SInv'
<1>1. StopFindsSendersIdle'
  BY DEF SInv, StopFindsSendersIdle
<1>2. (Stopping /\ ~revived)' => ~ready'
  <2> SUFFICES ASSUME (Stopping /\ ~revived)' PROVE ~ready'
    OBVIOUS
  <2>1. Stopping /\ ~revived
    BY DEF Stopping
  <2>2. ~ready
    BY <2>1 DEF SInv
  <2> QED
    BY <2>2
<1>3. /\ ready' \in BOOLEAN /\ revived' \in BOOLEAN /\ expired' \in BOOLEAN
      /\ sender' \in [Senders -> {"idle", "claimed", "decided", "sending"}]
  BY DEF SInv
<1> QED
  BY <1>1, <1>2, <1>3 DEF SInv

(* No step but SettingsApplied makes a session ready, and then the history *)
(* variable says so.                                                       *)
LEMMA SStep == SInv /\ [Next]_vars => SInv'
<1> SUFFICES ASSUME SInv, [Next]_vars PROVE SInv'
  OBVIOUS
<1> USE DEF SInv, Stopping, StopFindsSendersIdle, stopping
<1>1. CASE WorkerStep
  <2>1. CASE Start
    BY <2>1 DEF Start
  <2>2. CASE StopBegins
    BY <2>2 DEF StopBegins
  <2>3. CASE Quiesced
    BY <2>3 DEF Quiesced, FlagUp
  <2>4. CASE Halted
    BY <2>4 DEF Halted
  <2>5. CASE ClearDeferred
    BY <2>5 DEF ClearDeferred
  <2> QED
    BY <1>1, <2>1, <2>2, <2>3, <2>4, <2>5 DEF WorkerStep
<1>2. CASE SocketStep
  <2>1. CASE Connected
    BY <2>1 DEF Connected, set_state
  <2>2. CASE SettingsApplied
    BY <2>2 DEF SettingsApplied, set_state
  <2>3. CASE Gone
    <3>1. /\ UNCHANGED worker /\ UNCHANGED expired /\ UNCHANGED revived
          /\ UNCHANGED sender
      BY <2>3 DEF Gone
    <3>2. ready' = ready \/ ready' = FALSE
      BY <2>3 DEF Gone
    <3>3. CASE ready' = ready
      BY <3>1, <3>3, Bystander
    <3>4. CASE ready' = FALSE
      BY <3>1, <3>4, Bystander
    <3> QED
      BY <3>2, <3>3, <3>4
  <2>4. CASE DropReload
    BY <2>4 DEF DropReload
  <2>5. CASE Disconnected
    BY <2>5 DEF Disconnected, set_state
  <2> QED
    BY <1>2, <2>1, <2>2, <2>3, <2>4, <2>5 DEF SocketStep
<1>3. CASE CallStep
  <2>1. ASSUME NEW l \in Languages, SetVoice(l) PROVE SInv'
    BY <2>1 DEF SetVoice
  <2>2. CASE SendSpeakAndPrompt
    BY <2>2 DEF SendSpeakAndPrompt
  <2>3. CASE Adopt
    BY <2>3 DEF Adopt
  <2>4. CASE ArmListen
    BY <2>4 DEF ArmListen
  <2>5. CASE Forget
    BY <2>5 DEF Forget
  <2>6. CASE StartDisplayTest
    BY <2>6 DEF StartDisplayTest
  <2> QED
    BY <1>3, <2>1, <2>2, <2>3, <2>4, <2>5, <2>6 DEF CallStep
<1>4. CASE SpeechStep
  <2>1. CASE AgentSpeaks
    BY <2>1 DEF AgentSpeaks
  <2>2. CASE AudioDone
    BY <2>2 DEF AudioDone
  <2>3. CASE listen_due_send
    BY <2>3 DEF listen_due_send
  <2>4. CASE TakeReloadNow
    BY <2>4 DEF TakeReloadNow
  <2>5. CASE TakeTestNow
    BY <2>5 DEF TakeTestNow
  <2> QED
    BY <1>4, <2>1, <2>2, <2>3, <2>4, <2>5 DEF SpeechStep
<1>5. CASE AnswerStep
  <2>1. CASE Updated
    BY <2>1 DEF Updated
  <2>2. CASE Ignored
    BY <2>2 DEF Ignored
  <2>3. CASE ListenFails
    <3>1. /\ UNCHANGED worker /\ UNCHANGED expired /\ UNCHANGED revived
          /\ UNCHANGED sender
      BY <2>3 DEF ListenFails
    <3>2. UNCHANGED ready \/ set_state("error")
      BY <2>3 DEF ListenFails, Complain
    <3>3. CASE UNCHANGED ready
      BY <3>1, <3>3, Bystander
    <3>4. CASE set_state("error")
      <4>1. ready' \in BOOLEAN /\ ~ready'
        BY <3>4 DEF set_state
      <4> QED
        BY <3>1, <4>1, Bystander
    <3> QED
      BY <3>2, <3>3, <3>4
  <2>4. ASSUME NEW error \in BOOLEAN, Complaint(error) PROVE SInv'
    BY <2>4 DEF Complaint, Complain, set_state
  <2> QED
    BY <1>5, <2>1, <2>2, <2>3, <2>4 DEF AnswerStep
<1>6. CASE TimerStep
  <2>1. CASE WindowCloses
    BY <2>1 DEF WindowCloses
  <2>2. CASE ReloadFires
    BY <2>2 DEF ReloadFires
  <2>3. CASE reload_backstop_cb
    BY <2>3 DEF reload_backstop_cb
  <2>4. CASE test_backstop_cb
    BY <2>4 DEF test_backstop_cb
  <2>5. CASE UpdateFires
    BY <2>5 DEF UpdateFires
  <2>6. CASE update_backstop_cb
    BY <2>6 DEF update_backstop_cb
  <2> QED
    BY <1>6, <2>1, <2>2, <2>3, <2>4, <2>5, <2>6 DEF TimerStep
<1>7. CASE SenderStep
  <2> SUFFICES ASSUME NEW s \in Senders,
                      Claim(s) \/ Decide(s) \/ Send(s) \/ Sent(s)
               PROVE  SInv'
    BY <1>7 DEF SenderStep
  <2> USE DEF Move
  <2>1. CASE Claim(s)
    BY <2>1 DEF Claim
  <2>2. CASE Decide(s)
    BY <2>2 DEF Decide
  <2>3. CASE Send(s)
    BY <2>3 DEF Send
  <2>4. CASE Sent(s)
    BY <2>4 DEF Sent
  <2> QED
    BY <2>1, <2>2, <2>3, <2>4
<1>8. CASE UNCHANGED vars
  BY <1>8 DEF vars
<1> QED
  BY <1>1, <1>2, <1>3, <1>4, <1>5, <1>6, <1>7, <1>8 DEF Next

(* The client is not stopped under a send, except after a wait that ran    *)
(* out or a SettingsApplied during the stop (dg_agent_stop()).             *)
THEOREM SendersAreQuiet == Spec => []StopFindsSendersIdle
<1>1. SInv => StopFindsSendersIdle
  BY DEF SInv
<1> QED
  BY SInit, SStep, <1>1, PTL DEF Spec

-----------------------------------------------------------------------------
(* The display test's flag and its timer go up and come down together.     *)
TInv == test \in Tests /\ TestIsNotStranded

(* At first no test is wanted.                                             *)
LEMMA TInit == Init => TInv
  BY DEF Init, TInv, Tests, TestIsNotStranded

(* Flag and timer are lowered only where the test is run.                  *)
LEMMA TStep == TInv /\ [Next]_vars => TInv'
<1> SUFFICES ASSUME TInv, [Next]_vars PROVE TInv'
  OBVIOUS
<1> USE DEF TInv, Tests, TestIsNotStranded, deferred
<1>1. CASE WorkerStep
  <2>1. CASE Start
    BY <2>1 DEF Start
  <2>2. CASE StopBegins
    BY <2>2 DEF StopBegins
  <2>3. CASE Quiesced
    BY <2>3 DEF Quiesced
  <2>4. CASE Halted
    BY <2>4 DEF Halted
  <2>5. CASE ClearDeferred
    BY <2>5 DEF ClearDeferred
  <2> QED
    BY <1>1, <2>1, <2>2, <2>3, <2>4, <2>5 DEF WorkerStep
<1>2. CASE SocketStep
  <2>1. CASE Connected
    BY <2>1 DEF Connected
  <2>2. CASE SettingsApplied
    BY <2>2 DEF SettingsApplied
  <2>3. CASE Gone
    BY <2>3 DEF Gone
  <2>4. CASE DropReload
    BY <2>4 DEF DropReload
  <2>5. CASE Disconnected
    BY <2>5 DEF Disconnected
  <2> QED
    BY <1>2, <2>1, <2>2, <2>3, <2>4, <2>5 DEF SocketStep
<1>3. CASE CallStep
  <2>1. ASSUME NEW l \in Languages, SetVoice(l) PROVE TInv'
    BY <2>1 DEF SetVoice
  <2>2. CASE SendSpeakAndPrompt
    BY <2>2 DEF SendSpeakAndPrompt
  <2>3. CASE Adopt
    BY <2>3 DEF Adopt
  <2>4. CASE ArmListen
    BY <2>4 DEF ArmListen
  <2>5. CASE Forget
    BY <2>5 DEF Forget
  <2>6. CASE StartDisplayTest
    BY <2>6 DEF StartDisplayTest, schedule_test
  <2> QED
    BY <1>3, <2>1, <2>2, <2>3, <2>4, <2>5, <2>6 DEF CallStep
<1>4. CASE SpeechStep
  <2>1. CASE AgentSpeaks
    BY <2>1 DEF AgentSpeaks
  <2>2. CASE AudioDone
    BY <2>2 DEF AudioDone
  <2>3. CASE listen_due_send
    BY <2>3 DEF listen_due_send
  <2>4. CASE TakeReloadNow
    BY <2>4 DEF TakeReloadNow
  <2>5. CASE TakeTestNow
    BY <2>5 DEF TakeTestNow, RunTest
  <2> QED
    BY <1>4, <2>1, <2>2, <2>3, <2>4, <2>5 DEF SpeechStep
<1>5. CASE AnswerStep
  <2>1. CASE Updated
    BY <2>1 DEF Updated
  <2>2. CASE Ignored
    BY <2>2 DEF Ignored
  <2>3. CASE ListenFails
    BY <2>3 DEF ListenFails
  <2>4. ASSUME NEW error \in BOOLEAN, Complaint(error) PROVE TInv'
    BY <2>4 DEF Complaint
  <2> QED
    BY <1>5, <2>1, <2>2, <2>3, <2>4 DEF AnswerStep
<1>6. CASE TimerStep
  <2>1. CASE WindowCloses
    BY <2>1 DEF WindowCloses
  <2>2. CASE ReloadFires
    BY <2>2 DEF ReloadFires
  <2>3. CASE reload_backstop_cb
    BY <2>3 DEF reload_backstop_cb
  <2>4. CASE test_backstop_cb
    BY <2>4 DEF test_backstop_cb
  <2>5. CASE UpdateFires
    BY <2>5 DEF UpdateFires
  <2>6. CASE update_backstop_cb
    BY <2>6 DEF update_backstop_cb
  <2> QED
    BY <1>6, <2>1, <2>2, <2>3, <2>4, <2>5, <2>6 DEF TimerStep
<1>7. CASE SenderStep
  BY <1>7 DEF SenderStep, Claim, Decide, Send, Sent, Move
<1>8. CASE UNCHANGED vars
  BY <1>8 DEF vars
<1> QED
  BY <1>1, <1>2, <1>3, <1>4, <1>5, <1>6, <1>7, <1>8 DEF Next

(* A display test asked for is never dropped, whatever ends the session:   *)
(* until it is run its flag is up and test_backstop_cb() is armed.         *)
THEOREM TestSurvives == Spec => []TestIsNotStranded
<1>1. TInv => TestIsNotStranded
  BY DEF TInv
<1> QED
  BY TInit, TStep, <1>1, PTL DEF Spec

-----------------------------------------------------------------------------
(* Updates are sent and armed by handlers of a live session only.          *)
OInv == HandshakeOwesNothing

(* At first nothing is owed.                                               *)
LEMMA OInit == Init => OInv
  BY DEF Init, OInv, HandshakeOwesNothing

(* With IInv: no handler of the last connection is left to send an update  *)
(* while the next one is set up.                                           *)
LEMMA OStep == IInv /\ OInv /\ [Next]_vars => OInv'
<1> SUFFICES ASSUME IInv, OInv, [Next]_vars PROVE OInv'
  OBVIOUS
<1> USE DEF OInv, HandshakeOwesNothing, voice, updates
<1>1. CASE WorkerStep
  <2>1. CASE Start
    BY <2>1 DEF Start
  <2>2. CASE StopBegins
    BY <2>2 DEF StopBegins
  <2>3. CASE Quiesced
    BY <2>3 DEF Quiesced
  <2>4. CASE Halted
    BY <2>4 DEF Halted
  <2>5. CASE ClearDeferred
    BY <2>5 DEF ClearDeferred
  <2> QED
    BY <1>1, <2>1, <2>2, <2>3, <2>4, <2>5 DEF WorkerStep
<1>2. CASE SocketStep
  <2>1. CASE Connected
    BY <2>1 DEF Connected, updates_clear
  <2>2. CASE SettingsApplied
    BY <2>2 DEF SettingsApplied, Hears
  <2>3. CASE Gone
    BY <2>3 DEF Gone
  <2>4. CASE DropReload
    BY <2>4 DEF DropReload
  <2>5. CASE Disconnected
    BY <2>5 DEF Disconnected
  <2> QED
    BY <1>2, <2>1, <2>2, <2>3, <2>4, <2>5 DEF SocketStep
<1>3. CASE CallStep
  <2>1. ASSUME NEW l \in Languages, SetVoice(l) PROVE OInv'
    BY <2>1 DEF SetVoice, Hears
  <2>2. CASE SendSpeakAndPrompt
    <3>1. link = "live"
      BY <2>2, Heads DEF SendSpeakAndPrompt, WsDoes, IInv, HandlerOfSession,
                         AfterGone
    <3> QED
      BY <2>2, <3>1 DEF SendSpeakAndPrompt
  <2>3. CASE Adopt
    BY <2>3 DEF Adopt
  <2>4. CASE ArmListen
    <3>1. link = "live"
      BY <2>4, Heads DEF ArmListen, WsDoes, IInv, HandlerOfSession, AfterGone
    <3> QED
      BY <2>4, <3>1 DEF ArmListen
  <2>5. CASE Forget
    BY <2>5 DEF Forget
  <2>6. CASE StartDisplayTest
    BY <2>6 DEF StartDisplayTest
  <2> QED
    BY <1>3, <2>1, <2>2, <2>3, <2>4, <2>5, <2>6 DEF CallStep
<1>4. CASE SpeechStep
  <2>1. CASE AgentSpeaks
    BY <2>1 DEF AgentSpeaks, Hears
  <2>2. CASE AudioDone
    BY <2>2 DEF AudioDone
  <2>3. CASE listen_due_send
    <3>1. link = "live"
      BY <2>3, Heads DEF listen_due_send, WsDoes, IInv, HandlerOfSession,
                         AfterGone
    <3> QED
      BY <2>3, <3>1 DEF listen_due_send
  <2>4. CASE TakeReloadNow
    BY <2>4 DEF TakeReloadNow
  <2>5. CASE TakeTestNow
    BY <2>5 DEF TakeTestNow
  <2> QED
    BY <1>4, <2>1, <2>2, <2>3, <2>4, <2>5 DEF SpeechStep
<1>5. CASE AnswerStep
  <2>1. CASE Updated
    BY <2>1 DEF Updated, Hears
  <2>2. CASE Ignored
    BY <2>2 DEF Ignored
  <2>3. CASE ListenFails
    BY <2>3 DEF ListenFails, Complain, updates_clear
  <2>4. ASSUME NEW error \in BOOLEAN, Complaint(error) PROVE OInv'
    BY <2>4 DEF Complaint, Complain, updates_clear
  <2> QED
    BY <1>5, <2>1, <2>2, <2>3, <2>4 DEF AnswerStep
<1>6. CASE TimerStep
  <2>1. CASE WindowCloses
    BY <2>1 DEF WindowCloses
  <2>2. CASE ReloadFires
    BY <2>2 DEF ReloadFires
  <2>3. CASE reload_backstop_cb
    BY <2>3 DEF reload_backstop_cb
  <2>4. CASE test_backstop_cb
    BY <2>4 DEF test_backstop_cb
  <2>5. CASE UpdateFires
    BY <2>5 DEF UpdateFires, updates_clear
  <2>6. CASE update_backstop_cb
    BY <2>6 DEF update_backstop_cb
  <2> QED
    BY <1>6, <2>1, <2>2, <2>3, <2>4, <2>5, <2>6 DEF TimerStep
<1>7. CASE SenderStep
  BY <1>7 DEF SenderStep, Claim, Decide, Send, Sent, Move
<1>8. CASE UNCHANGED vars
  BY <1>8 DEF vars
<1> QED
  BY <1>1, <1>2, <1>3, <1>4, <1>5, <1>6, <1>7, <1>8 DEF Next

(* The refusal of a new session is never taken for an old update's:        *)
(* send_settings() clears what was owed and nothing is owed before ready.  *)
THEOREM HandshakeIsItsOwn == Spec => []HandshakeOwesNothing
<1>1. OInv => HandshakeOwesNothing
  BY DEF OInv
<1> QED
  BY IInit, IStep, OInit, OStep, <1>1, PTL DEF Spec
-----------------------------------------------------------------------------
(***************************************************************************)
(* The voice in force.  Either what opens the session again is on its way, *)
(* or nothing the server still owes is forgotten: each update on the wire  *)
(* is counted and the backstop armed, and the last listen message of them  *)
(* is right, or was dropped unanswered, or is still to be sent.            *)
(***************************************************************************)
ToReopen == \/ asked \/ timers = "owed"
            \/ reload.flag /\ (reload.timer \/ timers = "reload")

ToArm == {<<"speak", "adopt", "arm">>, <<"adopt", "arm">>, <<"arm">>}

SessionSteps ==
    ToArm \union
    {<< >>, <<"speak", "adopt">>, <<"adopt">>,
     <<"listen", "take_reload", "take_test">>,
     <<"take_reload", "take_test">>, <<"take_test">>}

AllowedNow == {saved, Multi}

(* The server, listening with now, will listen with an allowed language    *)
(* once it has taken the messages.                                         *)
EndsRight(messages, now, allowed) ==
    \/ \E i \in DOMAIN messages :
           /\ messages[i] # Prompt /\ messages[i] \in allowed
           /\ \A j \in DOMAIN messages : j > i => messages[j] = Prompt
    \/ now \in allowed /\ \A j \in DOMAIN messages : messages[j] = Prompt

UpdatesTyped ==
    /\ wire \in Seq(Listening \union {Prompt}) /\ owed \in Nat
    /\ saved \in Languages

SessionShaped ==
    /\ worker = "clear" => link = "down"
    /\ link = "live" => ws \in SessionSteps

OpensRight == link = "open" => wire = << >> /\ heard \in AllowedNow

Accounted ==
    /\ Len(wire) <= owed
    /\ owed > 0 \/ due # "none" => backstop
    /\ \/ ws \in ToArm \/ due # "none" \/ owed > Len(wire)
       \/ EndsRight(wire, heard, AllowedNow)

InForce == link = "live" /\ ready /\ ~ToReopen => Accounted

VoiceInv == UpdatesTyped /\ SessionShaped /\ OpensRight /\ InForce

(* One more prompt changes nothing of what the server will listen with.    *)
LEMMA PromptEndsRight ==
    ASSUME NEW S, NEW messages \in Seq(S), NEW now, NEW allowed,
           EndsRight(messages, now, allowed)
    PROVE  EndsRight(Append(messages, Prompt), now, allowed)
<1> DEFINE more == Append(messages, Prompt)
<1>1. /\ DOMAIN more = 1 .. Len(messages) + 1
      /\ DOMAIN messages = 1 .. Len(messages) /\ Len(messages) \in Nat
      /\ \A i \in 1 .. Len(messages) : more[i] = messages[i]
      /\ more[Len(messages) + 1] = Prompt
  OBVIOUS
<1> HIDE DEF more
<1>2. \A j \in DOMAIN more : j \in DOMAIN messages \/ more[j] = Prompt
  BY <1>1
<1>3. CASE \E i \in DOMAIN messages :
               /\ messages[i] # Prompt /\ messages[i] \in allowed
               /\ \A j \in DOMAIN messages : j > i => messages[j] = Prompt
  <2> PICK i \in DOMAIN messages :
              /\ messages[i] # Prompt /\ messages[i] \in allowed
              /\ \A j \in DOMAIN messages : j > i => messages[j] = Prompt
    BY <1>3
  <2>1. i \in DOMAIN more /\ more[i] = messages[i]
    BY <1>1
  <2>2. \A j \in DOMAIN more : j > i => more[j] = Prompt
    BY <1>1, <1>2
  <2> QED
    BY <2>1, <2>2 DEF EndsRight, more
<1>4. CASE now \in allowed /\ \A j \in DOMAIN messages : messages[j] = Prompt
  <2>1. \A j \in DOMAIN more : more[j] = Prompt
    BY <1>1, <1>2, <1>4
  <2> QED
    BY <1>4, <2>1 DEF EndsRight, more
<1> QED
  BY <1>3, <1>4 DEF EndsRight

(* A listen message with an allowed language, sent last, decides it.       *)
LEMMA ListenEndsRight ==
    ASSUME NEW S, NEW messages \in Seq(S), NEW now, NEW allowed,
           NEW final \in allowed, final # Prompt
    PROVE  EndsRight(Append(messages, final), now, allowed)
<1> DEFINE more == Append(messages, final)
           n == Len(messages) + 1
<1>1. DOMAIN more = 1 .. n /\ n \in 1 .. n /\ more[n] = final
  OBVIOUS
<1> HIDE DEF more
<1>2. \A j \in DOMAIN more : j > n => more[j] = Prompt
  BY <1>1
<1> QED
  BY <1>1, <1>2 DEF EndsRight, more

(* Taking the first message leaves the outcome as it was.                  *)
LEMMA TakingKeepsRight ==
    ASSUME NEW S, NEW messages \in Seq(S), messages # << >>,
           NEW now, NEW next, NEW allowed,
           EndsRight(messages, now, allowed),
           next = IF Head(messages) = Prompt THEN now ELSE Head(messages)
    PROVE  EndsRight(Tail(messages), next, allowed)
<1> DEFINE rest == Tail(messages)
<1>1. /\ DOMAIN messages = 1 .. Len(messages) /\ Len(messages) \in Nat
      /\ Len(messages) >= 1 /\ Head(messages) = messages[1]
      /\ DOMAIN rest = 1 .. Len(messages) - 1
      /\ \A i \in 1 .. Len(messages) - 1 : rest[i] = messages[i + 1]
  OBVIOUS
<1> HIDE DEF rest
<1>2. CASE \E i \in DOMAIN messages :
               /\ messages[i] # Prompt /\ messages[i] \in allowed
               /\ \A j \in DOMAIN messages : j > i => messages[j] = Prompt
  <2> PICK i \in DOMAIN messages :
              /\ messages[i] # Prompt /\ messages[i] \in allowed
              /\ \A j \in DOMAIN messages : j > i => messages[j] = Prompt
    BY <1>2
  <2>1. CASE i = 1
    <3>1. next \in allowed
      BY <1>1, <2>1
    <3>2. \A j \in DOMAIN rest : rest[j] = Prompt
      <4> TAKE j \in DOMAIN rest
      <4>1. j + 1 \in DOMAIN messages /\ j + 1 > i /\ rest[j] = messages[j + 1]
        BY <1>1, <2>1
      <4> QED
        BY <4>1
    <3> QED
      BY <3>1, <3>2 DEF EndsRight, rest
  <2>2. CASE i # 1
    <3>1. i - 1 \in DOMAIN rest /\ rest[i - 1] = messages[i]
      BY <1>1, <2>2
    <3>2. \A j \in DOMAIN rest : j > i - 1 => rest[j] = Prompt
      <4> TAKE j \in DOMAIN rest
      <4> HAVE j > i - 1
      <4>1. j + 1 \in DOMAIN messages /\ j + 1 > i /\ rest[j] = messages[j + 1]
        BY <1>1
      <4> QED
        BY <4>1
    <3> QED
      BY <3>1, <3>2 DEF EndsRight, rest
  <2> QED
    BY <2>1, <2>2
<1>3. CASE now \in allowed /\ \A j \in DOMAIN messages : messages[j] = Prompt
  <2>1. next \in allowed
    BY <1>1, <1>3
  <2>2. \A j \in DOMAIN rest : rest[j] = Prompt
    <3> TAKE j \in DOMAIN rest
    <3>1. j + 1 \in DOMAIN messages /\ rest[j] = messages[j + 1]
      BY <1>1
    <3> QED
      BY <1>3, <3>1
  <2> QED
    BY <2>1, <2>2 DEF EndsRight, rest
<1> QED
  BY <1>2, <1>3 DEF EndsRight

(* What is left of a live session's handler, step by step.                 *)
LEMMA SessionHeads ==
    \A steps \in SessionSteps : steps # << >> =>
        /\ Head(steps) \notin {"drop_reload", "disconnected"}
        /\ Tail(steps) \in SessionSteps
        /\ steps \in ToArm => Head(steps) \in {"speak", "adopt", "arm"}
        /\ steps \in ToArm /\ Head(steps) # "arm" => Tail(steps) \in ToArm
<1> SUFFICES ASSUME NEW steps \in SessionSteps, steps # << >>
             PROVE  /\ Head(steps) \notin {"drop_reload", "disconnected"}
                    /\ Tail(steps) \in SessionSteps
                    /\ steps \in ToArm =>
                           Head(steps) \in {"speak", "adopt", "arm"}
                    /\ steps \in ToArm /\ Head(steps) # "arm" =>
                           Tail(steps) \in ToArm
  OBVIOUS
<1>1. CASE steps = <<"speak", "adopt", "arm">>
  BY <1>1 DEF SessionSteps, ToArm
<1>2. CASE steps = <<"adopt", "arm">>
  BY <1>2 DEF SessionSteps, ToArm
<1>3. CASE steps = <<"arm">>
  BY <1>3 DEF SessionSteps, ToArm
<1>4. CASE steps = <<"speak", "adopt">>
  BY <1>4 DEF SessionSteps, ToArm
<1>5. CASE steps = <<"adopt">>
  BY <1>5 DEF SessionSteps, ToArm
<1>6. CASE steps = <<"listen", "take_reload", "take_test">>
  BY <1>6 DEF SessionSteps, ToArm
<1>7. CASE steps = <<"take_reload", "take_test">>
  BY <1>7 DEF SessionSteps, ToArm
<1>8. CASE steps = <<"take_test">>
  BY <1>8 DEF SessionSteps, ToArm
<1> QED
  BY <1>1, <1>2, <1>3, <1>4, <1>5, <1>6, <1>7, <1>8 DEF SessionSteps, ToArm

(* After a socket is gone no step of a live session is left.               *)
LEMMA GoneHeads ==
    \A steps \in AfterGone : steps # << >> =>
        Head(steps) \in {"drop_reload", "disconnected"}
  BY DEF AfterGone

(* The arming steps are steps of a live session, and not the empty ones.   *)
LEMMA ArmShape ==
    /\ << >> \in SessionSteps /\ << >> \notin ToArm
    /\ <<"speak", "adopt", "arm">> \in ToArm
    /\ ToArm \subseteq SessionSteps
    /\ <<"speak", "adopt">> \in SessionSteps
    /\ <<"listen", "take_reload", "take_test">> \in SessionSteps
  BY DEF SessionSteps, ToArm

(* A voice's provider is allowed, and is no prompt.                        *)
LEMMA ProviderAllowed ==
    UpdatesTyped => /\ Provider(saved) \in AllowedNow
                    /\ Provider(saved) # Prompt
                    /\ Provider(saved) \in Listening \union {Prompt}
  BY AgentAssumption
     DEF UpdatesTyped, Provider, AllowedNow, Listening, Multi, Prompt

(* At first there is no session.                                           *)
LEMMA VoiceStarts == Init => VoiceInv
  BY DEF Init, VoiceInv, UpdatesTyped, SessionShaped, OpensRight, InForce

(* A session is cleared up once it is down, and only a live one has steps  *)
(* of its messages left.                                                   *)
LEMMA ShapeKeeps ==
    ASSUME IInv, SessionShaped, [Next]_vars
    PROVE  SessionShaped'
<1> USE DEF SessionShaped, stopping
<1> USE ArmShape
<1>0. ws # << >> => Tail(ws) \in SessionSteps \/ link # "live"
  BY SessionHeads
<1>1. CASE WorkerStep
  BY <1>1 DEF WorkerStep, Start, StopBegins, Quiesced, Halted, ClearDeferred
<1>2. CASE SocketStep
  BY <1>0, <1>2 DEF SocketStep, Connected, SettingsApplied, Gone, DropReload,
     Disconnected, Hears, Listens, WsIdle, WsDoes, Handled
<1>3. CASE CallStep
  BY <1>0, <1>3 DEF CallStep, SetVoice, SendSpeakAndPrompt, Adopt, ArmListen,
     Forget, StartDisplayTest, Hears, WsIdle, WsDoes, Handled
<1>4. CASE SpeechStep
  BY <1>0, <1>4 DEF SpeechStep, AgentSpeaks, AudioDone, listen_due_send,
     TakeReloadNow, TakeTestNow, Hears, WsIdle, WsDoes, Handled
<1>5. CASE AnswerStep
  BY <1>5 DEF AnswerStep, Updated, Ignored, ListenFails, Complaint
<1>6. CASE TimerStep
  BY <1>6 DEF TimerStep, WindowCloses, ReloadFires, reload_backstop_cb,
     test_backstop_cb, UpdateFires, update_backstop_cb
<1>7. CASE SenderStep
  BY <1>7 DEF SenderStep, Claim, Decide, Send, Sent, Move
<1>8. CASE UNCHANGED vars
  BY <1>8 DEF vars
<1> QED
  BY <1>1, <1>2, <1>3, <1>4, <1>5, <1>6, <1>7, <1>8 DEF Next

(* A step that leaves the updates, the voice and the arming alone keeps    *)
(* the voice in force, if it makes nothing live and takes no reopening     *)
(* back from a session that stays.                                         *)
LEMMA LeavesVoice ==
    ASSUME VoiceInv, SessionShaped',
           wire' = wire, owed' = owed, due' = due, backstop' = backstop,
           saved' = saved, heard' = heard,
           link' \in {"open", "live"} => link' = link,
           link' = "live" /\ ready' => ready,
           link' = "live" /\ ready' /\ ToReopen => ToReopen',
           link' = "live" /\ ws \in ToArm => ws' \in ToArm
    PROVE  VoiceInv'
<1> USE DEF VoiceInv, UpdatesTyped, OpensRight, AllowedNow
<1>1. UpdatesTyped' /\ OpensRight'
  OBVIOUS
<1>2. ASSUME link' = "live", ready', ~ToReopen' PROVE Accounted'
  <2>1. link = "live" /\ ready /\ ~ToReopen
    BY <1>2
  <2>2. Accounted /\ (ws \in ToArm => ws' \in ToArm)
    BY <1>2, <2>1 DEF InForce
  <2> QED
    BY <2>2 DEF Accounted
<1> QED
  BY <1>1, <1>2 DEF InForce

(* A reload puts everything right.                                         *)
LEMMA ReloadSettles ==
    ASSUME VoiceInv, SessionShaped', UpdatesTyped', OpensRight', ToReopen'
    PROVE  VoiceInv'
  BY DEF VoiceInv, InForce

(* What a session's updates come to: counted, covered and ending right.    *)
LEMMA StepKeepsVoice ==
    ASSUME IInv, OInv, VoiceInv, [Next]_vars
    PROVE  VoiceInv'
<1> USE DEF stopping, deferred, voice, updates
<1>0. SessionShaped'
  BY ShapeKeeps DEF VoiceInv
<1>a. /\ link = "live" => ws \in SessionSteps
      /\ link # "live" => ws \in AfterGone
      /\ worker = "clear" => link = "down"
  BY DEF IInv, HandlerOfSession, VoiceInv, SessionShaped
<1>b. ws # << >> => /\ link # "live" =>
                            Head(ws) \in {"drop_reload", "disconnected"}
                    /\ link = "live" =>
                            Head(ws) \notin {"drop_reload", "disconnected"}
  BY <1>a, GoneHeads, SessionHeads
<1>c. ws # << >> /\ ws \in ToArm =>
          /\ Head(ws) \in {"speak", "adopt", "arm"}
          /\ Head(ws) # "arm" => Tail(ws) \in ToArm
  BY ArmShape, SessionHeads
<1>d. << >> \notin ToArm
  BY ArmShape
<1> HIDE DEF SessionSteps
<1>1. CASE WorkerStep
  <2>1. CASE Start
    BY <2>1, <1>0, LeavesVoice DEF Start
  <2>2. CASE StopBegins
    BY <2>2, <1>0, LeavesVoice DEF StopBegins
  <2>3. CASE Quiesced
    BY <2>3, <1>0, LeavesVoice DEF Quiesced, ToReopen
  <2>4. CASE Halted
    <3>1. wire' = << >> /\ link' = "down" /\ owed' = owed /\ saved' = saved
      BY <2>4 DEF Halted
    <3> QED
      BY <1>0, <3>1 DEF VoiceInv, UpdatesTyped, OpensRight, InForce
  <2>5. CASE ClearDeferred
    BY <2>5, <1>0, <1>a, LeavesVoice DEF ClearDeferred
  <2> QED
    BY <1>1, <2>1, <2>2, <2>3, <2>4, <2>5 DEF WorkerStep
<1>2. CASE SocketStep
  <2>1. CASE Connected
    <3>1. /\ link' = "open" /\ wire' = << >> /\ owed' = 0 /\ saved' = saved
          /\ heard' = Provider(saved)
      BY <2>1 DEF Connected, updates_clear
    <3>2. Provider(saved) \in AllowedNow /\ AllowedNow' = AllowedNow
      BY <3>1, ProviderAllowed DEF VoiceInv, AllowedNow
    <3> QED
      BY <1>0, <3>1, <3>2 DEF VoiceInv, UpdatesTyped, OpensRight, InForce
  <2>2. CASE SettingsApplied
    <3>1. /\ link = "open" /\ link' = "live" /\ wire' = wire /\ owed' = owed
          /\ due' = due /\ saved' = saved /\ heard' = heard
      BY <2>2 DEF SettingsApplied, Hears
    <3>2. /\ wire = << >> /\ heard \in AllowedNow /\ owed = 0
          /\ due = "none" /\ AllowedNow' = AllowedNow
      BY <3>1 DEF VoiceInv, OpensRight, OInv, HandshakeOwesNothing,
         AllowedNow
    <3>3. EndsRight(<< >>, heard, AllowedNow)
      BY <3>2 DEF EndsRight
    <3>4. Accounted'
      BY <3>1, <3>2, <3>3 DEF Accounted
    <3> QED
      BY <1>0, <3>1, <3>4 DEF VoiceInv, UpdatesTyped, OpensRight, InForce
  <2>3. CASE Gone
    <3>1. /\ link' = "opening" /\ wire' = << >> /\ owed' = owed
          /\ saved' = saved
      BY <2>3 DEF Gone
    <3> QED
      BY <1>0, <3>1 DEF VoiceInv, UpdatesTyped, OpensRight, InForce
  <2>4. CASE DropReload
    BY <2>4, <1>0, <1>b, LeavesVoice DEF DropReload, WsDoes
  <2>5. CASE Disconnected
    <3>1. ~ready'
      BY <2>5 DEF Disconnected, set_state
    <3> QED
      BY <2>5, <1>0, <1>b, <3>1, LeavesVoice DEF Disconnected, WsDoes
  <2> QED
    BY <1>2, <2>1, <2>2, <2>3, <2>4, <2>5 DEF SocketStep
<1>3. CASE CallStep
  <2>1. ASSUME NEW l \in Languages, SetVoice(l) PROVE VoiceInv'
    <3>1. /\ link = "live" /\ ws = << >> /\ link' = link /\ ready' = ready
          /\ saved' = l /\ wire' = wire /\ heard' = heard /\ asked' = asked
          /\ timers' = timers
      BY <2>1 DEF SetVoice, Hears, WsIdle
    <3>2. CASE updates_clear /\ schedule_reload("message")
      <4>1. owed' = 0 /\ reload'.flag /\ reload'.timer
        BY <3>2 DEF updates_clear, schedule_reload
      <4>2. UpdatesTyped' /\ OpensRight' /\ ToReopen'
        BY <3>1, <4>1 DEF VoiceInv, UpdatesTyped, OpensRight, ToReopen
      <4> QED
        BY <1>0, <4>2, ReloadSettles
    <3>3. CASE /\ ws' = IF l = saved THEN <<"speak", "adopt">>
                                     ELSE <<"speak", "adopt", "arm">>
               /\ owed' = owed /\ due' = due /\ backstop' = backstop
               /\ reload' = reload
      <4>1. CASE l = saved
        BY <1>0, <1>d, <3>1, <3>3, <4>1, LeavesVoice DEF ToReopen
      <4>2. CASE l # saved
        <5>1. ws' \in ToArm
          BY <3>3, <4>2, ArmShape
        <5>2. UpdatesTyped' /\ OpensRight'
          BY <3>1, <3>3 DEF VoiceInv, UpdatesTyped, OpensRight
        <5>3. InForce'
          BY <3>1, <3>3, <5>1
             DEF VoiceInv, InForce, Accounted, ToReopen
        <5> QED
          BY <1>0, <5>2, <5>3 DEF VoiceInv
      <4> QED
        BY <4>1, <4>2
    <3> QED
      BY <2>1, <3>2, <3>3 DEF SetVoice
  <2>2. CASE SendSpeakAndPrompt
    <3>1. /\ ws # << >> /\ Head(ws) = "speak" /\ link' = link
          /\ ready' = ready /\ saved' = saved /\ heard' = heard
          /\ asked' = asked /\ timers' = timers
      BY <2>2 DEF SendSpeakAndPrompt, WsDoes
    <3>2. link # "open"
      BY <1>b, <3>1
    <3>3. CASE updates_clear /\ schedule_reload("message") /\ wire' = wire
      <4>1. owed' = 0 /\ reload'.flag /\ reload'.timer
        BY <3>3 DEF updates_clear, schedule_reload
      <4>2. UpdatesTyped' /\ OpensRight' /\ ToReopen'
        BY <3>1, <3>2, <3>3, <4>1
           DEF VoiceInv, UpdatesTyped, OpensRight, ToReopen
      <4> QED
        BY <1>0, <4>2, ReloadSettles
    <3>4. CASE /\ ws' = Tail(ws) /\ send_update(Prompt) /\ due' = due
               /\ reload' = reload
      <4>1. /\ wire' = Append(wire, Prompt) /\ owed' = owed + 1
            /\ backstop'
        BY <3>4 DEF send_update
      <4>2. wire \in Seq(Listening \union {Prompt}) /\ owed \in Nat
        BY DEF VoiceInv, UpdatesTyped
      <4>3. /\ wire' \in Seq(Listening \union {Prompt}) /\ owed' \in Nat
            /\ Len(wire') = Len(wire) + 1 /\ Len(wire) \in Nat
        BY <4>1, <4>2
      <4>4. UpdatesTyped' /\ OpensRight' /\ AllowedNow' = AllowedNow
        BY <3>1, <3>2, <4>3 DEF VoiceInv, UpdatesTyped, OpensRight, AllowedNow
      <4>5. ASSUME link' = "live", ready', ~ToReopen' PROVE Accounted'
        <5>1. Accounted
          BY <3>1, <3>4, <4>5 DEF VoiceInv, InForce, ToReopen
        <5>2. Len(wire') <= owed' /\ (owed > Len(wire) => owed' > Len(wire'))
          BY <4>1, <4>2, <4>3, <5>1 DEF Accounted
        <5>3. EndsRight(wire, heard, AllowedNow) =>
                  EndsRight(wire', heard', AllowedNow')
          BY <3>1, <4>1, <4>2, <4>4, PromptEndsRight
        <5>4. ws \in ToArm => ws' \in ToArm
          BY <1>c, <3>1, <3>4
        <5> QED
          BY <3>4, <4>1, <5>1, <5>2, <5>3, <5>4 DEF Accounted
      <4> QED
        BY <1>0, <4>4, <4>5 DEF VoiceInv, InForce
    <3> QED
      BY <2>2, <3>3, <3>4 DEF SendSpeakAndPrompt, Handled
  <2>3. CASE Adopt
    BY <2>3, <1>0, <1>c, LeavesVoice DEF Adopt, WsDoes, Handled, ToReopen
  <2>4. CASE ArmListen
    <3>1. /\ ws # << >> /\ Head(ws) = "arm" /\ link' = link
          /\ ready' = ready /\ saved' = saved /\ heard' = heard
          /\ wire' = wire /\ owed' = owed /\ due' = "armed"
          /\ asked' = asked /\ timers' = timers /\ reload' = reload
      BY <2>4 DEF ArmListen, WsDoes
    <3>2. backstop'
      BY <2>4 DEF ArmListen
    <3>3. UpdatesTyped' /\ OpensRight'
      BY <3>1 DEF VoiceInv, UpdatesTyped, OpensRight, AllowedNow
    <3>4. InForce'
      BY <3>1, <3>2 DEF VoiceInv, InForce, Accounted, ToReopen
    <3> QED
      BY <1>0, <3>3, <3>4 DEF VoiceInv
  <2>5. CASE Forget
    <3>1. reload'.flag /\ reload'.timer
      BY <2>5 DEF Forget, schedule_reload
    <3>2. UpdatesTyped' /\ OpensRight' /\ ToReopen'
      BY <2>5, <3>1 DEF Forget, VoiceInv, UpdatesTyped, OpensRight,
         AllowedNow, ToReopen
    <3> QED
      BY <1>0, <3>2, ReloadSettles
  <2>6. CASE StartDisplayTest
    BY <2>6, <1>0, LeavesVoice DEF StartDisplayTest, ToReopen
  <2> QED
    BY <1>3, <2>1, <2>2, <2>3, <2>4, <2>5, <2>6 DEF CallStep
<1>4. CASE SpeechStep
  <2>1. CASE AgentSpeaks
    <3>1. /\ link' = link /\ ready' = ready /\ saved' = saved
          /\ heard' = heard /\ wire' = wire /\ owed' = owed
          /\ due = "armed" /\ due' = "spoken"
          /\ asked' = asked /\ timers' = timers /\ reload' = reload
      BY <2>1 DEF AgentSpeaks
    <3>2. backstop' = backstop
      BY <2>1 DEF AgentSpeaks
    <3>3. UpdatesTyped' /\ OpensRight'
      BY <3>1 DEF VoiceInv, UpdatesTyped, OpensRight, AllowedNow
    <3>4. InForce'
      BY <3>1, <3>2 DEF VoiceInv, InForce, Accounted, ToReopen
    <3> QED
      BY <1>0, <3>3, <3>4 DEF VoiceInv
  <2>2. CASE AudioDone
    BY <2>2, <1>0, <1>d, LeavesVoice DEF AudioDone, Hears, WsIdle, ToReopen
  <2>3. CASE listen_due_send
    <3>1. /\ ws # << >> /\ Head(ws) = "listen" /\ link' = link
          /\ ready' = ready /\ saved' = saved /\ heard' = heard
          /\ asked' = asked /\ timers' = timers
      BY <2>3 DEF listen_due_send, WsDoes
    <3>2. link # "open" /\ ws \notin ToArm
      BY <1>b, <1>c, <3>1
    <3>3. CASE updates_clear /\ schedule_reload("message") /\ wire' = wire
      <4>1. owed' = 0 /\ reload'.flag /\ reload'.timer
        BY <3>3 DEF updates_clear, schedule_reload
      <4>2. UpdatesTyped' /\ OpensRight' /\ ToReopen'
        BY <3>1, <3>2, <3>3, <4>1
           DEF VoiceInv, UpdatesTyped, OpensRight, ToReopen
      <4> QED
        BY <1>0, <4>2, ReloadSettles
    <3>4. CASE send_update(Provider(saved)) /\ reload' = reload
      <4>1. /\ wire' = Append(wire, Provider(saved)) /\ owed' = owed + 1
            /\ backstop'
        BY <3>4 DEF send_update
      <4>2. /\ Provider(saved) \in AllowedNow /\ Provider(saved) # Prompt
            /\ Provider(saved) \in Listening \union {Prompt}
            /\ wire \in Seq(Listening \union {Prompt}) /\ owed \in Nat
        BY ProviderAllowed DEF VoiceInv, UpdatesTyped
      <4>3. /\ wire' \in Seq(Listening \union {Prompt}) /\ owed' \in Nat
            /\ Len(wire') = Len(wire) + 1 /\ Len(wire) \in Nat
        BY <4>1, <4>2
      <4>4. UpdatesTyped' /\ OpensRight' /\ AllowedNow' = AllowedNow
        BY <3>1, <3>2, <4>3 DEF VoiceInv, UpdatesTyped, OpensRight, AllowedNow
      <4>5. ASSUME link' = "live", ready', ~ToReopen' PROVE Accounted'
        <5>1. Accounted
          BY <3>1, <3>4, <4>5 DEF VoiceInv, InForce, ToReopen
        <5>2. Len(wire') <= owed'
          BY <4>1, <4>2, <4>3, <5>1 DEF Accounted
        <5>3. EndsRight(wire', heard', AllowedNow')
          BY <4>1, <4>2, <4>4, ListenEndsRight
        <5> QED
          BY <4>1, <5>2, <5>3 DEF Accounted
      <4> QED
        BY <1>0, <4>4, <4>5 DEF VoiceInv, InForce
    <3>5. CASE UNCHANGED <<wire, updates, fresh, reload>>
      BY <1>0, <3>1, <3>2, <3>5, LeavesVoice DEF ToReopen
    <3> QED
      BY <2>3, <3>3, <3>4, <3>5 DEF listen_due_send
  <2>4. CASE TakeReloadNow
    <3>1. ws \notin ToArm
      BY <2>4, <1>c DEF TakeReloadNow, WsDoes
    <3>2. ToReopen => ToReopen'
      BY <2>4 DEF TakeReloadNow, TakeReload, ToReopen
    <3> QED
      BY <2>4, <1>0, <3>1, <3>2, LeavesVoice DEF TakeReloadNow
  <2>5. CASE TakeTestNow
    <3>1. ws \notin ToArm
      BY <2>5, <1>c DEF TakeTestNow, WsDoes
    <3> QED
      BY <2>5, <1>0, <3>1, LeavesVoice DEF TakeTestNow, ToReopen
  <2> QED
    BY <1>4, <2>1, <2>2, <2>3, <2>4, <2>5 DEF SpeechStep
<1>5. CASE AnswerStep
  <2>a. wire \in Seq(Listening \union {Prompt}) /\ owed \in Nat
    BY DEF VoiceInv, UpdatesTyped
  <2>b. wire # << >> => /\ Tail(wire) \in Seq(Listening \union {Prompt})
                        /\ Len(Tail(wire)) = Len(wire) - 1
                        /\ Len(wire) \in Nat /\ Len(wire) >= 1
    BY <2>a
  <2>1. CASE Updated
    <3>1. /\ link = "live" /\ wire # << >> /\ wire' = Tail(wire)
          /\ link' = link /\ ready' = ready /\ saved' = saved /\ ws' = ws
          /\ asked' = asked /\ timers' = timers /\ reload' = reload
          /\ due' = due
          /\ heard' = IF Head(wire) = Prompt THEN heard ELSE Head(wire)
          /\ owed' = IF owed > 0 THEN owed - 1 ELSE 0
      BY <2>1 DEF Updated, Hears, Takes, update_acked
    <3>2. backstop' = (backstop /\ ~(owed' = 0 /\ due = "none"))
      BY <2>1 DEF Updated, update_acked
    <3>3. UpdatesTyped' /\ OpensRight' /\ AllowedNow' = AllowedNow
      BY <2>a, <2>b, <3>1 DEF VoiceInv, UpdatesTyped, OpensRight, AllowedNow
    <3>4. ASSUME link' = "live", ready', ~ToReopen' PROVE Accounted'
      <4>1. Accounted
        BY <3>1, <3>4 DEF VoiceInv, InForce, ToReopen
      <4>2. /\ owed' = owed - 1 /\ Len(wire') <= owed'
            /\ owed > Len(wire) => owed' > Len(wire')
        BY <2>a, <2>b, <3>1, <4>1 DEF Accounted
      <4>3. EndsRight(wire, heard, AllowedNow) =>
                EndsRight(wire', heard', AllowedNow')
        BY <2>a, <3>1, <3>3, TakingKeepsRight
      <4>4. owed' > 0 \/ due' # "none" => backstop'
        <5> SUFFICES ASSUME owed' > 0 \/ due' # "none" PROVE backstop'
          OBVIOUS
        <5>1. ~(owed' = 0 /\ due = "none")
          BY <2>a, <3>1
        <5>2. owed > 0
          BY <2>a, <2>b, <3>1, <4>1 DEF Accounted
        <5>3. backstop
          BY <4>1, <5>2 DEF Accounted
        <5> QED
          BY <3>2, <5>1, <5>3
      <4> QED
        BY <3>1, <4>1, <4>2, <4>3, <4>4 DEF Accounted
    <3> QED
      BY <1>0, <3>3, <3>4 DEF VoiceInv, InForce
  <2>2. ASSUME wire # << >>, wire' = Tail(wire), UNCHANGED <<link, saved>>,
               UNCHANGED <<heard, updates, ws, asked, timers, reload>>,
               ready' => ready, link # "open"
        PROVE  VoiceInv'
    <3>1. UpdatesTyped' /\ OpensRight'
      BY <2>a, <2>b, <2>2 DEF VoiceInv, UpdatesTyped, OpensRight
    <3>2. ASSUME link' = "live", ready', ~ToReopen' PROVE Accounted'
      <4>1. Accounted
        BY <2>2, <3>2 DEF VoiceInv, InForce, ToReopen
      <4>2. owed' > Len(wire')
        BY <2>a, <2>b, <2>2, <4>1 DEF Accounted
      <4>3. Len(wire') <= owed'
        BY <2>a, <2>b, <2>2, <4>2
      <4> QED
        BY <2>2, <4>1, <4>2, <4>3 DEF Accounted
    <3> QED
      BY <1>0, <3>1, <3>2 DEF VoiceInv, InForce
  <2>3. CASE Ignored
    <3>1. ready' = ready
      BY <2>3 DEF Ignored
    <3> QED
      BY <2>2, <2>3, <3>1 DEF Ignored, Hears
  <2>4. ASSUME \/ wire' = wire
               \/ wire # << >> /\ wire' = Tail(wire),
               UNCHANGED <<link, saved, heard, ws, timers>>,
               \/ updates_clear /\ schedule_reload("message")
               \/ updates_clear /\ asked' = TRUE
               \/ UNCHANGED <<updates, reload, asked>> /\ (ready' => ready)
        PROVE  VoiceInv'
    <3>1. link = "open" => wire = << >>
      BY DEF VoiceInv, OpensRight
    <3>2. wire' \in Seq(Listening \union {Prompt})
      BY <2>4, <2>a, <2>b
    <3>3. ASSUME owed' = 0, ToReopen' PROVE VoiceInv'
      <4>1. UpdatesTyped' /\ OpensRight'
        BY <2>4, <3>1, <3>2, <3>3
           DEF VoiceInv, UpdatesTyped, OpensRight, AllowedNow
      <4> QED
        BY <1>0, <3>3, <4>1, ReloadSettles
    <3>4. CASE updates_clear /\ schedule_reload("message")
      <4>1. owed' = 0 /\ reload'.flag /\ reload'.timer
        BY <3>4 DEF updates_clear, schedule_reload
      <4> QED
        BY <3>3, <4>1 DEF ToReopen
    <3>5. CASE updates_clear /\ asked' = TRUE
      BY <3>3, <3>5 DEF updates_clear, ToReopen
    <3>6. CASE UNCHANGED <<updates, reload, asked>> /\ (ready' => ready)
      <4>1. CASE wire' = wire
        BY <1>0, <2>4, <3>6, <4>1, LeavesVoice DEF ToReopen
      <4>2. CASE wire # << >> /\ wire' = Tail(wire)
        BY <2>2, <2>4, <3>1, <3>6, <4>2
      <4> QED
        BY <2>4, <4>1, <4>2
    <3> QED
      BY <2>4, <3>4, <3>5, <3>6
  <2>5. CASE ListenFails
    <3>1. /\ UNCHANGED <<link, saved, heard, ws, timers>>
          /\ \/ wire' = wire
             \/ wire # << >> /\ wire' = Tail(wire)
      BY <2>5 DEF ListenFails
    <3>2. \/ updates_clear /\ asked' = TRUE
          \/ Complain(TRUE) /\ asked' = asked
      BY <2>5 DEF ListenFails
    <3>3. CASE Complain(TRUE) /\ asked' = asked
      <4>1. \/ updates_clear /\ schedule_reload("message")
            \/ UNCHANGED <<updates, reload>> /\ set_state("error")
        BY <3>3 DEF Complain
      <4>2. set_state("error") => ~ready'
        BY DEF set_state
      <4> QED
        BY <2>4, <3>1, <3>3, <4>1, <4>2
    <3> QED
      BY <2>4, <3>1, <3>2, <3>3
  <2>6. ASSUME NEW error \in BOOLEAN, Complaint(error) PROVE VoiceInv'
    <3>1. /\ UNCHANGED <<link, saved, heard, ws, timers, asked>>
          /\ \/ wire' = wire
             \/ wire # << >> /\ wire' = Tail(wire)
      BY <2>6 DEF Complaint
    <3>2. \/ updates_clear /\ schedule_reload("message")
          \/ /\ UNCHANGED <<updates, reload>>
             /\ (set_state("error") \/ UNCHANGED ready)
      BY <2>6 DEF Complaint, Complain
    <3>3. set_state("error") => ~ready'
      BY DEF set_state
    <3> QED
      BY <2>4, <3>1, <3>2, <3>3
  <2> QED
    BY <1>5, <2>1, <2>3, <2>5, <2>6 DEF AnswerStep
<1>6. CASE TimerStep
  <2>1. CASE WindowCloses
    BY <2>1, <1>0, LeavesVoice DEF WindowCloses, ToReopen
  <2>2. CASE ReloadFires
    <3>1. /\ UNCHANGED <<link, ready, ws, asked, saved, heard, wire>>
          /\ UNCHANGED updates /\ timers = "idle"
          /\ ready => timers' = "reload"
          /\ reload' = [reload EXCEPT !.timer = FALSE]
      BY <2>2 DEF ReloadFires
    <3>2. reload'.flag = reload.flag
      BY <3>1 DEF IInv, Reloads
    <3>3. ready' /\ ToReopen => ToReopen'
      BY <3>1, <3>2 DEF ToReopen
    <3> QED
      BY <1>0, <3>1, <3>3, LeavesVoice
  <2>3. CASE reload_backstop_cb
    <3>1. ToReopen => ToReopen'
      BY <2>3 DEF reload_backstop_cb, TakeReload, ToReopen
    <3> QED
      BY <2>3, <1>0, <3>1, LeavesVoice DEF reload_backstop_cb
  <2>4. CASE test_backstop_cb
    BY <2>4, <1>0, LeavesVoice DEF test_backstop_cb, ToReopen
  <2>5. CASE UpdateFires
    <3>1. /\ UNCHANGED <<link, ready, ws, asked, saved, heard, wire, reload>>
          /\ timers = "idle" /\ owed' = 0 /\ due' = "none"
          /\ timers' = IF owed > 0 \/ due # "none" THEN "owed" ELSE "idle"
      BY <2>5 DEF UpdateFires, updates_clear
    <3>2. UpdatesTyped' /\ OpensRight'
      BY <3>1 DEF VoiceInv, UpdatesTyped, OpensRight, AllowedNow
    <3>3. CASE owed > 0 \/ due # "none"
      BY <1>0, <3>1, <3>2, <3>3, ReloadSettles DEF ToReopen
    <3>4. CASE ~(owed > 0 \/ due # "none")
      <4>1. owed' = owed /\ due' = due
        BY <3>1, <3>4 DEF VoiceInv, UpdatesTyped
      <4>2. InForce'
        BY <3>1, <3>4, <4>1
           DEF VoiceInv, InForce, Accounted, ToReopen, AllowedNow
      <4> QED
        BY <1>0, <3>2, <4>2 DEF VoiceInv
    <3> QED
      BY <3>3, <3>4
  <2>6. CASE update_backstop_cb
    <3>1. UNCHANGED <<link, ready, ws, asked, saved, heard, wire>>
      BY <2>6 DEF update_backstop_cb
    <3>2. UNCHANGED updates
      BY <2>6 DEF update_backstop_cb
    <3>3. ready => reload'.flag /\ reload'.timer
      BY <2>6 DEF update_backstop_cb, schedule_reload
    <3>4. ready' => ToReopen'
      BY <3>1, <3>3 DEF ToReopen
    <3> QED
      BY <1>0, <3>1, <3>2, <3>4, LeavesVoice
  <2> QED
    BY <1>6, <2>1, <2>2, <2>3, <2>4, <2>5, <2>6 DEF TimerStep
<1>7. CASE SenderStep
  BY <1>7, <1>0, LeavesVoice
     DEF SenderStep, Claim, Decide, Send, Sent, Move, ToReopen
<1>8. CASE UNCHANGED vars
  BY <1>8, <1>0, LeavesVoice DEF vars, ToReopen
<1> QED
  BY <1>1, <1>2, <1>3, <1>4, <1>5, <1>6, <1>7, <1>8 DEF Next

(* A live session that does not listen for the voice in force is on its    *)
(* way out, or has a counted update with its backstop armed                *)
(* (send_update(), update_acked(), update_backstop_cb()).                  *)
THEOREM VoiceAlwaysSettles == Spec => []VoiceWillSettle
<1>1. VoiceInv => VoiceWillSettle
  <2> SUFFICES ASSUME VoiceInv, link = "live", ready, WsIdle,
                      heard \notin AllowedNow, ~ToReopen
               PROVE  Updating
    BY DEF VoiceWillSettle, AllowedNow, ToReopen, Reopening
  <2>1. Accounted /\ ws \notin ToArm
    BY ArmShape DEF VoiceInv, InForce, WsIdle
  <2>2. wire \in Seq(Listening \union {Prompt}) /\ owed \in Nat
    BY DEF VoiceInv, UpdatesTyped
  <2>3. EndsRight(wire, heard, AllowedNow) => Len(wire) > 0
    BY <2>2 DEF EndsRight
  <2>4. owed > 0 \/ due # "none"
    BY <2>1, <2>2, <2>3 DEF Accounted
  <2> QED
    BY <2>1, <2>4 DEF Accounted, Updating
<1> QED
  BY IInit, IStep, OInit, OStep, VoiceStarts, StepKeepsVoice, <1>1, PTL
     DEF Spec

(* The worker clears with the client down; and a session being set up on   *)
(* Nova-3 once that has been refused is about to be stopped.               *)
NovaInv == (worker = "clear" => link = "down") /\ RefusedNovaIsLeft

(* What the worker starts listens with the fallback; what it stops is not  *)
(* being set up by the time it is idle again.                              *)
LEMMA NovaNext ==
    ASSUME NovaInv, [Next]_vars
    PROVE  NovaInv'
<1> USE DEF NovaInv, RefusedNovaIsLeft
<1>1. CASE UNCHANGED <<link, worker, heard, fallback>> /\ asked' = asked
  BY <1>1
<1>2. CASE WorkerStep
  <2>1. CASE Start
    BY <2>1 DEF Start, stopping, voice
  <2>2. CASE StopBegins
    BY <2>2 DEF StopBegins, voice
  <2>3. CASE Quiesced
    BY <2>3 DEF Quiesced, deferred, voice
  <2>4. CASE Halted
    BY <2>4 DEF Halted
  <2>5. CASE ClearDeferred
    BY <2>5 DEF ClearDeferred
  <2> QED
    BY <1>2, <2>1, <2>2, <2>3, <2>4, <2>5 DEF WorkerStep
<1>3. CASE SocketStep
  <2>1. CASE Connected
    <3>1. heard' \notin NovaOnly \/ ~fallback
      BY <2>1, AgentAssumption DEF Connected, Provider, Multi
    <3>2. UNCHANGED <<worker, fallback>> /\ worker # "clear"
      BY <2>1 DEF Connected, stopping, Hears, Listens
    <3> QED
      BY <3>1, <3>2
  <2>2. CASE SettingsApplied
    BY <2>2 DEF SettingsApplied, Hears, Listens
  <2>3. CASE Gone
    BY <2>3 DEF Gone, Listens, stopping
  <2>4. CASE DropReload
    BY <1>1, <2>4 DEF DropReload, stopping, voice
  <2>5. CASE Disconnected
    BY <1>1, <2>5 DEF Disconnected, stopping, deferred, voice
  <2> QED
    BY <1>3, <2>1, <2>2, <2>3, <2>4, <2>5 DEF SocketStep
<1>4. CASE CallStep
  <2>1. ASSUME NEW l \in Languages, SetVoice(l)
        PROVE  NovaInv'
    BY <1>1, <2>1 DEF SetVoice, stopping
  <2>2. CASE SendSpeakAndPrompt
    BY <1>1, <2>2 DEF SendSpeakAndPrompt, stopping
  <2>3. CASE Adopt \/ ArmListen
    BY <1>1, <2>3 DEF Adopt, ArmListen, stopping, deferred
  <2>4. CASE Forget \/ StartDisplayTest
    BY <1>1, <2>4 DEF Forget, StartDisplayTest, stopping, voice
  <2> QED
    BY <1>4, <2>1, <2>2, <2>3, <2>4 DEF CallStep
<1>5. CASE SpeechStep
  <2>1. CASE AgentSpeaks \/ AudioDone
    BY <1>1, <2>1 DEF AgentSpeaks, AudioDone, stopping, deferred, voice
  <2>2. CASE listen_due_send
    BY <1>1, <2>2 DEF listen_due_send, stopping
  <2>3. CASE TakeReloadNow
    BY <2>3 DEF TakeReloadNow, TakeReload, stopping, voice
  <2>4. CASE TakeTestNow
    BY <1>1, <2>4 DEF TakeTestNow, stopping, voice
  <2> QED
    BY <1>5, <2>1, <2>2, <2>3, <2>4 DEF SpeechStep
<1>6. CASE AnswerStep
  <2>1. CASE Updated
    BY <2>1 DEF Updated, Hears, Listens, stopping
  <2>2. CASE Ignored
    BY <1>1, <2>2 DEF Ignored, stopping, deferred
  <2>3. CASE ListenFails
    BY <2>3 DEF ListenFails, Complain, stopping
  <2>4. ASSUME NEW error \in BOOLEAN, Complaint(error)
        PROVE  NovaInv'
    BY <1>1, <2>4 DEF Complaint, stopping
  <2> QED
    BY <1>6, <2>1, <2>2, <2>3, <2>4 DEF AnswerStep
<1>7. CASE TimerStep
  <2>1. CASE WindowCloses \/ ReloadFires \/ test_backstop_cb
    BY <1>1, <2>1 DEF WindowCloses, ReloadFires, test_backstop_cb, stopping,
       deferred, voice
  <2>2. CASE reload_backstop_cb
    BY <2>2 DEF reload_backstop_cb, TakeReload, stopping, voice
  <2>3. CASE UpdateFires
    BY <1>1, <2>3 DEF UpdateFires, stopping, deferred
  <2>4. CASE update_backstop_cb
    BY <1>1, <2>4 DEF update_backstop_cb, stopping, voice
  <2> QED
    BY <1>7, <2>1, <2>2, <2>3, <2>4 DEF TimerStep
<1>8. CASE SenderStep
  BY <1>1, <1>8 DEF SenderStep, Claim, Decide, Send, Sent, Move, stopping,
     deferred, voice
<1>9. CASE UNCHANGED vars
  BY <1>1, <1>9 DEF vars, stopping, deferred, voice
<1> QED
  BY <1>2, <1>3, <1>4, <1>5, <1>6, <1>7, <1>8, <1>9 DEF Next

(* dg_agent.c's nova_fallback(): a session whose Nova-3 listener was       *)
(* refused is on its way out, and the one after it listens with the        *)
(* fallback, whichever voice is chosen and whatever else asks for a stop   *)
(* or a start.                                                             *)
THEOREM RefusedNovaIsAlwaysLeft == Spec => []RefusedNovaIsLeft
<1>1. Init => NovaInv
  BY DEF Init, NovaInv, RefusedNovaIsLeft
<1>2. NovaInv => RefusedNovaIsLeft
  BY DEF NovaInv
<1> QED
  BY <1>1, <1>2, NovaNext, PTL DEF Spec

-----------------------------------------------------------------------------
(***************************************************************************)
(* Announcements (Announce): counting where they are.                      *)
(***************************************************************************)
Texts == Seq(Announcements \cup Nudges)

(* Numbers up to n are finitely many, and as many one further on.          *)
LEMMA CountShift ==
    ASSUME NEW n \in Nat, NEW A \in SUBSET (1 .. n)
    PROVE  /\ IsFiniteSet(A) /\ Cardinality(A) \in Nat
           /\ IsFiniteSet({i + 1 : i \in A})
           /\ Cardinality({i + 1 : i \in A}) = Cardinality(A)
<1> DEFINE B == {i + 1 : i \in A}
           f == [i \in A |-> i + 1]
<1>1. IsFiniteSet(A)
  <2>1. IsFiniteSet(1 .. n)
    BY FS_Interval
  <2> QED
    BY <2>1, FS_Subset
<1>2. f \in Bijection(A, B)
  <2>1. f \in [A -> B] /\ \A b \in B : \E i \in A : f[i] = b
    OBVIOUS
  <2>2. \A i, j \in A : f[i] = f[j] => i = j
    OBVIOUS
  <2> HIDE DEF f, B
  <2> QED
    BY <2>1, <2>2 DEF Bijection, Injection, Surjection, IsInjective
<1>3. ExistsBijection(A, B)
  BY <1>2 DEF ExistsBijection
<1> QED
  BY <1>1, <1>3, FS_Bijection, FS_CardinalityType

(* How often an announcement occurs in a text.                             *)
LEMMA OccursIs ==
    ASSUME NEW a, NEW text \in Texts
    PROVE  /\ Occurs(a, text) \in Nat
           /\ Occurs(a, text) = 0 <=> a \notin ToSet(text)
<1> DEFINE A == {i \in DOMAIN text : text[i] = a}
<1>1. Len(text) \in Nat /\ DOMAIN text = 1 .. Len(text)
  BY DEF Texts
<1>2. IsFiniteSet(A) /\ Cardinality(A) \in Nat
  <2>1. A \in SUBSET (1 .. Len(text))
    BY <1>1
  <2> HIDE DEF A
  <2> QED
    BY <1>1, <2>1, CountShift
<1>3. A = {} <=> a \notin ToSet(text)
  BY DEF ToSet
<1> QED
  BY <1>2, <1>3, FS_EmptySet DEF Occurs

(* In no text, in a text of its own, and in one put behind another.        *)
LEMMA OccursAdds ==
    /\ \A a : Occurs(a, NoText) = 0
    /\ \A a, b : Occurs(a, <<b>>) = IF a = b THEN 1 ELSE 0
    /\ \A text \in Texts, b \in Announcements : \A a :
           Occurs(a, Append(text, b)) =
               Occurs(a, text) + (IF a = b THEN 1 ELSE 0)
<1>1. ASSUME NEW a
      PROVE  Occurs(a, NoText) = 0
  <2>1. {i \in DOMAIN NoText : NoText[i] = a} = {}
    BY DEF NoText
  <2> QED
    BY <2>1, FS_EmptySet DEF Occurs
<1>2. ASSUME NEW a, NEW b
      PROVE  Occurs(a, <<b>>) = IF a = b THEN 1 ELSE 0
  <2>1. {i \in DOMAIN <<b>> : <<b>>[i] = a} = IF a = b THEN {1} ELSE {}
    OBVIOUS
  <2> QED
    BY <2>1, FS_EmptySet, FS_Singleton DEF Occurs
<1>3. ASSUME NEW text \in Texts, NEW b \in Announcements, NEW a
      PROVE  Occurs(a, Append(text, b)) =
                 Occurs(a, text) + (IF a = b THEN 1 ELSE 0)
  <2> DEFINE A == {i \in DOMAIN text : text[i] = a}
             n == Len(text)
             new == Append(text, b)
             B == {i \in DOMAIN new : new[i] = a}
  <2>1. /\ n \in Nat /\ DOMAIN text = 1 .. n /\ DOMAIN new = 1 .. n + 1
        /\ \A i \in 1 .. n : new[i] = text[i]
        /\ new[n + 1] = b
    BY DEF Texts
  <2> HIDE DEF n, new
  <2>2. B = IF a = b THEN A \cup {n + 1} ELSE A
    BY <2>1
  <2>3. n + 1 \notin A /\ A \in SUBSET (1 .. n)
    BY <2>1
  <2> HIDE DEF A
  <2>4. IsFiniteSet(A) /\ Cardinality(A) \in Nat
    BY <2>1, <2>3, CountShift
  <2>5. Cardinality(A \cup {n + 1}) = Cardinality(A) + 1
    BY <2>3, <2>4, FS_AddElement
  <2> HIDE DEF B
  <2>6. Cardinality(B) = Cardinality(A) + (IF a = b THEN 1 ELSE 0)
    BY <2>2, <2>4, <2>5
  <2> QED
    BY <2>6 DEF Occurs, A, B, n, new
<1> QED
  BY <1>1, <1>2, <1>3

(* How many injects on the socket say it.                                  *)
Wire == Seq([kind : {"sendAnnounce", "sendNudge"}, text : Texts])
Told(a, told) ==
    Cardinality({i \in DOMAIN told : a \in ToSet(told[i].text)})

(* One more is sent, the oldest is answered, or the socket is gone.        *)
LEMMA ToldCounts ==
    ASSUME NEW a, NEW told \in Wire
    PROVE  /\ Told(a, told) \in Nat
           /\ Told(a, << >>) = 0
           /\ \A m : Told(a, Append(told, m)) = Told(a, told)
                         + (IF a \in ToSet(m.text) THEN 1 ELSE 0)
           /\ told # << >> => Told(a, told) = Told(a, Tail(told))
                         + (IF a \in ToSet(Head(told).text) THEN 1 ELSE 0)
<1> DEFINE n == Len(told)
           A == {i \in DOMAIN told : a \in ToSet(told[i].text)}
<1>1. n \in Nat /\ DOMAIN told = 1 .. n
  BY DEF Wire
<1>2. IsFiniteSet(A) /\ Cardinality(A) \in Nat
  <2>1. A \in SUBSET (1 .. n)
    BY <1>1
  <2> HIDE DEF A, n
  <2> QED
    BY <1>1, <2>1, CountShift
<1>3. Told(a, << >>) = 0
  <2>1. {i \in DOMAIN << >> : a \in ToSet(<< >>[i].text)} = {}
    OBVIOUS
  <2> QED
    BY <2>1, FS_EmptySet DEF Told
<1>4. ASSUME NEW m
      PROVE  Told(a, Append(told, m)) = Told(a, told)
                         + (IF a \in ToSet(m.text) THEN 1 ELSE 0)
  <2> DEFINE new == Append(told, m)
             B == {i \in DOMAIN new : a \in ToSet(new[i].text)}
  <2>1. /\ DOMAIN new = 1 .. n + 1
        /\ \A i \in 1 .. n : new[i] = told[i]
        /\ new[n + 1] = m
    BY DEF Wire
  <2> HIDE DEF n, new
  <2>2. B = IF a \in ToSet(m.text) THEN A \cup {n + 1} ELSE A
    BY <1>1, <2>1
  <2>3. n + 1 \notin A
    BY <1>1
  <2> HIDE DEF A
  <2>4. Cardinality(A \cup {n + 1}) = Cardinality(A) + 1
    BY <1>2, <2>3, FS_AddElement
  <2> HIDE DEF B
  <2>5. Cardinality(B) = Cardinality(A)
                         + (IF a \in ToSet(m.text) THEN 1 ELSE 0)
    BY <1>2, <2>2, <2>4
  <2> QED
    BY <2>5 DEF Told, A, B, new
<1>5. ASSUME told # << >>
      PROVE  Told(a, told) = Told(a, Tail(told))
                         + (IF a \in ToSet(Head(told).text) THEN 1 ELSE 0)
  <2> DEFINE t == Tail(told)
             B == {i \in DOMAIN t : a \in ToSet(t[i].text)}
             C == {i + 1 : i \in B}
  <2>1. /\ n - 1 \in Nat /\ DOMAIN t = 1 .. n - 1
        /\ \A i \in 1 .. n - 1 : t[i] = told[i + 1]
        /\ Head(told) = told[1]
    BY <1>1, <1>5 DEF Wire
  <2> HIDE DEF n, t
  <2>2. A = IF a \in ToSet(Head(told).text) THEN C \cup {1} ELSE C
    <3>1. ASSUME NEW i \in 2 .. n
          PROVE  i \in A <=> i \in C
      <4>1. i - 1 \in 1 .. n - 1 /\ t[i - 1] = told[i]
        BY <1>1, <2>1, <3>1
      <4>2. i \in A <=> i - 1 \in B
        BY <1>1, <2>1, <3>1, <4>1
      <4> QED
        BY <1>1, <2>1, <3>1, <4>2
    <3>2. 1 \notin C /\ C \subseteq 2 .. n /\ A \subseteq 1 .. n
      BY <1>1, <2>1
    <3>3. 1 \in A <=> a \in ToSet(Head(told).text)
      BY <1>1, <2>1
    <3>4. /\ 1 .. n = {1} \cup 2 .. n
          /\ A \subseteq {1} \cup 2 .. n
      BY <1>1, <2>1, <3>2
    <3> HIDE DEF A, C
    <3>5. ASSUME NEW K, K = 2 .. n
          PROVE  A = IF 1 \in A THEN C \cup {1} ELSE C
      <4>1. /\ 1 \notin C /\ C \subseteq K /\ A \subseteq {1} \cup K
            /\ \A i \in K : i \in A <=> i \in C
        BY <3>1, <3>2, <3>4, <3>5
      <4>2. CASE 1 \in A
        <5>1. \A i : i \in A <=> i \in C \cup {1}
          BY <4>1, <4>2
        <5> QED
          BY <4>2, <5>1
      <4>3. CASE 1 \notin A
        <5>1. \A i : i \in A <=> i \in C
          BY <4>1, <4>3
        <5> QED
          BY <4>3, <5>1
      <4> QED
        BY <4>2, <4>3
    <3> QED
      BY <3>3, <3>5
  <2>3. B \in SUBSET (1 .. n - 1) /\ 1 \notin C
    BY <2>1
  <2> HIDE DEF A, B
  <2>4. /\ IsFiniteSet(C) /\ Cardinality(B) \in Nat
        /\ Cardinality(C) = Cardinality(B)
    BY <2>1, <2>3, CountShift
  <2>5. Cardinality(C \cup {1}) = Cardinality(C) + 1
    BY <2>3, <2>4, FS_AddElement
  <2>6. Cardinality(A) = Cardinality(B)
                         + (IF a \in ToSet(Head(told).text) THEN 1 ELSE 0)
    BY <2>2, <2>4, <2>5
  <2> QED
    BY <2>6 DEF Told, A, B, t
<1> QED
  BY <1>2, <1>3, <1>4, <1>5 DEF Told

-----------------------------------------------------------------------------
(***************************************************************************)
(* Where an announcement can be.                                           *)
(***************************************************************************)
AnnTyped ==
    /\ {slot, injected, greeting, caller.text, ka.text} \subseteq Texts
    /\ nudge \in Seq(Nudges) /\ nudger \in Seq(Nudges)
    /\ injects \in Wire
    /\ announced \subseteq Announcements
    /\ said \in [Announcements -> Nat]
    /\ stamp \in {"empty", "fresh", "stale"}

(* A text has been passed on where it is no longer kept.                   *)
PassedOn ==
    /\ stamp = "empty" => slot = NoText
    /\ stamp = "stale" => ToSet(slot) \subseteq spoiled
    /\ caller.at # "put" => caller.text = NoText
    /\ ka.at \in {"wait", "take", "again"} => ka.text = NoText
    /\ socket = "down" => greeting = NoText

(* A nudge is nobody's announcement, on the socket either.                 *)
NudgeInv ==
    /\ ka.at \in {"nudge", "sendNudge"} => ka.text \in Seq(Nudges)
    /\ \A i \in DOMAIN injects :
           injects[i].kind = "sendNudge" => injects[i].text \in Seq(Nudges)

(* No inject says an announcement twice.                                   *)
WireInv ==
    \A i \in DOMAIN injects, a \in Announcements \ spoiled :
        Occurs(a, injects[i].text) <= 1

(* One that has been announced is in one place, one that has not in none.  *)
OnceInv ==
    \A a \in Announcements \ spoiled :
        Places(a) = IF a \in announced THEN 1 ELSE 0

AnnInv == AnnTyped /\ PassedOn /\ NudgeInv /\ WireInv /\ OnceInv

(* Texts of each kind.                                                     *)
LEMMA TextsAre ==
    /\ NoText \in Texts /\ NoText \in Seq(Nudges)
    /\ \A a \in Announcements : <<a>> \in Texts /\ ToSet(<<a>>) = {a}
    /\ \A n \in Nudges : <<n>> \in Seq(Nudges)
    /\ \A text \in Texts, a \in Announcements : Append(text, a) \in Texts
    /\ \A text \in Seq(Nudges) :
           /\ text \in Texts
           /\ \A a \in Announcements : Occurs(a, text) = 0
                                       /\ a \notin ToSet(text)
<1>1. ASSUME NEW text \in Seq(Nudges)
      PROVE  /\ text \in Texts
             /\ \A a \in Announcements : Occurs(a, text) = 0
                                         /\ a \notin ToSet(text)
  <2>1. text \in Texts
    <3>1. /\ text = [i \in 1 .. Len(text) |-> text[i]]
          /\ Len(text) \in Nat
          /\ \A i \in 1 .. Len(text) : text[i] \in Announcements \cup Nudges
      OBVIOUS
    <3> QED
      BY <3>1 DEF Texts
  <2>2. ASSUME NEW a \in Announcements
        PROVE  a \notin ToSet(text)
    BY AnnounceAssumption DEF ToSet
  <2> QED
    BY <2>1, <2>2, OccursIs
<1>2. \A a \in Announcements : <<a>> \in Texts /\ ToSet(<<a>>) = {a}
  BY DEF Texts, ToSet
<1> QED
  BY <1>1, <1>2 DEF Texts, NoText

(* A slot without a fresh stamp holds nothing but what is known lost.      *)
LEMMA StaleIs ==
    ASSUME AnnTyped, PassedOn, ~Pending,
           NEW a \in Announcements \ spoiled
    PROVE  Occurs(a, slot) = 0
<1>1. slot \in Texts /\ (stamp = "empty" \/ stamp = "stale")
  BY DEF AnnTyped, Pending
<1>2. slot = NoText \/ ToSet(slot) \subseteq spoiled
  BY <1>1 DEF PassedOn
<1> QED
  BY <1>1, <1>2, OccursIs, OccursAdds

(* Every place counts.                                                     *)
LEMMA PlacesCount ==
    ASSUME AnnTyped, NEW a \in Announcements
    PROVE  /\ {said[a], Occurs(a, slot), Occurs(a, caller.text),
               Occurs(a, ka.text), Told(a, injects), Occurs(a, greeting)}
                  \subseteq Nat
           /\ Places(a) = said[a] + Occurs(a, slot) + Occurs(a, caller.text)
                          + Occurs(a, ka.text) + Told(a, injects)
                          + Occurs(a, greeting)
<1>1. said[a] \in Nat
  BY DEF AnnTyped
<1>2. /\ Occurs(a, slot) \in Nat /\ Occurs(a, caller.text) \in Nat
      /\ Occurs(a, ka.text) \in Nat /\ Occurs(a, greeting) \in Nat
  BY OccursIs DEF AnnTyped
<1>3. Told(a, injects) \in Nat
  BY ToldCounts DEF AnnTyped
<1> QED
  BY <1>1, <1>2, <1>3 DEF Places, OnTheWire, Told

(* A step that moves texts about, if it adds up, keeps them in one place.  *)
LEMMA MovesKeep ==
    ASSUME AnnInv, AnnTyped', spoiled \subseteq spoiled',
           announced' = announced,
           \A a \in Announcements \ spoiled' :
               said'[a] + Occurs(a, slot') + Occurs(a, caller'.text)
               + Occurs(a, ka'.text) + Told(a, injects')
               + Occurs(a, greeting') =
               said[a] + Occurs(a, slot) + Occurs(a, caller.text)
               + Occurs(a, ka.text) + Told(a, injects)
               + Occurs(a, greeting)
    PROVE  OnceInv'
<1>1. ASSUME NEW a \in Announcements \ spoiled'
      PROVE  Places(a)' = IF a \in announced' THEN 1 ELSE 0
  <2>1. Places(a) = IF a \in announced THEN 1 ELSE 0
    BY DEF AnnInv, OnceInv
  <2>2. Places(a) = said[a] + Occurs(a, slot) + Occurs(a, caller.text)
                    + Occurs(a, ka.text) + Told(a, injects)
                    + Occurs(a, greeting)
    BY PlacesCount DEF AnnInv
  <2>3. Places(a)' = said'[a] + Occurs(a, slot') + Occurs(a, caller'.text)
                    + Occurs(a, ka'.text) + Told(a, injects')
                    + Occurs(a, greeting')
    BY DEF Places, OnTheWire, Told
  <2> QED
    BY <2>1, <2>2, <2>3
<1> QED
  BY <1>1 DEF OnceInv

(* A step that leaves the socket alone leaves what is on it alone.         *)
LEMMA WireKeeps ==
    ASSUME WireInv, injects' = injects, spoiled \subseteq spoiled'
    PROVE  WireInv'
  BY DEF WireInv

(* Nothing announced, nothing said.                                        *)
LEMMA AnnStarts == AnnInit => AnnInv
<1> SUFFICES ASSUME AnnInit
             PROVE  AnnInv
  OBVIOUS
<1> USE DEF AnnInit
<1>1. AnnTyped
  BY TextsAre DEF AnnTyped, Wire
<1>2. PassedOn /\ NudgeInv /\ WireInv
  BY DEF PassedOn, NudgeInv, WireInv
<1>3. ASSUME NEW a \in Announcements
      PROVE  Places(a) = 0
  <2>1. Told(a, << >>) = 0
    <3>1. << >> \in Wire
      BY DEF Wire
    <3> QED
      BY <3>1, ToldCounts
  <2>2. Occurs(a, NoText) = 0
    BY OccursAdds
  <2> QED
    BY <1>1, <2>1, <2>2, PlacesCount
<1> QED
  BY <1>1, <1>2, <1>3 DEF AnnInv, OnceInv

(* The callers': an alarm's announcement, Echo's nudge.                    *)
LEMMA CallerKeeps ==
    ASSUME AnnInv, CallerStep
    PROVE  AnnInv'
<1> USE DEF slots, session, tasks, server
<1>t. AnnTyped /\ PassedOn /\ NudgeInv /\ WireInv /\ OnceInv
  BY DEF AnnInv
<1>1. ASSUME NEW b \in Announcements, dg_agent_announce(b)
      PROVE  AnnInv'
  <2>1. /\ caller.at = "idle" /\ b \notin announced
        /\ announced' = announced \cup {b}
        /\ UNCHANGED <<stamp, nudge, injected, nudger, ka, socket, injects,
                       greeting, said>>
    BY <1>1 DEF dg_agent_announce
  <2>2. caller.text = NoText
    BY <1>t, <2>1 DEF PassedOn
  <2>3. \/ /\ Pending /\ slot' = Append(slot, b) /\ spoiled' = spoiled
           /\ caller' = [at |-> "poke", text |-> NoText]
        \/ spoiled' = spoiled \cup {b} /\ UNCHANGED <<slot, caller>>
        \/ /\ caller' = [at |-> "put", text |-> <<b>>]
           /\ UNCHANGED <<slot, spoiled>>
    BY <1>1, TextsAre DEF dg_agent_announce, Spoils
  <2>4. AnnTyped'
    <3>1. slot' \in Texts /\ caller'.text \in Texts
      <4>1. /\ slot \in Texts /\ caller.text \in Texts
            /\ Append(slot, b) \in Texts /\ <<b>> \in Texts
            /\ NoText \in Texts
        BY <1>t, TextsAre DEF AnnTyped
      <4>2. slot' = slot \/ slot' = Append(slot, b)
        BY <2>3
      <4>3. \/ caller'.text = NoText \/ caller'.text = <<b>>
            \/ caller'.text = caller.text
        BY <2>3
      <4> QED
        BY <4>1, <4>2, <4>3
    <3> QED
      BY <1>t, <2>1, <3>1 DEF AnnTyped
  <2>5. PassedOn'
    <3>1. stamp' # "fresh" => slot' = slot
      BY <2>1, <2>3 DEF Pending
    <3>2. spoiled \subseteq spoiled'
      BY <2>3
    <3>3. caller'.at # "put" => caller'.text = NoText
      BY <2>1, <2>2, <2>3
    <3> QED
      BY <1>t, <2>1, <3>1, <3>2, <3>3 DEF PassedOn
  <2>6. NudgeInv' /\ WireInv'
    BY <1>t, <2>1, <2>3, WireKeeps DEF NudgeInv
  <2>7. ASSUME NEW a \in Announcements \ spoiled'
        PROVE  Places(a)' = IF a \in announced' THEN 1 ELSE 0
    <3>1. /\ Places(a) = IF a \in announced THEN 1 ELSE 0
          /\ {said[a], Occurs(a, slot), Occurs(a, caller.text),
              Occurs(a, ka.text), Told(a, injects), Occurs(a, greeting)}
                 \subseteq Nat
          /\ Places(a) = said[a] + Occurs(a, slot) + Occurs(a, caller.text)
                         + Occurs(a, ka.text) + Told(a, injects)
                         + Occurs(a, greeting)
      BY <1>t, <2>3, PlacesCount DEF OnceInv
    <3>2. Places(a)' = said[a] + Occurs(a, slot') + Occurs(a, caller'.text)
                       + Occurs(a, ka.text) + Told(a, injects)
                       + Occurs(a, greeting)
      BY <2>1 DEF Places, OnTheWire, Told
    <3>3. Occurs(a, slot') + Occurs(a, caller'.text) =
              Occurs(a, slot) + (IF a = b THEN 1 ELSE 0)
      <4>1. slot \in Texts /\ Occurs(a, slot) \in Nat
        BY <1>t, <3>1 DEF AnnTyped
      <4>2. /\ Occurs(a, NoText) = 0
            /\ Occurs(a, <<b>>) = IF a = b THEN 1 ELSE 0
            /\ Occurs(a, Append(slot, b)) =
                   Occurs(a, slot) + (IF a = b THEN 1 ELSE 0)
        BY <4>1, OccursAdds
      <4>3. a \notin spoiled'
        OBVIOUS
      <4>4. CASE slot' = Append(slot, b) /\ caller'.text = NoText
        BY <4>1, <4>2, <4>4
      <4>5. CASE spoiled' = spoiled \cup {b} /\ UNCHANGED <<slot, caller>>
        BY <2>2, <4>1, <4>2, <4>3, <4>5
      <4>6. CASE caller'.text = <<b>> /\ slot' = slot
        BY <4>1, <4>2, <4>6
      <4> QED
        BY <2>3, <4>4, <4>5, <4>6
    <3>4. Occurs(a, caller.text) = 0
      BY <2>2, OccursAdds
    <3>5. /\ a \in announced' <=> a \in announced \/ a = b
          /\ a = b => a \notin announced
      BY <2>1
    <3>6. /\ Occurs(a, slot) \in Nat /\ Occurs(a, caller.text) \in Nat
          /\ Occurs(a, ka.text) \in Nat /\ Occurs(a, greeting) \in Nat
          /\ said[a] \in Nat /\ Told(a, injects) \in Nat
      BY <3>1
    <3>7. Occurs(a, slot') \in Nat /\ Occurs(a, caller'.text) \in Nat
      BY <2>4, OccursIs DEF AnnTyped
    <3>8. Places(a)' = Places(a) + (IF a = b THEN 1 ELSE 0)
      BY <3>1, <3>2, <3>3, <3>4, <3>6, <3>7
    <3> QED
      BY <3>1, <3>5, <3>8
  <2> QED
    BY <2>4, <2>5, <2>6, <2>7 DEF AnnInv, OnceInv
<1>2. CASE AnnouncePut
  <2>1. /\ caller.at = "put" /\ slot' = caller.text /\ stamp' = "fresh"
        /\ spoiled' = spoiled \cup ToSet(slot)
        /\ caller' = [at |-> "poke", text |-> NoText]
        /\ UNCHANGED <<nudge, injected, nudger, ka, socket, injects,
                       greeting, announced, said>>
    BY <1>2 DEF AnnouncePut, announce_put, Spoils
  <2>2. AnnTyped'
    BY <1>t, <2>1, TextsAre DEF AnnTyped
  <2>3. PassedOn' /\ NudgeInv' /\ WireInv'
    BY <1>t, <2>1, WireKeeps DEF PassedOn, NudgeInv
  <2>4. ASSUME NEW a \in Announcements \ spoiled'
        PROVE  Occurs(a, slot) = 0 /\ Occurs(a, NoText) = 0
    BY <1>t, <2>1, OccursIs, OccursAdds DEF AnnTyped
  <2>5. OnceInv'
    BY <1>t, <2>1, <2>2, <2>4, PlacesCount, MovesKeep
  <2> QED
    BY <2>2, <2>3, <2>5 DEF AnnInv
<1>3. CASE /\ UNCHANGED <<slot, stamp, injected, ka, socket, injects,
                          greeting, announced, said, spoiled>>
           /\ nudge' \in Seq(Nudges) /\ nudger' \in Seq(Nudges)
           /\ caller'.text = caller.text
           /\ caller'.at # "put" => caller'.text = NoText
  <2>1. AnnTyped'
    BY <1>t, <1>3 DEF AnnTyped
  <2>2. PassedOn' /\ NudgeInv' /\ WireInv'
    BY <1>t, <1>3, WireKeeps DEF PassedOn, NudgeInv
  <2>3. OnceInv'
    BY <1>t, <1>3, <2>1, MovesKeep
  <2> QED
    BY <2>1, <2>2, <2>3 DEF AnnInv
<1>4. CASE AnnouncePoke
  BY <1>t, <1>3, <1>4 DEF AnnouncePoke, PassedOn, AnnTyped
<1>5. ASSUME NEW n \in Nudges, dg_agent_nudge(n)
      PROVE  AnnInv'
  BY <1>t, <1>3, <1>5, TextsAre DEF dg_agent_nudge, PassedOn, AnnTyped
<1>6. CASE NudgePut
  BY <1>t, <1>3, <1>6, TextsAre DEF NudgePut, PassedOn, AnnTyped
<1>7. CASE dg_agent_nudge_cancel
  BY <1>t, <1>3, <1>7, TextsAre DEF dg_agent_nudge_cancel, PassedOn, AnnTyped
<1> QED
  BY <1>1, <1>2, <1>4, <1>5, <1>6, <1>7 DEF CallerStep

(* What is gone from a slot that is emptied without being sent was stale.  *)
LEMMA StaleGoes ==
    ASSUME AnnInv, NEW a \in Announcements \ spoiled,
           UNCHANGED slot \/ (~Pending /\ slot' = NoText)
    PROVE  Occurs(a, slot') = Occurs(a, slot)
<1>1. CASE ~Pending /\ slot' = NoText
  BY <1>1, StaleIs, OccursAdds DEF AnnInv
<1> QED
  BY <1>1

(* The sender's: it takes a text from a slot, marks it and sends it.       *)
LEMMA KeeperKeeps ==
    ASSUME AnnInv, KeepaliveStep
    PROVE  AnnInv'
<1> USE DEF slots, session, tasks, server, Keeper, KeeperGoes, Emptied
<1>t. AnnTyped /\ PassedOn /\ NudgeInv /\ WireInv /\ OnceInv
  BY DEF AnnInv
<1>1. CASE /\ UNCHANGED <<nudge, injected, nudger, caller, socket, injects,
                          greeting, announced, said, spoiled>>
           /\ \/ UNCHANGED <<slot, stamp>>
              \/ ~Pending /\ slot' = NoText /\ stamp' = "empty"
           /\ ka.text = NoText /\ ka'.text = NoText
           /\ ka'.at \notin {"nudge", "sendNudge"}
  <2>1. AnnTyped'
    BY <1>t, <1>1, TextsAre DEF AnnTyped
  <2>2. PassedOn' /\ NudgeInv' /\ WireInv'
    BY <1>t, <1>1, WireKeeps DEF PassedOn, NudgeInv
  <2>3. \A a \in Announcements \ spoiled' : Occurs(a, slot') = Occurs(a, slot)
    BY <1>1, StaleGoes
  <2>4. OnceInv'
    BY <1>1, <2>1, <2>3, MovesKeep
  <2> QED
    BY <2>1, <2>2, <2>4 DEF AnnInv
<1>2. CASE KaWakes
  BY <1>t, <1>1, <1>2 DEF KaWakes, Waiting, PassedOn, Pending
<1>3. CASE announce_take
  <2>1. /\ ka.text = NoText /\ Pending /\ slot' = NoText /\ stamp' = "empty"
        /\ ka' = [at |-> "announce", text |-> slot]
        /\ UNCHANGED <<nudge, injected, nudger, caller, socket, injects,
                       greeting, announced, said, spoiled>>
    BY <1>t, <1>3 DEF announce_take, PassedOn
  <2>2. AnnTyped'
    BY <1>t, <2>1, TextsAre DEF AnnTyped
  <2>3. PassedOn' /\ NudgeInv' /\ WireInv'
    BY <1>t, <2>1, WireKeeps DEF PassedOn, NudgeInv
  <2>4. \A a \in Announcements : Occurs(a, NoText) = 0
    BY OccursAdds
  <2>5. OnceInv'
    BY <1>t, <2>1, <2>2, <2>4, PlacesCount, MovesKeep
  <2> QED
    BY <2>2, <2>3, <2>5 DEF AnnInv
<1>4. CASE nudge_take
  <2>1. /\ ka.text = NoText /\ ~Pending /\ slot' = NoText /\ stamp' = "empty"
        /\ nudge' = NoText /\ ka' = [at |-> "nudge", text |-> nudge]
        /\ UNCHANGED <<injected, nudger, caller, socket, injects,
                       greeting, announced, said, spoiled>>
    BY <1>t, <1>4 DEF nudge_take, PassedOn
  <2>2. nudge \in Seq(Nudges) /\ nudge \in Texts
        /\ \A a \in Announcements : Occurs(a, nudge) = 0
    BY <1>t, TextsAre DEF AnnTyped
  <2>3. AnnTyped'
    BY <1>t, <2>1, <2>2, TextsAre DEF AnnTyped
  <2>4. PassedOn' /\ NudgeInv' /\ WireInv'
    BY <1>t, <2>1, <2>2, WireKeeps DEF PassedOn, NudgeInv
  <2>5. \A a \in Announcements : Occurs(a, NoText) = 0
    BY OccursAdds
  <2>6. \A a \in Announcements \ spoiled' : Occurs(a, slot') = Occurs(a, slot)
    BY <2>1, StaleGoes
  <2>7. OnceInv'
    BY <2>1, <2>2, <2>3, <2>5, <2>6, MovesKeep
  <2> QED
    BY <2>3, <2>4, <2>7 DEF AnnInv
<1>5. CASE TakesNothing
  BY <1>t, <1>1, <1>5 DEF TakesNothing, PassedOn, Pending
<1>6. CASE Marks
  <2>1. /\ ka'.text = ka.text
        /\ \/ ka'.at = "sendAnnounce"
           \/ ka'.at = "sendNudge" /\ ka.at = "nudge"
        /\ injected' = ka.text \/ injected' = injected
        /\ UNCHANGED <<slot, stamp, nudge, nudger, caller, socket, injects,
                       greeting, announced, said, spoiled>>
    <3>1. CASE ka' = [at |-> "sendAnnounce", text |-> ka.text]
      BY <1>6, <3>1 DEF Marks
    <3>2. CASE ka.at = "nudge" /\ ka' = [at |-> "sendNudge", text |-> ka.text]
      BY <1>6, <3>2 DEF Marks
    <3> QED
      BY <1>6, <3>1, <3>2 DEF Marks
  <2>2. AnnTyped'
    BY <1>t, <2>1 DEF AnnTyped
  <2>3. PassedOn' /\ NudgeInv' /\ WireInv'
    BY <1>t, <2>1, WireKeeps DEF PassedOn, NudgeInv
  <2>4. OnceInv'
    BY <2>1, <2>2, MovesKeep
  <2> QED
    BY <2>2, <2>3, <2>4 DEF AnnInv
<1>7. CASE Sends
  <2>1. /\ ka.at = "sendAnnounce" \/ ka.at = "sendNudge"
        /\ ka' = [at |-> "again", text |-> NoText]
        /\ UNCHANGED <<slot, stamp, nudge, injected, nudger, caller, socket,
                       greeting, announced, said>>
    BY <1>7 DEF Sends
  <2>2. \/ /\ injects' = Append(injects, Inject(ka.at))
           /\ spoiled' = spoiled
        \/ spoiled' = spoiled \cup ToSet(ka.text) /\ injects' = injects
    BY <1>7 DEF Sends, Spoils
  <2>3. \A a \in Announcements : Occurs(a, NoText) = 0
    BY OccursAdds
  <2>4. CASE spoiled' = spoiled \cup ToSet(ka.text) /\ injects' = injects
    <3>1. AnnTyped'
      BY <1>t, <2>1, <2>4, TextsAre DEF AnnTyped
    <3>2. PassedOn' /\ NudgeInv' /\ WireInv'
      BY <1>t, <2>1, <2>4, WireKeeps DEF PassedOn, NudgeInv
    <3>3. \A a \in Announcements \ spoiled' : Occurs(a, ka.text) = 0
      BY <1>t, <2>4, OccursIs DEF AnnTyped
    <3>4. OnceInv'
      BY <2>1, <2>3, <2>4, <3>1, <3>3, MovesKeep
    <3> QED
      BY <3>1, <3>2, <3>4 DEF AnnInv
  <2>5. CASE injects' = Append(injects, Inject(ka.at)) /\ spoiled' = spoiled
    <3> DEFINE m == Inject(ka.at)
    <3>1. /\ m = [kind |-> ka.at, text |-> ka.text]
          /\ m.text = ka.text /\ m.kind = ka.at
          /\ injects \in Wire /\ Append(injects, m) \in Wire
      BY <1>t, <2>1 DEF Inject, Wire, AnnTyped
    <3>2. AnnTyped'
      BY <1>t, <2>1, <2>5, <3>1, TextsAre DEF AnnTyped
    <3> HIDE DEF m
    <3>3. \A i \in DOMAIN injects' :
              \/ i \in DOMAIN injects /\ injects'[i] = injects[i]
              \/ injects'[i] = m
      BY <2>5, <3>1 DEF Wire, m
    <3>4. \A a \in Announcements \ spoiled' : Occurs(a, ka.text) <= 1
      <4>1. ASSUME NEW a \in Announcements \ spoiled'
            PROVE  Occurs(a, ka.text) <= 1
        <5>1. Places(a) = 0 \/ Places(a) = 1
          BY <1>t, <2>5 DEF OnceInv
        <5> QED
          BY <1>t, <5>1, PlacesCount
      <4> QED
        BY <4>1
    <3>5. WireInv'
      BY <1>t, <2>5, <3>1, <3>3, <3>4 DEF WireInv
    <3>6. NudgeInv'
      BY <1>t, <2>1, <3>1, <3>3 DEF NudgeInv
    <3>7. PassedOn'
      BY <1>t, <2>1, <2>5 DEF PassedOn
    <3>8. ASSUME NEW a \in Announcements \ spoiled'
          PROVE  /\ Told(a, injects') = Told(a, injects) + Occurs(a, ka.text)
                 /\ Told(a, injects) \in Nat /\ Occurs(a, ka.text) \in Nat
      <4>1. Told(a, injects') = Told(a, injects)
                + (IF a \in ToSet(ka.text) THEN 1 ELSE 0)
        BY <2>5, <3>1, ToldCounts DEF m
      <4>2. /\ Occurs(a, ka.text) \in Nat
            /\ Occurs(a, ka.text) = 0 <=> a \notin ToSet(ka.text)
        BY <1>t, OccursIs DEF AnnTyped
      <4>3. Told(a, injects) \in Nat
        BY <3>1, ToldCounts
      <4> QED
        BY <3>4, <4>1, <4>2, <4>3
    <3>9. OnceInv'
      <4>1. ASSUME NEW a \in Announcements \ spoiled'
            PROVE  said'[a] + Occurs(a, slot') + Occurs(a, caller'.text)
                   + Occurs(a, ka'.text) + Told(a, injects')
                   + Occurs(a, greeting') =
                   said[a] + Occurs(a, slot) + Occurs(a, caller.text)
                   + Occurs(a, ka.text) + Told(a, injects)
                   + Occurs(a, greeting)
        BY <1>t, <2>1, <2>3, <3>8, PlacesCount
      <4> QED
        BY <2>1, <2>5, <3>2, <4>1, MovesKeep
    <3> QED
      BY <3>2, <3>5, <3>6, <3>7, <3>9 DEF AnnInv
  <2> QED
    BY <2>2, <2>4, <2>5
<1>8. CASE Again
  BY <1>t, <1>1, <1>8 DEF Again, PassedOn, Pending
<1> QED
  BY <1>2, <1>3, <1>4, <1>5, <1>6, <1>7, <1>8 DEF KeepaliveStep

(* The WebSocket task's, the server's and the stop's.                      *)
LEMMA SocketKeeps ==
    ASSUME AnnInv, AnnSocketStep
    PROVE  AnnInv'
<1> USE DEF slots, session, tasks, server, Emptied
<1>t. AnnTyped /\ PassedOn /\ NudgeInv /\ WireInv /\ OnceInv
  BY DEF AnnInv
<1>o. \A a \in Announcements : Occurs(a, NoText) = 0
  BY OccursAdds
<1>1. CASE /\ UNCHANGED <<injected, nudger, caller, ka, injects,
                          greeting, announced, said, spoiled>>
           /\ nudge' = nudge \/ nudge' = NoText
           /\ socket' = "down" => socket = "down"
           /\ \/ UNCHANGED <<slot, stamp>>
              \/ ~Pending /\ slot' = NoText /\ stamp' = "empty"
  <2>1. AnnTyped'
    BY <1>t, <1>1, TextsAre DEF AnnTyped
  <2>2. PassedOn' /\ NudgeInv' /\ WireInv'
    BY <1>t, <1>1, WireKeeps DEF PassedOn, NudgeInv
  <2>3. \A a \in Announcements \ spoiled' : Occurs(a, slot') = Occurs(a, slot)
    BY <1>1, StaleGoes
  <2>4. OnceInv'
    BY <1>1, <2>1, <2>3, MovesKeep
  <2> QED
    BY <2>1, <2>2, <2>4 DEF AnnInv
<1>2. ASSUME NEW history \in BOOLEAN, send_settings(history)
      PROVE  AnnInv'
  <2>1. /\ socket = "down" /\ socket' = "open" /\ greeting = NoText
        /\ UNCHANGED <<nudge, injected, nudger, caller, ka, injects,
                       announced, said, spoiled>>
    BY <1>t, <1>2 DEF send_settings, PassedOn
  <2>2. CASE Pending /\ slot' = NoText /\ stamp' = "empty" /\ greeting' = slot
    <3>1. AnnTyped'
      BY <1>t, <2>1, <2>2, TextsAre DEF AnnTyped
    <3>2. PassedOn' /\ NudgeInv' /\ WireInv'
      BY <1>t, <2>1, <2>2, WireKeeps DEF PassedOn, NudgeInv
    <3>3. OnceInv'
      BY <1>t, <1>o, <2>1, <2>2, <3>1, PlacesCount, MovesKeep
    <3> QED
      BY <3>1, <3>2, <3>3 DEF AnnInv
  <2>3. CASE /\ greeting' = greeting
             /\ \/ UNCHANGED <<slot, stamp>>
                \/ ~Pending /\ slot' = NoText /\ stamp' = "empty"
    BY <1>1, <2>1, <2>3
  <2>4. CASE history
    BY <1>2, <2>1, <2>3, <2>4 DEF send_settings, Pending
  <2>5. CASE ~history
    BY <1>2, <2>1, <2>2, <2>3, <2>5 DEF send_settings
  <2> QED
    BY <2>4, <2>5
<1>3. CASE AnnApplied
  <2>1. /\ said' = Says(greeting) /\ greeting' = NoText /\ socket' = "live"
        /\ UNCHANGED <<slot, stamp, nudge, injected, nudger, caller, ka,
                       injects, announced, spoiled>>
    BY <1>3 DEF AnnApplied
  <2>2. /\ said' \in [Announcements -> Nat]
        /\ \A a \in Announcements : said'[a] = said[a] + Occurs(a, greeting)
    BY <1>t, <2>1, OccursIs DEF Says, AnnTyped
  <2>3. AnnTyped'
    BY <1>t, <2>1, <2>2, TextsAre DEF AnnTyped
  <2>4. PassedOn' /\ NudgeInv' /\ WireInv'
    BY <1>t, <2>1, WireKeeps DEF PassedOn, NudgeInv
  <2>5. OnceInv'
    BY <1>t, <1>o, <2>1, <2>2, <2>3, PlacesCount, MovesKeep
  <2> QED
    BY <2>3, <2>4, <2>5 DEF AnnInv
<1>4. CASE SettingsPoke
  BY <1>1, <1>4 DEF SettingsPoke, Pending
<1>5. ASSUME injects # << >>, injects' = Tail(injects)
      PROVE  /\ injects' \in Wire /\ Head(injects).text \in Texts
             /\ Head(injects).kind \in {"sendAnnounce", "sendNudge"}
             /\ Head(injects).kind = "sendNudge" =>
                    Head(injects).text \in Seq(Nudges)
             /\ spoiled \subseteq spoiled' => WireInv'
             /\ NudgeInv'
                \/ ~(ka'.at \in {"nudge", "sendNudge"}
                         => ka'.text \in Seq(Nudges))
             /\ \A a \in Announcements \ spoiled :
                    Told(a, injects) = Told(a, injects')
                                       + Occurs(a, Head(injects).text)
  <2>1. /\ injects \in Wire /\ injects' \in Wire
        /\ Head(injects) = injects[1] /\ 1 \in DOMAIN injects
        /\ \A i \in DOMAIN injects' : /\ i + 1 \in DOMAIN injects
                                      /\ injects'[i] = injects[i + 1]
    BY <1>t, <1>5 DEF AnnTyped, Wire
  <2>2. /\ Head(injects).text \in Texts
        /\ Head(injects).kind \in {"sendAnnounce", "sendNudge"}
    <3> DEFINE R == [kind : {"sendAnnounce", "sendNudge"}, text : Texts]
    <3>1. injects \in Seq(R) /\ 1 \in DOMAIN injects
      BY <2>1 DEF Wire
    <3>2. injects[1] \in R
      <4> HIDE DEF R
      <4> QED
        BY <3>1
    <3>3. injects[1].kind \in {"sendAnnounce", "sendNudge"}
          /\ injects[1].text \in Texts
      BY <3>2
    <3> QED
      BY <2>1, <3>3
  <2>3. Head(injects).kind = "sendNudge" => Head(injects).text \in Seq(Nudges)
    BY <1>t, <2>1 DEF NudgeInv
  <2>4. spoiled \subseteq spoiled' => WireInv'
    BY <1>t, <2>1 DEF WireInv
  <2>5. \A i \in DOMAIN injects' :
            injects'[i].kind = "sendNudge" => injects'[i].text \in Seq(Nudges)
    BY <1>t, <2>1 DEF NudgeInv
  <2>6. ASSUME NEW a \in Announcements \ spoiled
        PROVE  Told(a, injects) = Told(a, injects')
                                  + Occurs(a, Head(injects).text)
    <3>1. Told(a, injects) = Told(a, injects')
              + (IF a \in ToSet(Head(injects).text) THEN 1 ELSE 0)
      BY <1>5, <2>1, ToldCounts
    <3>2. /\ Occurs(a, Head(injects).text) \in Nat
          /\ Occurs(a, Head(injects).text) = 0
                 <=> a \notin ToSet(Head(injects).text)
      BY <2>2, OccursIs
    <3>3. Occurs(a, Head(injects).text) <= 1
      BY <1>t, <2>1 DEF WireInv
    <3> QED
      BY <3>1, <3>2, <3>3
  <2> QED
    BY <2>1, <2>2, <2>3, <2>4, <2>5, <2>6 DEF NudgeInv
<1>6. CASE Accepts
  <2> DEFINE text == Head(injects).text
  <2>1. /\ injects # << >> /\ injects' = Tail(injects)
        /\ said' = Says(text)
        /\ UNCHANGED <<slot, stamp, nudge, injected, nudger, caller, ka,
                       socket, greeting, announced, spoiled>>
    BY <1>6 DEF Accepts
  <2>2. /\ text \in Texts /\ injects' \in Wire /\ WireInv'
        /\ \A a \in Announcements \ spoiled :
               Told(a, injects) = Told(a, injects') + Occurs(a, text)
    BY <1>5, <2>1
  <2>3. NudgeInv'
    BY <1>t, <1>5, <2>1 DEF NudgeInv
  <2> HIDE DEF text
  <2>4. /\ said' \in [Announcements -> Nat]
        /\ \A a \in Announcements : said'[a] = said[a] + Occurs(a, text)
    BY <1>t, <2>1, <2>2, OccursIs DEF Says, AnnTyped
  <2>5. AnnTyped'
    BY <1>t, <2>1, <2>2, <2>4 DEF AnnTyped
  <2>6. PassedOn'
    BY <1>t, <2>1 DEF PassedOn
  <2>7. ASSUME NEW a \in Announcements \ spoiled'
        PROVE  said'[a] + Occurs(a, slot') + Occurs(a, caller'.text)
               + Occurs(a, ka'.text) + Told(a, injects')
               + Occurs(a, greeting') =
               said[a] + Occurs(a, slot) + Occurs(a, caller.text)
               + Occurs(a, ka.text) + Told(a, injects)
               + Occurs(a, greeting)
    <3>1. Occurs(a, text) \in Nat /\ Told(a, injects') \in Nat
      BY <2>2, OccursIs, ToldCounts
    <3>2. /\ Told(a, injects) = Told(a, injects') + Occurs(a, text)
          /\ said'[a] = said[a] + Occurs(a, text)
      BY <2>1, <2>2, <2>4
    <3> QED
      BY <1>t, <2>1, <3>1, <3>2, PlacesCount
  <2>8. OnceInv'
    BY <2>1, <2>5, <2>7, MovesKeep
  <2> QED
    BY <2>2, <2>3, <2>5, <2>6, <2>8 DEF AnnInv
<1>7. CASE InjectionRefused
  <2> DEFINE refused == Head(injects)
             wrong == IF Misread(refused)
                      THEN ToSet(refused.text) \cup ToSet(injected) ELSE {}
  <2>1. /\ injects # << >> /\ injects' = Tail(injects)
        /\ UNCHANGED <<nudge, injected, nudger, caller, ka,
                       socket, greeting, announced, said>>
    BY <1>7 DEF InjectionRefused
  <2>2. \/ /\ last /\ spoiled' = spoiled \cup wrong
           /\ UNCHANGED <<slot, stamp>>
        \/ /\ ~last /\ slot' = injected /\ stamp' = "fresh"
           /\ spoiled' = spoiled \cup wrong \cup ToSet(slot)
        \/ /\ ~last /\ UNCHANGED <<slot, stamp>>
           /\ spoiled' = spoiled \cup wrong \cup ToSet(refused.text)
    BY <1>7 DEF InjectionRefused, announce_put
  <2>3. spoiled \subseteq spoiled' /\ wrong \subseteq spoiled'
    BY <2>2
  <2>4. /\ refused.text \in Texts /\ injects' \in Wire /\ WireInv'
        /\ refused.kind \in {"sendAnnounce", "sendNudge"}
        /\ refused.kind = "sendNudge" => refused.text \in Seq(Nudges)
        /\ \A a \in Announcements \ spoiled :
               Told(a, injects) = Told(a, injects') + Occurs(a, refused.text)
    BY <1>5, <2>1, <2>3
  <2>5. NudgeInv'
    BY <1>t, <1>5, <2>1 DEF NudgeInv
  <2>6. Misread(refused) => \/ ToSet(refused.text) \cup ToSet(injected)
                                   \subseteq spoiled'
    BY <2>3
  <2>7. ~Misread(refused) => IF last THEN refused.kind = "sendNudge"
                             ELSE refused.text = injected
    BY <2>4 DEF Misread
  <2> HIDE DEF refused, wrong
  <2>8. AnnTyped'
    BY <1>t, <2>1, <2>2, <2>4 DEF AnnTyped
  <2>9. PassedOn'
    BY <1>t, <2>1, <2>2, <2>3 DEF PassedOn
  <2>10. ASSUME NEW a \in Announcements \ spoiled'
         PROVE  Occurs(a, slot') = Occurs(a, slot) + Occurs(a, refused.text)
    <3>1. /\ slot \in Texts /\ injected \in Texts /\ Occurs(a, slot) \in Nat
          /\ Occurs(a, refused.text) \in Nat
      BY <1>t, <2>4, OccursIs DEF AnnTyped
    <3>2. a \notin spoiled' /\ a \in Announcements
      OBVIOUS
    <3>3. Misread(refused) => /\ Occurs(a, refused.text) = 0
                              /\ Occurs(a, injected) = 0
      BY <2>4, <2>6, <3>1, <3>2, OccursIs
    <3>4. CASE last /\ UNCHANGED slot
      <4>1. Occurs(a, refused.text) = 0
        BY <2>4, <2>7, <3>2, <3>3, <3>4, TextsAre
      <4> QED
        BY <3>1, <3>4, <4>1
    <3>5. CASE /\ ~last /\ slot' = injected
               /\ spoiled' = spoiled \cup wrong \cup ToSet(slot)
      <4>1. Occurs(a, slot) = 0
        BY <3>1, <3>2, <3>5, OccursIs
      <4> QED
        BY <2>7, <3>1, <3>3, <3>5, <4>1
    <3>6. CASE /\ UNCHANGED slot
               /\ spoiled' = spoiled \cup wrong \cup ToSet(refused.text)
      <4>1. Occurs(a, refused.text) = 0
        BY <2>4, <3>2, <3>6, OccursIs
      <4> QED
        BY <3>1, <3>6, <4>1
    <3> QED
      BY <2>2, <3>4, <3>5, <3>6
  <2>11. ASSUME NEW a \in Announcements \ spoiled'
         PROVE  said'[a] + Occurs(a, slot') + Occurs(a, caller'.text)
                + Occurs(a, ka'.text) + Told(a, injects')
                + Occurs(a, greeting') =
                said[a] + Occurs(a, slot) + Occurs(a, caller.text)
                + Occurs(a, ka.text) + Told(a, injects)
                + Occurs(a, greeting)
    <3>1. Occurs(a, refused.text) \in Nat /\ Told(a, injects') \in Nat
      BY <2>4, OccursIs, ToldCounts
    <3>2. Told(a, injects) = Told(a, injects') + Occurs(a, refused.text)
      BY <2>3, <2>4
    <3> QED
      BY <1>t, <2>1, <2>10, <3>1, <3>2, PlacesCount
  <2>12. OnceInv'
    BY <2>1, <2>3, <2>8, <2>11, MovesKeep
  <2> QED
    BY <2>4, <2>5, <2>8, <2>9, <2>12 DEF AnnInv
<1>8. CASE SocketGoes
  <2>1. /\ socket' = "down" /\ injects' = << >> /\ greeting' = NoText
        /\ UNCHANGED <<slot, stamp, nudge, injected, nudger, caller, ka,
                       announced, said>>
    BY <1>8 DEF SocketGoes
  <2>2. /\ spoiled \subseteq spoiled' /\ ToSet(greeting) \subseteq spoiled'
        /\ \A i \in DOMAIN injects : ToSet(injects[i].text) \subseteq spoiled'
    BY <1>8 DEF SocketGoes
  <2>3. AnnTyped'
    BY <1>t, <2>1, TextsAre DEF AnnTyped, Wire
  <2>4. PassedOn' /\ NudgeInv' /\ WireInv'
    BY <1>t, <2>1, <2>2 DEF PassedOn, NudgeInv, WireInv
  <2>5. ASSUME NEW a \in Announcements \ spoiled'
        PROVE  /\ Occurs(a, greeting) = 0
               /\ Told(a, injects) = 0 /\ Told(a, << >>) = 0
    <3>1. Occurs(a, greeting) = 0
      BY <1>t, <2>2, OccursIs DEF AnnTyped
    <3>2. {i \in DOMAIN injects : a \in ToSet(injects[i].text)} = {}
      BY <2>2
    <3>3. Told(a, injects) = 0
      BY <3>2, FS_EmptySet DEF Told
    <3>4. Told(a, << >>) = 0
      BY <1>t, ToldCounts DEF AnnTyped
    <3> QED
      BY <3>1, <3>3, <3>4
  <2>6. OnceInv'
    BY <1>o, <2>1, <2>2, <2>3, <2>5, MovesKeep
  <2> QED
    BY <2>3, <2>4, <2>6 DEF AnnInv
<1>9. CASE Cancels \/ LowersReady \/ dg_agent_stop
  BY <1>1, <1>9 DEF Cancels, LowersReady, dg_agent_stop
<1> QED
  BY <1>2, <1>3, <1>4, <1>6, <1>7, <1>8, <1>9 DEF AnnSocketStep

(* A retry comes due, and an announcement goes stale.                      *)
LEMMA TimersKeep ==
    ASSUME AnnInv, inject_retry_cb \/ Expires
    PROVE  AnnInv'
<1> USE DEF slots, session, tasks, server
<1>t. AnnTyped /\ PassedOn /\ NudgeInv /\ WireInv /\ OnceInv
  BY DEF AnnInv
<1>1. /\ UNCHANGED <<slot, nudge, injected, nudger, caller, ka, socket,
                     injects, greeting, announced, said>>
      /\ \/ UNCHANGED <<stamp, spoiled>>
         \/ stamp' = "stale" /\ spoiled' = spoiled \cup ToSet(slot)
  BY DEF inject_retry_cb, Expires, Spoils
<1>2. spoiled \subseteq spoiled'
  BY <1>1
<1>3. AnnTyped'
  BY <1>t, <1>1 DEF AnnTyped
<1>4. PassedOn' /\ NudgeInv' /\ WireInv'
  BY <1>t, <1>1, <1>2, WireKeeps DEF PassedOn, NudgeInv
<1>5. OnceInv'
  BY <1>1, <1>2, <1>3, MovesKeep
<1> QED
  BY <1>3, <1>4, <1>5 DEF AnnInv

(* Every announcement is said once, however many there are and however     *)
(* often the server refuses one or the session ends, but for what is known *)
(* to have been lost.                                                      *)
THEOREM AlwaysSaidOnce == AnnSpec => []SaidOnce
<1>1. AnnInit => AnnInv
  BY AnnStarts
<1>2. AnnInv /\ [AnnNext]_annvars => AnnInv'
  <2>1. ASSUME AnnInv, UNCHANGED annvars
        PROVE  AnnInv'
    <3>1. UNCHANGED <<slot, stamp, nudge, injected, socket, caller, nudger,
                      ka, injects, greeting, announced, said, spoiled>>
      BY <2>1 DEF annvars, slots, session, tasks, server
    <3> QED
      BY <2>1, <3>1 DEF AnnInv, AnnTyped, PassedOn, NudgeInv, WireInv,
                        OnceInv, Places, OnTheWire
  <2> QED
    BY <2>1, CallerKeeps, KeeperKeeps, SocketKeeps, TimersKeep DEF AnnNext
<1>3. AnnInv => SaidOnce
  BY DEF AnnInv, OnceInv, SaidOnce, AnnTyped
<1> QED
  BY <1>1, <1>2, <1>3, PTL DEF AnnSpec

(* No step puts an announcement in the slot, wakes the session up or lets  *)
(* the sender sleep without a poke, or one still to come.                  *)
LEMMA PokesKeep ==
    ASSUME PokeIsNotLost, [AnnNext]_annvars
    PROVE  PokeIsNotLost'
<1> USE DEF PokeIsNotLost, Waiting, Pending, Keeper, KeeperGoes, Emptied,
            slots, session, tasks, server
<1>1. ASSUME NEW b \in Announcements, dg_agent_announce(b)
      PROVE  PokeIsNotLost'
  BY <1>1 DEF dg_agent_announce
<1>2. CASE AnnouncePut
  BY <1>2 DEF AnnouncePut, announce_put
<1>3. CASE AnnouncePoke
  BY <1>3 DEF AnnouncePoke, Pokes
<1>4. ASSUME NEW n \in Nudges, dg_agent_nudge(n)
      PROVE  PokeIsNotLost'
  BY <1>4 DEF dg_agent_nudge
<1>5. CASE NudgePut \/ dg_agent_nudge_cancel
  BY <1>5 DEF NudgePut, dg_agent_nudge_cancel
<1>6. CASE KaWakes \/ announce_take \/ nudge_take \/ Marks \/ Sends
  <2>1. ~Waiting'
    BY <1>6 DEF KaWakes, announce_take, nudge_take, Marks, Sends
  <2> QED
    BY <2>1
<1>7. CASE TakesNothing
  BY <1>7 DEF TakesNothing, CanInject
<1>8. CASE Again
  BY <1>8 DEF Again
<1>9. ASSUME NEW history \in BOOLEAN, send_settings(history)
      PROVE  PokeIsNotLost'
  BY <1>9 DEF send_settings
<1>10. CASE AnnApplied \/ SettingsPoke
  BY <1>10 DEF AnnApplied, SettingsPoke
<1>11. CASE Accepts \/ InjectionRefused
  BY <1>11 DEF Accepts, InjectionRefused
<1>12. CASE SocketGoes \/ Cancels \/ LowersReady \/ dg_agent_stop
  BY <1>12 DEF SocketGoes, Cancels, LowersReady, dg_agent_stop
<1>13. CASE inject_retry_cb \/ Expires
  BY <1>13 DEF inject_retry_cb, Expires
<1>14. CASE UNCHANGED annvars
  BY <1>14 DEF annvars
<1> QED
  BY <1>1, <1>2, <1>3, <1>4, <1>5, <1>6, <1>7, <1>8, <1>9, <1>10, <1>11,
     <1>12, <1>13, <1>14
     DEF AnnNext, CallerStep, KeepaliveStep, AnnSocketStep

(* No poke is ever lost, whatever comes between the slot and the sender.   *)
THEOREM PokeIsNeverLost == AnnSpec => []PokeIsNotLost
<1>1. AnnInit => PokeIsNotLost
  BY DEF AnnInit, PokeIsNotLost, Pending
<1> QED
  BY <1>1, PokesKeep, PTL DEF AnnSpec
=============================================================================
