----------------------------- MODULE MCGestures -----------------------------
(***************************************************************************)
(* Gestures with two sets of events, and the panel that sleeps under them, *)
(* in one run: a behaviour has one of them from its first state on.  In    *)
(* "interrupting" the configuration's events; in "forgetting" these, all   *)
(* that puts up an offer or takes it down; in "panel" it is one of         *)
(* DeepIdle, which shares no state with Gestures.                          *)
(***************************************************************************)
EXTENDS Gestures, DeepIdle

VARIABLE part

Forgetting ==
    INSTANCE Gestures WITH Presses   <- {"tap", "hold", "boot", "alarm"},
                           AgentDoes <- {"text", "done"}

MCInit ==
    /\ part \in {"interrupting", "forgetting", "panel"}
    /\ Init /\ DeepInit

MCNext ==
    /\ UNCHANGED part
    /\ \/ part = "interrupting" /\ Next /\ UNCHANGED deepvars
       \/ part = "forgetting" /\ Forgetting!Next /\ UNCHANGED deepvars
       \/ part = "panel" /\ DeepNext /\ UNCHANGED vars

(* The fairness of each, asked of the behaviours that are its own.         *)
OfGestures(A) == part # "panel" /\ A
OfPanel(A)    == part = "panel" /\ A

MCFairness ==
    /\ WF_vars(OfGestures(Tick)) /\ WF_vars(OfGestures(Drained))
    /\ WF_vars(OfGestures(GestureStep)) /\ WF_vars(OfGestures(LoopStep))
    /\ WF_vars(OfGestures(WorkerStep))
    /\ \A t \in {"ws", "loop"} : WF_vars(OfGestures(EndStep(t)))
    /\ WF_deepvars(OfPanel(frame_timer_cb))
    /\ WF_deepvars(OfPanel(deep_idle_enter \/ ArmTouch \/ PauseThenFlag
                            \/ LastLook))
    /\ WF_deepvars(OfPanel(deep_idle_waker))
    /\ WF_deepvars(OfPanel(MainLoop))

MCSpec == MCInit /\ [][MCNext]_<<part, vars, deepvars>> /\ MCFairness
=============================================================================
