---------------------------- MODULE MCUnattended ----------------------------
(***************************************************************************)
(* What must come right when nobody attends to it, and what nobody must be *)
(* able to upset: the network's way back to a session, the conversation's  *)
(* debounced save, the BOOT button of a device that rings, and the codec's *)
(* two halves.  A behaviour is one of one of them from its first state on; *)
(* they share no state.                                                    *)
(***************************************************************************)
EXTENDS Network, History, BootButton, AudioLink

VARIABLE part

(* What the others choose at random is fixed, so that no state is met once *)
(* for each choice.                                                        *)
MCInit ==
    /\ part \in {"network", "history", "button", "codec"}
    /\ NetInit /\ Init /\ BtnInit /\ LinkInit
    /\ part # "network" => air = {}
    /\ part # "button" => ~denoise

MCNext ==
    /\ UNCHANGED part
    /\ \/ /\ part = "network" /\ NetNext
          /\ UNCHANGED <<vars, btnvars, linkvars>>
       \/ /\ part = "history" /\ Next
          /\ UNCHANGED <<netvars, btnvars, linkvars>>
       \/ /\ part = "button" /\ BtnNext
          /\ UNCHANGED <<netvars, vars, linkvars>>
       \/ /\ part = "codec" /\ LinkNext
          /\ UNCHANGED <<netvars, vars, btnvars>>

(* The fairness of two of them, asked of the behaviours that are theirs.   *)
OfNetwork(A) == part = "network" /\ A
OfHistory(A) == part = "history" /\ A

MCFairness ==
    /\ WF_netvars(OfNetwork(Main)) /\ WF_netvars(OfNetwork(EventTask))
    /\ WF_netvars(OfNetwork(Driver)) /\ WF_netvars(OfNetwork(Handler))
    /\ WF_netvars(OfNetwork(Restarts)) /\ WF_netvars(OfNetwork(wifi_prov_run))
    /\ \A t \in Tasks : WF_vars(OfHistory(CallStep(t)))
    /\ WF_vars(OfHistory(CopyArena)) /\ WF_vars(OfHistory(GiveUp))
    /\ WF_vars(OfHistory(SaveSucceeds \/ SaveFails))
    /\ WF_vars(OfHistory(Tick)) /\ WF_vars(OfHistory(FlushTimer))
    /\ WF_vars(OfHistory(FlushAsked)) /\ WF_vars(OfHistory(Stopped))

MCSpec ==
    /\ MCInit /\ [][MCNext]_<<part, netvars, vars, btnvars, linkvars>>
    /\ MCFairness
=============================================================================
