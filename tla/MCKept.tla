------------------------------- MODULE MCKept -------------------------------
(***************************************************************************)
(* What must not be lost on its way: the record in the ring of sectors,    *)
(* and what the agent has to say unasked.  A behaviour is one of one of    *)
(* them from its first state on; they share no state.  alarms.c's texts    *)
(* are alike to dg_agent.c.                                                *)
(***************************************************************************)
EXTENDS HistoryStore, Announce

VARIABLE part

Alike == Permutations(Announcements)

MCInit == part \in {"record", "announcing"} /\ StoreInit /\ AnnInit

MCNext ==
    /\ UNCHANGED part
    /\ \/ part = "record" /\ StoreNext /\ UNCHANGED annvars
       \/ part = "announcing" /\ AnnNext /\ UNCHANGED storevars

MCSpec == MCInit /\ [][MCNext]_<<part, storevars, annvars>>
=============================================================================
