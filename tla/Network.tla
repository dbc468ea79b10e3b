------------------------------ MODULE Network ------------------------------
(***************************************************************************)
(* The way onto a network: app_main()'s boot (main.c), the station         *)
(* (wifi_sta.c), the setup portal (wifi_prov.c) and what they keep in NVS  *)
(* (wifi_creds.c, api_key.c), with networks that come and go and power     *)
(* that may fail inside a save.                                            *)
(***************************************************************************)
EXTENDS Naturals, Sequences

CONSTANTS
    None,         \* no network, no key
    Networks,     \* with one passphrase each
    Seed,         \* CONFIG_WIFI_SSID: a network or None
    MAX_RETRY,    \* CONFIG_WIFI_MAX_RETRY
    MaxVisits,    \* bound: forms sent to the portal
    MaxOutages,   \* bound: networks going away
    MaxPowerLosses,    \* bound: losses of power
    MaxHolds      \* bound: BOOT held for three seconds

ASSUME NetworkAssumption ==
    /\ None \notin Networks /\ Seed \in Networks \union {None}
    /\ MAX_RETRY \in Nat

VARIABLES
    nvs,         \* the saved network's name and passphrase, and the key
    boot,        \* where app_main() is
    target,      \* the network wifi_sta_start() was given
    connecting,  \* s_connecting
    retries,     \* s_retries
    bits,        \* s_events
    events,      \* the event loop's queue
    link,        \* the driver: "idle", "joining" or "joined"
    form,        \* save_handler(): where it is, and the form's fields
    saved,       \* history: the network the page last said was saved
    restart,     \* restart_cb() is armed, by the portal or the button
    air,         \* the networks that can be joined
    budget       \* bounds the run

station == <<target, connecting, retries, bits, events, link>>
portal  == <<form, saved>>
netvars == <<nvs, boot, station, portal, restart, air, budget>>

NoForm == [at |-> "idle", net |-> None, key |-> FALSE]

Loaded == IF nvs.ssid # None THEN [ssid |-> nvs.ssid, pass |-> nvs.pass]
                             ELSE [ssid |-> Seed, pass |-> Seed]

Joinable(n) == n.ssid \in air /\ n.pass = n.ssid

-----------------------------------------------------------------------------
(***************************************************************************)
(* app_main(), from the credentials to the loop.                           *)
(***************************************************************************)
WithoutCredentials ==
    /\ boot = "start" /\ Loaded.ssid = None
    /\ boot' = "portalStart"
    /\ UNCHANGED <<nvs, station, portal, restart, air, budget>>

(* esp_wifi_start() raises STA_START.                                      *)
wifi_sta_start ==
    /\ boot = "start" /\ Loaded.ssid # None
    /\ boot' = "wait" /\ target' = Loaded
    /\ connecting' = TRUE /\ retries' = 0 /\ bits' = {}
    /\ events' = Append(events, "start")
    /\ UNCHANGED <<nvs, link, portal, restart, air, budget>>

(* A network in reach is joined within WIFI_CONNECT_TIMEOUT_MS.            *)
wifi_sta_wait_connected ==
    /\ boot = "wait"
    /\ \/ "connected" \in bits /\ boot' = "session"
       \/ "connected" \notin bits /\ "failed" \in bits /\ boot' = "stop"
       \/ bits = {} /\ ~Joinable(target) /\ boot' = "stop"
    /\ UNCHANGED <<nvs, station, portal, restart, air, budget>>

(* Without a key dg_agent_init() fails, and app_main() aborts.             *)
session_ctl_start ==
    /\ boot = "session"
    /\ boot' = IF nvs.key THEN "run" ELSE "abort"
    /\ UNCHANGED <<nvs, station, portal, restart, air, budget>>

(* Mutant: the station is shut down before it is told to stay down.        *)
StopConnectingLast == boot = "stop" /\ UNCHANGED <<connecting, retries>>

StopConnecting == boot = "stop" /\ connecting' = FALSE /\ retries' = 0

(* wifi_sta_stop().                                                        *)
wifi_sta_stop ==
    /\ StopConnecting
    /\ boot' = "stopped"
    /\ UNCHANGED <<nvs, target, bits, events, link, portal, restart, air,
                   budget>>

esp_wifi_stop ==
    /\ boot = "stopped" /\ boot' = "portalStart"
    /\ link' = "idle" /\ bits' = {}
    /\ events' = IF link = "idle" THEN events
                                  ELSE Append(events, "disconnected")
    /\ UNCHANGED <<nvs, target, connecting, retries, portal, restart, air,
                   budget>>

(* In APSTA mode esp_wifi_start() raises STA_START too.                    *)
wifi_prov_start ==
    /\ boot = "portalStart" /\ boot' = "portal"
    /\ events' = Append(events, "start")
    /\ UNCHANGED <<nvs, target, connecting, retries, bits, link, portal,
                   restart, air, budget>>

-----------------------------------------------------------------------------
(***************************************************************************)
(* on_wifi_event(), on the event task, one event at a time.                *)
(***************************************************************************)
esp_wifi_connect == link' = IF link = "idle" THEN "joining" ELSE link

STA_START ==
    /\ events # << >> /\ Head(events) = "start"
    /\ events' = Tail(events)
    /\ IF connecting THEN esp_wifi_connect ELSE UNCHANGED link
    /\ UNCHANGED <<nvs, boot, target, connecting, retries, bits, portal,
                   restart, air, budget>>

STA_DISCONNECTED ==
    /\ events # << >> /\ Head(events) = "disconnected"
    /\ events' = Tail(events)
    /\ \/ ~connecting /\ UNCHANGED <<retries, bits, link>>
       \/ /\ connecting /\ retries < MAX_RETRY
          /\ retries' = retries + 1 /\ esp_wifi_connect
          /\ UNCHANGED bits
       \/ /\ connecting /\ retries >= MAX_RETRY
          /\ bits' = bits \union {"failed"}
          /\ UNCHANGED <<retries, link>>
    /\ UNCHANGED <<nvs, boot, target, connecting, portal, restart, air,
                   budget>>

STA_GOT_IP ==
    /\ events # << >> /\ Head(events) = "got_ip"
    /\ events' = Tail(events)
    /\ retries' = 0 /\ bits' = bits \union {"connected"}
    /\ UNCHANGED <<nvs, boot, target, connecting, link, portal, restart, air,
                   budget>>

(* The driver, with the network there or not.                              *)
Joins ==
    /\ link = "joining" /\ Joinable(target)
    /\ link' = "joined" /\ events' = Append(events, "got_ip")
    /\ UNCHANGED <<nvs, boot, target, connecting, retries, bits, portal,
                   restart, air, budget>>

JoinFails ==
    /\ link \in {"joining", "joined"} /\ ~Joinable(target)
    /\ link' = "idle" /\ events' = Append(events, "disconnected")
    /\ UNCHANGED <<nvs, boot, target, connecting, retries, bits, portal,
                   restart, air, budget>>

-----------------------------------------------------------------------------
(***************************************************************************)
(* save_handler(): the name, the passphrase and the key are writes of      *)
(* their own; the answer comes first, the restart a second later.          *)
(***************************************************************************)
BootAt(pc) == form.at = pc
BootGoes(pc) == form' = [form EXCEPT !.at = pc]

(* Mutant: a blank key is accepted whether or not one is stored.           *)
AcceptableBlank(net, key) == TRUE

Acceptable(net, key) == key \/ nvs.key

save_handler(net, key) ==
    /\ boot = "portal" /\ BootAt("idle")
    /\ budget.visits < MaxVisits
    /\ budget' = [budget EXCEPT !.visits = @ + 1]
    /\ form' = IF Acceptable(net, key)
               THEN [at |-> "ssid", net |-> net, key |-> key] ELSE NoForm
    /\ saved' = None
    /\ UNCHANGED <<nvs, boot, station, restart, air>>

(* A write that fails is answered 500, and nothing is armed.               *)
Refused == form' = NoForm /\ UNCHANGED <<nvs, saved, restart>>

SaveSsid ==
    /\ BootAt("ssid")
    /\ \/ nvs' = [nvs EXCEPT !.ssid = form.net] /\ BootGoes("pass")
          /\ UNCHANGED <<saved, restart>>
       \/ Refused
    /\ UNCHANGED <<boot, station, air, budget>>

SavePass ==
    /\ BootAt("pass")
    /\ \/ nvs' = [nvs EXCEPT !.pass = form.net] /\ BootGoes("key")
          /\ UNCHANGED <<saved, restart>>
       \/ Refused
    /\ UNCHANGED <<boot, station, air, budget>>

api_key_save ==
    /\ BootAt("key")
    /\ \/ nvs' = [nvs EXCEPT !.key = @ \/ form.key] /\ BootGoes("answer")
          /\ UNCHANGED <<saved, restart>>
       \/ form.key /\ Refused
    /\ UNCHANGED <<boot, station, air, budget>>

(* A network forgotten while its form was being saved promises nothing.     *)
Answers ==
    /\ BootAt("answer") /\ form' = NoForm
    /\ saved' = (IF restart THEN None ELSE form.net) /\ restart' = TRUE
    /\ UNCHANGED <<nvs, boot, station, air, budget>>

(* on_forget_wifi() erases the name and then the passphrase.               *)
ButtonForgets ==
    /\ budget.holds < MaxHolds /\ budget' = [budget EXCEPT !.holds = @ + 1]
    /\ nvs' = [nvs EXCEPT !.ssid = None, !.pass = None]
    /\ saved' = None /\ restart' = TRUE
    /\ UNCHANGED <<boot, station, form, air>>

-----------------------------------------------------------------------------
Restarted ==
    /\ boot' = "start" /\ target' = [ssid |-> None, pass |-> None]
    /\ connecting' = FALSE /\ retries' = 0 /\ bits' = {} /\ events' = << >>
    /\ link' = "idle" /\ form' = NoForm /\ restart' = FALSE
    /\ UNCHANGED <<nvs, saved, air>>

Restarts == restart /\ Restarted /\ UNCHANGED budget

(* Mutant: the portal waits for a visitor for ever.                        *)
NeverIdles == FALSE /\ Restarted /\ UNCHANGED budget

(* wifi_prov_run(): PROV_IDLE_TIMEOUT_MS after the last request.           *)
wifi_prov_run ==
    boot = "portal" /\ BootAt("idle") /\ Restarted /\ UNCHANGED budget

Abort == boot = "abort" /\ Restarted /\ UNCHANGED budget

PowerGoes ==
    /\ budget.losses < MaxPowerLosses
    /\ budget' = [budget EXCEPT !.losses = @ + 1]
    /\ Restarted

NetworkGoes(n) ==
    /\ n \in air /\ air' = air \ {n}
    /\ budget.outages < MaxOutages
    /\ budget' = [budget EXCEPT !.outages = @ + 1]
    /\ UNCHANGED <<nvs, boot, station, portal, restart>>

NetworkComes(n) ==
    /\ n \notin air /\ air' = air \union {n}
    /\ UNCHANGED <<nvs, boot, station, portal, restart, budget>>

-----------------------------------------------------------------------------
NetInit ==
    /\ nvs = [ssid |-> None, pass |-> None, key |-> FALSE]
    /\ boot = "start" /\ target = [ssid |-> None, pass |-> None]
    /\ connecting = FALSE /\ retries = 0 /\ bits = {} /\ events = << >>
    /\ link = "idle" /\ form = NoForm /\ saved = None /\ restart = FALSE
    /\ air \in SUBSET Networks
    /\ budget = [visits |-> 0, outages |-> 0, losses |-> 0, holds |-> 0]

Main == WithoutCredentials \/ wifi_sta_start \/ wifi_sta_wait_connected
        \/ session_ctl_start \/ wifi_sta_stop \/ esp_wifi_stop
        \/ wifi_prov_start \/ Abort

EventTask == STA_START \/ STA_DISCONNECTED \/ STA_GOT_IP

Driver == Joins \/ JoinFails

Handler == SaveSsid \/ SavePass \/ api_key_save \/ Answers

NetNext ==
    \/ Main \/ EventTask \/ Driver \/ Handler \/ Restarts \/ wifi_prov_run
    \/ \E n \in Networks, key \in BOOLEAN : save_handler(n, key)
    \/ ButtonForgets \/ PowerGoes
    \/ \E n \in Networks : NetworkGoes(n) \/ NetworkComes(n)

(* Tasks run, the driver answers, timers fire; nobody need visit.          *)
NetFairness ==
    /\ WF_netvars(Main) /\ WF_netvars(EventTask) /\ WF_netvars(Driver)
    /\ WF_netvars(Handler) /\ WF_netvars(Restarts)
    /\ WF_netvars(wifi_prov_run)

NetSpec == NetInit /\ [][NetNext]_netvars

FairNetSpec == NetSpec /\ NetFairness
-----------------------------------------------------------------------------
(* While the portal has the radio the station's retries and STA_START do   *)
(* not connect underneath it (wifi_sta.h, wifi_sta_stop()).                *)
PortalIsLeftAlone == boot = "portal" => link = "idle"

(* When the page has said "saved", the name, the passphrase and a key are  *)
(* all there for the restart to find, whatever form failed before it and   *)
(* whenever the power went (save_handler()).                               *)
SavedIsWhole ==
    saved # None => nvs.ssid = saved /\ nvs.pass = saved /\ nvs.key

Usable == Loaded.ssid # None /\ Joinable(Loaded) /\ nvs.key

(* A device whose network is back, however long it was away at boot, gets  *)
(* past the portal by itself (wifi_prov_run()).                            *)
BootRecovers == <>[]Usable => []<>(boot = "run")

(* "A device that loses its network for ten minutes recovers by itself"    *)
(* (docs/wifi-setup.md:222).                                               *)
RecoversByItself == <>[]Usable => []<>(link = "joined")
=============================================================================
