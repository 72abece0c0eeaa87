--------------------------- MODULE RegisterCenter ---------------------------
(***************************************************************************)
(* The gateway's RegisterCenter protocol (src/Common/RegisterCenter/       *)
(* RegisterCenter.go) and the lifecycle that drives it                    *)
(* (src/GateWay/Application.go: Start), composed with the UnifiedClient of *)
(* the one dependency it watches (module UnifiedClient, instantiated).     *)
(*                                                                         *)
(* Goroutines that call updateClient, hence updateAddr:                    *)
(*   Main      Application.Start: Online() applies the registry's reply,  *)
(*             starts the cron, serves, and on a signal calls Offline();  *)
(*   Checker   the 30 s cron job check(): reports si_map, applies a reply  *)
(*             that is not "ok";                                           *)
(*   Handlers  gRPC handlers of inbound Notify requests.                   *)
(* The 3 s cron job ping() calls no updateAddr; it is a variable of its    *)
(* own.  A cron job runs in a goroutine of its own per tick; with a 500 ms *)
(* timeout per RPC a job ends long before the next tick, so each job has   *)
(* one goroutine here.                                                     *)
(*                                                                         *)
(* The registry is not part of this repository.  Its side is modelled     *)
(* from the specification (section 4.6): the current ServiceInfo of each   *)
(* address of the dependency with a version counter, a Notify to this     *)
(* process for every change while it is registered, replies to Online and *)
(* Check carrying its current view, and Check replying "ok" when the       *)
(* reported watch list equals its view.  Messages between the two are     *)
(* unordered; any RPC may fail (timeout, transport error), at most         *)
(* MaxFailures times in a behaviour.                                       *)
(***************************************************************************)
EXTENDS Integers, FiniteSets

CONSTANTS
  Callers, Addrs, Infos, RelySemver, DefaultWeight, MaxWeight, MaxCalls,
  NoInfo,
  Main,          \* the goroutine of Application.Start
  Checker,       \* the goroutine of the check cron job
  Handlers,      \* goroutines serving inbound Notify requests
  RegInit,       \* the registry's view when the gateway starts
  MaxChanges,    \* bound on changes of the registry's view
  MaxFailures    \* bound on failed or lost RPCs

VARIABLES
  si_map, addrs, nodes, pushed, pc, cur, idx, cnt, snap, calls,
  siVer,      \* registry version of the ServiceInfo in si_map (history)
  phase,      \* where Application.Start / Online / Offline is
  status,     \* regCenter.serviceInfo.Status
  cron,       \* the crontab is started
  todo,       \* goroutine -> entries of a reply still to pass to updateClient
  chk,        \* check job: "idle" or "sent" (request in flight)
  req,        \* the watch list the check request carries
  ping,       \* ping job: "idle" or the status its request carries
  offReq,     \* the Offline request is in flight
  regInfo,    \* registry: addr -> current ServiceInfo (NoInfo: unknown)
  regVer,     \* registry: addr -> version of regInfo
  registered, \* registry: this gateway is registered and gets Notify
  served,     \* registry: the Online request has been served
  heard,      \* status carried by the last request the registry received
  net,        \* Notify requests in flight
  changes, fails

UC == INSTANCE UnifiedClient

ucVars == <<si_map, addrs, nodes, pushed, pc, cur, idx, cnt, snap, calls>>
rcVars == <<siVer, phase, status, cron, todo, chk, req, ping, offReq,
            regInfo, regVer, registered, served, heard, net,
            changes, fails>>
vars == <<ucVars, rcVars>>

RCAssumption ==
  /\ Callers = {Main, Checker} \cup Handlers
  /\ Main # Checker /\ Main \notin Handlers /\ Checker \notin Handlers
  /\ RegInit \in [Addrs -> Infos \cup {NoInfo}]
  /\ \A a \in Addrs : RegInit[a] # NoInfo => RegInit[a].addr = a
  /\ MaxCalls = 0
  /\ {MaxChanges, MaxFailures} \subseteq Nat
ASSUME RCAssumption

\* A ServiceInfo the registry sends, with the version it had there.
Entry == [info : Infos, ver : Nat]

\* The registry's view as a watch list (Online and Check replies).
RegList == {[info |-> regInfo[a], ver |-> regVer[a]] :
              a \in {b \in Addrs : regInfo[b] # NoInfo}}

Phases == {"init", "online_sent", "online_apply", "serving", "quitting",
           "stopping", "offline_sent", "stopped", "exited"}

\* Phases in which the HTTP server, hence the gRPC handler, serves.
Serving == {"serving", "quitting", "stopping", "offline_sent"}

TypeOK ==
  /\ UC!TypeOK
  /\ siVer \in [Addrs -> Nat]
  /\ phase \in Phases
  /\ status \in UC!Statuses
  /\ cron \in BOOLEAN
  /\ todo \in [Callers -> SUBSET Entry]
  /\ chk \in {"idle", "sent"}
  /\ req \in [Addrs -> Infos \cup {NoInfo}]
  /\ ping \in {"idle"} \cup UC!Statuses
  /\ offReq \in BOOLEAN
  /\ regInfo \in [Addrs -> Infos \cup {NoInfo}]
  /\ regVer \in [Addrs -> Nat]
  /\ registered \in BOOLEAN /\ served \in BOOLEAN
  /\ heard \in {"none"} \cup UC!Statuses
  /\ net \subseteq Entry
  /\ changes \in 0..MaxChanges
  /\ fails \in 0..MaxFailures

Init ==
  /\ UC!Init
  /\ siVer = [a \in Addrs |-> 0]
  /\ phase = "init"
  /\ status = "Online"
  /\ cron = FALSE
  /\ todo = [t \in Callers |-> {}]
  /\ chk = "idle"
  /\ req = [a \in Addrs |-> NoInfo]
  /\ ping = "idle"
  /\ offReq = FALSE
  /\ regInfo = RegInit
  /\ regVer = [a \in Addrs |-> 0]
  /\ registered = FALSE /\ served = FALSE
  /\ heard = "none"
  /\ net = {}
  /\ changes = 0 /\ fails = 0

\* An RPC fails or a request is lost, within the bound.
Fail == fails < MaxFailures /\ fails' = fails + 1

(***************************************************************************)
(* updateClient(serviceInfo) for the next entry of the goroutine's list:   *)
(* the dependency's client is found and updateAddr starts; its steps are   *)
(* UC!Work.  Entries of a list are applied one after the other, in the    *)
(* list's order, which the registry chooses: any order.                   *)
(***************************************************************************)
ApplyInfo(t) ==
  /\ t = Main => phase = "online_apply"
  /\ \E e \in todo[t] :
       /\ UC!UpdateAddrStart(t, e.info)
       /\ siVer' = [siVer EXCEPT ![e.info.addr] = e.ver]
       /\ todo' = [todo EXCEPT ![t] = @ \ {e}]
  /\ UNCHANGED <<calls, phase, status, cron, chk, req, ping, offReq,
                 regInfo, regVer, registered, served, heard, net,
                 changes, fails>>

\* A goroutine inside updateAddr takes its next step.
UpdateStep(t) ==
  /\ UC!Work(t)
  /\ UNCHANGED rcVars

(***************************************************************************)
(* Application.Start and RegisterCenter.Online / Offline (Main).           *)
(***************************************************************************)

\* net.Listen fails: Start returns before contacting the registry.
ListenFailed ==
  /\ phase = "init"
  /\ phase' = "exited"
  /\ UNCHANGED <<ucVars, siVer, status, cron, todo, chk, req, ping, offReq,
                 regInfo, regVer, registered, served, heard, net,
                 changes, fails>>

\* Listen succeeds; online() sends the Online request.
OnlineSend ==
  /\ phase = "init"
  /\ phase' = "online_sent"
  /\ UNCHANGED <<ucVars, siVer, status, cron, todo, chk, req, ping, offReq,
                 regInfo, regVer, registered, served, heard, net,
                 changes, fails>>

\* The registry serves Online: it registers the gateway for Notify and
\* replies with its current watch list.
RegOnline ==
  /\ phase = "online_sent" /\ ~served
  /\ served' = TRUE /\ registered' = TRUE
  /\ heard' = status
  /\ todo' = [todo EXCEPT ![Main] = RegList]
  /\ UNCHANGED <<ucVars, siVer, phase, status, cron, chk, req, ping,
                 offReq, regInfo, regVer, net, changes, fails>>

\* online() gets the reply: the watch list as the registry served it.
OnlineRecv ==
  /\ phase = "online_sent" /\ served
  /\ phase' = "online_apply"
  /\ UNCHANGED <<ucVars, siVer, status, cron, todo, chk, req, ping, offReq,
                 regInfo, regVer, registered, served, heard, net,
                 changes, fails>>

\* online() fails (timeout, transport error): Start closes the listener and
\* returns, whether or not the registry served the request.
OnlineFail ==
  /\ phase = "online_sent"
  /\ Fail
  /\ phase' = "exited" /\ todo' = [todo EXCEPT ![Main] = {}]
  /\ UNCHANGED <<ucVars, siVer, status, cron, chk, req, ping, offReq,
                 regInfo, regVer, registered, served, heard, net,
                 changes>>

\* The reply's entries are applied: Online starts the crontab and Start
\* serves.
CronStart ==
  /\ phase = "online_apply" /\ todo[Main] = {} /\ pc[Main] = "idle"
  /\ phase' = "serving" /\ cron' = TRUE
  /\ UNCHANGED <<ucVars, siVer, status, todo, chk, req, ping, offReq,
                 regInfo, regVer, registered, served, heard, net,
                 changes, fails>>

\* A quit signal: Offline writes serviceInfo.Status.
Quit ==
  /\ phase = "serving"
  /\ phase' = "quitting" /\ status' = "Offline"
  /\ UNCHANGED <<ucVars, siVer, cron, todo, chk, req, ping, offReq,
                 regInfo, regVer, registered, served, heard, net,
                 changes, fails>>

\* crontab.Stop(): no new tick; a job already running is not waited for.
CronStop ==
  /\ phase = "quitting"
  /\ phase' = "stopping" /\ cron' = FALSE
  /\ UNCHANGED <<ucVars, siVer, status, todo, chk, req, ping, offReq,
                 regInfo, regVer, registered, served, heard, net,
                 changes, fails>>

\* offline() sends the Offline request.
OfflineSend ==
  /\ phase = "stopping"
  /\ phase' = "offline_sent" /\ offReq' = TRUE
  /\ UNCHANGED <<ucVars, siVer, status, cron, todo, chk, req, ping,
                 regInfo, regVer, registered, served, heard, net,
                 changes, fails>>

\* The registry serves Offline: the gateway is unregistered.
RegOffline ==
  /\ offReq
  /\ offReq' = FALSE /\ registered' = FALSE
  /\ heard' = status
  /\ UNCHANGED <<ucVars, siVer, phase, status, cron, todo, chk, req, ping,
                 regInfo, regVer, served, net, changes, fails>>

\* The Offline request is lost.
OfflineLost ==
  /\ offReq /\ Fail
  /\ offReq' = FALSE
  /\ UNCHANGED <<ucVars, siVer, phase, status, cron, todo, chk, req, ping,
                 regInfo, regVer, registered, served, heard, net,
                 changes>>

\* Offline returns (its error is ignored) and Start shuts the servers down.
Stopped ==
  /\ phase = "offline_sent" /\ ~offReq
  /\ phase' = "stopped"
  /\ UNCHANGED <<ucVars, siVer, status, cron, todo, chk, req, ping, offReq,
                 regInfo, regVer, registered, served, heard, net,
                 changes, fails>>

(***************************************************************************)
(* The cron jobs.                                                          *)
(***************************************************************************)

\* ping(): marshals serviceInfo (its Status as it is now) and sends.
PingSend ==
  /\ cron /\ ping = "idle"
  /\ ping' = status
  /\ UNCHANGED <<ucVars, siVer, phase, status, cron, todo, chk, req, offReq,
                 regInfo, regVer, registered, served, heard, net,
                 changes, fails>>

\* The registry receives the ping.
PingRecv ==
  /\ ping # "idle"
  /\ heard' = ping /\ ping' = "idle"
  /\ UNCHANGED <<ucVars, siVer, phase, status, cron, todo, chk, req, offReq,
                 regInfo, regVer, registered, served, net,
                 changes, fails>>

\* The ping fails; it is logged and retried at the next tick.
PingFail ==
  /\ ping # "idle" /\ Fail
  /\ ping' = "idle"
  /\ UNCHANGED <<ucVars, siVer, phase, status, cron, todo, chk, req, offReq,
                 regInfo, regVer, registered, served, heard, net,
                 changes>>

\* check(): getWatchServiceInfo copies si_map under the read lock; the
\* request is sent.
CheckSend ==
  /\ cron /\ chk = "idle" /\ todo[Checker] = {} /\ pc[Checker] = "idle"
  /\ chk' = "sent" /\ req' = si_map
  /\ UNCHANGED <<ucVars, siVer, phase, status, cron, todo, ping, offReq,
                 regInfo, regVer, registered, served, heard, net,
                 changes, fails>>

\* Bug variant of CheckReply: a reply other than "ok" is not applied.
CheckReplyIgnored ==
  /\ chk = "sent"
  /\ chk' = "idle"
  /\ UNCHANGED <<ucVars, siVer, phase, status, cron, todo, req, ping, offReq,
                 regInfo, regVer, registered, served, heard, net,
                 changes, fails>>

\* The registry answers "ok" when the report equals its view, else its
\* watch list, which check() passes to updateClient entry by entry.
CheckReply ==
  /\ chk = "sent"
  /\ chk' = "idle"
  /\ todo' = [todo EXCEPT ![Checker] = IF req = regInfo THEN {} ELSE RegList]
  /\ UNCHANGED <<ucVars, siVer, phase, status, cron, req, ping, offReq,
                 regInfo, regVer, registered, served, heard, net,
                 changes, fails>>

\* The check fails; it is logged and retried at the next tick.
CheckFail ==
  /\ chk = "sent" /\ Fail
  /\ chk' = "idle"
  /\ UNCHANGED <<ucVars, siVer, phase, status, cron, todo, req, ping, offReq,
                 regInfo, regVer, registered, served, heard, net,
                 changes>>

(***************************************************************************)
(* Notify, and the environment: registry changes and losses.              *)
(***************************************************************************)

\* OnNotify: a handler decodes the request and calls updateClient.
NotifyRecv(h) ==
  /\ phase \in Serving /\ pc[h] = "idle" /\ todo[h] = {}
  /\ \E m \in net : net' = net \ {m} /\ todo' = [todo EXCEPT ![h] = {m}]
  /\ UNCHANGED <<ucVars, siVer, phase, status, cron, chk, req, ping, offReq,
                 regInfo, regVer, registered, served, heard,
                 changes, fails>>

\* A Notify request is lost.
NotifyLost ==
  /\ Fail
  /\ \E m \in net : net' = net \ {m}
  /\ UNCHANGED <<ucVars, siVer, phase, status, cron, todo, chk, req, ping,
                 offReq, regInfo, regVer, registered, served, heard,
                 changes>>

\* A node of the dependency changes at the registry; a registered gateway
\* is sent a Notify.
RegChange(si) ==
  LET a == si.addr IN
  /\ changes < MaxChanges /\ si # regInfo[a]
  /\ changes' = changes + 1
  /\ regInfo' = [regInfo EXCEPT ![a] = si]
  /\ regVer' = [regVer EXCEPT ![a] = @ + 1]
  /\ net' = IF registered THEN net \cup {[info |-> si, ver |-> regVer[a] + 1]}
                          ELSE net
  /\ UNCHANGED <<ucVars, siVer, phase, status, cron, todo, chk, req, ping,
                 offReq, registered, served, heard, fails>>

\* Nothing is left to do: the gateway has stopped or exited and every
\* goroutine has returned.
Done ==
  /\ phase \in {"stopped", "exited"}
  /\ UC!Quiescent /\ \A t \in Callers : todo[t] = {}
  /\ chk = "idle" /\ ping = "idle" /\ ~offReq
  /\ UNCHANGED vars

Goroutine(t) == ApplyInfo(t) \/ UpdateStep(t)

MainStep ==
  \/ OnlineSend \/ OnlineRecv \/ CronStart \/ CronStop \/ OfflineSend
  \/ Stopped

Jobs == PingSend \/ PingRecv \/ CheckSend \/ CheckReply

Next ==
  \/ \E t \in Callers : Goroutine(t)
  \/ MainStep \/ ListenFailed \/ OnlineFail \/ Quit
  \/ RegOnline \/ RegOffline \/ OfflineLost
  \/ Jobs \/ PingFail \/ CheckFail
  \/ \E h \in Handlers : NotifyRecv(h)
  \/ NotifyLost \/ (\E si \in Infos : RegChange(si))
  \/ Done

(***************************************************************************)
(* Fairness.  Goroutines that can run do: the callers of updateClient, the *)
(* Main goroutine, the cron jobs once the crontab runs (the cron timer     *)
(* fires every 3 s and 30 s), the registry serving requests and the gRPC  *)
(* server taking Notify requests.  Registry changes, the quit signal, RPC  *)
(* failures are the environment's and need not happen.               *)
(***************************************************************************)
Fairness ==
  /\ \A t \in Callers : WF_vars(Goroutine(t))
  /\ WF_vars(MainStep)
  /\ WF_vars(RegOnline) /\ WF_vars(RegOffline)
  /\ WF_vars(PingSend) /\ WF_vars(PingRecv)
  /\ WF_vars(CheckSend) /\ WF_vars(CheckReply)
  /\ \A h \in Handlers : WF_vars(NotifyRecv(h))

Spec == Init /\ [][Next]_vars /\ Fairness

-----------------------------------------------------------------------------
(***************************************************************************)
(* Properties.                                                             *)
(***************************************************************************)

\* The client's view agrees with the registry's.
ViewMatchesRegistry == \A a \in Addrs : si_map[a] = regInfo[a]

\* What gRPC was last given for address a is exactly the virtual nodes the
\* registry's current ServiceInfo for a calls for.
RoutedMatches(a) ==
  {k \in pushed : k[1] = a} =
    IF regInfo[a] # NoInfo /\ UC!Admit(regInfo[a])
    THEN UC!KeysOf(a, UC!Weight(regInfo[a])) ELSE {}

\* Anti-entropy (spec 4.6, Check "repairing local drift"): if the gateway
\* keeps serving, si_map eventually agrees with the registry for good,
\* whatever Notify requests were lost or applied out of order, and whatever
\* a Check reply built from an older view overwrote.
SiMapConverges == <>[](phase = "serving") => <>[]ViewMatchesRegistry

\* The same for what routing uses: if the gateway keeps serving, gRPC
\* eventually holds, for good, the virtual nodes of exactly the admitted
\* nodes of the registry.
RoutingConverges ==
  <>[](phase = "serving") => <>[](\A a \in Addrs : RoutedMatches(a))

\* A Check reply or a Notify never replaces a ServiceInfo in si_map by an
\* older version of the registry's.
NoStaleRevert == [][\A a \in Addrs : siVer'[a] >= siVer[a]]_siVer

\* Offline is terminal (spec 4.6): once the registry has heard Offline from
\* the gateway, no later request it receives says Online.
OfflineIsFinal == [][heard = "Offline" => heard' = "Offline"]_heard

=============================================================================
