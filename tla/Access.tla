------------------------------- MODULE Access -------------------------------
(***************************************************************************)
(* The bridge around its registry: what a pairing grants and what a        *)
(* revocation takes back, across two files and two processes.              *)
(*                                                                         *)
(* To AuthService this adds the tier of a pairing and the calls that are   *)
(* judged by it (bridge/src/http/server.ts, handleRpc; policy/gate.ts),    *)
(* the identity file with the relay and the routes (identity/store.ts),    *)
(* the connectors that follow them (bridge.ts), the relay settings of the  *)
(* panel (panel/api.ts, panel-ui/panel.js) and of the terminal, which      *)
(* writes the same file from a process of its own (cli.ts).                *)
(*                                                                         *)
(* A confirmation and a revocation write devices.json, then identity.json: *)
(* the process may end in between.  A route is the pairing it was made     *)
(* for; a relay's URL is one that both validations let pass.               *)
(***************************************************************************)
EXTENDS AuthService

CONSTANTS
  Call,         \* requests to /m1/rpc
  Relay,        \* URLs of relays
  MaxCommands   \* bound: changes of the relay's setting, by whomever

ASSUME AccessAssumption == None \notin Relay /\ MaxCommands \in Nat

VARIABLES
  tier,        \* DeviceRecord.tier, in memory and in devices.json
  call,        \* per request: the record that authorize captured, and its fate
  identity,    \* IdentityStore.file of the bridge: its relay and its routes
  file,        \* identity.json
  running,     \* the relay of this process: its pin, and the one in use
  connectors,  \* devices with a RelayConnector
  lingering,   \* revoked devices whose connector says goodbye
  handler,     \* the confirmation or revocation between its two files
  terminal,    \* the relay command: what it read of identity.json
  commands,
  unsaved,     \* failed writes of identity.json
  chosen,      \* history: the tier the operator chose, per device and pairing
  foreign      \* history: the command wrote since the bridge last wrote or read

routeVars  == <<identity, file, connectors, lingering, handler, foreign, unsaved>>
relayVars  == <<running, terminal, commands>>
accessVars == <<authVars, tier, call, routeVars, relayVars, chosen>>

noHandler == [doing |-> "nothing", device |-> None]
noCall    == [state |-> "none", device |-> None, pairing |-> 0, tier |-> "default",
              method |-> "none"]
empty     == [relay |-> None, routes |-> [d \in Device |-> 0]]

Tiers == {"default", "extended"}
\* What a method may be: its class, in the order of DENIED_METHODS to OPT_IN_METHODS.
Methods == {"denied", "unknown", "default", "respond", "opt-in"}

AccessInit ==
  /\ AuthInit
  /\ tier = [now |-> [d \in Device |-> "default"], disk |-> [d \in Device |-> "default"]]
  /\ call = [c \in Call |-> noCall]
  /\ identity = empty /\ file = empty
  /\ running = [pin |-> None, active |-> None]
  /\ connectors = {} /\ lingering = {} /\ handler = noHandler /\ unsaved = 0
  /\ terminal = <<>> /\ commands = 0 /\ foreign = FALSE
  /\ chosen = [d \in Device |-> [p \in 1..MaxPairings |-> "default"]]

-----------------------------------------------------------------------------
\* IdentityStore.persist: the bridge's copy replaces the file, whatever is in it.
Saves(written) ==
  IF written
  THEN file' = identity' /\ foreign' = FALSE /\ UNCHANGED unsaved
  ELSE /\ failures + unsaved < MaxFailures /\ unsaved' = unsaved + 1
       /\ UNCHANGED <<file, foreign>>

\* What devices.json holds of the tiers once the registry was written, or was not.
TierWritten(now, written) ==
  tier' = [now |-> now, disk |-> IF written THEN now ELSE tier.disk]

Synced_Anyone(routes, records) == {d \in Device : routes[d] # 0}
\* syncConnectors: those of devices that are gone or revoked stop, those missing start.
Synced(routes, records) == {d \in Device : routes[d] # 0 /\ records[d].state = "active"}

\* Between its two files a handler runs on: nothing else of the process does.
Free == handler.doing = "nothing"

\* addRoute, then syncConnectors: a write that fails leaves the connectors as they are.
AddRoute(d, written) ==
  /\ identity' = [identity EXCEPT !.routes[d] = devices[d].pairing]
  /\ Saves(written)
  /\ connectors' = IF written THEN Synced(identity'.routes, devices) ELSE connectors
  /\ UNCHANGED <<authVars, tier, call, lingering, relayVars, chosen>>

-----------------------------------------------------------------------------
\* Pairing and revocation.

Confirm_KeepTier(d, t, overRelay, written) ==
  /\ Free /\ Register(d, written)
  /\ overRelay => running.active # None
  /\ TierWritten(IF devices[d].pairing = 0 THEN [tier.now EXCEPT ![d] = t] ELSE tier.now, written)
  /\ chosen' = [chosen EXCEPT ![d][devices'[d].pairing] = t]
  /\ handler' = IF written /\ overRelay THEN [doing |-> "confirm", device |-> d] ELSE noHandler
  /\ UNCHANGED <<call, identity, file, foreign, unsaved, connectors, lingering, relayVars>>
\* confirm, its first half: the device is registered with the tier of the window.
Confirm(d, t, overRelay, written) ==
  /\ Free /\ Register(d, written)
  /\ overRelay => running.active # None
  /\ TierWritten([tier.now EXCEPT ![d] = t], written)
  /\ chosen' = [chosen EXCEPT ![d][devices'[d].pairing] = t]
  /\ handler' = IF written /\ overRelay THEN [doing |-> "confirm", device |-> d] ELSE noHandler
  /\ UNCHANGED <<call, identity, file, foreign, unsaved, connectors, lingering, relayVars>>

\* Its second half: the route of the phone that proved itself over the rendezvous.
ConfirmRoutes(written) ==
  /\ handler.doing = "confirm"
  /\ AddRoute(handler.device, written)
  /\ handler' = noHandler

\* assignRoute: a last poll of the phone over the rendezvous, which lingers.
AssignRoute(d, written) ==
  /\ Free /\ Active(d) /\ running.active # None
  /\ AddRoute(d, written)
  /\ UNCHANGED handler

\* revoke, its first half, with both listeners: the bridge's own keeps the connector
\* for a while, outside the map.
RevokeDevice(d, written) ==
  /\ Free /\ Revoke(d, written)
  /\ TierWritten(tier.now, written)
  /\ IF written
     THEN /\ connectors' = connectors \ {d}
          /\ lingering' = lingering \cup (connectors \cap {d})
          /\ handler' = [doing |-> "revoke", device |-> d]
     ELSE UNCHANGED <<connectors, lingering, handler>>
  /\ UNCHANGED <<call, identity, file, foreign, unsaved, relayVars, chosen>>

\* Its second half: removeRoute writes only when there is one.
RemoveRoute(written) ==
  LET d == handler.device IN
  /\ handler.doing = "revoke" /\ handler' = noHandler
  /\ IF identity.routes[d] = 0
     THEN written /\ UNCHANGED <<identity, file, foreign, unsaved>>
     ELSE identity' = [identity EXCEPT !.routes[d] = 0] /\ Saves(written)
  /\ UNCHANGED <<authVars, tier, call, connectors, lingering, relayVars, chosen>>

LingerEnds(d) ==
  /\ d \in lingering /\ lingering' = lingering \ {d}
  /\ UNCHANGED <<authVars, tier, call, identity, file, foreign, unsaved, connectors, handler,
                 relayVars, chosen>>

-----------------------------------------------------------------------------
\* The relay's setting.

\* buildBridge: a relay of the command line or of the plugin's configuration wins.
NextRelay(pin, saved) == IF pin # None THEN pin ELSE saved

\* setRelay and clearRelay: refused when the relay is pinned. The copy in memory has
\* changed when the write fails.
SetRelay(url, written) ==
  /\ Free /\ running.pin = None /\ commands < MaxCommands
  /\ commands' = commands + 1
  /\ identity' = [identity EXCEPT !.relay = url] /\ Saves(written)
  /\ UNCHANGED <<authVars, tier, call, connectors, lingering, handler, running, terminal, chosen>>

RestartRequired_PinOrNot(copy) == running.active # copy.relay
\* relayView: judged from the copy in memory.
RestartRequired(copy) == running.pin = None /\ running.active # copy.relay

\* The relay command of the terminal, in its own process: it reads the file, changes the
\* relay in its copy, and writes the copy.
TerminalReads ==
  /\ terminal = <<>> /\ commands < MaxCommands
  /\ commands' = commands + 1 /\ terminal' = <<file>>
  /\ UNCHANGED <<authVars, tier, call, routeVars, running, chosen>>
TerminalWrites(url) ==
  /\ terminal # <<>>
  /\ file' = [terminal[1] EXCEPT !.relay = url]
  /\ terminal' = <<>> /\ foreign' = TRUE
  /\ UNCHANGED <<authVars, tier, call, identity, unsaved, connectors, lingering, handler,
                 running, commands, chosen>>

-----------------------------------------------------------------------------
\* POST /m1/rpc.

\* What a tier reaches: a method that is denied or unknown is in no list.
Allowed(t) == {"default", "respond"} \cup IF t = "extended" THEN {"opt-in"} ELSE {}

\* evaluate: the method first, then the payload, which is within its limits or is not.
\* Slash commands are allowed to every device: nothing turns them off.
Admits(t, method, sound) == method \in Allowed(t) /\ sound

\* authorize captures the record; then the handler waits for the body.
Authorize(c, t) ==
  /\ Free /\ call[c].state \in {"none", "ended"}
  /\ Verify(t)
  /\ call' = [call EXCEPT ![c] =
       IF Accepts(t)
       THEN LET d == tokens[t].device IN
            [state |-> "reading", device |-> d, pairing |-> devices[d].pairing,
             tier |-> tier.now[d], method |-> "none"]
       ELSE [noCall EXCEPT !.state = "ended"]]
  /\ UNCHANGED <<tier, routeVars, relayVars, chosen>>

\* The body came: the gate judges it by the captured record; `respond` has a route of
\* its own, and nothing is asked of a dsh that is away.
Evaluate(c, method, sound, connected) ==
  /\ Free /\ call[c].state = "reading"
  /\ call' = IF Admits(call[c].tier, method, sound) /\ method # "respond" /\ connected
             THEN [call EXCEPT ![c].state = "forwarded", ![c].method = method]
             ELSE [call EXCEPT ![c] = [noCall EXCEPT !.state = "ended"]]
  /\ UNCHANGED <<authVars, tier, routeVars, relayVars, chosen>>

\* dsh answers, or does not.
CallEnds(c) ==
  /\ call[c].state = "forwarded"
  /\ call' = [call EXCEPT ![c] = [noCall EXCEPT !.state = "ended"]]
  /\ UNCHANGED <<authVars, tier, routeVars, relayVars, chosen>>

-----------------------------------------------------------------------------
\* Of AuthService.

\* The token is there before touch writes the registry, all of it.
AuthenticateDevice(d, n, t, written) ==
  /\ Free /\ Authenticate(d, n, t, written)
  /\ TierWritten(tier.now, written /\ Proves(d, n))
  /\ UNCHANGED <<call, routeVars, relayVars, chosen>>

Unaffected == UNCHANGED <<tier, call, routeVars, relayVars, chosen>>

\* The process is started again, maybe with another pin, from the two files.
RestartBridge(pin) ==
  /\ Restart
  /\ tier' = [tier EXCEPT !.now = tier.disk]
  /\ call' = [c \in Call |-> noCall]
  /\ identity' = file /\ foreign' = FALSE
  /\ running' = [pin |-> pin, active |-> NextRelay(pin, file.relay)]
  /\ connectors' = IF running'.active # None THEN Synced(file.routes, disk) ELSE {}
  /\ lingering' = {} /\ handler' = noHandler
  /\ UNCHANGED <<file, unsaved, terminal, commands, chosen>>

AccessNext ==
  \/ \E d \in Device, t \in Tiers, overRelay, written \in BOOLEAN :
       Confirm(d, t, overRelay, written)
  \/ \E written \in BOOLEAN : ConfirmRoutes(written) \/ RemoveRoute(written)
  \/ \E d \in Device, written \in BOOLEAN : AssignRoute(d, written) \/ RevokeDevice(d, written)
  \/ \E d \in Device : LingerEnds(d)
  \/ \E url \in Relay \cup {None}, written \in BOOLEAN : SetRelay(url, written)
  \/ TerminalReads
  \/ \E url \in Relay \cup {None} : TerminalWrites(url)
  \/ \E c \in Call, t \in Token \cap issued : Authorize(c, t)
  \/ \E c \in Call, method \in Methods, sound, connected \in BOOLEAN :
       Evaluate(c, method, sound, connected)
  \/ \E c \in Call : CallEnds(c)
  \/ \E d \in Device, n \in Nonce \cap issued, t \in Token, written \in BOOLEAN :
       AuthenticateDevice(d, n, t, written)
  \/ /\ Free /\ Unaffected
     /\ \/ \E d \in Device, n \in Nonce : Challenge(d, n)
        \/ \E t \in Token \cap issued : Verify(t)
        \/ \E s \in Socket, t, fresh \in Token : Upgrade(s, t, fresh)
        \/ \E s \in Socket : SocketCloses(s)
        \/ Maintain \/ Elapses \/ DshReadiness
  \/ \E pin \in Relay \cup {None} : RestartBridge(pin)

AccessSpec == AccessInit /\ [][AccessNext]_accessVars

-----------------------------------------------------------------------------
\* A device whose revocation was reported has no tunnel but the one that says goodbye,
\* and none comes up again: not when the process ended between the two files of its
\* revocation, nor when the terminal wrote back an identity file it had read before.
NoTunnelForTheRevoked == \A d \in reported : d \notin connectors

\* A call that dsh gets is one that the tier allows which the operator chose for that
\* pairing of the device, whatever became of the device while the body was on its way.
CallsAreInScope ==
  \A c \in Call : call[c].state = "forwarded" =>
    \/ call[c].method = "default"
    \/ call[c].method = "opt-in" /\ chosen[call[c].device][call[c].pairing] = "extended"

\* The panel asks for a restart exactly when one would change the relay in use, as long
\* as the last write of the identity file was the bridge's own and none of its failed.
RestartHintIsExact ==
  ~ foreign /\ unsaved = 0 =>
    (RestartRequired(identity) <=> NextRelay(running.pin, file.relay) # running.active)
=============================================================================
