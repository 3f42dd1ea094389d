---------------------------- MODULE AuthService ----------------------------
(***************************************************************************)
(* Who may use the bridge: the registry of paired devices and its file     *)
(* (bridge/src/identity/registry.ts), the nonces and access tokens held in *)
(* memory (bridge/src/auth/tokens.ts), and the streams opened with them    *)
(* (bridge/src/http/server.ts, handleUpgrade and the revocation listener). *)
(*                                                                         *)
(* Each handler here runs without interruption: it is one action.  What    *)
(* interleaves is whole requests with revocations, re-pairings, closing    *)
(* sockets, the passing of time, and restarts of the bridge process.       *)
(* Writing the registry file may fail: the exception ends the handler.     *)
(*                                                                         *)
(* A signature is genuine or it is not; nonces and tokens are 256 random   *)
(* bits and never repeat.  Time is whether a lifetime is over.             *)
(***************************************************************************)
EXTENDS FiniteSets, Naturals

CONSTANTS
  Device,
  Nonce,
  Token,
  Socket,       \* the sockets of a behaviour: phones' attempts at a stream
  None,
  MaxPairings,  \* bound: registrations of one device
  MaxFailures   \* bound: failed writes of the registry file

ASSUME AuthAssumption == /\ None \notin Device
                         /\ MaxPairings \in Nat /\ MaxFailures \in Nat

VARIABLES
  devices,   \* DeviceRegistry.devices: per device its record, in memory
  disk,      \* devices.json
  nonces,    \* AuthService.nonces: per nonce its entry
  tokens,    \* AuthService.tokens: per token its entry
  sockets,   \* per socket: its place in handleUpgrade and the hub
  dshReady,  \* the hub attaches streams
  failures,
  issued,    \* history: nonces and tokens ever issued
  reported   \* history: devices the operator was told are revoked, since they paired

registryVars == <<devices, disk, failures, reported>>
authVars == <<registryVars, nonces, tokens, sockets, dshReady, issued>>

\* A device's record counts its registrations: a re-paired device is a new one.
unknown  == [state |-> "none", pairing |-> 0]
noEntry  == [device |-> None, pairing |-> 0, late |-> FALSE]
unopened == [state |-> "new", device |-> None, token |-> None]

Entry(d) == [device |-> d, pairing |-> devices[d].pairing, late |-> FALSE]
Active(d) == devices[d].state = "active"

AuthInit ==
  /\ devices = [d \in Device |-> unknown] /\ disk = devices
  /\ nonces = [n \in Nonce |-> noEntry] /\ tokens = [t \in Token |-> noEntry]
  /\ sockets = [s \in Socket |-> unopened]
  /\ dshReady = TRUE /\ failures = 0 /\ issued = {} /\ reported = {}

-----------------------------------------------------------------------------
\* DeviceRegistry.

\* persist: the whole registry is written, or an exception is thrown.
Persist(written) ==
  IF written THEN disk' = devices' /\ UNCHANGED failures
  ELSE /\ failures < MaxFailures /\ failures' = failures + 1
       /\ UNCHANGED disk

Register(d, written) ==
  /\ ~ Active(d) /\ devices[d].pairing < MaxPairings
  /\ devices' = [devices EXCEPT ![d] = [state |-> "active", pairing |-> @.pairing + 1]]
  /\ Persist(written)
  /\ reported' = reported \ {d}
  /\ UNCHANGED <<nonces, tokens, sockets, dshReady, issued>>

Without(entries, d) == [e \in DOMAIN entries |->
                          IF entries[e].device = d THEN noEntry ELSE entries[e]]

RevokeDeviceTokens_TokensOnly(d) == tokens' = Without(tokens, d) /\ UNCHANGED nonces
RevokeDeviceTokens(d) == tokens' = Without(tokens, d) /\ nonces' = Without(nonces, d)

DisconnectDevice_Never(d) == UNCHANGED sockets
\* The hub drops the device's subscribers; their sockets stay open.
DisconnectDevice(d) ==
  sockets' = [s \in Socket |-> IF sockets[s].state = "live" /\ sockets[s].device = d
                               THEN [sockets[s] EXCEPT !.state = "dropped"] ELSE sockets[s]]

\* revoke marks the record, writes the file, then calls the listeners: a write that
\* fails leaves them uncalled.
Revoke(d, written) ==
  /\ Active(d)
  /\ devices' = [devices EXCEPT ![d].state = "revoked"]
  /\ Persist(written)
  /\ IF written
     THEN RevokeDeviceTokens(d) /\ DisconnectDevice(d) /\ reported' = reported \cup {d}
     ELSE UNCHANGED <<tokens, nonces, sockets, reported>>
  /\ UNCHANGED <<dshReady, issued>>

-----------------------------------------------------------------------------
\* Nonces and tokens.

Swept(entries) == [e \in DOMAIN entries |-> IF entries[e].late THEN noEntry ELSE entries[e]]
Sweep == nonces' = Swept(nonces) /\ tokens' = Swept(tokens)

Maintain == /\ Sweep
            /\ UNCHANGED <<registryVars, sockets, dshReady, issued>>

\* challenge, for a device that is not refused.
Challenge(d, n) ==
  /\ Active(d) /\ n \notin issued
  /\ nonces' = [Swept(nonces) EXCEPT ![n] = Entry(d)]
  /\ tokens' = Swept(tokens)
  /\ issued' = issued \cup {n}
  /\ UNCHANGED <<registryVars, sockets, dshReady>>

\* A proof that holds: the nonce was this device's and is not over.
Proves(d, n) == nonces[n].device = d /\ ~ nonces[n].late /\ Active(d)

\* authenticate consumes the nonce first. On success the token is there before touch
\* writes the registry file, and stays when that write fails.
Authenticate(d, n, t, written) ==
  /\ t \notin issued
  /\ nonces' = [nonces EXCEPT ![n] = noEntry]
  /\ IF Proves(d, n)
     THEN /\ tokens' = [tokens EXCEPT ![t] = Entry(d)]
          /\ issued' = issued \cup {t}
          /\ UNCHANGED devices /\ Persist(written)
     ELSE UNCHANGED <<tokens, issued, devices, disk, failures>>
  /\ UNCHANGED <<reported, sockets, dshReady>>

Accepts(t) == tokens[t].device # None /\ ~ tokens[t].late /\ Active(tokens[t].device)

\* verify, as /m1/rpc and /m1/respond call it: a token that is refused is deleted.
Verify(t) ==
  /\ tokens' = IF Accepts(t) THEN tokens ELSE [tokens EXCEPT ![t] = noEntry]
  /\ UNCHANGED <<registryVars, nonces, sockets, dshReady, issued>>

-----------------------------------------------------------------------------
\* Streams.

\* handleUpgrade: the token is rotated, then the hub is asked to attach the stream. If
\* dsh is not ready the socket is closed, and nobody was told the new token.
Upgrade(s, t, fresh) ==
  /\ sockets[s].state = "new" /\ Accepts(t) /\ fresh \notin issued
  /\ tokens' = [tokens EXCEPT ![t] = noEntry, ![fresh] = Entry(tokens[t].device)]
  /\ issued' = issued \cup {fresh}
  /\ sockets' = [sockets EXCEPT ![s] =
       IF dshReady THEN [state |-> "live", device |-> tokens[t].device, token |-> fresh]
       ELSE [state |-> "refused", device |-> tokens[t].device, token |-> fresh]]
  /\ UNCHANGED <<registryVars, nonces, dshReady>>

SocketCloses_KeepToken(s) ==
  /\ sockets[s].state \in {"live", "dropped"}
  /\ sockets' = [sockets EXCEPT ![s].state = "closed"]
  /\ UNCHANGED <<registryVars, nonces, tokens, dshReady, issued>>
\* onClose: the stream is detached and its own token goes with it.
SocketCloses(s) ==
  /\ sockets[s].state \in {"live", "dropped"}
  /\ sockets' = [sockets EXCEPT ![s].state = "closed"]
  /\ tokens' = [tokens EXCEPT ![sockets[s].token] = noEntry]
  /\ UNCHANGED <<registryVars, nonces, dshReady, issued>>

-----------------------------------------------------------------------------
\* Around them.

Elapses ==
  /\ \/ \E n \in Nonce : /\ nonces[n].device # None /\ ~ nonces[n].late
                         /\ nonces' = [nonces EXCEPT ![n].late = TRUE] /\ UNCHANGED tokens
     \/ \E t \in Token : /\ tokens[t].device # None /\ ~ tokens[t].late
                         /\ tokens' = [tokens EXCEPT ![t].late = TRUE] /\ UNCHANGED nonces
  /\ UNCHANGED <<registryVars, sockets, dshReady, issued>>

DshReadiness == /\ dshReady' = ~ dshReady
                /\ UNCHANGED <<registryVars, nonces, tokens, sockets, issued>>

\* The process ends and is started again: what it knows is what it wrote.
Restart ==
  /\ devices' = disk
  /\ nonces' = [n \in Nonce |-> noEntry] /\ tokens' = [t \in Token |-> noEntry]
  /\ sockets' = [s \in Socket |-> IF sockets[s].state \in {"live", "dropped"}
                                  THEN [sockets[s] EXCEPT !.state = "closed"] ELSE sockets[s]]
  /\ UNCHANGED <<disk, failures, reported, dshReady, issued>>

AuthNext ==
  \/ \E d \in Device, written \in BOOLEAN : Register(d, written) \/ Revoke(d, written)
  \/ \E d \in Device, n \in Nonce : Challenge(d, n)
  \/ \E d \in Device, n \in Nonce \cap issued, t \in Token, written \in BOOLEAN :
       Authenticate(d, n, t, written)
  \/ \E t \in Token \cap issued : Verify(t)
  \/ \E s \in Socket, t, fresh \in Token : Upgrade(s, t, fresh)
  \/ \E s \in Socket : SocketCloses(s)
  \/ Maintain \/ Elapses \/ DshReadiness \/ Restart

AuthSpec == AuthInit /\ [][AuthNext]_authVars

-----------------------------------------------------------------------------
\* A revocation that was reported is complete and stays so, whatever requests, failed
\* writes and restarts follow: the device is out in memory and on disk, follows no
\* stream, and holds no token and no nonce.
RevokedIsOut ==
  \A d \in reported :
    /\ devices[d].state = "revoked" /\ disk[d].state = "revoked"
    /\ \A s \in Socket : sockets[s].device = d => sockets[s].state # "live"
    /\ \A n \in Nonce : nonces[n].device # d
    /\ \A t \in Token : tokens[t].device # d

\* A device that was revoked and paired again starts from nothing: no token and no nonce
\* of its earlier pairing is good for the new one, unless a revocation's write failed
\* and its listeners never ran.
NothingOutlivesAPairing ==
  failures = 0 =>
    /\ \A t \in Token : Accepts(t) => tokens[t].pairing = devices[tokens[t].device].pairing
    /\ \A n \in Nonce : \A d \in Device : Proves(d, n) => nonces[n].pairing = devices[d].pairing

\* A token that was handed out on a stream dies with that stream.
StreamTokenDiesWithIt ==
  \A s \in Socket : sockets[s].state = "closed" => tokens[sockets[s].token].device = None
=============================================================================
